----------------------------- MODULE ListProofs -----------------------------
(* Facts about least elements, sequences and lists without repetition that the proofs about  *)
(* the queues of the kernel share.                                                            *)
EXTENDS Integers, SequencesExt, ListOps, WellFoundedInduction, SequenceTheorems, FiniteSetTheorems, TLAPS

-----------------------------------------------------------------------------
(* Least elements and ranges *)

(* A nonempty set of naturals has a least element, the one Min chooses. *)
LEMMA MinNat ==
  ASSUME NEW S, S \subseteq Nat, S # {}
  PROVE  Min(S) \in S /\ \A y \in S : Min(S) <= y
<1>1. IsWellFoundedOn(OpToRel(<, Nat), Nat)
  BY NatLessThanWellFounded
<1>2. PICK x \in S : \A y \in S : ~(<<y, x>> \in OpToRel(<, Nat))
  BY <1>1, WFMin
<1>3. ASSUME NEW y \in S, y < x PROVE FALSE
  <2>1. y \in Nat /\ x \in Nat
    OBVIOUS
  <2>2. <<y, x>> \in OpToRel(<, Nat)
    BY <2>1, <1>3 DEF OpToRel
  <2>3. QED
    BY <2>2, <1>2
<1>4. \A y \in S : x <= y
  BY <1>3
<1>5. QED
  BY <1>4 DEF Min

(* RemoveFirst drops one element: what is left comes from the sequence, and only the removed *)
(* element can be missing. *)
LEMMA RemoveFirstType ==
  ASSUME NEW T, NEW s \in Seq(T), NEW x
  PROVE  RemoveFirst(s, x) \in Seq(T)
<1>1. CASE ~ \E i \in 1 .. Len(s) : s[i] = x
  BY <1>1 DEF RemoveFirst
<1>2. CASE \E i \in 1 .. Len(s) : s[i] = x
  <2> DEFINE I == {i \in 1 .. Len(s) : s[i] = x}
             k == Min(I)
  <2>1. Len(s) \in Nat /\ I \subseteq Nat /\ I # {}
    BY <1>2
  <2>2. k \in 1 .. Len(s)
    BY <2>1, MinNat
  <2>3. RemoveFirst(s, x) = SubSeq(s, 1, k - 1) \o SubSeq(s, k + 1, Len(s))
    BY <1>2, <2>1 DEF RemoveFirst, RemoveAt, SelectInSeq
  <2> HIDE DEF I, k
  <2>4. SubSeq(s, 1, k - 1) \in Seq(T)
    BY <2>2, SubSeqProperties
  <2>5. SubSeq(s, k + 1, Len(s)) \in Seq(T)
    BY <2>2, SubSeqProperties
  <2>6. QED
    BY <2>3, <2>4, <2>5
<1>3. QED
  BY <1>1, <1>2

(* A concatenation holds the elements of both sequences. *)
LEMMA RangeConcat ==
  ASSUME NEW S, NEW X \in Seq(S), NEW Y \in Seq(S)
  PROVE  Range(X \o Y) = Range(X) \cup Range(Y)
<1>1. /\ X \o Y \in Seq(S) /\ Len(X \o Y) = Len(X) + Len(Y) /\ Len(X) \in Nat /\ Len(Y) \in Nat
      /\ DOMAIN X = 1 .. Len(X) /\ DOMAIN Y = 1 .. Len(Y) /\ DOMAIN (X \o Y) = 1 .. Len(X) + Len(Y)
      /\ \A i \in 1 .. Len(X) + Len(Y) : (X \o Y)[i] = IF i <= Len(X) THEN X[i] ELSE Y[i - Len(X)]
  OBVIOUS
<1>2. ASSUME NEW f \in Range(X \o Y) PROVE f \in Range(X) \cup Range(Y)
  BY <1>1 DEF Range
<1>3. ASSUME NEW f \in Range(X) PROVE f \in Range(X \o Y)
  BY <1>1 DEF Range
<1>4. ASSUME NEW f \in Range(Y) PROVE f \in Range(X \o Y)
  <2>1. PICK j \in 1 .. Len(Y) : f = Y[j]
    BY <1>1 DEF Range
  <2>2. j + Len(X) \in 1 .. Len(X) + Len(Y) /\ (X \o Y)[j + Len(X)] = Y[j]
    BY <1>1
  <2>3. QED
    BY <1>1, <2>1, <2>2 DEF Range
<1>5. QED
  BY <1>2, <1>3, <1>4

(* A sequence of one element holds that element. *)
LEMMA RangeSingle ==
  ASSUME NEW e
  PROVE  Range(<<e>>) = {e}
<1>1. DOMAIN <<e>> = {1} /\ <<e>>[1] = e
  OBVIOUS
<1>2. QED
  BY <1>1 DEF Range

(* A nonempty sequence holds its head and what its tail holds. *)
LEMMA RangeTail ==
  ASSUME NEW S, NEW X \in Seq(S), X # <<>>
  PROVE  Range(X) = {Head(X)} \cup Range(Tail(X))
<1>1. X = <<Head(X)>> \o Tail(X) /\ <<Head(X)>> \in Seq(S) /\ Tail(X) \in Seq(S)
  OBVIOUS
<1>2. Range(<<Head(X)>>) = {Head(X)}
  BY RangeSingle
<1>3. Range(<<Head(X)>> \o Tail(X)) = Range(<<Head(X)>>) \cup Range(Tail(X))
  BY <1>1, RangeConcat, ZenonT(30)
<1>4. QED
  BY <1>1, <1>2, <1>3, Zenon

-----------------------------------------------------------------------------
(* Lists without repetition *)

\* The list q holds exactly the elements of S, each once
Lists(q, S) == IsInjective(q) /\ Range(q) = S

(* A new element at the back. *)
LEMMA ListsAppend ==
  ASSUME NEW T, NEW q \in Seq(T), NEW S, Lists(q, S), NEW x \in T, x \notin S
  PROVE  Lists(Append(q, x), S \cup {x})
<1>1. /\ Len(q) \in Nat /\ DOMAIN q = 1 .. Len(q)
      /\ DOMAIN Append(q, x) = 1 .. Len(q) + 1
      /\ \A i \in 1 .. Len(q) : Append(q, x)[i] = q[i]
      /\ Append(q, x)[Len(q) + 1] = x
  OBVIOUS
<1>2. \A i \in 1 .. Len(q) : q[i] # x
  BY <1>1 DEF Lists, Range
<1>3. IsInjective(Append(q, x))
  BY <1>1, <1>2 DEF Lists, IsInjective
<1>4. Range(Append(q, x)) = S \cup {x}
  <2>1. \A y \in S : \E i \in 1 .. Len(q) : q[i] = y
    BY <1>1 DEF Lists, Range
  <2>2. \A i \in 1 .. Len(q) : q[i] \in S
    BY <1>1 DEF Lists, Range
  <2>3. \A y \in Range(Append(q, x)) : y \in S \cup {x}
    BY <1>1, <2>2 DEF Range
  <2>4. \A y \in S : y \in Range(Append(q, x))
    BY <1>1, <2>1 DEF Range
  <2>5. x \in Range(Append(q, x))
    BY <1>1 DEF Range
  <2>6. QED
    BY <2>3, <2>4, <2>5
<1>5. QED
  BY <1>3, <1>4 DEF Lists

(* A new element at the front. *)
LEMMA ListsPush ==
  ASSUME NEW T, NEW q \in Seq(T), NEW S, Lists(q, S), NEW x \in T, x \notin S
  PROVE  Lists(<<x>> \o q, S \cup {x})
<1>1. /\ Len(q) \in Nat /\ DOMAIN q = 1 .. Len(q)
      /\ DOMAIN (<<x>> \o q) = 1 .. Len(q) + 1
      /\ \A i \in 1 .. Len(q) + 1 : (<<x>> \o q)[i] = IF i = 1 THEN x ELSE q[i - 1]
  OBVIOUS
<1>2. \A i \in 1 .. Len(q) : q[i] # x
  BY <1>1 DEF Lists, Range
<1>3. IsInjective(<<x>> \o q)
  <2> SUFFICES ASSUME NEW a \in 1 .. Len(q) + 1, NEW b \in 1 .. Len(q) + 1,
                      (<<x>> \o q)[a] = (<<x>> \o q)[b]
               PROVE  a = b
    BY <1>1 DEF IsInjective
  <2>1. CASE a = 1 \/ b = 1
    BY <1>1, <1>2, <2>1
  <2>2. CASE a # 1 /\ b # 1
    <3>1. a - 1 \in DOMAIN q /\ b - 1 \in DOMAIN q /\ q[a - 1] = q[b - 1]
      BY <1>1, <2>2
    <3>2. a - 1 = b - 1
      BY <3>1 DEF Lists, IsInjective
    <3>3. QED
      BY <1>1, <3>2
  <2>3. QED
    BY <2>1, <2>2
<1>4. Range(<<x>> \o q) = S \cup {x}
  <2>1. Range(<<x>>) = {x} /\ <<x>> \in Seq(T)
    BY RangeSingle
  <2>2. Range(<<x>> \o q) = Range(<<x>>) \cup Range(q)
    BY <2>1, RangeConcat, ZenonT(40)
  <2>3. QED
    BY <2>1, <2>2, Zenon DEF Lists
<1>5. QED
  BY <1>3, <1>4 DEF Lists

(* The first element leaves. *)
LEMMA ListsTail ==
  ASSUME NEW T, NEW q \in Seq(T), NEW S, Lists(q, S), q # <<>>
  PROVE  Head(q) \in S /\ Lists(Tail(q), S \ {Head(q)})
<1>1. /\ Len(q) \in Nat \ {0} /\ DOMAIN q = 1 .. Len(q) /\ Head(q) = q[1]
      /\ DOMAIN Tail(q) = 1 .. Len(q) - 1
      /\ \A i \in 1 .. Len(q) - 1 : Tail(q)[i] = q[i + 1]
  OBVIOUS
<1>2. IsInjective(Tail(q))
  <2> SUFFICES ASSUME NEW a \in 1 .. Len(q) - 1, NEW b \in 1 .. Len(q) - 1, Tail(q)[a] = Tail(q)[b]
               PROVE  a = b
    BY <1>1 DEF IsInjective
  <2>1. a + 1 \in DOMAIN q /\ b + 1 \in DOMAIN q /\ q[a + 1] = q[b + 1]
    BY <1>1
  <2>2. a + 1 = b + 1
    BY <2>1 DEF Lists, IsInjective
  <2>3. QED
    BY <1>1, <2>2
<1>3. Head(q) \notin Range(Tail(q))
  <2> SUFFICES ASSUME NEW a \in 1 .. Len(q) - 1, Tail(q)[a] = Head(q) PROVE FALSE
    BY <1>1 DEF Range
  <2>1. a + 1 \in DOMAIN q /\ 1 \in DOMAIN q /\ q[a + 1] = q[1]
    BY <1>1
  <2>2. a + 1 = 1
    BY <2>1 DEF Lists, IsInjective
  <2>3. QED
    BY <1>1, <2>2
<1>4. Range(q) = {Head(q)} \cup Range(Tail(q))
  BY RangeTail
<1>5. QED
  BY <1>2, <1>3, <1>4 DEF Lists

\* r is q without what is at k, the first place of x
WithoutPlace(q, x, k, r) ==
  /\ q[k] = x /\ \A i \in 1 .. k - 1 : q[i] # x
  /\ Len(r) = Len(q) - 1
  /\ \A i \in 1 .. Len(q) - 1 : r[i] = IF i < k THEN q[i] ELSE q[i + 1]

(* RemoveFirst takes out the first place of an element, and what is behind it moves up. *)
LEMMA RemoveFirstPlaces ==
  ASSUME NEW T, NEW q \in Seq(T), NEW x, \E i \in 1 .. Len(q) : q[i] = x
  PROVE  /\ RemoveFirst(q, x) \in Seq(T)
         /\ \E k \in 1 .. Len(q) : WithoutPlace(q, x, k, RemoveFirst(q, x))
<1> DEFINE I == {i \in 1 .. Len(q) : q[i] = x}
           k == Min(I)
           A == SubSeq(q, 1, k - 1)
           B == SubSeq(q, k + 1, Len(q))
           r == RemoveFirst(q, x)
<1>1. Len(q) \in Nat /\ DOMAIN q = 1 .. Len(q) /\ I \subseteq Nat /\ I # {}
  OBVIOUS
<1>2. k \in 1 .. Len(q) /\ q[k] = x /\ \A i \in 1 .. k - 1 : q[i] # x
  <2>1. k \in I /\ \A y \in I : k <= y
    BY <1>1, MinNat
  <2> HIDE DEF k
  <2>2. \A i \in 1 .. k - 1 : i \in 1 .. Len(q) /\ ~(k <= i)
    BY <2>1
  <2>3. QED
    BY <2>1, <2>2
<1>3. r = A \o B
  BY <1>1 DEF RemoveFirst, RemoveAt, SelectInSeq
<1> HIDE DEF I, k, r
<1>4. /\ A \in Seq(T) /\ Len(A) = k - 1 /\ \A i \in 1 .. k - 1 : A[i] = q[i]
  <2>1. k - 1 \in Int /\ \A i \in 1 .. k - 1 : q[i] \in T
    BY <1>1, <1>2
  <2>2. /\ A \in Seq(T) /\ Len(A) = (IF 1 <= k - 1 THEN k - 1 - 1 + 1 ELSE 0)
        /\ \A i \in 1 .. k - 1 - 1 + 1 : A[i] = q[1 + i - 1]
    BY <2>1, SubSeqProperties
  <2>3. QED
    BY <1>1, <1>2, <2>2
<1>5. /\ B \in Seq(T) /\ Len(B) = Len(q) - k /\ \A i \in 1 .. Len(q) - k : B[i] = q[k + i]
  <2>1. k + 1 \in Int /\ Len(q) \in Int /\ \A i \in k + 1 .. Len(q) : q[i] \in T
    BY <1>1, <1>2
  <2>2. /\ B \in Seq(T) /\ Len(B) = (IF k + 1 <= Len(q) THEN Len(q) - (k + 1) + 1 ELSE 0)
        /\ \A i \in 1 .. Len(q) - (k + 1) + 1 : B[i] = q[k + 1 + i - 1]
    BY <2>1, SubSeqProperties
  <2> HIDE DEF B
  <2>3. Len(q) - (k + 1) + 1 = Len(q) - k /\ \A i \in 1 .. Len(q) - k : k + 1 + i - 1 = k + i
    BY <1>1, <1>2
  <2>4. Len(B) = (IF k + 1 <= Len(q) THEN Len(q) - (k + 1) + 1 ELSE 0)
    BY ONLY <2>2
  <2>5. Len(q) \in Nat /\ k \in 1 .. Len(q)
    BY ONLY <1>1, <1>2
  <2>6. Len(B) = Len(q) - k
    BY ONLY <2>4, <2>5
  <2>7. QED
    BY <2>2, <2>3, <2>6
<1> HIDE DEF A, B
<1>6. /\ r \in Seq(T) /\ Len(r) = Len(q) - 1
      /\ \A i \in 1 .. Len(q) - 1 : r[i] = IF i < k THEN q[i] ELSE q[i + 1]
  <2>1. /\ A \o B \in Seq(T) /\ Len(A \o B) = Len(q) - 1
        /\ \A i \in 1 .. Len(q) - 1 : (A \o B)[i] = IF i <= k - 1 THEN A[i] ELSE B[i - (k - 1)]
    <3>1. /\ A \o B \in Seq(T) /\ Len(A \o B) = Len(A) + Len(B)
          /\ \A i \in 1 .. Len(A) + Len(B) : (A \o B)[i] = IF i <= Len(A) THEN A[i] ELSE B[i - Len(A)]
      BY <1>4, <1>5, ConcatProperties
    <3>2. Len(A) = k - 1 /\ Len(A) + Len(B) = Len(q) - 1
      BY <1>1, <1>2, <1>4, <1>5
    <3>3. QED
      BY <3>1, <3>2
  <2>2. \A i \in 1 .. Len(q) - 1 : (A \o B)[i] = IF i < k THEN q[i] ELSE q[i + 1]
    <3> SUFFICES ASSUME NEW i \in 1 .. Len(q) - 1
                 PROVE  (A \o B)[i] = IF i < k THEN q[i] ELSE q[i + 1]
      OBVIOUS
    <3>1. CASE i < k
      BY <1>1, <1>2, <1>4, <2>1, <3>1
    <3>2. CASE ~(i < k)
      <4>1. i - (k - 1) \in 1 .. Len(q) - k /\ k + (i - (k - 1)) = i + 1
        BY <1>1, <1>2, <3>2
      <4>a. ~(i <= k - 1)
        BY <1>1, <1>2, <3>2
      <4>b. (A \o B)[i] = IF i <= k - 1 THEN A[i] ELSE B[i - (k - 1)]
        BY <2>1, Zenon
      <4>2. (A \o B)[i] = B[i - (k - 1)]
        BY <4>a, <4>b, Zenon
      <4>3. QED
        BY <1>5, <3>2, <4>1, <4>2
    <3>3. QED
      BY <3>1, <3>2
  <2>3. QED
    BY <1>3, <2>1, <2>2
<1>7. WithoutPlace(q, x, k, r)
  BY <1>2, <1>6 DEF WithoutPlace
<1>8. QED
  BY <1>2, <1>6, <1>7 DEF r

(* An element that is not there leaves nothing to remove, and the first one leaves the rest. *)
LEMMA RemoveEnds ==
  ASSUME NEW T, NEW q \in Seq(T), NEW x
  PROVE  /\ (\A i \in 1 .. Len(q) : q[i] # x) => RemoveFirst(q, x) = q
         /\ q # <<>> /\ Head(q) = x => RemoveFirst(q, x) = Tail(q)
<1>1. (\A i \in 1 .. Len(q) : q[i] # x) => RemoveFirst(q, x) = q
  BY DEF RemoveFirst
<1>2. ASSUME q # <<>>, Head(q) = x PROVE RemoveFirst(q, x) = Tail(q)
  <2> DEFINE r == RemoveFirst(q, x)
             z == Tail(q)
  <2>1. Len(q) \in Nat /\ 1 \in 1 .. Len(q) /\ q[1] = x
    BY <1>2
  <2>0. r \in Seq(T) /\ \E k \in 1 .. Len(q) : WithoutPlace(q, x, k, r)
    BY <2>1, RemoveFirstPlaces
  <2>2. PICK k \in 1 .. Len(q) : WithoutPlace(q, x, k, r)
    BY <2>0
  <2>a. /\ q[k] = x /\ (\A i \in 1 .. k - 1 : q[i] # x) /\ r \in Seq(T) /\ Len(r) = Len(q) - 1
        /\ \A i \in 1 .. Len(q) - 1 : r[i] = IF i < k THEN q[i] ELSE q[i + 1]
    BY <2>0, <2>2 DEF WithoutPlace
  <2>3. k = 1
    <3>1. ~(1 \in 1 .. k - 1)
      BY <2>1, <2>a
    <3>2. QED
      BY <2>1, <3>1
  <2>4. /\ z \in Seq(T) /\ Len(z) = Len(q) - 1
        /\ \A i \in 1 .. Len(z) : z[i] = q[i + 1]
    BY <1>2, HeadTailProperties
  <2> HIDE DEF r, z
  <2>5. \A i \in 1 .. Len(r) : r[i] = z[i]
    BY <2>1, <2>a, <2>3, <2>4
  <2>6. r = z
    BY <2>a, <2>4, <2>5, SeqEqual
  <2>7. QED
    BY <2>6 DEF r, z
<1>3. QED
  BY <1>1, <1>2

(* Removing an element does not see another one in front. *)
LEMMA RemoveBehind ==
  ASSUME NEW T, NEW q \in Seq(T), NEW t \in T, NEW x, t # x
  PROVE  RemoveFirst(<<t>> \o q, x) = <<t>> \o RemoveFirst(q, x)
<1>0. PICK p : p = <<t>> \o q
  OBVIOUS
<1> DEFINE r == RemoveFirst(q, x)
           z == RemoveFirst(p, x)
<1>1. /\ p \in Seq(T) /\ Len(q) \in Nat /\ Len(p) = Len(q) + 1
      /\ \A i \in 1 .. Len(q) + 1 : p[i] = IF i = 1 THEN t ELSE q[i - 1]
  BY <1>0
<1>2. CASE ~ \E i \in 1 .. Len(q) : q[i] = x
  <2>1. \A i \in 1 .. Len(p) : p[i] # x
    <3>1. \A i \in 1 .. Len(q) + 1 : i # 1 => i - 1 \in 1 .. Len(q)
      BY <1>1
    <3>2. QED
      BY <1>1, <1>2, <3>1
  <2>2. z = p /\ r = q
    BY <1>1, <1>2, <2>1, RemoveEnds
  <2>3. QED
    BY <1>0, <2>2
<1>3. CASE \E i \in 1 .. Len(q) : q[i] = x
  <2>0. r \in Seq(T) /\ \E k \in 1 .. Len(q) : WithoutPlace(q, x, k, r)
    BY <1>3, RemoveFirstPlaces
  <2>a. PICK k \in 1 .. Len(q) : WithoutPlace(q, x, k, r)
    BY <2>0
  <2>1. /\ q[k] = x /\ (\A i \in 1 .. k - 1 : q[i] # x) /\ r \in Seq(T) /\ Len(r) = Len(q) - 1
        /\ \A i \in 1 .. Len(q) - 1 : r[i] = IF i < k THEN q[i] ELSE q[i + 1]
    BY <2>0, <2>a DEF WithoutPlace
  <2>2. k + 1 \in 1 .. Len(p) /\ p[k + 1] = x
    BY <1>1, <2>1
  <2>b. z \in Seq(T) /\ \E m \in 1 .. Len(p) : WithoutPlace(p, x, m, z)
    BY <1>1, <2>2, RemoveFirstPlaces
  <2>c. PICK m \in 1 .. Len(p) : WithoutPlace(p, x, m, z)
    BY <2>b
  <2>3. /\ p[m] = x /\ (\A i \in 1 .. m - 1 : p[i] # x) /\ z \in Seq(T) /\ Len(z) = Len(p) - 1
        /\ \A i \in 1 .. Len(p) - 1 : z[i] = IF i < m THEN p[i] ELSE p[i + 1]
    BY <2>b, <2>c DEF WithoutPlace
  <2> DEFINE y == <<t>> \o r
  <2>4. /\ y \in Seq(T) /\ Len(y) = Len(r) + 1
        /\ \A i \in 1 .. Len(r) + 1 : y[i] = IF i = 1 THEN t ELSE r[i - 1]
    BY <2>1
  <2> HIDE DEF r, z, y
  <2>5. m = k + 1
    <3>1. ~(k + 1 \in 1 .. m - 1)
      BY <2>2, <2>3
    <3>2. m # 1 /\ q[m - 1] = x /\ m - 1 \in 1 .. Len(q)
      BY <1>1, <2>3
    <3>3. ~(m - 1 \in 1 .. k - 1)
      BY <2>1, <3>2
    <3>4. QED
      BY <1>1, <3>1, <3>2, <3>3
  <2>6. ASSUME NEW i \in 1 .. Len(z) PROVE z[i] = y[i]
    <3>1. /\ i \in 1 .. Len(q) /\ z[i] = IF i < k + 1 THEN p[i] ELSE p[i + 1]
          /\ y[i] = IF i = 1 THEN t ELSE r[i - 1]
      BY <1>1, <2>1, <2>3, <2>4, <2>5
    <3>2. CASE i = 1
      BY <1>1, <3>1, <3>2
    <3>3. CASE i # 1
      <4>1. i - 1 \in 1 .. Len(q) - 1 /\ i - 1 + 1 = i
        BY <1>1, <3>1, <3>3
      <4>2. y[i] = IF i - 1 < k THEN q[i - 1] ELSE q[i]
        BY <2>1, <3>1, <3>3, <4>1
      <4>3. p[i] = q[i - 1] /\ p[i + 1] = q[i]
        <5>1. \A j \in 1 .. Len(q) + 1 : p[j] = IF j = 1 THEN t ELSE q[j - 1]
          BY <1>1
        <5>2. i \in 1 .. Len(q) + 1 /\ i + 1 \in 1 .. Len(q) + 1 /\ i + 1 # 1 /\ i + 1 - 1 = i
          BY <1>1, <3>1
        <5>3. p[i] = q[i - 1]
          BY <3>3, <5>1, <5>2
        <5>4. p[i + 1] = q[i + 1 - 1]
          BY ONLY <5>1, <5>2
        <5> QED
          BY <5>2, <5>3, <5>4
      <4>4. i < k + 1 <=> i - 1 < k
        BY <3>1
      <4>5. QED
        BY <3>1, <4>2, <4>3, <4>4
    <3>4. QED
      BY <3>2, <3>3
  <2>7. Len(z) = Len(y)
    BY <1>1, <2>1, <2>3, <2>4
  <2>8. z = y
    BY <2>3, <2>4, <2>6, <2>7, SeqEqual
  <2>9. QED
    BY <1>0, <2>8 DEF y, z, r
<1>4. QED
  BY <1>2, <1>3

(* RemoveFirst takes out the element and keeps the others, each once. *)
LEMMA ListsRemove ==
  ASSUME NEW T, NEW q \in Seq(T), NEW S, Lists(q, S), NEW x
  PROVE  Lists(RemoveFirst(q, x), S \ {x})
<1>1. CASE ~ \E i \in 1 .. Len(q) : q[i] = x
  <2>1. RemoveFirst(q, x) = q
    BY <1>1 DEF RemoveFirst
  <2>2. x \notin Range(q)
    BY <1>1 DEF Range
  <2>3. S \ {x} = S
    BY <2>2 DEF Lists
  <2>4. QED
    BY <2>1, <2>3
<1>2. CASE \E i \in 1 .. Len(q) : q[i] = x
  <2> DEFINE r == RemoveFirst(q, x)
  <2>1. Len(q) \in Nat /\ DOMAIN q = 1 .. Len(q)
    OBVIOUS
  <2>0. r \in Seq(T) /\ \E k \in 1 .. Len(q) : WithoutPlace(q, x, k, r)
    BY <1>2, RemoveFirstPlaces
  <2>a. PICK k \in 1 .. Len(q) : WithoutPlace(q, x, k, r)
    BY <2>0
  <2> HIDE DEF r
  <2>2. q[k] = x
    BY <2>a DEF WithoutPlace
  <2>6. /\ DOMAIN r = 1 .. Len(q) - 1
        /\ \A i \in 1 .. Len(q) - 1 : r[i] = IF i < k THEN q[i] ELSE q[i + 1]
    BY <2>0, <2>1, <2>a DEF WithoutPlace
  <2>7. \A a, b \in 1 .. Len(q) : q[a] = q[b] => a = b
    BY <2>1 DEF Lists, IsInjective
  <2>8. IsInjective(r)
    <3> SUFFICES ASSUME NEW a \in 1 .. Len(q) - 1, NEW b \in 1 .. Len(q) - 1, r[a] = r[b]
                 PROVE  a = b
      BY <2>6 DEF IsInjective
    <3> DEFINE sa == IF a < k THEN a ELSE a + 1
               sb == IF b < k THEN b ELSE b + 1
    <3>1. sa \in 1 .. Len(q) /\ sb \in 1 .. Len(q) /\ q[sa] = q[sb]
      BY <2>1, <2>2, <2>6
    <3>2. sa = sb
      BY <2>7, <3>1
    <3>3. QED
      BY <2>1, <2>2, <3>2
  <2>9. Range(r) = Range(q) \ {x}
    <3>1. ASSUME NEW y \in Range(r) PROVE y \in Range(q) \ {x}
      <4>1. PICK a \in 1 .. Len(q) - 1 : r[a] = y
        BY <2>6 DEF Range
      <4> DEFINE sa == IF a < k THEN a ELSE a + 1
      <4>2. sa \in 1 .. Len(q) /\ sa # k /\ q[sa] = y
        BY <2>1, <2>2, <2>6, <4>1
      <4>3. y # x
        BY <2>2, <2>7, <4>2
      <4>4. QED
        BY <2>1, <4>2, <4>3 DEF Range
    <3>2. ASSUME NEW y \in Range(q), y # x PROVE y \in Range(r)
      <4>1. PICK a \in 1 .. Len(q) : q[a] = y
        BY <2>1 DEF Range
      <4>2. a # k
        BY <2>2, <3>2, <4>1
      <4> DEFINE sa == IF a < k THEN a ELSE a - 1
      <4>3. sa \in 1 .. Len(q) - 1 /\ r[sa] = q[a]
        <5>1. CASE a < k
          BY <2>1, <2>2, <2>6, <5>1
        <5>2. CASE a > k
          <6>1. a - 1 \in 1 .. Len(q) - 1 /\ ~(a - 1 < k) /\ a - 1 + 1 = a
            BY <2>1, <2>2, <5>2
          <6>2. QED
            BY <2>1, <2>2, <2>6, <5>2, <6>1
        <5>3. QED
          BY <2>1, <2>2, <4>2, <5>1, <5>2
      <4>4. QED
        BY <2>6, <4>1, <4>3 DEF Range
    <3>3. QED
      BY <3>1, <3>2
  <2>10. QED
    BY <2>8, <2>9 DEF Lists, r
<1>3. QED
  BY <1>1, <1>2
-----------------------------------------------------------------------------
(* What is built up step by step *)

(* A set that holds 0 and with a number the next one holds all numbers up to a bound.         *)
LEMMA UpTo ==
  ASSUME NEW N \in Nat, NEW S, 0 \in S, \A n \in 1 .. N : n - 1 \in S => n \in S
  PROVE  \A n \in 0 .. N : n \in S
<1> DEFINE Bad == {m \in 0 .. N : m \notin S}
<1> SUFFICES ASSUME Bad # {} PROVE FALSE
  OBVIOUS
<1>1. Bad \subseteq Nat
  OBVIOUS
<1>2. Min(Bad) \in Bad /\ \A y \in Bad : Min(Bad) <= y
  BY <1>1, MinNat
<1>3. PICK m \in Bad : \A y \in Bad : m <= y
  BY <1>2
<1>4. m \in 1 .. N /\ m - 1 \in 0 .. N /\ ~(m <= m - 1)
  BY <1>3
<1>5. m - 1 \in S
  BY <1>3, <1>4
<1> QED
  BY <1>3, <1>4, <1>5

(* A list with one more element holds it as well.                                             *)
LEMMA RangeAppend ==
  ASSUME NEW T, NEW list \in Seq(T), NEW x \in T
  PROVE  Range(Append(list, x)) = Range(list) \cup {x}
<1>1. Append(list, x) = list \o <<x>> /\ <<x>> \in Seq(T)
  OBVIOUS
<1>2. Range(<<x>>) = {x}
  BY RangeSingle
<1>3. Range(list \o <<x>>) = Range(list) \cup Range(<<x>>)
  BY <1>1, RangeConcat, ZenonT(30)
<1> QED
  BY <1>1, <1>2, <1>3, Zenon

KeptStep(k, list, gone, n) ==
  IF n = 0 THEN <<>> ELSE IF list[n] \in gone THEN k[n - 1] ELSE Append(k[n - 1], list[n])

(* The lists that Without builds on its way exist.                                            *)
LEMMA KeptExists ==
  ASSUME NEW T, NEW list \in Seq(T), NEW gone
  PROVE  \E k : k = [n \in 0 .. Len(list) |-> KeptStep(k, list, gone, n)]
<1> DEFINE Good(m) == \E k : k = [n \in 0 .. m |-> KeptStep(k, list, gone, n)]
           Bad == {m \in 0 .. Len(list) : ~Good(m)}
<1>0. Len(list) \in Nat
  OBVIOUS
<1>1. Good(0)
  <2> DEFINE k == [n \in 0 .. 0 |-> <<>>]
  <2>1. k = [n \in 0 .. 0 |-> KeptStep(k, list, gone, n)]
    BY DEF KeptStep
  <2> HIDE DEF k
  <2> QED
    BY <2>1
<1>2. ASSUME NEW m \in 1 .. Len(list), Good(m - 1) PROVE Good(m)
  <2>1. PICK k : k = [n \in 0 .. m - 1 |-> KeptStep(k, list, gone, n)]
    BY <1>2
  <2> DEFINE e == KeptStep(k, list, gone, m)
             f == [n \in 0 .. m |-> IF n = m THEN e ELSE k[n]]
  <2>2. ASSUME NEW n \in 0 .. m PROVE f[n] = KeptStep(f, list, gone, n)
    <3>1. n # 0 => n - 1 \in 0 .. m /\ n - 1 # m
      BY <1>0
    <3>2. n # 0 => f[n - 1] = k[n - 1]
      BY <3>1
    <3>3. KeptStep(f, list, gone, n) = KeptStep(k, list, gone, n)
      BY <3>2 DEF KeptStep
    <3>4. CASE n = m
      BY <3>3, <3>4
    <3>5. CASE n # m
      <4>1. n \in 0 .. m - 1
        BY <1>0, <3>5
      <4> HIDE DEF e
      <4>2. k[n] = KeptStep(k, list, gone, n)
        BY <2>1, <4>1
      <4> QED
        BY <3>3, <3>5, <4>2
    <3> QED
      BY <3>4, <3>5
  <2>3. f = [n \in 0 .. m |-> f[n]]
    OBVIOUS
  <2> HIDE DEF f
  <2>4. f = [n \in 0 .. m |-> KeptStep(f, list, gone, n)]
    BY <2>2, <2>3
  <2> QED
    BY <2>4
<1> HIDE DEF Good
<1>3. Bad = {}
  <2> SUFFICES ASSUME Bad # {} PROVE FALSE
    OBVIOUS
  <2>1. Bad \subseteq Nat
    BY <1>0
  <2>2. Min(Bad) \in Bad /\ \A y \in Bad : Min(Bad) <= y
    BY <2>1, MinNat
  <2>3. PICK m \in Bad : \A y \in Bad : m <= y
    BY <2>2
  <2>4. m # 0 /\ m \in 0 .. Len(list)
    BY <1>1, <2>3
  <2>5. m \in 1 .. Len(list) /\ m - 1 \in 0 .. Len(list) /\ ~(m <= m - 1)
    BY <1>0, <2>4
  <2>6. Good(m - 1)
    BY <2>3, <2>5
  <2>7. Good(m)
    BY <1>2, <2>5, <2>6
  <2> QED
    BY <2>3, <2>7
<1>4. Good(Len(list))
  BY <1>0, <1>3
<1> QED
  BY <1>4 DEF Good

(* What is kept is the rest.                                                                  *)
LEMMA WithoutFacts ==
  ASSUME NEW T, NEW list \in Seq(T), NEW gone
  PROVE  Without(list, gone) \in Seq(T) /\ Range(Without(list, gone)) = Range(list) \ gone
<1> DEFINE kept == CHOOSE k : k = [n \in 0 .. Len(list) |-> KeptStep(k, list, gone, n)]
           Good(n) == /\ kept[n] \in Seq(T)
                      /\ Range(kept[n]) = {list[i] : i \in 1 .. n} \ gone
           Bad == {n \in 0 .. Len(list) : ~Good(n)}
<1>0. Len(list) \in Nat /\ DOMAIN list = 1 .. Len(list) /\ \A i \in 1 .. Len(list) : list[i] \in T
  OBVIOUS
<1>1. Without(list, gone) = kept[Len(list)]
  BY DEF Without, KeptStep
<1>2. kept = [n \in 0 .. Len(list) |-> KeptStep(kept, list, gone, n)]
  BY KeptExists
<1> HIDE DEF kept
<1>3. \A n \in 0 .. Len(list) : kept[n] = KeptStep(kept, list, gone, n)
  BY <1>2
<1>4. Good(0)
  <2>1. kept[0] = <<>>
    BY <1>0, <1>3 DEF KeptStep
  <2>2. Range(<<>>) = {} /\ <<>> \in Seq(T)
    BY DEF Range
  <2> QED
    BY <2>1, <2>2
<1>5. ASSUME NEW n \in 1 .. Len(list), Good(n - 1) PROVE Good(n)
  <2>1. kept[n] = IF list[n] \in gone THEN kept[n - 1] ELSE Append(kept[n - 1], list[n])
    BY <1>0, <1>3 DEF KeptStep
  <2>2. {list[i] : i \in 1 .. n} = {list[i] : i \in 1 .. n - 1} \cup {list[n]}
    <3>1. 1 .. n = (1 .. n - 1) \cup {n}
      BY <1>0
    <3> QED
      BY <3>1
  <2>3. CASE list[n] \in gone
    BY <1>5, <2>1, <2>2, <2>3
  <2>4. CASE list[n] \notin gone
    <3>1. Range(Append(kept[n - 1], list[n])) = Range(kept[n - 1]) \cup {list[n]}
      BY <1>0, <1>5, RangeAppend
    <3> QED
      BY <1>0, <1>5, <2>1, <2>2, <2>4, <3>1
  <2> QED
    BY <2>3, <2>4
<1> HIDE DEF Good
<1>6. Bad = {}
  <2> SUFFICES ASSUME Bad # {} PROVE FALSE
    OBVIOUS
  <2>1. Bad \subseteq Nat
    BY <1>0
  <2>2. Min(Bad) \in Bad /\ \A y \in Bad : Min(Bad) <= y
    BY <2>1, MinNat
  <2>3. PICK m \in Bad : \A y \in Bad : m <= y
    BY <2>2
  <2>4. m # 0 /\ m \in 0 .. Len(list)
    BY <1>4, <2>3
  <2>5. m \in 1 .. Len(list) /\ m - 1 \in 0 .. Len(list) /\ ~(m <= m - 1)
    BY <1>0, <2>4
  <2>6. Good(m - 1)
    BY <2>3, <2>5
  <2>7. Good(m)
    BY <1>5, <2>5, <2>6
  <2> QED
    BY <2>3, <2>7
<1>7. Good(Len(list)) /\ Range(list) = {list[i] : i \in 1 .. Len(list)}
  BY <1>0, <1>6 DEF Range
<1> QED
  BY <1>1, <1>7 DEF Good
=============================================================================
