------------------------ MODULE CommentReadingProofs ------------------------
(***************************************************************************)
(* Proof about CommentReading: whatever comments there are, in whatever    *)
(* order they rank and wherever the query cuts, the nodes that             *)
(* PrepareCommentTree makes of the rows of a page hang below each other as *)
(* in the store, every row in one place.  ORDER BY numbers siblings by     *)
(* rank and rows by the paths of those numbers; the rows of a subtree      *)
(* follow its root, and what the reader keeps in its branch is the path to *)
(* the row it read last.                                                   *)
(***************************************************************************)
EXTENDS CommentStoreProofs, CommentReading, SequenceTheorems, WellFoundedInduction

-----------------------------------------------------------------------------
(* Reading: places *)

(* A set of numbers that has an element has a least one. *)
LEMMA LeastExists ==
  ASSUME NEW S \in SUBSET Nat, S # {}
  PROVE  \E m \in S : \A y \in S : m <= y
<1> DEFINE R == OpToRel(<, Nat)
<1>1. IsWellFoundedOn(R, Nat)
  BY NatLessThanWellFounded, Zenon
<1>2. \A y, m \in Nat : y < m => <<y, m>> \in R
  BY Zenon DEF OpToRel
<1> HIDE DEF R
<1>3. PICK m \in S : \A y \in S : ~ (<<y, m>> \in R)
  BY <1>1, WFMin
<1>4. \A y \in S : ~ (y < m)
  BY <1>2, <1>3
<1>5. QED
  BY <1>4

(* B orders S; Below counts what is before x. *)
Orders(B, S) ==
  /\ \A x \in S : <<x, x>> \notin B
  /\ \A x, y, z \in S : <<x, y>> \in B /\ <<y, z>> \in B => <<x, z>> \in B
  /\ \A x, y \in S : x = y \/ <<x, y>> \in B \/ <<y, x>> \in B
Below(B, S, x) == {y \in S : <<y, x>> \in B}

(* What is before has fewer before it. *)
LEMMA BelowGrows ==
  ASSUME NEW S, IsFiniteSet(S), NEW B, Orders(B, S), NEW x \in S
  PROVE  /\ Cardinality(Below(B, S, x)) \in 0..(Cardinality(S) - 1)
         /\ \A y \in S : <<x, y>> \in B =>
              Cardinality(Below(B, S, x)) < Cardinality(Below(B, S, y))
<1> DEFINE L(z) == Below(B, S, z)
<1>1. Cardinality(S) \in Nat
  BY FS_CardinalityType
<1>2. \A z \in S : L(z) \in SUBSET S
  BY DEF Below
<1>3. \A z \in S : IsFiniteSet(L(z)) /\ Cardinality(L(z)) \in Nat
  BY <1>2, FS_Subset, FS_CardinalityType
<1>4. Cardinality(L(x)) < Cardinality(S)
  <2>1. Cardinality(L(x)) <= Cardinality(S) /\ (Cardinality(S) = Cardinality(L(x)) => S = L(x))
    BY <1>2, FS_Subset
  <2>2. x \notin L(x)
    BY DEF Below, Orders
  <2>3. Cardinality(L(x)) # Cardinality(S)
    BY <2>1, <2>2
  <2>4. QED
    BY <1>1, <1>3, <2>1, <2>3
<1>5. ASSUME NEW y \in S, <<x, y>> \in B PROVE Cardinality(L(x)) < Cardinality(L(y))
  <2>1. L(x) \in SUBSET L(y)
    BY <1>5 DEF Below, Orders
  <2>2. x \in L(y) /\ x \notin L(x)
    BY <1>5 DEF Below, Orders
  <2>3. Cardinality(L(x)) <= Cardinality(L(y)) /\ (Cardinality(L(y)) = Cardinality(L(x)) => L(y) = L(x))
    BY <1>3, <2>1, FS_Subset
  <2>4. Cardinality(L(x)) # Cardinality(L(y))
    BY <2>2, <2>3
  <2>5. QED
    BY <1>3, <2>3, <2>4
<1>6. QED
  BY <1>1, <1>3, <1>4, <1>5

(* Each of S has a number of its own, and there are no others. *)
LEMMA BelowCounts ==
  ASSUME NEW S, IsFiniteSet(S), NEW B, Orders(B, S)
  PROVE  /\ \A x, y \in S : Cardinality(Below(B, S, x)) = Cardinality(Below(B, S, y)) => x = y
         /\ \A n \in 0..(Cardinality(S) - 1) : \E x \in S : Cardinality(Below(B, S, x)) = n
<1> DEFINE c == Cardinality(S)
           f == [x \in S |-> Cardinality(Below(B, S, x))]
<1>1. c \in Nat
  BY FS_CardinalityType
<1>2. /\ \A x \in S : Cardinality(Below(B, S, x)) \in 0..(c - 1)
      /\ \A x, y \in S : <<x, y>> \in B => Cardinality(Below(B, S, x)) < Cardinality(Below(B, S, y))
  BY BelowGrows
<1>3. \A x, y \in S : Cardinality(Below(B, S, x)) = Cardinality(Below(B, S, y)) => x = y
  <2> SUFFICES ASSUME NEW x \in S, NEW y \in S, x # y,
                      Cardinality(Below(B, S, x)) = Cardinality(Below(B, S, y))
               PROVE  FALSE
    OBVIOUS
  <2>1. <<x, y>> \in B \/ <<y, x>> \in B
    BY DEF Orders
  <2>2. QED
    BY <1>1, <1>2, <2>1
<1>4. f \in Injection(S, 0..(c - 1))
  BY <1>2, <1>3 DEF Injection, IsInjective
<1>5. IsFiniteSet(0..(c - 1)) /\ Cardinality(0..(c - 1)) = c
  <2>1. 0 \in Int /\ c - 1 \in Int /\ (0 > c - 1 <=> c = 0)
    BY <1>1
  <2>2. IsFiniteSet(0..(c - 1)) /\ Cardinality(0..(c - 1)) = IF 0 > c - 1 THEN 0 ELSE c - 1 - 0 + 1
    BY ONLY <2>1, FS_Interval
  <2>3. QED
    BY <1>1, <2>1, <2>2
<1>6. f \in Surjection(S, 0..(c - 1))
  BY <1>4, <1>5, FS_Injection
<1>7. \A n \in 0..(c - 1) : \E x \in S : f[x] = n
  BY <1>6 DEF Surjection
<1>8. QED
  BY <1>3, <1>7

(* A list of S that has each element where its number says. *)
Lists(s, S, B) ==
  /\ s \in Seq(S) /\ Len(s) = Cardinality(S)
  /\ \A x \in S : s[Cardinality(Below(B, S, x)) + 1] = x

(* ORDER BY gives such a list. *)
LEMMA Listed ==
  ASSUME NEW S, IsFiniteSet(S), NEW B, Orders(B, S),
         NEW s, s = [n \in 1..Cardinality(S) |->
                       CHOOSE i \in S : Cardinality(Below(B, S, i)) = n - 1]
  PROVE  Lists(s, S, B)
<1> DEFINE c == Cardinality(S)
           at(x) == Cardinality(Below(B, S, x))
<1>1. c \in Nat /\ \A x \in S : at(x) \in 0..(c - 1)
  BY FS_CardinalityType, BelowGrows
<1>2. /\ \A x, y \in S : at(x) = at(y) => x = y
      /\ \A n \in 0..(c - 1) : \E x \in S : at(x) = n
  BY BelowCounts
<1> HIDE DEF at
<1>3. s = [n \in 1..c |-> CHOOSE i \in S : at(i) = n - 1]
  BY DEF at
<1> HIDE DEF c
<1>4. ASSUME NEW n \in 1..c PROVE s[n] \in S /\ at(s[n]) = n - 1
  <2>1. n - 1 \in 0..(c - 1)
    BY <1>1
  <2>2. \E x \in S : at(x) = n - 1
    BY <1>2, <2>1
  <2>3. s[n] = CHOOSE i \in S : at(i) = n - 1
    BY <1>3
  <2>4. QED
    BY <2>2, <2>3
<1>5. s \in [1..c -> S]
  BY <1>3, <1>4
<1>6. s \in Seq(S) /\ Len(s) = c
  <2>1. s \in Seq(S)
    <3>1. Seq(S) = UNION {[1..n -> S] : n \in Nat}
      BY SeqDef
    <3>2. [1..c -> S] \in {[1..n -> S] : n \in Nat}
      BY <1>1
    <3>3. QED
      BY ONLY <1>5, <3>1, <3>2
  <2>2. Len(s) \in Nat /\ 1..Len(s) = 1..c
    <3>1. DOMAIN s = 1..Len(s) /\ Len(s) \in Nat
      BY ONLY <2>1, LenProperties
    <3>2. DOMAIN s = 1..c
      BY ONLY <1>5
    <3>3. QED
      BY <3>1, <3>2
  <2>3. c \in Nat
    BY <1>1
  <2>4. Len(s) = c
    BY ONLY <2>2, <2>3
  <2>5. QED
    BY <2>1, <2>4
<1>7. ASSUME NEW x \in S PROVE s[at(x) + 1] = x
  <2> DEFINE n == at(x) + 1
  <2>1. n \in 1..c /\ n - 1 = at(x)
    BY <1>1
  <2> HIDE DEF n
  <2>2. s[n] \in S /\ at(s[n]) = at(x)
    BY <1>4, <2>1
  <2>3. QED
    BY <1>2, <2>2 DEF n
<1>8. QED
  BY <1>6, <1>7 DEF Lists, at, c

(* In a list what is before comes before. *)
LEMMA ListAscends ==
  ASSUME NEW S, IsFiniteSet(S), NEW B, Orders(B, S), NEW s, Lists(s, S, B)
  PROVE  /\ \A n \in 1..Len(s) : s[n] \in S
         /\ \A x \in S : \E n \in 1..Len(s) : s[n] = x
         /\ \A n, m \in 1..Len(s) : <<s[n], s[m]>> \in B => n < m
         /\ \A n, m \in 1..Len(s) : n < m => <<s[n], s[m]>> \in B
<1> DEFINE c == Cardinality(S)
           at(x) == Cardinality(Below(B, S, x))
<1>1. c \in Nat /\ (\A x \in S : at(x) \in 0..(c - 1))
      /\ (\A x, y \in S : <<x, y>> \in B => at(x) < at(y))
  BY FS_CardinalityType, BelowGrows
<1>2. /\ \A x, y \in S : at(x) = at(y) => x = y
      /\ \A n \in 0..(c - 1) : \E x \in S : at(x) = n
  BY BelowCounts
<1>3. Len(s) = c /\ s \in Seq(S) /\ \A x \in S : s[at(x) + 1] = x
  BY DEF Lists
<1> HIDE DEF at, c
<1>4. ASSUME NEW n \in 1..Len(s) PROVE s[n] \in S /\ at(s[n]) = n - 1
  <2>1. n - 1 \in 0..(c - 1) /\ n - 1 + 1 = n
    BY <1>1, <1>3
  <2>2. PICK x \in S : at(x) = n - 1
    BY <1>2, <2>1
  <2>3. s[n] = x
    BY <1>3, <2>1, <2>2
  <2>4. QED
    BY <2>2, <2>3
<1>5. ASSUME NEW x \in S PROVE \E n \in 1..Len(s) : s[n] = x
  <2>1. at(x) + 1 \in 1..Len(s) /\ s[at(x) + 1] = x
    BY <1>1, <1>3
  <2>2. QED
    BY <2>1
<1>6. ASSUME NEW n \in 1..Len(s), NEW m \in 1..Len(s), <<s[n], s[m]>> \in B PROVE n < m
  <2>1. at(s[n]) < at(s[m])
    BY <1>1, <1>4, <1>6
  <2>2. QED
    BY <1>1, <1>3, <1>4, <2>1
<1>7. ASSUME NEW n \in 1..Len(s), NEW m \in 1..Len(s), n < m PROVE <<s[n], s[m]>> \in B
  <2>1. s[n] # s[m] /\ n \in Int /\ m \in Int
    BY <1>4, <1>7
  <2>2. <<s[n], s[m]>> \in B \/ <<s[m], s[n]>> \in B
    BY <1>4, <2>1 DEF Orders
  <2>3. QED
    BY <1>6, <1>7, <2>1, <2>2
<1>8. QED
  BY <1>4, <1>5, <1>6, <1>7
-----------------------------------------------------------------------------
(* Reading: the order of arrays *)

(* k is the first place where a and b are not the same, and a is before b. *)
Differ(a, b, k) ==
  /\ k \in 1..Len(b) /\ k <= Len(a) + 1 /\ \A j \in 1..(k - 1) : a[j] = b[j]
  /\ k = Len(a) + 1 \/ a[k] < b[k]

(* An array is before another where they first differ. *)
LEMMA PrecedesAt ==
  ASSUME NEW a \in Seq(Nat), NEW b \in Seq(Nat)
  PROVE  Precedes(a, b) <=> \E k \in Nat : Differ(a, b, k)
<1> DEFINE m == Len(a)
           n == Len(b)
<1>1. /\ m \in Nat /\ n \in Nat /\ DOMAIN a = 1..m /\ DOMAIN b = 1..n
      /\ a \in [1..m -> Nat] /\ b \in [1..n -> Nat]
  BY LenProperties
<1>2. SubSeq(a, 1, m) = a
  BY SubSeqFull
<1>3. ASSUME m <= n
      PROVE  /\ \A j \in 1..m : SubSeq(b, 1, m)[j] = b[j]
             /\ SubSeq(b, 1, m) \in Seq(Nat) /\ Len(SubSeq(b, 1, m)) = m
  <2>1. \A i \in 1..m : b[i] \in Nat
    BY <1>1, <1>3
  <2>2. 1 \in Int /\ m \in Int
    BY <1>1
  <2> HIDE DEF m
  <2>3. QED
    BY <1>1, <2>1, <2>2, SubSeqProperties
<1> HIDE DEF m, n
<1>4. ASSUME IsStrictPrefix(a, b) PROVE \E k \in Nat : Differ(a, b, k)
  <2>1. m <= n /\ a = SubSeq(b, 1, m) /\ a # b
    BY <1>2, <1>4 DEF IsStrictPrefix, IsPrefix, m, n
  <2>2. m # n
    BY <2>1, SubSeqFull DEF n
  <2>3. m \in Nat /\ n \in Nat
    BY <1>1
  <2>4. m + 1 \in 1..n /\ m + 1 \in Nat /\ m + 1 - 1 = m /\ m + 1 <= m + 1
    BY ONLY <2>1, <2>2, <2>3
  <2>5. \A j \in 1..m : a[j] = b[j]
    BY <1>3, <2>1
  <2>6. Differ(a, b, m + 1)
    BY <2>4, <2>5 DEF Differ, m, n
  <2>7. QED
    BY <2>4, <2>6
<1>5. ASSUME NEW k \in DOMAIN a \cap DOMAIN b, a[k] < b[k], \A j \in 1..k - 1 : a[j] = b[j]
      PROVE  Differ(a, b, k) /\ k \in Nat
  BY <1>1, <1>5 DEF Differ, m, n
<1>6. ASSUME NEW k \in Nat, Differ(a, b, k) PROVE Precedes(a, b)
  <2>1. /\ k \in 1..n /\ k <= m + 1 /\ (\A j \in 1..(k - 1) : a[j] = b[j])
        /\ k = m + 1 \/ a[k] < b[k]
    BY <1>6 DEF Differ, m, n
  <2>2. CASE k = m + 1
    <3>1. m <= n /\ m # n /\ \A j \in 1..m : a[j] = b[j]
      <4>1. k - 1 = m /\ k <= n
        BY <1>1, <2>1, <2>2
      <4>2. \A j \in 1..m : a[j] = b[j]
        BY <2>1, <4>1
      <4>3. m <= n /\ m # n
        <5>1. m \in Nat /\ n \in Nat
          BY <1>1
        <5>2. QED
          BY ONLY <4>1, <5>1, k \in Nat
      <4>4. QED
        BY <4>2, <4>3
    <3>2. SubSeq(b, 1, m) \in Seq(Nat) /\ Len(SubSeq(b, 1, m)) = m
          /\ \A j \in 1..m : SubSeq(b, 1, m)[j] = a[j]
      BY <1>3, <3>1
    <3>3. SubSeq(b, 1, m) = a
      BY <3>2, SeqEqual DEF m
    <3>4. IsStrictPrefix(a, b)
      BY <1>2, <3>1, <3>3 DEF IsStrictPrefix, IsPrefix, m, n
    <3>5. QED
      BY <3>4 DEF Precedes
  <2>3. CASE k # m + 1
    <3>1. k \in DOMAIN a \cap DOMAIN b /\ a[k] < b[k]
      BY <1>1, <2>1, <2>3
    <3>2. QED
      BY <2>1, <3>1 DEF Precedes
  <2>4. QED
    BY <2>2, <2>3
<1>7. QED
  BY <1>4, <1>5, <1>6 DEF Precedes

(* The order of arrays is strict and total. *)
LEMMA ArraysOrdered ==
  ASSUME NEW a \in Seq(Nat), NEW b \in Seq(Nat), NEW c \in Seq(Nat)
  PROVE  /\ ~Precedes(a, a)
         /\ Precedes(a, b) /\ Precedes(b, c) => Precedes(a, c)
         /\ a = b \/ Precedes(a, b) \/ Precedes(b, a)
<1>1. /\ Len(a) \in Nat /\ Len(b) \in Nat /\ Len(c) \in Nat
      /\ \A i \in 1..Len(a) : a[i] \in Nat
      /\ \A i \in 1..Len(b) : b[i] \in Nat
      /\ \A i \in 1..Len(c) : c[i] \in Nat
  BY LenProperties, ElementOfSeq
<1>2. ~Precedes(a, a)
  <2> SUFFICES ASSUME NEW k \in Nat, Differ(a, a, k) PROVE FALSE
    BY PrecedesAt
  <2>1. k \in 1..Len(a) /\ (k = Len(a) + 1 \/ a[k] < a[k])
    BY DEF Differ
  <2>2. QED
    BY <1>1, <2>1
<1>3. ASSUME Precedes(a, b), Precedes(b, c) PROVE Precedes(a, c)
  <2>1. PICK k \in Nat : Differ(a, b, k)
    BY <1>3, PrecedesAt
  <2>2. PICK l \in Nat : Differ(b, c, l)
    BY <1>3, PrecedesAt
  <2>3. /\ k \in 1..Len(b) /\ k <= Len(a) + 1 /\ (\A j \in 1..(k - 1) : a[j] = b[j])
        /\ k = Len(a) + 1 \/ a[k] < b[k]
    BY <2>1 DEF Differ
  <2>4. /\ l \in 1..Len(c) /\ l <= Len(b) + 1 /\ (\A j \in 1..(l - 1) : b[j] = c[j])
        /\ l = Len(b) + 1 \/ b[l] < c[l]
    BY <2>2 DEF Differ
  <2>5. CASE k < l
    <3>1. b[k] = c[k] /\ k \in 1..Len(c)
      BY <2>3, <2>4, <2>5
    <3>2. \A j \in 1..(k - 1) : a[j] = c[j]
      BY <2>3, <2>4, <2>5
    <3>3. Differ(a, c, k)
      BY <2>3, <3>1, <3>2 DEF Differ
    <3>4. QED
      BY <3>3, PrecedesAt
  <2>6. CASE l <= k
    <3>1. \A j \in 1..(l - 1) : a[j] = c[j]
      BY <2>3, <2>4, <2>6
    <3>2. l <= Len(a) + 1 /\ b[l] < c[l] /\ l \in 1..Len(b)
      <4>1. /\ Len(a) \in Nat /\ Len(b) \in Nat /\ l >= 1
            /\ k \in 1..Len(b) /\ k <= Len(a) + 1
        BY <1>1, <2>3, <2>4
      <4>2. l <= Len(a) + 1 /\ l \in 1..Len(b) /\ l # Len(b) + 1
        BY ONLY <2>6, <4>1, k \in Nat, l \in Nat
      <4>3. QED
        BY <2>4, <4>2
    <3>3. a[l] < c[l] \/ l = Len(a) + 1
      <4> SUFFICES ASSUME l # Len(a) + 1 PROVE a[l] < c[l]
        OBVIOUS
      <4>1. l \in 1..Len(a) /\ a[l] \in Nat /\ b[l] \in Nat /\ c[l] \in Nat
        <5>1. l \in 1..Len(a) /\ l \in 1..Len(b) /\ l \in 1..Len(c)
          <6>1. Len(a) \in Nat /\ l \in 1..Len(c)
            BY <1>1, <2>4
          <6>2. QED
            BY ONLY <3>2, <6>1, l # Len(a) + 1
        <5>2. QED
          BY <1>1, <5>1
      <4>2. CASE l = k
        <5>1. a[l] < b[l]
          BY <2>3, <4>2
        <5>2. \A x, y, z \in Nat : x < y /\ y < z => x < z
          OBVIOUS
        <5>3. QED
          BY ONLY <3>2, <4>1, <5>1, <5>2, Zenon
      <4>3. CASE l # k
        <5>1. l \in 1..(k - 1)
          BY <2>3, <2>4, <2>6, <4>3
        <5>2. a[l] = b[l]
          BY <2>3, <5>1
        <5>3. QED
          BY ONLY <3>2, <5>2
      <4>4. QED
        BY <4>2, <4>3
    <3>4. l = Len(a) + 1 \/ a[l] < c[l]
      BY <3>3
    <3>5. Differ(a, c, l)
      BY <2>4, <3>1, <3>2, <3>4 DEF Differ
    <3>6. QED
      BY <3>5, PrecedesAt
  <2>7. QED
    BY <2>3, <2>4, <2>5, <2>6
<1>4. ASSUME a # b PROVE Precedes(a, b) \/ Precedes(b, a)
  <2> DEFINE S == {k \in Nat \ {0} : k > Len(a) \/ k > Len(b) \/ a[k] # b[k]}
  <2>1. Len(a) + 1 \in S /\ S \in SUBSET Nat
    BY <1>1
  <2>2. PICK k \in S : \A y \in S : k <= y
    <3> HIDE DEF S
    <3>1. QED
      BY <2>1, LeastExists
  <2>3. ASSUME NEW j \in 1..(k - 1) PROVE j <= Len(a) /\ j <= Len(b) /\ a[j] = b[j]
    <3>1. j \in Nat \ {0} /\ ~(k <= j)
      BY <2>2
    <3>2. j \notin S
      BY <2>2, <3>1
    <3>3. QED
      BY <1>1, <3>1, <3>2
  <2>4. k \in Nat /\ k \in 1..(Len(a) + 1) /\ k \in 1..(Len(b) + 1)
    <3>1. k = 1 \/ k - 1 \in 1..(k - 1)
      BY <2>2
    <3>2. k = 1 \/ (k - 1 <= Len(a) /\ k - 1 <= Len(b))
      BY <2>3, <3>1
    <3>3. QED
      BY <1>1, <2>2, <3>2
  <2>5. CASE k = Len(a) + 1 /\ k = Len(b) + 1
    <3>1. Len(a) = Len(b) /\ \A j \in 1..Len(a) : a[j] = b[j]
      BY <1>1, <2>3, <2>5
    <3>2. QED
      BY <1>4, <3>1, SeqEqual
  <2>6. CASE k = Len(a) + 1 /\ k # Len(b) + 1
    <3>1. Differ(a, b, k)
      BY <1>1, <2>3, <2>4, <2>6 DEF Differ
    <3>2. QED
      BY <2>4, <3>1, PrecedesAt
  <2>7. CASE k # Len(a) + 1 /\ k = Len(b) + 1
    <3>1. Differ(b, a, k)
      BY <1>1, <2>3, <2>4, <2>7 DEF Differ
    <3>2. QED
      BY <2>4, <3>1, PrecedesAt
  <2>8. CASE k # Len(a) + 1 /\ k # Len(b) + 1
    <3>1. k \in 1..Len(a) /\ k \in 1..Len(b)
      BY <1>1, <2>4, <2>8
    <3>2. a[k] # b[k] /\ a[k] \in Nat /\ b[k] \in Nat
      BY <1>1, <2>2, <3>1
    <3>3. Differ(a, b, k) \/ Differ(b, a, k)
      BY <1>1, <2>3, <3>1, <3>2 DEF Differ
    <3>4. QED
      BY <2>4, <3>3, PrecedesAt
  <2>9. QED
    BY <2>5, <2>6, <2>7, <2>8
<1>5. QED
  BY <1>2, <1>3, <1>4

-----------------------------------------------------------------------------
(* Reading: the arrays *)

(* The element i of Rnk, given the others. *)
RnkOf(post, ranking, limit, offset, rnk, i) ==
  LET row   == comments[i]
      place == RowNumber(ranking, i)
  IN IF ~Exists(i) \/ row.post # post THEN <<>>
     ELSE IF row.parent = 0
     THEN IF place \in offset + 1..offset + limit THEN <<place>> ELSE <<>>
     ELSE IF rnk[row.parent] = <<>> THEN <<>> ELSE Append(rnk[row.parent], place)

(* A row is one level below its parent, and its parent is a row of the same post. *)
LEMMA RowFacts ==
  ASSUME IInv
  PROVE  /\ \A i \in Id : comments[i].depth \in Nat /\ comments[i].parent \in 0..MaxId
         /\ \A i \in Id : Exists(i) => /\ comments[i].depth < CommentMaxNestingDepth
                                       /\ comments[i].parent = 0 => comments[i].depth = 0
                                       /\ comments[i].parent # 0 =>
                                            /\ comments[i].parent \in Id /\ Exists(comments[i].parent)
                                            /\ comments[comments[i].parent].post = comments[i].post
                                            /\ comments[comments[i].parent].depth + 1 = comments[i].depth
<1>1. MaxId \in Nat
  BY StoreAssumption
<1>2. \A i \in Id : comments[i].depth \in Nat /\ comments[i].parent \in 0..MaxId
  BY DEF IInv, TypeOK, Row
<1>3. \A i \in Id : Exists(i) => WellPlaced(i)
  BY DEF IInv, StoreInv, TreeOK
<1>4. \A q \in 0..MaxId : q # 0 => q \in Id
  BY <1>1 DEF Id
<1>5. QED
  BY <1>2, <1>3, <1>4 DEF WellPlaced

(* Parents are one level up, so the recursion defines the arrays. *)
LEMMA RnkDefined ==
  ASSUME IInv, NEW post, NEW ranking, NEW limit, NEW offset
  PROVE  Rnk(post, ranking, limit, offset)
           = [i \in Id |-> RnkOf(post, ranking, limit, offset, Rnk(post, ranking, limit, offset), i)]
<1> DEFINE E(f, i) == RnkOf(post, ranking, limit, offset, f, i)
           High(i, n) == Exists(i) /\ comments[i].depth < n
           F(f, n) == [i \in Id |-> IF High(i, n) THEN E(f, i) ELSE <<>>]
           Up(n) == \E f : f = F(f, n)
           D == CommentMaxNestingDepth
           Missing == {n \in 0..D : ~Up(n)}
<1>1. D \in Nat
  BY StoreAssumption
<1>2. Up(0)
  <2> DEFINE f == [i \in Id |-> <<>>]
  <2>1. \A i \in Id : ~High(i, 0)
    BY RowFacts
  <2>2. f = F(f, 0)
    BY <2>1
  <2>3. QED
    BY <2>2
<1>3. ASSUME NEW m \in Nat, Up(m) PROVE Up(m + 1)
  <2>1. PICK f : f = F(f, m)
    BY <1>3
  <2> DEFINE g == F(f, m + 1)
  <2>2. ASSUME NEW i \in Id, High(i, m + 1) PROVE E(f, i) = E(g, i)
    <3> DEFINE q == comments[i].parent
    <3>1. CASE q = 0
      BY <3>1 DEF RnkOf
    <3>2. CASE q # 0
      <4>1. q \in Id /\ High(q, m) /\ High(q, m + 1)
        BY <2>2, <3>2, RowFacts
      <4>2. f[q] = E(f, q)
        <5>1. f[q] = F(f, m)[q]
          BY <2>1
        <5> HIDE DEF E, High
        <5>2. QED
          BY <4>1, <5>1
      <4>3. g[q] = E(f, q)
        <5> HIDE DEF E, High
        <5>1. QED
          BY <4>1
      <4>4. f[q] = g[q]
        BY <4>2, <4>3
      <4> HIDE DEF g
      <4>5. QED
        BY <4>4 DEF RnkOf
    <3>3. QED
      BY <3>1, <3>2
  <2>3. g = F(g, m + 1)
    <3>1. \A i \in Id : (IF High(i, m + 1) THEN E(f, i) ELSE <<>>)
                          = (IF High(i, m + 1) THEN E(g, i) ELSE <<>>)
      BY <2>2
    <3>2. F(f, m + 1) = F(g, m + 1)
      <4> HIDE DEF E, High, g
      <4>1. QED
        BY <3>1
    <3>3. QED
      BY <3>2
  <2>4. QED
    BY <2>3
<1> HIDE DEF Up
<1>4. Missing = {}
  <2> SUFFICES ASSUME Missing # {} PROVE FALSE
    OBVIOUS
  <2>1. Missing \in SUBSET Nat
    BY <1>1
  <2>2. PICK m \in Missing : \A y \in Missing : m <= y
    <3> HIDE DEF Missing
    <3>1. QED
      BY <2>1, LeastExists
  <2>3. m \in Nat /\ m # 0 /\ m <= D
    BY <1>1, <1>2, <2>2
  <2>4. m - 1 \in 0..D /\ m - 1 \notin Missing
    BY <1>1, <2>2, <2>3
  <2>5. Up((m - 1) + 1)
    BY <1>3, <2>3, <2>4
  <2>6. QED
    BY <2>2, <2>3, <2>5
<1>5. PICK f : f = F(f, D)
  <2>1. D \in 0..D
    BY <1>1
  <2>2. Up(D)
    BY <1>4, <2>1
  <2> HIDE DEF Missing
  <2>3. QED
    BY <2>2 DEF Up
<1>6. \A i \in Id : (IF High(i, D) THEN E(f, i) ELSE <<>>) = E(f, i)
  BY RowFacts DEF RnkOf
<1>7. f = [i \in Id |-> E(f, i)]
  <2>1. F(f, D) = [i \in Id |-> E(f, i)]
    <3> HIDE DEF E, High
    <3>1. QED
      BY <1>6
  <2>2. QED
    BY <1>5, <2>1
<1> DEFINE g == CHOOSE g : g = [i \in Id |-> E(g, i)]
<1>8. g = [i \in Id |-> E(g, i)]
  <2> HIDE DEF E
  <2>1. QED
    BY <1>7
<1>9. Rnk(post, ranking, limit, offset) = g
  BY DEF Rnk, RnkOf
<1>10. QED
  BY <1>8, <1>9

(* What is on the page, and what the arrays have to do with the tree. *)
Paged(P, rnk, place) ==
  /\ P \subseteq Id
  /\ \A i \in P : rnk[i] \in Seq(Nat) /\ Len(rnk[i]) = comments[i].depth + 1 /\ place[i] \in Nat
  /\ \A i \in P : comments[i].parent = 0 => comments[i].depth = 0 /\ rnk[i] = <<place[i]>>
  /\ \A i \in P : comments[i].parent # 0 =>
       /\ comments[i].parent \in P /\ comments[comments[i].parent].depth + 1 = comments[i].depth
       /\ rnk[i] = Append(rnk[comments[i].parent], place[i])
Distinct(P, rnk) == \A i, j \in P : rnk[i] = rnk[j] => i = j

Places(ranking) == [i \in Id |-> RowNumber(ranking, i)]

(* A place is a number. *)
LEMMA RowNumberType ==
  ASSUME NEW ranking, NEW i PROVE RowNumber(ranking, i) \in Nat
<1> DEFINE S == {j \in Id : /\ Exists(j)
                            /\ comments[j].post = comments[i].post
                            /\ comments[j].parent = comments[i].parent
                            /\ ranking[j] <= ranking[i]}
<1>1. IsFiniteSet(Id)
  <2>1. 1 \in Int /\ MaxId \in Int
    BY StoreAssumption
  <2>2. QED
    BY <2>1, FS_Interval DEF Id
<1>2. S \in SUBSET Id
  OBVIOUS
<1> HIDE DEF S
<1>3. Cardinality(S) \in Nat
  BY <1>1, <1>2, FS_Subset, FS_CardinalityType
<1>4. QED
  BY <1>3 DEF RowNumber, S

OnPage(post, ranking, limit, offset) == {i \in Id : Rnk(post, ranking, limit, offset)[i] # <<>>}

(* The page has the roots of its places and, with each comment, all its replies. *)
LEMMA PageIsTree ==
  ASSUME IInv, NEW post, NEW ranking, NEW limit \in Nat, NEW offset \in Nat
  PROVE  LET P   == OnPage(post, ranking, limit, offset)
             rnk == Rnk(post, ranking, limit, offset)
         IN /\ Paged(P, rnk, Places(ranking))
            /\ \A i \in P : Exists(i) /\ comments[i].post = post
            /\ \A i \in Id : Exists(i) /\ comments[i].post = post /\ comments[i].parent # 0 =>
                 (i \in P <=> comments[i].parent \in P)
            /\ \A i \in Id : Exists(i) /\ comments[i].post = post /\ comments[i].parent = 0 =>
                 (i \in P <=> RowNumber(ranking, i) \in offset + 1..offset + limit)
<1> DEFINE rnk == Rnk(post, ranking, limit, offset)
           place == Places(ranking)
           P == {i \in Id : rnk[i] # <<>>}
<1>1. \A i \in Id : rnk[i] = RnkOf(post, ranking, limit, offset, rnk, i)
  <2>1. rnk = [i \in Id |-> RnkOf(post, ranking, limit, offset, rnk, i)]
    BY RnkDefined
  <2> HIDE DEF rnk
  <2>2. QED
    BY <2>1
<1>2. \A i \in Id : place[i] \in Nat /\ place[i] = RowNumber(ranking, i)
  BY RowNumberType DEF Places
<1>3. P = OnPage(post, ranking, limit, offset)
  BY DEF OnPage
<1> HIDE DEF rnk, place
<1>4. \A x : <<x>> # <<>>
  OBVIOUS
<1>5. \A i \in Id : Exists(i) /\ comments[i].post = post /\ comments[i].parent = 0 =>
        /\ i \in P <=> place[i] \in offset + 1..offset + limit
        /\ i \in P => rnk[i] = <<place[i]>>
  BY <1>1, <1>2, <1>4 DEF RnkOf
<1>6. \A i \in P : Exists(i) /\ comments[i].post = post
  BY <1>1 DEF RnkOf
<1>7. \A i \in P : comments[i].parent # 0 =>
        comments[i].parent \in P /\ rnk[i] = Append(rnk[comments[i].parent], place[i])
  <2> SUFFICES ASSUME NEW i \in P, comments[i].parent # 0
               PROVE  comments[i].parent \in P /\ rnk[i] = Append(rnk[comments[i].parent], place[i])
    OBVIOUS
  <2>1. comments[i].parent \in Id
    BY <1>6, RowFacts
  <2>2. QED
    BY <1>1, <1>2, <1>6, <2>1 DEF RnkOf
<1>8. \A i \in P : rnk[i] \in Seq(Nat) /\ Len(rnk[i]) = comments[i].depth + 1
  <2> DEFINE Fine(i) == rnk[i] \in Seq(Nat) /\ Len(rnk[i]) = comments[i].depth + 1
             Wrong == {comments[i].depth : i \in {i \in P : ~Fine(i)}}
  <2> SUFFICES ASSUME Wrong # {} PROVE FALSE
    OBVIOUS
  <2>1. Wrong \in SUBSET Nat
    BY RowFacts
  <2>2. PICK d \in Wrong : \A y \in Wrong : d <= y
    <3> HIDE DEF Wrong
    <3>1. QED
      BY <2>1, LeastExists
  <2>3. PICK i \in P : ~Fine(i) /\ comments[i].depth = d
    BY <2>2
  <2>4. Exists(i) /\ place[i] \in Nat
    BY <1>2, <1>6
  <2>5. CASE comments[i].parent = 0
    <3>1. rnk[i] = <<place[i]>> /\ comments[i].depth = 0
      BY <1>5, <1>6, <2>4, <2>5, RowFacts
    <3>2. QED
      BY <2>3, <2>4, <3>1
  <2>6. CASE comments[i].parent # 0
    <3> DEFINE q == comments[i].parent
    <3>1. q \in P /\ comments[q].depth + 1 = d /\ comments[q].depth \in Nat
      BY <1>7, <2>3, <2>4, <2>6, RowFacts
    <3>2. comments[q].depth \notin Wrong
      <4>1. ~(d <= comments[q].depth)
        BY <3>1
      <4> HIDE DEF Wrong
      <4>2. QED
        BY <2>2, <4>1
    <3>3. Fine(q)
      BY <3>1, <3>2
    <3>4. rnk[i] = Append(rnk[q], place[i])
      BY <1>7, <2>6
    <3>5. Fine(i)
      <4>1. rnk[i] \in Seq(Nat) /\ Len(rnk[i]) = Len(rnk[q]) + 1
        BY <2>4, <3>3, <3>4
      <4>2. QED
        BY <2>3, <3>1, <3>3, <4>1
    <3>6. QED
      BY <2>3, <3>5
  <2>7. QED
    BY <2>5, <2>6
<1>9. ASSUME NEW i \in Id, Exists(i), comments[i].post = post, comments[i].parent # 0
      PROVE  i \in P <=> comments[i].parent \in P
  <2> DEFINE q == comments[i].parent
  <2>1. q \in Id
    BY <1>9, RowFacts
  <2>2. CASE q \in P
    <3>1. rnk[i] = Append(rnk[q], place[i]) /\ rnk[q] \in Seq(Nat) /\ place[i] \in Nat
      BY <1>1, <1>2, <1>8, <1>9, <2>2 DEF RnkOf
    <3>2. Len(rnk[i]) = Len(rnk[q]) + 1 /\ Len(rnk[q]) \in Nat
      BY <3>1
    <3>3. rnk[i] # <<>>
      BY <3>2
    <3>4. QED
      BY <2>2, <3>3
  <2>3. QED
    BY <1>7, <1>9, <2>2
<1>10. Paged(P, rnk, place)
  <2>1. \A i \in P : comments[i].parent = 0 => comments[i].depth = 0 /\ rnk[i] = <<place[i]>>
    BY <1>5, <1>6, RowFacts
  <2>2. \A i \in P : comments[i].parent # 0 =>
          comments[comments[i].parent].depth + 1 = comments[i].depth
    BY <1>6, RowFacts
  <2> HIDE DEF P
  <2>3. P \subseteq Id
    BY DEF P
  <2>4. QED
    BY <1>2, <1>7, <1>8, <2>1, <2>2, <2>3 DEF Paged
<1>11. QED
  BY <1>2, <1>3, <1>5, <1>6, <1>9, <1>10 DEF rnk, place

-----------------------------------------------------------------------------
(* Reading: siblings *)

RankOrder(ranking) == {p \in Id \X Id : ranking[p[1]] < ranking[p[2]]}
Siblings(i) ==
  {j \in Id : Exists(j) /\ comments[j].post = comments[i].post
                        /\ comments[j].parent = comments[i].parent}

(* A ranking orders any set of comments. *)
LEMMA RankOrders ==
  ASSUME NEW ranking \in Rankings, NEW S \in SUBSET Id
  PROVE  /\ IsFiniteSet(S) /\ Orders(RankOrder(ranking), S)
         /\ \A x \in S : Below(RankOrder(ranking), S, x) = {j \in S : ranking[j] < ranking[x]}
<1> DEFINE B == RankOrder(ranking)
<1>1. IsFiniteSet(S)
  <2>1. 1 \in Int /\ MaxId \in Int
    BY StoreAssumption
  <2>2. IsFiniteSet(Id)
    BY <2>1, FS_Interval DEF Id
  <2>3. QED
    BY <2>2, FS_Subset
<1>2. /\ \A i \in Id : ranking[i] \in Nat
      /\ \A i, j \in Id : ranking[i] = ranking[j] => i = j
  <2>1. Id \subseteq Nat
    BY StoreAssumption DEF Id
  <2>2. ranking \in [Id -> Id] /\ \A i, j \in Id : ranking[i] = ranking[j] => i = j
    BY Zenon DEF Rankings
  <2>3. QED
    BY <2>1, <2>2
<1>3. \A i, j \in Id : <<i, j>> \in B <=> ranking[i] < ranking[j]
  BY DEF RankOrder
<1> HIDE DEF B
<1>4. Orders(B, S)
  <2>1. \A x \in S : <<x, x>> \notin B
    BY <1>2, <1>3
  <2>2. \A x, y, z \in S : <<x, y>> \in B /\ <<y, z>> \in B => <<x, z>> \in B
    BY <1>2, <1>3
  <2>3. \A x, y \in S : x = y \/ <<x, y>> \in B \/ <<y, x>> \in B
    <3> SUFFICES ASSUME NEW x \in S, NEW y \in S, x # y PROVE <<x, y>> \in B \/ <<y, x>> \in B
      OBVIOUS
    <3>1. ranking[x] # ranking[y] /\ ranking[x] \in Nat /\ ranking[y] \in Nat
      BY <1>2
    <3>2. ranking[x] < ranking[y] \/ ranking[y] < ranking[x]
      BY ONLY <3>1
    <3>3. QED
      BY <1>3, <3>2
  <2>4. QED
    BY <2>1, <2>2, <2>3 DEF Orders
<1>5. \A x \in S : Below(B, S, x) = {j \in S : ranking[j] < ranking[x]}
  BY <1>3 DEF Below
<1>6. QED
  BY <1>1, <1>4, <1>5 DEF B

(* A row number is one more than the number of siblings before the row. *)
LEMMA PlaceCounts ==
  ASSUME NEW ranking \in Rankings, NEW i \in Id, Exists(i)
  PROVE  /\ RowNumber(ranking, i) = Cardinality(Below(RankOrder(ranking), Siblings(i), i)) + 1
         /\ i \in Siblings(i)
<1> DEFINE S == Siblings(i)
           L == {j \in S : ranking[j] < ranking[i]}
           M == {j \in Id : /\ Exists(j)
                            /\ comments[j].post = comments[i].post
                            /\ comments[j].parent = comments[i].parent
                            /\ ranking[j] <= ranking[i]}
<1>1. S \in SUBSET Id /\ i \in S
  BY DEF Siblings
<1>2. /\ \A j \in Id : ranking[j] \in Nat
      /\ \A j, k \in Id : ranking[j] = ranking[k] => j = k
  <2>1. Id \subseteq Nat
    BY StoreAssumption DEF Id
  <2>2. ranking \in [Id -> Id] /\ \A j, k \in Id : ranking[j] = ranking[k] => j = k
    BY Zenon DEF Rankings
  <2>3. QED
    BY <2>1, <2>2
<1>3. M = L \cup {i}
  BY <1>1, <1>2 DEF Siblings
<1>4. i \notin L
  BY <1>2
<1>5. IsFiniteSet(S) /\ L \in SUBSET S /\ L = Below(RankOrder(ranking), S, i)
  BY <1>1, RankOrders
<1>6. IsFiniteSet(L)
  BY <1>5, FS_Subset
<1> HIDE DEF L, M, S
<1>7. Cardinality(M) = Cardinality(L) + 1
  BY <1>3, <1>4, <1>6, FS_AddElement
<1>8. RowNumber(ranking, i) = Cardinality(M)
  BY DEF RowNumber, M
<1>9. QED
  BY <1>1, <1>5, <1>7, <1>8 DEF S

(* The numbers of a set that are 1 to m, each one once. *)
Group(G, key, m) ==
  /\ m \in Nat /\ G \subseteq Id
  /\ \A j \in G : key[j] \in 1..m
  /\ \A i, j \in G : key[i] = key[j] => i = j
  /\ \A q \in 1..m : \E j \in G : key[j] = q

(* Siblings have the places 1, 2, ... in the order of the ranking. *)
LEMMA SiblingsGroup ==
  ASSUME NEW ranking \in Rankings, NEW S \in SUBSET Id, \A j \in S : Exists(j) /\ Siblings(j) = S
  PROVE  /\ Group(S, Places(ranking), Cardinality(S))
         /\ Ordered(S, ranking) \in Seq(Id) /\ Len(Ordered(S, ranking)) = Cardinality(S)
         /\ \A j \in S : Ordered(S, ranking)[Places(ranking)[j]] = j
         /\ \A i, j \in S : ranking[i] < ranking[j] => Places(ranking)[i] < Places(ranking)[j]
<1> DEFINE B == RankOrder(ranking)
           c == Cardinality(S)
           place == Places(ranking)
           at(x) == Cardinality(Below(B, S, x))
           s == Ordered(S, ranking)
<1>1. /\ IsFiniteSet(S) /\ Orders(B, S)
      /\ \A x \in S : Below(B, S, x) = {j \in S : ranking[j] < ranking[x]}
  BY RankOrders
<1>2. c \in Nat
  BY <1>1, FS_CardinalityType
<1>3. \A j \in S : place[j] = at(j) + 1
  BY PlaceCounts DEF Places
<1>4. /\ \A x \in S : at(x) \in 0..(c - 1)
      /\ \A x, y \in S : <<x, y>> \in B => at(x) < at(y)
  BY <1>1, BelowGrows
<1>5. /\ \A x, y \in S : at(x) = at(y) => x = y
      /\ \A n \in 0..(c - 1) : \E x \in S : at(x) = n
  BY <1>1, BelowCounts
<1>6. Lists(s, S, B)
  <2> DEFINE first(n)  == CHOOSE i \in S : Cardinality({j \in S : ranking[j] < ranking[i]}) = n - 1
             second(n) == CHOOSE i \in S : Cardinality(Below(B, S, i)) = n - 1
  <2>1. s = [n \in 1..c |-> first(n)]
    BY DEF Ordered, InOrder
  <2>2. ASSUME NEW n \in 1..c PROVE first(n) = second(n)
    <3>1. \A i : (i \in S /\ Cardinality({j \in S : ranking[j] < ranking[i]}) = n - 1)
                   <=> (i \in S /\ Cardinality(Below(B, S, i)) = n - 1)
      BY <1>1
    <3> HIDE DEF B
    <3>2. QED
      BY <3>1
  <2>3. s = [n \in 1..c |-> second(n)]
    <3> HIDE DEF s, first, second, c
    <3>1. QED
      BY <2>1, <2>2
  <2> HIDE DEF B, s
  <2>4. QED
    BY <1>1, <2>3, Listed
<1> HIDE DEF at, s, place, B, c
<1>7. \A i, j \in S : ranking[i] < ranking[j] => place[i] < place[j]
  <2>1. \A i, j \in S : ranking[i] < ranking[j] => <<i, j>> \in B
    BY DEF B, RankOrder
  <2>2. \A i, j \in S : ranking[i] < ranking[j] => at(i) < at(j)
    BY <1>4, <2>1
  <2>3. QED
    BY <1>2, <1>3, <1>4, <2>2
<1>8. Group(S, place, c)
  <2>1. \A j \in S : place[j] \in 1..c
    BY <1>2, <1>3, <1>4
  <2>2. \A i, j \in S : place[i] = place[j] => i = j
    BY <1>3, <1>4, <1>5
  <2>3. ASSUME NEW q \in 1..c PROVE \E j \in S : place[j] = q
    <3>1. q - 1 \in 0..(c - 1) /\ q - 1 + 1 = q
      BY <1>2
    <3>2. PICK j \in S : at(j) = q - 1
      BY <1>5, <3>1
    <3>3. QED
      BY <1>3, <3>1, <3>2
  <2>4. QED
    BY <1>2, <2>1, <2>2, <2>3 DEF Group
<1>9. s \in Seq(Id) /\ Len(s) = c /\ \A j \in S : s[place[j]] = j
  BY <1>3, <1>6, SeqMonotonic DEF Lists, at, c
<1>10. QED
  BY <1>7, <1>8, <1>9 DEF s, place, c

(* Arrays that end the same way and are the same began the same way. *)
LEMMA AppendSame ==
  ASSUME NEW s \in Seq(Nat), NEW t \in Seq(Nat), NEW x \in Nat, NEW y \in Nat,
         Append(s, x) = Append(t, y)
  PROVE  s = t /\ x = y
<1>1. /\ Len(Append(s, x)) = Len(s) + 1 /\ Append(s, x)[Len(s) + 1] = x
      /\ \A i \in 1..Len(s) : Append(s, x)[i] = s[i]
  BY ONLY AppendProperties, s \in Seq(Nat), x \in Nat
<1>2. /\ Len(Append(t, y)) = Len(t) + 1 /\ Append(t, y)[Len(t) + 1] = y
      /\ \A i \in 1..Len(t) : Append(t, y)[i] = t[i]
  BY ONLY AppendProperties, t \in Seq(Nat), y \in Nat
<1>3. Len(s) = Len(t)
  <2>1. Len(s) \in Nat /\ Len(t) \in Nat
    BY LenProperties
  <2>2. Len(s) + 1 = Len(t) + 1
    BY <1>1, <1>2
  <2>3. QED
    BY ONLY <2>1, <2>2
<1>4. x = y /\ \A i \in 1..Len(s) : s[i] = t[i]
  BY <1>1, <1>2, <1>3
<1>5. QED
  BY <1>3, <1>4, SeqEqual

(* Two comments with one array are one. *)
LEMMA PageDistinct ==
  ASSUME IInv, NEW post, NEW ranking \in Rankings, NEW rnk, NEW P, Paged(P, rnk, Places(ranking)),
         \A i \in P : Exists(i) /\ comments[i].post = post
  PROVE  Distinct(P, rnk)
<1> DEFINE place == Places(ranking)
           Twins == {x \in P : \E y \in P : x # y /\ rnk[x] = rnk[y]}
           Depths == {comments[x].depth : x \in Twins}
<1>1. /\ P \subseteq Id
      /\ \A i \in P : rnk[i] \in Seq(Nat) /\ Len(rnk[i]) = comments[i].depth + 1 /\ place[i] \in Nat
      /\ \A i \in P : comments[i].parent = 0 => comments[i].depth = 0 /\ rnk[i] = <<place[i]>>
      /\ \A i \in P : comments[i].parent # 0 =>
           /\ comments[i].parent \in P /\ comments[comments[i].parent].depth + 1 = comments[i].depth
           /\ rnk[i] = Append(rnk[comments[i].parent], place[i])
  BY DEF Paged
<1>2. \A i \in P : comments[i].depth \in Nat
  BY <1>1, RowFacts
<1>3. ASSUME NEW x \in P, NEW y \in P, comments[x].parent = comments[y].parent, place[x] = place[y]
      PROVE  x = y
  <2>1. /\ Exists(x) /\ Exists(y) /\ Siblings(x) = Siblings(y)
        /\ x \in Siblings(x) /\ y \in Siblings(x) /\ Siblings(x) \in SUBSET Id
    BY <1>1, <1>3 DEF Siblings
  <2> DEFINE S == Siblings(x)
  <2>2. \A j \in S : Exists(j) /\ Siblings(j) = S
    BY DEF Siblings
  <2> HIDE DEF S
  <2>3. Group(S, place, Cardinality(S))
    BY <2>1, <2>2, SiblingsGroup DEF S
  <2>4. QED
    BY <1>3, <2>1, <2>3 DEF Group, S
<1> HIDE DEF place
<1>4. Depths = {}
  <2> SUFFICES ASSUME Depths # {} PROVE FALSE
    OBVIOUS
  <2>1. Depths \in SUBSET Nat
    BY <1>2
  <2>2. PICK d \in Depths : \A y \in Depths : d <= y
    <3> HIDE DEF Depths
    <3>1. QED
      BY <2>1, LeastExists
  <2>3. PICK x \in P, y \in P : x # y /\ rnk[x] = rnk[y] /\ comments[x].depth = d
    BY <2>2
  <2>4. comments[y].depth = d
    <3>1. /\ Len(rnk[x]) = d + 1 /\ Len(rnk[y]) = comments[y].depth + 1
          /\ d \in Nat /\ comments[y].depth \in Nat
      BY <1>1, <1>2, <2>3
    <3>2. d + 1 = comments[y].depth + 1
      BY <2>3, <3>1
    <3>3. QED
      BY ONLY <3>1, <3>2
  <2>5. CASE comments[x].parent = 0
    <3>1. comments[y].parent = 0
      <4> SUFFICES ASSUME comments[y].parent # 0 PROVE FALSE
        OBVIOUS
      <4>1. comments[y].parent \in P /\ comments[comments[y].parent].depth + 1 = 0
        BY <1>1, <2>3, <2>4, <2>5
      <4>2. QED
        BY <1>2, <4>1
    <3>2. <<place[x]>> = <<place[y]>>
      BY <1>1, <2>3, <2>5, <3>1
    <3>3. place[x] = place[y]
      BY <3>2
    <3>4. QED
      BY <1>3, <2>3, <2>5, <3>1, <3>3
  <2>6. CASE comments[x].parent # 0
    <3> DEFINE p == comments[x].parent
               q == comments[y].parent
    <3>1. p \in P /\ comments[p].depth + 1 = d /\ rnk[x] = Append(rnk[p], place[x])
      BY <1>1, <2>3, <2>6
    <3>2. q # 0
      <4> SUFFICES ASSUME q = 0 PROVE FALSE
        OBVIOUS
      <4>1. d = 0
        BY <1>1, <2>4
      <4>2. QED
        BY <1>2, <3>1, <4>1
    <3>3. q \in P /\ rnk[y] = Append(rnk[q], place[y])
      BY <1>1, <2>3, <3>2
    <3>4. rnk[p] = rnk[q] /\ place[x] = place[y]
      <4>1. rnk[p] \in Seq(Nat) /\ rnk[q] \in Seq(Nat) /\ place[x] \in Nat /\ place[y] \in Nat
        BY <1>1, <2>3, <3>1, <3>3
      <4>2. Append(rnk[p], place[x]) = Append(rnk[q], place[y])
        BY <2>3, <3>1, <3>3
      <4> DEFINE a == rnk[p]
                 b == rnk[q]
                 m == place[x]
                 n == place[y]
      <4> HIDE DEF a, b, m, n
      <4>3. a = b /\ m = n
        <5>1. a \in Seq(Nat) /\ b \in Seq(Nat) /\ m \in Nat /\ n \in Nat /\ Append(a, m) = Append(b, n)
          BY <4>1, <4>2 DEF a, b, m, n
        <5>2. QED
          BY ONLY <5>1, AppendSame
      <4>4. QED
        BY <4>3 DEF a, b, m, n
    <3>5. p = q
      <4> SUFFICES ASSUME p # q PROVE FALSE
        OBVIOUS
      <4>1. comments[p].depth \in Depths
        BY <3>1, <3>3, <3>4
      <4>2. d <= comments[p].depth /\ comments[p].depth \in Nat
        <5> HIDE DEF Depths
        <5>1. QED
          BY <1>2, <2>2, <3>1, <4>1
      <4>3. QED
        BY <3>1, <4>2
    <3>6. QED
      BY <1>3, <2>3, <3>4, <3>5
  <2>7. QED
    BY <2>5, <2>6
<1>5. QED
  BY <1>4 DEF Distinct

-----------------------------------------------------------------------------
(* Reading: the lists of replies *)

(* L has those of G that have been seen, each where its number says. *)
Filled(L, G, key, m, seenRows) ==
  /\ L \in Seq(Id) /\ Len(L) <= m
  /\ \A j \in G : j \in seenRows <=> key[j] <= Len(L)
  /\ \A j \in G : key[j] <= Len(L) => L[key[j]] = j

(* The next of the group is appended where its number says. *)
LEMMA FilledGrows ==
  ASSUME NEW G, NEW key, NEW m, Group(G, key, m), NEW L, NEW seenRows, Filled(L, G, key, m, seenRows),
         NEW j \in G, j \notin seenRows, \A i \in G : key[i] < key[j] => i \in seenRows
  PROVE  Filled(Append(L, j), G, key, m, seenRows \cup {j})
<1> DEFINE n == Len(L)
           M == Append(L, j)
<1>1. /\ m \in Nat /\ G \subseteq Id
      /\ \A i \in G : key[i] \in 1..m
      /\ \A i, l \in G : key[i] = key[l] => i = l
      /\ \A q \in 1..m : \E i \in G : key[i] = q
  BY DEF Group
<1>2. /\ L \in Seq(Id) /\ n <= m
      /\ \A i \in G : i \in seenRows <=> key[i] <= n
      /\ \A i \in G : key[i] <= n => L[key[i]] = i
  BY DEF Filled
<1>3. n \in Nat
  BY <1>2, LenProperties
<1>4. M \in Seq(Id) /\ Len(M) = n + 1 /\ M[n + 1] = j /\ \A i \in 1..n : M[i] = L[i]
  BY <1>1, <1>2, AppendProperties
<1> HIDE DEF n, M
<1>5. key[j] = n + 1
  <2>1. key[j] \in 1..m /\ ~(key[j] <= n)
    BY <1>1, <1>2
  <2>2. CASE key[j] > n + 1
    <3>1. n + 1 \in 1..m
      BY <1>1, <1>3, <2>1, <2>2
    <3>2. PICK i \in G : key[i] = n + 1
      BY <1>1, <3>1
    <3>3. i \in seenRows
      BY <2>2, <3>2
    <3>4. key[i] <= n
      BY <1>2, <3>3
    <3>5. QED
      BY <1>3, <3>2, <3>4
  <2>3. QED
    BY <1>1, <1>3, <2>1, <2>2
<1>6. n + 1 <= m
  BY <1>1, <1>5
<1>7. ASSUME NEW i \in G
      PROVE  /\ i \in seenRows \cup {j} <=> key[i] <= n + 1
             /\ key[i] <= n + 1 => M[key[i]] = i
  <2>1. key[i] \in 1..m
    BY <1>1
  <2>2. CASE i = j
    BY <1>3, <1>4, <1>5, <2>2
  <2>3. CASE i # j
    <3>1. key[i] # n + 1
      BY <1>1, <1>5, <2>3
    <3>2. key[i] <= n + 1 <=> key[i] <= n
      BY <1>1, <1>3, <2>1, <3>1
    <3>3. i \in seenRows <=> key[i] <= n
      BY <1>2
    <3>4. key[i] <= n => M[key[i]] = i
      BY <1>1, <1>2, <1>3, <1>4, <2>1
    <3>5. QED
      BY <2>3, <3>2, <3>3, <3>4
  <2>4. QED
    BY <2>2, <2>3
<1>8. /\ M \in Seq(Id) /\ Len(M) <= m
      /\ \A i \in G : i \in seenRows \cup {j} <=> key[i] <= Len(M)
      /\ \A i \in G : key[i] <= Len(M) => M[key[i]] = i
  <2>1. Len(M) = n + 1
    BY <1>4
  <2>2. QED
    BY <1>4, <1>6, <1>7, <2>1
<1>9. QED
  BY <1>8, Zenon DEF Filled, M

(* A comment of another group changes nothing. *)
LEMMA FilledStays ==
  ASSUME NEW G, NEW key, NEW m, NEW L, NEW seenRows, Filled(L, G, key, m, seenRows), NEW j, j \notin G
  PROVE  Filled(L, G, key, m, seenRows \cup {j})
  BY DEF Filled

(* When all of the group have been seen, the list is the whole group. *)
LEMMA FilledAll ==
  ASSUME NEW G, NEW key, NEW m, Group(G, key, m), NEW L, NEW seenRows, Filled(L, G, key, m, seenRows),
         G \subseteq seenRows
  PROVE  L \in Seq(Id) /\ Len(L) = m /\ \A j \in G : L[key[j]] = j
<1>1. m \in Nat /\ \A q \in 1..m : \E i \in G : key[i] = q
  BY DEF Group
<1>2. /\ L \in Seq(Id) /\ Len(L) <= m
      /\ \A i \in G : key[i] <= Len(L) /\ L[key[i]] = i
  BY DEF Filled
<1>3. Len(L) \in Nat
  BY <1>2, LenProperties
<1>4. ~(Len(L) < m)
  <2> SUFFICES ASSUME Len(L) < m PROVE FALSE
    OBVIOUS
  <2>1. Len(L) + 1 \in 1..m
    BY <1>1, <1>3
  <2>2. PICK i \in G : key[i] = Len(L) + 1
    BY <1>1, <2>1
  <2>3. Len(L) + 1 <= Len(L)
    BY <1>2, <2>2
  <2>4. QED
    BY ONLY <1>3, <2>3
<1>5. Len(L) = m
  BY ONLY <1>1, <1>2, <1>3, <1>4
<1>6. QED
  BY <1>2, <1>5

(* There is one list that has each of a group where its number says. *)
LEMMA FilledSame ==
  ASSUME NEW G, NEW key, NEW m, Group(G, key, m), NEW s \in Seq(Id), NEW t \in Seq(Id),
         Len(s) = m, Len(t) = m, \A j \in G : s[key[j]] = j /\ t[key[j]] = j
  PROVE  s = t
<1>1. \A q \in 1..m : \E i \in G : key[i] = q
  BY DEF Group
<1>2. \A q \in 1..m : s[q] = t[q]
  BY <1>1
<1>3. QED
  BY <1>2, SeqEqual

-----------------------------------------------------------------------------
(* Reading: rows in order *)

Rowed(rows, P, rnk) ==
  /\ rows \in Seq(P)
  /\ \A x \in P : \E n \in 1..Len(rows) : rows[n] = x
  /\ \A n, m \in 1..Len(rows) : Precedes(rnk[rows[n]], rnk[rows[m]]) => n < m
  /\ \A n, m \in 1..Len(rows) : n < m => Precedes(rnk[rows[n]], rnk[rows[m]])
ReadTo(rows, k) == {rows[l] : l \in 1..k}

Tops(P)    == {j \in P : comments[j].parent = 0}
Kids(P, i) == {j \in P : comments[j].parent = i}

Setting(rows, P, rnk, place, low, m) ==
  /\ Paged(P, rnk, place) /\ Distinct(P, rnk) /\ Rowed(rows, P, rnk)
  /\ Group(Tops(P), low, m)
  /\ \A i, j \in Tops(P) : low[i] < low[j] => place[i] < place[j]
  /\ \A i \in P : Group(Kids(P, i), place, Cardinality(Kids(P, i)))

LEMMA DifferAt ==
  ASSUME NEW a, NEW b, NEW k, k \in 1..Len(b), k <= Len(a) + 1, \A j \in 1..(k - 1) : a[j] = b[j],
         a[k] < b[k]
  PROVE  Differ(a, b, k)
  BY DEF Differ

(* An array is before the ones it starts, which are in the order of their last places. *)
LEMMA AppendPrecedes ==
  ASSUME NEW r \in Seq(Nat), NEW a \in Nat, NEW b \in Nat
  PROVE  /\ Precedes(r, Append(r, a))
         /\ a < b => Precedes(Append(r, a), Append(r, b))
<1> DEFINE n == Len(r)
           s == Append(r, a)
           t == Append(r, b)
<1>1. n \in Nat
  BY LenProperties
<1>2. /\ s \in Seq(Nat) /\ Len(s) = n + 1 /\ s[n + 1] = a /\ \A i \in 1..n : s[i] = r[i]
      /\ t \in Seq(Nat) /\ Len(t) = n + 1 /\ t[n + 1] = b /\ \A i \in 1..n : t[i] = r[i]
  BY AppendProperties
<1> HIDE DEF s, t
<1>3. n + 1 \in Nat /\ n + 1 \in 1..(n + 1) /\ n + 1 - 1 = n /\ n + 1 <= n + 1 + 1 /\ n + 1 <= n + 1
  BY ONLY <1>1
<1>4. Differ(r, s, n + 1)
  <2>1. \A j \in 1..(n + 1 - 1) : r[j] = s[j]
    BY <1>2, <1>3
  <2>2. QED
    BY <1>2, <1>3, <2>1 DEF Differ
<1>5. ASSUME a < b PROVE Differ(s, t, n + 1)
  <2>1. \A j \in 1..(n + 1 - 1) : s[j] = t[j]
    BY <1>2, <1>3
  <2>2. s[n + 1] < t[n + 1]
    BY <1>2, <1>5
  <2>3. n + 1 \in 1..Len(t)
    BY <1>2, <1>3
  <2>4. n + 1 <= Len(s) + 1
    BY <1>2, <1>3
  <2>5. QED
    BY <2>1, <2>2, <2>3, <2>4, DifferAt
<1>6. QED
  BY <1>2, <1>3, <1>4, <1>5, PrecedesAt DEF s, t

(* Siblings are read in the order of their places. *)
LEMMA SiblingsInOrder ==
  ASSUME NEW rows, NEW P, NEW rnk, NEW place, NEW low, NEW c, Setting(rows, P, rnk, place, low, c),
         NEW n \in 1..Len(rows), NEW i \in P, comments[i].parent = comments[rows[n]].parent,
         place[i] < place[rows[n]]
  PROVE  i \in ReadTo(rows, n - 1)
<1> DEFINE j == rows[n]
<1>1. /\ \A x \in P : \E l \in 1..Len(rows) : rows[l] = x
      /\ \A l, m \in 1..Len(rows) : Precedes(rnk[rows[l]], rnk[rows[m]]) => l < m
  BY DEF Setting, Rowed
<1>2. j \in P
  BY ElementOfSeq DEF Setting, Rowed
<1>3. /\ \A x \in P : rnk[x] \in Seq(Nat) /\ place[x] \in Nat
      /\ \A x \in P : comments[x].parent = 0 => rnk[x] = <<place[x]>>
      /\ \A x \in P : comments[x].parent # 0 =>
           comments[x].parent \in P /\ rnk[x] = Append(rnk[comments[x].parent], place[x])
  BY DEF Setting, Paged
<1>4. Precedes(rnk[i], rnk[j])
  <2>1. CASE comments[i].parent = 0
    <3>1. <<>> \in Seq(Nat) /\ place[i] \in Nat /\ place[j] \in Nat
      BY <1>2, <1>3
    <3>2. Precedes(Append(<<>>, place[i]), Append(<<>>, place[j]))
      BY <3>1, AppendPrecedes
    <3>3. rnk[i] = Append(<<>>, place[i]) /\ rnk[j] = Append(<<>>, place[j])
      <4>1. rnk[i] = <<place[i]>> /\ rnk[j] = <<place[j]>>
        BY <1>2, <1>3, <2>1
      <4>2. \A x : Append(<<>>, x) = <<x>>
        OBVIOUS
      <4>3. QED
        BY ONLY <4>1, <4>2, Zenon
    <3>4. QED
      BY <3>2, <3>3
  <2>2. CASE comments[i].parent # 0
    <3> DEFINE r == rnk[comments[i].parent]
    <3>1. r \in Seq(Nat) /\ rnk[i] = Append(r, place[i]) /\ rnk[j] = Append(r, place[j])
          /\ place[i] \in Nat /\ place[j] \in Nat
      BY <1>2, <1>3, <2>2
    <3> HIDE DEF r
    <3>2. QED
      BY <3>1, AppendPrecedes
  <2>3. QED
    BY <2>1, <2>2
<1>5. PICK l \in 1..Len(rows) : rows[l] = i
  BY <1>1
<1>6. l < n
  BY <1>1, <1>4, <1>5
<1>7. l \in 1..(n - 1)
  BY ONLY <1>6, l \in 1..Len(rows), n \in 1..Len(rows)
<1>8. QED
  BY <1>5, <1>7 DEF ReadTo

(* The stack is the branch of the last row. *)
Branch(stack, rows, P, rnk, k) ==
  /\ stack \in Seq(P)
  /\ k = 0 => stack = <<>>
  /\ k > 0 => /\ Len(stack) = Len(rnk[rows[k]])
              /\ \A e \in 1..Len(stack) :
                   /\ Len(rnk[stack[e]]) = e
                   /\ \A q \in 1..e : rnk[stack[e]][q] = rnk[rows[k]][q]

(* A root starts a branch. *)
LEMMA BranchRoot ==
  ASSUME NEW rows, NEW P, NEW rnk, NEW place, Paged(P, rnk, place),
         NEW k \in Nat, rows[k + 1] \in P, comments[rows[k + 1]].parent = 0
  PROVE  Branch(<<rows[k + 1]>>, rows, P, rnk, k + 1)
<1> DEFINE j == rows[k + 1]
<1>1. Len(rnk[j]) = 1
  BY DEF Paged
<1>2. <<j>> \in Seq(P) /\ Len(<<j>>) = 1 /\ <<j>>[1] = j
  OBVIOUS
<1>3. k + 1 # 0
  OBVIOUS
<1> HIDE DEF j
<1>4. ASSUME NEW e \in 1..1
      PROVE  Len(rnk[<<j>>[e]]) = e /\ \A q \in 1..e : rnk[<<j>>[e]][q] = rnk[j][q]
  <2>1. e = 1
    OBVIOUS
  <2>2. QED
    BY <1>1, <1>2, <2>1
<1>5. QED
  BY <1>1, <1>2, <1>3, <1>4 DEF Branch, j

(* b is q or below q, and j is a reply to q; d is the length of q's array. *)
Under(P, rnk, b, j, q, d) ==
  /\ q \in P /\ d \in Nat /\ Len(rnk[q]) = d
  /\ d <= Len(rnk[b]) /\ Len(rnk[j]) = d + 1
  /\ \A e \in 1..d : rnk[b][e] = rnk[q][e] /\ rnk[j][e] = rnk[q][e]

(* What is read between a comment and its reply is below the comment. *)
LEMMA BranchOfParent ==
  ASSUME IInv, NEW rows, NEW P, NEW rnk, NEW place, Paged(P, rnk, place), Rowed(rows, P, rnk),
         NEW k \in Nat, k + 1 \in 1..Len(rows), comments[rows[k + 1]].parent # 0
  PROVE  /\ k > 0 /\ rows[k] \in P
         /\ Under(P, rnk, rows[k], rows[k + 1], comments[rows[k + 1]].parent,
                  comments[rows[k + 1]].depth)
<1> DEFINE j == rows[k + 1]
           q == comments[j].parent
           b == rows[k]
           d == Len(rnk[q])
<1>1. /\ rows \in Seq(P)
      /\ \A x \in P : \E l \in 1..Len(rows) : rows[l] = x
      /\ \A l, m \in 1..Len(rows) : Precedes(rnk[rows[l]], rnk[rows[m]]) => l < m
      /\ \A l, m \in 1..Len(rows) : l < m => Precedes(rnk[rows[l]], rnk[rows[m]])
  BY DEF Rowed
<1>2. j \in P
  BY <1>1, ElementOfSeq
<1>3. /\ \A x \in P : rnk[x] \in Seq(Nat) /\ place[x] \in Nat /\ Len(rnk[x]) = comments[x].depth + 1
      /\ q \in P /\ comments[q].depth + 1 = comments[j].depth
      /\ rnk[j] = Append(rnk[q], place[j])
  <2>1. /\ \A x \in P : rnk[x] \in Seq(Nat) /\ place[x] \in Nat /\ Len(rnk[x]) = comments[x].depth + 1
        /\ \A x \in P : comments[x].parent # 0 =>
             /\ comments[x].parent \in P /\ comments[comments[x].parent].depth + 1 = comments[x].depth
             /\ rnk[x] = Append(rnk[comments[x].parent], place[x])
    BY Zenon DEF Paged
  <2>2. j \in P /\ q # 0
    BY <1>2
  <2> HIDE DEF j
  <2>3. QED
    BY <2>1, <2>2, Zenon
<1>4. d = comments[j].depth /\ d \in Nat
  BY <1>3, LenProperties
<1>5. /\ Len(rnk[j]) = d + 1 /\ rnk[j] \in Seq(Nat)
      /\ \A e \in 1..d : rnk[j][e] = rnk[q][e]
  BY <1>2, <1>3, AppendProperties
<1>6. Precedes(rnk[q], rnk[j])
  BY <1>2, <1>3, AppendPrecedes
<1>7. PICK n \in 1..Len(rows) : rows[n] = q
  BY <1>1, <1>3
<1>8. n < k + 1
  BY <1>1, <1>6, <1>7
<1>9. Len(rows) \in Nat
  BY <1>1, LenProperties
<1>10. k > 0 /\ k \in 1..Len(rows) /\ k < k + 1 /\ n <= k /\ ~(k + 1 < k)
  BY ONLY <1>8, <1>9, k \in Nat, k + 1 \in 1..Len(rows), n \in 1..Len(rows)
<1>11. b \in P
  BY <1>1, <1>10, ElementOfSeq
<1> HIDE DEF j, q, d, b
<1>12. d <= Len(rnk[b]) /\ \A e \in 1..d : rnk[b][e] = rnk[q][e]
  <2>1. CASE n = k
    <3>1. b = q
      BY <1>7, <2>1 DEF b
    <3>2. QED
      BY <1>4, <3>1 DEF d
  <2>2. CASE n # k
    <3>1. n < k
      BY <1>10, <2>2
    <3>2. Precedes(rnk[q], rnk[b])
      BY <1>1, <1>7, <1>10, <3>1 DEF b
    <3>3. rnk[q] \in Seq(Nat) /\ rnk[b] \in Seq(Nat)
      BY <1>3, <1>11
    <3>4. PICK l \in Nat : Differ(rnk[q], rnk[b], l)
      BY <3>2, <3>3, PrecedesAt
    <3>5. /\ l \in 1..Len(rnk[b]) /\ l <= d + 1 /\ (\A e \in 1..(l - 1) : rnk[q][e] = rnk[b][e])
          /\ l = d + 1 \/ rnk[q][l] < rnk[b][l]
      BY <3>4 DEF Differ, d
    <3>6. CASE l = d + 1
      <4>1. l - 1 = d
        BY <1>4, <3>6
      <4>2. Len(rnk[b]) \in Nat
        BY <3>3, LenProperties
      <4>3. d <= Len(rnk[b])
        BY ONLY <1>4, <3>5, <3>6, <4>2
      <4>4. QED
        BY <3>5, <4>1, <4>3
    <3>7. CASE l # d + 1
      <4>1. l \in 1..d /\ l <= d + 1 + 1 /\ l - 1 <= d
        <5>1. l <= d + 1 /\ l >= 1 /\ l \in Nat
          BY <3>5
        <5>2. QED
          BY ONLY <1>4, <3>7, <5>1
      <4>2. rnk[j][l] < rnk[b][l]
        BY <1>5, <3>5, <3>7, <4>1
      <4>3. \A e \in 1..(l - 1) : rnk[j][e] = rnk[b][e]
        <5> SUFFICES ASSUME NEW e \in 1..(l - 1) PROVE rnk[j][e] = rnk[b][e]
          OBVIOUS
        <5>1. e \in 1..d
          BY ONLY <1>4, <4>1, l \in Nat, e \in 1..(l - 1)
        <5>2. QED
          BY <1>5, <3>5, <5>1
      <4>4. Differ(rnk[j], rnk[b], l)
        BY <1>5, <3>5, <4>1, <4>2, <4>3 DEF Differ
      <4>5. Precedes(rnk[j], rnk[b])
        BY <1>5, <3>3, <4>4, PrecedesAt
      <4>6. k + 1 < k
        BY <1>1, <1>10, <4>5 DEF j, b
      <4>7. QED
        BY <1>10, <4>6
    <3>8. QED
      BY <3>6, <3>7
  <2>3. QED
    BY <2>1, <2>2
<1>13. QED
  <2>1. Under(P, rnk, b, j, q, d)
    BY <1>3, <1>4, <1>5, <1>12 DEF Under, d
  <2>2. QED
    BY <1>4, <1>10, <1>11, <2>1 DEF j, q, b

(* A reply finds its parent on the stack, at its depth, and the cut branch takes the reply. *)
LEMMA BranchMoves ==
  ASSUME IInv, NEW rows, NEW P, NEW rnk, NEW place, Paged(P, rnk, place), Rowed(rows, P, rnk),
         Distinct(P, rnk), NEW k \in Nat, k + 1 \in 1..Len(rows), comments[rows[k + 1]].parent # 0,
         NEW stack, Branch(stack, rows, P, rnk, k)
  PROVE  LET j == rows[k + 1]
             d == comments[j].depth
         IN /\ d \in 1..Len(stack) /\ stack[d] = comments[j].parent
            /\ Branch(Append(CutBranch(stack, d), j), rows, P, rnk, k + 1)
<1> DEFINE j == rows[k + 1]
           q == comments[j].parent
           b == rows[k]
           d == comments[j].depth
           cut == CutBranch(stack, d)
           T == Append(cut, j)
<1>1. /\ k > 0 /\ b \in P /\ q \in P /\ d \in Nat
      /\ d <= Len(rnk[b]) /\ Len(rnk[q]) = d /\ Len(rnk[j]) = d + 1
      /\ \A e \in 1..d : rnk[b][e] = rnk[q][e] /\ rnk[j][e] = rnk[q][e]
  <2>1. k > 0 /\ b \in P /\ Under(P, rnk, b, j, q, d)
    BY BranchOfParent
  <2>2. QED
    BY <2>1 DEF Under
<1>2. j \in P /\ \A x \in P : rnk[x] \in Seq(Nat) /\ Len(rnk[x]) = comments[x].depth + 1
  BY ElementOfSeq DEF Rowed, Paged
<1>3. \A x \in P : comments[x].depth \in Nat
  BY RowFacts DEF Paged
<1>4. /\ stack \in Seq(P) /\ Len(stack) = Len(rnk[b])
      /\ \A e \in 1..Len(stack) :
           /\ Len(rnk[stack[e]]) = e
           /\ \A x \in 1..e : rnk[stack[e]][x] = rnk[b][x]
  <2>1. k > 0
    BY <1>1
  <2>2. QED
    BY <2>1, Zenon DEF Branch
<1> HIDE DEF j, q, b
<1>5. d \in 1..Len(stack)
  <2>1. comments[q].depth + 1 = d /\ comments[q].depth \in Nat
    BY <1>1, <1>2, <1>3
  <2>2. Len(stack) \in Nat
    BY <1>4, LenProperties
  <2>3. d <= Len(stack)
    BY <1>1, <1>4
  <2> HIDE DEF d
  <2>4. QED
    BY ONLY <2>1, <2>2, <2>3
<1>6. stack[d] = q
  <2>1. stack[d] \in P
    BY <1>4, <1>5, ElementOfSeq
  <2>2. Len(rnk[stack[d]]) = d /\ \A x \in 1..d : rnk[stack[d]][x] = rnk[q][x]
    BY <1>1, <1>4, <1>5
  <2>3. rnk[stack[d]] \in Seq(Nat) /\ rnk[q] \in Seq(Nat) /\ Len(rnk[q]) = d
    BY <1>1, <1>2, <2>1
  <2> HIDE DEF d
  <2>4. rnk[stack[d]] = rnk[q]
    BY <2>2, <2>3, SeqEqual
  <2>5. QED
    BY <1>1, <2>1, <2>4 DEF Distinct
<1>7. /\ cut \in Seq(P) /\ Len(cut) = d
      /\ \A e \in 1..d : cut[e] = stack[e]
  <2>1. /\ 1 \in Int /\ d \in Int /\ 1 <= d /\ d - 1 + 1 = d
        /\ \A e \in 1..d : 1 + e - 1 = e /\ e \in 1..Len(stack) /\ e \in 1..(d - 1 + 1)
    BY <1>5
  <2>2. \A e \in 1..d : stack[e] \in P
    BY <1>4, <2>1, ElementOfSeq
  <2>3. cut = SubSeq(stack, 1, d)
    BY DEF CutBranch
  <2> HIDE DEF cut, d
  <2>4. /\ SubSeq(stack, 1, d) \in Seq(P)
        /\ Len(SubSeq(stack, 1, d)) = IF 1 <= d THEN d - 1 + 1 ELSE 0
        /\ \A e \in 1..(d - 1 + 1) : SubSeq(stack, 1, d)[e] = stack[1 + e - 1]
    BY <2>1, <2>2, SubSeqProperties
  <2>5. QED
    BY <2>1, <2>3, <2>4
<1> HIDE DEF cut, d
<1>8. T \in Seq(P) /\ Len(T) = d + 1 /\ T[d + 1] = j /\ \A e \in 1..d : T[e] = cut[e]
  BY <1>2, <1>7, AppendProperties
<1> HIDE DEF T
<1>9. ASSUME NEW e \in 1..(d + 1)
      PROVE  Len(rnk[T[e]]) = e /\ \A x \in 1..e : rnk[T[e]][x] = rnk[j][x]
  <2>1. CASE e = d + 1
    BY <1>1, <1>8, <2>1
  <2>2. CASE e # d + 1
    <3>1. e \in 1..d /\ e \in 1..Len(stack)
      BY <1>1, <1>5, <2>2
    <3>2. T[e] = stack[e]
      BY <1>7, <1>8, <3>1
    <3>3. \A x \in 1..e : x \in 1..d
      BY <1>1, <3>1
    <3>4. \A x \in 1..e : rnk[stack[e]][x] = rnk[j][x]
      BY <1>1, <1>4, <3>1, <3>3
    <3>5. QED
      BY <1>4, <3>1, <3>2, <3>4
  <2>3. QED
    BY <2>1, <2>2
<1>10. Branch(T, rows, P, rnk, k + 1)
  <2>1. k + 1 # 0
    OBVIOUS
  <2>2. Len(T) = Len(rnk[rows[k + 1]])
    BY <1>1, <1>8 DEF j
  <2>3. QED
    BY <1>8, <1>9, <2>1, <2>2 DEF Branch, j
<1>11. QED
  BY <1>5, <1>6, <1>10 DEF j, q, d, T, cut

-----------------------------------------------------------------------------
(* Reading: the loop *)

TreeType == [failed : {FALSE}, result : Seq(Id), replies : [Id -> Seq(Id)], stack : Seq(Id)]

ReadOK(tree, rows, P, rnk, place, low, m, k) ==
  /\ tree \in TreeType
  /\ Branch(tree.stack, rows, P, rnk, k)
  /\ Filled(tree.result, Tops(P), low, m, ReadTo(rows, k))
  /\ \A i \in P : Filled(tree.replies[i], Kids(P, i), place, Cardinality(Kids(P, i)), ReadTo(rows, k))
  /\ \A i \in Id \ P : tree.replies[i] = <<>>

LEMMA ReadStarts ==
  ASSUME NEW rows, NEW P, NEW rnk, NEW place, NEW low, NEW m, Setting(rows, P, rnk, place, low, m)
  PROVE  ReadOK(NoTree, rows, P, rnk, place, low, m, 0)
<1>1. <<>> \in Seq(Id) /\ <<>> \in Seq(P) /\ Len(<<>>) = 0
  BY EmptySeq
<1>2. NoTree \in TreeType
  BY <1>1 DEF NoTree, TreeType
<1>3. Branch(<<>>, rows, P, rnk, 0)
  BY <1>1 DEF Branch
<1>4. ReadTo(rows, 0) = {}
  BY DEF ReadTo
<1>5. ASSUME NEW G, NEW key, NEW c, Group(G, key, c) PROVE Filled(<<>>, G, key, c, {})
  <2>1. c \in Nat /\ \A j \in G : key[j] \in 1..c
    BY <1>5 DEF Group
  <2>2. 0 <= c /\ \A j \in G : ~(key[j] <= 0)
    BY <2>1
  <2>3. QED
    BY <1>1, <2>2 DEF Filled
<1>6. Filled(<<>>, Tops(P), low, m, {})
  BY <1>5 DEF Setting
<1>7. \A i \in P : Filled(<<>>, Kids(P, i), place, Cardinality(Kids(P, i)), {})
  BY <1>5 DEF Setting
<1>8. P \subseteq Id /\ NoTree.stack = <<>> /\ NoTree.result = <<>> /\ \A i \in Id : NoTree.replies[i] = <<>>
  BY DEF NoTree, Setting, Paged
<1>9. \A i \in P : Filled(NoTree.replies[i], Kids(P, i), place, Cardinality(Kids(P, i)), {})
  <2> SUFFICES ASSUME NEW i \in P
               PROVE  Filled(NoTree.replies[i], Kids(P, i), place, Cardinality(Kids(P, i)), {})
    OBVIOUS
  <2>1. NoTree.replies[i] = <<>>
    BY <1>8
  <2>2. QED
    BY <1>7, <2>1
<1>10. QED
  BY <1>2, <1>3, <1>4, <1>6, <1>8, <1>9 DEF ReadOK

(* Attach puts the next row where it belongs. *)
LEMMA ReadGoesOn ==
  ASSUME IInv, NEW rows, NEW P, NEW rnk, NEW place, NEW low, NEW m,
         Setting(rows, P, rnk, place, low, m), NEW k \in Nat, k + 1 \in 1..Len(rows),
         NEW tree, ReadOK(tree, rows, P, rnk, place, low, m, k)
  PROVE  ReadOK(Attach(tree, rows[k + 1]), rows, P, rnk, place, low, m, k + 1)
<1> DEFINE j == rows[k + 1]
           q == comments[j].parent
           d == comments[j].depth
           next == Attach(tree, j)
           old == ReadTo(rows, k)
           new == ReadTo(rows, k + 1)
<1>1. /\ Paged(P, rnk, place) /\ Distinct(P, rnk) /\ Rowed(rows, P, rnk)
      /\ Group(Tops(P), low, m)
      /\ \A x, y \in Tops(P) : low[x] < low[y] => place[x] < place[y]
      /\ \A i \in P : Group(Kids(P, i), place, Cardinality(Kids(P, i)))
  BY DEF Setting
<1>2. /\ tree \in TreeType /\ Branch(tree.stack, rows, P, rnk, k)
      /\ Filled(tree.result, Tops(P), low, m, old)
      /\ \A i \in P : Filled(tree.replies[i], Kids(P, i), place, Cardinality(Kids(P, i)), old)
      /\ \A i \in Id \ P : tree.replies[i] = <<>>
  BY DEF ReadOK
<1>3. j \in P /\ P \subseteq Id
  BY <1>1, ElementOfSeq DEF Rowed, Paged
<1>4. new = old \cup {j}
  <2>1. \A l : l \in 1..(k + 1) <=> l \in 1..k \/ l = k + 1
    OBVIOUS
  <2>2. QED
    BY <2>1 DEF ReadTo
<1>5. j \notin old
  <2> SUFFICES ASSUME NEW l \in 1..k, rows[l] = j PROVE FALSE
    BY DEF ReadTo
  <2>1. l \in 1..Len(rows) /\ l < k + 1
    OBVIOUS
  <2>2. Precedes(rnk[j], rnk[j])
    BY <1>1, <2>1 DEF Rowed
  <2>3. rnk[j] \in Seq(Nat)
    BY <1>1, <1>3 DEF Paged
  <2>4. QED
    BY <2>2, <2>3, ArraysOrdered
<1>6. \A i \in P : comments[i].parent = q /\ place[i] < place[j] => i \in old
  <2> SUFFICES ASSUME NEW i \in P, comments[i].parent = q, place[i] < place[j] PROVE i \in old
    OBVIOUS
  <2>1. i \in ReadTo(rows, k + 1 - 1)
    BY SiblingsInOrder
  <2>2. k + 1 - 1 = k
    OBVIOUS
  <2>3. QED
    BY <2>1, <2>2
<1>7. /\ tree.failed = FALSE /\ tree.result \in Seq(Id) /\ tree.replies \in [Id -> Seq(Id)]
      /\ tree.stack \in Seq(Id)
      /\ tree = [failed |-> FALSE, result |-> tree.result, replies |-> tree.replies,
                 stack |-> tree.stack]
  BY <1>2 DEF TreeType
<1> HIDE DEF j, old, new
<1>8. CASE q = 0
  <2>1. d = 0
    BY <1>1, <1>3, <1>8 DEF Paged
  <2>2. next = [failed |-> FALSE, result |-> Append(tree.result, j), replies |-> tree.replies,
                stack |-> <<j>>]
    BY <1>7, <2>1 DEF Attach
  <2> HIDE DEF next
  <2>3. next \in TreeType
    <3>1. Append(tree.result, j) \in Seq(Id) /\ <<j>> \in Seq(Id)
      BY <1>3, <1>7
    <3>2. QED
      BY <1>7, <2>2, <3>1 DEF TreeType
  <2>4. Branch(<<j>>, rows, P, rnk, k + 1)
    BY <1>1, <1>3, <1>8, BranchRoot DEF j
  <2>5. Filled(Append(tree.result, j), Tops(P), low, m, new)
    <3>1. j \in Tops(P)
      BY <1>3, <1>8 DEF Tops
    <3>2. \A i \in Tops(P) : low[i] < low[j] => i \in old
      BY <1>1, <1>6, <1>8, <3>1 DEF Tops
    <3>3. QED
      BY <1>1, <1>2, <1>4, <1>5, <3>1, <3>2, FilledGrows
  <2>6. ASSUME NEW i \in P
        PROVE  Filled(tree.replies[i], Kids(P, i), place, Cardinality(Kids(P, i)), new)
    <3>1. i # 0
      BY <1>3, StoreAssumption DEF Id
    <3>2. j \notin Kids(P, i)
      BY <1>8, <3>1 DEF Kids
    <3>3. QED
      BY <1>2, <1>4, <3>2, FilledStays
  <2>7. QED
    BY <1>2, <2>2, <2>3, <2>4, <2>5, <2>6 DEF ReadOK, next, j, new
<1>9. CASE q # 0
  <2>1. /\ d \in 1..Len(tree.stack) /\ tree.stack[d] = q
        /\ Branch(Append(CutBranch(tree.stack, d), j), rows, P, rnk, k + 1)
    BY <1>1, <1>2, <1>9, BranchMoves DEF j
  <2>2. q \in P
    BY <1>1, <1>3, <1>9 DEF Paged
  <2>3. d # 0 /\ ~(d > Len(tree.stack))
    <3>1. Len(tree.stack) \in Nat
      BY <1>7, LenProperties
    <3>2. QED
      BY <2>1, <3>1
  <2> DEFINE stack == Append(CutBranch(tree.stack, d), j)
             replies == [tree.replies EXCEPT ![q] = Append(tree.replies[q], j)]
  <2>4. next = [failed |-> FALSE, result |-> tree.result, replies |-> replies, stack |-> stack]
    BY <1>7, <2>1, <2>3 DEF Attach
  <2>5. stack \in Seq(Id)
    <3>1. stack \in Seq(P)
      BY <2>1 DEF Branch
    <3> HIDE DEF stack
    <3>2. QED
      BY <1>3, <3>1, SeqMonotonic
  <2>6. Append(tree.replies[q], j) \in Seq(Id)
    BY <1>3, <1>7, <2>2
  <2>7. replies \in [Id -> Seq(Id)]
    BY <1>3, <1>7, <2>2, <2>6
  <2>8. \A i \in Id : replies[i] = IF i = q THEN Append(tree.replies[q], j) ELSE tree.replies[i]
    BY <1>7
  <2> HIDE DEF next, replies, stack
  <2>9. next \in TreeType
    BY <1>7, <2>4, <2>5, <2>7 DEF TreeType
  <2>10. Filled(tree.result, Tops(P), low, m, new)
    <3>1. j \notin Tops(P)
      BY <1>9 DEF Tops
    <3>2. QED
      BY <1>2, <1>4, <3>1, FilledStays
  <2>11. Filled(Append(tree.replies[q], j), Kids(P, q), place, Cardinality(Kids(P, q)), new)
    <3>1. j \in Kids(P, q)
      BY <1>3 DEF Kids
    <3>2. \A i \in Kids(P, q) : place[i] < place[j] => i \in old
      BY <1>6 DEF Kids
    <3>3. QED
      BY <1>1, <1>2, <1>4, <1>5, <2>2, <3>1, <3>2, FilledGrows
  <2>12. ASSUME NEW i \in P
         PROVE  Filled(replies[i], Kids(P, i), place, Cardinality(Kids(P, i)), new)
    <3>1. CASE i = q
      <4>1. replies[i] = Append(tree.replies[q], j)
        BY <1>3, <2>8, <3>1
      <4>2. QED
        BY <2>11, <3>1, <4>1
    <3>2. CASE i # q
      <4>1. replies[i] = tree.replies[i]
        BY <1>3, <2>8, <3>2
      <4>2. j \notin Kids(P, i)
        BY <3>2 DEF Kids
      <4>3. QED
        BY <1>2, <1>4, <4>1, <4>2, FilledStays
    <3>3. QED
      BY <3>1, <3>2
  <2>13. \A i \in Id \ P : replies[i] = <<>>
    BY <1>2, <2>2, <2>8
  <2>14. QED
    BY <2>1, <2>4, <2>9, <2>10, <2>12, <2>13 DEF ReadOK, next, j, new, stack
<1>10. QED
  BY <1>8, <1>9

-----------------------------------------------------------------------------
(* Reading: the whole list *)

(* The recursion over the rows defines the tree up to each of them. *)
LEMMA TreeDefined ==
  ASSUME NEW rows, Len(rows) \in Nat
  PROVE  \E f : /\ f[0] = NoTree /\ PrepareCommentTree(rows) = f[Len(rows)]
                /\ \A n \in 1..Len(rows) : f[n] = Attach(f[n - 1], rows[n])
<1> DEFINE len == Len(rows)
           E(f, n) == IF n = 0 THEN NoTree ELSE Attach(f[n - 1], rows[n])
           Up(m) == \E f : f = [n \in 0..m |-> E(f, n)]
           Missing == {m \in 0..len : ~Up(m)}
<1>1. Up(0)
  <2> DEFINE f == [n \in 0..0 |-> NoTree]
  <2>1. f = [n \in 0..0 |-> E(f, n)]
    OBVIOUS
  <2>2. QED
    BY <2>1
<1>2. ASSUME NEW m \in Nat, Up(m) PROVE Up(m + 1)
  <2>1. PICK f : f = [n \in 0..m |-> E(f, n)]
    BY <1>2
  <2> DEFINE next == Attach(f[m], rows[m + 1])
             g == [n \in 0..(m + 1) |-> IF n = m + 1 THEN next ELSE f[n]]
  <2>2. ASSUME NEW n \in 0..(m + 1) PROVE g[n] = E(g, n)
    <3>1. CASE n = m + 1
      <4>1. n # 0 /\ n - 1 = m /\ m \in 0..(m + 1) /\ m # m + 1
        BY <3>1
      <4>2. g[n] = next /\ g[m] = f[m]
        BY <3>1, <4>1
      <4> HIDE DEF g
      <4>3. QED
        BY <3>1, <4>1, <4>2
    <3>2. CASE n # m + 1
      <4>1. n \in 0..m /\ f[n] = E(f, n)
        BY <2>1, <3>2
      <4>2. g[n] = f[n]
        BY <3>2
      <4>3. n # 0 => n - 1 \in 0..m /\ n - 1 \in 0..(m + 1) /\ n - 1 # m + 1
        BY <4>1
      <4>4. n # 0 => g[n - 1] = f[n - 1]
        BY <4>3
      <4> HIDE DEF g
      <4>5. QED
        BY <4>1, <4>2, <4>4
    <3>3. QED
      BY <3>1, <3>2
  <2>3. g = [n \in 0..(m + 1) |-> E(g, n)]
    <3>1. g = [n \in 0..(m + 1) |-> g[n]]
      OBVIOUS
    <3> HIDE DEF g
    <3>2. QED
      BY <2>2, <3>1
  <2>4. QED
    BY <2>3
<1> HIDE DEF Up
<1>3. Missing = {}
  <2> SUFFICES ASSUME Missing # {} PROVE FALSE
    OBVIOUS
  <2>1. Missing \in SUBSET Nat
    OBVIOUS
  <2>2. PICK m \in Missing : \A y \in Missing : m <= y
    <3> HIDE DEF Missing
    <3>1. QED
      BY <2>1, LeastExists
  <2>3. m \in Nat /\ m # 0 /\ m <= len
    BY <1>1, <2>2
  <2>4. m - 1 \in 0..len /\ m - 1 \notin Missing
    BY <2>2, <2>3
  <2>5. Up((m - 1) + 1)
    BY <1>2, <2>3, <2>4
  <2>6. QED
    BY <2>2, <2>3, <2>5
<1>4. Up(len)
  BY <1>3
<1> DEFINE f == CHOOSE f : f = [n \in 0..len |-> E(f, n)]
<1>5. f = [n \in 0..len |-> E(f, n)]
  BY <1>4 DEF Up
<1>6. PrepareCommentTree(rows) = f[len]
  BY DEF PrepareCommentTree
<1> HIDE DEF f
<1>7. f[0] = NoTree /\ \A n \in 1..len : f[n] = Attach(f[n - 1], rows[n])
  BY <1>5
<1>8. QED
  BY <1>6, <1>7

(* So the tree is right when the rows end. *)
LEMMA ReadEnds ==
  ASSUME IInv, NEW rows, NEW P, NEW rnk, NEW place, NEW low, NEW m,
         Setting(rows, P, rnk, place, low, m)
  PROVE  ReadOK(PrepareCommentTree(rows), rows, P, rnk, place, low, m, Len(rows))
<1>1. Len(rows) \in Nat
  BY LenProperties DEF Setting, Rowed
<1>2. PICK f : /\ f[0] = NoTree /\ PrepareCommentTree(rows) = f[Len(rows)]
               /\ \A n \in 1..Len(rows) : f[n] = Attach(f[n - 1], rows[n])
  BY <1>1, TreeDefined
<1> DEFINE Fine(n) == ReadOK(f[n], rows, P, rnk, place, low, m, n)
           Wrong == {n \in 0..Len(rows) : ~Fine(n)}
<1>3. Fine(0)
  BY <1>2, ReadStarts
<1>4. ASSUME NEW n \in Nat, n + 1 \in 1..Len(rows), Fine(n) PROVE Fine(n + 1)
  <2>1. f[n + 1] = Attach(f[n], rows[n + 1])
    <3>1. n + 1 - 1 = n
      OBVIOUS
    <3>2. QED
      BY <1>2, <1>4, <3>1
  <2>2. QED
    BY <1>4, <2>1, ReadGoesOn
<1> HIDE DEF Fine
<1>5. Wrong = {}
  <2> SUFFICES ASSUME Wrong # {} PROVE FALSE
    OBVIOUS
  <2>1. Wrong \in SUBSET Nat
    OBVIOUS
  <2>2. PICK n \in Wrong : \A y \in Wrong : n <= y
    <3> HIDE DEF Wrong
    <3>1. QED
      BY <2>1, LeastExists
  <2>3. n \in Nat /\ n # 0 /\ n <= Len(rows)
    BY <1>1, <1>3, <2>2
  <2>4. n - 1 \in 0..Len(rows) /\ n - 1 \notin Wrong /\ n - 1 \in Nat /\ (n - 1) + 1 = n
        /\ n \in 1..Len(rows)
    BY <1>1, <2>2, <2>3
  <2>5. Fine((n - 1) + 1)
    BY <1>4, <2>4
  <2>6. QED
    BY <2>2, <2>4, <2>5
<1>6. Fine(Len(rows))
  BY <1>1, <1>5
<1>7. QED
  BY <1>2, <1>6 DEF Fine

-----------------------------------------------------------------------------
(* Reading: the rows of a page *)

LEMMA PageRowed ==
  ASSUME NEW P \in SUBSET Id, NEW rnk, \A i \in P : rnk[i] \in Seq(Nat), Distinct(P, rnk),
         NEW rows,
         rows = [n \in 1..Cardinality(P) |->
                   CHOOSE i \in P : Cardinality({j \in P : Precedes(rnk[j], rnk[i])}) = n - 1]
  PROVE  Rowed(rows, P, rnk)
<1> DEFINE B == {p \in P \X P : Precedes(rnk[p[1]], rnk[p[2]])}
<1>1. \A i, j \in P : <<i, j>> \in B <=> Precedes(rnk[i], rnk[j])
  OBVIOUS
<1> HIDE DEF B
<1>2. Orders(B, P)
  <2>1. \A x \in P : <<x, x>> \notin B
    BY <1>1, ArraysOrdered
  <2>2. ASSUME NEW x \in P, NEW y \in P, NEW z \in P, <<x, y>> \in B, <<y, z>> \in B
        PROVE  <<x, z>> \in B
    BY <1>1, <2>2, ArraysOrdered
  <2>3. ASSUME NEW x \in P, NEW y \in P, x # y PROVE <<x, y>> \in B \/ <<y, x>> \in B
    <3>1. rnk[x] # rnk[y]
      BY <2>3 DEF Distinct
    <3>2. Precedes(rnk[x], rnk[y]) \/ Precedes(rnk[y], rnk[x])
      BY <3>1, ArraysOrdered
    <3>3. QED
      BY <1>1, <3>2
  <2>4. QED
    BY <2>1, <2>2, <2>3 DEF Orders
<1>3. IsFiniteSet(P)
  <2>1. 1 \in Int /\ MaxId \in Int
    BY StoreAssumption
  <2>2. IsFiniteSet(Id)
    BY <2>1, FS_Interval DEF Id
  <2>3. QED
    BY <2>2, FS_Subset
<1>4. Lists(rows, P, B)
  <2> DEFINE c == Cardinality(P)
             first(n)  == CHOOSE i \in P : Cardinality({j \in P : Precedes(rnk[j], rnk[i])}) = n - 1
             second(n) == CHOOSE i \in P : Cardinality(Below(B, P, i)) = n - 1
  <2>1. rows = [n \in 1..c |-> first(n)]
    OBVIOUS
  <2>2. ASSUME NEW n \in 1..c PROVE first(n) = second(n)
    <3>1. \A i \in P : {j \in P : Precedes(rnk[j], rnk[i])} = Below(B, P, i)
      BY <1>1 DEF Below
    <3>2. \A i : (i \in P /\ Cardinality({j \in P : Precedes(rnk[j], rnk[i])}) = n - 1)
                   <=> (i \in P /\ Cardinality(Below(B, P, i)) = n - 1)
      BY <3>1
    <3>3. QED
      BY <3>2
  <2>3. rows = [n \in 1..c |-> second(n)]
    <3> HIDE DEF first, second, c
    <3>1. QED
      BY <2>1, <2>2
  <2>4. QED
    BY <1>2, <1>3, <2>3, Listed
<1>5. /\ \A x \in P : \E n \in 1..Len(rows) : rows[n] = x
      /\ \A n \in 1..Len(rows) : rows[n] \in P
      /\ \A n, m \in 1..Len(rows) : <<rows[n], rows[m]>> \in B => n < m
      /\ \A n, m \in 1..Len(rows) : n < m => <<rows[n], rows[m]>> \in B
  BY ONLY <1>2, <1>3, <1>4, ListAscends
<1>6. rows \in Seq(P)
  BY <1>4 DEF Lists
<1>7. QED
  BY <1>1, <1>5, <1>6 DEF Rowed

Roots(post) == {i \in Id : Exists(i) /\ comments[i].post = post /\ comments[i].parent = 0}
Replies(i)  == {j \in Id : Exists(j) /\ comments[j].parent = i}

(* The roots of a post are siblings, and so are the replies to a comment. *)
LEMMA FamilyIsSiblings ==
  ASSUME IInv
  PROVE  /\ \A post : \A j \in Roots(post) : Exists(j) /\ Siblings(j) = Roots(post)
         /\ \A i \in Id : \A j \in Replies(i) : Exists(j) /\ Siblings(j) = Replies(i)
<1>1. ASSUME NEW post, NEW j \in Roots(post) PROVE Exists(j) /\ Siblings(j) = Roots(post)
  BY DEF Roots, Siblings
<1>2. ASSUME NEW i \in Id, NEW j \in Replies(i) PROVE Exists(j) /\ Siblings(j) = Replies(i)
  <2>1. i # 0
    BY StoreAssumption DEF Id
  <2>2. \A k \in Replies(i) : comments[k].post = comments[i].post
    BY <2>1, RowFacts DEF Replies
  <2>3. QED
    BY <2>2 DEF Replies, Siblings
<1>3. QED
  BY <1>1, <1>2

-----------------------------------------------------------------------------
(* Reading: what is on the page *)

(* low numbers the roots of a page; hi is the place of the last of them, and m is how many. *)
Lows(place, offset) == [j \in Id |-> place[j] - offset]
LastPlace(R, limit, offset) == IF offset + limit < R THEN offset + limit ELSE R
Size(R, limit, offset) ==
  IF offset < LastPlace(R, limit, offset) THEN LastPlace(R, limit, offset) - offset ELSE 0

(* What QueryComments hands over is what PrepareCommentTree needs. *)
LEMMA PageSetting ==
  ASSUME IInv, NEW post, NEW ranking \in Rankings, NEW limit \in Nat, NEW offset \in Nat
  PROVE  LET P     == OnPage(post, ranking, limit, offset)
             place == Places(ranking)
             R     == Cardinality(Roots(post))
         IN /\ Setting(QueryComments(post, ranking, limit, offset), P,
                       Rnk(post, ranking, limit, offset), place, Lows(place, offset),
                       Size(R, limit, offset))
            /\ Tops(P) \subseteq Roots(post) /\ P \subseteq Id
            /\ \A i \in P : Kids(P, i) = Replies(i)
<1> DEFINE rnk   == Rnk(post, ranking, limit, offset)
           P     == OnPage(post, ranking, limit, offset)
           place == Places(ranking)
           roots == Roots(post)
           R     == Cardinality(roots)
           hi    == LastPlace(R, limit, offset)
           m     == Size(R, limit, offset)
           low   == Lows(place, offset)
           rows  == QueryComments(post, ranking, limit, offset)
<1>1. /\ Paged(P, rnk, place)
      /\ \A i \in P : Exists(i) /\ comments[i].post = post
      /\ \A i \in Id : Exists(i) /\ comments[i].post = post /\ comments[i].parent # 0 =>
           (i \in P <=> comments[i].parent \in P)
      /\ \A i \in Id : Exists(i) /\ comments[i].post = post /\ comments[i].parent = 0 =>
           (i \in P <=> RowNumber(ranking, i) \in offset + 1..offset + limit)
  BY PageIsTree
<1>2. rows = [n \in 1..Cardinality(P) |->
                CHOOSE i \in P : Cardinality({j \in P : Precedes(rnk[j], rnk[i])}) = n - 1]
  BY DEF QueryComments, InOrder, OnPage
<1>3. \A i \in Id : place[i] \in Nat /\ place[i] = RowNumber(ranking, i)
  BY RowNumberType DEF Places
<1> HIDE DEF rnk, P, place, rows
<1>4. P \subseteq Id /\ \A i \in P : rnk[i] \in Seq(Nat)
  BY <1>1 DEF Paged
<1>5. Distinct(P, rnk)
  BY <1>1, PageDistinct DEF place
<1>6. Rowed(rows, P, rnk)
  BY ONLY <1>2, <1>4, <1>5, PageRowed
<1>7. roots \in SUBSET Id /\ \A j \in roots : Exists(j) /\ Siblings(j) = roots
  BY FamilyIsSiblings DEF Roots
<1>8. Group(roots, place, R)
  <2> HIDE DEF roots
  <2>1. Group(roots, Places(ranking), Cardinality(roots))
    BY <1>7, SiblingsGroup
  <2>2. QED
    BY <2>1 DEF place
<1>9. /\ R \in Nat
      /\ \A j \in roots : place[j] \in 1..R
      /\ \A i, j \in roots : place[i] = place[j] => i = j
      /\ \A q \in 1..R : \E j \in roots : place[j] = q
  BY <1>8 DEF Group
<1>10. Tops(P) = {j \in roots : place[j] \in offset + 1..offset + limit}
  BY <1>1, <1>3, <1>4 DEF Tops, Roots
<1> HIDE DEF roots, R
<1>11. /\ hi \in Nat /\ m \in Nat /\ hi <= R /\ hi <= offset + limit
       /\ \A q \in 1..R : q \in offset + 1..offset + limit => q - offset \in 1..m
       /\ \A q \in 1..m : /\ q + offset \in 1..R /\ q + offset \in offset + 1..offset + limit
                          /\ q + offset - offset = q
  BY <1>9 DEF LastPlace, Size
<1>12. \A j \in Id : low[j] = place[j] - offset
  BY DEF Lows
<1> HIDE DEF hi, m, low
<1>13. Group(Tops(P), low, m)
  <2>1. Tops(P) \subseteq Id
    BY <1>7, <1>10
  <2>2. \A j \in Tops(P) : low[j] \in 1..m
    BY <1>7, <1>9, <1>10, <1>11, <1>12
  <2>3. ASSUME NEW i \in Tops(P), NEW j \in Tops(P), low[i] = low[j] PROVE i = j
    <3>1. place[i] \in Nat /\ place[j] \in Nat /\ place[i] - offset = place[j] - offset
      BY <1>3, <1>12, <2>1, <2>3
    <3>2. place[i] = place[j]
      BY ONLY <3>1, offset \in Nat
    <3>3. QED
      BY <1>9, <1>10, <3>2
  <2>4. ASSUME NEW q \in 1..m PROVE \E j \in Tops(P) : low[j] = q
    <3>1. PICK j \in roots : place[j] = q + offset
      BY <1>9, <1>11
    <3>2. j \in Tops(P)
      BY <1>10, <1>11, <3>1
    <3>3. low[j] = q
      BY <1>11, <1>12, <2>1, <3>1, <3>2
    <3>4. QED
      BY <3>2, <3>3
  <2>5. QED
    BY <1>11, <2>1, <2>2, <2>3, <2>4 DEF Group
<1>14. ASSUME NEW i \in Tops(P), NEW j \in Tops(P), low[i] < low[j] PROVE place[i] < place[j]
  <2>1. i \in Id /\ j \in Id
    BY <1>7, <1>10
  <2>2. place[i] \in Nat /\ place[j] \in Nat /\ place[i] - offset < place[j] - offset
    BY <1>3, <1>12, <1>14, <2>1
  <2>3. QED
    BY ONLY <2>2, offset \in Nat
<1>15. ASSUME NEW i \in P PROVE Kids(P, i) = Replies(i)
  <2>1. i \in Id /\ i # 0
    BY <1>4, StoreAssumption DEF Id
  <2>2. \A j \in Replies(i) : j \in P
    <3> SUFFICES ASSUME NEW j \in Replies(i) PROVE j \in P
      OBVIOUS
    <3>1. j \in Id /\ Exists(j) /\ comments[j].parent = i
      BY DEF Replies
    <3>2. comments[j].post = post
      BY <1>1, <2>1, <3>1, RowFacts
    <3>3. QED
      BY <1>1, <2>1, <3>1, <3>2
  <2>3. QED
    BY <1>1, <1>4, <2>2 DEF Kids, Replies
<1>16. ASSUME NEW i \in P PROVE Group(Kids(P, i), place, Cardinality(Kids(P, i)))
  <2> DEFINE S == Replies(i)
  <2>1. S \in SUBSET Id /\ \A j \in S : Exists(j) /\ Siblings(j) = S
    BY <1>4, FamilyIsSiblings DEF Replies
  <2> HIDE DEF S
  <2>2. Group(S, Places(ranking), Cardinality(S))
    BY <2>1, SiblingsGroup
  <2>3. QED
    BY <1>15, <2>2 DEF S, place
<1>17. Setting(rows, P, rnk, place, low, m)
  BY <1>1, <1>5, <1>6, <1>13, <1>14, <1>16 DEF Setting
<1>18. QED
  BY <1>4, <1>10, <1>15, <1>17 DEF rnk, P, place, roots, R, m, low, rows

-----------------------------------------------------------------------------
(* Reading: the tree that is stored *)

ReadsTree(post, ranking, limit, offset) ==
  LET rows  == QueryComments(post, ranking, limit, offset)
      tree  == PrepareCommentTree(rows)
      roots == Roots(post)
  IN /\ ~tree.failed
     /\ tree.result = SubSeq(Ordered(roots, ranking), offset + 1,
                             IF offset + limit < Cardinality(roots)
                             THEN offset + limit ELSE Cardinality(roots))
     /\ \A i \in Id : tree.replies[i] =
          IF i \in Range(rows) THEN Ordered(Replies(i), ranking) ELSE <<>>
     /\ Range(rows) = Range(tree.result) \cup UNION {Replies(i) : i \in Range(rows)}

(* A page of any size at any offset is read as the tree that is stored. *)
LEMMA PageReads ==
  ASSUME IInv, NEW post, NEW ranking \in Rankings, NEW limit \in Nat, NEW offset \in Nat
  PROVE  ReadsTree(post, ranking, limit, offset)
<1> DEFINE rnk   == Rnk(post, ranking, limit, offset)
           P     == OnPage(post, ranking, limit, offset)
           place == Places(ranking)
           roots == Roots(post)
           R     == Cardinality(roots)
           hi    == IF offset + limit < R THEN offset + limit ELSE R
           m     == Size(R, limit, offset)
           low   == Lows(place, offset)
           rows  == QueryComments(post, ranking, limit, offset)
           tree  == PrepareCommentTree(rows)
           all   == Ordered(roots, ranking)
           page  == SubSeq(all, offset + 1, hi)
<1>1. /\ Setting(rows, P, rnk, place, low, m)
      /\ Tops(P) \subseteq roots /\ P \subseteq Id
      /\ \A i \in P : Kids(P, i) = Replies(i)
  BY PageSetting
<1>2. ReadOK(tree, rows, P, rnk, place, low, m, Len(rows))
  <2> HIDE DEF rows, P, rnk, place, low, m
  <2>1. QED
    BY <1>1, ReadEnds
<1>3. /\ all \in Seq(Id) /\ Len(all) = R /\ \A j \in roots : all[place[j]] = j
      /\ Group(roots, place, R)
  <2>1. roots \in SUBSET Id /\ \A j \in roots : Exists(j) /\ Siblings(j) = roots
    BY FamilyIsSiblings DEF Roots
  <2> HIDE DEF roots
  <2>2. QED
    BY <2>1, SiblingsGroup
<1>4. \A j \in Id : low[j] = place[j] - offset /\ place[j] \in Nat
  BY RowNumberType DEF Lows, Places
<1>5. R \in Nat
  BY <1>3 DEF Group
<1>6. m = IF offset < hi THEN hi - offset ELSE 0
  BY DEF Size, LastPlace
<1> HIDE DEF rnk, P, place, roots, R, m, low, rows, tree, all
<1>7. /\ Group(Tops(P), low, m) /\ Rowed(rows, P, rnk)
      /\ \A i \in P : Group(Kids(P, i), place, Cardinality(Kids(P, i)))
  BY <1>1 DEF Setting
<1>8. /\ tree \in TreeType
      /\ Filled(tree.result, Tops(P), low, m, ReadTo(rows, Len(rows)))
      /\ \A i \in P : Filled(tree.replies[i], Kids(P, i), place, Cardinality(Kids(P, i)),
                             ReadTo(rows, Len(rows)))
      /\ \A i \in Id \ P : tree.replies[i] = <<>>
  BY <1>2 DEF ReadOK
<1>9. ReadTo(rows, Len(rows)) = P /\ Range(rows) = P
  <2>1. /\ \A n \in 1..Len(rows) : rows[n] \in P
        /\ \A x \in P : \E n \in 1..Len(rows) : rows[n] = x
        /\ DOMAIN rows = 1..Len(rows)
    BY <1>7, ElementOfSeq, LenProperties DEF Rowed
  <2>2. QED
    BY <2>1 DEF ReadTo, Range
<1>10. Tops(P) \subseteq P /\ \A i \in P : Kids(P, i) \subseteq P
  BY DEF Tops, Kids
<1>11. tree.result \in Seq(Id) /\ Len(tree.result) = m /\ \A j \in Tops(P) : tree.result[low[j]] = j
  BY <1>7, <1>8, <1>9, <1>10, FilledAll
<1>12. page \in Seq(Id) /\ Len(page) = m /\ \A j \in Tops(P) : page[low[j]] = j
  <2>1. /\ offset + 1 \in Int /\ hi \in Int
        /\ \A i \in offset + 1..hi : i \in 1..Len(all)
        /\ (IF offset + 1 <= hi THEN hi - (offset + 1) + 1 ELSE 0) = m
        /\ hi - (offset + 1) + 1 = hi - offset
    BY <1>3, <1>5, <1>6
  <2>2. \A i \in offset + 1..hi : all[i] \in Id
    BY <1>3, <2>1, ElementOfSeq
  <2> HIDE DEF hi
  <2>3. /\ page \in Seq(Id) /\ Len(page) = m
        /\ \A i \in 1..(hi - (offset + 1) + 1) : page[i] = all[offset + 1 + i - 1]
    BY <2>1, <2>2, SubSeqProperties
  <2> HIDE DEF page
  <2>4. ASSUME NEW j \in Tops(P) PROVE page[low[j]] = j
    <3>1. low[j] \in 1..m /\ j \in roots /\ j \in Id
      BY <1>1, <1>7, <1>10 DEF Group
    <3>2. low[j] = place[j] - offset /\ place[j] \in Nat
      BY <1>4, <3>1
    <3>3. low[j] \in 1..(hi - (offset + 1) + 1) /\ offset + 1 + low[j] - 1 = place[j]
      BY <1>6, <2>1, <3>1, <3>2
    <3>4. QED
      BY <1>3, <2>3, <3>1, <3>3
  <2>5. QED
    BY <2>3, <2>4
<1> HIDE DEF page, hi
<1>13. tree.result = page
  BY <1>7, <1>11, <1>12, FilledSame
<1>14. ASSUME NEW i \in P PROVE tree.replies[i] = Ordered(Replies(i), ranking)
  <2> DEFINE S == Replies(i)
             s == Ordered(S, ranking)
             t == tree.replies[i]
  <2>1. S \in SUBSET Id /\ \A j \in S : Exists(j) /\ Siblings(j) = S
    BY <1>1, FamilyIsSiblings DEF Replies
  <2>2. Kids(P, i) = S /\ S \subseteq P
    BY <1>1, <1>10
  <2> HIDE DEF S
  <2>3. s \in Seq(Id) /\ Len(s) = Cardinality(S) /\ \A j \in S : s[place[j]] = j
    BY <2>1, SiblingsGroup DEF place
  <2>4. Group(S, place, Cardinality(S)) /\ Filled(t, S, place, Cardinality(S), P)
    BY <1>7, <1>8, <1>9, <2>2
  <2> HIDE DEF s, t
  <2>5. t \in Seq(Id) /\ Len(t) = Cardinality(S) /\ \A j \in S : t[place[j]] = j
    BY <2>2, <2>4, FilledAll
  <2>6. t = s
    BY <2>3, <2>4, <2>5, FilledSame
  <2>7. QED
    BY <2>6 DEF s, t, S
<1>15. Range(tree.result) = Tops(P)
  <2>1. DOMAIN tree.result = 1..m
    BY <1>11, LenProperties
  <2>2. \A j \in Tops(P) : low[j] \in 1..m
    BY <1>7 DEF Group
  <2>3. \A q \in 1..m : \E j \in Tops(P) : low[j] = q
    BY <1>7 DEF Group
  <2>4. \A q \in 1..m : tree.result[q] \in Tops(P)
    BY <1>11, <2>3
  <2>5. QED
    BY <1>11, <2>1, <2>2, <2>4 DEF Range
<1>16. P = Tops(P) \cup UNION {Replies(i) : i \in P}
  <2>1. ASSUME NEW j \in P PROVE j \in Tops(P) \/ \E i \in P : j \in Replies(i)
    <3>1. CASE comments[j].parent = 0
      BY <3>1 DEF Tops
    <3>2. CASE comments[j].parent # 0
      <4>1. comments[j].parent \in P
        BY <1>1, <3>2 DEF Setting, Paged
      <4>2. j \in Kids(P, comments[j].parent)
        BY DEF Kids
      <4>3. QED
        BY <1>1, <4>1, <4>2
    <3>3. QED
      BY <3>1, <3>2
  <2>2. \A i \in P : Replies(i) \subseteq P
    BY <1>1, <1>10
  <2>3. QED
    BY <1>10, <2>1, <2>2
<1>17. ~tree.failed
  BY <1>8 DEF TreeType
<1>18. \A i \in Id : tree.replies[i] =
          IF i \in Range(rows) THEN Ordered(Replies(i), ranking) ELSE <<>>
  BY <1>8, <1>9, <1>14
<1>19. Range(rows) = Range(tree.result) \cup UNION {Replies(i) : i \in Range(rows)}
  BY <1>9, <1>15, <1>16
<1>20. QED
  BY <1>13, <1>17, <1>18, <1>19 DEF ReadsTree, page, hi, R, roots, rows, tree, all

(* comments_utils.go:21 and get_comments.go:102: in every state the store can  *)
(* reach, a page of comments is read as the tree that is stored.               *)
THEOREM ReadsAsStored == Spec => []ReadAsStored
<1>1. IInv => ReadAsStored
  <2> SUFFICES ASSUME IInv, NEW p \in Post, NEW ranking \in Rankings, NEW limit \in 1..MaxPage,
                      NEW offset \in 0..MaxPage - 1
               PROVE  ReadsTree(p, ranking, limit, offset)
    BY DEF ReadAsStored, ReadsTree, Roots, Replies
  <2>1. limit \in Nat /\ offset \in Nat
    BY DEF MaxPage
  <2>2. QED
    BY <2>1, PageReads
<1>2. QED
  BY <1>1, StoreSafe, PTL
=============================================================================
