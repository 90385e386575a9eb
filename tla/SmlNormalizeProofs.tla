-------------------------- MODULE SmlNormalizeProofs -------------------------
(***************************************************************************)
(* Proofs about SmlNormalize, for any trees: what is rendered is clean, and *)
(* of the attributes of a link the first that are valid are kept.          *)
(***************************************************************************)
EXTENDS SmlNormalizeInv, TLAPS, SequenceTheorems

-----------------------------------------------------------------------------
(* Sequences and nodes *)

(* append in place: the front stays, what is new follows, the rest stays    *)
(* where it was.                                                           *)
LEMMA PushedFacts ==
  ASSUME NEW S, NEW array \in Seq(S), NEW len \in 0..Len(array), NEW new \in Seq(S)
  PROVE  LET s == Pushed(array, len, new)
         IN /\ s \in Seq(S) /\ Len(array) <= Len(s) /\ len + Len(new) <= Len(s)
            /\ \A k \in 1..len : s[k] = array[k]
            /\ \A k \in 1..Len(new) : s[len + k] = new[k]
            /\ \A k \in (len + Len(new) + 1)..Len(array) : s[k] = array[k]
<1> DEFINE n     == Len(array)
           c     == Len(new)
           from  == len + c + 1
           front == SubSeq(array, 1, len)
           rest  == SubSeq(array, from, n)
           start == front \o new
           s     == Pushed(array, len, new)
<1>1. n \in Nat /\ c \in Nat /\ len \in Nat /\ len <= n /\ from \in Nat /\ 1 \in Int /\ n \in Int
  BY LenProperties
<1>2. \A k \in 1..n : array[k] \in S
  BY ElementOfSeq
<1>3. front \in Seq(S) /\ Len(front) = len /\ \A k \in 1..len : front[k] = array[k]
  <2>1. \A k \in 1..len : array[k] \in S
    BY <1>1, <1>2
  <2>2. /\ front \in Seq(S) /\ Len(front) = IF 1 <= len THEN len - 1 + 1 ELSE 0
        /\ \A k \in 1..(len - 1 + 1) : front[k] = array[1 + k - 1]
    BY ONLY <1>1, <2>1, SubSeqProperties
  <2> HIDE DEF front
  <2>3. QED
    BY ONLY <1>1, <2>2
<1>4. /\ rest \in Seq(S) /\ Len(rest) = IF from <= n THEN n - from + 1 ELSE 0
      /\ \A k \in 1..(n - from + 1) : rest[k] = array[from + k - 1]
  <2>1. \A k \in from..n : array[k] \in S
    BY <1>1, <1>2
  <2>2. from \in Int
    BY <1>1
  <2> HIDE DEF from, n
  <2>3. QED
    BY ONLY <1>1, <2>1, <2>2, SubSeqProperties
<1> HIDE DEF front, rest
<1>5. /\ start \in Seq(S) /\ Len(start) = len + c
      /\ \A k \in 1..(len + c) : start[k] = IF k <= len THEN front[k] ELSE new[k - len]
  BY <1>3, ConcatProperties
<1> HIDE DEF start
<1>6. s = start \o rest
  BY DEF Pushed, start, front, rest
<1>7. /\ s \in Seq(S) /\ Len(s) = len + c + Len(rest)
      /\ \A k \in 1..(len + c + Len(rest)) :
           s[k] = IF k <= len + c THEN start[k] ELSE rest[k - (len + c)]
  <2>1. start \in Seq(S) /\ rest \in Seq(S)
    BY <1>4, <1>5
  <2>2. /\ start \o rest \in Seq(S) /\ Len(start \o rest) = Len(start) + Len(rest)
        /\ \A k \in 1..(Len(start) + Len(rest)) :
             (start \o rest)[k] = IF k <= Len(start) THEN start[k] ELSE rest[k - Len(start)]
    BY ONLY <2>1, ConcatProperties
  <2> HIDE DEF s, c
  <2>3. s \in Seq(S) /\ Len(s) = len + c + Len(rest)
    BY ONLY <1>5, <1>6, <2>2
  <2>4. ASSUME NEW k \in 1..(len + c + Len(rest))
        PROVE  s[k] = IF k <= len + c THEN start[k] ELSE rest[k - (len + c)]
    <3>1. Len(start) = len + c
      BY ONLY <1>5
    <3>2. (start \o rest)[k] = IF k <= len + c THEN start[k] ELSE rest[k - (len + c)]
      BY ONLY <2>2, <3>1, k \in 1..(len + c + Len(rest))
    <3>3. QED
      BY ONLY <1>6, <3>2
  <2>5. QED
    BY ONLY <2>3, <2>4
<1>8. from = len + c + 1
  OBVIOUS
<1> HIDE DEF s, n, c, from
<1>9. Len(rest) \in Nat /\ n <= Len(s) /\ len + c <= Len(s)
  <2>1. CASE from <= n
    BY ONLY <1>8, <1>1, <1>4, <1>7, <2>1
  <2>2. CASE ~(from <= n)
    BY ONLY <1>8, <1>1, <1>4, <1>7, <2>2
  <2>3. QED
    BY <2>1, <2>2
<1>10. ASSUME NEW k \in 1..len PROVE s[k] = array[k]
  <2>1. k <= len + c /\ k \in 1..(len + c) /\ k \in 1..(len + c + Len(rest))
    BY <1>1, <1>9
  <2>2. QED
    BY <1>3, <1>5, <1>7, <2>1
<1>11. ASSUME NEW k \in 1..c PROVE s[len + k] = new[k]
  <2>1. /\ len + k <= len + c /\ len + k \in 1..(len + c) /\ len + k \in 1..(len + c + Len(rest))
        /\ ~(len + k <= len) /\ (len + k) - len = k
    BY <1>1, <1>9
  <2>2. s[len + k] = start[len + k] /\ start[len + k] = new[(len + k) - len]
    BY <1>5, <1>7, <2>1
  <2>3. QED
    BY <2>1, <2>2
<1>12. ASSUME NEW k \in from..n PROVE s[k] = array[k]
  <2> DEFINE j == k - (len + c)
  <2>1. /\ k \in 1..(len + c + Len(rest)) /\ ~(k <= len + c)
        /\ j \in 1..(n - from + 1) /\ from + j - 1 = k
    <3>1. Len(rest) = n - from + 1 /\ from <= n
      BY <1>8, <1>1, <1>4
    <3>2. QED
      BY ONLY <1>8, <1>1, <3>1, k \in from..n
  <2>2. s[k] = rest[j]
    BY <1>7, <2>1
  <2> HIDE DEF j
  <2>3. QED
    BY ONLY <1>4, <2>1, <2>2
<1>13. QED
  BY <1>8, <1>7, <1>9, <1>10, <1>11, <1>12 DEF s, n, c

LEMMA AttributesSet ==
  ASSUME NEW ts \in Seq(WorkNode), NEW n \in 1..Len(ts), NEW x \in Seq(WorkAttribute)
  PROVE  LET ms == [ts EXCEPT ![n].attributes = x]
         IN /\ ms \in Seq(WorkNode) /\ Len(ms) = Len(ts)
            /\ ms[n].attributes = x /\ ms[n].kind = ts[n].kind
            /\ \A m \in 1..Len(ts) : m # n => ms[m] = ts[m]
<1> DEFINE old == ts[n]
           new == [old EXCEPT !.attributes = x]
           ms  == [ts EXCEPT ![n] = new]
<1>1. old \in WorkNode
  BY ElementOfSeq
<1>2. [ts EXCEPT ![n].attributes = x] = ms
  OBVIOUS
<1> HIDE DEF old
<1>3. new \in WorkNode /\ new.attributes = x /\ new.kind = old.kind
  BY <1>1 DEF WorkNode
<1> HIDE DEF new
<1>4. /\ ms \in Seq(WorkNode) /\ Len(ms) = Len(ts)
      /\ \A m \in 1..Len(ts) : ms[m] = IF m = n THEN new ELSE ts[m]
  BY <1>3, ExceptSeq
<1> HIDE DEF ms
<1>5. QED
  BY <1>2, <1>3, <1>4 DEF old

-----------------------------------------------------------------------------
(* What is given *)

LEMMA RelFacts ==
  /\ Rel.name = "rel" /\ Rel.name \notin LinkAttribute /\ Rel.value # "_blank"
  /\ "target" \in LinkAttribute
  /\ \A a : a.name \in LinkAttribute /\ Valid(a) /\ a.value = "_blank" => a.name = "target"
  BY DEF Rel, LinkAttribute, Valid, Allowed

LEMMA GivenFacts ==
  ASSUME given \in Tree, NEW n \in 1..Len(given)
  PROVE  /\ Source(n) \in Seq(Attribute) /\ Len(Source(n)) \in Nat
         /\ DOMAIN Source(n) = 1..Len(Source(n)) /\ given[n] \in Node
         /\ \A k \in 1..Len(Source(n)) :
              Source(n)[k] \in Attribute /\ Source(n)[k].pos = k /\ Source(n)[k] # Rel
<1>1. given \in Seq(Node) /\ DOMAIN given = 1..Len(given)
  BY SmlAssumption, LenProperties
<1>2. given[n] \in Node
  BY <1>1, ElementOfSeq
<1>3. Source(n) \in Seq(Attribute)
  BY <1>2 DEF Node, Source
<1>4. Len(Source(n)) \in Nat /\ DOMAIN Source(n) = 1..Len(Source(n))
  BY <1>3, LenProperties
<1>5. \A k \in 1..Len(Source(n)) : Source(n)[k].pos = k
  BY <1>1, <1>4, SmlAssumption DEF Source
<1>6. \A k \in 1..Len(Source(n)) : Source(n)[k] \in Attribute
  BY <1>3, ElementOfSeq
<1>7. \A a \in Attribute : a # Rel
  <2>1. \A a \in Attribute : a.value \in AnyValue
    BY SmlAssumption DEF Attribute
  <2>2. Rel.value \notin AnyValue
    BY DEF Rel, AnyValue
  <2>3. QED
    BY <2>1, <2>2
<1>8. QED
  BY <1>2, <1>3, <1>4, <1>5, <1>6, <1>7

LEMMA OverwrittenIs ==
  ASSUME given \in Tree, NEW n \in 1..Len(given), NEW k \in 1..Len(Source(n))
  PROVE  k \in Overwritten(n) <=> Ahead(n, k)
<1>1. Len(Source(n)) \in Nat
  BY GivenFacts
<1>2. QED
  BY <1>1 DEF Overwritten, Ahead, Straight, Blank, Source

LEMMA StraightNext ==
  ASSUME given \in Tree, NEW n \in 1..Len(given), NEW k \in 1..Len(Source(n))
  PROVE  Straight(n, k + 1) <=>
           /\ Straight(n, k) /\ Source(n)[k].name \in LinkAttribute /\ Valid(Source(n)[k])
           /\ \A l \in 1..(k - 1) : Source(n)[l].name # Source(n)[k].name
<1>1. k \in Nat /\ k + 1 - 1 = k /\ \A l \in 1..k : l \in 1..(k - 1) \/ l = k
  BY GivenFacts
<1>2. k \in 1..k /\ \A l \in 1..(k - 1) : l \in 1..k /\ l # k
  BY <1>1
<1>3. QED
  BY <1>1, <1>2 DEF Straight

(* The names of the front say whether the next attribute is the first.      *)
LEMMA NamesSay ==
  ASSUME given \in Tree, NEW n \in 1..Len(given), NEW k \in 1..Len(Source(n)),
         NEW names, Names(n, k, names)
  PROVE  /\ Repetition(n, k) <=> Source(n)[k].name \in names
         /\ FirstValid(n, k) <=> /\ Source(n)[k].name \in LinkAttribute \ names
                                 /\ Valid(Source(n)[k]) /\ ~Ahead(n, k)
<1> DEFINE a == Source(n)[k]
<1>1. k \in Nat /\ \A l \in 1..(k - 1) : l \in 1..Len(Source(n))
  BY GivenFacts
<1>2. \A l \in 1..(k - 1) : FirstValid(n, l) =>
        Source(n)[l].name \in LinkAttribute /\ Valid(Source(n)[l]) /\ l \notin Overwritten(n)
  BY DEF FirstValid, Source
<1>3. Repetition(n, k) <=> a.name \in names
  <2>1. Repetition(n, k) <=> \E l \in 1..(k - 1) : FirstValid(n, l) /\ Source(n)[l].name = a.name
    BY DEF Repetition, Source
  <2>2. QED
    BY <1>2, <2>1 DEF Names
<1>4. k \in Overwritten(n) <=> Ahead(n, k)
  BY OverwrittenIs
<1>5. FirstValid(n, k) <=>
        /\ a.name \in LinkAttribute /\ Valid(a) /\ k \notin Overwritten(n)
        /\ \A l \in 1..(k - 1) :
             Source(n)[l].name = a.name => l \in Overwritten(n) \/ ~Valid(Source(n)[l])
  BY DEF FirstValid, Source
<1>6. ASSUME a.name \in names PROVE ~FirstValid(n, k)
  BY <1>2, <1>5, <1>6 DEF Names
<1>7. ASSUME a.name \in LinkAttribute \ names, NEW l \in 1..(k - 1), Source(n)[l].name = a.name
      PROVE  l \in Overwritten(n) \/ ~Valid(Source(n)[l])
  BY <1>7 DEF Names
<1>8. QED
  BY <1>3, <1>4, <1>5, <1>6, <1>7

-----------------------------------------------------------------------------
(* A step of the loop *)

(* Where the next attribute has been overwritten, and where it has not.     *)
LEMMA NextIs ==
  ASSUME given \in Tree, NEW n \in 1..Len(given), NEW at \in 1..Len(Source(n)),
         NEW array, NEW len \in Nat, NEW names, LinkFits(n, array, at, len, names)
  PROVE  /\ Ahead(n, at) => array[at] = Rel /\ len = at /\ "target" \in names
         /\ ~Ahead(n, at) => array[at] = Source(n)[at] /\ len <= at - 1
         /\ at \in Nat /\ Len(Source(n)) \in Nat
<1>1. at \in Nat /\ Len(Source(n)) \in Nat /\ at \in at..Len(Source(n))
  BY GivenFacts
<1>2. array[at] = IF at <= len THEN Rel ELSE Source(n)[at]
  BY <1>1 DEF LinkFits, Rest
<1>3. IF Ahead(n, at) THEN len = at ELSE len <= at - 1
  BY DEF LinkFits, Place
<1>4. ASSUME Ahead(n, at) PROVE "target" \in names
  <2>1. Straight(n, at) /\ at - 1 \in 1..(at - 1) /\ Source(n)[at - 1].name = "target"
    BY <1>1, <1>4 DEF Ahead, Blank
  <2>2. QED
    BY <2>1 DEF LinkFits, Place
<1>5. CASE Ahead(n, at)
  BY <1>1, <1>2, <1>3, <1>4, <1>5
<1>6. CASE ~Ahead(n, at)
  BY <1>1, <1>2, <1>3, <1>6
<1>7. QED
  BY <1>5, <1>6

(* What is allowed stays so when one more attribute has been read.          *)
LEMMA KeptLater ==
  ASSUME NEW n, NEW array, NEW at \in Nat, NEW len, NEW names, NEW m,
         Kept(n, array, at, len, names, m)
  PROVE  Kept(n, array, at + 1, len, names, m)
<1>1. array[m].pos \in 1..(at + 1 - 1)
  BY DEF Kept
<1>2. QED
  BY <1>1 DEF Kept

LEMMA SkipFits ==
  ASSUME given \in Tree, NEW n \in 1..Len(given), NEW at \in 1..Len(Source(n)),
         NEW array, NEW len \in Nat, NEW names \in SUBSET LinkAttribute,
         LinkFits(n, array, at, len, names),
         ~(array[at].name \in LinkAttribute \ names /\ Valid(array[at]))
  PROVE  LinkFits(n, array, at + 1, len, names)
<1> DEFINE a == Source(n)[at]
           last == Len(Source(n))
<1>1. /\ Ahead(n, at) => array[at] = Rel /\ len = at /\ "target" \in names
      /\ ~Ahead(n, at) => array[at] = a /\ len <= at - 1
      /\ at \in Nat /\ last \in Nat /\ at <= last
  BY NextIs
<1>2. at + 1 - 1 = at /\ \A k \in 1..at : k \in 1..(at - 1) \/ k = at
  BY <1>1
<1>3. Place(n, array, at, len, names) /\ Rest(n, array, at, len)
      /\ Names(n, at, names) /\ Filtered(n, array, at, len, names)
  BY DEF LinkFits
<1>4. /\ Straight(n, at + 1) => /\ Straight(n, at) /\ a.name \in LinkAttribute /\ Valid(a)
                                /\ \A l \in 1..(at - 1) : Source(n)[l].name # a.name
  BY StraightNext
<1>5. FirstValid(n, at) <=> a.name \in LinkAttribute \ names /\ Valid(a) /\ ~Ahead(n, at)
  BY <1>3, NamesSay
<1>6. ~FirstValid(n, at)
  BY <1>1, <1>5
<1>7. at \in Overwritten(n) <=> Ahead(n, at)
  BY OverwrittenIs
<1>8. ASSUME ~Ahead(n, at) PROVE ~Straight(n, at + 1)
  <2>1. SUFFICES ASSUME Straight(n, at + 1) PROVE FALSE
    OBVIOUS
  <2>2. a.name \in names
    BY <1>1, <1>4, <1>8, <2>1
  <2>3. PICK l \in 1..(at - 1) : Source(n)[l].name = a.name
    BY <1>3, <2>2 DEF Names
  <2>4. QED
    BY <1>4, <2>1, <2>3
<1>9. ~Ahead(n, at + 1)
  <2>1. SUFFICES ASSUME Ahead(n, at + 1) PROVE FALSE
    OBVIOUS
  <2>2. Straight(n, at + 1) /\ a.name = "target"
    BY <1>2, <2>1 DEF Ahead, Blank
  <2>3. Ahead(n, at)
    BY <1>8, <2>2
  <2>4. at - 1 \in 1..(at - 1) /\ Source(n)[at - 1].name = "target"
    BY <1>1, <2>3 DEF Ahead, Blank
  <2>5. QED
    BY <1>4, <2>2, <2>4
<1>10. Place(n, array, at + 1, len, names)
  <2>1. at + 1 <= last + 1 /\ last <= Len(array) /\ len <= Len(array) /\ len <= at
    BY <1>1, <1>3 DEF Place
  <2>2. ASSUME "target" \notin names PROVE ~Straight(n, at + 1) /\ len # at
    BY <1>1, <1>8, <2>2
  <2>3. QED
    BY <1>2, <1>9, <2>1, <2>2 DEF Place
<1>11. Rest(n, array, at + 1, len)
  <2>1. \A j \in (at + 1)..last : j \in at..last
    BY <1>1
  <2>2. QED
    BY <1>3, <2>1 DEF Rest
<1>12. Names(n, at + 1, names)
  <2>1. \A k \in 1..(at - 1) : k \in 1..at
    BY <1>1
  <2>2. a.name \in LinkAttribute /\ Valid(a) /\ at \notin Overwritten(n) => a.name \in names
    BY <1>1, <1>7
  <2>3. QED
    BY <1>2, <1>3, <2>1, <2>2 DEF Names
<1>13. Filtered(n, array, at + 1, len, names)
  <2>1. \A m \in 1..len : Added(array, names, m) \/ Kept(n, array, at + 1, len, names, m)
    BY <1>1, <1>3, KeptLater DEF Filtered
  <2>2. \A k \in 1..at : FirstValid(n, k) => \E m \in 1..len : array[m].pos = k
    BY <1>2, <1>3, <1>6 DEF Filtered
  <2>3. QED
    BY <1>2, <1>3, <2>1, <2>2 DEF Filtered
<1>14. QED
  BY <1>10, <1>11, <1>12, <1>13 DEF LinkFits

LEMMA AcceptedIs ==
  ASSUME NEW a
  PROVE  /\ Accepted(a) = IF Blank(a) THEN <<a, Rel>> ELSE <<a>>
         /\ Len(Accepted(a)) = IF Blank(a) THEN 2 ELSE 1
         /\ Accepted(a)[1] = a
         /\ Blank(a) => Accepted(a)[2] = Rel
  BY DEF Accepted, Blank

(* array2 begins with the len attributes of array, a, and with _blank rel,  *)
(* and goes on as array does.                                              *)
Grown(array, array2, len, a) ==
  /\ Len(array) <= Len(array2) /\ len + Len(Accepted(a)) <= Len(array2)
  /\ \A k \in 1..len : array2[k] = array[k]
  /\ array2[len + 1] = a
  /\ Blank(a) => array2[len + 2] = Rel
  /\ \A k \in (len + Len(Accepted(a)) + 1)..Len(array) : array2[k] = array[k]

LEMMA AcceptFits ==
  ASSUME given \in Tree, NEW n \in 1..Len(given), NEW at \in 1..Len(Source(n)),
         NEW array, NEW array2, NEW len \in Nat, NEW names \in SUBSET LinkAttribute,
         Len(array) \in Nat, Len(array2) \in Nat,
         LinkFits(n, array, at, len, names),
         array[at].name \in LinkAttribute \ names, Valid(array[at]),
         Grown(array, array2, len, array[at])
  PROVE  LinkFits(n, array2, at + 1, len + Len(Accepted(array[at])), names \cup {array[at].name})
<1> DEFINE a      == Source(n)[at]
           last   == Len(Source(n))
           c      == Len(Accepted(a))
           len2   == len + c
           names2 == names \cup {a.name}
<1>1. ~Ahead(n, at) /\ array[at] = a /\ len <= at - 1 /\ at \in Nat /\ last \in Nat /\ at <= last
  <2>1. /\ Ahead(n, at) => array[at] = Rel
        /\ ~Ahead(n, at) => array[at] = a /\ len <= at - 1
        /\ at \in Nat /\ last \in Nat /\ at <= last
    BY NextIs
  <2>2. array[at] # Rel
    BY RelFacts
  <2>3. QED
    BY <2>1, <2>2
<1>2. at + 1 - 1 = at /\ at \in 1..at /\ \A k \in 1..at : k \in 1..(at - 1) \/ k = at
  BY <1>1
<1>3. Place(n, array, at, len, names) /\ Rest(n, array, at, len)
      /\ Names(n, at, names) /\ Filtered(n, array, at, len, names)
  BY DEF LinkFits
<1>4. a.name \in LinkAttribute \ names /\ Valid(a) /\ a.pos = at /\ a # Rel
  BY <1>1, GivenFacts
<1>5. FirstValid(n, at)
  BY <1>1, <1>3, <1>4, NamesSay
<1>6. /\ Len(array) <= Len(array2) /\ len2 <= Len(array2)
      /\ \A k \in 1..len : array2[k] = array[k]
      /\ array2[len + 1] = a
      /\ Blank(a) => array2[len + 2] = Rel
      /\ \A k \in (len2 + 1)..Len(array) : array2[k] = array[k]
  BY <1>1 DEF Grown
<1>7. c = (IF Blank(a) THEN 2 ELSE 1) /\ len2 = len + c
  BY AcceptedIs
<1>8. Straight(n, at) /\ "target" \notin names => Straight(n, at + 1)
  <2>1. ASSUME Straight(n, at), "target" \notin names, NEW l \in 1..(at - 1)
        PROVE  Source(n)[l].name # a.name
    BY <1>3, <1>4, <2>1 DEF Place
  <2>2. QED
    BY <1>4, <2>1, StraightNext
<1>9. Straight(n, at + 1) => Straight(n, at)
  BY StraightNext
<1>10. Ahead(n, at + 1) <=> Straight(n, at + 1) /\ Blank(a)
  BY <1>1, <1>2 DEF Ahead
<1>11. Blank(a) => a.name = "target" /\ "target" \notin names
  BY <1>4 DEF Blank
<1>12. ~("target" \in names) => len <= at - 1 /\ (len = at - 1 <=> Straight(n, at))
                 /\ (Straight(n, at) => \A l \in 1..(at - 1) : Source(n)[l].name \in names)
  BY <1>3 DEF Place
<1>13. len <= Len(array) /\ last <= Len(array)
  BY <1>3 DEF Place
<1> HIDE DEF c, len2, a, last
<1>14. Place(n, array2, at + 1, len2, names2)
  <2>1. at + 1 <= last + 1 /\ last <= Len(array2) /\ len2 <= Len(array2)
    BY <1>1, <1>6, <1>13
  <2>2. ASSUME "target" \notin names2
        PROVE  /\ len2 <= at /\ (len2 = at <=> Straight(n, at + 1))
               /\ Straight(n, at + 1) => \A l \in 1..at : Source(n)[l].name \in names2
    <3>1. "target" \notin names /\ c = 1
      BY <1>7, <1>11, <2>2
    <3>2. len2 <= at /\ (len2 = at <=> len = at - 1)
      BY <1>1, <1>7, <3>1
    <3>3. ASSUME Straight(n, at + 1), NEW l \in 1..at PROVE Source(n)[l].name \in names2
      BY <1>2, <1>9, <1>12, <3>1, <3>3 DEF a
    <3>4. QED
      BY <1>8, <1>9, <1>12, <3>1, <3>2, <3>3
  <2>3. CASE Ahead(n, at + 1)
    <3>1. len = at - 1 /\ c = 2
      BY <1>7, <1>9, <1>10, <1>11, <1>12, <2>3
    <3>2. len2 = at + 1
      BY <1>1, <1>7, <3>1
    <3>3. QED
      BY <1>2, <2>1, <2>2, <2>3, <3>2 DEF Place, last
  <2>4. CASE ~Ahead(n, at + 1)
    <3>1. CASE Blank(a)
      <4>1. len # at - 1 /\ len <= at - 1 /\ c = 2
        BY <1>7, <1>8, <1>10, <1>11, <1>12, <2>4, <3>1
      <4>2. len2 <= at
        BY <1>1, <1>7, <4>1
      <4>3. QED
        BY <1>2, <2>1, <2>2, <2>4, <4>2 DEF Place, last
    <3>2. CASE ~Blank(a)
      <4>1. len2 <= at
        BY <1>1, <1>7, <3>2
      <4>2. QED
        BY <1>2, <2>1, <2>2, <2>4, <4>1 DEF Place, last
    <3>3. QED
      BY <3>1, <3>2
  <2>5. QED
    BY <2>3, <2>4
<1>15. Rest(n, array2, at + 1, len2)
  <2>1. SUFFICES ASSUME NEW j \in (at + 1)..last
                 PROVE  array2[j] = IF j <= len2 THEN Rel ELSE Source(n)[j]
    BY DEF Rest, last
  <2>2. j \in at..last /\ ~(j <= len) /\ j \in Nat
    BY <1>1
  <2>3. CASE j <= len2
    <3>1. Blank(a) /\ j = len + 2
      BY <1>1, <1>7, <2>2, <2>3
    <3>2. QED
      BY <1>6, <2>3, <3>1
  <2>4. CASE ~(j <= len2)
    <3>1. j \in (len2 + 1)..Len(array)
      BY <1>1, <1>7, <1>13, <2>2, <2>4
    <3>2. array[j] = Source(n)[j]
      BY <1>3, <2>2 DEF Rest, last
    <3>3. QED
      BY <1>6, <2>4, <3>1, <3>2
  <2>5. QED
    BY <2>3, <2>4
<1>16. Names(n, at + 1, names2)
  <2>1. ASSUME NEW x \in names2 PROVE \E k \in 1..at : FirstValid(n, k) /\ Source(n)[k].name = x
    <3>1. CASE x \in names
      <4>1. PICK k \in 1..(at - 1) : FirstValid(n, k) /\ Source(n)[k].name = x
        BY <1>3, <3>1 DEF Names
      <4>2. k \in 1..at
        BY <1>1
      <4>3. QED
        BY <4>1, <4>2
    <3>2. CASE x = a.name
      BY <1>2, <1>5, <3>2 DEF a
    <3>3. QED
      BY <3>1, <3>2
  <2>2. ASSUME NEW k \in 1..at, Source(n)[k].name \in LinkAttribute, Valid(Source(n)[k]),
               k \notin Overwritten(n)
        PROVE  Source(n)[k].name \in names2
    <3>1. CASE k \in 1..(at - 1)
      BY <1>3, <2>2, <3>1 DEF Names
    <3>2. CASE k = at
      BY <3>2 DEF a
    <3>3. QED
      BY <1>2, <3>1, <3>2
  <2>3. QED
    BY <1>2, <2>1, <2>2 DEF Names
<1>17. \A m \in 1..len : Added(array, names, m) \/ Kept(n, array, at, len, names, m)
  BY <1>3 DEF Filtered
<1>18. ASSUME NEW m \in 1..len
       PROVE  Added(array2, names2, m) \/ Kept(n, array2, at + 1, len2, names2, m)
  <2>1. m \in Nat /\ array2[m] = array[m]
    BY <1>6
  <2>2. CASE Added(array, names, m)
    <3>1. m - 1 \in 1..len
      BY <2>2 DEF Added
    <3>2. array2[m - 1] = array[m - 1]
      BY <1>6, <3>1
    <3>3. QED
      BY <2>1, <2>2, <3>2 DEF Added
  <2>3. CASE Kept(n, array, at, len, names, m)
    <3>1. array[m].value = "_blank" => m < len2 /\ array2[m + 1] = Rel
      <4>1. SUFFICES ASSUME array[m].value = "_blank" PROVE m < len2 /\ array2[m + 1] = Rel
        OBVIOUS
      <4>2. m < len /\ array[m + 1] = Rel
        BY <2>3, <4>1 DEF Kept
      <4>3. m + 1 \in 1..len /\ m < len2
        BY <1>7, <2>1, <4>2
      <4>4. QED
        BY <1>6, <4>2, <4>3
    <3>2. array[m].pos \in 1..(at + 1 - 1)
      BY <1>1, <2>3 DEF Kept
    <3>3. QED
      BY <2>1, <2>3, <3>1, <3>2 DEF Kept
  <2>4. QED
    BY <1>17, <2>2, <2>3
<1>19. Kept(n, array2, at + 1, len2, names2, len + 1)
  <2>1. array2[len + 1] = a /\ a = Source(n)[a.pos] /\ a.pos \in 1..(at + 1 - 1)
    BY <1>2, <1>4, <1>6 DEF a
  <2>2. FirstValid(n, a.pos) /\ a.name \in names2
    BY <1>4, <1>5
  <2>3. a.value = "_blank" => Blank(a)
    BY <1>4, RelFacts DEF Blank
  <2>4. Blank(a) => len + 1 < len2 /\ array2[len + 1 + 1] = Rel
    <3>1. len + 1 + 1 = len + 2
      OBVIOUS
    <3>2. QED
      BY <1>6, <1>7, <3>1
  <2>5. QED
    BY <2>1, <2>2, <2>3, <2>4 DEF Kept
<1>20. Blank(a) => Added(array2, names2, len + 2)
  <2>1. len + 2 > 1 /\ len + 2 - 1 = len + 1
    OBVIOUS
  <2>2. QED
    BY <1>6, <1>11, <2>1 DEF Added
<1>21. \A m \in 1..len2 : \/ m \in 1..len
                          \/ m = len + 1
                          \/ m = len + 2 /\ Blank(a)
  BY <1>7
<1>22. \A m \in 1..len : m \in 1..len2
  BY <1>7
<1>23. len + 1 \in 1..len2
  BY <1>7
<1>24. ASSUME NEW k \in 1..at, FirstValid(n, k) PROVE \E m \in 1..len2 : array2[m].pos = k
  <2>1. CASE k = at
    BY <1>4, <1>6, <1>23, <2>1
  <2>2. CASE k \in 1..(at - 1)
    <3>1. PICK m \in 1..len : array[m].pos = k
      BY <1>3, <1>24, <2>2 DEF Filtered
    <3>2. QED
      BY <1>6, <1>22, <3>1
  <2>3. QED
    BY <1>2, <2>1, <2>2
<1>25. ASSUME NEW m \in 1..len PROVE array[m].name # a.name /\ (Blank(a) => array[m].name # "rel")
  <2>1. CASE Added(array, names, m)
    BY <1>4, <1>11, <2>1, RelFacts DEF Added
  <2>2. CASE Kept(n, array, at, len, names, m)
    <3>1. array[m].name \in names /\ "rel" \notin LinkAttribute
      BY <2>2, RelFacts DEF Kept
    <3>2. QED
      BY <1>4, <3>1
  <2>3. QED
    BY <1>17, <2>1, <2>2
<1>26. ASSUME NEW k \in 1..len2, NEW l \in 1..len2, array2[k].name = array2[l].name PROVE k = l
  <2>1. array2[len + 1].name = a.name /\ a.name # "rel"
    BY <1>4, <1>6, RelFacts
  <2>2. Blank(a) => array2[len + 2].name = "rel"
    BY <1>6, RelFacts
  <2>3. \A m \in 1..len : array2[m].name # a.name /\ (Blank(a) => array2[m].name # "rel")
    BY <1>6, <1>25
  <2>4. \A m, p \in 1..len : array2[m].name = array2[p].name => m = p
    BY <1>3, <1>6 DEF Filtered
  <2>5. QED
    BY <1>21, <1>26, <2>1, <2>2, <2>3, <2>4
<1>27. Filtered(n, array2, at + 1, len2, names2)
  <2>1. \A m \in 1..len2 : Added(array2, names2, m) \/ Kept(n, array2, at + 1, len2, names2, m)
    BY <1>18, <1>19, <1>20, <1>21
  <2>2. \A k \in 1..(at + 1 - 1) : FirstValid(n, k) => \E m \in 1..len2 : array2[m].pos = k
    BY <1>2, <1>24
  <2>3. \A k, l \in 1..len2 : array2[k].name = array2[l].name => k = l
    BY <1>26
  <2> HIDE DEF names2
  <2>4. QED
    BY ONLY <2>1, <2>2, <2>3 DEF Filtered
<1>28. LinkFits(n, array2, at + 1, len2, names2)
  BY <1>14, <1>15, <1>16, <1>27 DEF LinkFits
<1>29. QED
  BY <1>1, <1>28 DEF len2, c

LEMMA StartFits ==
  ASSUME given \in Tree, NEW n \in 1..Len(given)
  PROVE  LinkFits(n, Source(n), 1, 0, {})
<1>1. Len(Source(n)) \in Nat /\ Source(n) \in Seq(Attribute)
  BY GivenFacts
<1>2. 1..(1 - 1) = {} /\ 1..0 = {} /\ 1 - 1 = 0
  OBVIOUS
<1>3. ~Ahead(n, 1) /\ Straight(n, 1)
  BY <1>2 DEF Ahead, Straight
<1>4. Place(n, Source(n), 1, 0, {})
  BY <1>1, <1>2, <1>3 DEF Place
<1>5. Rest(n, Source(n), 1, 0)
  BY <1>1 DEF Rest
<1>6. Names(n, 1, {}) /\ Filtered(n, Source(n), 1, 0, {})
  BY <1>2 DEF Names, Filtered
<1>7. QED
  BY <1>4, <1>5, <1>6 DEF LinkFits

(* The loop ends with the array, or with all three names.                   *)
Done(n, at, names) == at = Len(Source(n)) + 1 \/ names = LinkAttribute

(* What is rendered is the front of the array. *)
Begins(out, array, len) == \A m \in 1..len : out[m] = array[m]

LEMMA FinishFits ==
  ASSUME given \in Tree, NEW n \in 1..Len(given), NEW at \in Nat \ {0},
         NEW array, NEW len \in Nat, NEW names \in SUBSET LinkAttribute, NEW out,
         LinkFits(n, array, at, len, names), Done(n, at, names),
         Begins(out, array, len)
  PROVE  /\ \A k, l \in 1..len : out[k].name = out[l].name => k = l
         /\ \A k \in 1..len :
              IF out[k] = Rel
              THEN k > 1 /\ out[k - 1].name = "target" /\ out[k - 1].value = "_blank"
              ELSE /\ out[k].name \in LinkAttribute
                   /\ out[k] = Source(n)[out[k].pos] /\ Valid(out[k])
                   /\ out[k].value = "_blank" => k < len /\ out[k + 1] = Rel
         /\ \A k \in 1..Len(Source(n)) :
              (\E m \in 1..len : out[m].pos = k) <=> FirstValid(n, k)
         /\ \A k \in 1..Len(Source(n)) : ~(k < at) => ~Faulty(n, k)
<1>1. Len(Source(n)) \in Nat /\ at <= Len(Source(n)) + 1
      /\ \A m \in 1..len : out[m] = array[m]
  BY GivenFacts DEF LinkFits, Place, Begins
<1>2. \A k \in 1..(at - 1) : k \in 1..Len(Source(n)) /\ Source(n)[k] # Rel /\ k < at
  BY <1>1, GivenFacts
<1>3. Names(n, at, names) /\ Filtered(n, array, at, len, names)
  BY DEF LinkFits
<1>4. \A k : FirstValid(n, k) =>
        Source(n)[k].name \in LinkAttribute /\ Valid(Source(n)[k]) /\ k \notin Overwritten(n)
  BY DEF FirstValid, Source
<1>5. \A m \in 1..len : Added(array, names, m) \/ Kept(n, array, at, len, names, m)
  BY <1>3 DEF Filtered
<1>6. ASSUME NEW m \in 1..len
      PROVE  IF out[m] = Rel
             THEN m > 1 /\ out[m - 1].name = "target" /\ out[m - 1].value = "_blank"
             ELSE /\ out[m].name \in LinkAttribute
                  /\ out[m] = Source(n)[out[m].pos] /\ Valid(out[m])
                  /\ out[m].value = "_blank" => m < len /\ out[m + 1] = Rel
  <2>1. m \in Nat /\ out[m] = array[m]
    BY <1>1
  <2>2. CASE Added(array, names, m)
    <3>1. m > 1 /\ Blank(array[m - 1]) /\ array[m] = Rel /\ m - 1 \in 1..len
      BY <2>1, <2>2 DEF Added
    <3>2. QED
      BY <1>1, <2>1, <3>1 DEF Blank
  <2>3. CASE Kept(n, array, at, len, names, m)
    <3>1. /\ out[m].pos \in 1..(at - 1) /\ out[m] = Source(n)[out[m].pos]
          /\ FirstValid(n, out[m].pos)
          /\ out[m].value = "_blank" => m < len /\ array[m + 1] = Rel
      BY <2>1, <2>3 DEF Kept
    <3>2. m < len => out[m + 1] = array[m + 1]
      BY <1>1, <2>1
    <3>3. QED
      BY <1>2, <1>4, <3>1, <3>2
  <2>4. QED
    BY <1>5, <2>2, <2>3
<1>7. ASSUME NEW k \in 1..Len(Source(n)), ~(k < at), Source(n)[k].name \in LinkAttribute
      PROVE  Repetition(n, k)
  <2>1. names = LinkAttribute
    BY <1>1, <1>7 DEF Done
  <2>2. PICK l \in 1..(at - 1) : FirstValid(n, l) /\ Source(n)[l].name = Source(n)[k].name
    BY <1>3, <1>7, <2>1 DEF Names
  <2>3. l \in 1..(k - 1)
    BY <1>7
  <2>4. QED
    BY <2>2, <2>3 DEF Repetition, Source
<1>8. \A k : FirstValid(n, k) => ~Repetition(n, k)
  BY <1>4 DEF FirstValid, Repetition, Source
<1>9. ASSUME NEW k \in 1..Len(Source(n)), NEW m \in 1..len, out[m].pos = k
      PROVE  FirstValid(n, k)
  <2>1. out[m] # Rel
    <3>1. Rel.pos = 0 /\ k # 0
      BY <1>1 DEF Rel
    <3>2. QED
      BY <1>9, <3>1
  <2>2. Kept(n, array, at, len, names, m)
    BY <1>1, <1>5, <2>1 DEF Added
  <2>3. QED
    BY <1>1, <1>9, <2>2 DEF Kept
<1>10. ASSUME NEW k \in 1..Len(Source(n)), FirstValid(n, k)
       PROVE  \E m \in 1..len : out[m].pos = k
  <2>1. k \in 1..(at - 1)
    <3>1. Source(n)[k].name \in LinkAttribute /\ ~Repetition(n, k)
      BY <1>4, <1>8, <1>10
    <3>2. k < at
      BY <1>7, <3>1
    <3>3. QED
      BY <3>2
  <2>2. QED
    BY <1>1, <1>3, <1>10, <2>1 DEF Filtered
<1>11. ASSUME NEW k \in 1..Len(Source(n)), ~(k < at) PROVE ~Faulty(n, k)
  BY <1>7, <1>11 DEF Faulty, Source
<1>12. \A k, l \in 1..len : out[k].name = out[l].name => k = l
  BY <1>1, <1>3 DEF Filtered
<1>13. QED
  BY <1>6, <1>9, <1>10, <1>11, <1>12

-----------------------------------------------------------------------------
(* What depends on the input alone *)

LEMMA GivenSame ==
  ASSUME given' = given, NEW n
  PROVE  /\ Source(n)' = Source(n)
         /\ \A k : FirstValid(n, k)' <=> FirstValid(n, k)
         /\ \A k : Faulty(n, k)' <=> Faulty(n, k)
<1>1. Source(n)' = Source(n)
  BY DEF Source
<1>2. Overwritten(n)' = Overwritten(n)
  BY DEF Overwritten
<1>3. ASSUME NEW k PROVE FirstValid(n, k)' <=> FirstValid(n, k)
  BY <1>2 DEF FirstValid
<1>4. ASSUME NEW k PROVE Repetition(n, k)' <=> Repetition(n, k)
  BY <1>3 DEF Repetition
<1>5. ASSUME NEW k PROVE Faulty(n, k)' <=> Faulty(n, k)
  BY <1>2, <1>4 DEF Faulty
<1>6. QED
  BY <1>1, <1>3, <1>5

LEMMA FitsSame ==
  ASSUME given' = given, NEW n, NEW array, NEW at, NEW len, NEW names
  PROVE  LinkFits(n, array, at, len, names)' <=> LinkFits(n, array, at, len, names)
<1>1. Source(n)' = Source(n) /\ \A k : FirstValid(n, k)' <=> FirstValid(n, k)
  BY GivenSame
<1>2. ASSUME NEW k PROVE Straight(n, k)' <=> Straight(n, k)
  BY <1>1 DEF Straight
<1>3. ASSUME NEW k PROVE Ahead(n, k)' <=> Ahead(n, k)
  BY <1>1, <1>2 DEF Ahead
<1>4. Overwritten(n)' = Overwritten(n)
  BY DEF Overwritten
<1>5. Place(n, array, at, len, names)' <=> Place(n, array, at, len, names)
  BY <1>1, <1>2, <1>3 DEF Place
<1>6. Rest(n, array, at, len)' <=> Rest(n, array, at, len)
  BY <1>1 DEF Rest
<1>7. Names(n, at, names)' <=> Names(n, at, names)
  BY <1>1, <1>4 DEF Names
<1>8. ASSUME NEW m
      PROVE  Kept(n, array, at, len, names, m)' <=> Kept(n, array, at, len, names, m)
  BY <1>1 DEF Kept
<1>9. Filtered(n, array, at, len, names)' <=> Filtered(n, array, at, len, names)
  BY <1>1, <1>8 DEF Filtered
<1>10. QED
  BY <1>5, <1>6, <1>7, <1>9 DEF LinkFits

-----------------------------------------------------------------------------
(* What is reported *)

(* Only the node that is being normalized has anything new reported, and    *)
(* in order.                                                               *)
LEMMA IssuesGrow ==
  ASSUME IssuesOK, node \in Nat, i \in Nat, NEW more \in Seq(Report), issues' = issues \o more,
         \A m \in 1..Len(more) : more[m].node = node /\ more[m].pos >= i,
         \A l, m \in 1..Len(more) : l < m => more[l].pos < more[m].pos
  PROVE  /\ issues' \in Seq(Report) /\ InOrder'
         /\ \A r \in 1..Len(issues') :
              \/ Before(issues'[r].node)
              \/ issues'[r].node = node /\ issues'[r].pos < i
              \/ \E m \in 1..Len(more) : issues'[r] = more[m]
         /\ \A n, k : Reported(n, k)' <=>
              Reported(n, k) \/ \E m \in 1..Len(more) : n = node /\ k = more[m].pos
<1> DEFINE old == Len(issues)
           c   == Len(more)
<1>1. issues \in Seq(Report) /\ old \in Nat /\ c \in Nat /\ DOMAIN issues = 1..old
  BY LenProperties DEF IssuesOK
<1>2. /\ issues' \in Seq(Report) /\ Len(issues') = old + c
      /\ \A r \in 1..(old + c) : issues'[r] = IF r <= old THEN issues[r] ELSE more[r - old]
  <2>1. /\ issues \o more \in Seq(Report) /\ Len(issues \o more) = Len(issues) + Len(more)
        /\ \A r \in 1..(Len(issues) + Len(more)) :
             (issues \o more)[r] = IF r <= Len(issues) THEN issues[r] ELSE more[r - Len(issues)]
    BY ONLY <1>1, more \in Seq(Report), ConcatProperties
  <2>2. QED
    BY ONLY <2>1, issues' = issues \o more
<1>3. DOMAIN issues' = 1..(old + c)
  BY ONLY <1>2, LenProperties
<1> HIDE DEF old, c
<1>4. \A r \in 1..old : r \in 1..(old + c) /\ issues'[r] = issues[r]
  BY <1>1, <1>2
<1>5. \A m \in 1..c : old + m \in 1..(old + c) /\ issues'[old + m] = more[m]
  BY <1>1, <1>2
<1>6. \A r \in 1..(old + c) : r \in 1..old \/ (r - old \in 1..c /\ issues'[r] = more[r - old])
  BY <1>1, <1>2
<1>7. \A r \in 1..old : issues[r] \in Report
  BY <1>1, ElementOfSeq DEF old
<1>8. \A m \in 1..c : more[m] \in Report /\ more[m].node = node /\ more[m].pos >= i
  BY ElementOfSeq DEF c
<1>9. \A r \in 1..old : issues[r].node < node \/ (issues[r].node = node /\ issues[r].pos < i)
  BY DEF IssuesOK, Before, old
<1>10. InOrder'
  <2>1. SUFFICES ASSUME NEW r \in 1..(old + c), NEW s \in 1..(old + c), r < s
                 PROVE  \/ issues'[r].node < issues'[s].node
                        \/ issues'[r].node = issues'[s].node /\ issues'[r].pos < issues'[s].pos
    BY <1>3 DEF InOrder
  <2>2. CASE r \in 1..old /\ s \in 1..old
    <3>1. \/ issues[r].node < issues[s].node
          \/ issues[r].node = issues[s].node /\ issues[r].pos < issues[s].pos
      <4>1. InOrder /\ r \in DOMAIN issues /\ s \in DOMAIN issues
        BY <1>1, <2>2 DEF IssuesOK
      <4>2. QED
        BY <2>1, <4>1 DEF InOrder
    <3>2. issues'[r] = issues[r] /\ issues'[s] = issues[s]
      BY <1>4, <2>2
    <3>3. QED
      BY <3>1, <3>2
  <2>3. CASE r \in 1..old /\ s \notin 1..old
    <3>1. /\ issues'[r] = issues[r] /\ issues'[s] = more[s - old] /\ s - old \in 1..c
          /\ issues[r] \in Report /\ more[s - old] \in Report
      BY <1>4, <1>6, <1>7, <1>8, <2>3
    <3>2. /\ issues[r].node < node \/ (issues[r].node = node /\ issues[r].pos < i)
          /\ more[s - old].node = node /\ more[s - old].pos >= i
      BY <1>8, <1>9, <2>3, <3>1
    <3>3. issues[r].pos \in Nat /\ more[s - old].pos \in Nat
      BY <3>1 DEF Report
    <3>4. QED
      BY <3>1, <3>2, <3>3
  <2>4. CASE r \notin 1..old
    <3>1. s \notin 1..old
      BY <1>1, <2>1, <2>4
    <3>2. /\ issues'[r] = more[r - old] /\ issues'[s] = more[s - old]
          /\ r - old \in 1..c /\ s - old \in 1..c
      BY <1>6, <2>4, <3>1
    <3>3. r - old < s - old
      BY <1>1, <2>1
    <3>4. more[r - old].pos < more[s - old].pos
      BY <3>2, <3>3 DEF c
    <3>5. QED
      BY <1>8, <3>2, <3>4
  <2>5. QED
    BY <2>2, <2>3, <2>4
<1>11. ASSUME NEW r \in 1..Len(issues')
       PROVE  \/ Before(issues'[r].node)
              \/ issues'[r].node = node /\ issues'[r].pos < i
              \/ \E m \in 1..Len(more) : issues'[r] = more[m]
  BY <1>2, <1>4, <1>6, <1>9 DEF Before, c
<1>12. ASSUME NEW n, NEW k
       PROVE  Reported(n, k)' <=>
                Reported(n, k) \/ \E m \in 1..Len(more) : n = node /\ k = more[m].pos
  <2>1. Reported(n, k)' <=> \E r \in 1..(old + c) : issues'[r].node = n /\ issues'[r].pos = k
    BY <1>3 DEF Reported
  <2>2. Reported(n, k) <=> \E r \in 1..old : issues[r].node = n /\ issues[r].pos = k
    BY <1>1 DEF Reported
  <2>3. Reported(n, k) => Reported(n, k)'
    BY <1>4, <2>1, <2>2
  <2>4. ASSUME NEW m \in 1..c, n = node, k = more[m].pos PROVE Reported(n, k)'
    BY <1>5, <1>8, <2>1, <2>4
  <2>5. ASSUME Reported(n, k)', ~Reported(n, k)
        PROVE  \E m \in 1..c : n = node /\ k = more[m].pos
    <3>1. PICK r \in 1..(old + c) : issues'[r].node = n /\ issues'[r].pos = k
      BY <2>1, <2>5
    <3>2. r \notin 1..old
      BY <1>4, <2>2, <2>5, <3>1
    <3>3. QED
      BY <1>6, <1>8, <3>1, <3>2
  <2>6. QED
    BY <2>3, <2>4, <2>5 DEF c
<1>13. QED
  BY <1>2, <1>10, <1>11, <1>12

(* Nothing of the node has been reported that has not been read.            *)
LEMMA NotYet ==
  ASSUME IssuesOK, node \in Nat, NEW k \in Nat, i \in Nat, ~(k < i)
  PROVE  ~Reported(node, k)
<1>1. DOMAIN issues = 1..Len(issues)
  BY LenProperties DEF IssuesOK
<1>2. QED
  BY <1>1 DEF IssuesOK, Reported, Before

-----------------------------------------------------------------------------
(* Nodes *)

LEMMA NodeFacts ==
  ASSUME ShapeOK, node <= Len(tree)
  PROVE  /\ given \in Tree /\ node \in 1..Len(given) /\ Len(given) \in Nat
         /\ node \in Nat /\ i \in Nat \ {0} /\ allowed \in Nat /\ has \in SUBSET LinkAttribute
         /\ Len(tree) = Len(given) /\ tree \in Seq(WorkNode) /\ Current.kind = given[node].kind
         /\ Current \in WorkNode /\ Current.attributes \in Seq(WorkAttribute)
         /\ Len(Current.attributes) \in Nat /\ given[node].attributes = Source(node)
<1>1. Len(given) \in Nat
  BY LenProperties DEF ShapeOK
<1>2. node \in 1..Len(given) /\ Len(tree) = Len(given) /\ tree \in Seq(WorkNode)
  BY <1>1 DEF ShapeOK
<1>3. Current \in WorkNode
  BY <1>2, ElementOfSeq DEF Current
<1>4. Current.attributes \in Seq(WorkAttribute) /\ Len(Current.attributes) \in Nat
  BY <1>3, LenProperties DEF WorkNode
<1>5. QED
  BY <1>1, <1>2, <1>3, <1>4 DEF ShapeOK, Source, Current

(* A finished node stays as it is. *)
LEMMA FinishedStays ==
  ASSUME NEW n, given' = given, tree'[n] = tree[n], Clean(n) /\ Settled(n),
         \A k : Reported(n, k)' <=> Reported(n, k)
  PROVE  (Clean(n) /\ Settled(n))'
<1>1. Clean(n)'
  BY DEF Clean
<1>2. /\ \A k : FirstValid(n, k)' <=> FirstValid(n, k)
      /\ \A k : Faulty(n, k)' <=> Faulty(n, k)
  BY GivenSame
<1>3. \A k : Used(n, k)' <=> Used(n, k)
  BY DEF Used
<1>4. Settled(n)'
  BY <1>2, <1>3 DEF Settled
<1>5. QED
  BY <1>1, <1>4

-----------------------------------------------------------------------------
(* Steps *)

(* What a step has reported: of no other node anything, and of this nothing *)
(* at or behind `to'.                                                      *)
ReportsOK(to) ==
  /\ issues' \in Seq(Report) /\ InOrder'
  /\ \A r \in 1..Len(issues') :
       issues'[r].node < node \/ (issues'[r].node = node /\ issues'[r].pos < to)
  /\ \A n, k : n # node => (Reported(n, k)' <=> Reported(n, k))

(* A step that changes no more of the tree than the attributes of its node. *)
TreeStep ==
  /\ given' = given /\ tree' \in Seq(WorkNode) /\ Len(tree') = Len(tree)
  /\ tree'[node].kind = tree[node].kind
  /\ \A m \in 1..Len(tree) : m # node => tree'[m] = tree[m]

LEMMA LoopStep ==
  ASSUME IInv, node <= Len(tree), Current.kind = "link", TreeStep, ReportsOK(i + 1),
         node' = node, i' = i + 1, allowed' \in Nat, has' \in SUBSET LinkAttribute,
         LinkFits(node, tree'[node].attributes, i + 1, allowed', has'),
         \A n, k : n = node /\ k \in 1..i => (Reported(n, k)' <=> Faulty(n, k))
  PROVE  IInv'
<1>1. /\ given \in Tree /\ node \in 1..Len(given) /\ Len(given) \in Nat
      /\ node \in Nat /\ i \in Nat \ {0} /\ allowed \in Nat /\ has \in SUBSET LinkAttribute
      /\ Len(tree) = Len(given) /\ Current.kind = given[node].kind
  BY NodeFacts DEF IInv
<1>2. ShapeOK'
  <2>1. i + 1 \in Nat \ {0}
    BY <1>1
  <2>2. ASSUME NEW n \in 1..Len(given)
        PROVE  tree'[n].kind = given[n].kind /\ (node < n => tree'[n] = given[n])
    <3>1. CASE n = node
      BY <1>1, <3>1 DEF TreeStep, Current
    <3>2. CASE n # node
      BY <1>1, <3>2 DEF TreeStep, IInv, ShapeOK
    <3>3. QED
      BY <3>1, <3>2
  <2>3. QED
    BY <1>1, <2>1, <2>2 DEF ShapeOK, IInv, TreeStep
<1>3. FinishedOK'
  <2>1. ASSUME NEW n \in 1..Len(given), n < node PROVE (Clean(n) /\ Settled(n))'
    <3>1. Clean(n) /\ Settled(n)
      BY <2>1 DEF IInv, FinishedOK, Before
    <3>2. n # node /\ given' = given /\ tree'[n] = tree[n]
      BY <1>1, <2>1 DEF TreeStep
    <3>3. \A k : Reported(n, k)' <=> Reported(n, k)
      BY <3>2 DEF ReportsOK
    <3>4. QED
      BY <3>1, <3>2, <3>3, FinishedStays
  <2>2. QED
    BY <2>1 DEF FinishedOK, Before, TreeStep
<1>4. IssuesOK'
  BY DEF IssuesOK, ReportsOK, Before
<1>5. LinkOK'
  <2>1. LinkFits(node, Current.attributes, i, allowed, has)'
    <3>1. given' = given
      BY DEF TreeStep
    <3>2. QED
      BY <3>1, FitsSame DEF Current
  <2>2. \A k \in 1..(i' - 1) : Reported(node, k)' <=> Faulty(node, k)'
    <3>1. ASSUME NEW k PROVE Faulty(node, k)' <=> Faulty(node, k)
      BY GivenSame DEF TreeStep
    <3>2. ASSUME NEW k \in 1..(i' - 1) PROVE Reported(node, k)' <=> Faulty(node, k)
      <4>1. k \in 1..i
        BY <1>1
      <4>2. QED
        BY <4>1
    <3>3. QED
      BY <3>1, <3>2
  <2>3. QED
    BY <2>1, <2>2 DEF LinkOK
<1>6. QED
  BY <1>1, <1>2, <1>3, <1>4, <1>5 DEF IInv, TreeStep

LEMMA NodeStep ==
  ASSUME IInv, node <= Len(tree), TreeStep, NEW to, ReportsOK(to), NextNode,
         \A n : n = node => (Clean(n) /\ Settled(n))'
  PROVE  IInv'
<1>1. /\ given \in Tree /\ node \in 1..Len(given) /\ Len(given) \in Nat
      /\ node \in Nat /\ i \in Nat \ {0} /\ allowed \in Nat /\ has \in SUBSET LinkAttribute
      /\ Len(tree) = Len(given)
  BY NodeFacts DEF IInv
<1>2. given' = given /\ node' = node + 1 /\ i' = 1 /\ allowed' = 0 /\ has' = {}
  BY DEF NextNode
<1>3. ASSUME NEW n \in 1..Len(given)
      PROVE  tree'[n].kind = given[n].kind /\ (node < n => tree'[n] = given[n])
  <2>1. CASE n = node
    BY <1>1, <2>1 DEF TreeStep, IInv, ShapeOK
  <2>2. CASE n # node
    BY <1>1, <2>2 DEF TreeStep, IInv, ShapeOK
  <2>3. QED
    BY <2>1, <2>2
<1>4. ShapeOK'
  <2>1. node + 1 \in 1..(Len(given) + 1) /\ \A n \in 1..Len(given) : node + 1 < n => node < n
    BY <1>1
  <2>2. QED
    BY <1>1, <1>2, <1>3, <2>1 DEF ShapeOK, IInv, TreeStep
<1>5. FinishedOK'
  <2>1. ASSUME NEW n \in 1..Len(given), n < node PROVE (Clean(n) /\ Settled(n))'
    <3>1. Clean(n) /\ Settled(n)
      BY <2>1 DEF IInv, FinishedOK, Before
    <3>2. n # node /\ given' = given /\ tree'[n] = tree[n]
      BY <1>1, <2>1 DEF TreeStep
    <3>3. \A k : Reported(n, k)' <=> Reported(n, k)
      BY <3>2 DEF ReportsOK
    <3>4. QED
      BY <3>1, <3>2, <3>3, FinishedStays
  <2>2. ASSUME NEW n \in 1..Len(given), n < node' PROVE (Clean(n) /\ Settled(n))'
    <3>1. n = node \/ n < node
      BY <1>1, <1>2, <2>2
    <3>2. QED
      BY <2>1, <3>1
  <2>3. QED
    BY <1>2, <2>2 DEF FinishedOK, Before
<1>6. IssuesOK'
  <2>1. ASSUME NEW r \in 1..Len(issues') PROVE issues'[r].node < node'
    <3>1. issues'[r].node <= node /\ issues'[r].node \in Nat
      <4>1. issues'[r] \in Report
        BY ElementOfSeq DEF ReportsOK
      <4>2. issues'[r].node \in Nat
        BY <4>1 DEF Report
      <4>3. QED
        BY <1>1, <4>2 DEF ReportsOK
    <3>2. QED
      BY <1>1, <1>2, <3>1
  <2>2. QED
    BY <2>1 DEF IssuesOK, ReportsOK, Before
<1>7. ASSUME node' <= Len(given)
      PROVE  IF given[node'].kind = "link" THEN LinkOK' ELSE PlainOK'
  <2>1. /\ node' \in 1..Len(given) /\ tree'[node'] = given[node']
        /\ given[node'].attributes = Source(node)'
    <3>1. node' \in 1..Len(given) /\ node < node'
      BY <1>1, <1>2, <1>7
    <3>2. QED
      BY <1>2, <1>3, <3>1 DEF Source
  <2>2. PlainOK'
    BY <1>2, <2>1 DEF PlainOK, Current
  <2>3. \A n \in 1..Len(given) : LinkFits(n, Source(n), 1, 0, {})'
    <3>1. ASSUME NEW n \in 1..Len(given) PROVE LinkFits(n, Source(n), 1, 0, {})'
      BY <1>1, <1>2, StartFits, FitsSame, GivenSame
    <3>2. QED
      BY <3>1
  <2>4. LinkFits(node, Current.attributes, i, allowed, has)'
    <3>1. Current.attributes' = Source(node)'
      BY <2>1 DEF Current
    <3>2. QED
      BY <1>2, <2>1, <2>3, <3>1
  <2>5. \A k \in 1..(i' - 1) : FALSE
    BY <1>2
  <2>6. LinkOK'
    BY <2>4, <2>5 DEF LinkOK
  <2>7. QED
    BY <2>2, <2>6
<1>8. QED
  BY <1>2, <1>4, <1>5, <1>6, <1>7 DEF IInv

(* The attribute that is looked at: the one that was given, or the rel.     *)
LEMMA HereFacts ==
  ASSUME IInv, Reading
  PROVE  /\ given \in Tree /\ node \in 1..Len(given) /\ i \in 1..Len(Source(node))
         /\ node <= Len(tree) /\ Current.kind = "link" /\ i \in Nat /\ node \in Nat
         /\ allowed \in Nat /\ has \in SUBSET LinkAttribute
         /\ LinkFits(node, Current.attributes, i, allowed, has)
         /\ \A k \in 1..(i - 1) : Reported(node, k) <=> Faulty(node, k)
         /\ Ahead(node, i) => Here = Rel
         /\ ~Ahead(node, i) => Here = Source(node)[i]
         /\ Repetition(node, i) <=> Source(node)[i].name \in has
         /\ i \in Overwritten(node) <=> Ahead(node, i)
         /\ ~Reported(node, i)
<1>1. /\ given \in Tree /\ node \in 1..Len(given) /\ i \in Nat \ {0} /\ node \in Nat
      /\ allowed \in Nat /\ has \in SUBSET LinkAttribute /\ node <= Len(tree)
      /\ Len(tree) = Len(given) /\ Current.kind = given[node].kind
      /\ given[node].attributes = Source(node) /\ Current.kind = "link"
  BY NodeFacts DEF IInv, Reading, Visiting
<1>2. LinkOK
  <2>1. node <= Len(given) /\ given[node].kind = "link"
    BY <1>1
  <2>2. QED
    BY <2>1 DEF IInv
<1>3. i \in 1..Len(Source(node))
  BY <1>1, GivenFacts DEF Reading
<1>4. LinkFits(node, Current.attributes, i, allowed, has)
  BY <1>2 DEF LinkOK
<1>5. /\ Ahead(node, i) => Current.attributes[i] = Rel
      /\ ~Ahead(node, i) => Current.attributes[i] = Source(node)[i]
  BY <1>1, <1>3, <1>4, NextIs
<1>6. Repetition(node, i) <=> Source(node)[i].name \in has
  <2>1. Names(node, i, has)
    BY <1>4 DEF LinkFits
  <2>2. QED
    BY <1>1, <1>3, <2>1, NamesSay
<1>7. i \in Overwritten(node) <=> Ahead(node, i)
  BY <1>1, <1>3, OverwrittenIs
<1>8. ~Reported(node, i)
  BY <1>1, NotYet DEF IInv
<1>9. QED
  BY <1>1, <1>2, <1>3, <1>4, <1>5, <1>6, <1>7, <1>8 DEF LinkOK, Here

LEMMA NothingReported ==
  ASSUME IInv, node <= Len(tree), issues' = issues
  PROVE  /\ ReportsOK(i + 1) /\ ReportsOK(i)
         /\ \A n, k : Reported(n, k)' <=> Reported(n, k)
<1>1. IssuesOK /\ i \in Nat
  BY NodeFacts DEF IInv
<1>2. \A n, k : Reported(n, k)' <=> Reported(n, k)
  BY DEF Reported
<1>3. InOrder'
  BY <1>1 DEF IssuesOK, InOrder
<1>4. \A r \in 1..Len(issues) : issues[r] \in Report
  BY <1>1, ElementOfSeq DEF IssuesOK
<1>5. \A r \in 1..Len(issues) : issues[r].pos \in Nat
  BY <1>4 DEF Report
<1>6. QED
  BY <1>1, <1>2, <1>3, <1>5 DEF ReportsOK, IssuesOK, Before

LEMMA Unmoved ==
  ASSUME IInv, node <= Len(tree), given' = given, tree' = tree
  PROVE  TreeStep
  BY NodeFacts DEF TreeStep, IInv

LEMMA SkipStep ==
  ASSUME IInv, SkipAttribute
  PROVE  IInv'
<1>1. /\ Reading /\ ~Wanted(Here) /\ i' = i + 1
      /\ given' = given /\ tree' = tree /\ node' = node
      /\ allowed' = allowed /\ has' = has /\ issues' = issues
  BY DEF SkipAttribute
<1>2. /\ given \in Tree /\ node \in 1..Len(given) /\ i \in 1..Len(Source(node))
      /\ node <= Len(tree) /\ Current.kind = "link" /\ i \in Nat /\ node \in Nat
      /\ allowed \in Nat /\ has \in SUBSET LinkAttribute
      /\ LinkFits(node, Current.attributes, i, allowed, has)
      /\ \A k \in 1..(i - 1) : Reported(node, k) <=> Faulty(node, k)
      /\ Ahead(node, i) => Here = Rel
      /\ ~Ahead(node, i) => Here = Source(node)[i]
      /\ Repetition(node, i) <=> Source(node)[i].name \in has
      /\ i \in Overwritten(node) <=> Ahead(node, i)
      /\ ~Reported(node, i)
  BY <1>1, HereFacts
<1>3. LinkFits(node, Current.attributes, i + 1, allowed, has)
  <2>1. Current.attributes[i].name \notin LinkAttribute \ has
    BY <1>1 DEF Wanted, Here
  <2>2. QED
    BY <1>2, <2>1, SkipFits
<1>4. ~Faulty(node, i)
  BY <1>1, <1>2 DEF Faulty, Wanted, Source
<1>5. ReportsOK(i + 1) /\ \A n, k : Reported(n, k)' <=> Reported(n, k)
  BY <1>1, <1>2, NothingReported
<1>6. ASSUME NEW k \in 1..i PROVE Reported(node, k) <=> Faulty(node, k)
  <2>1. k \in 1..(i - 1) \/ k = i
    BY <1>2
  <2>2. QED
    BY <1>2, <1>4, <2>1
<1>7. \A n, k : n = node /\ k \in 1..i => (Reported(n, k)' <=> Faulty(n, k))
  BY <1>5, <1>6
<1>8. TreeStep
  BY <1>1, <1>2, Unmoved
<1>9. LinkFits(node, tree'[node].attributes, i + 1, allowed', has')
  BY <1>1, <1>3 DEF Current
<1>10. QED
  BY <1>1, <1>2, <1>5, <1>7, <1>8, <1>9, LoopStep

LEMMA RefuseStep ==
  ASSUME IInv, RefuseAttribute
  PROVE  IInv'
<1> DEFINE e    == Issue("ATTRIBUTE_INVALID_PAYLOAD", node, Here)
           more == <<e>>
<1>1. /\ Reading /\ Wanted(Here) /\ ~Valid(Here) /\ i' = i + 1
      /\ given' = given /\ tree' = tree /\ node' = node
      /\ allowed' = allowed /\ has' = has /\ issues' = Append(issues, e)
  BY DEF RefuseAttribute
<1>2. /\ given \in Tree /\ node \in 1..Len(given) /\ i \in 1..Len(Source(node))
      /\ node <= Len(tree) /\ Current.kind = "link" /\ i \in Nat /\ node \in Nat
      /\ allowed \in Nat /\ has \in SUBSET LinkAttribute
      /\ LinkFits(node, Current.attributes, i, allowed, has)
      /\ \A k \in 1..(i - 1) : Reported(node, k) <=> Faulty(node, k)
      /\ Ahead(node, i) => Here = Rel
      /\ ~Ahead(node, i) => Here = Source(node)[i]
      /\ Repetition(node, i) <=> Source(node)[i].name \in has
      /\ i \in Overwritten(node) <=> Ahead(node, i)
      /\ ~Reported(node, i)
  BY <1>1, HereFacts
<1>3. LinkFits(node, Current.attributes, i + 1, allowed, has)
  <2>1. ~Valid(Current.attributes[i])
    BY <1>1 DEF Here
  <2>2. QED
    BY <1>2, <2>1, SkipFits
<1>4. ~Ahead(node, i)
  BY <1>1, <1>2, RelFacts DEF Wanted
<1>5. Here = Source(node)[i] /\ Here.pos = i
  BY <1>2, <1>4, GivenFacts
<1>6. Faulty(node, i)
  BY <1>1, <1>2, <1>4, <1>5 DEF Faulty, Wanted, Source
<1>7. e \in Report /\ e.node = node /\ e.pos = i
  BY <1>2, <1>5 DEF Report, Issue
<1> HIDE DEF e
<1>8. IssuesOK /\ issues' = issues \o more /\ more \in Seq(Report)
  <2>1. IssuesOK /\ issues \in Seq(Report)
    BY DEF IInv, IssuesOK
  <2>2. QED
    BY <1>1, <1>7, <2>1, AppendIsConcat
<1>9. Len(more) = 1 /\ more[1] = e /\ \A m \in 1..Len(more) : m = 1
  OBVIOUS
<1> HIDE DEF more
<1>10. /\ issues' \in Seq(Report) /\ InOrder'
       /\ \A r \in 1..Len(issues') :
            \/ Before(issues'[r].node)
            \/ issues'[r].node = node /\ issues'[r].pos < i
            \/ \E m \in 1..Len(more) : issues'[r] = more[m]
       /\ \A n, k : Reported(n, k)' <=>
            Reported(n, k) \/ \E m \in 1..Len(more) : n = node /\ k = more[m].pos
  <2>1. /\ \A m \in 1..Len(more) : more[m].node = node /\ more[m].pos >= i
        /\ \A l, m \in 1..Len(more) : l < m => more[l].pos < more[m].pos
    BY <1>2, <1>7, <1>9
  <2>2. QED
    BY <1>2, <1>8, <2>1, IssuesGrow
<1>11. \A n, k : Reported(n, k)' <=> Reported(n, k) \/ (n = node /\ k = i)
  BY <1>7, <1>9, <1>10
<1>12. ReportsOK(i + 1)
  <2>1. ASSUME NEW r \in 1..Len(issues')
        PROVE  issues'[r].node < node \/ (issues'[r].node = node /\ issues'[r].pos < i + 1)
    <3>1. CASE issues'[r].node = node /\ issues'[r].pos < i
      <4>1. issues'[r] \in Report
        BY <1>10, ElementOfSeq
      <4>2. issues'[r].pos \in Nat
        BY <4>1 DEF Report
      <4>3. QED
        BY <1>2, <3>1, <4>2
    <3>2. CASE issues'[r] = e
      BY <1>2, <1>7, <3>2
    <3>3. QED
      BY <1>9, <1>10, <3>1, <3>2 DEF Before
  <2>2. QED
    BY <1>10, <1>11, <2>1 DEF ReportsOK
<1>13. ASSUME NEW k \in 1..i PROVE Reported(node, k) \/ k = i <=> Faulty(node, k)
  <2>1. k \in 1..(i - 1) \/ k = i
    BY <1>2
  <2>2. k \in 1..(i - 1) => k # i
    BY <1>2
  <2>3. QED
    BY <1>2, <1>6, <2>1, <2>2
<1>14. \A n, k : n = node /\ k \in 1..i => (Reported(n, k)' <=> Faulty(n, k))
  BY <1>11, <1>13
<1>15. TreeStep
  BY <1>1, <1>2, Unmoved
<1>16. LinkFits(node, tree'[node].attributes, i + 1, allowed', has')
  BY <1>1, <1>3 DEF Current
<1>17. QED
  BY <1>1, <1>2, <1>12, <1>14, <1>15, <1>16, LoopStep

(* The attributes of the node are replaced. *)
LEMMA Replaced ==
  ASSUME IInv, node <= Len(tree), given' = given, NEW x \in Seq(WorkAttribute),
         tree' = [tree EXCEPT ![node].attributes = x]
  PROVE  TreeStep /\ tree'[node].attributes = x
<1> DEFINE ms == [tree EXCEPT ![node].attributes = x]
<1>1. tree \in Seq(WorkNode) /\ node \in 1..Len(tree)
  BY NodeFacts DEF IInv
<1>2. /\ ms \in Seq(WorkNode) /\ Len(ms) = Len(tree)
      /\ ms[node].attributes = x /\ ms[node].kind = tree[node].kind
      /\ \A m \in 1..Len(tree) : m # node => ms[m] = tree[m]
  BY <1>1, AttributesSet
<1> HIDE DEF ms
<1>3. tree' = ms
  BY DEF ms
<1>4. QED
  BY <1>2, <1>3 DEF TreeStep

LEMMA AcceptStep ==
  ASSUME IInv, AcceptAttribute
  PROVE  IInv'
<1> DEFINE array  == Current.attributes
           array2 == Pushed(array, allowed, Accepted(Here))
<1>1. /\ Reading /\ Wanted(Here) /\ Valid(Here) /\ i' = i + 1
      /\ given' = given /\ node' = node /\ issues' = issues
      /\ allowed' = allowed + Len(Accepted(Here)) /\ has' = has \cup {Here.name}
  BY DEF AcceptAttribute
<1>2. tree' = [tree EXCEPT ![node].attributes = array2]
  BY DEF AcceptAttribute, Current
<1>3. /\ given \in Tree /\ node \in 1..Len(given) /\ i \in 1..Len(Source(node))
      /\ node <= Len(tree) /\ Current.kind = "link" /\ i \in Nat /\ node \in Nat
      /\ allowed \in Nat /\ has \in SUBSET LinkAttribute
      /\ LinkFits(node, Current.attributes, i, allowed, has)
      /\ \A k \in 1..(i - 1) : Reported(node, k) <=> Faulty(node, k)
      /\ Ahead(node, i) => Here = Rel
      /\ ~Ahead(node, i) => Here = Source(node)[i]
      /\ Repetition(node, i) <=> Source(node)[i].name \in has
      /\ i \in Overwritten(node) <=> Ahead(node, i)
      /\ ~Reported(node, i)
  BY <1>1, HereFacts
<1>4. array \in Seq(WorkAttribute) /\ Len(array) \in Nat /\ allowed \in 0..Len(array)
  <2>1. array \in Seq(WorkAttribute) /\ Len(array) \in Nat
    BY <1>3, NodeFacts DEF IInv
  <2>2. allowed <= Len(array)
    BY <1>3 DEF LinkFits, Place
  <2>3. QED
    BY <1>3, <2>1, <2>2
<1>5. ~Ahead(node, i)
  BY <1>1, <1>3, RelFacts DEF Wanted
<1>6. Here = Source(node)[i] /\ Here \in Attribute /\ Here = array[i]
  BY <1>3, <1>5, GivenFacts DEF Here
<1>7. /\ Accepted(Here) \in Seq(WorkAttribute) /\ Len(Accepted(Here)) \in Nat
      /\ Accepted(Here)[1] = Here
      /\ Blank(Here) => Accepted(Here)[2] = Rel
      /\ 1 \in 1..Len(Accepted(Here))
      /\ Blank(Here) => 2 \in 1..Len(Accepted(Here))
  <2>1. /\ Accepted(Here) = IF Blank(Here) THEN <<Here, Rel>> ELSE <<Here>>
        /\ Len(Accepted(Here)) = IF Blank(Here) THEN 2 ELSE 1
        /\ Accepted(Here)[1] = Here
        /\ Blank(Here) => Accepted(Here)[2] = Rel
    BY AcceptedIs
  <2>2. Here \in WorkAttribute /\ Rel \in WorkAttribute
    BY <1>6 DEF WorkAttribute
  <2>3. <<Here, Rel>> \in Seq(WorkAttribute) /\ <<Here>> \in Seq(WorkAttribute)
    BY <2>2
  <2>4. QED
    BY <2>1, <2>3
<1> DEFINE new == Accepted(Here)
<1> HIDE DEF array, new
<1>8. /\ array2 \in Seq(WorkAttribute) /\ Len(array) <= Len(array2)
      /\ allowed + Len(new) <= Len(array2)
      /\ \A k \in 1..allowed : array2[k] = array[k]
      /\ \A k \in 1..Len(new) : array2[allowed + k] = new[k]
      /\ \A k \in (allowed + Len(new) + 1)..Len(array) : array2[k] = array[k]
  <2>1. new \in Seq(WorkAttribute)
    BY <1>7 DEF new
  <2>2. array2 = Pushed(array, allowed, new)
    BY DEF new
  <2> HIDE DEF array2
  <2>3. QED
    BY ONLY <1>4, <2>1, <2>2, PushedFacts
<1> HIDE DEF array2
<1>9. Len(array2) \in Nat
  BY <1>8, LenProperties
<1>10. Grown(array, array2, allowed, Here)
  BY <1>7, <1>8 DEF Grown, new
<1>11. LinkFits(node, array2, i + 1, allowed + Len(Accepted(Here)), has \cup {Here.name})
  <2>1. LinkFits(node, array, i, allowed, has)
    BY <1>3 DEF array
  <2>2. Here.name \in LinkAttribute \ has
    BY <1>1 DEF Wanted
  <2>3. array[i].name \in LinkAttribute \ has /\ Valid(array[i])
        /\ Grown(array, array2, allowed, array[i])
    BY <1>1, <1>6, <1>10, <2>2
  <2>4. LinkFits(node, array2, i + 1, allowed + Len(Accepted(array[i])), has \cup {array[i].name})
    BY <1>3, <1>4, <1>9, <2>1, <2>3, AcceptFits
  <2>5. QED
    BY <1>6, <2>4
<1>12. TreeStep /\ tree'[node].attributes = array2
  BY <1>1, <1>2, <1>3, <1>8, Replaced
<1>13. ReportsOK(i + 1) /\ \A n, k : Reported(n, k)' <=> Reported(n, k)
  BY <1>1, <1>3, NothingReported
<1>14. ~Faulty(node, i)
  BY <1>1, <1>6 DEF Faulty, Source
<1>15. ASSUME NEW k \in 1..i PROVE Reported(node, k) <=> Faulty(node, k)
  <2>1. k \in 1..(i - 1) \/ k = i
    BY <1>3
  <2>2. QED
    BY <1>3, <1>14, <2>1
<1>16. \A n, k : n = node /\ k \in 1..i => (Reported(n, k)' <=> Faulty(n, k))
  BY <1>13, <1>15
<1>17. allowed' \in Nat /\ has' \in SUBSET LinkAttribute
  <2>1. allowed + Len(Accepted(Here)) \in Nat /\ has \cup {Here.name} \in SUBSET LinkAttribute
    BY <1>1, <1>3, <1>7 DEF Wanted
  <2>2. QED
    BY <1>1, <2>1
<1>18. LinkFits(node, tree'[node].attributes, i + 1, allowed', has')
  BY <1>1, <1>11, <1>12
<1>19. QED
  BY <1>1, <1>3, <1>12, <1>13, <1>16, <1>17, <1>18, LoopStep

LEMMA FinishStep ==
  ASSUME IInv, FinishLink
  PROVE  IInv'
<1> DEFINE array == Current.attributes
           out   == SubSeq(array, 1, allowed)
           last  == Len(Source(node))
<1>1. Visiting({"link"}) /\ ~Reading /\ NextNode /\ issues' = issues /\ given' = given
  BY DEF FinishLink, NextNode
<1>2. tree' = [tree EXCEPT ![node].attributes = out]
  BY DEF FinishLink, Current
<1>3. /\ given \in Tree /\ node \in 1..Len(given) /\ node <= Len(tree) /\ node \in Nat
      /\ i \in Nat \ {0} /\ allowed \in Nat /\ has \in SUBSET LinkAttribute
      /\ Len(tree) = Len(given) /\ Current.kind = given[node].kind
      /\ given[node].attributes = Source(node) /\ Current.kind = "link"
      /\ array \in Seq(WorkAttribute) /\ Len(array) \in Nat
  BY <1>1, NodeFacts DEF IInv, Visiting
<1>4. LinkOK
  <2>1. node <= Len(given) /\ given[node].kind = "link"
    BY <1>3
  <2>2. QED
    BY <2>1 DEF IInv
<1>5. LinkFits(node, array, i, allowed, has)
      /\ \A k \in 1..(i - 1) : Reported(node, k) <=> Faulty(node, k)
  BY <1>4 DEF LinkOK
<1>6. last \in Nat /\ DOMAIN Source(node) = 1..last
      /\ \A k \in 1..last : Source(node)[k] \in Attribute
  BY <1>3, GivenFacts
<1>7. Done(node, i, has)
  <2>1. i <= last + 1
    BY <1>5 DEF LinkFits, Place
  <2>2. ~(i <= last) \/ has = LinkAttribute
    BY <1>1, <1>3 DEF Reading, AllAreThere
  <2>3. QED
    BY <1>3, <1>6, <2>1, <2>2 DEF Done
<1>8. out \in Seq(WorkAttribute) /\ Len(out) = allowed /\ \A m \in 1..allowed : out[m] = array[m]
  <2>1. allowed <= Len(array)
    BY <1>5 DEF LinkFits, Place
  <2>2. \A k \in 1..Len(array) : array[k] \in WorkAttribute
    BY <1>3, ElementOfSeq
  <2>3. \A k \in 1..allowed : array[k] \in WorkAttribute
    BY <1>3, <2>1, <2>2
  <2>4. 1 \in Int /\ allowed \in Int /\ allowed \in Nat
    BY <1>3
  <2> HIDE DEF array
  <2>5. /\ out \in Seq(WorkAttribute)
        /\ Len(out) = IF 1 <= allowed THEN allowed - 1 + 1 ELSE 0
        /\ \A k \in 1..(allowed - 1 + 1) : out[k] = array[1 + k - 1]
    BY ONLY <2>3, <2>4, SubSeqProperties
  <2> HIDE DEF out
  <2>6. QED
    BY ONLY <2>4, <2>5
<1> HIDE DEF out, array
<1>9. DOMAIN out = 1..allowed
  BY <1>8, LenProperties
<1>10. /\ \A k, l \in 1..allowed : out[k].name = out[l].name => k = l
       /\ \A k \in 1..allowed :
            IF out[k] = Rel
            THEN k > 1 /\ out[k - 1].name = "target" /\ out[k - 1].value = "_blank"
            ELSE /\ out[k].name \in LinkAttribute
                 /\ out[k] = Source(node)[out[k].pos] /\ Valid(out[k])
                 /\ out[k].value = "_blank" => k < allowed /\ out[k + 1] = Rel
       /\ \A k \in 1..last : (\E m \in 1..allowed : out[m].pos = k) <=> FirstValid(node, k)
       /\ \A k \in 1..last : ~(k < i) => ~Faulty(node, k)
  <2>1. Begins(out, array, allowed)
    BY <1>8 DEF Begins
  <2>2. QED
    BY <1>3, <1>5, <1>7, <2>1, FinishFits
<1>11. TreeStep /\ tree'[node].attributes = out
  BY <1>1, <1>2, <1>3, <1>8, Replaced
<1>12. ReportsOK(i) /\ \A n, k : Reported(n, k)' <=> Reported(n, k)
  BY <1>1, <1>3, NothingReported
<1>13. tree'[node].kind = "link"
  BY <1>3, <1>11 DEF TreeStep, Current
<1>14. ASSUME NEW k \in 1..last PROVE Reported(node, k) <=> Faulty(node, k)
  <2>1. CASE k < i
    <3>1. k \in 1..(i - 1)
      BY <1>3, <2>1
    <3>2. QED
      BY <1>5, <3>1
  <2>2. CASE ~(k < i)
    <3>1. ~Reported(node, k)
      BY <1>3, <2>2, NotYet DEF IInv
    <3>2. QED
      BY <1>10, <2>2, <3>1
  <2>3. QED
    BY <2>1, <2>2
<1>15. ASSUME NEW n, n = node PROVE (Clean(n) /\ Settled(n))'
  <2>1. Clean(n)'
    <3>1. tree'[n].attributes = out /\ tree'[n].kind = "link" /\ given'[n].attributes = Source(node)
      BY <1>1, <1>3, <1>11, <1>13, <1>15
    <3>2. QED
      BY <1>8, <1>9, <1>10, <3>1 DEF Clean
  <2>2. \A k : (FirstValid(n, k)' <=> FirstValid(n, k)) /\ (Faulty(n, k)' <=> Faulty(n, k))
    BY <1>1, GivenSame
  <2>3. ASSUME NEW k \in 1..last
        PROVE  (Used(n, k)' <=> FirstValid(n, k)') /\ (Reported(n, k)' <=> Faulty(n, k)')
    <3>1. Used(n, k)' <=> \E m \in 1..allowed : out[m].pos = k
      BY <1>9, <1>11, <1>15 DEF Used
    <3>2. FirstValid(n, k) <=> \E m \in 1..allowed : out[m].pos = k
      BY <1>10, <1>15
    <3>3. Reported(n, k) <=> Faulty(n, k)
      BY <1>14, <1>15
    <3>4. QED
      BY <1>12, <2>2, <3>1, <3>2, <3>3
  <2>4. Settled(n)'
    <3>1. tree'[n].kind = "link" /\ DOMAIN given'[n].attributes = 1..last
      BY <1>1, <1>3, <1>6, <1>13, <1>15
    <3>2. QED
      BY <2>3, <3>1 DEF Settled
  <2>5. QED
    BY <2>1, <2>4
<1>16. QED
  BY <1>1, <1>3, <1>11, <1>12, <1>15, NodeStep

LEMMA StripStep ==
  ASSUME IInv, StripNode
  PROVE  IInv'
<1> DEFINE last == Len(Source(node))
           more == [k \in 1..last |-> Issue("ATTRIBUTE_NOT_ALLOWED", node, Source(node)[k])]
<1>1. Visiting({"text", "simple"}) /\ NextNode /\ given' = given
  BY DEF StripNode, NextNode
<1>2. /\ given \in Tree /\ node \in 1..Len(given) /\ node <= Len(tree) /\ node \in Nat
      /\ Len(tree) = Len(given) /\ Current.kind = given[node].kind /\ Current.kind # "link"
      /\ given[node].attributes = Source(node)
  BY <1>1, NodeFacts DEF IInv, Visiting
<1>3. i = 1 /\ Current = given[node]
  <2>1. node <= Len(given) /\ given[node].kind # "link"
    BY <1>2
  <2>2. QED
    BY <2>1 DEF IInv, PlainOK
<1>4. /\ last \in Nat /\ DOMAIN Source(node) = 1..last
      /\ \A k \in 1..last : Source(node)[k] \in Attribute /\ Source(node)[k].pos = k
  BY <1>2, GivenFacts
<1>5. issues' = issues \o more
  BY <1>2, <1>3, <1>4 DEF StripNode
<1> HIDE DEF last
<1>6. \A k \in 1..last : more[k] \in Report /\ more[k].node = node /\ more[k].pos = k
  BY <1>2, <1>4 DEF Issue, Report
<1>7. more \in Seq(Report) /\ Len(more) = last
  <2>1. more \in [1..last -> Report]
    BY <1>6
  <2> HIDE DEF more
  <2>2. QED
    BY <1>4, <2>1, SeqDef, LenProperties
<1> HIDE DEF more
<1>8. /\ issues' \in Seq(Report) /\ InOrder'
      /\ \A r \in 1..Len(issues') :
           \/ Before(issues'[r].node)
           \/ issues'[r].node = node /\ issues'[r].pos < i
           \/ \E m \in 1..Len(more) : issues'[r] = more[m]
      /\ \A n, k : Reported(n, k)' <=>
           Reported(n, k) \/ \E m \in 1..Len(more) : n = node /\ k = more[m].pos
  <2>1. /\ \A m \in 1..Len(more) : more[m].node = node /\ more[m].pos >= i
        /\ \A l, m \in 1..Len(more) : l < m => more[l].pos < more[m].pos
    BY <1>3, <1>6, <1>7
  <2>2. IssuesOK /\ i \in Nat
    BY <1>3 DEF IInv
  <2>3. QED
    BY <1>2, <1>5, <1>7, <2>1, <2>2, IssuesGrow
<1>9. ReportsOK(last + 1)
  <2>1. ASSUME NEW r \in 1..Len(issues')
        PROVE  issues'[r].node < node \/ (issues'[r].node = node /\ issues'[r].pos < last + 1)
    <3>1. CASE issues'[r].node = node /\ issues'[r].pos < i
      <4>1. issues'[r] \in Report
        BY <1>8, ElementOfSeq
      <4>2. issues'[r].pos \in Nat
        BY <4>1 DEF Report
      <4>3. QED
        BY <1>3, <1>4, <3>1, <4>2
    <3>2. ASSUME NEW m \in 1..last, issues'[r] = more[m]
          PROVE  issues'[r].node = node /\ issues'[r].pos < last + 1
      BY <1>4, <1>6, <3>2
    <3>3. QED
      BY <1>7, <1>8, <3>1, <3>2 DEF Before
  <2>2. \A n, k : n # node => (Reported(n, k)' <=> Reported(n, k))
    BY <1>8
  <2>3. QED
    BY <1>8, <2>1, <2>2 DEF ReportsOK
<1>10. <<>> \in Seq(WorkAttribute)
  OBVIOUS
<1>11. TreeStep /\ tree'[node].attributes = <<>>
  <2>1. tree' = [tree EXCEPT ![node].attributes = <<>>]
    BY DEF StripNode
  <2>2. QED
    BY <1>1, <1>2, <1>10, <2>1, Replaced
<1>12. tree'[node].kind # "link"
  BY <1>2, <1>11 DEF TreeStep, Current
<1>13. ASSUME NEW n, n = node PROVE (Clean(n) /\ Settled(n))'
  <2>1. Clean(n)'
    <3>1. tree'[n].attributes = <<>> /\ DOMAIN tree'[n].attributes = {}
      BY <1>11, <1>13
    <3>2. QED
      BY <3>1 DEF Clean
  <2>2. ASSUME NEW k \in 1..last PROVE Reported(n, k)'
    BY <1>6, <1>7, <1>8, <1>13
  <2>3. Settled(n)'
    <3>1. tree'[n].kind # "link" /\ DOMAIN given'[n].attributes = 1..last
      BY <1>1, <1>2, <1>4, <1>12, <1>13 DEF last
    <3>2. QED
      BY <2>2, <3>1 DEF Settled
  <2>4. QED
    BY <2>1, <2>3
<1>14. QED
  BY <1>1, <1>2, <1>9, <1>11, <1>13, NodeStep

LEMMA InitHolds ==
  ASSUME Init
  PROVE  IInv
<1>1. /\ given \in Tree /\ tree = given /\ node = 1 /\ i = 1 /\ allowed = 0 /\ has = {}
      /\ issues = <<>>
  BY DEF Init
<1>2. given \in Seq(Node) /\ Len(given) \in Nat
  BY <1>1, SmlAssumption, LenProperties
<1>3. Node \subseteq WorkNode
  <2>1. Seq(Attribute) \subseteq Seq(WorkAttribute)
    BY DEF WorkAttribute
  <2>2. QED
    BY <2>1 DEF Node, WorkNode
<1>4. tree \in Seq(WorkNode)
  BY <1>1, <1>2, <1>3, SeqMonotonic
<1>5. ShapeOK
  BY <1>1, <1>2, <1>4 DEF ShapeOK
<1>6. FinishedOK
  BY <1>1 DEF FinishedOK, Before
<1>7. IssuesOK
  BY <1>1 DEF IssuesOK, InOrder
<1>8. ASSUME 1 <= Len(given)
      PROVE  LinkOK /\ PlainOK
  <2>1. 1 \in 1..Len(given) /\ Current.attributes = Source(1)
    BY <1>1, <1>2, <1>8 DEF Current, Source
  <2>2. LinkFits(1, Source(1), 1, 0, {})
    BY <1>1, <2>1, StartFits
  <2>3. \A k \in 1..(i - 1) : FALSE
    BY <1>1
  <2>4. QED
    BY <1>1, <2>1, <2>2, <2>3 DEF LinkOK, PlainOK, Current
<1>9. QED
  BY <1>1, <1>5, <1>6, <1>7, <1>8 DEF IInv

LEMMA NextHolds ==
  ASSUME IInv, [Next]_vars
  PROVE  IInv'
<1>1. CASE Next
  BY <1>1, StripStep, SkipStep, RefuseStep, AcceptStep, FinishStep DEF Next
<1>2. CASE UNCHANGED vars
  <2>1. /\ given' = given /\ tree' = tree /\ node' = node /\ i' = i
        /\ allowed' = allowed /\ has' = has /\ issues' = issues
    BY <1>2 DEF vars
  <2>2. \A n, k : Reported(n, k)' <=> Reported(n, k)
    BY <2>1 DEF Reported
  <2>3. ShapeOK'
    BY <2>1 DEF IInv, ShapeOK
  <2>4. FinishedOK'
    <3>1. ASSUME NEW n \in 1..Len(given), Before(n) PROVE (Clean(n) /\ Settled(n))'
      BY <2>1, <2>2, <3>1, FinishedStays DEF IInv, FinishedOK
    <3>2. QED
      BY <2>1, <3>1 DEF FinishedOK, Before
  <2>5. IssuesOK'
    BY <2>1 DEF IInv, IssuesOK, InOrder, Before
  <2>6. LinkOK => LinkOK'
    <3>1. SUFFICES ASSUME LinkOK PROVE LinkOK'
      OBVIOUS
    <3>2. LinkFits(node, Current.attributes, i, allowed, has)'
      BY <2>1, <3>1, FitsSame DEF LinkOK, Current
    <3>3. ASSUME NEW k \in 1..(i - 1) PROVE Reported(node, k)' <=> Faulty(node, k)'
      <4>1. Faulty(node, k)' <=> Faulty(node, k)
        BY <2>1, GivenSame
      <4>2. Reported(node, k)' <=> Reported(node, k)
        BY <2>1, <2>2
      <4>3. QED
        BY <3>1, <4>1, <4>2 DEF LinkOK
    <3>4. QED
      BY <2>1, <3>2, <3>3 DEF LinkOK
  <2>7. PlainOK => PlainOK'
    BY <2>1 DEF PlainOK, Current
  <2>8. QED
    BY <2>1, <2>3, <2>4, <2>5, <2>6, <2>7 DEF IInv
<1>3. QED
  BY <1>1, <1>2

(* The array of a link that is being normalized begins with what is         *)
(* allowed, and what has not been read is still as it was given but for one *)
(* rel (link.go:103-155).                                                 *)
THEOREM NormalizeInvariant == Spec => []IInv
<1>1. Init => IInv
  BY InitHolds
<1>2. IInv /\ [Next]_vars => IInv'
  BY NextHolds
<1>3. QED
  BY <1>1, <1>2, PTL DEF Spec

(* A finished node has nothing but valid attributes that were given to it,  *)
(* no name twice, and rel with _blank, behind it and only there             *)
(* (normalizeLink, link.go:103-155), whatever the rel has overwritten.     *)
THEOREM CleanLinks == Spec => []Rendered
<1>1. IInv => Rendered
  <2>1. SUFFICES ASSUME IInv PROVE Rendered
    OBVIOUS
  <2>2. DOMAIN tree = 1..Len(given)
    BY <2>1, LenProperties DEF IInv, ShapeOK
  <2>3. QED
    BY <2>1, <2>2 DEF IInv, FinishedOK, Rendered
<1>2. QED
  BY <1>1, NormalizeInvariant, PTL

(* Of several attributes of a link with the same name the first that is     *)
(* valid is used (eater.go:31), and whatever is wrong with the others is    *)
(* reported, once, in the order in which it was written.                   *)
THEOREM FirstsKept == Spec => []FirstValidKept
<1>1. IInv => FirstValidKept
  <2>1. SUFFICES ASSUME IInv PROVE FirstValidKept
    OBVIOUS
  <2>2. DOMAIN tree = 1..Len(given)
    BY <2>1, LenProperties DEF IInv, ShapeOK
  <2>3. QED
    BY <2>1, <2>2 DEF IInv, FinishedOK, IssuesOK, FirstValidKept
<1>2. QED
  BY <1>1, NormalizeInvariant, PTL
===============================================================================
