-------------------------- MODULE ScumParserProofs --------------------------
(***************************************************************************)
(* Proofs about ScumParser: whatever the tags, the limits and the warnings *)
(* policy are, the stacks stay parallel, spans and attribute ranges stay   *)
(* inside what Serialize and Text slice, the arenas keep to their limits,  *)
(* the list of warnings is faithful, the pool gets clean states, a well    *)
(* nested input is read as such, the statistics count what the tree has,   *)
(* and a token whose node is left out is behind the warning of a limit or  *)
(* needs no node.                                                          *)
(***************************************************************************)
EXTENDS ScumParserInv, TLAPS, FiniteSetTheorems, SequenceTheorems, WellFoundedInduction

-----------------------------------------------------------------------------
(* Sequences *)

(* Front leaves out the last element, and nothing else. *)
LEMMA FrontFacts ==
  ASSUME NEW S, NEW s \in Seq(S), s # <<>>
  PROVE  /\ Len(s) \in Nat \ {0} /\ Last(s) \in S
         /\ Front(s) \in Seq(S) /\ Len(Front(s)) = Len(s) - 1
         /\ \A i \in 1..(Len(s) - 1) : Front(s)[i] = s[i]
<1>1. Len(s) \in Nat \ {0} /\ \A i \in 1..Len(s) : s[i] \in S
  BY EmptySeq, LenProperties
<1>2. Last(s) \in S
  BY <1>1 DEF Last
<1>3. \A i \in 1..(Len(s) - 1) : s[i] \in S
  BY <1>1
<1> DEFINE n == Len(s) - 1
<1>4. n \in Int /\ 1 \in Int /\ \A i \in 1..n : s[i] \in S
  BY <1>1, <1>3
<1> HIDE DEF n
<1>5. /\ SubSeq(s, 1, n) \in Seq(S)
      /\ Len(SubSeq(s, 1, n)) = (IF 1 <= n THEN n - 1 + 1 ELSE 0)
      /\ \A i \in 1..(n - 1 + 1) : SubSeq(s, 1, n)[i] = s[1 + i - 1]
  BY ONLY <1>4, SubSeqProperties
<1>6. n = Len(s) - 1 /\ Front(s) = SubSeq(s, 1, n)
  BY DEF Front, n
<1>7. QED
  BY <1>1, <1>2, <1>5, <1>6

(* The elements with a mark, when one more element comes. *)
MarkedIn(s, M) == {i \in DOMAIN s : s[i] \in M}

LEMMA CountAppended ==
  ASSUME NEW S, NEW s \in Seq(S), NEW x \in S, NEW M
  PROVE  /\ Cardinality(MarkedIn(s, M)) \in Nat
         /\ Cardinality(MarkedIn(Append(s, x), M))
              = Cardinality(MarkedIn(s, M)) + (IF x \in M THEN 1 ELSE 0)
<1> DEFINE n   == Len(s)
           t   == Append(s, x)
           old == MarkedIn(s, M)
           new == MarkedIn(t, M)
<1>1. /\ n \in Nat /\ DOMAIN s = 1..n /\ DOMAIN t = 1..(n + 1)
      /\ \A i \in 1..n : t[i] = s[i]
      /\ t[n + 1] = x
  BY AppendProperties, LenProperties
<1>2. IsFiniteSet(old) /\ n + 1 \notin old
  <2>1. old \subseteq 1..n /\ IsFiniteSet(1..n)
    BY <1>1, FS_Interval DEF MarkedIn
  <2>2. QED
    BY <1>1, <2>1, FS_Subset
<1>3. new = IF x \in M THEN old \cup {n + 1} ELSE old
  BY <1>1 DEF MarkedIn
<1>4. Cardinality(old) \in Nat
  BY <1>2, FS_CardinalityType
<1>5. IsFiniteSet(old) => Cardinality(old \cup {n + 1})
        = IF n + 1 \in old THEN Cardinality(old) ELSE Cardinality(old) + 1
  BY FS_AddElement
<1> HIDE DEF old, new
<1>6. Cardinality(new) = Cardinality(old) + (IF x \in M THEN 1 ELSE 0)
  BY <1>2, <1>3, <1>4, <1>5
<1>7. QED
  BY <1>4, <1>6 DEF old, new

-----------------------------------------------------------------------------
(* Nodes *)

(* Linking changes neither what a node is nor where its text and its        *)
(* attributes are.                                                         *)
SameNode(m, n) ==
  /\ m.type = n.type /\ m.tag = n.tag /\ m.start = n.start /\ m.end = n.end
  /\ m.attrStart = n.attrStart /\ m.attrLen = n.attrLen

Links(n, b) == n.first \in 0..b /\ n.last \in 0..b /\ n.next \in 0..b
Linked(ns, b) == \A i \in 1..Len(ns) : Links(ns[i], b)

LEMMA NodeTyped ==
  ASSUME NEW type \in {"root", "text", "tag"}, NEW tag \in Tag \cup {NoTag},
         NEW start \in Nat, NEW end \in Nat, NEW b \in Nat
  PROVE  Node(type, tag, start, end) \in NodeRecord /\ Links(Node(type, tag, start, end), b)
  BY DEF Node, NodeRecord, Links

LEMMA LinkFields ==
  ASSUME NEW n \in NodeRecord, NEW b \in Nat, Links(n, b), NEW v \in 0..b
  PROVE  /\ [n EXCEPT !.first = v] \in NodeRecord /\ SameNode([n EXCEPT !.first = v], n)
         /\ Links([n EXCEPT !.first = v], b)
         /\ [n EXCEPT !.last = v] \in NodeRecord /\ SameNode([n EXCEPT !.last = v], n)
         /\ Links([n EXCEPT !.last = v], b)
         /\ [n EXCEPT !.next = v] \in NodeRecord /\ SameNode([n EXCEPT !.next = v], n)
         /\ Links([n EXCEPT !.next = v], b)
         /\ [n EXCEPT !.kids = @ + 1] \in NodeRecord /\ SameNode([n EXCEPT !.kids = @ + 1], n)
         /\ Links([n EXCEPT !.kids = @ + 1], b)
<1>1. v \in Nat
  OBVIOUS
<1>2. [n EXCEPT !.first = v] \in NodeRecord /\ SameNode([n EXCEPT !.first = v], n)
      /\ Links([n EXCEPT !.first = v], b)
  BY <1>1 DEF NodeRecord, SameNode, Links
<1>3. [n EXCEPT !.last = v] \in NodeRecord /\ SameNode([n EXCEPT !.last = v], n)
      /\ Links([n EXCEPT !.last = v], b)
  BY <1>1 DEF NodeRecord, SameNode, Links
<1>4. [n EXCEPT !.next = v] \in NodeRecord /\ SameNode([n EXCEPT !.next = v], n)
      /\ Links([n EXCEPT !.next = v], b)
  BY <1>1 DEF NodeRecord, SameNode, Links
<1>5. [n EXCEPT !.kids = @ + 1] \in NodeRecord /\ SameNode([n EXCEPT !.kids = @ + 1], n)
      /\ Links([n EXCEPT !.kids = @ + 1], b)
  BY DEF NodeRecord, SameNode, Links
<1>6. QED
  BY <1>2, <1>3, <1>4, <1>5

(* One node is exchanged for one that differs in its links only. *)
Relinked(ms, ns, b) ==
  /\ ms \in Seq(NodeRecord) /\ Len(ms) = Len(ns) /\ Linked(ms, b)
  /\ \A i \in 1..Len(ns) : SameNode(ms[i], ns[i])

LEMMA Relink ==
  ASSUME NEW ns \in Seq(NodeRecord), NEW b \in Nat, Linked(ns, b), NEW i \in 1..Len(ns),
         NEW m \in NodeRecord, SameNode(m, ns[i]), Links(m, b)
  PROVE  Relinked([ns EXCEPT ![i] = m], ns, b)
<1> DEFINE ms == [ns EXCEPT ![i] = m]
<1>1. /\ ms \in Seq(NodeRecord) /\ Len(ms) = Len(ns)
      /\ \A j \in 1..Len(ns) : ms[j] = IF j = i THEN m ELSE ns[j]
  BY ExceptSeq
<1> HIDE DEF ms
<1>2. Linked(ms, b)
  BY <1>1 DEF Linked
<1>3. \A j \in 1..Len(ns) : SameNode(ms[j], ns[j])
  BY <1>1 DEF SameNode
<1>4. Relinked(ms, ns, b)
  BY <1>1, <1>2, <1>3 DEF Relinked
<1>5. QED
  BY <1>4 DEF ms

LEMMA RelinkField ==
  ASSUME NEW ns \in Seq(NodeRecord), NEW b \in Nat, Linked(ns, b), NEW i \in 1..Len(ns),
         NEW v \in 0..b
  PROVE  /\ Relinked([ns EXCEPT ![i].first = v], ns, b)
         /\ Relinked([ns EXCEPT ![i].last = v], ns, b)
         /\ Relinked([ns EXCEPT ![i].next = v], ns, b)
         /\ Relinked([ns EXCEPT ![i].kids = @ + 1], ns, b)
<1> DEFINE n == ns[i]
<1>1. n \in NodeRecord /\ Links(n, b)
  BY ElementOfSeq DEF Linked
<1>2. /\ [ns EXCEPT ![i].first = v] = [ns EXCEPT ![i] = [n EXCEPT !.first = v]]
      /\ [ns EXCEPT ![i].last = v]  = [ns EXCEPT ![i] = [n EXCEPT !.last = v]]
      /\ [ns EXCEPT ![i].next = v]  = [ns EXCEPT ![i] = [n EXCEPT !.next = v]]
      /\ [ns EXCEPT ![i].kids = @ + 1] = [ns EXCEPT ![i] = [n EXCEPT !.kids = @ + 1]]
  OBVIOUS
<1> HIDE DEF n
<1>3. /\ [n EXCEPT !.first = v] \in NodeRecord /\ SameNode([n EXCEPT !.first = v], n)
      /\ Links([n EXCEPT !.first = v], b)
      /\ [n EXCEPT !.last = v] \in NodeRecord /\ SameNode([n EXCEPT !.last = v], n)
      /\ Links([n EXCEPT !.last = v], b)
      /\ [n EXCEPT !.next = v] \in NodeRecord /\ SameNode([n EXCEPT !.next = v], n)
      /\ Links([n EXCEPT !.next = v], b)
      /\ [n EXCEPT !.kids = @ + 1] \in NodeRecord /\ SameNode([n EXCEPT !.kids = @ + 1], n)
      /\ Links([n EXCEPT !.kids = @ + 1], b)
  BY <1>1, LinkFields
<1>4. \A m \in NodeRecord : SameNode(m, n) /\ Links(m, b) => Relinked([ns EXCEPT ![i] = m], ns, b)
  BY Relink DEF n
<1>5. QED
  BY <1>2, <1>3, <1>4

LEMMA RelinkTwice ==
  ASSUME NEW ls, NEW ms, NEW ns, NEW b, Relinked(ms, ns, b), Relinked(ls, ms, b)
  PROVE  Relinked(ls, ns, b)
  BY DEF Relinked, SameNode

(* appendNode: what is in the arena stays where and what it is. *)
LEMMA AppendedFacts ==
  ASSUME NEW ns \in Seq(NodeRecord), Linked(ns, Len(ns)), NEW parent \in 1..Len(ns),
         NEW node \in NodeRecord, Links(node, Len(ns) + 1)
  PROVE  /\ Appended(ns, parent, node) \in Seq(NodeRecord)
         /\ Len(Appended(ns, parent, node)) = Len(ns) + 1
         /\ Linked(Appended(ns, parent, node), Len(ns) + 1)
         /\ Appended(ns, parent, node)[Len(ns) + 1] = node
         /\ \A i \in 1..Len(ns) : SameNode(Appended(ns, parent, node)[i], ns[i])
<1> DEFINE b      == Len(ns) + 1
           older  == ns[parent].last
           linked == IF older = 0 THEN [ns EXCEPT ![parent].first = b]
                     ELSE [ns EXCEPT ![older].next = b]
           counted == [linked EXCEPT ![parent].kids = @ + 1]
           closed  == [counted EXCEPT ![parent].last = b]
<1>1. Len(ns) \in Nat /\ b \in Nat /\ b \in 0..b
  BY LenProperties
<1>2. Linked(ns, b)
  <2>1. 0..Len(ns) \subseteq 0..b
    BY <1>1
  <2>2. QED
    BY <2>1 DEF Linked, Links
<1>3. older \in 0..Len(ns)
  BY DEF Linked, Links
<1>4. Relinked(linked, ns, b)
  <2> HIDE DEF b, older
  <2>1. CASE older = 0
    BY <1>1, <1>2, <2>1, RelinkField
  <2>2. CASE older # 0
    <3>1. older \in 1..Len(ns)
      BY <1>1, <1>3, <2>2
    <3>2. Relinked([ns EXCEPT ![older].next = b], ns, b)
      BY <1>1, <1>2, <3>1, RelinkField
    <3>3. QED
      BY <2>2, <3>2
  <2>3. QED
    BY <2>1, <2>2
<1>5. Appended(ns, parent, node) = Append(closed, node)
  BY DEF Appended
<1> HIDE DEF b, linked, older
<1>6. linked \in Seq(NodeRecord) /\ Linked(linked, b) /\ parent \in 1..Len(linked)
  BY <1>4 DEF Relinked
<1>7. Relinked(counted, linked, b)
  BY <1>1, <1>6, RelinkField
<1> HIDE DEF counted
<1>8. counted \in Seq(NodeRecord) /\ Linked(counted, b) /\ parent \in 1..Len(counted)
  BY <1>6, <1>7 DEF Relinked
<1>9. Relinked(closed, counted, b)
  BY <1>1, <1>8, RelinkField
<1> HIDE DEF closed
<1>10. Relinked(closed, ns, b)
  BY <1>4, <1>7, <1>9, RelinkTwice
<1>11. /\ closed \in Seq(NodeRecord) /\ Len(closed) = Len(ns) /\ Linked(closed, b)
       /\ \A i \in 1..Len(ns) : SameNode(closed[i], ns[i])
  BY <1>10 DEF Relinked
<1> DEFINE ms == Append(closed, node)
<1>12. /\ ms \in Seq(NodeRecord) /\ Len(ms) = Len(ns) + 1 /\ ms[Len(ns) + 1] = node
       /\ \A i \in 1..Len(ns) : ms[i] = closed[i]
  BY <1>11, AppendProperties
<1> HIDE DEF ms
<1>13. Linked(ms, b)
  BY <1>1, <1>11, <1>12 DEF Linked, b
<1>14. \A i \in 1..Len(ns) : SameNode(ms[i], ns[i])
  BY <1>11, <1>12
<1>15. QED
  BY <1>5, <1>12, <1>13, <1>14 DEF ms, b

(* closeTag and Finalize write the end of a node. *)
LEMMA EndFacts ==
  ASSUME NEW ns \in Seq(NodeRecord), NEW b, Linked(ns, b), NEW p \in 1..Len(ns), NEW v \in Nat
  PROVE  LET ms == [ns EXCEPT ![p].end = v]
         IN /\ ms \in Seq(NodeRecord) /\ Len(ms) = Len(ns) /\ Linked(ms, b)
            /\ \A i \in 1..Len(ns) :
                 /\ ms[i].start = ns[i].start /\ ms[i].tag = ns[i].tag
                 /\ ms[i].attrStart = ns[i].attrStart /\ ms[i].attrLen = ns[i].attrLen
                 /\ ms[i].end = IF i = p THEN v ELSE ns[i].end
<1> DEFINE n  == ns[p]
           m  == [n EXCEPT !.end = v]
           ms == [ns EXCEPT ![p] = m]
<1>1. n \in NodeRecord /\ Links(n, b)
  BY ElementOfSeq DEF Linked
<1>2. [ns EXCEPT ![p].end = v] = ms
  OBVIOUS
<1> HIDE DEF n
<1>3. m \in NodeRecord
  BY <1>1 DEF NodeRecord
<1>4. m.start = n.start /\ m.tag = n.tag /\ m.attrStart = n.attrStart /\ m.attrLen = n.attrLen
      /\ m.end = v
  BY <1>1 DEF NodeRecord
<1>5. Links(m, b)
  BY <1>1 DEF NodeRecord, Links
<1> HIDE DEF m
<1>6. /\ ms \in Seq(NodeRecord) /\ Len(ms) = Len(ns)
      /\ \A i \in 1..Len(ns) : ms[i] = IF i = p THEN m ELSE ns[i]
  BY <1>3, ExceptSeq
<1> HIDE DEF ms
<1>7. Linked(ms, b)
  BY <1>5, <1>6 DEF Linked
<1>8. \A i \in 1..Len(ns) :
        /\ ms[i].start = ns[i].start /\ ms[i].tag = ns[i].tag
        /\ ms[i].attrStart = ns[i].attrStart /\ ms[i].attrLen = ns[i].attrLen
        /\ ms[i].end = IF i = p THEN v ELSE ns[i].end
  BY <1>4, <1>6 DEF n
<1>9. QED
  BY <1>2, <1>6, <1>7, <1>8

LEMMA MoreAttributes ==
  ASSUME NEW n \in NodeRecord
  PROVE  [n EXCEPT !.attrLen = @ + 1] \in NodeRecord
<1>1. n.attrLen + 1 \in Nat
  BY DEF NodeRecord
<1> DEFINE v == n.attrLen + 1
<1> HIDE DEF v
<1>2. [n EXCEPT !.attrLen = v] \in NodeRecord
  BY <1>1 DEF NodeRecord, v
<1>3. QED
  BY <1>2 DEF v

(* appendAttribute: the node's range takes in the attribute at place. *)
LEMMA AttributeRangeFacts ==
  ASSUME NEW ns \in Seq(NodeRecord), NEW b, Linked(ns, b), NEW p \in 1..Len(ns),
         NEW place \in Nat
  PROVE  LET ms == AttributeRange(ns, p, place)
         IN /\ ms \in Seq(NodeRecord) /\ Len(ms) = Len(ns) /\ Linked(ms, b)
            /\ \A i \in 1..Len(ns) :
                 /\ ms[i].start = ns[i].start /\ ms[i].end = ns[i].end /\ ms[i].tag = ns[i].tag
                 /\ i # p => ms[i].attrStart = ns[i].attrStart /\ ms[i].attrLen = ns[i].attrLen
            /\ ms[p].attrStart = IF ns[p].attrLen = 0 THEN place ELSE ns[p].attrStart
            /\ ms[p].attrLen = ns[p].attrLen + 1
<1> DEFINE n  == ns[p]
           at == IF n.attrLen = 0 THEN place ELSE n.attrStart
           l  == [n EXCEPT !.attrStart = at]
           m  == [l EXCEPT !.attrLen = @ + 1]
           ms == [ns EXCEPT ![p] = m]
<1>1. n \in NodeRecord /\ Links(n, b)
  BY ElementOfSeq DEF Linked
<1>2. AttributeRange(ns, p, place) = ms
  BY DEF AttributeRange
<1> HIDE DEF n
<1>3. n.attrLen \in Nat /\ at \in Nat
  BY <1>1 DEF NodeRecord
<1> HIDE DEF at
<1>4. /\ l \in NodeRecord /\ Links(l, b)
      /\ l.start = n.start /\ l.end = n.end /\ l.tag = n.tag
      /\ l.attrStart = at /\ l.attrLen = n.attrLen
  BY <1>1, <1>3 DEF NodeRecord, Links
<1> HIDE DEF l
<1>5. /\ m \in NodeRecord /\ Links(m, b)
      /\ m.start = n.start /\ m.end = n.end /\ m.tag = n.tag
      /\ m.attrStart = at /\ m.attrLen = n.attrLen + 1
  <2>1. m \in NodeRecord
    BY <1>4, MoreAttributes DEF m
  <2>2. /\ m.start = l.start /\ m.end = l.end /\ m.tag = l.tag
        /\ m.first = l.first /\ m.last = l.last /\ m.next = l.next
        /\ m.attrStart = l.attrStart /\ m.attrLen = l.attrLen + 1
    BY <1>4 DEF NodeRecord
  <2>3. Links(m, b)
    BY <1>4, <2>2 DEF Links
  <2>4. QED
    BY <1>4, <2>1, <2>2, <2>3
<1> HIDE DEF m
<1>6. /\ ms \in Seq(NodeRecord) /\ Len(ms) = Len(ns)
      /\ \A i \in 1..Len(ns) : ms[i] = IF i = p THEN m ELSE ns[i]
  BY <1>5, ExceptSeq
<1> HIDE DEF ms
<1>7. Linked(ms, b)
  BY <1>5, <1>6 DEF Linked
<1>8. \A i \in 1..Len(ns) :
        /\ ms[i].start = ns[i].start /\ ms[i].end = ns[i].end /\ ms[i].tag = ns[i].tag
        /\ i # p => ms[i].attrStart = ns[i].attrStart /\ ms[i].attrLen = ns[i].attrLen
  BY <1>5, <1>6 DEF n
<1>9. /\ ms[p].attrStart = IF ns[p].attrLen = 0 THEN place ELSE ns[p].attrStart
      /\ ms[p].attrLen = ns[p].attrLen + 1
  BY <1>5, <1>6 DEF n, at
<1>10. QED
  BY <1>2, <1>6, <1>7, <1>8, <1>9

(* The arena ms is ns with new nodes behind it, that lie between low and    *)
(* high and have no attributes.                                            *)
Grows(ms, ns, low, high) ==
  /\ ms \in Seq(NodeRecord) /\ Linked(ms, Len(ms)) /\ Len(ns) <= Len(ms)
  /\ \A i \in 1..Len(ns) : SameNode(ms[i], ns[i])
  /\ \A i \in (Len(ns) + 1)..Len(ms) :
       /\ low <= ms[i].start /\ ms[i].start <= ms[i].end /\ ms[i].end <= high
       /\ ms[i].attrLen = 0

LEMMA GrowsByNone ==
  ASSUME NEW ns \in Seq(NodeRecord), Linked(ns, Len(ns)), NEW low, NEW high
  PROVE  Grows(ns, ns, low, high)
<1>1. Len(ns) \in Nat
  BY LenProperties
<1>2. QED
  BY <1>1 DEF Grows, SameNode

Between(node, low, high) ==
  low <= node.start /\ node.start <= node.end /\ node.end <= high /\ node.attrLen = 0

LEMMA GrowsByNode ==
  ASSUME NEW ns \in Seq(NodeRecord), Linked(ns, Len(ns)), NEW parent \in 1..Len(ns),
         NEW node \in NodeRecord, Links(node, Len(ns) + 1), NEW low, NEW high,
         Between(node, low, high)
  PROVE  /\ Grows(Appended(ns, parent, node), ns, low, high)
         /\ Len(Appended(ns, parent, node)) = Len(ns) + 1
         /\ Appended(ns, parent, node)[Len(ns) + 1] = node
<1> DEFINE ms == Appended(ns, parent, node)
<1>1. Len(ns) \in Nat
  BY LenProperties
<1>2. /\ ms \in Seq(NodeRecord) /\ Len(ms) = Len(ns) + 1 /\ Linked(ms, Len(ns) + 1)
      /\ ms[Len(ns) + 1] = node
      /\ \A i \in 1..Len(ns) : SameNode(ms[i], ns[i])
  BY AppendedFacts
<1> HIDE DEF ms
<1>3. Grows(ms, ns, low, high)
  <2>1. (Len(ns) + 1)..Len(ms) = {Len(ns) + 1}
    BY <1>1, <1>2
  <2>2. QED
    BY <1>1, <1>2, <2>1 DEF Grows, Between
<1>4. QED
  BY <1>2, <1>3 DEF ms

LEMMA GrowsTwice ==
  ASSUME NEW ls, NEW ms, NEW ns \in Seq(NodeRecord), NEW low, NEW high,
         Grows(ms, ns, low, high), Grows(ls, ms, low, high)
  PROVE  Grows(ls, ns, low, high)
<1>1. /\ Len(ns) \in Nat /\ Len(ms) \in Nat /\ Len(ls) \in Nat
      /\ Len(ns) <= Len(ms) /\ Len(ms) <= Len(ls)
  BY LenProperties DEF Grows
<1>2. \A i \in 1..Len(ns) : SameNode(ls[i], ns[i])
  BY <1>1 DEF Grows, SameNode
<1>3. ASSUME NEW i \in (Len(ns) + 1)..Len(ls)
      PROVE  /\ low <= ls[i].start /\ ls[i].start <= ls[i].end /\ ls[i].end <= high
             /\ ls[i].attrLen = 0
  <2>1. CASE i <= Len(ms)
    <3>1. i \in (Len(ns) + 1)..Len(ms) /\ i \in 1..Len(ms)
      BY <1>1, <2>1
    <3>2. SameNode(ls[i], ms[i]) /\ low <= ms[i].start /\ ms[i].start <= ms[i].end
          /\ ms[i].end <= high /\ ms[i].attrLen = 0
      BY <3>1 DEF Grows
    <3>3. QED
      BY <3>2 DEF SameNode
  <2>2. CASE ~(i <= Len(ms))
    <3>1. i \in (Len(ms) + 1)..Len(ls)
      BY <1>1, <2>2
    <3>2. QED
      BY <3>1 DEF Grows
  <2>3. QED
    BY <2>1, <2>2
<1>4. QED
  BY <1>1, <1>2, <1>3 DEF Grows

-----------------------------------------------------------------------------
(* Warnings *)

(* What Add leaves alone. *)
SameCollector(v, w) == v.policy = w.policy /\ v.maxWarnings = w.maxWarnings

LEMMA CollectorFields ==
  ASSUME NEW w \in Collector
  PROVE  /\ w.policy \in Policy /\ w.maxWarnings \in Nat /\ w.list \in Seq(Report)
         /\ w.overflowed \in BOOLEAN /\ w.droppedCount \in Nat /\ w.firstDropPos \in Nat
  BY DEF Collector

LEMMA ListedFacts ==
  ASSUME NEW w \in Collector, NEW x \in Report
  PROVE  LET v == Listed(w, x)
         IN /\ v \in Collector /\ SameCollector(v, w) /\ v.list = Append(w.list, x)
            /\ v.overflowed = w.overflowed /\ v.droppedCount = w.droppedCount
            /\ v.firstDropPos = w.firstDropPos
<1> DEFINE l == Append(w.list, x)
<1>1. l \in Seq(Report)
  BY AppendProperties, CollectorFields
<1>2. Listed(w, x) = [w EXCEPT !.list = l]
  BY DEF Listed
<1> HIDE DEF l
<1>3. [w EXCEPT !.list = l] \in Collector
  BY <1>1 DEF Collector
<1>4. QED
  BY <1>2, <1>3 DEF Collector, SameCollector, l

LEMMA CountedFacts ==
  ASSUME NEW w \in Collector
  PROVE  LET v == [w EXCEPT !.droppedCount = @ + 1]
         IN /\ v \in Collector /\ SameCollector(v, w) /\ v.list = w.list
            /\ v.overflowed = w.overflowed /\ v.droppedCount = w.droppedCount + 1
            /\ v.firstDropPos = w.firstDropPos
<1> DEFINE c == w.droppedCount + 1
<1>1. c \in Nat
  BY CollectorFields
<1>2. [w EXCEPT !.droppedCount = @ + 1] = [w EXCEPT !.droppedCount = c]
  OBVIOUS
<1> HIDE DEF c
<1>3. [w EXCEPT !.droppedCount = c] \in Collector
  BY <1>1 DEF Collector
<1>4. QED
  BY <1>2, <1>3 DEF Collector, SameCollector, c

LEMMA FirstOverflowFacts ==
  ASSUME NEW w \in Collector, NEW x \in Report, w.policy # "Drop"
  PROVE  LET v == FirstOverflow(w, x)
         IN /\ v \in Collector /\ SameCollector(v, w) /\ v.overflowed /\ v.firstDropPos = x.pos
            /\ v.droppedCount = 1
            /\ v.list = IF w.maxWarnings = 0 THEN w.list
                        ELSE Append(w.list, Warning("WarningsTruncated", x.pos))
<1> DEFINE a == [w EXCEPT !.overflowed = TRUE]
           u == [a EXCEPT !.firstDropPos = x.pos]
           c == [u EXCEPT !.droppedCount = 1]
           l == IF w.maxWarnings = 0 THEN w.list
                ELSE Append(w.list, Warning("WarningsTruncated", x.pos))
           v == [c EXCEPT !.list = l]
<1>1. x.pos \in Nat /\ Warning("WarningsTruncated", x.pos) \in Report
  BY DEF Report, Warning, Issue
<1>2. l \in Seq(Report)
  BY <1>1, AppendProperties, CollectorFields
<1>3. FirstOverflow(w, x) = v
  <2>1. u = [w EXCEPT !.overflowed = TRUE, !.firstDropPos = x.pos]
    OBVIOUS
  <2>2. u.list = w.list /\ u.maxWarnings = w.maxWarnings
    BY DEF Collector
  <2> DEFINE tail == IF u.maxWarnings = 0 THEN u.list
                     ELSE Append(u.list, Warning("WarningsTruncated", x.pos))
  <2>3. FirstOverflow(w, x) = [u EXCEPT !.droppedCount = 1, !.list = tail]
    <3>1. FirstOverflow(w, x) =
            [u EXCEPT !.droppedCount = 1,
                      !.list = IF w.maxWarnings = 0 THEN @
                               ELSE Append(@, Warning("WarningsTruncated", x.pos))]
      BY <2>1 DEF FirstOverflow
    <3>2. QED
      BY <3>1, <2>2
  <2>4. tail = l
    BY <2>2
  <2> HIDE DEF l, tail, u
  <2>5. QED
    BY <2>3, <2>4
<1> HIDE DEF l
<1>4. a \in Collector /\ SameCollector(a, w) /\ a.overflowed
  BY DEF Collector, SameCollector
<1> HIDE DEF a
<1>5. u \in Collector /\ SameCollector(u, w) /\ u.overflowed /\ u.firstDropPos = x.pos
  BY <1>1, <1>4 DEF Collector, SameCollector
<1> HIDE DEF u
<1>6. c \in Collector /\ SameCollector(c, w) /\ c.overflowed /\ c.firstDropPos = x.pos
      /\ c.droppedCount = 1
  BY <1>5 DEF Collector, SameCollector
<1> HIDE DEF c
<1>7. v \in Collector /\ SameCollector(v, w) /\ v.overflowed /\ v.firstDropPos = x.pos
      /\ v.droppedCount = 1 /\ v.list = l
  BY <1>2, <1>6 DEF Collector, SameCollector
<1>8. QED
  BY <1>3, <1>7 DEF l

LEMMA FirstDropFacts ==
  ASSUME NEW w \in Collector, NEW x \in Report, w.policy = "Drop"
  PROVE  LET v == FirstOverflow(w, x)
         IN /\ v \in Collector /\ SameCollector(v, w) /\ v.overflowed /\ v.firstDropPos = x.pos
            /\ v.list = w.list
<1> DEFINE a == [w EXCEPT !.overflowed = TRUE]
           u == [a EXCEPT !.firstDropPos = x.pos]
<1>1. x.pos \in Nat
  BY DEF Report
<1>2. FirstOverflow(w, x) = u
  BY DEF FirstOverflow
<1>3. a \in Collector /\ SameCollector(a, w) /\ a.overflowed /\ a.list = w.list
  BY DEF Collector, SameCollector
<1> HIDE DEF a
<1>4. u \in Collector /\ SameCollector(u, w) /\ u.overflowed /\ u.firstDropPos = x.pos
      /\ u.list = w.list
  BY <1>1, <1>3 DEF Collector, SameCollector
<1>5. QED
  BY <1>2, <1>4

(* Faithful, one policy at a time.  `Whole' is a list that has lost nothing. *)
Whole(w, r) == ~w.overflowed /\ Len(w.list) = Len(r) /\ \A i \in 1..Len(r) : w.list[i] = r[i]
Cut(w, r, k) == w.overflowed /\ w.firstDropPos = r[k + 1].pos
                /\ \A i \in 1..k : w.list[i] = r[i]
Room(w) == IF w.maxWarnings = 0 THEN 0 ELSE w.maxWarnings - 1

LEMMA FaithfulNoRec ==
  ASSUME NEW w \in Collector, NEW r \in Seq(Report), w.policy = "NoRec"
  PROVE  Faithful(w, r) <=> ~w.overflowed /\ Len(w.list) = 0
<1>1. Len(r) \in Nat /\ Len(w.list) \in Nat
  BY LenProperties, CollectorFields
<1>2. QED
  BY <1>1 DEF Faithful

LEMMA FaithfulNoCap ==
  ASSUME NEW w \in Collector, NEW r \in Seq(Report), w.policy = "NoCap"
  PROVE  Faithful(w, r) <=> Whole(w, r)
<1>1. Len(r) \in Nat /\ Len(w.list) \in Nat
  BY LenProperties, CollectorFields
<1>2. QED
  BY <1>1 DEF Faithful, Whole

LEMMA FaithfulDrop ==
  ASSUME NEW w \in Collector, NEW r \in Seq(Report), w.policy = "Drop"
  PROVE  /\ Len(r) <= w.maxWarnings => (Faithful(w, r) <=> Whole(w, r))
         /\ Len(r) > w.maxWarnings =>
              (Faithful(w, r) <=> Cut(w, r, w.maxWarnings) /\ Len(w.list) = w.maxWarnings)
<1>1. Len(r) \in Nat /\ Len(w.list) \in Nat /\ w.maxWarnings \in Nat
  BY LenProperties, CollectorFields
<1>2. CASE Len(r) <= w.maxWarnings
  <2>1. (IF Len(r) < w.maxWarnings THEN Len(r) ELSE w.maxWarnings) = Len(r)
    BY <1>1, <1>2
  <2>2. QED
    BY <1>1, <1>2, <2>1 DEF Faithful, Whole
<1>3. CASE Len(r) > w.maxWarnings
  <2>1. (IF Len(r) < w.maxWarnings THEN Len(r) ELSE w.maxWarnings) = w.maxWarnings
    BY <1>1, <1>3
  <2>2. QED
    BY <1>1, <1>3, <2>1 DEF Faithful, Cut
<1>4. QED
  BY <1>1, <1>2, <1>3

LEMMA FaithfulTrunc ==
  ASSUME NEW w \in Collector, NEW r \in Seq(Report), w.policy = "Trunc"
  PROVE  /\ Len(r) = 0 \/ Len(r) < w.maxWarnings =>
              (Faithful(w, r) <=> Whole(w, r) /\ w.droppedCount = 0)
         /\ ~(Len(r) = 0 \/ Len(r) < w.maxWarnings) =>
              (Faithful(w, r) <=>
                 /\ Cut(w, r, Room(w)) /\ Len(w.list) = w.maxWarnings
                 /\ w.maxWarnings > 0 => w.list[w.maxWarnings]
                                           = Warning("WarningsTruncated", w.firstDropPos)
                 /\ w.droppedCount = Len(r) - Room(w))
<1> DEFINE n == Len(r)
           max == w.maxWarnings
           kept == IF n < max THEN n ELSE IF max = 0 THEN 0 ELSE max - 1
<1>1. n \in Nat /\ Len(w.list) \in Nat /\ max \in Nat
  BY LenProperties, CollectorFields
<1>2. Faithful(w, r) <=>
        /\ w.overflowed <=> kept < n
        /\ Len(w.list) = kept + (IF kept < n /\ max > 0 THEN 1 ELSE 0)
        /\ \A i \in 1..kept : w.list[i] = r[i]
        /\ kept < n => w.firstDropPos = r[kept + 1].pos
        /\ kept < n /\ max > 0 => w.list[kept + 1] = Warning("WarningsTruncated", w.firstDropPos)
        /\ w.droppedCount = n - kept
        /\ Len(w.list) <= max
  BY DEF Faithful
<1>3. CASE n = 0 \/ n < max
  <2>1. kept = n
    BY <1>1, <1>3
  <2> HIDE DEF kept
  <2>2. QED
    BY <1>1, <1>2, <1>3, <2>1 DEF Whole
<1>4. CASE ~(n = 0 \/ n < max)
  <2>1. kept = Room(w) /\ kept < n /\ kept \in Nat
        /\ kept + (IF kept < n /\ max > 0 THEN 1 ELSE 0) = max
        /\ (max > 0 => kept + 1 = max)
    BY <1>1, <1>4 DEF Room
  <2> HIDE DEF kept
  <2>2. QED
    BY <1>1, <1>2, <1>4, <2>1 DEF Cut
<1>5. QED
  BY <1>3, <1>4

(* A list that is whole stays so when a warning is listed. *)
LEMMA WholeListed ==
  ASSUME NEW w \in Collector, NEW r \in Seq(Report), NEW x \in Report, Whole(w, r)
  PROVE  Whole(Listed(w, x), Append(r, x))
<1> DEFINE v == Listed(w, x)
           q == Append(r, x)
<1>1. Len(r) \in Nat /\ w.list \in Seq(Report)
  BY LenProperties, CollectorFields
<1>2. v.list = Append(w.list, x) /\ v.overflowed = w.overflowed
  BY ListedFacts
<1>3. /\ Len(q) = Len(r) + 1 /\ q[Len(r) + 1] = x /\ \A i \in 1..Len(r) : q[i] = r[i]
  BY AppendProperties
<1> HIDE DEF v, q
<1>4. /\ Len(v.list) = Len(r) + 1 /\ v.list[Len(r) + 1] = x
      /\ \A i \in 1..Len(r) : v.list[i] = w.list[i]
  BY <1>1, <1>2, AppendProperties DEF Whole
<1>5. Whole(v, q)
  BY <1>1, <1>2, <1>3, <1>4 DEF Whole
<1>6. QED
  BY <1>5 DEF v, q

(* A list that is cut stays so, and the first loss is the one it knew. *)
LEMMA CutKept ==
  ASSUME NEW v, NEW w, NEW r \in Seq(Report), NEW x \in Report, NEW k \in Nat, k < Len(r),
         Cut(w, r, k), v.overflowed = w.overflowed, v.firstDropPos = w.firstDropPos,
         v.list = w.list
  PROVE  Cut(v, Append(r, x), k)
<1>1. Len(r) \in Nat /\ \A i \in 1..Len(r) : Append(r, x)[i] = r[i]
  BY AppendProperties, LenProperties
<1>2. QED
  BY <1>1 DEF Cut

LEMMA AddDrop ==
  ASSUME NEW w \in Collector, NEW r \in Seq(Report), NEW x \in Report,
         w.policy = "Drop", Faithful(w, r)
  PROVE  /\ Add(w, x) \in Collector /\ SameCollector(Add(w, x), w)
         /\ Faithful(Add(w, x), Append(r, x))
<1> DEFINE q == Append(r, x)
           max == w.maxWarnings
<1>1. /\ Len(r) \in Nat /\ max \in Nat /\ q \in Seq(Report) /\ Len(q) = Len(r) + 1
      /\ q[Len(r) + 1] = x /\ \A i \in 1..Len(r) : q[i] = r[i]
  BY AppendProperties, LenProperties, CollectorFields
<1>2. Places(w) = max
  BY DEF Places
<1>3. CASE Len(r) < max
  <2>1. Whole(w, r)
    BY <1>1, <1>3, FaithfulDrop
  <2>2. Add(w, x) = Listed(w, x)
    BY <1>2, <1>3, <2>1 DEF Add, Whole
  <2>3. Listed(w, x) \in Collector /\ SameCollector(Listed(w, x), w)
    BY ListedFacts
  <2>4. Whole(Listed(w, x), q)
    BY <2>1, WholeListed
  <2> HIDE DEF q
  <2>5. Len(q) <= Listed(w, x).maxWarnings /\ Listed(w, x).policy = "Drop"
    BY <1>1, <1>3, <2>3 DEF SameCollector
  <2>6. Faithful(Listed(w, x), q)
    BY <1>1, <2>3, <2>4, <2>5, FaithfulDrop
  <2>7. QED
    BY <2>2, <2>3, <2>6 DEF q
<1>4. CASE Len(r) = max
  <2>1. Whole(w, r)
    BY <1>1, <1>4, FaithfulDrop
  <2> DEFINE v == FirstOverflow(w, x)
  <2>2. Add(w, x) = v
    BY <1>1, <1>2, <1>4, <2>1 DEF Add, Whole
  <2>3. v \in Collector /\ SameCollector(v, w) /\ v.overflowed /\ v.firstDropPos = x.pos
        /\ v.list = w.list
    BY FirstDropFacts
  <2> HIDE DEF v, q
  <2>4. Cut(v, q, max) /\ Len(v.list) = max
    BY <1>1, <1>4, <2>1, <2>3 DEF Cut, Whole
  <2>5. v.maxWarnings = max /\ v.policy = "Drop" /\ Len(q) > max
    BY <1>1, <1>4, <2>3 DEF SameCollector
  <2>6. Faithful(v, q)
    BY <1>1, <2>3, <2>4, <2>5, FaithfulDrop
  <2>7. QED
    BY <2>2, <2>3, <2>6 DEF q
<1>5. CASE Len(r) > max
  <2>1. Cut(w, r, max) /\ Len(w.list) = max
    BY <1>1, <1>5, FaithfulDrop
  <2>2. Add(w, x) = w
    BY <2>1 DEF Add, Cut
  <2>3. Cut(w, q, max)
    BY <1>1, <1>5, <2>1, CutKept
  <2> HIDE DEF q
  <2>4. Faithful(w, q)
    BY <1>1, <1>5, <2>1, <2>3, FaithfulDrop
  <2>5. QED
    BY <2>2, <2>4 DEF q, SameCollector
<1>6. QED
  BY <1>1, <1>3, <1>4, <1>5

LEMMA AddTrunc ==
  ASSUME NEW w \in Collector, NEW r \in Seq(Report), NEW x \in Report,
         w.policy = "Trunc", Faithful(w, r)
  PROVE  /\ Add(w, x) \in Collector /\ SameCollector(Add(w, x), w)
         /\ Faithful(Add(w, x), Append(r, x))
<1> DEFINE q == Append(r, x)
           max == w.maxWarnings
<1>1. /\ Len(r) \in Nat /\ max \in Nat /\ q \in Seq(Report) /\ Len(q) = Len(r) + 1
      /\ q[Len(r) + 1] = x /\ \A i \in 1..Len(r) : q[i] = r[i]
  BY AppendProperties, LenProperties, CollectorFields
<1>2. Places(w) = Room(w) /\ Room(w) \in Nat
  BY <1>1 DEF Places, Room
<1>3. CASE Len(r) < Room(w)
  <2>1. Whole(w, r) /\ w.droppedCount = 0
    BY <1>1, <1>3, FaithfulTrunc DEF Room
  <2> DEFINE v == Listed(w, x)
  <2>2. Add(w, x) = v
    BY <1>2, <1>3, <2>1 DEF Add, Whole
  <2>3. v \in Collector /\ SameCollector(v, w) /\ v.droppedCount = 0
    BY <2>1, ListedFacts
  <2>4. Whole(v, q)
    BY <2>1, WholeListed
  <2> HIDE DEF q, v
  <2>5. Len(q) < v.maxWarnings /\ v.policy = "Trunc"
    BY <1>1, <1>3, <2>3 DEF SameCollector, Room
  <2>6. Faithful(v, q)
    BY <1>1, <2>3, <2>4, <2>5, FaithfulTrunc
  <2>7. QED
    BY <2>2, <2>3, <2>6 DEF q
<1>4. CASE Len(r) = Room(w)
  <2>1. Whole(w, r) /\ w.droppedCount = 0
    BY <1>1, <1>4, FaithfulTrunc DEF Room
  <2> DEFINE v    == FirstOverflow(w, x)
             mark == Warning("WarningsTruncated", x.pos)
  <2>2. Add(w, x) = v
    BY <1>1, <1>2, <1>4, <2>1 DEF Add, Whole
  <2>3. v \in Collector /\ SameCollector(v, w) /\ v.overflowed /\ v.firstDropPos = x.pos
        /\ v.droppedCount = 1
        /\ v.list = IF max = 0 THEN w.list ELSE Append(w.list, mark)
    BY FirstOverflowFacts
  <2>4. mark \in Report
    BY DEF Report, Warning, Issue
  <2> HIDE DEF v, q, mark
  <2>5. w.list \in Seq(Report) /\ Len(w.list) = Len(r)
    BY <2>1, CollectorFields DEF Whole
  <2>6. /\ Len(v.list) = max
        /\ \A i \in 1..Len(r) : v.list[i] = w.list[i]
        /\ max > 0 => v.list[max] = mark
    <3>1. CASE max = 0
      BY <1>1, <1>4, <2>3, <2>5, <3>1 DEF Room
    <3>2. CASE max # 0
      <4>1. v.list = Append(w.list, mark) /\ Len(r) + 1 = max
        BY <1>1, <1>4, <2>3, <3>2 DEF Room
      <4>2. QED
        BY <1>1, <2>4, <2>5, <4>1, AppendProperties
    <3>3. QED
      BY <3>1, <3>2
  <2>7. Cut(v, q, Room(w))
    BY <1>1, <1>2, <1>4, <2>1, <2>3, <2>6 DEF Cut, Whole
  <2>8. v.maxWarnings = max /\ v.policy = "Trunc" /\ Room(v) = Room(w)
    BY <2>3 DEF SameCollector, Room
  <2>9. ~(Len(q) = 0 \/ Len(q) < max) /\ Len(q) - Room(w) = 1
    BY <1>1, <1>4 DEF Room
  <2>10. Faithful(v, q)
    <3>1. v \in Collector /\ q \in Seq(Report) /\ v.policy = "Trunc"
      BY <1>1, <2>3, <2>8
    <3>2. /\ Cut(v, q, Room(v)) /\ Len(v.list) = v.maxWarnings
          /\ ~(Len(q) = 0 \/ Len(q) < v.maxWarnings)
      BY <2>6, <2>7, <2>8, <2>9
    <3>3. v.droppedCount = Len(q) - Room(v)
      BY <2>3, <2>8, <2>9
    <3>4. v.maxWarnings > 0 => v.list[v.maxWarnings] = Warning("WarningsTruncated", v.firstDropPos)
      BY <2>3, <2>6, <2>8 DEF mark
    <3>5. QED
      BY ONLY <3>1, <3>2, <3>3, <3>4, FaithfulTrunc
  <2>11. QED
    BY <2>2, <2>3, <2>10 DEF q
<1>5. CASE Len(r) > Room(w)
  <2>1. ~(Len(r) = 0 \/ Len(r) < max)
    BY <1>1, <1>5 DEF Room
  <2>2. /\ Cut(w, r, Room(w)) /\ Len(w.list) = max
        /\ max > 0 => w.list[max] = Warning("WarningsTruncated", w.firstDropPos)
        /\ w.droppedCount = Len(r) - Room(w)
    BY <2>1, FaithfulTrunc
  <2> DEFINE v == [w EXCEPT !.droppedCount = @ + 1]
  <2>3. Add(w, x) = v
    BY <2>2 DEF Add, Cut
  <2>4. /\ v \in Collector /\ SameCollector(v, w) /\ v.list = w.list
        /\ v.overflowed = w.overflowed /\ v.droppedCount = w.droppedCount + 1
        /\ v.firstDropPos = w.firstDropPos
    BY CountedFacts
  <2> HIDE DEF v
  <2>5. Cut(v, q, Room(w))
    BY <1>2, <1>5, <2>2, <2>4, CutKept
  <2> HIDE DEF q
  <2>6. v.maxWarnings = max /\ v.policy = "Trunc" /\ Room(v) = Room(w)
    BY <2>4 DEF SameCollector, Room
  <2>7. ~(Len(q) = 0 \/ Len(q) < max) /\ v.droppedCount = Len(q) - Room(w)
    BY <1>1, <1>2, <2>1, <2>2, <2>4
  <2>8. Faithful(v, q)
    BY <1>1, <2>2, <2>4, <2>5, <2>6, <2>7, FaithfulTrunc
  <2>9. QED
    BY <2>3, <2>4, <2>8 DEF q
<1>6. QED
  BY <1>1, <1>2, <1>3, <1>4, <1>5

(* Warnings.Add keeps the list faithful, whatever the policy. *)
LEMMA AddFaithful ==
  ASSUME NEW w \in Collector, NEW r \in Seq(Report), NEW x \in Report, Faithful(w, r)
  PROVE  /\ Add(w, x) \in Collector /\ SameCollector(Add(w, x), w)
         /\ Faithful(Add(w, x), Append(r, x))
<1>1. Append(r, x) \in Seq(Report)
  BY AppendProperties
<1>2. CASE w.policy = "NoRec"
  <2>1. Add(w, x) = w
    BY <1>2 DEF Add
  <2>2. Faithful(w, Append(r, x))
    BY <1>1, <1>2, FaithfulNoRec
  <2>3. QED
    BY <2>1, <2>2 DEF SameCollector
<1>3. CASE w.policy = "NoCap"
  <2>1. Add(w, x) = Listed(w, x) /\ Whole(w, r)
    BY <1>3, FaithfulNoCap DEF Add
  <2>2. Listed(w, x) \in Collector /\ SameCollector(Listed(w, x), w)
    BY ListedFacts
  <2>3. Whole(Listed(w, x), Append(r, x)) /\ Listed(w, x).policy = "NoCap"
    BY <1>3, <2>1, <2>2, WholeListed DEF SameCollector
  <2>4. Faithful(Listed(w, x), Append(r, x))
    BY <1>1, <2>2, <2>3, FaithfulNoCap
  <2>5. QED
    BY <2>1, <2>2, <2>4
<1>4. CASE w.policy = "Drop"
  BY <1>4, AddDrop
<1>5. CASE w.policy = "Trunc"
  BY <1>5, AddTrunc
<1>6. QED
  BY <1>2, <1>3, <1>4, <1>5, CollectorFields DEF Policy

(* What one token adds to the list: nothing, one warning or two. *)
Few(items) ==
  \/ items = <<>>
  \/ \E x \in Report : items = <<x>>
  \/ \E x, y \in Report : items = <<x, y>>

LEMMA JoinOne ==
  ASSUME NEW r \in Seq(Report), NEW x \in Report
  PROVE  r \o <<x>> = Append(r, x)
  BY AppendIsConcat

LEMMA JoinTwo ==
  ASSUME NEW r \in Seq(Report), NEW x \in Report, NEW y \in Report
  PROVE  r \o <<x, y>> = Append(Append(r, x), y)
<1> DEFINE a == Append(r, x)
           b == Append(a, y)
           c == r \o <<x, y>>
<1>1. /\ Len(r) \in Nat /\ a \in Seq(Report) /\ Len(a) = Len(r) + 1 /\ a[Len(r) + 1] = x
      /\ \A i \in 1..Len(r) : a[i] = r[i]
  BY AppendProperties, LenProperties
<1> HIDE DEF a
<1>2. /\ b \in Seq(Report) /\ Len(b) = Len(r) + 2 /\ b[Len(r) + 2] = y
      /\ \A i \in 1..(Len(r) + 1) : b[i] = a[i]
  BY <1>1, AppendProperties
<1>3. <<x, y>> \in Seq(Report) /\ Len(<<x, y>>) = 2
  OBVIOUS
<1>4. /\ c \in Seq(Report) /\ Len(c) = Len(r) + 2
      /\ \A i \in 1..(Len(r) + 2) :
           c[i] = IF i <= Len(r) THEN r[i] ELSE <<x, y>>[i - Len(r)]
  BY <1>3, ConcatProperties
<1> HIDE DEF b, c
<1>5. ASSUME NEW i \in 1..Len(c) PROVE c[i] = b[i]
  <2>1. CASE i <= Len(r)
    BY <1>1, <1>2, <1>4, <2>1
  <2>2. CASE i = Len(r) + 1
    BY <1>1, <1>2, <1>4, <2>2
  <2>3. CASE i = Len(r) + 2
    BY <1>1, <1>2, <1>4, <2>3
  <2>4. QED
    BY <1>1, <1>4, <2>1, <2>2, <2>3
<1>6. c = b
  BY <1>2, <1>4, <1>5, SeqEqual
<1>7. QED
  BY <1>6 DEF a, b, c

LEMMA AddAllFaithful ==
  ASSUME NEW w \in Collector, NEW r \in Seq(Report), NEW items, Few(items), Faithful(w, r)
  PROVE  /\ AddAll(w, items) \in Collector /\ SameCollector(AddAll(w, items), w)
         /\ r \o items \in Seq(Report) /\ Faithful(AddAll(w, items), r \o items)
<1>1. CASE items = <<>>
  <2>1. r \o items = r
    BY <1>1, ConcatEmptySeq
  <2>2. AddAll(w, items) = w
    BY <1>1 DEF AddAll
  <2>3. QED
    BY <2>1, <2>2 DEF SameCollector
<1>2. ASSUME NEW x \in Report, items = <<x>>
      PROVE  /\ AddAll(w, items) \in Collector /\ SameCollector(AddAll(w, items), w)
             /\ r \o items \in Seq(Report) /\ Faithful(AddAll(w, items), r \o items)
  <2>1. AddAll(w, items) = Add(w, x)
    BY <1>2 DEF AddAll
  <2>2. r \o items = Append(r, x)
    BY <1>2, JoinOne
  <2>3. Append(r, x) \in Seq(Report)
    BY AppendProperties
  <2>4. QED
    BY <2>1, <2>2, <2>3, AddFaithful
<1>3. ASSUME NEW x \in Report, NEW y \in Report, items = <<x, y>>
      PROVE  /\ AddAll(w, items) \in Collector /\ SameCollector(AddAll(w, items), w)
             /\ r \o items \in Seq(Report) /\ Faithful(AddAll(w, items), r \o items)
  <2> DEFINE v == Add(w, x)
             q == Append(r, x)
  <2>1. AddAll(w, items) = Add(v, y)
    <3>1. items # <<>> /\ ~(Len(items) < 2) /\ items[1] = x /\ items[2] = y
      BY <1>3
    <3>2. QED
      BY <3>1 DEF AddAll
  <2>2. r \o items = Append(q, y)
    BY <1>3, JoinTwo
  <2>3. v \in Collector /\ SameCollector(v, w) /\ Faithful(v, q)
    BY AddFaithful
  <2>4. q \in Seq(Report) /\ Append(q, y) \in Seq(Report)
    BY AppendProperties
  <2> HIDE DEF v, q
  <2>5. Add(v, y) \in Collector /\ SameCollector(Add(v, y), v) /\ Faithful(Add(v, y), Append(q, y))
    BY <2>3, <2>4, AddFaithful
  <2>6. QED
    BY <2>1, <2>2, <2>3, <2>4, <2>5 DEF SameCollector
<1>4. QED
  BY <1>1, <1>2, <1>3 DEF Few

(* How often an issue is among the warnings. *)
IssueCount(r, issue) == Cardinality({i \in DOMAIN r : r[i].issue = issue})

LEMMA CountOneMore ==
  ASSUME NEW r \in Seq(Report), NEW x \in Report, NEW issue
  PROVE  /\ IssueCount(r, issue) \in Nat
         /\ IssueCount(Append(r, x), issue)
              = IssueCount(r, issue) + (IF x.issue = issue THEN 1 ELSE 0)
<1> DEFINE M == {y \in Report : y.issue = issue}
           q == Append(r, x)
<1>1. /\ q \in Seq(Report)
      /\ \A i \in DOMAIN r : r[i] \in Report
      /\ \A i \in DOMAIN q : q[i] \in Report
  BY AppendProperties, LenProperties
<1>2. /\ Cardinality(MarkedIn(r, M)) \in Nat
      /\ Cardinality(MarkedIn(q, M)) = Cardinality(MarkedIn(r, M)) + (IF x \in M THEN 1 ELSE 0)
  BY CountAppended
<1> HIDE DEF q
<1>3. /\ MarkedIn(r, M) = {i \in DOMAIN r : r[i].issue = issue}
      /\ MarkedIn(q, M) = {i \in DOMAIN q : q[i].issue = issue}
      /\ x \in M <=> x.issue = issue
  BY <1>1 DEF MarkedIn
<1> HIDE DEF M
<1>4. QED
  BY <1>2, <1>3 DEF IssueCount, q

LEMMA CountOne ==
  ASSUME NEW r \in Seq(Report), NEW x \in Report, NEW issue
  PROVE  IssueCount(r \o <<x>>, issue) = IssueCount(r, issue) + (IF x.issue = issue THEN 1 ELSE 0)
<1>1. r \o <<x>> = Append(r, x)
  BY JoinOne
<1>2. IssueCount(Append(r, x), issue)
        = IssueCount(r, issue) + (IF x.issue = issue THEN 1 ELSE 0)
  BY CountOneMore
<1>3. QED
  BY <1>1, <1>2

LEMMA CountSecond ==
  ASSUME NEW r \in Seq(Report), NEW x \in Report, NEW y \in Report, NEW issue,
         x.issue # issue
  PROVE  IssueCount(r \o <<x, y>>, issue)
           = IssueCount(r, issue) + (IF y.issue = issue THEN 1 ELSE 0)
<1>1. r \o <<x, y>> = Append(Append(r, x), y)
  BY JoinTwo
<1>2. Append(r, x) \in Seq(Report)
  BY AppendProperties
<1>3. IssueCount(r, issue) \in Nat /\ IssueCount(Append(r, x), issue) = IssueCount(r, issue)
  BY CountOneMore
<1>4. IssueCount(Append(Append(r, x), y), issue)
        = IssueCount(Append(r, x), issue) + (IF y.issue = issue THEN 1 ELSE 0)
  BY <1>2, CountOneMore
<1>5. QED
  BY <1>1, <1>3, <1>4

LEMMA AppendOne ==
  ASSUME NEW x \in Report, NEW y \in Report
  PROVE  Append(<<x>>, y) = <<x, y>>
<1>1. <<x>> \in Seq(Report) /\ Len(<<x>>) = 1 /\ <<x, y>> \in Seq(Report) /\ Len(<<x, y>>) = 2
  OBVIOUS
<1>2. /\ Append(<<x>>, y) \in Seq(Report) /\ Len(Append(<<x>>, y)) = 2
      /\ Append(<<x>>, y)[1] = x /\ Append(<<x>>, y)[2] = y
  BY <1>1, AppendProperties
<1> DEFINE a == Append(<<x>>, y)
           b == <<x, y>>
<1>3. b[1] = x /\ b[2] = y
  OBVIOUS
<1>4. a \in Seq(Report) /\ b \in Seq(Report) /\ Len(a) = Len(b)
      /\ \A i \in 1..Len(a) : a[i] = b[i]
  BY <1>1, <1>2, <1>3
<1> HIDE DEF a, b
<1>5. a = b
  BY <1>4, SeqEqual
<1>6. QED
  BY <1>5 DEF a, b

LEMMA NewReport ==
  ASSUME NEW issue \in Issue, NEW pos \in Nat
  PROVE  Warning(issue, pos) \in Report /\ Warning(issue, pos).issue = issue
  BY DEF Warning, Report

LEMMA CountIsNat ==
  ASSUME NEW r \in Seq(Report), NEW issue
  PROVE  IssueCount(r, issue) \in Nat
<1>1. Warning("UnclosedTag", 0) \in Report
  BY NewReport DEF Issue
<1>2. QED
  BY <1>1, CountOneMore

(* Warnings that do not tell of a limit leave the counts of those alone. *)
Unlimiting(items) == items = <<>> \/ \E x \in Report : items = <<x>> /\ x.issue \notin LimitIssue

LEMMA WarnFacts ==
  ASSUME WarningsOK, NEW items, Unlimiting(items), Warn(items)
  PROVE  WarningsOK' /\ \A limit \in LimitIssue : Issues(limit)' = Issues(limit)
<1>1. /\ warns \in Collector /\ raised \in Seq(Report) /\ Faithful(warns, raised)
      /\ warns' = AddAll(warns, items) /\ raised' = raised \o items
  BY DEF WarningsOK, WarningsReported, Warn
<1>2. Few(items)
  BY DEF Few, Unlimiting
<1>3. WarningsOK'
  BY <1>1, <1>2, AddAllFaithful DEF WarningsOK, WarningsReported
<1>4. ASSUME NEW limit \in LimitIssue PROVE Issues(limit)' = Issues(limit)
  <2>1. Issues(limit)' = IssueCount(raised', limit) /\ Issues(limit) = IssueCount(raised, limit)
    BY DEF Issues, IssueCount
  <2>2. CASE items = <<>>
    BY <1>1, <2>1, <2>2, ConcatEmptySeq
  <2>3. ASSUME NEW x \in Report, items = <<x>>, x.issue \notin LimitIssue
        PROVE  Issues(limit)' = Issues(limit)
    <3>1. IssueCount(raised \o <<x>>, limit) = IssueCount(raised, limit)
      BY <1>1, <2>3, CountOne, CountIsNat
    <3>2. QED
      BY <1>1, <2>1, <2>3, <3>1
  <2>4. QED
    BY <2>2, <2>3 DEF Unlimiting
<1>5. QED
  BY <1>3, <1>4

(* warnLimitOnce raises its issue unless that has been done. *)
LEMMA WarnLimitFacts ==
  ASSUME WarningsOK, NEW items, Unlimiting(items), NEW issue \in LimitIssue, NEW pos \in Nat,
         WarnLimit(issue, pos, items)
  PROVE  /\ WarningsOK' /\ warnedLimits' = warnedLimits \cup {issue}
         /\ \A limit \in LimitIssue :
              /\ Issues(limit) \in Nat
              /\ Issues(limit)' = Issues(limit)
                   + (IF limit = issue /\ limit \notin warnedLimits THEN 1 ELSE 0)
<1>1. warnedLimits' = warnedLimits \cup {issue}
  BY DEF WarnLimit
<1>2. /\ warns \in Collector /\ raised \in Seq(Report) /\ Faithful(warns, raised)
  BY DEF WarningsOK, WarningsReported
<1>3. \A limit : Issues(limit) \in Nat
  BY <1>2, CountIsNat DEF Issues, IssueCount
<1>4. CASE issue \in warnedLimits
  <2>1. Warn(items)
    BY <1>4 DEF WarnLimit
  <2>2. WarningsOK' /\ \A limit \in LimitIssue : Issues(limit)' = Issues(limit)
    BY <2>1, WarnFacts
  <2>3. QED
    BY <1>1, <1>3, <1>4, <2>2
<1>5. CASE issue \notin warnedLimits
  <2> DEFINE z == Warning(issue, pos)
  <2>1. z \in Report /\ z.issue = issue
    BY NewReport DEF LimitIssue, Issue
  <2>2. warns' = AddAll(warns, Append(items, z)) /\ raised' = raised \o Append(items, z)
    BY <1>5 DEF WarnLimit, Warn
  <2> HIDE DEF z
  <2>3. CASE items = <<>>
    <3>1. Append(items, z) = <<z>>
      BY <2>3
    <3>2. Few(<<z>>)
      BY <2>1 DEF Few
    <3>3. WarningsOK'
      BY <1>2, <2>2, <3>1, <3>2, AddAllFaithful DEF WarningsOK, WarningsReported
    <3>4. ASSUME NEW limit \in LimitIssue
          PROVE  Issues(limit)' = Issues(limit) + (IF limit = issue THEN 1 ELSE 0)
      <4>1. Issues(limit)' = IssueCount(raised', limit)
            /\ Issues(limit) = IssueCount(raised, limit)
        BY DEF Issues, IssueCount
      <4>2. IssueCount(raised \o <<z>>, limit)
              = IssueCount(raised, limit) + (IF limit = issue THEN 1 ELSE 0)
        BY <1>2, <2>1, CountOne
      <4>3. QED
        BY <2>2, <3>1, <4>1, <4>2
    <3>5. QED
      BY <1>1, <1>3, <1>5, <3>3, <3>4
  <2>4. ASSUME NEW x \in Report, items = <<x>>, x.issue \notin LimitIssue
        PROVE  /\ WarningsOK'
               /\ \A limit \in LimitIssue :
                    Issues(limit)' = Issues(limit) + (IF limit = issue THEN 1 ELSE 0)
    <3>1. Append(items, z) = <<x, z>>
      BY <2>1, <2>4, AppendOne
    <3>2. Few(<<x, z>>)
      BY <2>1 DEF Few
    <3>3. WarningsOK'
      BY <1>2, <2>2, <3>1, <3>2, AddAllFaithful DEF WarningsOK, WarningsReported
    <3>4. ASSUME NEW limit \in LimitIssue
          PROVE  Issues(limit)' = Issues(limit) + (IF limit = issue THEN 1 ELSE 0)
      <4>1. Issues(limit)' = IssueCount(raised', limit)
            /\ Issues(limit) = IssueCount(raised, limit)
        BY DEF Issues, IssueCount
      <4>2. IssueCount(raised \o <<x, z>>, limit)
              = IssueCount(raised, limit) + (IF limit = issue THEN 1 ELSE 0)
        <5>1. IssueCount(raised \o <<x, z>>, limit)
                = IssueCount(raised, limit) + (IF z.issue = limit THEN 1 ELSE 0)
          BY <1>2, <2>1, <2>4, CountSecond
        <5>2. QED
          BY <2>1, <5>1
      <4>3. QED
        BY <2>2, <3>1, <4>1, <4>2
    <3>5. QED
      BY <3>3, <3>4
  <2>5. QED
    BY <1>1, <1>3, <1>5, <2>3, <2>4 DEF Unlimiting
<1>6. QED
  BY <1>4, <1>5

-----------------------------------------------------------------------------
(* Tokens *)

(* The next token is read. *)
Reads(tok) == tok \in TokenRecord /\ tok.pos = Position /\ input' = Append(input, tok)

LEMMA TokenFacts ==
  ASSUME RecordsOK, NEW types \in SUBSET TokenType, NEW tok \in Tokens(types)
  PROVE  /\ Position \in Nat /\ tok \in TokenRecord /\ tok.pos = Position
         /\ tok.type \in types /\ tok.width \in Width[tok.type]
<1>1. Position \in Nat
  <2>1. CASE input = <<>>
    BY <2>1 DEF Position
  <2>2. CASE input # <<>>
    <3>1. Last(input) \in TokenRecord
      BY <2>2, FrontFacts DEF RecordsOK
    <3>2. QED
      BY <2>2, <3>1 DEF Position, TokenRecord
  <2>3. QED
    BY <2>1, <2>2
<1>2. PICK y \in types :
        tok \in {[type |-> y, pos |-> Position, width |-> w] : w \in Width[y]}
  BY DEF Tokens
<1>3. PICK w \in Width[y] : tok = [type |-> y, pos |-> Position, width |-> w]
  BY <1>2
<1>4. y \in TokenType /\ Width[y] \subseteq Nat \ {0}
  BY ParserAssumption DEF TokenType
<1>5. QED
  BY <1>1, <1>3, <1>4 DEF TokenRecord

LEMMA ReadFacts ==
  ASSUME RecordsOK, NEW tok, Reads(tok)
  PROVE  /\ input' \in Seq(TokenRecord) /\ Position \in Nat /\ Position' = Position + tok.width
         /\ AttributeTokens \in Nat
         /\ AttributeTokens' = AttributeTokens + (IF tok.type = "attribute" THEN 1 ELSE 0)
<1> DEFINE M == {x \in TokenRecord : x.type = "attribute"}
<1>1. /\ input \in Seq(TokenRecord) /\ tok \in TokenRecord
      /\ input' = Append(input, tok) /\ tok.pos = Position
  BY DEF RecordsOK, Reads
<1>2. /\ input' \in Seq(TokenRecord) /\ input' # <<>> /\ Len(input') = Len(input) + 1
      /\ input'[Len(input) + 1] = tok
  BY <1>1, AppendProperties
<1>3. Position' = tok.pos + tok.width
  BY <1>2 DEF Position, Last
<1>4. tok.pos \in Nat
  BY <1>1 DEF TokenRecord
<1>5. /\ Cardinality(MarkedIn(input, M)) \in Nat
      /\ Cardinality(MarkedIn(Append(input, tok), M))
           = Cardinality(MarkedIn(input, M)) + (IF tok \in M THEN 1 ELSE 0)
  BY <1>1, CountAppended
<1>6. /\ MarkedIn(input, M) = {i \in DOMAIN input : input[i].type = "attribute"}
      /\ MarkedIn(input', M) = {i \in DOMAIN input' : input'[i].type = "attribute"}
  <2>1. /\ \A i \in DOMAIN input : input[i] \in TokenRecord
        /\ \A i \in DOMAIN input' : input'[i] \in TokenRecord
    BY <1>1, <1>2, LenProperties
  <2>2. QED
    BY <2>1 DEF MarkedIn
<1>7. tok \in M <=> tok.type = "attribute"
  BY <1>1
<1> HIDE DEF M
<1>8. AttributeTokens = Cardinality(MarkedIn(input, M))
      /\ AttributeTokens' = Cardinality(MarkedIn(input', M))
  BY <1>6 DEF AttributeTokens
<1>9. QED
  BY <1>1, <1>2, <1>3, <1>4, <1>5, <1>7, <1>8

-----------------------------------------------------------------------------
(* What the invariant says of the state before a step *)

LEMMA NodeFields ==
  ASSUME NEW n \in NodeRecord
  PROVE  /\ n.start \in Nat /\ n.end \in Nat /\ n.attrStart \in Nat /\ n.attrLen \in Nat
         /\ n.tag \in Tag \cup {NoTag}
  BY DEF NodeRecord

LEMMA ArenaFacts ==
  ASSUME RecordsOK
  PROVE  /\ Len(nodes) \in Nat \ {0} /\ Len(attributes) \in Nat
         /\ DOMAIN attributes = 1..Len(attributes)
         /\ \A i \in NodeIds : nodes[i] \in NodeRecord
<1>1. nodes \in Seq(NodeRecord) /\ nodes # <<>> /\ attributes \in Seq(AttributeRecord)
  BY DEF RecordsOK
<1>2. QED
  BY <1>1, EmptySeq, LenProperties, ElementOfSeq DEF NodeIds

LEMMA StackFacts ==
  ASSUME RecordsOK, StacksOK
  PROVE  /\ Len(breadcrumbs) \in Nat \ {0} /\ Len(cumWidth) = Len(breadcrumbs)
         /\ Len(stack) \in Nat /\ Len(stack) = Len(breadcrumbs) - 1
         /\ Parent = breadcrumbs[Len(breadcrumbs)] /\ Parent \in NodeIds
         /\ Last(cumWidth) = cumWidth[Len(breadcrumbs)]
         /\ \A k \in 1..Len(breadcrumbs) :
              /\ breadcrumbs[k] \in NodeIds /\ cumWidth[k] \in Nat
              /\ nodes[breadcrumbs[k]].start \in Nat
<1>1. /\ Len(breadcrumbs) \in Nat /\ Len(cumWidth) = Len(breadcrumbs) /\ Len(stack) \in Nat
      /\ Len(stack) + 1 = Len(breadcrumbs) /\ cumWidth \in Seq(Nat)
      /\ \A k \in 1..Len(breadcrumbs) : breadcrumbs[k] \in NodeIds
  BY LenProperties DEF StacksOK
<1>2. \A k \in 1..Len(breadcrumbs) : cumWidth[k] \in Nat
  BY <1>1, ElementOfSeq
<1>3. \A k \in 1..Len(breadcrumbs) : nodes[breadcrumbs[k]].start \in Nat
  BY <1>1, ArenaFacts, NodeFields
<1>4. QED
  BY <1>1, <1>2, <1>3 DEF Parent, Last

-----------------------------------------------------------------------------
(* Nodes *)

(* A token is read, and the nodes that come with it lie where it lies. *)
LEMMA GrowthKeeps ==
  ASSUME RecordsOK, LinksOK, NodesInside, RangesOK, NEW tok, Reads(tok),
         Grows(nodes', nodes, Position, Position'), attributes' = attributes,
         lastNode' \in 1..Len(nodes')
  PROVE  /\ nodes' \in Seq(NodeRecord) /\ nodes' # <<>>
         /\ LinksOK' /\ NodesInside' /\ RangesOK'
<1> DEFINE n == Len(nodes)
           m == Len(nodes')
<1>1. /\ nodes' \in Seq(NodeRecord) /\ Linked(nodes', m) /\ n <= m
      /\ \A i \in 1..n : SameNode(nodes'[i], nodes[i])
      /\ \A i \in (n + 1)..m :
           /\ Position <= nodes'[i].start /\ nodes'[i].start <= nodes'[i].end
           /\ nodes'[i].end <= Position'
           /\ nodes'[i].attrLen = 0
  BY DEF Grows
<1>2. n \in Nat \ {0} /\ m \in Nat \ {0} /\ nodes' # <<>>
      /\ \A i \in 1..n : nodes[i] \in NodeRecord
  BY <1>1, ArenaFacts, LenProperties, EmptySeq DEF NodeIds
<1>3. LinksOK'
  <2>1. \A i \in 1..m : nodes'[i].first \in 0..m /\ nodes'[i].last \in 0..m
                        /\ nodes'[i].next \in 0..m
    BY <1>1 DEF Linked, Links
  <2>2. \A k \in 1..Len(attributes) : attributes[k].of \in 1..m
    BY <1>1, <1>2 DEF LinksOK, NodeIds
  <2>3. QED
    BY <2>1, <2>2 DEF LinksOK, NodeIds
<1>4. Position \in Nat /\ Position' \in Nat /\ Position <= Position'
  BY ReadFacts DEF Reads, TokenRecord
<1>5. NodesInside'
  <2>1. ASSUME NEW i \in 1..m
        PROVE  nodes'[i].start <= nodes'[i].end /\ nodes'[i].end <= Position'
    <3>1. CASE i <= n
      <4>1. SameNode(nodes'[i], nodes[i]) /\ nodes[i] \in NodeRecord
        BY <1>1, <1>2, <3>1
      <4>2. nodes[i].start <= nodes[i].end /\ nodes[i].end <= Position
        BY <1>2, <3>1 DEF NodesInside, NodeIds
      <4>3. QED
        BY <1>4, <4>1, <4>2, NodeFields DEF SameNode
    <3>2. CASE ~(i <= n)
      BY <1>1, <1>2, <3>2
    <3>3. QED
      BY <3>1, <3>2
  <2>2. QED
    BY <2>1 DEF NodesInside, NodeIds
<1>6. RangesOK'
  <2>1. ASSUME NEW i \in 1..m
        PROVE  /\ nodes'[i].attrLen = Cardinality(AttributesOf(i))
               /\ nodes'[i].attrLen > 0 =>
                    nodes'[i].attrStart >= 1
                    /\ nodes'[i].attrStart + nodes'[i].attrLen - 1 <= Len(attributes)
    <3>1. CASE i <= n
      BY <1>1, <1>2, <3>1 DEF RangesOK, NodeIds, SameNode
    <3>2. CASE ~(i <= n)
      <4>1. AttributesOf(i) = {}
        BY <1>2, <3>2, ArenaFacts DEF AttributesOf, LinksOK, NodeIds
      <4>2. nodes'[i].attrLen = 0
        BY <1>1, <1>2, <3>2
      <4>3. QED
        BY <4>1, <4>2, FS_EmptySet
    <3>3. QED
      BY <3>1, <3>2
  <2>2. \A i : AttributesOf(i)' = AttributesOf(i)
    BY DEF AttributesOf
  <2>3. QED
    BY <2>1, <2>2 DEF RangesOK, NodeIds
<1>7. QED
  BY <1>1, <1>2, <1>3, <1>5, <1>6

-----------------------------------------------------------------------------
(* Spans *)

(* The nodes from before the step start where they did. *)
StartsKept ==
  /\ nodes' \in Seq(NodeRecord) /\ Len(nodes) <= Len(nodes')
  /\ \A i \in NodeIds : nodes'[i].start = nodes[i].start

LEMMA GrowthStarts ==
  ASSUME NEW low, NEW high, Grows(nodes', nodes, low, high)
  PROVE  StartsKept
  BY DEF Grows, StartsKept, SameNode, NodeIds

LEMMA WidenedFacts ==
  ASSUME RecordsOK, StacksOK, NEW w \in Nat
  PROVE  /\ Widened(w) \in Seq(Nat) /\ Len(Widened(w)) = Len(cumWidth)
         /\ \A k \in 1..Len(cumWidth) :
              Widened(w)[k] = cumWidth[k] + (IF k = Len(cumWidth) THEN w ELSE 0)
<1> DEFINE n == Len(cumWidth)
           v == cumWidth[n] + w
<1>1. /\ cumWidth \in Seq(Nat) /\ n \in Nat \ {0} /\ \A k \in 1..n : cumWidth[k] \in Nat
  BY StackFacts DEF StacksOK
<1>2. n \in 1..n /\ v \in Nat
  BY <1>1
<1>3. Widened(w) = [cumWidth EXCEPT ![n] = v]
  BY DEF Widened
<1> HIDE DEF v
<1>4. /\ Widened(w) \in Seq(Nat) /\ Len(Widened(w)) = n
      /\ \A k \in 1..n : Widened(w)[k] = IF k = n THEN v ELSE cumWidth[k]
  BY <1>1, <1>2, <1>3, ExceptSeq
<1>5. QED
  BY <1>1, <1>4 DEF v

(* The stacks stay as they are, and the innermost width grows by no more    *)
(* than what has been read.                                                *)
LEMMA TelescopeFlat ==
  ASSUME RecordsOK, StacksOK, Telescope, NEW tok, Reads(tok), StartsKept,
         breadcrumbs' = breadcrumbs, stack' = stack,
         cumWidth' = cumWidth \/ cumWidth' = Widened(tok.width)
  PROVE  StacksOK' /\ Telescope'
<1> DEFINE n == Len(breadcrumbs)
<1>1. /\ n \in Nat \ {0} /\ Len(cumWidth) = n /\ Len(stack) + 1 = n
      /\ Parent = breadcrumbs[n] /\ Last(cumWidth) = cumWidth[n]
      /\ \A k \in 1..n : /\ breadcrumbs[k] \in NodeIds /\ cumWidth[k] \in Nat
                         /\ nodes[breadcrumbs[k]].start \in Nat
  BY StackFacts DEF StacksOK
<1>2. tok.width \in Nat /\ Position' = Position + tok.width /\ Position \in Nat
  BY ReadFacts DEF Reads, TokenRecord
<1>3. /\ cumWidth' \in Seq(Nat) /\ Len(cumWidth') = n
      /\ \A k \in 1..(n - 1) : cumWidth'[k] = cumWidth[k]
      /\ cumWidth'[n] \in Nat /\ cumWidth'[n] <= cumWidth[n] + tok.width
  <2>1. CASE cumWidth' = cumWidth
    <3>1. cumWidth \in Seq(Nat)
      BY DEF StacksOK
    <3>2. n \in 1..n /\ cumWidth[n] \in Nat
      BY <1>1
    <3>3. cumWidth[n] <= cumWidth[n] + tok.width
      BY ONLY <1>2, <3>2
    <3>4. QED
      BY ONLY <1>1, <2>1, <3>1, <3>2, <3>3
  <2>2. CASE cumWidth' = Widened(tok.width)
    <3>1. /\ Widened(tok.width) \in Seq(Nat) /\ Len(Widened(tok.width)) = Len(cumWidth)
          /\ \A k \in 1..Len(cumWidth) : Widened(tok.width)[k]
                = cumWidth[k] + (IF k = Len(cumWidth) THEN tok.width ELSE 0)
      BY <1>2, WidenedFacts
    <3>2. /\ \A k \in 1..(n - 1) : cumWidth'[k] = cumWidth[k]
          /\ cumWidth'[n] = cumWidth[n] + tok.width
      BY <1>1, <2>2, <3>1
    <3>3. QED
      BY <1>1, <1>2, <2>2, <3>1, <3>2
  <2>3. QED
    BY <2>1, <2>2
<1>4. \A k \in 1..n : breadcrumbs[k] \in NodeIds'
                      /\ nodes'[breadcrumbs[k]].start = nodes[breadcrumbs[k]].start
  <2>1. NodeIds \subseteq NodeIds'
    BY ArenaFacts, LenProperties DEF StartsKept, NodeIds
  <2>2. QED
    BY <1>1, <2>1 DEF StartsKept
<1>5. StacksOK'
  BY <1>1, <1>3, <1>4 DEF StacksOK
<1>6. Parent' = breadcrumbs[n] /\ Last(cumWidth)' = cumWidth'[n]
  BY <1>3 DEF Parent, Last
<1>7. Telescope'
  <2>1. nodes'[1].start = 0 /\ breadcrumbs[1] = 1
    BY <1>1, <1>4 DEF Telescope
  <2>2. \A k \in 1..(n - 1) :
          nodes'[breadcrumbs[k]].start + cumWidth'[k] <= nodes'[breadcrumbs[k + 1]].start
    <3>1. ASSUME NEW k \in 1..(n - 1)
          PROVE  nodes'[breadcrumbs[k]].start + cumWidth'[k] <= nodes'[breadcrumbs[k + 1]].start
      <4>1. k \in 1..n /\ k + 1 \in 1..n
        BY <1>1
      <4>2. nodes[breadcrumbs[k]].start + cumWidth[k] <= nodes[breadcrumbs[k + 1]].start
        BY DEF Telescope
      <4>3. QED
        BY <1>3, <1>4, <4>1, <4>2
    <3>2. QED
      BY <3>1
  <2>3. nodes'[breadcrumbs[n]].start + cumWidth'[n] <= Position'
    <3>1. nodes[breadcrumbs[n]].start + cumWidth[n] <= Position
      BY <1>1 DEF Telescope
    <3>2. nodes'[breadcrumbs[n]].start = nodes[breadcrumbs[n]].start
          /\ nodes[breadcrumbs[n]].start \in Nat /\ cumWidth[n] \in Nat
      BY <1>1, <1>4
    <3>3. cumWidth'[n] \in Nat /\ cumWidth'[n] <= cumWidth[n] + tok.width
      BY <1>3
    <3>4. nodes[breadcrumbs[n]].start + cumWidth'[n]
            <= (nodes[breadcrumbs[n]].start + cumWidth[n]) + tok.width
      BY ONLY <1>2, <3>2, <3>3
    <3>5. QED
      BY ONLY <1>2, <3>1, <3>2, <3>3, <3>4
  <2>4. QED
    BY <1>6, <2>1, <2>2, <2>3 DEF Telescope
<1>8. QED
  BY <1>5, <1>7

(* A tag is opened where the input has been read to. *)
LEMMA TelescopeOpened ==
  ASSUME RecordsOK, StacksOK, Telescope, NEW tok, Reads(tok), tok.type \in Tag, StartsKept,
         Len(nodes') = Len(nodes) + 1, nodes'[Len(nodes) + 1].start = Position,
         breadcrumbs' = Append(breadcrumbs, Len(nodes) + 1),
         cumWidth' = Append(cumWidth, tok.width), stack' = Append(stack, tok.type)
  PROVE  StacksOK' /\ Telescope'
<1> DEFINE n == Len(breadcrumbs)
           i == Len(nodes) + 1
<1>1. /\ n \in Nat \ {0} /\ Len(cumWidth) = n /\ Len(stack) + 1 = n
      /\ Parent = breadcrumbs[n] /\ Last(cumWidth) = cumWidth[n]
      /\ \A k \in 1..n : /\ breadcrumbs[k] \in NodeIds /\ cumWidth[k] \in Nat
                         /\ nodes[breadcrumbs[k]].start \in Nat
  BY StackFacts DEF StacksOK
<1>2. tok.width \in Nat /\ Position' = Position + tok.width /\ Position \in Nat
  BY ReadFacts DEF Reads, TokenRecord
<1>3. /\ breadcrumbs \in Seq(Nat) /\ cumWidth \in Seq(Nat) /\ stack \in Seq(Tag) /\ i \in Nat
  BY ArenaFacts DEF StacksOK
<1>4. /\ breadcrumbs' \in Seq(Nat) /\ Len(breadcrumbs') = n + 1
      /\ \A k \in 1..n : breadcrumbs'[k] = breadcrumbs[k]
      /\ breadcrumbs'[n + 1] = i
  BY <1>3, AppendProperties
<1>5. /\ cumWidth' \in Seq(Nat) /\ Len(cumWidth') = n + 1
      /\ \A k \in 1..n : cumWidth'[k] = cumWidth[k]
      /\ cumWidth'[n + 1] = tok.width
  <2>1. cumWidth \in Seq(Nat) /\ tok.width \in Nat /\ Len(cumWidth) = n
    BY <1>1, <1>2, <1>3
  <2> DEFINE w == tok.width
  <2> HIDE DEF w, n
  <2>2. /\ Append(cumWidth, w) \in Seq(Nat) /\ Len(Append(cumWidth, w)) = n + 1
        /\ \A k \in 1..n : Append(cumWidth, w)[k] = cumWidth[k]
        /\ Append(cumWidth, w)[n + 1] = w
    BY ONLY <2>1, AppendProperties DEF w
  <2>3. QED
    BY <2>2 DEF w
<1>6. stack' \in Seq(Tag) /\ Len(stack') = n
  BY <1>1, <1>3, AppendProperties
<1>7. NodeIds \subseteq NodeIds' /\ i \in NodeIds'
  BY ArenaFacts DEF NodeIds
<1>8. StacksOK'
  <2>1. \A k \in 1..(n + 1) : breadcrumbs'[k] \in NodeIds'
    BY <1>1, <1>4, <1>7
  <2>2. QED
    BY <1>1, <1>4, <1>5, <1>6, <2>1 DEF StacksOK
<1>9. \A k \in 1..n : nodes'[breadcrumbs[k]].start = nodes[breadcrumbs[k]].start
  BY <1>1 DEF StartsKept
<1>10. Parent' = i /\ Last(cumWidth)' = tok.width
  BY <1>4, <1>5 DEF Parent, Last
<1> HIDE DEF i
<1>11. Telescope'
  <2>1. nodes'[1].start = 0 /\ breadcrumbs'[1] = 1
    <3>1. 1 \in 1..n
      BY <1>1
    <3>2. nodes[1].start = 0 /\ breadcrumbs[1] = 1
      BY DEF Telescope
    <3>3. QED
      BY ONLY <1>4, <1>9, <3>1, <3>2
  <2>2. ASSUME NEW k \in 1..n
        PROVE  nodes'[breadcrumbs'[k]].start + cumWidth'[k] <= nodes'[breadcrumbs'[k + 1]].start
    <3>1. CASE k < n
      <4>1. k \in 1..(n - 1) /\ k + 1 \in 1..n
        BY <1>1, <3>1
      <4>2. nodes[breadcrumbs[k]].start + cumWidth[k] <= nodes[breadcrumbs[k + 1]].start
        BY <4>1 DEF Telescope
      <4>3. QED
        BY <1>4, <1>5, <1>9, <4>1, <4>2
    <3>2. CASE k = n
      <4>1. nodes[breadcrumbs[n]].start + cumWidth[n] <= Position
        BY <1>1 DEF Telescope
      <4>2. nodes'[breadcrumbs'[n + 1]].start = Position
        BY <1>4 DEF i
      <4>3. QED
        BY <1>4, <1>5, <1>9, <3>2, <4>1, <4>2
    <3>3. QED
      BY <1>1, <3>1, <3>2
  <2>3. nodes'[i].start + tok.width <= Position'
    BY <1>2 DEF i
  <2>4. Len(breadcrumbs') - 1 = n
    BY <1>1, <1>4
  <2>5. QED
    BY <1>10, <2>1, <2>2, <2>3, <2>4 DEF Telescope
<1>12. QED
  BY <1>8, <1>11

LEMMA PoppedFacts ==
  ASSUME RecordsOK, StacksOK, Len(breadcrumbs) > 1, NEW w \in Nat
  PROVE  LET n == Len(breadcrumbs)
         IN /\ Popped(w) \in Seq(Nat) /\ Len(Popped(w)) = n - 1
            /\ \A k \in 1..(n - 2) : Popped(w)[k] = cumWidth[k]
            /\ Popped(w)[n - 1] = cumWidth[n - 1] + cumWidth[n] + w
<1> DEFINE n == Len(breadcrumbs)
           f == Front(cumWidth)
           v == cumWidth[n - 1] + cumWidth[n] + w
<1>1. /\ cumWidth \in Seq(Nat) /\ n \in Nat /\ n > 1 /\ Len(cumWidth) = n
      /\ \A k \in 1..n : cumWidth[k] \in Nat
  BY StackFacts DEF StacksOK
<1>2. cumWidth # <<>> /\ n - 1 \in 1..n /\ n \in 1..n
  BY <1>1
<1>3. /\ f \in Seq(Nat) /\ Len(f) = n - 1 /\ \A k \in 1..(n - 1) : f[k] = cumWidth[k]
  BY <1>1, <1>2, FrontFacts
<1>4. v \in Nat /\ n - 1 \in 1..Len(f) /\ f[n - 1] = cumWidth[n - 1]
  <2>1. cumWidth[n - 1] \in Nat /\ cumWidth[n] \in Nat
    BY <1>1, <1>2
  <2>2. v \in Nat
    BY ONLY <2>1, w \in Nat
  <2>3. n - 1 \in 1..(n - 1)
    BY <1>1
  <2>4. QED
    BY <1>3, <2>2, <2>3
<1>5. Popped(w) = [f EXCEPT ![n - 1] = v]
  BY <1>1, <1>4 DEF Popped
<1> HIDE DEF f, v
<1>6. /\ Popped(w) \in Seq(Nat) /\ Len(Popped(w)) = Len(f)
      /\ \A k \in 1..Len(f) : Popped(w)[k] = IF k = n - 1 THEN v ELSE f[k]
  BY <1>3, <1>4, <1>5, ExceptSeq
<1>7. \A k \in 1..(n - 2) : Popped(w)[k] = cumWidth[k]
  <2>1. \A k \in 1..(n - 2) : k \in 1..(n - 1) /\ k # n - 1
    BY <1>1
  <2>2. QED
    BY <1>3, <1>6, <2>1
<1>8. Popped(w)[n - 1] = v
  BY <1>4, <1>6
<1>9. QED
  BY <1>3, <1>6, <1>7, <1>8 DEF v

(* A tag is closed, and what it spans goes to the tag around it. *)
LEMMA TelescopePopped ==
  ASSUME RecordsOK, StacksOK, Telescope, Len(breadcrumbs) > 1, NEW w \in Nat, StartsKept,
         Position \in Nat, Position' = Position + w,
         breadcrumbs' = Front(breadcrumbs), cumWidth' = Popped(w), stack' = Front(stack)
  PROVE  StacksOK' /\ Telescope'
<1> DEFINE n == Len(breadcrumbs)
<1>1. /\ n \in Nat /\ n > 1 /\ Len(cumWidth) = n /\ Len(stack) + 1 = n
      /\ Parent = breadcrumbs[n] /\ Last(cumWidth) = cumWidth[n]
      /\ breadcrumbs \in Seq(Nat) /\ stack \in Seq(Tag)
      /\ \A k \in 1..n : /\ breadcrumbs[k] \in NodeIds /\ cumWidth[k] \in Nat
                         /\ nodes[breadcrumbs[k]].start \in Nat
  BY StackFacts DEF StacksOK
<1>2. breadcrumbs # <<>> /\ stack # <<>> /\ n - 1 \in 1..n /\ n \in 1..n
  BY <1>1
<1>3. /\ breadcrumbs' \in Seq(Nat) /\ Len(breadcrumbs') = n - 1
      /\ \A k \in 1..(n - 1) : breadcrumbs'[k] = breadcrumbs[k]
  BY <1>1, <1>2, FrontFacts
<1>4. /\ stack' \in Seq(Tag) /\ Len(stack') = n - 2
  <2>1. Front(stack) \in Seq(Tag) /\ Len(Front(stack)) = Len(stack) - 1
    BY <1>1, <1>2, FrontFacts
  <2>2. Len(stack) - 1 = n - 2
    BY <1>1
  <2>3. QED
    BY <2>1, <2>2
<1>5. /\ cumWidth' \in Seq(Nat) /\ Len(cumWidth') = n - 1
      /\ \A k \in 1..(n - 2) : cumWidth'[k] = cumWidth[k]
      /\ cumWidth'[n - 1] = cumWidth[n - 1] + cumWidth[n] + w
  BY PoppedFacts
<1>6. NodeIds \subseteq NodeIds'
  BY ArenaFacts, LenProperties DEF StartsKept, NodeIds
<1>7. \A k \in 1..n : nodes'[breadcrumbs[k]].start = nodes[breadcrumbs[k]].start
  BY <1>1 DEF StartsKept
<1>8. StacksOK'
  <2>1. \A k \in 1..(n - 1) : breadcrumbs'[k] \in NodeIds'
    BY <1>1, <1>3, <1>6
  <2>2. QED
    BY <1>1, <1>3, <1>4, <1>5, <2>1 DEF StacksOK
<1>9. Parent' = breadcrumbs[n - 1] /\ Last(cumWidth)' = cumWidth'[n - 1]
  <2>1. n - 1 \in 1..(n - 1) /\ Len(breadcrumbs') = n - 1 /\ Len(cumWidth') = n - 1
    BY <1>1, <1>3, <1>5
  <2>2. Last(breadcrumbs') = breadcrumbs'[n - 1] /\ Last(cumWidth') = cumWidth'[n - 1]
    BY ONLY <2>1 DEF Last
  <2>3. breadcrumbs'[n - 1] = breadcrumbs[n - 1]
    BY <1>3, <2>1
  <2>4. QED
    BY <2>2, <2>3 DEF Parent
<1>10. Telescope'
  <2>1. nodes'[1].start = 0 /\ breadcrumbs'[1] = 1
    <3>1. nodes[1].start = 0 /\ breadcrumbs[1] = 1
      BY DEF Telescope
    <3>2. 1 \in 1..n /\ 1 \in 1..(n - 1)
      BY <1>1
    <3>3. QED
      BY <1>3, <1>7, <3>1, <3>2
  <2>2. ASSUME NEW k \in 1..(n - 2)
        PROVE  nodes'[breadcrumbs'[k]].start + cumWidth'[k] <= nodes'[breadcrumbs'[k + 1]].start
    <3>1. k \in 1..(n - 1) /\ k + 1 \in 1..(n - 1) /\ k \in 1..n /\ k + 1 \in 1..n
      BY <1>1
    <3>2. nodes[breadcrumbs[k]].start + cumWidth[k] <= nodes[breadcrumbs[k + 1]].start
      BY <3>1 DEF Telescope
    <3>3. QED
      BY <1>3, <1>5, <1>7, <3>1, <3>2
  <2>3. nodes'[breadcrumbs[n - 1]].start + cumWidth'[n - 1] <= Position'
    <3>1. nodes[breadcrumbs[n]].start + cumWidth[n] <= Position
      BY <1>1 DEF Telescope
    <3>2. nodes[breadcrumbs[n - 1]].start + cumWidth[n - 1] <= nodes[breadcrumbs[n]].start
      <4>1. n - 1 \in 1..(n - 1) /\ (n - 1) + 1 = n
        BY <1>1
      <4>2. QED
        BY <4>1 DEF Telescope
    <3>3. /\ nodes[breadcrumbs[n]].start \in Nat /\ nodes[breadcrumbs[n - 1]].start \in Nat
          /\ cumWidth[n] \in Nat /\ cumWidth[n - 1] \in Nat
          /\ nodes'[breadcrumbs[n - 1]].start = nodes[breadcrumbs[n - 1]].start
      BY <1>1, <1>2, <1>7
    <3>4. cumWidth'[n - 1] = cumWidth[n - 1] + cumWidth[n] + w
      BY <1>5
    <3>5. nodes[breadcrumbs[n - 1]].start + (cumWidth[n - 1] + cumWidth[n]) <= Position
      BY ONLY <3>1, <3>2, <3>3, Position \in Nat
    <3>6. QED
      BY <3>3, <3>4, <3>5
  <2>4. Len(breadcrumbs') - 1 = n - 2
    BY <1>1, <1>3
  <2>5. QED
    BY <1>9, <2>1, <2>2, <2>3, <2>4 DEF Telescope
<1>11. QED
  BY <1>8, <1>10

(* The node of a tag that closes ends where the input has been read to, at  *)
(* the latest.                                                             *)
LEMMA EndKeeps ==
  ASSUME RecordsOK, LinksOK, StacksOK, NodesInside, RangesOK, NEW p \in NodeIds, NEW v \in Nat,
         nodes[p].start <= v, v <= Position', Position \in Nat, Position' \in Nat,
         Position <= Position',
         nodes' = [nodes EXCEPT ![p].end = v], attributes' = attributes, lastNode' \in NodeIds
  PROVE  /\ nodes' \in Seq(NodeRecord) /\ nodes' # <<>> /\ Len(nodes') = Len(nodes)
         /\ StartsKept /\ LinksOK' /\ NodesInside' /\ RangesOK'
<1>1. /\ nodes \in Seq(NodeRecord) /\ Linked(nodes, Len(nodes)) /\ Len(nodes) \in Nat \ {0}
      /\ \A i \in NodeIds : nodes[i].start \in Nat /\ nodes[i].end \in Nat
  BY ArenaFacts, NodeFields DEF RecordsOK, LinksOK, Linked, Links, NodeIds
<1>2. /\ nodes' \in Seq(NodeRecord) /\ Len(nodes') = Len(nodes) /\ Linked(nodes', Len(nodes))
      /\ \A i \in NodeIds :
           /\ nodes'[i].start = nodes[i].start /\ nodes'[i].tag = nodes[i].tag
           /\ nodes'[i].attrStart = nodes[i].attrStart /\ nodes'[i].attrLen = nodes[i].attrLen
           /\ nodes'[i].end = IF i = p THEN v ELSE nodes[i].end
  <2> DEFINE ms == [nodes EXCEPT ![p].end = v]
  <2>1. /\ ms \in Seq(NodeRecord) /\ Len(ms) = Len(nodes) /\ Linked(ms, Len(nodes))
        /\ \A i \in 1..Len(nodes) :
             /\ ms[i].start = nodes[i].start /\ ms[i].tag = nodes[i].tag
             /\ ms[i].attrStart = nodes[i].attrStart /\ ms[i].attrLen = nodes[i].attrLen
             /\ ms[i].end = IF i = p THEN v ELSE nodes[i].end
    <3>1. p \in 1..Len(nodes)
      BY DEF NodeIds
    <3>2. QED
      BY ONLY <1>1, <3>1, v \in Nat, EndFacts
  <2>2. nodes' = ms
    OBVIOUS
  <2> HIDE DEF ms
  <2>3. QED
    BY <2>1, <2>2 DEF NodeIds
<1>3. NodeIds' = NodeIds
  BY <1>2 DEF NodeIds
<1>4. StartsKept
  BY <1>1, <1>2 DEF StartsKept
<1>5. nodes' # <<>>
  BY <1>1, <1>2, EmptySeq
<1>6. LinksOK'
  BY <1>2, <1>3 DEF LinksOK, Linked, Links, NodeIds
<1>7. NodesInside'
  <2>1. ASSUME NEW i \in NodeIds
        PROVE  nodes'[i].start <= nodes'[i].end /\ nodes'[i].end <= Position'
    BY <1>1, <1>2 DEF NodesInside
  <2>2. QED
    BY <1>3, <2>1 DEF NodesInside
<1>8. RangesOK'
  <2>1. \A i : AttributesOf(i)' = AttributesOf(i)
    BY DEF AttributesOf
  <2>2. QED
    BY <1>2, <1>3, <2>1 DEF RangesOK
<1>9. QED
  BY <1>2, <1>4, <1>5, <1>6, <1>7, <1>8

-----------------------------------------------------------------------------
(* Limits *)

LEMMA SettingFacts ==
  ASSUME RecordsOK
  PROVE  /\ setting.maxNodes \in Nat /\ setting.maxAttributes \in Nat
         /\ setting.maxParseDepth \in Nat
  BY ParserAssumption DEF RecordsOK

LEMMA RoomFacts ==
  ASSUME RecordsOK, ArenasOK
  PROVE  /\ RoomForNode => (setting.maxNodes > 0 => Len(nodes) + 1 <= setting.maxNodes)
         /\ ~RoomForNode => Len(nodes) = setting.maxNodes
         /\ RoomForAttribute =>
              (setting.maxAttributes > 0 => Len(attributes) + 1 <= setting.maxAttributes)
<1>1. /\ setting.maxNodes \in Nat /\ setting.maxAttributes \in Nat
      /\ Len(nodes) \in Nat /\ Len(attributes) \in Nat
  BY SettingFacts, ArenaFacts
<1>2. QED
  BY <1>1 DEF ArenasOK, RoomForNode, RoomForAttribute

(* The step warns of the limits in `new', as far as that was not done. *)
Warns(new) ==
  /\ warnedLimits' = warnedLimits \cup new
  /\ \A limit \in LimitIssue :
       /\ Issues(limit) \in Nat
       /\ Issues(limit)' = Issues(limit) + (IF limit \in new \ warnedLimits THEN 1 ELSE 0)

LEMMA WarnsKeeps ==
  ASSUME LimitsReported, Running, NEW new \in SUBSET LimitIssue, Warns(new)
  PROVE  /\ warnedLimits' \subseteq LimitIssue
         /\ \A limit \in LimitIssue :
              /\ Issues(limit)' <= 1
              /\ Issues(limit)' = 1 <=> limit \in warnedLimits'
              /\ Issues(limit)' = 1 <=> Issues(limit) = 1 \/ limit \in new
<1>1. warnedLimits \subseteq LimitIssue /\ warnedLimits' = warnedLimits \cup new
  BY DEF LimitsReported, Warns
<1>2. ASSUME NEW limit \in LimitIssue
      PROVE  /\ Issues(limit)' <= 1
             /\ Issues(limit)' = 1 <=> limit \in warnedLimits'
             /\ Issues(limit)' = 1 <=> Issues(limit) = 1 \/ limit \in new
  <2>1. /\ Issues(limit) \in Nat /\ Issues(limit) <= 1
        /\ Issues(limit) = 1 <=> limit \in warnedLimits
        /\ Issues(limit)' = Issues(limit) + (IF limit \in new \ warnedLimits THEN 1 ELSE 0)
    BY DEF LimitsReported, Warns
  <2>2. QED
    BY <1>1, <2>1
<1>3. QED
  BY <1>1, <1>2

(* What a token does to the attributes: they are of no concern to it, or it *)
(* is one and gets its place, or it is left out and that is warned of.     *)
AttributeStep(tok, new) ==
  \/ /\ tok.type # "attribute" /\ "MaxAttributesExceeded" \notin new
     /\ Len(attributes') = Len(attributes)
  \/ /\ tok.type = "attribute" /\ "MaxAttributesExceeded" \notin new
     /\ RoomForAttribute /\ Len(attributes') = Len(attributes) + 1
  \/ /\ tok.type = "attribute" /\ "MaxAttributesExceeded" \in new
     /\ Len(attributes') = Len(attributes)

LEMMA LimitsKeep ==
  ASSUME RecordsOK, ArenasOK, LimitsReported, Running, Running', setting' = setting,
         NEW tok, Reads(tok), NEW new \in SUBSET LimitIssue, Warns(new),
         Len(nodes') \in Nat, Len(nodes) <= Len(nodes'),
         setting.maxNodes > 0 => Len(nodes') <= setting.maxNodes,
         "MaxNodesExceeded" \in new => Len(nodes') = setting.maxNodes,
         AttributeStep(tok, new)
  PROVE  ArenasOK' /\ LimitsReported'
<1>1. /\ setting.maxNodes \in Nat /\ setting.maxAttributes \in Nat
      /\ Len(nodes) \in Nat \ {0} /\ Len(attributes) \in Nat
  BY SettingFacts, ArenaFacts
<1>2. /\ AttributeTokens \in Nat
      /\ AttributeTokens' = AttributeTokens + (IF tok.type = "attribute" THEN 1 ELSE 0)
  BY ReadFacts
<1>3. Len(attributes) <= AttributeTokens
      /\ (setting.maxAttributes > 0 => Len(attributes) <= setting.maxAttributes)
      /\ (Issues("MaxAttributesExceeded") = 1 <=> Len(attributes) < AttributeTokens)
      /\ (Issues("MaxNodesExceeded") = 1 => Len(nodes) = setting.maxNodes)
  BY DEF ArenasOK, LimitsReported
<1>4. /\ warnedLimits' \subseteq LimitIssue
      /\ \A limit \in LimitIssue :
           /\ Issues(limit)' <= 1
           /\ Issues(limit)' = 1 <=> limit \in warnedLimits'
           /\ Issues(limit)' = 1 <=> Issues(limit) = 1 \/ limit \in new
  BY WarnsKeeps
<1>5. /\ Issues("MaxNodesExceeded")' = 1
           <=> Issues("MaxNodesExceeded") = 1 \/ "MaxNodesExceeded" \in new
      /\ Issues("MaxAttributesExceeded")' = 1
           <=> Issues("MaxAttributesExceeded") = 1 \/ "MaxAttributesExceeded" \in new
  BY <1>4 DEF LimitIssue
<1>6. ArenasOK'
  <2>1. setting.maxAttributes > 0 => Len(attributes') <= setting.maxAttributes
    BY <1>1, <1>3, RoomFacts DEF AttributeStep
  <2>2. Len(attributes') <= AttributeTokens'
    BY <1>1, <1>2, <1>3 DEF AttributeStep
  <2>3. QED
    BY <2>1, <2>2 DEF ArenasOK
<1>7. Issues("MaxAttributesExceeded")' = 1 <=> Len(attributes') < AttributeTokens'
  BY <1>1, <1>2, <1>3, <1>5 DEF AttributeStep
<1>8. Issues("MaxNodesExceeded")' = 1 => Len(nodes') = setting.maxNodes
  BY <1>1, <1>3, <1>5
<1>9. LimitsReported'
  BY <1>4, <1>7, <1>8 DEF LimitsReported
<1>10. QED
  BY <1>6, <1>9

-----------------------------------------------------------------------------
(* Open tags *)

LEMMA OpenedSame ==
  ASSUME OpenedOnce, DepthKept, Running, phase' = phase, setting' = setting,
         stack' = stack, openedTags' = openedTags, maxDepth' = maxDepth
  PROVE  OpenedOnce' /\ DepthKept'
<1>1. phase # "done"
  BY DEF Running
<1>2. OpenedOnce'
  BY DEF OpenedOnce
<1>3. DepthKept'
  BY <1>1 DEF DepthKept, Running
<1>4. QED
  BY <1>2, <1>3

LEMMA OpenedPushed ==
  ASSUME RecordsOK, StacksOK, OpenedOnce, DepthKept, Running, phase' = phase,
         setting' = setting, NEW t \in Tag, t \notin openedTags, RoomForDepth,
         stack' = Append(stack, t), openedTags' = openedTags \cup {t},
         maxDepth' = IF Len(stack') > maxDepth THEN Len(stack') ELSE maxDepth
  PROVE  OpenedOnce' /\ DepthKept' /\ maxDepth' \in Nat \ {0}
<1> DEFINE n == Len(stack)
<1>1. n \in Nat /\ stack \in Seq(Tag) /\ maxDepth \in Nat \ {0} /\ setting.maxParseDepth \in Nat
  BY StackFacts, SettingFacts DEF StacksOK, RecordsOK
<1>2. /\ Len(stack') = n + 1 /\ stack'[n + 1] = t
      /\ \A k \in 1..n : stack'[k] = stack[k]
  BY <1>1, AppendProperties
<1>3. OpenedOnce'
  <2>1. openedTags' = {stack'[k] : k \in 1..(n + 1)}
    <3>1. openedTags = {stack[k] : k \in 1..n}
      BY DEF OpenedOnce
    <3>2. 1..(n + 1) = 1..n \cup {n + 1}
      BY <1>1
    <3>3. QED
      BY <1>2, <3>1, <3>2
  <2>2. ASSUME NEW k \in 1..(n + 1), NEW l \in 1..(n + 1), stack'[k] = stack'[l]
        PROVE  k = l
    <3>1. \A j \in 1..n : stack[j] # t
      BY DEF OpenedOnce
    <3>2. CASE k \in 1..n /\ l \in 1..n
      BY <1>2, <2>2, <3>2 DEF OpenedOnce
    <3>3. CASE k = n + 1 \/ l = n + 1
      BY <1>1, <1>2, <2>2, <3>1, <3>3
    <3>4. QED
      BY <1>1, <3>2, <3>3
  <2>3. QED
    BY <1>2, <2>1, <2>2 DEF OpenedOnce
<1>4. n <= maxDepth /\ (setting.maxParseDepth > 0 => maxDepth <= setting.maxParseDepth)
  BY DEF DepthKept
<1>5. DepthKept'
  <2>1. Len(stack') <= maxDepth'
    BY <1>1, <1>2, <1>4
  <2>2. setting.maxParseDepth > 0 => maxDepth' <= setting.maxParseDepth
    BY <1>1, <1>2, <1>4 DEF RoomForDepth
  <2>3. phase' # "done"
    BY DEF Running
  <2>4. QED
    BY <2>1, <2>2, <2>3 DEF DepthKept
<1>6. QED
  BY <1>1, <1>2, <1>3, <1>5

LEMMA OpenedPopped ==
  ASSUME RecordsOK, StacksOK, OpenedOnce, DepthKept, Running, phase' = phase,
         setting' = setting, Len(stack) > 0, stack' = Front(stack),
         openedTags' = openedTags \ {Top}, maxDepth' = maxDepth
  PROVE  OpenedOnce' /\ DepthKept'
<1> DEFINE n == Len(stack)
<1>1. n \in Nat \ {0} /\ stack \in Seq(Tag) /\ stack # <<>> /\ maxDepth \in Nat
  BY StackFacts DEF StacksOK, RecordsOK
<1>2. Len(stack') = n - 1 /\ \A k \in 1..(n - 1) : stack'[k] = stack[k]
  BY <1>1, FrontFacts
<1>3. Top = stack[n]
  BY <1>1 DEF Top, Last
<1>4. OpenedOnce'
  <2>1. openedTags' = {stack'[k] : k \in 1..(n - 1)}
    <3>1. openedTags = {stack[k] : k \in 1..n}
      BY DEF OpenedOnce
    <3>2. \A k \in 1..(n - 1) : stack[k] # stack[n]
      BY <1>1 DEF OpenedOnce
    <3>3. 1..n = 1..(n - 1) \cup {n}
      BY <1>1
    <3>4. QED
      BY <1>2, <1>3, <3>1, <3>2, <3>3
  <2>2. \A k, l \in 1..(n - 1) : stack'[k] = stack'[l] => k = l
    BY <1>1, <1>2 DEF OpenedOnce
  <2>3. QED
    BY <1>2, <2>1, <2>2 DEF OpenedOnce
<1>5. DepthKept'
  BY <1>1, <1>2 DEF DepthKept, Running
<1>6. QED
  BY <1>4, <1>5

-----------------------------------------------------------------------------
(* The warnings of a step *)

LEMMA NoWarningKeeps ==
  ASSUME WarningsOK, warns' = warns, raised' = raised, warnedLimits' = warnedLimits
  PROVE  WarningsOK' /\ Warns({})
<1>1. WarningsOK'
  BY DEF WarningsOK, WarningsReported
<1>2. \A limit \in LimitIssue : Issues(limit) \in Nat /\ Issues(limit)' = Issues(limit)
  BY CountIsNat DEF WarningsOK, Issues, IssueCount
<1>3. QED
  BY <1>1, <1>2 DEF Warns

LEMMA WarnKeeps ==
  ASSUME WarningsOK, NEW items, Unlimiting(items), Warn(items), warnedLimits' = warnedLimits
  PROVE  WarningsOK' /\ Warns({})
<1>1. WarningsOK' /\ \A limit \in LimitIssue : Issues(limit)' = Issues(limit)
  BY WarnFacts
<1>2. \A limit \in LimitIssue : Issues(limit) \in Nat
  BY CountIsNat DEF WarningsOK, Issues, IssueCount
<1>3. QED
  BY <1>1, <1>2 DEF Warns

LEMMA WarnLimitKeeps ==
  ASSUME WarningsOK, NEW items, Unlimiting(items), NEW issue \in LimitIssue, NEW pos \in Nat,
         WarnLimit(issue, pos, items)
  PROVE  WarningsOK' /\ Warns({issue})
  BY WarnLimitFacts DEF Warns

LEMMA OneWarning ==
  ASSUME NEW issue \in Issue \ LimitIssue, NEW pos \in Nat
  PROVE  Unlimiting(<<Warning(issue, pos)>>)
  BY NewReport DEF Unlimiting

-----------------------------------------------------------------------------
(* The actions *)

(* A token that opens and closes nothing. *)
LEMMA FlatStep ==
  ASSUME IInv, Parsing, NEW tok, Reads(tok), tok.type # "attribute",
         Grows(nodes', nodes, Position, Position'), attributes' = attributes,
         lastNode' \in 1..Len(nodes'), skip' \in [Tag -> Nat],
         WarningsOK', NEW new \in SUBSET LimitIssue, Warns(new),
         "MaxAttributesExceeded" \notin new,
         setting.maxNodes > 0 => Len(nodes') <= setting.maxNodes,
         "MaxNodesExceeded" \in new => Len(nodes') = setting.maxNodes,
         breadcrumbs' = breadcrumbs, stack' = stack, openedTags' = openedTags,
         maxDepth' = maxDepth, cumWidth' = cumWidth \/ cumWidth' = Widened(tok.width)
  PROVE  IInv'
<1>1. /\ RecordsOK /\ LinksOK /\ StacksOK /\ NodesInside /\ Telescope /\ RangesOK
      /\ ArenasOK /\ LimitsReported /\ OpenedOnce /\ DepthKept
  BY DEF IInv
<1>2. phase = "tokens" /\ phase' = phase /\ setting' = setting
  BY DEF Parsing
<1>3. Running /\ Running'
  BY <1>2 DEF Running
<1>4. nodes' \in Seq(NodeRecord) /\ nodes' # <<>> /\ LinksOK' /\ NodesInside' /\ RangesOK'
  BY <1>1, GrowthKeeps
<1>5. StartsKept /\ Len(nodes') \in Nat /\ Len(nodes) <= Len(nodes')
  BY <1>4, GrowthStarts, LenProperties DEF StartsKept
<1>6. StacksOK' /\ Telescope'
  BY <1>1, <1>5, TelescopeFlat
<1>7. OpenedOnce' /\ DepthKept'
  BY <1>1, <1>2, <1>3, OpenedSame
<1>8. AttributeStep(tok, new)
  BY DEF AttributeStep
<1>9. ArenasOK' /\ LimitsReported'
  BY <1>1, <1>2, <1>3, <1>5, <1>8, LimitsKeep
<1>10. RecordsOK'
  BY <1>1, <1>2, <1>4, ReadFacts DEF RecordsOK
<1>11. PoolIsClean'
  BY <1>2 DEF PoolIsClean
<1>12. QED
  BY <1>4, <1>6, <1>7, <1>9, <1>10, <1>11 DEF IInv

(* A token that leaves the arena alone. *)
LEMMA QuietNodes ==
  ASSUME IInv, NEW tok, Reads(tok), nodes' = nodes, lastNode' = lastNode
  PROVE  /\ Grows(nodes', nodes, Position, Position') /\ lastNode' \in 1..Len(nodes')
         /\ setting.maxNodes > 0 => Len(nodes') <= setting.maxNodes
<1>1. RecordsOK /\ LinksOK /\ ArenasOK
  BY DEF IInv
<1>2. nodes \in Seq(NodeRecord) /\ Linked(nodes, Len(nodes))
  BY <1>1 DEF RecordsOK, LinksOK, Linked, Links, NodeIds
<1>3. \A low, high : Grows(nodes, nodes, low, high)
  BY <1>2, GrowsByNone
<1>4. QED
  BY <1>1, <1>3 DEF LinksOK, NodeIds, ArenasOK

(* A token with a node of its own below the innermost open tag. *)
LEMMA NodeOfToken ==
  ASSUME IInv, NEW tok, Reads(tok), NEW type \in {"text", "tag"}, NEW tag \in Tag \cup {NoTag}
  PROVE  LET ms == Appended(nodes, Parent, Node(type, tag, tok.pos, tok.pos + tok.width))
         IN /\ Grows(ms, nodes, Position, Position') /\ Len(ms) = Len(nodes) + 1
            /\ ms[Len(nodes) + 1] = Node(type, tag, tok.pos, tok.pos + tok.width)
<1> DEFINE e == tok.pos + tok.width
<1>1. RecordsOK /\ StacksOK /\ LinksOK
  BY DEF IInv
<1>2. nodes \in Seq(NodeRecord) /\ Linked(nodes, Len(nodes)) /\ Parent \in 1..Len(nodes)
  BY <1>1, StackFacts DEF RecordsOK, LinksOK, Linked, Links, NodeIds
<1>3. /\ tok.pos = Position /\ Position \in Nat /\ Position' = Position + tok.width
      /\ tok.width \in Nat
  BY <1>1, ReadFacts DEF Reads, TokenRecord
<1> DEFINE node == Node(type, tag, tok.pos, e)
<1>4. tok.pos \in Nat /\ e \in Nat /\ Len(nodes) + 1 \in Nat
      /\ Position <= tok.pos /\ tok.pos <= e /\ e <= Position'
  BY <1>1, <1>3, ArenaFacts
<1>5. type \in {"root", "text", "tag"}
  OBVIOUS
<1> HIDE DEF e
<1>6. node \in NodeRecord /\ Links(node, Len(nodes) + 1)
  BY <1>4, <1>5, NodeTyped
<1>7. Between(node, Position, Position')
  BY <1>4 DEF Between, Node
<1> HIDE DEF node
<1>8. /\ Grows(Appended(nodes, Parent, node), nodes, Position, Position')
      /\ Len(Appended(nodes, Parent, node)) = Len(nodes) + 1
      /\ Appended(nodes, Parent, node)[Len(nodes) + 1] = node
  BY <1>2, <1>6, <1>7, GrowsByNode
<1>9. QED
  BY <1>8 DEF e, node

LEMMA AddTextKeeps ==
  ASSUME IInv, Parsing, NEW tok, Reads(tok), tok.type # "attribute", NEW items,
         Unlimiting(items), AddText(tok, items)
  PROVE  IInv'
<1>1. /\ RecordsOK /\ WarningsOK /\ ArenasOK /\ LinksOK
  BY DEF IInv
<1>2. /\ cumWidth' = Widened(tok.width) /\ attributes' = attributes
      /\ breadcrumbs' = breadcrumbs /\ stack' = stack /\ openedTags' = openedTags
      /\ maxDepth' = maxDepth /\ skip' = skip
  BY DEF AddText
<1>3. skip' \in [Tag -> Nat] /\ tok.pos \in Nat /\ Len(nodes) \in Nat
  BY <1>1, <1>2, ArenaFacts DEF RecordsOK, Reads, TokenRecord
<1>4. CASE /\ RoomForNode
           /\ nodes' = Appended(nodes, Parent, Node("text", NoTag, tok.pos, tok.pos + tok.width))
           /\ lastNode' = Len(nodes) + 1
           /\ Warn(items) /\ UNCHANGED warnedLimits
  <2>1. WarningsOK' /\ Warns({})
    BY <1>1, <1>4, WarnKeeps
  <2>2. Grows(nodes', nodes, Position, Position') /\ Len(nodes') = Len(nodes) + 1
    BY <1>4, NodeOfToken
  <2>3. lastNode' \in 1..Len(nodes')
    BY <1>3, <1>4, <2>2
  <2>4. setting.maxNodes > 0 => Len(nodes') <= setting.maxNodes
    BY <1>1, <1>4, <2>2, RoomFacts
  <2>5. QED
    BY <1>2, <1>3, <2>1, <2>2, <2>3, <2>4, FlatStep
<1>5. CASE /\ ~RoomForNode
           /\ WarnLimit("MaxNodesExceeded", tok.pos, items)
           /\ UNCHANGED <<nodes, lastNode>>
  <2>1. WarningsOK' /\ Warns({"MaxNodesExceeded"}) /\ {"MaxNodesExceeded"} \subseteq LimitIssue
    BY <1>1, <1>3, <1>5, WarnLimitKeeps DEF LimitIssue
  <2>2. Len(nodes') = setting.maxNodes
    BY <1>1, <1>5, RoomFacts
  <2>3. Grows(nodes', nodes, Position, Position') /\ lastNode' \in 1..Len(nodes')
        /\ (setting.maxNodes > 0 => Len(nodes') <= setting.maxNodes)
    BY <1>5, QuietNodes
  <2>4. QED
    BY <1>2, <1>3, <2>1, <2>2, <2>3, FlatStep
<1>6. QED
  BY <1>4, <1>5 DEF AddText

LEMMA TextTokenFacts ==
  ASSUME RecordsOK, NEW tok \in Tokens({"text"}), input' = Append(input, tok)
  PROVE  Reads(tok) /\ tok.type # "attribute"
<1>1. {"text"} \in SUBSET TokenType
  BY DEF TokenType
<1>2. tok \in TokenRecord /\ tok.pos = Position /\ tok.type \in {"text"}
  BY <1>1, TokenFacts
<1>3. QED
  BY <1>2 DEF Reads

LEMMA TagTokenFacts ==
  ASSUME RecordsOK, NEW tags \in SUBSET Tag, NEW tok \in Tokens(tags), input' = Append(input, tok)
  PROVE  /\ Reads(tok) /\ tok.type \in tags /\ tok.type # "attribute" /\ tok.pos \in Nat
         /\ tok.width \in Nat \ {0} /\ tok.width \in Width[tok.type]
<1>1. tags \in SUBSET TokenType
  BY DEF TokenType
<1>2. tok \in TokenRecord /\ tok.pos = Position /\ tok.type \in tags
      /\ tok.width \in Width[tok.type]
  BY <1>1, TokenFacts
<1>3. tok.type # "attribute"
  BY <1>2, ParserAssumption
<1>4. tok.pos \in Nat /\ tok.width \in Nat \ {0}
  BY <1>2 DEF TokenRecord
<1>5. QED
  BY <1>2, <1>3, <1>4 DEF Reads

LEMMA PassedOn ==
  ASSUME NEW tags \in SUBSET Tag, NEW tok \in TagTokens(tags), RecordsOK,
         input' = Append(input, tok)
  PROVE  /\ Reads(tok) /\ tok.type \in tags /\ tok.type # "attribute" /\ tok.pos \in Nat
         /\ tok.width \in Nat \ {0} /\ tok.width \in Width[tok.type]
<1> DEFINE passed == {t \in tags : skip[t] = 0}
<1>1. tok \in Tokens(passed) /\ passed \in SUBSET Tag
  BY DEF TagTokens
<1>2. passed \subseteq tags
  OBVIOUS
<1> HIDE DEF passed
<1>3. QED
  BY <1>1, <1>2, TagTokenFacts

LEMMA ProcessTextKeeps == ASSUME IInv, ProcessText PROVE IInv'
<1>1. PICK tok \in Tokens({"text"}) :
        Parsing /\ input' = Append(input, tok) /\ AddText(tok, <<>>)
  BY DEF ProcessText
<1>2. Reads(tok) /\ tok.type # "attribute"
  BY <1>1, TextTokenFacts DEF IInv
<1>3. Unlimiting(<<>>)
  BY DEF Unlimiting
<1>4. QED
  BY <1>1, <1>2, <1>3, AddTextKeeps

LEMMA MismatchedKeeps == ASSUME IInv, MismatchedClosingTag PROVE IInv'
<1>1. PICK tok \in TagTokens(Closers) :
        /\ Parsing /\ input' = Append(input, tok)
        /\ AddText(tok, <<Warning("OpenCloseTagMismatch", tok.pos)>>)
  BY DEF MismatchedClosingTag
<1>2. Closers \in SUBSET Tag
  BY DEF Closers
<1>3. Reads(tok) /\ tok.type # "attribute" /\ tok.pos \in Nat
  BY <1>1, <1>2, PassedOn DEF IInv
<1>4. Unlimiting(<<Warning("OpenCloseTagMismatch", tok.pos)>>)
  BY <1>3, OneWarning DEF Issue, LimitIssue
<1>5. QED
  BY <1>1, <1>3, <1>4, AddTextKeeps

(* A token without a node, and without a warning that a limit is reached. *)
LEMMA DiscardKeeps ==
  ASSUME IInv, Parsing, NEW tok, Reads(tok), tok.type # "attribute", Discard,
         skip' \in [Tag -> Nat], WarningsOK', Warns({})
  PROVE  IInv'
<1>1. /\ nodes' = nodes /\ attributes' = attributes /\ lastNode' = lastNode
      /\ breadcrumbs' = breadcrumbs /\ stack' = stack /\ openedTags' = openedTags
      /\ maxDepth' = maxDepth /\ cumWidth' = cumWidth
  BY DEF Discard, ast, places
<1>2. /\ Grows(nodes', nodes, Position, Position') /\ lastNode' \in 1..Len(nodes')
      /\ setting.maxNodes > 0 => Len(nodes') <= setting.maxNodes
  BY <1>1, QuietNodes
<1>3. {} \in SUBSET LimitIssue /\ "MaxNodesExceeded" \notin {} /\ "MaxAttributesExceeded" \notin {}
  OBVIOUS
<1>4. QED
  BY <1>1, <1>2, <1>3, FlatStep

LEMMA ProcessSkippedKeeps == ASSUME IInv, ProcessSkipped PROVE IInv'
<1> DEFINE skipped == {t \in Tag : skip[t] > 0}
<1>1. PICK tok \in Tokens(skipped) :
        /\ Parsing /\ input' = Append(input, tok)
        /\ skip' = [skip EXCEPT ![tok.type] = @ - 1]
        /\ Discard /\ UNCHANGED <<warns, raised>>
  BY DEF ProcessSkipped
<1>2. RecordsOK /\ WarningsOK /\ skip \in [Tag -> Nat] /\ skipped \in SUBSET Tag
  BY DEF IInv, RecordsOK
<1>3. Reads(tok) /\ tok.type # "attribute" /\ tok.type \in skipped
  <2> HIDE DEF skipped
  <2>1. QED
    BY <1>1, <1>2, TagTokenFacts
<1>4. skip' \in [Tag -> Nat]
  BY <1>1, <1>2, <1>3
<1>5. WarningsOK' /\ Warns({})
  BY <1>1, <1>2, NoWarningKeeps DEF Discard
<1>6. QED
  BY <1>1, <1>3, <1>4, <1>5, DiscardKeeps

LEMMA OpenersFacts ==
  /\ Openers \in SUBSET Tag /\ Closers \in SUBSET Tag
  /\ \A t \in Openers : CloseID[t] \in Tag
<1>1. ASSUME NEW t \in Openers PROVE CloseID[t] \in Tag
  <2>1. t \in Tag /\ (IsOpening(t) \/ IsUniversal(t)) /\ CloseID[t] \in Tag \cup {NoTag}
    BY ParserAssumption DEF Openers
  <2>2. QED
    BY <2>1 DEF IsOpening, IsUniversal
<1>2. QED
  BY <1>1 DEF Openers, Closers

LEMMA SkipCloserKeeps ==
  ASSUME IInv, NEW t \in Openers, SkipCloser(t)
  PROVE  skip' \in [Tag -> Nat]
<1>1. skip \in [Tag -> Nat] /\ CloseID[t] \in Tag
  BY OpenersFacts DEF IInv, RecordsOK
<1>2. QED
  BY <1>1 DEF SkipCloser

LEMMA DuplicateKeeps == ASSUME IInv, DuplicateNestedTag PROVE IInv'
<1>1. PICK tok \in TagTokens(Openers) :
        /\ Parsing /\ input' = Append(input, tok)
        /\ Warn(<<Warning("DuplicateNestedTag", tok.pos)>>)
        /\ SkipCloser(tok.type) /\ Discard
  BY DEF DuplicateNestedTag
<1>2. Reads(tok) /\ tok.type # "attribute" /\ tok.pos \in Nat /\ tok.type \in Openers
  BY <1>1, OpenersFacts, PassedOn DEF IInv
<1>3. skip' \in [Tag -> Nat]
  BY <1>1, <1>2, SkipCloserKeeps
<1>4. Unlimiting(<<Warning("DuplicateNestedTag", tok.pos)>>)
  BY <1>2, OneWarning DEF Issue, LimitIssue
<1>5. WarningsOK' /\ Warns({})
  BY <1>1, <1>4, WarnKeeps DEF Discard, IInv
<1>6. QED
  BY <1>1, <1>2, <1>3, <1>5, DiscardKeeps

LEMMA MisplacedKeeps == ASSUME IInv, MisplacedClosingTag PROVE IInv'
<1>1. PICK tok \in TagTokens(Closers) :
        /\ Parsing /\ input' = Append(input, tok)
        /\ Warn(<<Warning("MisplacedClosingTag", tok.pos)>>)
        /\ skip' = skip /\ Discard
  BY DEF MisplacedClosingTag
<1>2. Reads(tok) /\ tok.type # "attribute" /\ tok.pos \in Nat
  BY <1>1, OpenersFacts, PassedOn DEF IInv
<1>3. skip' \in [Tag -> Nat]
  BY <1>1 DEF IInv, RecordsOK
<1>4. Unlimiting(<<Warning("MisplacedClosingTag", tok.pos)>>)
  BY <1>2, OneWarning DEF Issue, LimitIssue
<1>5. WarningsOK' /\ Warns({})
  BY <1>1, <1>4, WarnKeeps DEF Discard, IInv
<1>6. QED
  BY <1>1, <1>2, <1>3, <1>5, DiscardKeeps

LEMMA RefuseKeeps == ASSUME IInv, RefuseTag PROVE IInv'
<1> DEFINE issue == IF RoomForDepth THEN "MaxNodesExceeded" ELSE "MaxParseDepthExceeded"
<1>1. PICK tok \in TagTokens(Openers) :
        /\ ~(RoomForDepth /\ RoomForNode)
        /\ Parsing /\ input' = Append(input, tok)
        /\ WarnLimit(issue, tok.pos, <<>>)
        /\ cumWidth' = Widened(tok.width)
        /\ SkipCloser(tok.type)
        /\ UNCHANGED <<ast, breadcrumbs, stack, openedTags, maxDepth, lastNode>>
  BY DEF RefuseTag
<1>2. Reads(tok) /\ tok.type # "attribute" /\ tok.pos \in Nat /\ tok.type \in Openers
  BY <1>1, OpenersFacts, PassedOn DEF IInv
<1>3. skip' \in [Tag -> Nat]
  BY <1>1, <1>2, SkipCloserKeeps
<1>4. issue \in LimitIssue /\ issue # "MaxAttributesExceeded" /\ Unlimiting(<<>>)
  BY DEF LimitIssue, Unlimiting
<1>5. issue = "MaxNodesExceeded" => ~RoomForNode
  BY <1>1
<1> HIDE DEF issue
<1>6. WarningsOK' /\ Warns({issue})
  BY <1>1, <1>2, <1>4, WarnLimitKeeps DEF IInv
<1>7. /\ nodes' = nodes /\ attributes' = attributes /\ lastNode' = lastNode
      /\ breadcrumbs' = breadcrumbs /\ stack' = stack /\ openedTags' = openedTags
      /\ maxDepth' = maxDepth
  BY <1>1 DEF ast
<1>8. /\ Grows(nodes', nodes, Position, Position') /\ lastNode' \in 1..Len(nodes')
      /\ setting.maxNodes > 0 => Len(nodes') <= setting.maxNodes
  BY <1>2, <1>7, QuietNodes
<1>9. "MaxNodesExceeded" \in {issue} => Len(nodes') = setting.maxNodes
  BY <1>5, <1>7, RoomFacts DEF IInv
<1>10. {issue} \in SUBSET LimitIssue /\ "MaxAttributesExceeded" \notin {issue}
  BY <1>4
<1>11. QED
  BY <1>1, <1>2, <1>3, <1>6, <1>7, <1>8, <1>9, <1>10, FlatStep

(* appendGreedyNode: the tag's node and, if there is room, its payload's.   *)
LEMMA GreedyKeeps == ASSUME IInv, GreedyNode PROVE IInv'
<1>1. PICK tok \in TagTokens(Greedy) :
        /\ Parsing /\ input' = Append(input, tok) /\ cumWidth' = Widened(tok.width)
        /\ attributes' = attributes /\ breadcrumbs' = breadcrumbs /\ stack' = stack
        /\ openedTags' = openedTags /\ maxDepth' = maxDepth /\ skip' = skip
        /\ LET tag     == Node("tag", tok.type, tok.pos, tok.pos + tok.width)
               payload == Node("text", NoTag, PayloadStart(tok), PayloadEnd(tok))
               tagged  == Appended(nodes, Parent, tag)
               n       == Len(nodes) + 1
           IN \/ /\ RoomForNode /\ (setting.maxNodes = 0 \/ n < setting.maxNodes)
                 /\ nodes' = Appended(tagged, n, payload)
                 /\ lastNode' = n + 1
                 /\ NoWarning
              \/ /\ RoomForNode /\ n = setting.maxNodes
                 /\ nodes' = tagged
                 /\ lastNode' = n
                 /\ WarnLimit("MaxNodesExceeded", PayloadStart(tok), <<>>)
              \/ /\ ~RoomForNode
                 /\ UNCHANGED <<nodes, lastNode>>
                 /\ WarnLimit("MaxNodesExceeded", tok.pos, <<>>)
  BY DEF GreedyNode
<1> DEFINE n       == Len(nodes) + 1
           node    == Node("tag", tok.type, tok.pos, tok.pos + tok.width)
           payload == Node("text", NoTag, PayloadStart(tok), PayloadEnd(tok))
           tagged  == Appended(nodes, Parent, node)
           pair    == Appended(tagged, n, payload)
<1>2. /\ Parsing /\ input' = Append(input, tok) /\ cumWidth' = Widened(tok.width)
      /\ attributes' = attributes /\ breadcrumbs' = breadcrumbs /\ stack' = stack
      /\ openedTags' = openedTags /\ maxDepth' = maxDepth /\ skip' = skip
      /\ \/ /\ RoomForNode /\ (setting.maxNodes = 0 \/ n < setting.maxNodes)
            /\ nodes' = pair /\ lastNode' = n + 1 /\ NoWarning
         \/ /\ RoomForNode /\ n = setting.maxNodes
            /\ nodes' = tagged /\ lastNode' = n
            /\ WarnLimit("MaxNodesExceeded", PayloadStart(tok), <<>>)
         \/ /\ ~RoomForNode /\ nodes' = nodes /\ lastNode' = lastNode
            /\ WarnLimit("MaxNodesExceeded", tok.pos, <<>>)
  BY <1>1
<1>3. Greedy \in SUBSET Tag
  BY ParserAssumption
<1>4. RecordsOK /\ WarningsOK /\ ArenasOK /\ StacksOK /\ LinksOK
  BY DEF IInv
<1>5. /\ Reads(tok) /\ tok.type \in Greedy /\ tok.type # "attribute" /\ tok.pos \in Nat
      /\ tok.width \in Nat /\ tok.width \in Width[tok.type]
  BY <1>2, <1>3, <1>4, PassedOn
<1>6. tok.width >= 2
  BY <1>5, ParserAssumption
<1>7. skip' \in [Tag -> Nat] /\ n \in Nat
  BY <1>2, <1>4, ArenaFacts DEF RecordsOK
<1>8. Grows(tagged, nodes, Position, Position') /\ Len(tagged) = n
  BY <1>3, <1>5, NodeOfToken
<1>9. Grows(pair, nodes, Position, Position') /\ Len(pair) = n + 1
  <2>1. tagged \in Seq(NodeRecord) /\ Linked(tagged, Len(tagged))
    BY <1>8 DEF Grows
  <2>2. Position' = Position + tok.width /\ Position \in Nat /\ tok.pos = Position
    BY <1>4, <1>5, ReadFacts DEF Reads
  <2>3. PayloadStart(tok) \in Nat /\ PayloadEnd(tok) \in Nat
        /\ Position <= PayloadStart(tok) /\ PayloadStart(tok) <= PayloadEnd(tok)
        /\ PayloadEnd(tok) <= Position'
    BY <1>5, <1>6, <2>2 DEF PayloadStart, PayloadEnd
  <2> HIDE DEF tagged
  <2>4. n + 1 = Len(tagged) + 1 /\ n \in 1..Len(tagged) /\ n + 1 \in Nat
    BY <1>7, <1>8, ArenaFacts, <1>4
  <2>5. payload \in NodeRecord /\ Links(payload, Len(tagged) + 1)
    BY <2>3, <2>4, NodeTyped
  <2>6. Between(payload, Position, Position')
    BY <2>3 DEF Between, Node
  <2> HIDE DEF payload
  <2>7. Grows(pair, tagged, Position, Position') /\ Len(pair) = Len(tagged) + 1
    BY <2>1, <2>4, <2>5, <2>6, GrowsByNode
  <2> HIDE DEF pair
  <2>8. nodes \in Seq(NodeRecord)
    BY <1>4 DEF RecordsOK
  <2>9. Grows(pair, nodes, Position, Position')
    BY <1>8, <2>7, <2>8, GrowsTwice
  <2>10. QED
    BY <1>8, <2>7, <2>9
<1>10. PayloadStart(tok) \in Nat /\ Unlimiting(<<>>)
  BY <1>5 DEF PayloadStart, Unlimiting
<1>11. "MaxNodesExceeded" \in LimitIssue
  BY DEF LimitIssue
<1> HIDE DEF pair, tagged
<1>12. CASE /\ RoomForNode /\ (setting.maxNodes = 0 \/ n < setting.maxNodes)
            /\ nodes' = pair /\ lastNode' = n + 1 /\ NoWarning
  <2>1. WarningsOK' /\ Warns({})
    BY <1>4, <1>12, NoWarningKeeps DEF NoWarning
  <2>2. lastNode' \in 1..Len(nodes') /\ (setting.maxNodes > 0 => Len(nodes') <= setting.maxNodes)
    BY <1>4, <1>7, <1>9, <1>12, SettingFacts
  <2>3. Grows(nodes', nodes, Position, Position')
    BY <1>9, <1>12
  <2>4. {} \in SUBSET LimitIssue
    OBVIOUS
  <2> HIDE DEF n
  <2>5. QED
    BY <1>2, <1>5, <1>7, <2>1, <2>2, <2>3, <2>4, FlatStep
<1>13. CASE /\ RoomForNode /\ n = setting.maxNodes
            /\ nodes' = tagged /\ lastNode' = n
            /\ WarnLimit("MaxNodesExceeded", PayloadStart(tok), <<>>)
  <2>1. WarningsOK' /\ Warns({"MaxNodesExceeded"})
    BY <1>4, <1>10, <1>11, <1>13, WarnLimitKeeps
  <2>2. lastNode' \in 1..Len(nodes') /\ Len(nodes') = setting.maxNodes
        /\ (setting.maxNodes > 0 => Len(nodes') <= setting.maxNodes)
    BY <1>4, <1>7, <1>8, <1>13, SettingFacts, ArenaFacts
  <2>3. Grows(nodes', nodes, Position, Position')
    BY <1>8, <1>13
  <2>4. {"MaxNodesExceeded"} \in SUBSET LimitIssue
    BY <1>11
  <2> HIDE DEF n
  <2>5. QED
    BY <1>2, <1>5, <1>7, <2>1, <2>2, <2>3, <2>4, FlatStep
<1>14. CASE /\ ~RoomForNode /\ nodes' = nodes /\ lastNode' = lastNode
            /\ WarnLimit("MaxNodesExceeded", tok.pos, <<>>)
  <2>1. WarningsOK' /\ Warns({"MaxNodesExceeded"})
    BY <1>4, <1>5, <1>10, <1>11, <1>14, WarnLimitKeeps
  <2>2. Grows(nodes', nodes, Position, Position') /\ lastNode' \in 1..Len(nodes')
        /\ (setting.maxNodes > 0 => Len(nodes') <= setting.maxNodes)
    BY <1>5, <1>14, QuietNodes
  <2>3. Len(nodes') = setting.maxNodes
    BY <1>4, <1>14, RoomFacts
  <2>4. {"MaxNodesExceeded"} \in SUBSET LimitIssue
    BY <1>11
  <2> HIDE DEF n
  <2>5. QED
    BY <1>2, <1>5, <1>7, <2>1, <2>2, <2>3, <2>4, FlatStep
<1>15. QED
  BY <1>2, <1>12, <1>13, <1>14

LEMMA OpenTagKeeps == ASSUME IInv, OpenTag PROVE IInv'
<1>1. PICK tok \in TagTokens(Openers) :
        /\ ~IsOpenAnywhere(tok.type) /\ RoomForDepth /\ RoomForNode
        /\ Parsing /\ input' = Append(input, tok)
        /\ nodes' = Appended(nodes, Parent, Node("tag", tok.type, tok.pos, tok.pos + tok.width))
        /\ breadcrumbs' = Append(breadcrumbs, Len(nodes) + 1)
        /\ stack' = Append(stack, tok.type)
        /\ cumWidth' = Append(cumWidth, tok.width)
        /\ openedTags' = openedTags \cup {tok.type}
        /\ maxDepth' = IF Len(stack') > maxDepth THEN Len(stack') ELSE maxDepth
        /\ lastNode' = Len(nodes) + 1
        /\ NoWarning /\ attributes' = attributes /\ skip' = skip
  BY DEF OpenTag
<1>2. /\ RecordsOK /\ LinksOK /\ StacksOK /\ WarningsOK /\ NodesInside /\ Telescope
      /\ RangesOK /\ ArenasOK /\ LimitsReported /\ OpenedOnce /\ DepthKept
  BY DEF IInv
<1>3. /\ Reads(tok) /\ tok.type # "attribute" /\ tok.pos \in Nat /\ tok.type \in Tag
      /\ tok.pos = Position
  BY <1>1, <1>2, OpenersFacts, PassedOn DEF Reads
<1>4. phase = "tokens" /\ phase' = phase /\ setting' = setting /\ Running /\ Running'
  BY <1>1 DEF Parsing, Running
<1>5. /\ Grows(nodes', nodes, Position, Position') /\ Len(nodes') = Len(nodes) + 1
      /\ nodes'[Len(nodes) + 1] = Node("tag", tok.type, tok.pos, tok.pos + tok.width)
  BY <1>1, <1>3, NodeOfToken
<1>6. nodes'[Len(nodes) + 1].start = Position
  BY <1>3, <1>5 DEF Node
<1>7. Len(nodes) \in Nat /\ lastNode' \in 1..Len(nodes')
  BY <1>1, <1>2, <1>5, ArenaFacts
<1>8. nodes' \in Seq(NodeRecord) /\ nodes' # <<>> /\ LinksOK' /\ NodesInside' /\ RangesOK'
  BY <1>1, <1>2, <1>3, <1>5, <1>7, GrowthKeeps
<1>9. StacksOK' /\ Telescope'
  BY <1>1, <1>2, <1>3, <1>5, <1>6, GrowthStarts, TelescopeOpened
<1>10. OpenedOnce' /\ DepthKept' /\ maxDepth' \in Nat \ {0}
  BY <1>1, <1>2, <1>3, <1>4, OpenedPushed DEF IsOpenAnywhere
<1>11. WarningsOK' /\ Warns({})
  BY <1>1, <1>2, NoWarningKeeps DEF NoWarning
<1>12. ArenasOK' /\ LimitsReported'
  <2>1. AttributeStep(tok, {}) /\ {} \in SUBSET LimitIssue
    BY <1>1, <1>3 DEF AttributeStep
  <2>2. setting.maxNodes > 0 => Len(nodes') <= setting.maxNodes
    BY <1>1, <1>2, <1>5, RoomFacts
  <2>3. Len(nodes') \in Nat /\ Len(nodes) <= Len(nodes')
    BY <1>5, <1>7
  <2>4. QED
    BY <1>2, <1>3, <1>4, <1>11, <2>1, <2>2, <2>3, LimitsKeep
<1>13. RecordsOK'
  BY <1>1, <1>2, <1>3, <1>4, <1>8, <1>10, ReadFacts DEF RecordsOK
<1>14. PoolIsClean'
  BY <1>4 DEF PoolIsClean
<1>15. QED
  BY <1>8, <1>9, <1>10, <1>11, <1>12, <1>13, <1>14 DEF IInv

(* closeTag, on the innermost open tag. *)
LEMMA PopKeeps ==
  ASSUME IInv, Running, phase' = phase, setting' = setting, Len(breadcrumbs) > 1,
         NEW w \in Nat, PopTag(w), Position \in Nat, Position' = Position + w,
         attributes' = attributes, lastNode' \in NodeIds
  PROVE  /\ nodes' \in Seq(NodeRecord) /\ nodes' # <<>> /\ Len(nodes') = Len(nodes)
         /\ LinksOK' /\ NodesInside' /\ RangesOK' /\ StacksOK' /\ Telescope'
         /\ OpenedOnce' /\ DepthKept'
<1>1. /\ RecordsOK /\ LinksOK /\ StacksOK /\ NodesInside /\ Telescope /\ RangesOK
      /\ OpenedOnce /\ DepthKept
  BY DEF IInv
<1> DEFINE v == nodes[Parent].start + Last(cumWidth) + w
<1>2. /\ nodes' = [nodes EXCEPT ![Parent].end = v]
      /\ breadcrumbs' = Front(breadcrumbs) /\ cumWidth' = Popped(w) /\ stack' = Front(stack)
      /\ openedTags' = openedTags \ {Top} /\ maxDepth' = maxDepth
  BY DEF PopTag
<1>3. /\ Parent \in NodeIds /\ nodes[Parent].start \in Nat /\ Last(cumWidth) \in Nat
      /\ Len(stack) = Len(breadcrumbs) - 1 /\ Len(breadcrumbs) \in Nat
  <2>1. /\ Len(breadcrumbs) \in Nat \ {0} /\ Len(stack) = Len(breadcrumbs) - 1
        /\ Parent = breadcrumbs[Len(breadcrumbs)] /\ Parent \in NodeIds
        /\ Last(cumWidth) = cumWidth[Len(breadcrumbs)]
        /\ \A k \in 1..Len(breadcrumbs) :
             cumWidth[k] \in Nat /\ nodes[breadcrumbs[k]].start \in Nat
    BY <1>1, StackFacts
  <2>2. Len(breadcrumbs) \in 1..Len(breadcrumbs)
    BY <2>1
  <2>3. QED
    BY <2>1, <2>2
<1>4. nodes[Parent].start + Last(cumWidth) <= Position
  BY <1>1 DEF Telescope
<1>5. v \in Nat /\ nodes[Parent].start <= v /\ v <= Position' /\ Position' \in Nat
      /\ Position <= Position'
  BY <1>3, <1>4
<1> HIDE DEF v
<1>6. /\ nodes' \in Seq(NodeRecord) /\ nodes' # <<>> /\ Len(nodes') = Len(nodes)
      /\ StartsKept /\ LinksOK' /\ NodesInside' /\ RangesOK'
  BY <1>1, <1>2, <1>3, <1>5, EndKeeps
<1>7. StacksOK' /\ Telescope'
  BY <1>1, <1>2, <1>6, TelescopePopped
<1>8. OpenedOnce' /\ DepthKept'
  BY <1>1, <1>2, <1>3, OpenedPopped
<1>9. QED
  BY <1>6, <1>7, <1>8

LEMMA CloseTagKeeps == ASSUME IInv, CloseTag PROVE IInv'
<1>1. PICK tok \in TagTokens(Tag \ Greedy) :
        /\ Top # NoTag
        /\ Parsing /\ input' = Append(input, tok)
        /\ PopTag(tok.width) /\ lastNode' = Parent /\ NoWarning
        /\ attributes' = attributes /\ skip' = skip
  BY DEF CloseTag
<1>2. /\ RecordsOK /\ StacksOK /\ WarningsOK /\ ArenasOK /\ LimitsReported
  BY DEF IInv
<1>3. /\ Reads(tok) /\ tok.type # "attribute" /\ tok.width \in Nat
  BY <1>1, <1>2, PassedOn
<1>4. phase = "tokens" /\ phase' = phase /\ setting' = setting /\ Running /\ Running'
  BY <1>1 DEF Parsing, Running
<1>5. Len(breadcrumbs) > 1 /\ Parent \in NodeIds /\ Len(nodes) \in Nat
  <2>1. stack # <<>>
    BY <1>1 DEF Top
  <2>2. Len(stack) \in Nat \ {0}
    BY <1>2, <2>1, EmptySeq DEF StacksOK
  <2>3. QED
    BY <1>2, <2>2, StackFacts, ArenaFacts
<1>6. Position \in Nat /\ Position' = Position + tok.width
  BY <1>2, <1>3, ReadFacts
<1>7. /\ nodes' \in Seq(NodeRecord) /\ nodes' # <<>> /\ Len(nodes') = Len(nodes)
      /\ LinksOK' /\ NodesInside' /\ RangesOK' /\ StacksOK' /\ Telescope'
      /\ OpenedOnce' /\ DepthKept'
  BY <1>1, <1>3, <1>4, <1>5, <1>6, PopKeeps
<1>8. WarningsOK' /\ Warns({})
  BY <1>1, <1>2, NoWarningKeeps DEF NoWarning
<1>9. ArenasOK' /\ LimitsReported'
  <2>1. AttributeStep(tok, {}) /\ {} \in SUBSET LimitIssue
    BY <1>1, <1>3 DEF AttributeStep
  <2>2. setting.maxNodes > 0 => Len(nodes') <= setting.maxNodes
    BY <1>2, <1>7 DEF ArenasOK
  <2>3. Len(nodes') \in Nat /\ Len(nodes) <= Len(nodes')
    BY <1>5, <1>7
  <2>4. QED
    BY <1>2, <1>3, <1>4, <1>8, <2>1, <2>2, <2>3, LimitsKeep
<1>10. RecordsOK'
  <2>1. maxDepth' = maxDepth
    BY <1>1 DEF PopTag
  <2>2. QED
    BY <1>1, <1>2, <1>3, <1>4, <1>7, <2>1, ReadFacts DEF RecordsOK
<1>11. PoolIsClean'
  BY <1>4 DEF PoolIsClean
<1>12. QED
  BY <1>7, <1>8, <1>9, <1>10, <1>11 DEF IInv

(* How many attributes a node has, when one more attribute comes. *)
LEMMA AttributeCount ==
  ASSUME NEW as \in Seq(AttributeRecord), NEW a \in AttributeRecord, NEW i
  PROVE  Cardinality({k \in DOMAIN Append(as, a) : Append(as, a)[k].of = i})
           = Cardinality({k \in DOMAIN as : as[k].of = i}) + (IF a.of = i THEN 1 ELSE 0)
<1> DEFINE M  == {x \in AttributeRecord : x.of = i}
           bs == Append(as, a)
<1>1. /\ bs \in Seq(AttributeRecord)
      /\ \A k \in DOMAIN as : as[k] \in AttributeRecord
      /\ \A k \in DOMAIN bs : bs[k] \in AttributeRecord
  <2>1. bs \in Seq(AttributeRecord)
    BY AppendProperties
  <2> HIDE DEF bs
  <2>2. DOMAIN as = 1..Len(as) /\ DOMAIN bs = 1..Len(bs)
    BY <2>1, LenProperties
  <2>3. QED
    BY <2>1, <2>2, ElementOfSeq
<1>2. Cardinality(MarkedIn(bs, M)) = Cardinality(MarkedIn(as, M)) + (IF a \in M THEN 1 ELSE 0)
  BY CountAppended
<1> HIDE DEF bs
<1>3. /\ MarkedIn(as, M) = {k \in DOMAIN as : as[k].of = i}
      /\ MarkedIn(bs, M) = {k \in DOMAIN bs : bs[k].of = i}
      /\ a \in M <=> a.of = i
  BY <1>1 DEF MarkedIn
<1> HIDE DEF M
<1>4. QED
  BY <1>2, <1>3 DEF bs

(* appendAttribute: the range of the last node takes in one more place. *)
LEMMA AttributeTaken ==
  ASSUME IInv, NEW tok, Reads(tok),
         attributes' = Append(attributes, [pos |-> tok.pos, of |-> lastNode]),
         nodes' = AttributeRange(nodes, lastNode, Len(attributes) + 1), lastNode' = lastNode
  PROVE  /\ nodes' \in Seq(NodeRecord) /\ nodes' # <<>> /\ Len(nodes') = Len(nodes)
         /\ attributes' \in Seq(AttributeRecord) /\ Len(attributes') = Len(attributes) + 1
         /\ StartsKept /\ LinksOK' /\ NodesInside' /\ RangesOK'
<1> DEFINE a     == [pos |-> tok.pos, of |-> lastNode]
           place == Len(attributes) + 1
<1>1. /\ RecordsOK /\ LinksOK /\ NodesInside /\ RangesOK
  BY DEF IInv
<1>2. /\ nodes \in Seq(NodeRecord) /\ Linked(nodes, Len(nodes)) /\ Len(nodes) \in Nat \ {0}
      /\ lastNode \in 1..Len(nodes) /\ attributes \in Seq(AttributeRecord)
      /\ Len(attributes) \in Nat /\ place \in Nat
      /\ \A i \in NodeIds : nodes[i].start \in Nat /\ nodes[i].end \in Nat
                            /\ nodes[i].attrStart \in Nat /\ nodes[i].attrLen \in Nat
  BY <1>1, ArenaFacts, NodeFields DEF RecordsOK, LinksOK, Linked, Links, NodeIds
<1>3. a \in AttributeRecord /\ a.of = lastNode
  BY <1>2 DEF AttributeRecord, Reads, TokenRecord
<1>4. attributes' = Append(attributes, a)
  OBVIOUS
<1> HIDE DEF a, place
<1>5. /\ attributes' \in Seq(AttributeRecord) /\ Len(attributes') = Len(attributes) + 1
      /\ \A k \in 1..Len(attributes) : attributes'[k] = attributes[k]
      /\ attributes'[Len(attributes) + 1] = a
  BY <1>2, <1>3, <1>4, AppendProperties
<1>6. /\ nodes' \in Seq(NodeRecord) /\ Len(nodes') = Len(nodes) /\ Linked(nodes', Len(nodes))
      /\ \A i \in 1..Len(nodes) :
           /\ nodes'[i].start = nodes[i].start /\ nodes'[i].end = nodes[i].end
           /\ i # lastNode => nodes'[i].attrStart = nodes[i].attrStart
                              /\ nodes'[i].attrLen = nodes[i].attrLen
      /\ nodes'[lastNode].attrStart
           = IF nodes[lastNode].attrLen = 0 THEN place ELSE nodes[lastNode].attrStart
      /\ nodes'[lastNode].attrLen = nodes[lastNode].attrLen + 1
  <2> DEFINE ms == AttributeRange(nodes, lastNode, place)
  <2>1. /\ ms \in Seq(NodeRecord) /\ Len(ms) = Len(nodes) /\ Linked(ms, Len(nodes))
        /\ \A i \in 1..Len(nodes) :
             /\ ms[i].start = nodes[i].start /\ ms[i].end = nodes[i].end
             /\ ms[i].tag = nodes[i].tag
             /\ i # lastNode => ms[i].attrStart = nodes[i].attrStart
                                /\ ms[i].attrLen = nodes[i].attrLen
        /\ ms[lastNode].attrStart
             = IF nodes[lastNode].attrLen = 0 THEN place ELSE nodes[lastNode].attrStart
        /\ ms[lastNode].attrLen = nodes[lastNode].attrLen + 1
    BY ONLY <1>2, AttributeRangeFacts
  <2>2. nodes' = ms
    BY DEF place
  <2> HIDE DEF ms
  <2>3. QED
    BY <2>1, <2>2
<1>7. NodeIds' = NodeIds /\ NodeIds = 1..Len(nodes)
  BY <1>6 DEF NodeIds
<1>8. StartsKept /\ nodes' # <<>>
  BY <1>2, <1>6, EmptySeq DEF StartsKept, NodeIds
<1>9. LinksOK'
  <2>1. \A k \in 1..Len(attributes') : attributes'[k].of \in NodeIds'
    <3>1. ASSUME NEW k \in 1..Len(attributes') PROVE attributes'[k].of \in NodeIds
      <4>1. CASE k \in 1..Len(attributes)
        BY <1>1, <1>5, <4>1 DEF LinksOK
      <4>2. CASE k = Len(attributes) + 1
        BY <1>2, <1>3, <1>5, <1>7, <4>2
      <4>3. QED
        BY <1>2, <1>5, <4>1, <4>2
    <3>2. QED
      BY <1>7, <3>1
  <2>2. QED
    BY <1>2, <1>6, <1>7, <2>1 DEF LinksOK, Linked, Links
<1>10. Position \in Nat /\ Position' \in Nat /\ Position <= Position'
  BY <1>1, ReadFacts DEF Reads, TokenRecord
<1>11. NodesInside'
  <2>1. ASSUME NEW i \in NodeIds
        PROVE  nodes'[i].start <= nodes'[i].end /\ nodes'[i].end <= Position'
    <3>1. nodes'[i].start = nodes[i].start /\ nodes'[i].end = nodes[i].end
      BY <1>6, <1>7
    <3>2. /\ nodes[i].start <= nodes[i].end /\ nodes[i].end <= Position
          /\ nodes[i].start \in Nat /\ nodes[i].end \in Nat
      BY <1>1, <1>2 DEF NodesInside
    <3>3. QED
      BY <1>10, <3>1, <3>2
  <2>2. QED
    BY <1>7, <2>1 DEF NodesInside
<1>12. ASSUME NEW i \in NodeIds
       PROVE  Cardinality(AttributesOf(i)') = Cardinality(AttributesOf(i))
                + (IF lastNode = i THEN 1 ELSE 0)
  <2>1. Cardinality({k \in DOMAIN Append(attributes, a) : Append(attributes, a)[k].of = i})
          = Cardinality({k \in DOMAIN attributes : attributes[k].of = i})
            + (IF a.of = i THEN 1 ELSE 0)
    BY <1>2, <1>3, AttributeCount
  <2>2. QED
    BY <1>3, <1>4, <2>1 DEF AttributesOf
<1>13. RangesOK'
  <2>1. ASSUME NEW i \in NodeIds
        PROVE  /\ nodes'[i].attrLen = Cardinality(AttributesOf(i)')
               /\ nodes'[i].attrLen > 0 =>
                    nodes'[i].attrStart >= 1
                    /\ nodes'[i].attrStart + nodes'[i].attrLen - 1 <= Len(attributes')
    <3>1. /\ nodes[i].attrLen = Cardinality(AttributesOf(i))
          /\ nodes[i].attrLen > 0 =>
               nodes[i].attrStart >= 1
               /\ nodes[i].attrStart + nodes[i].attrLen - 1 <= Len(attributes)
          /\ nodes[i].attrStart \in Nat /\ nodes[i].attrLen \in Nat
      BY <1>1, <1>2 DEF RangesOK
    <3>2. CASE i = lastNode
      <4>1. /\ nodes'[i].attrLen = nodes[i].attrLen + 1
            /\ nodes'[i].attrStart = IF nodes[i].attrLen = 0 THEN place ELSE nodes[i].attrStart
        BY <1>6, <3>2
      <4>2. Cardinality(AttributesOf(i)') = nodes[i].attrLen + 1
        BY <1>12, <3>1, <3>2
      <4>3. /\ Len(attributes) \in Nat /\ Len(attributes') = Len(attributes) + 1
            /\ place = Len(attributes) + 1
        BY <1>2, <1>5 DEF place
      <4> HIDE DEF place
      <4>4. CASE nodes[i].attrLen = 0
        BY ONLY <3>1, <4>1, <4>2, <4>3, <4>4
      <4>5. CASE nodes[i].attrLen > 0
        BY ONLY <3>1, <4>1, <4>2, <4>3, <4>5
      <4>6. QED
        BY ONLY <3>1, <4>4, <4>5
    <3>3. CASE i # lastNode
      <4>1. nodes'[i].attrLen = nodes[i].attrLen /\ nodes'[i].attrStart = nodes[i].attrStart
        BY <1>6, <1>7, <3>3
      <4>2. QED
        BY <1>2, <1>5, <1>12, <3>1, <3>3, <4>1
    <3>4. QED
      BY <3>2, <3>3
  <2>2. QED
    BY <1>7, <2>1 DEF RangesOK
<1>14. QED
  BY <1>5, <1>6, <1>8, <1>9, <1>11, <1>13

LEMMA AttributeKeeps == ASSUME IInv, ProcessAttribute PROVE IInv'
<1>1. PICK tok \in Tokens({"attribute"}) :
        /\ Parsing /\ input' = Append(input, tok)
        /\ \/ /\ RoomForAttribute
              /\ attributes' = Append(attributes, [pos |-> tok.pos, of |-> lastNode])
              /\ nodes' = AttributeRange(nodes, lastNode, Len(attributes) + 1)
              /\ NoWarning
           \/ /\ ~RoomForAttribute
              /\ WarnLimit("MaxAttributesExceeded", tok.pos, <<>>)
              /\ UNCHANGED <<attributes, nodes>>
        /\ UNCHANGED <<places, skip, lastNode>>
  BY DEF ProcessAttribute
<1>2. /\ RecordsOK /\ LinksOK /\ StacksOK /\ WarningsOK /\ NodesInside /\ Telescope
      /\ RangesOK /\ ArenasOK /\ LimitsReported /\ OpenedOnce /\ DepthKept
  BY DEF IInv
<1>3. Reads(tok) /\ tok.type = "attribute" /\ tok.pos \in Nat
  <2>1. {"attribute"} \in SUBSET TokenType
    BY DEF TokenType
  <2>2. tok \in TokenRecord /\ tok.pos = Position /\ tok.type \in {"attribute"}
    BY <1>2, <2>1, TokenFacts
  <2>3. QED
    BY <1>1, <2>2 DEF Reads, TokenRecord
<1>4. phase = "tokens" /\ phase' = phase /\ setting' = setting /\ Running /\ Running'
  BY <1>1 DEF Parsing, Running
<1>5. /\ breadcrumbs' = breadcrumbs /\ stack' = stack /\ openedTags' = openedTags
      /\ maxDepth' = maxDepth /\ cumWidth' = cumWidth /\ skip' = skip /\ lastNode' = lastNode
  BY <1>1 DEF places
<1>6. \E new \in SUBSET LimitIssue :
        /\ WarningsOK' /\ Warns(new) /\ AttributeStep(tok, new) /\ "MaxNodesExceeded" \notin new
        /\ nodes' \in Seq(NodeRecord) /\ nodes' # <<>> /\ Len(nodes') = Len(nodes)
        /\ attributes' \in Seq(AttributeRecord)
        /\ StartsKept /\ LinksOK' /\ NodesInside' /\ RangesOK'
  <2>1. CASE /\ RoomForAttribute
             /\ attributes' = Append(attributes, [pos |-> tok.pos, of |-> lastNode])
             /\ nodes' = AttributeRange(nodes, lastNode, Len(attributes) + 1)
             /\ NoWarning
    <3>1. WarningsOK' /\ Warns({})
      BY <1>2, <2>1, NoWarningKeeps DEF NoWarning
    <3>2. /\ nodes' \in Seq(NodeRecord) /\ nodes' # <<>> /\ Len(nodes') = Len(nodes)
          /\ attributes' \in Seq(AttributeRecord) /\ Len(attributes') = Len(attributes) + 1
          /\ StartsKept /\ LinksOK' /\ NodesInside' /\ RangesOK'
      BY <1>3, <1>5, <2>1, AttributeTaken
    <3>3. AttributeStep(tok, {})
      BY <1>3, <2>1, <3>2 DEF AttributeStep
    <3>4. QED
      BY <3>1, <3>2, <3>3
  <2>2. CASE /\ ~RoomForAttribute
             /\ WarnLimit("MaxAttributesExceeded", tok.pos, <<>>)
             /\ UNCHANGED <<attributes, nodes>>
    <3> DEFINE new == {"MaxAttributesExceeded"}
    <3>1. "MaxAttributesExceeded" \in LimitIssue /\ Unlimiting(<<>>)
      BY DEF LimitIssue, Unlimiting
    <3>2. WarningsOK' /\ Warns(new)
      BY <1>2, <1>3, <2>2, <3>1, WarnLimitKeeps
    <3>3. Grows(nodes', nodes, Position, Position') /\ lastNode' \in 1..Len(nodes')
      BY <1>3, <1>5, <2>2, QuietNodes
    <3>4. /\ nodes' \in Seq(NodeRecord) /\ nodes' # <<>>
          /\ LinksOK' /\ NodesInside' /\ RangesOK'
      BY <1>2, <1>3, <2>2, <3>3, GrowthKeeps
    <3>5. StartsKept
      BY <3>3, GrowthStarts
    <3>6. AttributeStep(tok, new)
      BY <1>3, <2>2 DEF AttributeStep
    <3>7. new \in SUBSET LimitIssue /\ "MaxNodesExceeded" \notin new
      BY <3>1
    <3>8. attributes' \in Seq(AttributeRecord) /\ Len(nodes') = Len(nodes)
      BY <1>2, <2>2 DEF RecordsOK
    <3> HIDE DEF new
    <3>9. QED
      BY <3>2, <3>4, <3>5, <3>6, <3>7, <3>8
  <2>3. QED
    BY <1>1, <2>1, <2>2
<1>7. PICK new \in SUBSET LimitIssue :
        /\ WarningsOK' /\ Warns(new) /\ AttributeStep(tok, new) /\ "MaxNodesExceeded" \notin new
        /\ nodes' \in Seq(NodeRecord) /\ nodes' # <<>> /\ Len(nodes') = Len(nodes)
        /\ attributes' \in Seq(AttributeRecord)
        /\ StartsKept /\ LinksOK' /\ NodesInside' /\ RangesOK'
  BY <1>6
<1>8. StacksOK' /\ Telescope'
  BY <1>2, <1>3, <1>5, <1>7, TelescopeFlat
<1>9. OpenedOnce' /\ DepthKept'
  BY <1>2, <1>4, <1>5, OpenedSame
<1>10. ArenasOK' /\ LimitsReported'
  <2>1. Len(nodes') \in Nat /\ Len(nodes) <= Len(nodes')
        /\ (setting.maxNodes > 0 => Len(nodes') <= setting.maxNodes)
    BY <1>2, <1>7, ArenaFacts DEF ArenasOK
  <2>2. QED
    BY <1>2, <1>3, <1>4, <1>7, <2>1, LimitsKeep
<1>11. RecordsOK'
  BY <1>2, <1>3, <1>4, <1>5, <1>7, ReadFacts DEF RecordsOK
<1>12. PoolIsClean'
  BY <1>4 DEF PoolIsClean
<1>13. QED
  BY <1>7, <1>8, <1>9, <1>10, <1>11, <1>12 DEF IInv

LEMMA EndOfInputKeeps == ASSUME IInv, EndOfInput PROVE IInv'
<1>1. /\ phase = "tokens" /\ phase' = "closing"
      /\ UNCHANGED <<setting, input, nodes, attributes, totals, warns, raised, breadcrumbs,
                     cumWidth, stack, openedTags, maxDepth, skip, lastNode, warnedLimits>>
  BY DEF EndOfInput, ast, pooled, places
<1>2. /\ RecordsOK /\ LinksOK /\ StacksOK /\ WarningsOK /\ NodesInside /\ Telescope
      /\ RangesOK /\ ArenasOK /\ LimitsReported /\ OpenedOnce /\ DepthKept
  BY DEF IInv
<1>3. RecordsOK' /\ LinksOK' /\ StacksOK'
  BY <1>1, <1>2 DEF RecordsOK, LinksOK, StacksOK, NodeIds, Phase
<1>4. WarningsOK' /\ NodesInside' /\ Telescope' /\ RangesOK'
  BY <1>1, <1>2 DEF WarningsOK, WarningsReported, NodesInside, Telescope, RangesOK, Position,
                    Parent, NodeIds, AttributesOf
<1>5. ArenasOK'
  BY <1>1, <1>2 DEF ArenasOK, AttributeTokens
<1>6. LimitsReported'
  <2>1. Running /\ Running'
    BY <1>1 DEF Running
  <2>2. \A limit : Issues(limit)' = Issues(limit)
    BY <1>1 DEF Issues
  <2>3. AttributeTokens' = AttributeTokens
    BY <1>1 DEF AttributeTokens
  <2>4. QED
    BY <1>1, <1>2, <2>1, <2>2, <2>3 DEF LimitsReported
<1>7. OpenedOnce' /\ DepthKept'
  BY <1>1, <1>2 DEF OpenedOnce, DepthKept, Running
<1>8. PoolIsClean'
  BY <1>1 DEF PoolIsClean
<1>9. QED
  BY <1>3, <1>4, <1>5, <1>6, <1>7, <1>8 DEF IInv

LEMMA ForceCloseKeeps == ASSUME IInv, ForceClose PROVE IInv'
<1>1. /\ phase = "closing" /\ phase' = phase /\ Len(breadcrumbs) > 1
      /\ PopTag(0) /\ Warn(<<Warning("UnclosedTag", nodes[Parent].start)>>)
      /\ UNCHANGED <<setting, input, attributes, skip, lastNode, warnedLimits>>
  BY DEF ForceClose
<1>2. /\ RecordsOK /\ LinksOK /\ StacksOK /\ WarningsOK /\ NodesInside /\ Telescope
      /\ RangesOK /\ ArenasOK /\ LimitsReported /\ OpenedOnce /\ DepthKept
  BY DEF IInv
<1>3. Running /\ Running'
  BY <1>1 DEF Running
<1>4. Position \in Nat /\ Position' = Position
  <2>1. Position \in Nat
    <3>1. CASE input = <<>>
      BY <3>1 DEF Position
    <3>2. CASE input # <<>>
      <4>1. Last(input) \in TokenRecord
        BY <1>2, <3>2, FrontFacts DEF RecordsOK
      <4>2. QED
        BY <3>2, <4>1 DEF Position, TokenRecord
    <3>3. QED
      BY <3>1, <3>2
  <2>2. QED
    BY <1>1, <2>1 DEF Position
<1>5. lastNode' \in NodeIds /\ nodes[Parent].start \in Nat
  BY <1>1, <1>2, StackFacts, ArenaFacts, NodeFields DEF LinksOK
<1>6. /\ nodes' \in Seq(NodeRecord) /\ nodes' # <<>> /\ Len(nodes') = Len(nodes)
      /\ LinksOK' /\ NodesInside' /\ RangesOK' /\ StacksOK' /\ Telescope'
      /\ OpenedOnce' /\ DepthKept'
  <2>1. 0 \in Nat /\ Position' = Position + 0
    BY <1>4
  <2>2. QED
    BY <1>1, <1>3, <1>4, <1>5, <2>1, PopKeeps
<1>7. Unlimiting(<<Warning("UnclosedTag", nodes[Parent].start)>>)
  BY <1>5, OneWarning DEF Issue, LimitIssue
<1>8. WarningsOK' /\ \A limit \in LimitIssue : Issues(limit)' = Issues(limit)
  BY <1>1, <1>2, <1>7, WarnFacts
<1>9. AttributeTokens' = AttributeTokens
  BY <1>1 DEF AttributeTokens
<1>10. ArenasOK'
  BY <1>1, <1>2, <1>6, <1>9 DEF ArenasOK
<1>11. LimitsReported'
  <2>1. "MaxAttributesExceeded" \in LimitIssue /\ "MaxNodesExceeded" \in LimitIssue
    BY DEF LimitIssue
  <2>2. QED
    BY <1>1, <1>2, <1>3, <1>6, <1>8, <1>9, <2>1 DEF LimitsReported
<1>12. RecordsOK'
  <2>1. maxDepth' = maxDepth
    BY <1>1 DEF PopTag
  <2>2. QED
    BY <1>1, <1>2, <1>6, <2>1 DEF RecordsOK
<1>13. PoolIsClean'
  BY <1>1 DEF PoolIsClean
<1>14. QED
  BY <1>6, <1>8, <1>10, <1>11, <1>12, <1>13 DEF IInv

LEMMA FinalizeKeeps == ASSUME IInv, Finalize PROVE IInv'
<1>1. /\ phase = "closing" /\ phase' = "done" /\ Len(breadcrumbs) = 1
      /\ nodes' = [nodes EXCEPT ![1].end = Last(cumWidth)]
      /\ totals'.maxDepth = maxDepth
      /\ Reset
      /\ UNCHANGED <<setting, input, attributes, warns, raised>>
  BY DEF Finalize
<1>2. /\ RecordsOK /\ LinksOK /\ StacksOK /\ WarningsOK /\ NodesInside /\ Telescope
      /\ RangesOK /\ ArenasOK /\ LimitsReported /\ OpenedOnce /\ DepthKept
  BY DEF IInv
<1>3. Fresh'
  BY <1>1 DEF Reset, ResetSkip, Fresh
<1>4. /\ lastNode' = 1 /\ maxDepth' = 1 /\ skip' = NothingSkipped /\ stack' = <<>>
      /\ warnedLimits' = {}
  BY <1>1 DEF Reset, ResetSkip
<1>5. Position \in Nat /\ Position' = Position
  <2>1. Position \in Nat
    <3>1. CASE input = <<>>
      BY <3>1 DEF Position
    <3>2. CASE input # <<>>
      <4>1. Last(input) \in TokenRecord
        BY <1>2, <3>2, FrontFacts DEF RecordsOK
      <4>2. QED
        BY <3>2, <4>1 DEF Position, TokenRecord
    <3>3. QED
      BY <3>1, <3>2
  <2>2. QED
    BY <1>1, <2>1 DEF Position
<1>6. /\ Last(cumWidth) \in Nat /\ Last(cumWidth) <= Position /\ nodes[1].start = 0
      /\ 1 \in NodeIds
  <2>1. /\ Parent = breadcrumbs[1] /\ Last(cumWidth) = cumWidth[1] /\ cumWidth[1] \in Nat
    BY <1>1, <1>2, StackFacts
  <2>2. /\ breadcrumbs[1] = 1 /\ nodes[1].start = 0
        /\ nodes[Parent].start + Last(cumWidth) <= Position
    BY <1>2 DEF Telescope
  <2>3. QED
    BY <1>2, <2>1, <2>2, ArenaFacts DEF NodeIds
<1>7. /\ nodes' \in Seq(NodeRecord) /\ nodes' # <<>> /\ Len(nodes') = Len(nodes)
      /\ StartsKept /\ LinksOK' /\ NodesInside' /\ RangesOK'
  <2> DEFINE v == Last(cumWidth)
  <2>1. v \in Nat /\ nodes[1].start <= v /\ v <= Position'
        /\ nodes' = [nodes EXCEPT ![1].end = v]
    BY <1>1, <1>5, <1>6
  <2>2. lastNode' \in NodeIds
    BY <1>4, <1>6
  <2> HIDE DEF v
  <2>3. Position' \in Nat /\ Position <= Position'
    BY <1>5
  <2>4. QED
    BY <1>1, <1>2, <1>5, <1>6, <2>1, <2>2, <2>3, EndKeeps
<1>8. nodes'[1].start = 0
  BY <1>6, <1>7 DEF StartsKept
<1>9. StacksOK' /\ Telescope' /\ OpenedOnce'
  <2>1. /\ breadcrumbs' = <<1>> /\ cumWidth' = <<0>> /\ stack' = <<>> /\ openedTags' = {}
    BY <1>1 DEF Reset
  <2>2. Len(breadcrumbs') = 1 /\ Len(cumWidth') = 1 /\ Len(stack') = 0
    BY <2>1
  <2>3. 1 \in NodeIds'
    BY <1>6, <1>7 DEF NodeIds
  <2>4. StacksOK'
    <3>1. breadcrumbs' \in Seq(Nat) /\ cumWidth' \in Seq(Nat) /\ stack' \in Seq(Tag)
      BY <2>1
    <3>2. \A k \in 1..Len(breadcrumbs') : breadcrumbs'[k] \in NodeIds'
      BY <2>1, <2>2, <2>3
    <3>3. QED
      BY <2>2, <3>1, <3>2 DEF StacksOK
  <2>5. Parent' = 1 /\ Last(cumWidth)' = 0
    BY <2>1, <2>2 DEF Parent, Last
  <2>6. Telescope'
    BY <1>5, <1>8, <2>1, <2>2, <2>5 DEF Telescope
  <2>7. OpenedOnce'
    BY <2>1, <2>2 DEF OpenedOnce
  <2>8. QED
    BY <2>4, <2>6, <2>7
<1>10. WarningsOK'
  BY <1>1, <1>2 DEF WarningsOK, WarningsReported
<1>11. AttributeTokens' = AttributeTokens /\ \A limit : Issues(limit)' = Issues(limit)
  BY <1>1 DEF AttributeTokens, Issues
<1>12. ArenasOK' /\ LimitsReported'
  <2>1. ArenasOK'
    BY <1>1, <1>2, <1>7, <1>11 DEF ArenasOK
  <2>2. ~Running'
    BY <1>1 DEF Running
  <2>3. LimitsReported'
    BY <1>1, <1>2, <1>4, <1>7, <1>11, <2>2 DEF LimitsReported
  <2>4. QED
    BY <2>1, <2>3
<1>13. DepthKept'
  <2>1. setting.maxParseDepth > 0 => maxDepth <= setting.maxParseDepth
    BY <1>1, <1>2 DEF DepthKept, Running
  <2>2. QED
    BY <1>1, <1>4, <2>1 DEF DepthKept, Running
<1>14. RecordsOK'
  <2>1. skip' \in [Tag -> Nat]
    BY <1>4 DEF NothingSkipped
  <2>2. QED
    BY <1>1, <1>2, <1>4, <1>7, <2>1 DEF RecordsOK, Phase
<1>15. PoolIsClean'
  BY <1>3 DEF PoolIsClean
<1>16. QED
  BY <1>7, <1>9, <1>10, <1>12, <1>13, <1>14, <1>15 DEF IInv

-----------------------------------------------------------------------------
(* The invariant *)

(* A parse before its first token, with a state as good as new. *)
Started ==
  /\ phase \in {"ready", "tokens"} /\ setting \in Setting
  /\ input = <<>> /\ nodes = <<Root>> /\ attributes = <<>> /\ totals = NoTotals
  /\ Fresh /\ WarningsOK
  /\ \A limit \in LimitIssue : Issues(limit) = 0

LEMMA StartedInv == Started => IInv
<1> SUFFICES ASSUME Started PROVE IInv
  OBVIOUS
<1>1. /\ phase \in {"ready", "tokens"} /\ setting \in Setting
      /\ input = <<>> /\ nodes = <<Root>> /\ attributes = <<>> /\ totals = NoTotals
      /\ skip = NothingSkipped
      /\ breadcrumbs = <<1>> /\ cumWidth = <<0>> /\ stack = <<>>
      /\ openedTags = {} /\ maxDepth = 1 /\ lastNode = 1 /\ warnedLimits = {}
      /\ \A limit \in LimitIssue : Issues(limit) = 0
  BY DEF Started, Fresh
<1>2. /\ Len(nodes) = 1 /\ nodes[1] = Root /\ NodeIds = {1} /\ Len(attributes) = 0
      /\ Len(breadcrumbs) = 1 /\ Len(cumWidth) = 1 /\ Len(stack) = 0
  BY <1>1 DEF NodeIds
<1>3. /\ Root \in NodeRecord /\ Root.start = 0 /\ Root.end = 0
      /\ Root.first = 0 /\ Root.last = 0 /\ Root.next = 0 /\ Root.attrLen = 0
  BY DEF Root, Node, NodeRecord
<1>4. RecordsOK
  <2>1. phase \in Phase /\ setting \in Setting /\ maxDepth \in Nat \ {0}
    BY <1>1 DEF Phase
  <2>2. input \in Seq(TokenRecord) /\ attributes \in Seq(AttributeRecord)
    BY <1>1
  <2>3. nodes \in Seq(NodeRecord) /\ nodes # <<>>
    BY <1>1, <1>2, <1>3
  <2>4. skip \in [Tag -> Nat]
    BY <1>1 DEF NothingSkipped
  <2>5. QED
    BY <2>1, <2>2, <2>3, <2>4 DEF RecordsOK
<1>5. LinksOK
  BY <1>1, <1>2, <1>3 DEF LinksOK
<1>6. StacksOK
  <2>1. breadcrumbs \in Seq(Nat) /\ cumWidth \in Seq(Nat) /\ stack \in Seq(Tag)
    BY <1>1
  <2>2. \A k \in 1..Len(breadcrumbs) : breadcrumbs[k] \in NodeIds
    BY <1>1, <1>2
  <2>3. QED
    BY <1>2, <2>1, <2>2 DEF StacksOK
<1>7. Position = 0
  BY <1>1 DEF Position
<1>8. NodesInside
  BY <1>2, <1>3, <1>7 DEF NodesInside
<1>9. Telescope
  <2>1. Parent = 1 /\ Last(cumWidth) = 0
    BY <1>1, <1>2 DEF Parent, Last
  <2>2. QED
    BY <1>1, <1>2, <1>3, <1>7, <2>1 DEF Telescope
<1>10. RangesOK
  <2>1. \A i : AttributesOf(i) = {}
    BY <1>1 DEF AttributesOf
  <2>2. \A i : Cardinality(AttributesOf(i)) = 0
    BY <2>1, FS_EmptySet
  <2>3. QED
    BY <1>2, <1>3, <2>2 DEF RangesOK
<1>11. AttributeTokens = 0
  <2>1. {i \in DOMAIN input : input[i].type = "attribute"} = {}
    BY <1>1
  <2>2. QED
    BY <2>1, FS_EmptySet DEF AttributeTokens
<1>12. ArenasOK
  <2>1. setting.maxNodes \in Nat /\ setting.maxAttributes \in Nat
    BY <1>4, SettingFacts
  <2>2. QED
    BY <1>2, <1>11, <2>1 DEF ArenasOK
<1>13. LimitsReported
  <2>1. "MaxAttributesExceeded" \in LimitIssue /\ "MaxNodesExceeded" \in LimitIssue
    BY DEF LimitIssue
  <2>2. QED
    BY <1>1, <1>2, <1>11, <2>1 DEF LimitsReported
<1>14. OpenedOnce
  BY <1>1, <1>2 DEF OpenedOnce
<1>15. DepthKept
  <2>1. setting.maxParseDepth \in Nat
    BY <1>4, SettingFacts
  <2>2. QED
    BY <1>1, <1>2, <2>1 DEF DepthKept
<1>16. QED
  BY <1>4, <1>5, <1>6, <1>8, <1>9, <1>10, <1>12, <1>13, <1>14, <1>15
     DEF IInv, Started, PoolIsClean

(* A new collector is faithful to a parse that has raised nothing. *)
LEMMA NewFaithful ==
  ASSUME NEW policy \in Policy, NEW max \in Nat
  PROVE  /\ NewWarnings(policy, max) \in Collector
         /\ Faithful(NewWarnings(policy, max), <<>>)
<1> DEFINE w == NewWarnings(policy, max)
<1>1. /\ w \in Collector /\ w.policy = policy /\ w.maxWarnings = max /\ w.list = <<>>
      /\ w.overflowed = FALSE /\ w.droppedCount = 0
  BY DEF NewWarnings, Collector
<1> HIDE DEF w
<1> DEFINE r == <<>>
<1>2. r \in Seq(Report) /\ Len(r) = 0 /\ Len(w.list) = 0 /\ w.list = r
  BY <1>1
<1> HIDE DEF r
<1>3. Whole(w, r)
  BY <1>1, <1>2 DEF Whole
<1>4. Faithful(w, r)
  <2>1. CASE policy = "NoRec"
    BY <1>1, <1>2, <2>1, FaithfulNoRec
  <2>2. CASE policy = "NoCap"
    BY <1>1, <1>2, <1>3, <2>2, FaithfulNoCap
  <2>3. CASE policy = "Drop"
    <3>1. w.policy = "Drop" /\ Len(r) <= w.maxWarnings
      BY <1>1, <1>2, <2>3
    <3>2. Faithful(w, r) <=> Whole(w, r)
      BY <1>1, <1>2, <3>1, FaithfulDrop
    <3>3. QED
      BY <1>3, <3>2
  <2>4. CASE policy = "Trunc"
    BY <1>1, <1>2, <1>3, <2>4, FaithfulTrunc
  <2>5. QED
    BY <2>1, <2>2, <2>3, <2>4 DEF Policy
<1>5. QED
  BY <1>1, <1>4 DEF w, r

LEMMA PolicyOf ==
  ASSUME NEW s \in Setting
  PROVE  s.policy \in Policy /\ s.maxWarnings \in Nat
  BY ParserAssumption

LEMMA NothingCounted ==
  ASSUME NEW issue
  PROVE  IssueCount(<<>>, issue) = 0
<1>1. {i \in DOMAIN <<>> : <<>>[i].issue = issue} = {}
  OBVIOUS
<1>2. QED
  BY <1>1, FS_EmptySet DEF IssueCount

LEMMA InitInv == Init => IInv
<1> SUFFICES ASSUME Init PROVE IInv
  OBVIOUS
<1>1. /\ phase = "ready" /\ setting \in Setting
      /\ input = <<>> /\ raised = <<>> /\ nodes = <<Root>> /\ attributes = <<>>
      /\ totals = NoTotals
      /\ warns = NewWarnings(setting.policy, setting.maxWarnings)
      /\ Fresh
  BY DEF Init
<1>2. WarningsOK
  <2>1. warns \in Collector /\ Faithful(warns, <<>>)
    BY <1>1, PolicyOf, NewFaithful
  <2>2. raised \in Seq(Report)
    BY <1>1
  <2>3. QED
    BY <1>1, <2>1, <2>2 DEF WarningsOK, WarningsReported
<1>3. \A limit \in LimitIssue : Issues(limit) = 0
  BY <1>1, NothingCounted DEF Issues, IssueCount
<1>4. Started
  BY <1>1, <1>2, <1>3 DEF Started
<1>5. QED
  BY <1>4, StartedInv

LEMMA BeginParseKeeps == ASSUME IInv, BeginParse PROVE IInv'
<1>1. PICK s \in Setting, early \in TokenizerWarnings :
        /\ setting' = s
        /\ warns' = AddAll(NewWarnings(s.policy, s.maxWarnings), early)
        /\ raised' = early
  BY DEF BeginParse
<1>2. /\ phase' = "tokens" /\ input' = <<>> /\ nodes' = <<Root>> /\ attributes' = <<>>
      /\ totals' = NoTotals
  BY DEF BeginParse
<1>3. Fresh'
  <2>1. Fresh
    BY DEF BeginParse, IInv, PoolIsClean
  <2>2. QED
    BY <2>1 DEF BeginParse, pooled, places, Fresh
<1>4. early = <<>> \/ \E x \in Report : early = <<x>> /\ x.issue \notin LimitIssue
  <2> DEFINE x == Warning("UnexpectedEOL", 0)
  <2>1. x \in Report /\ x.issue = "UnexpectedEOL"
    BY NewReport DEF Issue
  <2>2. early = <<>> \/ early = <<x>>
    BY <1>1 DEF TokenizerWarnings
  <2> HIDE DEF x
  <2>3. QED
    BY <2>1, <2>2 DEF LimitIssue
<1>5. Few(early)
  BY <1>4 DEF Few
<1> DEFINE w == NewWarnings(s.policy, s.maxWarnings)
<1>6. w \in Collector /\ Faithful(w, <<>>)
  BY <1>1, PolicyOf, NewFaithful
<1> HIDE DEF w
<1>7. <<>> \in Seq(Report) /\ <<>> \o early = early
  <2>1. CASE early = <<>>
    BY <2>1, ConcatEmptySeq
  <2>2. ASSUME NEW x \in Report, early = <<x>>
        PROVE  early \in Seq(Report)
    BY <2>2
  <2>3. early \in Seq(Report)
    BY <1>4, <2>1, <2>2
  <2>4. QED
    BY <2>3, ConcatEmptySeq
<1>8. WarningsOK'
  <2>1. /\ AddAll(w, early) \in Collector
        /\ <<>> \o early \in Seq(Report) /\ Faithful(AddAll(w, early), <<>> \o early)
    BY <1>5, <1>6, <1>7, AddAllFaithful
  <2>2. QED
    BY <1>1, <1>7, <2>1 DEF WarningsOK, WarningsReported, w
<1>9. \A limit \in LimitIssue : Issues(limit)' = 0
  <2>1. ASSUME NEW limit \in LimitIssue PROVE IssueCount(early, limit) = 0
    <3>1. CASE early = <<>>
      BY <3>1, NothingCounted
    <3>2. ASSUME NEW x \in Report, early = <<x>>, x.issue \notin LimitIssue
          PROVE  IssueCount(early, limit) = 0
      <4>1. IssueCount(<<>> \o <<x>>, limit)
              = IssueCount(<<>>, limit) + (IF x.issue = limit THEN 1 ELSE 0)
        BY <1>7, <3>2, CountOne
      <4>2. QED
        BY <1>7, <3>2, <4>1, NothingCounted
    <3>3. QED
      BY <1>4, <3>1, <3>2
  <2>2. \A limit \in LimitIssue : Issues(limit)' = IssueCount(early, limit)
    BY <1>1 DEF Issues, IssueCount
  <2>3. QED
    BY <2>1, <2>2
<1>10. Started'
  BY <1>1, <1>2, <1>3, <1>8, <1>9 DEF Started
<1>11. (Started => IInv)'
  BY StartedInv, PTL
<1>12. QED
  BY <1>10, <1>11

LEMMA IdleKeeps == ASSUME IInv, UNCHANGED vars PROVE IInv'
<1>1. /\ UNCHANGED <<phase, setting, input, nodes, attributes, totals, warns, raised>>
      /\ UNCHANGED <<breadcrumbs, cumWidth, stack, openedTags, maxDepth, skip, lastNode,
                     totalTagNodes, textNodes, warnedLimits>>
  BY DEF vars, ast, pooled, places
<1>2. /\ RecordsOK /\ LinksOK /\ StacksOK /\ WarningsOK
      /\ NodesInside /\ Telescope /\ RangesOK /\ ArenasOK /\ LimitsReported
      /\ OpenedOnce /\ DepthKept /\ PoolIsClean
  BY DEF IInv
<1>3. /\ NodeIds' = NodeIds /\ Position' = Position /\ Parent' = Parent
      /\ Last(cumWidth)' = Last(cumWidth)
      /\ AttributeTokens' = AttributeTokens /\ \A i : AttributesOf(i)' = AttributesOf(i)
      /\ Running' = Running /\ \A limit : Issues(limit)' = Issues(limit)
      /\ Fresh' = Fresh
  BY <1>1 DEF NodeIds, Position, Parent, Last, AttributeTokens, AttributesOf, Running,
              Issues, Fresh
<1>4. RecordsOK' /\ LinksOK' /\ StacksOK'
  BY <1>1, <1>2, <1>3 DEF RecordsOK, LinksOK, StacksOK
<1>5. WarningsOK' /\ PoolIsClean'
  BY <1>1, <1>2, <1>3 DEF WarningsOK, WarningsReported, PoolIsClean
<1>6. NodesInside' /\ Telescope'
  BY <1>1, <1>2, <1>3 DEF NodesInside, Telescope
<1>7. RangesOK' /\ ArenasOK'
  BY <1>1, <1>2, <1>3 DEF RangesOK, ArenasOK
<1>8. LimitsReported'
  BY <1>1, <1>2, <1>3 DEF LimitsReported
<1>9. OpenedOnce' /\ DepthKept'
  BY <1>1, <1>2, <1>3 DEF OpenedOnce, DepthKept
<1>10. QED
  BY <1>4, <1>5, <1>6, <1>7, <1>8, <1>9 DEF IInv

LEMMA NextKeeps == IInv /\ [Next]_vars => IInv'
<1> SUFFICES ASSUME IInv, [Next]_vars PROVE IInv'
  OBVIOUS
<1>1. CASE BeginParse
  BY <1>1, BeginParseKeeps
<1>2. CASE ProcessText
  BY <1>2, ProcessTextKeeps
<1>3. CASE ProcessAttribute
  BY <1>3, AttributeKeeps
<1>4. CASE ProcessSkipped
  BY <1>4, ProcessSkippedKeeps
<1>5. CASE GreedyNode
  BY <1>5, GreedyKeeps
<1>6. CASE DuplicateNestedTag
  BY <1>6, DuplicateKeeps
<1>7. CASE OpenTag
  BY <1>7, OpenTagKeeps
<1>8. CASE RefuseTag
  BY <1>8, RefuseKeeps
<1>9. CASE CloseTag
  BY <1>9, CloseTagKeeps
<1>10. CASE MisplacedClosingTag
  BY <1>10, MisplacedKeeps
<1>11. CASE MismatchedClosingTag
  BY <1>11, MismatchedKeeps
<1>12. CASE EndOfInput
  BY <1>12, EndOfInputKeeps
<1>13. CASE ForceClose
  BY <1>13, ForceCloseKeeps
<1>14. CASE Finalize
  BY <1>14, FinalizeKeeps
<1>15. CASE UNCHANGED vars
  BY <1>15, IdleKeeps
<1>16. QED
  BY <1>1, <1>2, <1>3, <1>4, <1>5, <1>6, <1>7, <1>8, <1>9, <1>10, <1>11, <1>12, <1>13,
     <1>14, <1>15 DEF Next

(* The inductive invariant: in every state of every sequence of parses, the *)
(* stacks telescope over the input that was read, the nodes own disjoint    *)
(* counts of the attributes, and the limits have been reported.            *)
THEOREM ParserInvariant == Spec => []IInv
<1>1. Init => IInv
  BY InitInv
<1>2. IInv /\ [Next]_vars => IInv'
  BY NextKeeps
<1>3. QED
  BY <1>1, <1>2, PTL DEF Spec

-----------------------------------------------------------------------------
(* What follows from it *)

LEMMA IInvTypes == IInv => TypeOK
<1> SUFFICES ASSUME IInv PROVE TypeOK
  OBVIOUS
<1>1. RecordsOK /\ LinksOK /\ StacksOK /\ WarningsOK /\ OpenedOnce
  BY DEF IInv
<1>2. phase \in Phase /\ setting \in Setting
      /\ skip \in [Tag -> Nat] /\ lastNode \in NodeIds /\ maxDepth \in Nat
  BY <1>1 DEF RecordsOK, LinksOK
<1>3. \A i \in DOMAIN input : input[i].type \in Tag \cup {"text", "attribute"}
  <2>1. input \in Seq(TokenRecord)
    BY <1>1 DEF RecordsOK
  <2>2. \A i \in DOMAIN input : input[i] \in TokenRecord
    BY <2>1, LenProperties
  <2>3. QED
    BY <2>2 DEF TokenRecord, TokenType
<1>4. \A i \in NodeIds :
        /\ nodes[i].type \in {"root", "text", "tag"} /\ nodes[i].tag \in Tag \cup {NoTag}
        /\ {nodes[i].first, nodes[i].last, nodes[i].next} \subseteq {0} \cup NodeIds
        /\ {nodes[i].start, nodes[i].end, nodes[i].kids, nodes[i].attrStart,
            nodes[i].attrLen} \subseteq Nat
  <2> SUFFICES ASSUME NEW i \in NodeIds
               PROVE  /\ nodes[i].type \in {"root", "text", "tag"}
                      /\ nodes[i].tag \in Tag \cup {NoTag}
                      /\ {nodes[i].first, nodes[i].last, nodes[i].next}
                           \subseteq {0} \cup NodeIds
                      /\ {nodes[i].start, nodes[i].end, nodes[i].kids, nodes[i].attrStart,
                          nodes[i].attrLen} \subseteq Nat
    OBVIOUS
  <2>1. nodes \in Seq(NodeRecord) /\ i \in 1..Len(nodes) /\ Len(nodes) \in Nat
    BY <1>1, LenProperties DEF RecordsOK, NodeIds
  <2>2. nodes[i] \in NodeRecord
    BY <2>1, ElementOfSeq
  <2>3. /\ nodes[i].type \in {"root", "text", "tag"} /\ nodes[i].tag \in Tag \cup {NoTag}
        /\ nodes[i].start \in Nat /\ nodes[i].end \in Nat /\ nodes[i].kids \in Nat
        /\ nodes[i].attrStart \in Nat /\ nodes[i].attrLen \in Nat
    BY <2>2 DEF NodeRecord
  <2>4. /\ nodes[i].first \in 0..Len(nodes) /\ nodes[i].last \in 0..Len(nodes)
        /\ nodes[i].next \in 0..Len(nodes)
    BY <1>1 DEF LinksOK
  <2>5. 0..Len(nodes) \subseteq {0} \cup NodeIds
    BY <2>1 DEF NodeIds
  <2>6. QED
    BY <2>3, <2>4, <2>5
<1>5. \A i \in DOMAIN attributes : attributes[i].of \in NodeIds
  <2>1. DOMAIN attributes = 1..Len(attributes)
    BY <1>1, LenProperties DEF RecordsOK
  <2>2. QED
    BY <1>1, <2>1 DEF LinksOK
<1>6. \A i \in DOMAIN warns.list : warns.list[i].issue \in Issue
  <2>1. warns.list \in Seq(Report)
    BY <1>1, CollectorFields DEF WarningsOK
  <2>2. \A i \in DOMAIN warns.list : warns.list[i] \in Report
    BY <2>1, LenProperties
  <2>3. QED
    BY <2>2 DEF Report
<1>7. /\ Len(cumWidth) = Len(breadcrumbs) /\ Len(stack) + 1 = Len(breadcrumbs)
      /\ breadcrumbs \in Seq(Nat) /\ cumWidth \in Seq(Nat) /\ stack \in Seq(Tag)
      /\ \A i \in 1..Len(breadcrumbs) : breadcrumbs[i] \in NodeIds
  BY <1>1 DEF StacksOK
<1>8. \A i \in DOMAIN breadcrumbs : breadcrumbs[i] \in NodeIds /\ cumWidth[i] \in Nat
  BY <1>7
<1>9. \A i \in DOMAIN stack : stack[i] \in Tag
  BY <1>7
<1>10. openedTags = Range(stack)
  <2>1. Range(stack) = {stack[k] : k \in 1..Len(stack)}
    BY <1>7, LenProperties DEF Range
  <2>2. QED
    BY <1>1, <2>1 DEF OpenedOnce
<1>11. QED
  BY <1>2, <1>3, <1>4, <1>5, <1>6, <1>7, <1>8, <1>9, <1>10 DEF TypeOK

(* Every variable keeps its type, and the three stacks stay parallel: every *)
(* tag that is opened has a place in each of them, every closer and every   *)
(* turn of the closing loop takes one from each.                           *)
THEOREM TypesHold == Spec => []TypeOK
  BY ParserInvariant, IInvTypes, PTL

LEMMA IInvBounds == IInv => InBounds
<1> SUFFICES ASSUME IInv, NEW i \in NodeIds
             PROVE  /\ 0 <= nodes[i].start /\ nodes[i].start <= nodes[i].end
                    /\ nodes[i].end <= Position
                    /\ nodes[i].attrLen > 0 =>
                         /\ nodes[i].attrStart >= 1
                         /\ nodes[i].attrStart + nodes[i].attrLen - 1 <= Len(attributes)
                    /\ nodes[i].attrLen
                         = Cardinality({k \in DOMAIN attributes : attributes[k].of = i})
  BY DEF InBounds
<1>1. RecordsOK /\ NodesInside /\ RangesOK
  BY DEF IInv
<1>2. nodes[i].start \in Nat
  <2>1. nodes[i] \in NodeRecord
    BY <1>1, ElementOfSeq DEF RecordsOK, NodeIds
  <2>2. QED
    BY <2>1 DEF NodeRecord
<1>3. nodes[i].start <= nodes[i].end /\ nodes[i].end <= Position
  BY <1>1 DEF NodesInside
<1>4. /\ nodes[i].attrLen > 0 =>
           /\ nodes[i].attrStart >= 1
           /\ nodes[i].attrStart + nodes[i].attrLen - 1 <= Len(attributes)
      /\ nodes[i].attrLen = Cardinality({k \in DOMAIN attributes : attributes[k].of = i})
  BY <1>1 DEF RangesOK, AttributesOf
<1>5. 0 <= nodes[i].start
  BY <1>2
<1>6. QED
  BY <1>3, <1>4, <1>5

(* Serialize and Text may slice: a node's span lies in what was read and    *)
(* its attributes in the arena, and it has as many as were meant for it,   *)
(* whatever was skipped, demoted to text, left out or force-closed.        *)
THEOREM SlicesInBounds == Spec => []InBounds
  BY ParserInvariant, IInvBounds, PTL

LEMMA IInvRest == IInv => WarningsReported /\ PoolIsClean /\ OpenedOnce /\ DepthKept
  BY DEF IInv, WarningsOK

(* Under every policy and capacity the list that ParseInto returns is what  *)
(* the policy makes of the warnings that were raised, in their order.      *)
THEOREM WarningsFaithful == Spec => []WarningsReported
  BY ParserInvariant, IInvRest, PTL

(* A state that goes back to the pool is as good as a new one, whatever    *)
(* the parse that used it ran into.                                        *)
THEOREM PoolStaysClean == Spec => []PoolIsClean
  BY ParserInvariant, IInvRest, PTL

(* openedTags is the set of the tags on the stack, and none is on it twice, *)
(* so that taking one out when its tag closes makes it free again.         *)
THEOREM NoTagOpenTwice == Spec => []OpenedOnce
  BY ParserInvariant, IInvRest, PTL

(* MaxParseDepth bounds the depth in the statistics, not only the stack.   *)
THEOREM DepthBounded == Spec => []DepthKept
  BY ParserInvariant, IInvRest, PTL

(* A set of numbers that has an element has a least one. *)
LEMMA LeastExists ==
  ASSUME NEW S \in SUBSET Nat, S # {}
  PROVE  \E m \in S : \A y \in S : m <= y
<1> DEFINE R == OpToRel(<, Nat)
<1>1. IsWellFoundedOn(R, Nat)
  BY NatLessThanWellFounded, Zenon
<1>2. \A y, m \in Nat : y < m => <<y, m>> \in R
  BY Zenon DEF OpToRel
<1> HIDE DEF R
<1>3. PICK m \in S : \A y \in S : ~ (<<y, m>> \in R)
  BY <1>1, WFMin
<1>4. \A y \in S : ~ (y < m)
  BY <1>2, <1>3
<1>5. QED
  BY <1>4

(* The recursion over the tokens defines what is open behind each of them. *)
LEMMA NestingDefined ==
  ASSUME NEW toks \in Seq(TokenRecord)
  PROVE  \E f : /\ f[0] = <<>> /\ Nesting(toks) = f[Len(toks)]
                /\ \A n \in 1..Len(toks) : f[n] = NestedBy(f[n - 1], toks[n].type)
<1> DEFINE len == Len(toks)
           E(f, n) == IF n = 0 THEN <<>> ELSE NestedBy(f[n - 1], toks[n].type)
           Exists(m) == \E f : f = [n \in 0..m |-> E(f, n)]
           Missing == {m \in 0..len : ~Exists(m)}
<1>1. len \in Nat
  BY LenProperties
<1>2. Exists(0)
  <2> DEFINE f == [n \in 0..0 |-> <<>>]
  <2>1. f = [n \in 0..0 |-> E(f, n)]
    OBVIOUS
  <2>2. QED
    BY <2>1
<1>3. ASSUME NEW m \in Nat, Exists(m) PROVE Exists(m + 1)
  <2>1. PICK f : f = [n \in 0..m |-> E(f, n)]
    BY <1>3
  <2> DEFINE next == NestedBy(f[m], toks[m + 1].type)
             g == [n \in 0..(m + 1) |-> IF n = m + 1 THEN next ELSE f[n]]
  <2>2. ASSUME NEW n \in 0..(m + 1) PROVE g[n] = E(g, n)
    <3>1. CASE n = m + 1
      <4>1. n # 0 /\ n - 1 = m /\ m \in 0..(m + 1) /\ m # m + 1
        BY <3>1
      <4>2. g[n] = next /\ g[m] = f[m]
        BY <3>1, <4>1
      <4> HIDE DEF g
      <4>3. QED
        BY <3>1, <4>1, <4>2
    <3>2. CASE n # m + 1
      <4>1. n \in 0..m /\ f[n] = E(f, n)
        BY <2>1, <3>2
      <4>2. g[n] = f[n]
        BY <3>2
      <4>3. n # 0 => n - 1 \in 0..m /\ n - 1 \in 0..(m + 1) /\ n - 1 # m + 1
        BY <4>1
      <4>4. n # 0 => g[n - 1] = f[n - 1]
        BY <4>3
      <4> HIDE DEF g
      <4>5. QED
        BY <4>1, <4>2, <4>4
    <3>3. QED
      BY <3>1, <3>2
  <2>3. g = [n \in 0..(m + 1) |-> E(g, n)]
    <3>1. g = [n \in 0..(m + 1) |-> g[n]]
      OBVIOUS
    <3> HIDE DEF g
    <3>2. QED
      BY <2>2, <3>1
  <2>4. QED
    BY <2>3
<1> HIDE DEF Exists
<1>4. Missing = {}
  <2> SUFFICES ASSUME Missing # {} PROVE FALSE
    OBVIOUS
  <2>1. Missing \in SUBSET Nat
    BY <1>1
  <2>2. PICK m \in Missing : \A y \in Missing : m <= y
    <3> HIDE DEF Missing
    <3>1. QED
      BY <2>1, LeastExists
  <2>3. m \in Nat /\ m # 0 /\ m <= len
    BY <1>1, <1>2, <2>2
  <2>4. m - 1 \in 0..len /\ m - 1 \notin Missing
    BY <1>1, <2>2, <2>3
  <2>5. Exists((m - 1) + 1)
    BY <1>3, <2>3, <2>4
  <2>6. QED
    BY <2>2, <2>3, <2>5
<1>5. Exists(len)
  BY <1>1, <1>4
<1> DEFINE f == CHOOSE f : f = [n \in 0..len |-> E(f, n)]
<1>6. f = [n \in 0..len |-> E(f, n)]
  BY <1>5 DEF Exists
<1>7. Nesting(toks) = f[len]
  BY DEF Nesting
<1> HIDE DEF f
<1>8. f[0] = <<>> /\ \A n \in 1..len : f[n] = NestedBy(f[n - 1], toks[n].type)
  BY <1>1, <1>6
<1>9. QED
  BY <1>7, <1>8

LEMMA NestingStarts == Nesting(<<>>) = <<>>
<1>1. <<>> \in Seq(TokenRecord) /\ Len(<<>>) = 0
  OBVIOUS
<1>2. QED
  BY <1>1, NestingDefined

(* The next token changes what is open as NestedBy says. *)
LEMMA NestingStep ==
  ASSUME NEW toks \in Seq(TokenRecord), NEW tok \in TokenRecord
  PROVE  Nesting(Append(toks, tok)) = NestedBy(Nesting(toks), tok.type)
<1> DEFINE n == Len(toks)
           t == Append(toks, tok)
<1>1. /\ n \in Nat /\ t \in Seq(TokenRecord) /\ Len(t) = n + 1
      /\ t[n + 1] = tok /\ \A i \in 1..n : t[i] = toks[i]
  BY AppendProperties, LenProperties
<1>2. PICK f : /\ f[0] = <<>> /\ Nesting(toks) = f[n]
               /\ \A i \in 1..n : f[i] = NestedBy(f[i - 1], toks[i].type)
  BY NestingDefined
<1> HIDE DEF t
<1>3. PICK g : /\ g[0] = <<>> /\ Nesting(t) = g[n + 1]
               /\ \A i \in 1..(n + 1) : g[i] = NestedBy(g[i - 1], t[i].type)
  BY <1>1, NestingDefined
<1> HIDE DEF n
<1> DEFINE Other == {i \in 0..n : f[i] # g[i]}
<1>4. Other = {}
  <2> SUFFICES ASSUME Other # {} PROVE FALSE
    OBVIOUS
  <2>1. Other \in SUBSET Nat
    BY <1>1
  <2>2. PICK i \in Other : \A y \in Other : i <= y
    <3> HIDE DEF Other
    <3>1. QED
      BY <2>1, LeastExists
  <2>3. i \in 1..n /\ i - 1 \in 0..n /\ i - 1 \notin Other /\ i \in 1..(n + 1)
    BY <1>1, <1>2, <1>3, <2>2
  <2>4. f[i - 1] = g[i - 1]
    BY <2>3
  <2>5. f[i] = NestedBy(f[i - 1], toks[i].type) /\ g[i] = NestedBy(g[i - 1], toks[i].type)
    BY <1>1, <1>2, <1>3, <2>3
  <2>6. QED
    BY <2>2, <2>4, <2>5
<1>5. f[n] = g[n] /\ n + 1 \in 1..(n + 1) /\ (n + 1) - 1 = n
  BY <1>1, <1>4
<1>6. Nesting(t) = NestedBy(Nesting(toks), tok.type)
  BY <1>1, <1>2, <1>3, <1>5
<1>7. QED
  BY <1>6 DEF t

-----------------------------------------------------------------------------
(* What is open in a reading *)

LEMMA PairFacts ==
  ASSUME NEW t, Pairs(t)
  PROVE  /\ t \in Tag /\ t # NoTag /\ t \notin Greedy /\ ~IsClosing(t)
         /\ CloseID[t] \in Tag \ Greedy
         /\ IsClosing(CloseID[t]) \/ (IsUniversal(t) /\ CloseID[t] = t)
<1>1. t \in Tag \ Greedy /\ NoTag \notin Tag
  BY ParserAssumption DEF Pairs
<1>2. CASE IsUniversal(t)
  BY <1>1, <1>2 DEF IsUniversal, IsClosing
<1>3. CASE ~IsUniversal(t)
  BY <1>1, <1>3 DEF Pairs, Closers, IsOpening, IsClosing
<1>4. QED
  BY <1>2, <1>3

(* A tag that is read as an opener closes nothing that is open. *)
LEMMA OpensOnly ==
  ASSUME NEW open, ReadingOK(open), NEW t, Pairs(t), ~Clashes(open, t)
  PROVE  OpenFor(open, t) = {} /\ (IsUniversal(t) => ~Occurs(open, t))
<1>1. ASSUME NEW k \in 1..Len(open), CloseID[open[k]] = t PROVE FALSE
  <2>1. Pairs(open[k]) /\ ~IsClosing(t)
    BY PairFacts DEF ReadingOK
  <2>2. IsUniversal(t)
    BY <1>1, <2>1, PairFacts
  <2>3. CloseID[open[k]] = CloseID[t] /\ DOMAIN open = 1..Len(open)
    BY <1>1, <2>2 DEF IsUniversal, ReadingOK
  <2>4. QED
    BY <2>2, <2>3 DEF Clashes
<1>2. ASSUME IsUniversal(t), NEW k \in 1..Len(open), open[k] = t PROVE FALSE
  BY <1>1, <1>2 DEF IsUniversal
<1>3. QED
  BY <1>1, <1>2 DEF OpenFor, Occurs

LEMMA FrontSame ==
  ASSUME NEW S, NEW s \in Seq(S), s # <<>>
  PROVE  s = Append(Front(s), Last(s))
<1>1. /\ Len(s) \in Nat \ {0} /\ Last(s) \in S /\ Front(s) \in Seq(S)
      /\ Len(Front(s)) = Len(s) - 1 /\ \A i \in 1..(Len(s) - 1) : Front(s)[i] = s[i]
  BY FrontFacts
<1> DEFINE f == Front(s)
           a == Append(f, Last(s))
<1>2. Last(s) = s[Len(s)]
  BY DEF Last
<1>3. /\ a \in Seq(S) /\ Len(a) = Len(f) + 1 /\ a[Len(f) + 1] = Last(s)
      /\ \A i \in 1..Len(f) : a[i] = f[i]
  BY <1>1, AppendProperties
<1> HIDE DEF a, f
<1>4. f = Front(s)
  BY DEF f
<1>5. Len(a) = Len(s) /\ \A i \in 1..Len(s) : a[i] = s[i]
  BY <1>1, <1>2, <1>3, <1>4
<1>6. a = s
  BY <1>3, <1>5, SeqEqual
<1>7. QED
  BY <1>6 DEF a, f

LEMMA OpenForAppended ==
  ASSUME NEW open \in Seq(Tag), NEW t \in Tag, NEW c
  PROVE  /\ Cardinality(OpenFor(open, c)) \in Nat
         /\ Cardinality(OpenFor(Append(open, t), c))
              = Cardinality(OpenFor(open, c)) + (IF CloseID[t] = c THEN 1 ELSE 0)
<1> DEFINE M == {x \in Tag : CloseID[x] = c}
           new == Append(open, t)
<1>1. /\ new \in Seq(Tag) /\ DOMAIN new = 1..Len(new) /\ DOMAIN open = 1..Len(open)
      /\ \A k \in DOMAIN open : open[k] \in Tag
      /\ \A k \in DOMAIN new : new[k] \in Tag
  BY AppendProperties, LenProperties
<1>2. /\ Cardinality(MarkedIn(open, M)) \in Nat
      /\ Cardinality(MarkedIn(new, M))
           = Cardinality(MarkedIn(open, M)) + (IF t \in M THEN 1 ELSE 0)
  BY CountAppended
<1> HIDE DEF new
<1>3. /\ MarkedIn(open, M) = OpenFor(open, c) /\ MarkedIn(new, M) = OpenFor(new, c)
      /\ t \in M <=> CloseID[t] = c
  BY <1>1 DEF MarkedIn, OpenFor
<1> HIDE DEF M
<1>4. QED
  BY <1>2, <1>3 DEF new

LEMMA OpenForFront ==
  ASSUME NEW open \in Seq(Tag), open # <<>>, NEW c
  PROVE  /\ Cardinality(OpenFor(Front(open), c)) \in Nat
         /\ Cardinality(OpenFor(open, c)) = Cardinality(OpenFor(Front(open), c))
              + (IF CloseID[Last(open)] = c THEN 1 ELSE 0)
<1> DEFINE f == Front(open)
           u == Last(open)
<1>1. f \in Seq(Tag) /\ u \in Tag
  BY FrontFacts
<1>2. open = Append(f, u)
  BY FrontSame
<1> HIDE DEF f, u
<1>3. /\ Cardinality(OpenFor(f, c)) \in Nat
      /\ Cardinality(OpenFor(Append(f, u), c))
           = Cardinality(OpenFor(f, c)) + (IF CloseID[u] = c THEN 1 ELSE 0)
  BY <1>1, OpenForAppended
<1>4. QED
  BY <1>2, <1>3 DEF f, u

LEMMA OpenForNone ==
  ASSUME NEW open \in Seq(Tag), NEW c
  PROVE  Cardinality(OpenFor(open, c)) = 0 <=> OpenFor(open, c) = {}
<1>1. IsFiniteSet(OpenFor(open, c))
  <2>1. OpenFor(open, c) \subseteq 1..Len(open) /\ IsFiniteSet(1..Len(open))
    BY FS_Interval, LenProperties DEF OpenFor
  <2>2. QED
    BY <2>1, FS_Subset
<1>2. QED
  BY <1>1, FS_EmptySet

LEMMA ReadingAdded ==
  ASSUME NEW open, ReadingOK(open), NEW t, Pairs(t), ~Clashes(open, t)
  PROVE  ReadingOK(Append(open, t))
<1> DEFINE n == Len(open)
           new == Append(open, t)
<1>1. open \in Seq(Tag) /\ t \in Tag
  BY PairFacts DEF ReadingOK
<1>2. /\ n \in Nat /\ new \in Seq(Tag) /\ Len(new) = n + 1 /\ new[n + 1] = t
      /\ \A k \in 1..n : new[k] = open[k]
  BY <1>1, AppendProperties, LenProperties
<1> HIDE DEF new
<1>3. \A k \in 1..n : CloseID[open[k]] = CloseID[t] => open[k] = t /\ ~IsUniversal(t)
  <2>1. DOMAIN open = 1..n
    BY <1>1
  <2>2. QED
    BY <2>1 DEF Clashes
<1>4. \A k \in 1..(n + 1) : Pairs(new[k])
  <2>1. \A k \in 1..(n + 1) : k \in 1..n \/ k = n + 1
    BY <1>2
  <2>2. QED
    BY <1>2, <2>1 DEF ReadingOK
<1>5. ASSUME NEW j \in 1..(n + 1), NEW k \in 1..(n + 1), CloseID[new[j]] = CloseID[new[k]], j # k
      PROVE  new[j] = new[k] /\ ~IsUniversal(new[j])
  <2>1. CASE j \in 1..n /\ k \in 1..n
    BY <1>2, <1>5, <2>1 DEF ReadingOK
  <2>2. CASE j = n + 1 /\ k \in 1..n
    BY <1>2, <1>3, <1>5, <2>2
  <2>3. CASE k = n + 1 /\ j \in 1..n
    BY <1>2, <1>3, <1>5, <2>3
  <2>4. QED
    BY <1>2, <1>5, <2>1, <2>2, <2>3
<1>6. ReadingOK(new)
  BY <1>2, <1>4, <1>5 DEF ReadingOK
<1>7. QED
  BY <1>6 DEF new

LEMMA ReadingCut ==
  ASSUME NEW open, ReadingOK(open), open # <<>>
  PROVE  ReadingOK(Front(open))
<1>1. /\ Len(open) \in Nat \ {0} /\ Front(open) \in Seq(Tag) /\ Len(Front(open)) = Len(open) - 1
      /\ \A i \in 1..(Len(open) - 1) : Front(open)[i] = open[i]
  BY FrontFacts DEF ReadingOK
<1>2. \A i \in 1..(Len(open) - 1) : i \in 1..Len(open)
  BY <1>1
<1>3. QED
  BY <1>1, <1>2 DEF ReadingOK

(* Which tag is open further out does not change when one is added at the   *)
(* end or taken from there.                                                *)
LEMMA OccursAppended ==
  ASSUME NEW S, NEW open \in Seq(S), NEW t \in S
  PROVE  /\ Occurs(Append(open, t), t)
         /\ \A u : Occurs(open, u) => Occurs(Append(open, t), u)
         /\ \A u : Occurs(Append(open, t), u) => Occurs(open, u) \/ u = t
         /\ \A u, v : Before(open, u, v) => Before(Append(open, t), u, v)
         /\ \A u : Occurs(open, u) /\ ~Occurs(open, t) => Before(Append(open, t), u, t)
<1> DEFINE n == Len(open)
           new == Append(open, t)
<1>1. /\ n \in Nat /\ Len(new) = n + 1 /\ new[n + 1] = t
      /\ \A k \in 1..n : new[k] = open[k]
  BY AppendProperties, LenProperties
<1> HIDE DEF new
<1>2. n + 1 \in 1..(n + 1) /\ \A k \in 1..(n + 1) : k \in 1..n \/ k = n + 1
  BY <1>1
<1>3. \A k \in 1..n : k \in 1..(n + 1) /\ \A j \in 1..k : j \in 1..n
  BY <1>1
<1>4. Occurs(new, t) /\ \A u : Occurs(open, u) => Occurs(new, u)
  BY <1>1, <1>2, <1>3 DEF Occurs
<1>5. \A u : Occurs(new, u) => Occurs(open, u) \/ u = t
  BY <1>1, <1>2 DEF Occurs
<1>6. ASSUME NEW u, NEW v, Before(open, u, v) PROVE Before(new, u, v)
  <2>1. PICK k \in 1..n : open[k] = u /\ \A j \in 1..k : open[j] # v
    BY <1>6 DEF Before
  <2>2. new[k] = u /\ k \in 1..(n + 1) /\ \A j \in 1..k : new[j] # v
    BY <1>1, <1>3, <2>1
  <2>3. QED
    BY <1>1, <2>2 DEF Before
<1>7. ASSUME NEW u, Occurs(open, u), ~Occurs(open, t) PROVE Before(new, u, t)
  <2>1. PICK k \in 1..n : open[k] = u
    BY <1>7 DEF Occurs
  <2>2. \A j \in 1..k : open[j] # t
    BY <1>3, <1>7 DEF Occurs
  <2>3. new[k] = u /\ k \in 1..(n + 1) /\ \A j \in 1..k : new[j] # t
    BY <1>1, <1>3, <2>1, <2>2
  <2>4. QED
    BY <1>1, <2>3 DEF Before
<1>8. QED
  BY <1>4, <1>5, <1>6, <1>7 DEF new

LEMMA OccursCut ==
  ASSUME NEW S, NEW open \in Seq(S), open # <<>>
  PROVE  /\ Occurs(open, Last(open))
         /\ \A u : Occurs(Front(open), u) => Occurs(open, u)
         /\ \A u : Occurs(open, u) => Occurs(Front(open), u) \/ u = Last(open)
         /\ \A u, v : Before(open, u, v) /\ Occurs(Front(open), u) => Before(Front(open), u, v)
         /\ \A v : Before(open, Last(open), v) /\ ~Occurs(Front(open), Last(open))
                     => ~Occurs(open, v)
<1> DEFINE n == Len(open)
           f == Front(open)
           t == Last(open)
<1>1. /\ n \in Nat \ {0} /\ Len(f) = n - 1 /\ t = open[n]
      /\ \A k \in 1..(n - 1) : f[k] = open[k]
  BY FrontFacts DEF Last
<1> HIDE DEF f, n, t
<1>2. n \in 1..n /\ \A k \in 1..n : k \in 1..(n - 1) \/ k = n
  BY <1>1
<1>3. \A k \in 1..(n - 1) : k \in 1..n /\ \A j \in 1..k : j \in 1..(n - 1)
  BY <1>1
<1>4. Occurs(open, t) /\ \A u : Occurs(f, u) => Occurs(open, u)
  BY <1>1, <1>2, <1>3 DEF Occurs, n
<1>5. \A u : Occurs(open, u) => Occurs(f, u) \/ u = t
  BY <1>1, <1>2 DEF Occurs, n
<1>6. ASSUME NEW u, NEW v, Before(open, u, v), Occurs(f, u) PROVE Before(f, u, v)
  <2>1. PICK k \in 1..n : open[k] = u /\ \A j \in 1..k : open[j] # v
    BY <1>6 DEF Before, n
  <2>2. PICK l \in 1..(n - 1) : f[l] = u
    BY <1>1, <1>6 DEF Occurs
  <2>3. CASE k \in 1..(n - 1)
    <3>1. f[k] = u /\ \A j \in 1..k : f[j] # v
      BY <1>1, <1>3, <2>1, <2>3
    <3>2. QED
      BY <1>1, <2>3, <3>1 DEF Before
  <2>4. CASE k = n
    <3>1. \A j \in 1..l : j \in 1..(n - 1) /\ j \in 1..n
      BY <1>3
    <3>2. \A j \in 1..l : f[j] # v
      BY <1>1, <2>1, <2>4, <3>1
    <3>3. QED
      BY <1>1, <2>2, <3>2 DEF Before
  <2>5. QED
    BY <1>2, <2>3, <2>4
<1>7. ASSUME NEW v, Before(open, t, v), ~Occurs(f, t) PROVE ~Occurs(open, v)
  <2>1. PICK k \in 1..n : open[k] = t /\ \A j \in 1..k : open[j] # v
    BY <1>7 DEF Before, n
  <2>2. k = n
    BY <1>1, <1>2, <1>7, <2>1 DEF Occurs
  <2>3. QED
    BY <2>1, <2>2 DEF Occurs, n
<1>8. QED
  BY <1>4, <1>5, <1>6, <1>7 DEF f, t

LEMMA NotBothBefore ==
  ASSUME NEW S, NEW open \in Seq(S), NEW u, NEW v, Before(open, u, v), Before(open, v, u)
  PROVE  FALSE
<1>1. PICK k \in 1..Len(open) : open[k] = u /\ \A j \in 1..k : open[j] # v
  BY DEF Before
<1>2. PICK l \in 1..Len(open) : open[l] = v /\ \A j \in 1..l : open[j] # u
  BY DEF Before
<1>3. k \in 1..l \/ l \in 1..k
  BY LenProperties
<1>4. QED
  BY <1>1, <1>2, <1>3

(* A tag that is left out: it is open already, or there is no room. *)
LEMMA StackStays ==
  ASSUME NEW open \in Seq(Tag), NEW stk \in Seq(Tag), NEW room, NEW t \in Tag,
         StackReads(open, stk, room), Occurs(stk, t) \/ ~room
  PROVE  StackReads(Append(open, t), stk, room)
<1> DEFINE new == Append(open, t)
<1>1. /\ Occurs(new, t)
      /\ \A u : Occurs(open, u) => Occurs(new, u)
      /\ \A u : Occurs(new, u) => Occurs(open, u) \/ u = t
      /\ \A u, v : Before(open, u, v) => Before(new, u, v)
      /\ \A u : Occurs(open, u) /\ ~Occurs(open, t) => Before(new, u, t)
  BY OccursAppended
<1> HIDE DEF new
<1>2. \A i \in 1..Len(stk) : Occurs(new, stk[i])
  BY <1>1 DEF StackReads
<1>3. \A i, j \in 1..Len(stk) : i < j => Before(new, stk[i], stk[j])
  BY <1>1 DEF StackReads
<1>4. ASSUME NEW x \in Tag, Occurs(new, x), ~Occurs(stk, x)
      PROVE  (\A i \in 1..Len(stk) : Before(new, stk[i], x)) /\ ~room
  <2>1. CASE Occurs(open, x)
    BY <1>1, <1>4, <2>1 DEF StackReads
  <2>2. CASE ~Occurs(open, x)
    <3>1. x = t /\ ~room /\ ~Occurs(open, t)
      BY <1>1, <1>4, <2>2
    <3>2. QED
      BY <1>1, <3>1 DEF StackReads
  <2>3. QED
    BY <2>1, <2>2
<1>5. StackReads(new, stk, room)
  BY <1>2, <1>3, <1>4 DEF StackReads
<1>6. QED
  BY <1>5 DEF new

LEMMA StackPushed ==
  ASSUME NEW open \in Seq(Tag), NEW stk \in Seq(Tag), NEW room, NEW t \in Tag,
         StackReads(open, stk, TRUE), ~Occurs(stk, t)
  PROVE  /\ ~Occurs(open, t)
         /\ StackReads(Append(open, t), Append(stk, t), room)
<1> DEFINE new == Append(open, t)
           top == Append(stk, t)
           n == Len(stk)
<1>1. /\ Occurs(new, t)
      /\ \A u : Occurs(open, u) => Occurs(new, u)
      /\ \A u : Occurs(new, u) => Occurs(open, u) \/ u = t
      /\ \A u, v : Before(open, u, v) => Before(new, u, v)
      /\ \A u : Occurs(open, u) /\ ~Occurs(open, t) => Before(new, u, t)
  BY OccursAppended
<1>2. Occurs(top, t) /\ \A u : Occurs(stk, u) => Occurs(top, u)
  BY OccursAppended
<1>3. n \in Nat /\ Len(top) = n + 1 /\ top[n + 1] = t /\ \A k \in 1..n : top[k] = stk[k]
  BY AppendProperties, LenProperties
<1>4. \A x \in Tag : Occurs(open, x) => Occurs(stk, x)
  BY DEF StackReads
<1>5. ~Occurs(open, t)
  BY <1>4
<1> HIDE DEF new, top
<1>6. \A k \in 1..(n + 1) : k \in 1..n \/ k = n + 1
  BY <1>3
<1>7. \A i \in 1..(n + 1) : Occurs(new, top[i])
  BY <1>1, <1>3, <1>6 DEF StackReads
<1>8. ASSUME NEW i \in 1..(n + 1), NEW j \in 1..(n + 1), i < j
      PROVE  Before(new, top[i], top[j])
  <2>1. i \in 1..n
    BY <1>3, <1>8
  <2>2. CASE j \in 1..n
    BY <1>1, <1>3, <1>8, <2>1, <2>2 DEF StackReads
  <2>3. CASE j = n + 1
    <3>1. Occurs(open, stk[i])
      BY <2>1 DEF StackReads
    <3>2. QED
      BY <1>1, <1>3, <1>5, <2>1, <2>3, <3>1
  <2>4. QED
    BY <1>6, <2>2, <2>3
<1>9. \A x \in Tag : Occurs(new, x) => Occurs(top, x)
  BY <1>1, <1>2, <1>4
<1>10. StackReads(new, top, room)
  BY <1>3, <1>7, <1>8, <1>9 DEF StackReads
<1>11. QED
  BY <1>5, <1>10 DEF new, top

LEMMA StackCut ==
  ASSUME NEW open \in Seq(Tag), NEW stk \in Seq(Tag), NEW room, open # <<>>,
         StackReads(open, stk, room), Occurs(stk, Last(open)) => Occurs(Front(open), Last(open))
  PROVE  StackReads(Front(open), stk, room)
<1> DEFINE f == Front(open)
           t == Last(open)
<1>1. /\ \A u : Occurs(f, u) => Occurs(open, u)
      /\ \A u : Occurs(open, u) => Occurs(f, u) \/ u = t
      /\ \A u, v : Before(open, u, v) /\ Occurs(f, u) => Before(f, u, v)
  BY OccursCut
<1>2. Occurs(stk, t) => Occurs(f, t)
  OBVIOUS
<1> HIDE DEF f, t
<1>3. ASSUME NEW i \in 1..Len(stk) PROVE Occurs(f, stk[i])
  <2>1. Occurs(open, stk[i]) /\ Occurs(stk, stk[i])
    BY DEF StackReads, Occurs
  <2>2. QED
    BY <1>1, <1>2, <2>1
<1>4. \A i, j \in 1..Len(stk) : i < j => Before(f, stk[i], stk[j])
  BY <1>1, <1>3 DEF StackReads
<1>5. \A x \in Tag : Occurs(f, x) /\ ~Occurs(stk, x) =>
        (\A i \in 1..Len(stk) : Before(f, stk[i], x)) /\ ~room
  BY <1>1, <1>3 DEF StackReads
<1>6. StackReads(f, stk, room)
  BY <1>3, <1>4, <1>5 DEF StackReads
<1>7. QED
  BY <1>6 DEF f

(* A tag on the stack that is open once, innermost, is on top of the stack. *)
LEMMA StackTop ==
  ASSUME NEW open \in Seq(Tag), NEW stk \in Seq(Tag), NEW room, NEW rest, open # <<>>,
         StackReads(open, stk, room), Occurs(stk, Last(open)),
         ~Occurs(Front(open), Last(open)),
         \A k, l \in 1..Len(stk) : stk[k] = stk[l] => k = l
  PROVE  /\ stk # <<>> /\ Last(stk) = Last(open)
         /\ StackReads(Front(open), Front(stk), rest)
<1> DEFINE f == Front(open)
           t == Last(open)
           g == Front(stk)
           n == Len(stk)
<1>1. /\ \A u : Occurs(f, u) => Occurs(open, u)
      /\ \A u : Occurs(open, u) => Occurs(f, u) \/ u = t
      /\ \A u, v : Before(open, u, v) /\ Occurs(f, u) => Before(f, u, v)
      /\ \A v : Before(open, t, v) /\ ~Occurs(f, t) => ~Occurs(open, v)
  BY OccursCut
<1>2. PICK k \in 1..n : stk[k] = t
  BY DEF Occurs
<1>3. n \in Nat \ {0} /\ stk # <<>>
  BY <1>2, LenProperties
<1>4. Len(g) = n - 1 /\ Last(stk) = stk[n] /\ \A i \in 1..(n - 1) : g[i] = stk[i]
  BY <1>3, FrontFacts DEF Last
<1>5. ~Occurs(f, t)
  OBVIOUS
<1> HIDE DEF f, t, g, n
<1>6. k = n
  <2> SUFFICES ASSUME k # n PROVE FALSE
    OBVIOUS
  <2>1. n \in 1..n /\ k < n
    BY <1>3
  <2>2. Before(open, t, stk[n]) /\ Occurs(open, stk[n])
    BY <1>2, <2>1 DEF StackReads, n
  <2>3. QED
    BY <1>1, <1>5, <2>2
<1>7. Last(stk) = t
  BY <1>2, <1>4, <1>6
<1>8. ASSUME NEW i \in 1..(n - 1) PROVE Occurs(f, g[i]) /\ g[i] = stk[i] /\ i \in 1..n
  <2>1. i \in 1..n /\ n \in 1..n /\ i # n
    BY <1>3
  <2>2. stk[i] # t
    BY <1>2, <1>6, <2>1 DEF n
  <2>3. Occurs(open, stk[i])
    BY <2>1 DEF StackReads, n
  <2>4. QED
    BY <1>1, <1>4, <2>1, <2>2, <2>3
<1>9. \A i, j \in 1..(n - 1) : i < j => Before(f, g[i], g[j])
  BY <1>1, <1>8 DEF StackReads, n
<1>10. ASSUME NEW x \in Tag, Occurs(f, x) PROVE Occurs(g, x)
  <2>1. Occurs(open, x) /\ x # t
    BY <1>1, <1>5, <1>10
  <2>2. Occurs(stk, x)
    <3> SUFFICES ASSUME ~Occurs(stk, x) PROVE FALSE
      OBVIOUS
    <3>1. Before(open, t, x)
      BY <1>2, <2>1 DEF StackReads, n
    <3>2. QED
      BY <1>1, <1>5, <2>1, <3>1
  <2>3. PICK i \in 1..n : stk[i] = x
    BY <2>2 DEF Occurs, n
  <2>4. i \in 1..(n - 1)
    BY <1>2, <1>3, <1>6, <2>1, <2>3
  <2>5. QED
    BY <1>4, <2>3, <2>4 DEF Occurs
<1>11. StackReads(f, g, rest)
  BY <1>4, <1>8, <1>9, <1>10 DEF StackReads
<1>12. QED
  BY <1>3, <1>7, <1>11 DEF f, t, g

(* A tag is left out, and the count for its closer goes up. *)
LEMMA SkipOneMore ==
  ASSUME NEW open \in Seq(Tag), NEW stk, NEW skp \in [Tag -> Nat], NEW t \in Tag,
         CloseID[t] \in Tag, SkipReads(open, stk, skp)
  PROVE  SkipReads(Append(open, t), stk, [skp EXCEPT ![CloseID[t]] = @ + 1])
<1> DEFINE more == [skp EXCEPT ![CloseID[t]] = @ + 1]
<1>1. \A c \in Tag : more[c] = skp[c] + (IF CloseID[t] = c THEN 1 ELSE 0) /\ skp[c] \in Nat
  OBVIOUS
<1> HIDE DEF more
<1>2. ASSUME NEW c \in Tag
      PROVE  more[c] + (IF OpenFor(stk, c) = {} THEN 0 ELSE 1)
               = Cardinality(OpenFor(Append(open, t), c))
  <2> DEFINE a == Cardinality(OpenFor(open, c))
             b == Cardinality(OpenFor(Append(open, t), c))
  <2>1. a \in Nat /\ b = a + (IF CloseID[t] = c THEN 1 ELSE 0)
    BY OpenForAppended
  <2>2. skp[c] + (IF OpenFor(stk, c) = {} THEN 0 ELSE 1) = a
    BY DEF SkipReads
  <2> HIDE DEF a, b
  <2>3. more[c] + (IF OpenFor(stk, c) = {} THEN 0 ELSE 1) = b
    BY <1>1, <2>1, <2>2
  <2>4. QED
    BY <2>3 DEF b
<1>3. QED
  BY <1>2 DEF SkipReads, more

(* A tag is pushed: nothing with its closer was on the stack. *)
LEMMA SkipPushed ==
  ASSUME NEW open \in Seq(Tag), NEW stk \in Seq(Tag), NEW skp \in [Tag -> Nat], NEW t \in Tag,
         NEW room, StackReads(open, stk, room), SkipReads(open, stk, skp),
         ~Clashes(open, t), ~Occurs(stk, t)
  PROVE  SkipReads(Append(open, t), Append(stk, t), skp)
<1>1. OpenFor(stk, CloseID[t]) = {}
  <2> SUFFICES ASSUME NEW k \in 1..Len(stk), CloseID[stk[k]] = CloseID[t] PROVE FALSE
    BY DEF OpenFor
  <2>1. PICK l \in 1..Len(open) : open[l] = stk[k]
    BY DEF StackReads, Occurs
  <2>2. open[l] = t
    BY <2>1 DEF Clashes
  <2>3. QED
    BY <2>1, <2>2 DEF Occurs
<1>2. ASSUME NEW c \in Tag
      PROVE  skp[c] + (IF OpenFor(Append(stk, t), c) = {} THEN 0 ELSE 1)
               = Cardinality(OpenFor(Append(open, t), c))
  <2> DEFINE a == Cardinality(OpenFor(open, c))
             b == Cardinality(OpenFor(Append(open, t), c))
             d == Cardinality(OpenFor(stk, c))
             e == Cardinality(OpenFor(Append(stk, t), c))
  <2>1. a \in Nat /\ b = a + (IF CloseID[t] = c THEN 1 ELSE 0)
    BY OpenForAppended
  <2>2. d \in Nat /\ e = d + (IF CloseID[t] = c THEN 1 ELSE 0)
    BY OpenForAppended
  <2>3. skp[c] + (IF OpenFor(stk, c) = {} THEN 0 ELSE 1) = a
    BY DEF SkipReads
  <2>4. /\ d = 0 <=> OpenFor(stk, c) = {}
        /\ e = 0 <=> OpenFor(Append(stk, t), c) = {}
    BY OpenForNone, AppendProperties
  <2>5. CloseID[t] = c => d = 0
    BY <1>1, <2>4
  <2>6. skp[c] \in Nat
    OBVIOUS
  <2> HIDE DEF a, b, d, e
  <2>7. skp[c] + (IF OpenFor(Append(stk, t), c) = {} THEN 0 ELSE 1) = b
    BY <2>1, <2>2, <2>3, <2>4, <2>5, <2>6
  <2>8. QED
    BY <2>7 DEF b
<1>3. QED
  BY <1>2 DEF SkipReads

LEMMA OneTagPerCloser ==
  ASSUME NEW open, ReadingOK(open), NEW k \in 1..Len(open), NEW l \in 1..Len(open),
         CloseID[open[k]] = CloseID[open[l]]
  PROVE  open[k] = open[l]
  BY DEF ReadingOK

LEMMA LastOpen ==
  ASSUME NEW open, ReadingOK(open), open # <<>>
  PROVE  /\ Last(open) \in Tag /\ Pairs(Last(open)) /\ CloseID[Last(open)] \in Tag
         /\ \E n \in 1..Len(open) : Last(open) = open[n]
<1>1. Len(open) \in 1..Len(open) /\ Last(open) = open[Len(open)]
  BY FrontFacts DEF ReadingOK, Last
<1>2. Pairs(Last(open))
  BY <1>1 DEF ReadingOK
<1>3. QED
  BY <1>1, <1>2, PairFacts

(* Where the stack or what is left of the reading has a tag with the        *)
(* innermost tag's closer, that is the innermost tag.                      *)
LEMMA SameCloser ==
  ASSUME NEW open, NEW stk, NEW room, ReadingOK(open), StackReads(open, stk, room), open # <<>>
  PROVE  /\ OpenFor(stk, CloseID[Last(open)]) # {} <=> Occurs(stk, Last(open))
         /\ OpenFor(Front(open), CloseID[Last(open)]) # {} <=> Occurs(Front(open), Last(open))
<1> DEFINE u == Last(open)
           f == Front(open)
<1>1. PICK n \in 1..Len(open) : u = open[n]
  BY LastOpen
<1>2. \A x : Occurs(f, x) => Occurs(open, x)
  BY OccursCut DEF ReadingOK
<1> HIDE DEF u, f
<1>3. ASSUME NEW x, Occurs(open, x), CloseID[x] = CloseID[u] PROVE x = u
  <2>1. PICK k \in 1..Len(open) : open[k] = x
    BY <1>3 DEF Occurs
  <2>2. QED
    BY <1>1, <1>3, <2>1, OneTagPerCloser
<1>4. \A k \in 1..Len(stk) : Occurs(open, stk[k])
  BY DEF StackReads
<1>5. \A k \in 1..Len(f) : Occurs(open, f[k])
  BY <1>2 DEF Occurs
<1>6. OpenFor(stk, CloseID[u]) # {} <=> Occurs(stk, u)
  BY <1>3, <1>4 DEF OpenFor, Occurs
<1>7. OpenFor(f, CloseID[u]) # {} <=> Occurs(f, u)
  BY <1>3, <1>5 DEF OpenFor, Occurs
<1>8. QED
  BY <1>6, <1>7 DEF u, f

(* The closer of the innermost tag is skipped. *)
LEMMA SkipEaten ==
  ASSUME NEW open, NEW stk \in Seq(Tag), NEW skp \in [Tag -> Nat], NEW room, open # <<>>,
         ReadingOK(open), StackReads(open, stk, room), SkipReads(open, stk, skp),
         NEW c, c = CloseID[Last(open)], skp[c] > 0
  PROVE  /\ Occurs(stk, Last(open)) => Occurs(Front(open), Last(open))
         /\ SkipReads(Front(open), stk, [skp EXCEPT ![c] = @ - 1])
<1> DEFINE f    == Front(open)
           u    == Last(open)
           less == [skp EXCEPT ![c] = @ - 1]
<1>1. c \in Tag /\ f \in Seq(Tag) /\ open \in Seq(Tag)
  BY LastOpen, FrontFacts DEF ReadingOK
<1>2. /\ OpenFor(stk, c) # {} <=> Occurs(stk, u)
      /\ OpenFor(f, c) # {} <=> Occurs(f, u)
  BY SameCloser
<1>3. \A x \in Tag : less[x] = skp[x] - (IF c = x THEN 1 ELSE 0) /\ skp[x] \in Nat
  BY <1>1
<1>4. \A x \in Tag : /\ Cardinality(OpenFor(f, x)) \in Nat
                     /\ Cardinality(OpenFor(open, x))
                          = Cardinality(OpenFor(f, x)) + (IF c = x THEN 1 ELSE 0)
                     /\ Cardinality(OpenFor(f, x)) = 0 <=> OpenFor(f, x) = {}
  BY <1>1, OpenForFront, OpenForNone
<1> HIDE DEF less, f, u
<1>5. ASSUME NEW x \in Tag
      PROVE  less[x] + (IF OpenFor(stk, x) = {} THEN 0 ELSE 1) = Cardinality(OpenFor(f, x))
  <2> DEFINE a == Cardinality(OpenFor(open, x))
             b == Cardinality(OpenFor(f, x))
  <2>1. skp[x] + (IF OpenFor(stk, x) = {} THEN 0 ELSE 1) = a
    BY DEF SkipReads
  <2>2. b \in Nat /\ a = b + (IF c = x THEN 1 ELSE 0)
    BY <1>4
  <2> HIDE DEF a, b
  <2>3. less[x] + (IF OpenFor(stk, x) = {} THEN 0 ELSE 1) = b
    BY <1>3, <2>1, <2>2
  <2>4. QED
    BY <2>3 DEF b
<1>6. ASSUME Occurs(stk, u) PROVE Occurs(f, u)
  <2> DEFINE a == Cardinality(OpenFor(open, c))
             b == Cardinality(OpenFor(f, c))
  <2>1. skp[c] + (IF OpenFor(stk, c) = {} THEN 0 ELSE 1) = a
    BY <1>1 DEF SkipReads
  <2>2. b \in Nat /\ a = b + 1 /\ (b = 0 <=> OpenFor(f, c) = {}) /\ OpenFor(stk, c) # {}
    BY <1>1, <1>2, <1>4, <1>6
  <2>3. skp[c] \in Nat /\ skp[c] > 0
    BY <1>1, <1>3
  <2> HIDE DEF a, b
  <2>4. b # 0
    BY <2>1, <2>2, <2>3
  <2>5. QED
    BY <1>2, <2>2, <2>4
<1>7. SkipReads(f, stk, less)
  BY <1>5 DEF SkipReads
<1>8. QED
  BY <1>6, <1>7 DEF f, u, less

(* When it is not to be skipped, its tag is on the stack, and open once. *)
LEMMA SkipClosed ==
  ASSUME NEW open, NEW stk \in Seq(Tag), NEW skp \in [Tag -> Nat], NEW room, NEW rest,
         open # <<>>, ReadingOK(open), StackReads(open, stk, room), SkipReads(open, stk, skp),
         \A k, l \in 1..Len(stk) : stk[k] = stk[l] => k = l,
         skp[CloseID[Last(open)]] = 0
  PROVE  /\ stk # <<>> /\ Last(stk) = Last(open)
         /\ StackReads(Front(open), Front(stk), rest)
         /\ SkipReads(Front(open), Front(stk), skp)
<1> DEFINE f == Front(open)
           u == Last(open)
           g == Front(stk)
           c == CloseID[u]
<1>1. c \in Tag /\ f \in Seq(Tag) /\ open \in Seq(Tag)
  BY LastOpen, FrontFacts DEF ReadingOK
<1>2. /\ OpenFor(stk, c) # {} <=> Occurs(stk, u)
      /\ OpenFor(f, c) # {} <=> Occurs(f, u)
  BY SameCloser
<1>3. \A x \in Tag : /\ Cardinality(OpenFor(f, x)) \in Nat
                     /\ Cardinality(OpenFor(open, x))
                          = Cardinality(OpenFor(f, x)) + (IF c = x THEN 1 ELSE 0)
                     /\ Cardinality(OpenFor(f, x)) = 0 <=> OpenFor(f, x) = {}
  BY <1>1, OpenForFront, OpenForNone
<1>4. Occurs(stk, u) /\ ~Occurs(f, u)
  <2> DEFINE a == Cardinality(OpenFor(open, c))
             b == Cardinality(OpenFor(f, c))
  <2>1. 0 + (IF OpenFor(stk, c) = {} THEN 0 ELSE 1) = a
    BY <1>1 DEF SkipReads
  <2>2. b \in Nat /\ a = b + 1 /\ (b = 0 <=> OpenFor(f, c) = {})
    BY <1>1, <1>3
  <2> HIDE DEF a, b
  <2>3. OpenFor(stk, c) # {} /\ b = 0
    BY <2>1, <2>2
  <2>4. QED
    BY <1>2, <2>2, <2>3
<1>5. stk # <<>> /\ Last(stk) = u /\ StackReads(f, g, rest)
  BY <1>1, <1>4, StackTop
<1>6. g \in Seq(Tag) /\ \A x \in Tag : /\ Cardinality(OpenFor(g, x)) \in Nat
                                       /\ Cardinality(OpenFor(stk, x))
                                            = Cardinality(OpenFor(g, x)) + (IF c = x THEN 1 ELSE 0)
                                       /\ Cardinality(OpenFor(g, x)) = 0 <=> OpenFor(g, x) = {}
                                       /\ Cardinality(OpenFor(stk, x)) = 0 <=> OpenFor(stk, x) = {}
  <2>1. g \in Seq(Tag) /\ CloseID[Last(stk)] = c
    BY <1>5, FrontFacts
  <2>2. \A x \in Tag : /\ Cardinality(OpenFor(g, x)) \in Nat
                       /\ Cardinality(OpenFor(stk, x)) = Cardinality(OpenFor(g, x))
                            + (IF CloseID[Last(stk)] = x THEN 1 ELSE 0)
    BY <1>5, OpenForFront
  <2> HIDE DEF g, c
  <2>3. QED
    BY <2>1, <2>2, OpenForNone
<1>7. OpenFor(g, c) = {}
  <2> SUFFICES ASSUME NEW k \in 1..Len(g), CloseID[g[k]] = c PROVE FALSE
    BY DEF OpenFor
  <2>1. Len(stk) \in Nat \ {0} /\ Len(g) = Len(stk) - 1 /\ g[k] = stk[k] /\ u = stk[Len(stk)]
    BY <1>5, FrontFacts DEF Last
  <2>2. k \in 1..Len(stk) /\ Len(stk) \in 1..Len(stk) /\ k # Len(stk)
    BY <2>1
  <2>3. Occurs(open, stk[k])
    BY <2>2 DEF StackReads
  <2>4. PICK i \in 1..Len(open) : open[i] = stk[k]
    BY <2>3 DEF Occurs
  <2>5. PICK j \in 1..Len(open) : open[j] = u
    BY LastOpen
  <2>6. stk[k] = u
    BY <2>1, <2>4, <2>5, OneTagPerCloser
  <2>7. QED
    BY <2>1, <2>2, <2>6
<1> HIDE DEF f, u, g
<1>8. ASSUME NEW x \in Tag
      PROVE  skp[x] + (IF OpenFor(g, x) = {} THEN 0 ELSE 1) = Cardinality(OpenFor(f, x))
  <2> DEFINE a == Cardinality(OpenFor(open, x))
             b == Cardinality(OpenFor(f, x))
             d == Cardinality(OpenFor(stk, x))
             e == Cardinality(OpenFor(g, x))
  <2>1. skp[x] + (IF OpenFor(stk, x) = {} THEN 0 ELSE 1) = a
    BY DEF SkipReads
  <2>2. b \in Nat /\ a = b + (IF c = x THEN 1 ELSE 0)
    BY <1>3
  <2>3. /\ e \in Nat /\ d = e + (IF c = x THEN 1 ELSE 0)
        /\ e = 0 <=> OpenFor(g, x) = {}
        /\ d = 0 <=> OpenFor(stk, x) = {}
    BY <1>6
  <2>4. c = x => e = 0
    BY <1>7, <2>3
  <2>5. skp[x] \in Nat
    OBVIOUS
  <2> HIDE DEF a, b, d, e, c
  <2>6. skp[x] + (IF OpenFor(g, x) = {} THEN 0 ELSE 1) = b
    BY <2>1, <2>2, <2>3, <2>4, <2>5
  <2>7. QED
    BY <2>6 DEF b
<1>9. SkipReads(f, g, skp)
  BY <1>8 DEF SkipReads
<1>10. QED
  BY <1>5, <1>9 DEF f, u, g

-----------------------------------------------------------------------------
(* The parser and the reading *)

(* What a token that is read makes of a reading without a fault. *)
LEMMA ReadingSteps ==
  ASSUME NestingOK, RecordsOK, Parsing, NEW tok, Reads(tok), Nesting(input)' # Fault,
         NEW open, open = Nesting(input), NEW next, next = Nesting(input)'
  PROVE  /\ ReadingOK(open) /\ StackReads(open, stack, RoomToOpen)
         /\ SkipReads(open, stack, skip) /\ NothingRefused /\ open \in Seq(Tag)
         /\ ReadingOK(next)
         /\ \/ tok.type \notin Tag \ Greedy /\ next = open
            \/ /\ tok.type \in Tag \ Greedy /\ open # <<>> /\ CloseID[Last(open)] = tok.type
               /\ next = Front(open)
            \/ /\ Pairs(tok.type) /\ ~Clashes(open, tok.type) /\ next = Append(open, tok.type)
               /\ OpenFor(open, tok.type) = {}
               /\ IsUniversal(tok.type) => ~Occurs(open, tok.type)
<1>1. /\ input \in Seq(TokenRecord) /\ tok \in TokenRecord /\ input' = Append(input, tok)
      /\ phase = "tokens"
  BY DEF RecordsOK, Reads, Parsing
<1>2. next = Nesting(Append(input, tok))
  BY <1>1 DEF Nesting
<1>3. next = NestedBy(open, tok.type)
  BY <1>1, <1>2, NestingStep
<1>4. next # Fault
  OBVIOUS
<1>5. open # Fault
  BY <1>3, <1>4 DEF NestedBy
<1>6. /\ ReadingOK(open) /\ StackReads(open, stack, RoomToOpen)
      /\ SkipReads(open, stack, skip) /\ NothingRefused
  BY <1>1, <1>5 DEF NestingOK
<1>7. open \in Seq(Tag)
  BY <1>6 DEF ReadingOK
<1>8. CASE tok.type \notin Tag \ Greedy
  BY <1>3, <1>5, <1>6, <1>7, <1>8 DEF NestedBy
<1>9. CASE tok.type \in Tag \ Greedy /\ open # <<>> /\ CloseID[Last(open)] = tok.type
  <2>1. next = Front(open)
    BY <1>3, <1>5, <1>9 DEF NestedBy
  <2>2. QED
    BY <1>6, <1>7, <1>9, <2>1, ReadingCut
<1>10. CASE tok.type \in Tag \ Greedy /\ ~(open # <<>> /\ CloseID[Last(open)] = tok.type)
  <2>1. Pairs(tok.type) /\ ~Clashes(open, tok.type) /\ next = Append(open, tok.type)
    BY <1>3, <1>4, <1>5, <1>10 DEF NestedBy
  <2>2. QED
    BY <1>6, <1>7, <2>1, ReadingAdded, OpensOnly
<1>11. QED
  BY <1>8, <1>9, <1>10

(* The warnings a step raises are none of the two refusals. *)
Silent(items) ==
  \/ items = <<>>
  \/ \E x \in Report : /\ items = <<x>>
                       /\ x.issue \notin {"MisplacedClosingTag", "OpenCloseTagMismatch"}

LEMMA SilentKeeps ==
  ASSUME WarningsOK, NothingRefused, NEW items, Silent(items), raised' = raised \o items
  PROVE  NothingRefused'
<1>1. raised \in Seq(Report)
  BY DEF WarningsOK
<1>2. ASSUME NEW issue \in {"MisplacedClosingTag", "OpenCloseTagMismatch"}, Issues(issue) = 0
      PROVE  Issues(issue)' = 0
  <2>1. Issues(issue)' = IssueCount(raised', issue) /\ IssueCount(raised, issue) = 0
    BY <1>2 DEF Issues, IssueCount
  <2>2. CASE items = <<>>
    BY <1>1, <2>1, <2>2, ConcatEmptySeq
  <2>3. ASSUME NEW x \in Report, items = <<x>>,
               x.issue \notin {"MisplacedClosingTag", "OpenCloseTagMismatch"}
        PROVE  Issues(issue)' = 0
    <3>1. IssueCount(raised \o <<x>>, issue) = IssueCount(raised, issue)
            + (IF x.issue = issue THEN 1 ELSE 0)
      BY <1>1, CountOne
    <3>2. QED
      BY <2>1, <2>3, <3>1
  <2>4. QED
    BY <2>2, <2>3 DEF Silent
<1>3. QED
  BY <1>2 DEF NothingRefused

LEMMA QuietRaised ==
  ASSUME WarningsOK, raised' = raised
  PROVE  \E items : Silent(items) /\ raised' = raised \o items
<1>1. raised = raised \o <<>>
  BY ConcatEmptySeq DEF WarningsOK
<1>2. QED
  BY <1>1 DEF Silent

LEMMA SilentLimit ==
  ASSUME NEW issue \in LimitIssue, NEW pos \in Nat, WarnLimit(issue, pos, <<>>)
  PROVE  \E items : Silent(items) /\ raised' = raised \o items
<1> DEFINE w == Warning(issue, pos)
           items == IF issue \in warnedLimits THEN <<>> ELSE Append(<<>>, w)
<1>1. raised' = raised \o items
  BY DEF WarnLimit, Warn
<1>2. w \in Report /\ w.issue = issue
  BY NewReport DEF LimitIssue, Issue
<1>3. issue \notin {"MisplacedClosingTag", "OpenCloseTagMismatch"}
  BY DEF LimitIssue
<1> HIDE DEF w
<1>4. Append(<<>>, w) = <<w>>
  OBVIOUS
<1>5. Silent(items)
  BY <1>2, <1>3, <1>4 DEF Silent
<1>6. QED
  BY <1>1, <1>5

LEMMA StackRoom ==
  ASSUME NEW open, NEW stk, NEW room, NEW rest, StackReads(open, stk, room), rest => room
  PROVE  StackReads(open, stk, rest)
  BY DEF StackReads

(* Room that is not there does not come back without a closer. *)
LEMMA NoNewRoom ==
  ASSUME setting' = setting, stack' = stack, ~RoomForNode => Len(nodes') = Len(nodes)
  PROVE  RoomToOpen' => RoomToOpen
  BY DEF RoomToOpen, RoomForNode, RoomForDepth

LEMMA OnStack ==
  ASSUME OpenedOnce, StacksOK
  PROVE  /\ stack \in Seq(Tag) /\ \A k, l \in 1..Len(stack) : stack[k] = stack[l] => k = l
         /\ \A t : t \in openedTags <=> Occurs(stack, t)
  BY DEF OpenedOnce, StacksOK, Occurs

(* A token that is none of the reading's. *)
LEMMA FlatNesting ==
  ASSUME IInv, NestingOK, Parsing, NEW tok, Reads(tok), tok.type \notin Tag \ Greedy,
         stack' = stack, skip' = skip, ~RoomForNode => Len(nodes') = Len(nodes),
         NEW items, Silent(items), raised' = raised \o items
  PROVE  NestingOK'
<1> SUFFICES ASSUME Nesting(input)' # Fault
             PROVE  /\ ReadingOK(Nesting(input)') /\ StackReads(Nesting(input)', stack', RoomToOpen')
                    /\ SkipReads(Nesting(input)', stack', skip') /\ NothingRefused'
  BY DEF NestingOK
<1>1. RecordsOK /\ WarningsOK /\ setting' = setting
  BY DEF IInv, Parsing
<1> DEFINE open == Nesting(input)
           next == Nesting(input)'
<1>2. /\ ReadingOK(open) /\ StackReads(open, stack, RoomToOpen) /\ SkipReads(open, stack, skip)
      /\ NothingRefused /\ ReadingOK(next)
      /\ next = open \/ Pairs(tok.type)
  BY <1>1, ReadingSteps
<1>3. next = open
  BY <1>2, PairFacts
<1>4. RoomToOpen' => RoomToOpen
  BY <1>1, NoNewRoom
<1> HIDE DEF open, next
<1>5. StackReads(next, stack', RoomToOpen')
  BY <1>2, <1>3, <1>4, StackRoom
<1>6. NothingRefused'
  BY <1>1, <1>2, SilentKeeps
<1>7. SkipReads(next, stack', skip')
  BY <1>2, <1>3
<1>8. QED
  BY <1>2, <1>5, <1>6, <1>7 DEF next

LEMMA TextNesting == ASSUME IInv, NestingOK, ProcessText PROVE NestingOK'
<1>1. PICK tok \in Tokens({"text"}) :
        Parsing /\ input' = Append(input, tok) /\ AddText(tok, <<>>)
  BY DEF ProcessText
<1>2. RecordsOK /\ WarningsOK /\ raised \in Seq(Report)
  BY DEF IInv, WarningsOK
<1>3. Reads(tok) /\ tok.type = "text" /\ tok.pos \in Nat
  <2>1. {"text"} \in SUBSET TokenType
    BY DEF TokenType
  <2>2. tok \in TokenRecord /\ tok.pos = Position /\ tok.type \in {"text"}
    BY <1>2, <2>1, TokenFacts
  <2>3. QED
    BY <1>1, <2>2 DEF Reads, TokenRecord
<1>4. tok.type \notin Tag \ Greedy
  BY <1>3, ParserAssumption
<1>5. stack' = stack /\ skip' = skip /\ (~RoomForNode => Len(nodes') = Len(nodes))
  BY <1>1 DEF AddText
<1>6. \E items : Silent(items) /\ raised' = raised \o items
  <2>1. CASE Warn(<<>>)
    BY <2>1 DEF Warn, Silent
  <2>2. CASE WarnLimit("MaxNodesExceeded", tok.pos, <<>>)
    BY <1>3, <2>2, SilentLimit DEF LimitIssue
  <2>3. QED
    BY <1>1, <2>1, <2>2 DEF AddText
<1>7. QED
  BY <1>1, <1>3, <1>4, <1>5, <1>6, FlatNesting

LEMMA AttributeNesting == ASSUME IInv, NestingOK, ProcessAttribute PROVE NestingOK'
<1>1. PICK tok \in Tokens({"attribute"}) :
        /\ Parsing /\ input' = Append(input, tok)
        /\ \/ /\ nodes' = AttributeRange(nodes, lastNode, Len(attributes) + 1)
              /\ NoWarning
           \/ /\ WarnLimit("MaxAttributesExceeded", tok.pos, <<>>)
              /\ nodes' = nodes
        /\ stack' = stack /\ skip' = skip
  BY DEF ProcessAttribute, places
<1>2. RecordsOK /\ LinksOK /\ WarningsOK /\ raised \in Seq(Report)
  BY DEF IInv, WarningsOK
<1>3. Reads(tok) /\ tok.type = "attribute" /\ tok.pos \in Nat
  <2>1. {"attribute"} \in SUBSET TokenType
    BY DEF TokenType
  <2>2. tok \in TokenRecord /\ tok.pos = Position /\ tok.type \in {"attribute"}
    BY <1>2, <2>1, TokenFacts
  <2>3. QED
    BY <1>1, <2>2 DEF Reads, TokenRecord
<1>4. tok.type \notin Tag \ Greedy
  BY <1>3, ParserAssumption
<1>5. Len(nodes') = Len(nodes)
  <2>1. /\ nodes \in Seq(NodeRecord) /\ Linked(nodes, Len(nodes)) /\ lastNode \in 1..Len(nodes)
        /\ Len(attributes) + 1 \in Nat
    BY <1>2, ArenaFacts DEF RecordsOK, LinksOK, Linked, Links, NodeIds
  <2>2. Len(AttributeRange(nodes, lastNode, Len(attributes) + 1)) = Len(nodes)
    BY <2>1, AttributeRangeFacts
  <2>3. QED
    BY <1>1, <2>2
<1>6. \E items : Silent(items) /\ raised' = raised \o items
  <2>1. CASE NoWarning
    BY <1>2, <2>1, QuietRaised DEF NoWarning
  <2>2. CASE WarnLimit("MaxAttributesExceeded", tok.pos, <<>>)
    BY <1>3, <2>2, SilentLimit DEF LimitIssue
  <2>3. QED
    BY <1>1, <2>1, <2>2
<1>7. QED
  BY <1>1, <1>3, <1>4, <1>5, <1>6, FlatNesting

LEMMA GreedyNesting == ASSUME IInv, NestingOK, GreedyNode PROVE NestingOK'
<1>1. PICK tok \in TagTokens(Greedy) :
        /\ Parsing /\ input' = Append(input, tok)
        /\ stack' = stack /\ skip' = skip
        /\ \/ RoomForNode /\ NoWarning
           \/ RoomForNode /\ WarnLimit("MaxNodesExceeded", PayloadStart(tok), <<>>)
           \/ ~RoomForNode /\ nodes' = nodes /\ WarnLimit("MaxNodesExceeded", tok.pos, <<>>)
  BY DEF GreedyNode
<1>2. RecordsOK /\ WarningsOK /\ Greedy \in SUBSET Tag
  BY ParserAssumption DEF IInv
<1>3. Reads(tok) /\ tok.type \in Greedy /\ tok.pos \in Nat /\ PayloadStart(tok) \in Nat
  BY <1>1, <1>2, PassedOn DEF PayloadStart
<1>4. \E items : Silent(items) /\ raised' = raised \o items
  <2>1. CASE NoWarning
    BY <1>2, <2>1, QuietRaised DEF NoWarning
  <2>2. CASE WarnLimit("MaxNodesExceeded", PayloadStart(tok), <<>>)
    BY <1>3, <2>2, SilentLimit DEF LimitIssue
  <2>3. CASE WarnLimit("MaxNodesExceeded", tok.pos, <<>>)
    BY <1>3, <2>3, SilentLimit DEF LimitIssue
  <2>4. QED
    BY <1>1, <2>1, <2>2, <2>3
<1>5. ~RoomForNode => Len(nodes') = Len(nodes)
  BY <1>1
<1>6. tok.type \notin Tag \ Greedy
  BY <1>3
<1>7. QED
  BY <1>1, <1>3, <1>4, <1>5, <1>6, FlatNesting

(* A step that leaves the parser where the reading of its token is. *)
LEMMA NestingStays ==
  ASSUME NEW next, next = Nesting(input)', ReadingOK(next),
         StackReads(next, stack', RoomToOpen'), SkipReads(next, stack', skip'), NothingRefused'
  PROVE  NestingOK'
  BY DEF NestingOK

LEMMA SkippedNesting == ASSUME IInv, NestingOK, ProcessSkipped PROVE NestingOK'
<1> DEFINE skipped == {t \in Tag : skip[t] > 0}
<1>1. PICK tok \in Tokens(skipped) :
        /\ Parsing /\ input' = Append(input, tok)
        /\ skip' = [skip EXCEPT ![tok.type] = @ - 1]
        /\ stack' = stack /\ nodes' = nodes /\ raised' = raised
  BY DEF ProcessSkipped, Discard, ast, places
<1>2. /\ RecordsOK /\ WarningsOK /\ skip \in [Tag -> Nat] /\ skipped \in SUBSET Tag
      /\ stack \in Seq(Tag) /\ setting' = setting
  BY <1>1 DEF IInv, RecordsOK, StacksOK, Parsing
<1>3. Reads(tok) /\ tok.type \in skipped
  <2> HIDE DEF skipped
  <2>1. QED
    BY <1>1, <1>2, TagTokenFacts
<1>4. tok.type \in Tag /\ skip[tok.type] > 0
  BY <1>3
<1> HIDE DEF skipped
<1> SUFFICES ASSUME Nesting(input)' # Fault PROVE NestingOK'
  BY DEF NestingOK
<1> DEFINE open == Nesting(input)
           next == Nesting(input)'
           t    == tok.type
<1>5. /\ ReadingOK(open) /\ StackReads(open, stack, RoomToOpen) /\ SkipReads(open, stack, skip)
      /\ NothingRefused /\ ReadingOK(next) /\ open \in Seq(Tag)
      /\ \/ t \notin Tag \ Greedy /\ next = open
         \/ t \in Tag \ Greedy /\ open # <<>> /\ CloseID[Last(open)] = t /\ next = Front(open)
         \/ Pairs(t) /\ OpenFor(open, t) = {}
  BY <1>1, <1>2, <1>3, ReadingSteps
<1>6. RoomToOpen' => RoomToOpen
  BY <1>1, <1>2, NoNewRoom
<1>7. NothingRefused'
  BY <1>1, <1>2, <1>5, QuietRaised, SilentKeeps
<1> HIDE DEF open, next, t
<1>8. t \in Tag /\ skip[t] \in Nat /\ skip[t] > 0
  BY <1>2, <1>4 DEF t
<1>9. OpenFor(open, t) # {}
  <2>1. skip[t] + (IF OpenFor(stack, t) = {} THEN 0 ELSE 1) = Cardinality(OpenFor(open, t))
    BY <1>5, <1>8 DEF SkipReads
  <2>2. Cardinality(OpenFor(open, t)) # 0
    BY <1>8, <2>1
  <2>3. QED
    BY <2>2, FS_EmptySet
<1>10. t \notin Greedy
  <2>1. PICK k \in 1..Len(open) : CloseID[open[k]] = t
    BY <1>9 DEF OpenFor
  <2>2. Pairs(open[k])
    BY <1>5 DEF ReadingOK
  <2>3. QED
    BY <2>1, <2>2, PairFacts
<1>11. open # <<>> /\ CloseID[Last(open)] = t /\ next = Front(open)
  BY <1>5, <1>8, <1>9, <1>10
<1>12. /\ Occurs(stack, Last(open)) => Occurs(Front(open), Last(open))
       /\ SkipReads(Front(open), stack, [skip EXCEPT ![t] = @ - 1])
  BY <1>2, <1>5, <1>8, <1>11, SkipEaten
<1>13. StackReads(Front(open), stack, RoomToOpen)
  BY <1>2, <1>5, <1>11, <1>12, StackCut
<1>14. StackReads(next, stack', RoomToOpen')
  BY <1>1, <1>6, <1>11, <1>13, StackRoom
<1>15. SkipReads(next, stack', skip')
  BY <1>1, <1>11, <1>12 DEF t
<1>16. QED
  BY <1>5, <1>7, <1>14, <1>15, NestingStays DEF next

(* What processTag passes on while the reading has no fault: a closer of    *)
(* the innermost tag, which is on top of the stack, or a tag that opens.    *)
LEMMA PassedSteps ==
  ASSUME IInv, NestingOK, Parsing, NEW tags \in SUBSET Tag, NEW tok \in TagTokens(tags),
         input' = Append(input, tok), tok.type \notin Greedy, Nesting(input)' # Fault,
         NEW open, open = Nesting(input), NEW next, next = Nesting(input)'
  PROVE  /\ ReadingOK(open) /\ StackReads(open, stack, RoomToOpen) /\ open \in Seq(Tag)
         /\ SkipReads(open, stack, skip) /\ NothingRefused /\ ReadingOK(next)
         /\ tok.type \in Tag /\ stack \in Seq(Tag) /\ skip \in [Tag -> Nat]
         /\ \/ /\ open # <<>> /\ CloseID[Last(open)] = tok.type /\ Last(open) \in Tag
               /\ next = Front(open) /\ stack # <<>> /\ Top = Last(open)
               /\ ~IsOpening(tok.type)
               /\ \A rest : StackReads(next, Front(stack), rest)
               /\ SkipReads(next, Front(stack), skip)
            \/ /\ Pairs(tok.type) /\ ~Clashes(open, tok.type)
               /\ next = Append(open, tok.type)
               /\ IsUniversal(tok.type) => Top # tok.type
<1> DEFINE t == tok.type
<1>1. /\ RecordsOK /\ stack \in Seq(Tag) /\ skip \in [Tag -> Nat]
      /\ \A k, l \in 1..Len(stack) : stack[k] = stack[l] => k = l
  BY OnStack DEF IInv, RecordsOK
<1>2. Reads(tok) /\ t \in Tag /\ skip[t] = 0
  <2> DEFINE passed == {x \in tags : skip[x] = 0}
  <2>1. tok \in Tokens(passed) /\ passed \in SUBSET Tag
    BY DEF TagTokens
  <2>2. Reads(tok) /\ tok.type \in passed
    <3> HIDE DEF passed
    <3>1. QED
      BY <1>1, <2>1, TagTokenFacts
  <2>3. QED
    BY <2>2
<1>3. /\ ReadingOK(open) /\ StackReads(open, stack, RoomToOpen) /\ SkipReads(open, stack, skip)
      /\ NothingRefused /\ ReadingOK(next) /\ open \in Seq(Tag)
      /\ \/ t \in Tag \ Greedy /\ open # <<>> /\ CloseID[Last(open)] = t /\ next = Front(open)
         \/ /\ Pairs(t) /\ ~Clashes(open, t) /\ next = Append(open, t)
            /\ IsUniversal(t) => ~Occurs(open, t)
  BY <1>1, <1>2, ReadingSteps
<1>4. CASE open # <<>> /\ CloseID[Last(open)] = t /\ next = Front(open)
  <2>1. \A rest : /\ stack # <<>> /\ Last(stack) = Last(open)
                  /\ StackReads(Front(open), Front(stack), rest)
                  /\ SkipReads(Front(open), Front(stack), skip)
    BY <1>1, <1>2, <1>3, <1>4, SkipClosed
  <2>2. Pairs(Last(open)) /\ Last(open) \in Tag
    BY <1>3, <1>4, LastOpen
  <2>3. ~IsOpening(t)
    <3>1. OpenID[t] # NoTag
      BY <1>4, <2>2, PairFacts DEF IsClosing, IsUniversal
    <3>2. QED
      BY <3>1 DEF IsOpening
  <2>4. Top = Last(open)
    BY <2>1 DEF Top
  <2>5. \A rest : /\ stack # <<>> /\ StackReads(next, Front(stack), rest)
                  /\ SkipReads(next, Front(stack), skip)
    BY <1>4, <2>1
  <2>6. QED
    BY <1>1, <1>2, <1>3, <1>4, <2>2, <2>3, <2>4, <2>5
<1>5. CASE /\ Pairs(t) /\ ~Clashes(open, t) /\ next = Append(open, t)
           /\ IsUniversal(t) => ~Occurs(open, t)
  <2>1. ASSUME IsUniversal(t) PROVE Top # t
    <3> SUFFICES ASSUME Top = t PROVE FALSE
      OBVIOUS
    <3>1. t # NoTag
      BY <1>5, PairFacts
    <3>2. stack # <<>> /\ Last(stack) = t
      BY <3>1 DEF Top
    <3>3. Len(stack) \in 1..Len(stack) /\ stack[Len(stack)] = t
      BY <1>1, <3>2, FrontFacts DEF Last
    <3>4. Occurs(open, t)
      BY <1>3, <3>3 DEF StackReads
    <3>5. QED
      BY <1>5, <2>1, <3>4
  <2>2. QED
    BY <1>1, <1>2, <1>3, <1>5, <2>1
<1>6. QED
  BY <1>3, <1>4, <1>5

LEMMA OpenersPair ==
  ASSUME NEW t \in Openers
  PROVE  t \notin Greedy /\ (IsOpening(t) \/ (IsUniversal(t) /\ Top # t))
  BY DEF Openers

(* An opener is read as one, unless it closes the tag it opened. *)
LEMMA OpenersOpen ==
  ASSUME IInv, NestingOK, Parsing, NEW tok \in TagTokens(Openers),
         input' = Append(input, tok), Nesting(input)' # Fault,
         NEW open, open = Nesting(input), NEW next, next = Nesting(input)'
  PROVE  /\ tok.type \in Tag /\ CloseID[tok.type] \in Tag
         /\ ReadingOK(open) /\ StackReads(open, stack, RoomToOpen) /\ open \in Seq(Tag)
         /\ SkipReads(open, stack, skip) /\ NothingRefused /\ ReadingOK(next)
         /\ stack \in Seq(Tag) /\ skip \in [Tag -> Nat]
         /\ ~Clashes(open, tok.type) /\ next = Append(open, tok.type)
         /\ tok.pos \in Nat /\ Reads(tok)
<1>1. Openers \in SUBSET Tag /\ RecordsOK
  BY OpenersFacts DEF IInv
<1>2. tok.type \in Openers /\ tok.pos \in Nat /\ Reads(tok)
  BY <1>1, PassedOn
<1>3. /\ tok.type \notin Greedy /\ CloseID[tok.type] \in Tag
      /\ IsOpening(tok.type) \/ (IsUniversal(tok.type) /\ Top # tok.type)
  BY <1>2, OpenersPair, OpenersFacts
<1>4. /\ ReadingOK(open) /\ StackReads(open, stack, RoomToOpen) /\ open \in Seq(Tag)
      /\ SkipReads(open, stack, skip) /\ NothingRefused /\ ReadingOK(next)
      /\ tok.type \in Tag /\ stack \in Seq(Tag) /\ skip \in [Tag -> Nat]
      /\ \/ /\ open # <<>> /\ CloseID[Last(open)] = tok.type /\ Last(open) \in Tag
            /\ Top = Last(open) /\ ~IsOpening(tok.type)
         \/ ~Clashes(open, tok.type) /\ next = Append(open, tok.type)
  BY <1>1, <1>3, PassedSteps
<1>5. ~Clashes(open, tok.type) /\ next = Append(open, tok.type)
  <2> SUFFICES ASSUME open # <<>>, CloseID[Last(open)] = tok.type, Top = Last(open),
                      ~IsOpening(tok.type)
               PROVE  FALSE
    BY <1>4
  <2>1. IsUniversal(tok.type) /\ Top # tok.type
    BY <1>3
  <2>2. Pairs(Last(open)) /\ IsUniversal(tok.type) => ~IsClosing(tok.type)
    BY <1>4, PairFacts, LastOpen DEF IsClosing, IsUniversal
  <2>3. Pairs(Last(open))
    BY <1>4, LastOpen
  <2>4. CloseID[Last(open)] = Last(open)
    BY <2>1, <2>2, <2>3, PairFacts
  <2>5. QED
    BY <2>1, <2>4
<1>6. QED
  BY <1>2, <1>3, <1>4, <1>5

(* An opener that is left out with its closer. *)
LEMMA LeftOutNesting ==
  ASSUME IInv, NestingOK, Parsing, NEW tok \in TagTokens(Openers),
         input' = Append(input, tok), SkipCloser(tok.type), stack' = stack, nodes' = nodes,
         tok.type \in openedTags \/ ~RoomToOpen,
         NEW items, Silent(items), raised' = raised \o items
  PROVE  NestingOK'
<1> SUFFICES ASSUME Nesting(input)' # Fault PROVE NestingOK'
  BY DEF NestingOK
<1> DEFINE open == Nesting(input)
           next == Nesting(input)'
           t    == tok.type
<1>1. /\ t \in Tag /\ CloseID[t] \in Tag
      /\ ReadingOK(open) /\ StackReads(open, stack, RoomToOpen) /\ open \in Seq(Tag)
      /\ SkipReads(open, stack, skip) /\ NothingRefused /\ ReadingOK(next)
      /\ stack \in Seq(Tag) /\ skip \in [Tag -> Nat] /\ next = Append(open, t)
  BY OpenersOpen
<1>2. WarningsOK /\ setting' = setting /\ OpenedOnce /\ StacksOK
  BY DEF IInv, Parsing
<1>3. skip' = [skip EXCEPT ![CloseID[t]] = @ + 1]
  BY DEF SkipCloser
<1>4. Occurs(stack, t) \/ ~RoomToOpen
  BY <1>2, OnStack
<1> HIDE DEF open, next, t
<1>5. StackReads(next, stack, RoomToOpen)
  BY <1>1, <1>4, StackStays
<1>6. RoomToOpen' => RoomToOpen
  BY <1>2, NoNewRoom
<1>7. StackReads(next, stack', RoomToOpen')
  BY <1>5, <1>6, StackRoom
<1>8. SkipReads(next, stack', skip')
  BY <1>1, <1>3, SkipOneMore
<1>9. NothingRefused'
  BY <1>1, <1>2, SilentKeeps
<1>10. QED
  BY <1>1, <1>7, <1>8, <1>9, NestingStays DEF next

LEMMA DuplicateNesting == ASSUME IInv, NestingOK, DuplicateNestedTag PROVE NestingOK'
<1>1. PICK tok \in TagTokens(Openers) :
        /\ tok.type \in openedTags
        /\ Parsing /\ input' = Append(input, tok)
        /\ raised' = raised \o <<Warning("DuplicateNestedTag", tok.pos)>>
        /\ SkipCloser(tok.type) /\ stack' = stack /\ nodes' = nodes
  BY DEF DuplicateNestedTag, IsOpenAnywhere, Warn, Discard, ast, places
<1>2. Openers \in SUBSET Tag /\ RecordsOK
  BY OpenersFacts DEF IInv
<1>3. tok.pos \in Nat
  BY <1>1, <1>2, PassedOn
<1>4. Silent(<<Warning("DuplicateNestedTag", tok.pos)>>)
  BY <1>3, NewReport DEF Silent, Issue
<1>5. QED
  BY <1>1, <1>4, LeftOutNesting

LEMMA RefuseNesting == ASSUME IInv, NestingOK, RefuseTag PROVE NestingOK'
<1> DEFINE issue == IF RoomForDepth THEN "MaxNodesExceeded" ELSE "MaxParseDepthExceeded"
<1>1. PICK tok \in TagTokens(Openers) :
        /\ ~RoomToOpen
        /\ Parsing /\ input' = Append(input, tok)
        /\ WarnLimit(issue, tok.pos, <<>>)
        /\ SkipCloser(tok.type) /\ stack' = stack /\ nodes' = nodes
  BY DEF RefuseTag, RoomToOpen, ast
<1>2. Openers \in SUBSET Tag /\ RecordsOK
  BY OpenersFacts DEF IInv
<1>3. tok.pos \in Nat
  BY <1>1, <1>2, PassedOn
<1>4. issue \in LimitIssue
  BY DEF LimitIssue
<1> HIDE DEF issue
<1>5. \E items : Silent(items) /\ raised' = raised \o items
  BY <1>1, <1>3, <1>4, SilentLimit
<1>6. QED
  BY <1>1, <1>5, LeftOutNesting

LEMMA OpenNesting == ASSUME IInv, NestingOK, OpenTag PROVE NestingOK'
<1>1. PICK tok \in TagTokens(Openers) :
        /\ tok.type \notin openedTags /\ RoomToOpen
        /\ Parsing /\ input' = Append(input, tok)
        /\ stack' = Append(stack, tok.type) /\ skip' = skip /\ raised' = raised
  BY DEF OpenTag, IsOpenAnywhere, RoomToOpen, NoWarning
<1> SUFFICES ASSUME Nesting(input)' # Fault PROVE NestingOK'
  BY DEF NestingOK
<1> DEFINE open == Nesting(input)
           next == Nesting(input)'
           t    == tok.type
<1>2. /\ t \in Tag /\ ReadingOK(open) /\ StackReads(open, stack, RoomToOpen) /\ open \in Seq(Tag)
      /\ SkipReads(open, stack, skip) /\ NothingRefused /\ ReadingOK(next)
      /\ stack \in Seq(Tag) /\ skip \in [Tag -> Nat]
      /\ ~Clashes(open, t) /\ next = Append(open, t)
  BY <1>1, OpenersOpen
<1>3. WarningsOK /\ OpenedOnce /\ StacksOK
  BY DEF IInv
<1>4. ~Occurs(stack, t)
  BY <1>1, <1>3, OnStack
<1>5. stack' = Append(stack, t)
  BY <1>1
<1> HIDE DEF open, next, t
<1>6. StackReads(open, stack, TRUE)
  BY <1>1, <1>2, StackRoom
<1>7. \A rest : StackReads(next, stack', rest)
  BY <1>2, <1>4, <1>5, <1>6, StackPushed
<1>8. SkipReads(next, stack', skip')
  BY <1>1, <1>2, <1>4, <1>5, SkipPushed
<1>9. NothingRefused'
  BY <1>1, <1>2, <1>3, QuietRaised, SilentKeeps
<1>10. QED
  BY <1>2, <1>7, <1>8, <1>9, NestingStays DEF next

LEMMA CloseNesting == ASSUME IInv, NestingOK, CloseTag PROVE NestingOK'
<1>1. PICK tok \in TagTokens(Tag \ Greedy) :
        /\ \/ IsUniversal(tok.type) /\ Top = tok.type
           \/ IsClosing(tok.type)
        /\ Parsing /\ input' = Append(input, tok)
        /\ stack' = Front(stack) /\ skip' = skip /\ raised' = raised
  BY DEF CloseTag, PopTag, NoWarning
<1>2. RecordsOK /\ WarningsOK /\ Tag \ Greedy \in SUBSET Tag
  BY DEF IInv
<1>3. tok.type \notin Greedy
  BY <1>1, <1>2, PassedOn
<1> SUFFICES ASSUME Nesting(input)' # Fault PROVE NestingOK'
  BY DEF NestingOK
<1> DEFINE open == Nesting(input)
           next == Nesting(input)'
<1>4. /\ NothingRefused /\ ReadingOK(next)
      /\ \/ /\ \A rest : StackReads(next, Front(stack), rest)
            /\ SkipReads(next, Front(stack), skip)
         \/ /\ Pairs(tok.type)
            /\ IsUniversal(tok.type) => Top # tok.type
  BY <1>1, <1>2, <1>3, PassedSteps
<1> HIDE DEF open, next
<1>5. (\A rest : StackReads(next, Front(stack), rest)) /\ SkipReads(next, Front(stack), skip)
  BY <1>1, <1>4, PairFacts
<1>6. (\A rest : StackReads(next, stack', rest)) /\ SkipReads(next, stack', skip')
  BY <1>1, <1>5
<1>7. NothingRefused'
  BY <1>1, <1>2, <1>4, QuietRaised, SilentKeeps
<1>8. QED
  BY <1>4, <1>6, <1>7, NestingStays DEF next

(* The two refusals: neither happens while the reading has no fault. *)
LEMMA RefusalsAreFaults ==
  ASSUME IInv, NestingOK, MisplacedClosingTag \/ MismatchedClosingTag
  PROVE  NestingOK'
<1>1. PICK tok \in TagTokens(Closers) :
        /\ Top = NoTag \/ ~Matches(tok.type)
        /\ Parsing /\ input' = Append(input, tok)
  BY DEF MisplacedClosingTag, MismatchedClosingTag
<1> SUFFICES ASSUME Nesting(input)' # Fault PROVE FALSE
  BY DEF NestingOK
<1>2. RecordsOK /\ Closers \in SUBSET Tag
  BY OpenersFacts DEF IInv
<1>3. tok.type \in Closers
  BY <1>1, <1>2, PassedOn
<1>4. tok.type \notin Greedy /\ IsClosing(tok.type)
  BY <1>3 DEF Closers
<1> DEFINE open == Nesting(input)
<1>5. \/ CloseID[Last(open)] = tok.type /\ Last(open) \in Tag /\ Top = Last(open)
      \/ Pairs(tok.type)
  BY <1>1, <1>2, <1>4, PassedSteps
<1> HIDE DEF open
<1>6. CloseID[Top] = tok.type /\ Top # NoTag
  BY <1>4, <1>5, PairFacts, ParserAssumption
<1>7. QED
  BY <1>1, <1>6 DEF Matches

(* Of an empty reading nothing is to be closed. *)
LEMMA NothingOpen ==
  \A c : OpenFor(<<>>, c) = {} /\ Cardinality(OpenFor(<<>>, c)) = 0
<1>1. <<>> \in Seq(Tag)
  OBVIOUS
<1>2. ASSUME NEW c PROVE OpenFor(<<>>, c) = {}
  BY DEF OpenFor
<1>3. ASSUME NEW c PROVE Cardinality(OpenFor(<<>>, c)) = 0
  BY <1>1, <1>2, OpenForNone
<1>4. QED
  BY <1>2, <1>3

LEMMA StartNesting == ASSUME IInv, BeginParse PROVE NestingOK'
<1>1. /\ Fresh /\ input' = <<>> /\ stack' = stack /\ skip' = skip
      /\ raised' \in TokenizerWarnings
  BY DEF IInv, PoolIsClean, BeginParse, pooled, places
<1>2. stack = <<>> /\ skip = NothingSkipped
  BY <1>1 DEF Fresh
<1>3. Nesting(input)' = <<>>
  BY <1>1, NestingStarts DEF Nesting
<1>4. ReadingOK(<<>>)
  BY DEF ReadingOK
<1>5. \A room : StackReads(<<>>, <<>>, room)
  BY DEF StackReads, Occurs
<1>6. SkipReads(<<>>, <<>>, NothingSkipped)
  BY NothingOpen DEF SkipReads, NothingSkipped
<1>7. NothingRefused'
  <2>1. ASSUME NEW issue \in {"MisplacedClosingTag", "OpenCloseTagMismatch"}
        PROVE  Issues(issue)' = 0
    <3>1. \A i \in DOMAIN raised' : raised'[i].issue = "UnexpectedEOL"
      BY <1>1 DEF TokenizerWarnings, Warning
    <3>2. {i \in DOMAIN raised' : raised'[i].issue = issue} = {}
      BY <3>1
    <3>3. QED
      BY <3>2, FS_EmptySet DEF Issues
  <2>2. QED
    BY <2>1 DEF NothingRefused
<1>8. QED
  BY <1>1, <1>2, <1>3, <1>4, <1>5, <1>6, <1>7, NestingStays

LEMMA NextNesting == IInv /\ NestingOK /\ [Next]_vars => NestingOK'
<1> SUFFICES ASSUME IInv, NestingOK, [Next]_vars PROVE NestingOK'
  OBVIOUS
<1>1. CASE BeginParse
  BY <1>1, StartNesting
<1>2. CASE ProcessText
  BY <1>2, TextNesting
<1>3. CASE ProcessAttribute
  BY <1>3, AttributeNesting
<1>4. CASE ProcessSkipped
  BY <1>4, SkippedNesting
<1>5. CASE GreedyNode
  BY <1>5, GreedyNesting
<1>6. CASE DuplicateNestedTag
  BY <1>6, DuplicateNesting
<1>7. CASE OpenTag
  BY <1>7, OpenNesting
<1>8. CASE RefuseTag
  BY <1>8, RefuseNesting
<1>9. CASE CloseTag
  BY <1>9, CloseNesting
<1>10. CASE MisplacedClosingTag \/ MismatchedClosingTag
  BY <1>10, RefusalsAreFaults
<1>11. CASE EndOfInput
  BY <1>11 DEF EndOfInput, NestingOK
<1>12. CASE ForceClose
  BY <1>12 DEF ForceClose, NestingOK
<1>13. CASE Finalize
  BY <1>13 DEF Finalize, NestingOK
<1>14. CASE UNCHANGED vars
  <2>1. /\ phase' = phase /\ input' = input /\ stack' = stack /\ skip' = skip
        /\ raised' = raised /\ nodes' = nodes /\ setting' = setting
    BY <1>14 DEF vars, ast, pooled, places
  <2>2. Nesting(input)' = Nesting(input)
    BY <2>1 DEF Nesting
  <2>3. NothingRefused' <=> NothingRefused
    BY <2>1 DEF NothingRefused, Issues
  <2>4. RoomToOpen' <=> RoomToOpen
    BY <2>1 DEF RoomToOpen, RoomForNode, RoomForDepth
  <2>5. QED
    BY <2>1, <2>2, <2>3, <2>4, Zenon DEF NestingOK
<1>15. QED
  BY <1>1, <1>2, <1>3, <1>4, <1>5, <1>6, <1>7, <1>8, <1>9, <1>10, <1>11, <1>12, <1>13, <1>14
     DEF Next

LEMMA NestingHolds == ASSUME IInv, NestingOK PROVE WellNested
<1> SUFFICES ASSUME phase = "tokens", Nesting(input) = <<>>
             PROVE  /\ stack = <<>> /\ skip = NothingSkipped
                    /\ Issues("MisplacedClosingTag") = 0
                    /\ Issues("OpenCloseTagMismatch") = 0
  BY DEF WellNested
<1>1. Nesting(input) # Fault
  BY DEF Fault
<1>2. /\ StackReads(<<>>, stack, RoomToOpen) /\ SkipReads(<<>>, stack, skip) /\ NothingRefused
      /\ stack \in Seq(Tag) /\ skip \in [Tag -> Nat]
  BY <1>1 DEF NestingOK, IInv, StacksOK, RecordsOK
<1>3. stack = <<>>
  <2>1. Len(stack) \in Nat /\ \A i \in 1..Len(stack) : FALSE
    BY <1>2, LenProperties DEF StackReads, Occurs
  <2>2. QED
    BY <1>2, <2>1, EmptySeq
<1>4. ASSUME NEW c \in Tag PROVE skip[c] = 0
  <2>1. OpenFor(stack, c) = {} /\ Cardinality(OpenFor(<<>>, c)) = 0
    BY <1>3, NothingOpen
  <2>2. skip[c] + 0 = 0 /\ skip[c] \in Nat
    BY <1>2, <2>1 DEF SkipReads
  <2>3. QED
    BY <2>2
<1>5. skip = NothingSkipped
  BY <1>2, <1>4 DEF NothingSkipped
<1>6. QED
  BY <1>2, <1>3, <1>5 DEF NothingRefused

(* parser_state.go:44, process_tag.go:13: behind a well-nested part of the  *)
(* input nothing stays open or to be skipped, and no closer was refused,    *)
(* whatever was left out as a duplicate or because of a limit.             *)
THEOREM WellNestedRead == Spec => []WellNested
<1>1. Init => NestingOK
  BY DEF Init, NestingOK
<1>2. IInv /\ NestingOK => WellNested
  BY NestingHolds
<1>3. QED
  BY <1>1, <1>2, NextNesting, ParserInvariant, PTL DEF Spec

-----------------------------------------------------------------------------
(* Statistics *)

(* The recursion of Total defines every sum but the last. *)
LEMMA TotalDefined ==
  ASSUME NEW s \in Seq(Int)
  PROVE  \E f : /\ f[0] = 0 /\ Total(s) = f[Len(s)]
                /\ \A n \in 1..Len(s) : f[n] = f[n - 1] + s[n]
<1> DEFINE len == Len(s)
           E(f, n) == IF n = 0 THEN 0 ELSE f[n - 1] + s[n]
           Exists(m) == \E f : f = [n \in 0..m |-> E(f, n)]
           Missing == {m \in 0..len : ~Exists(m)}
<1>1. len \in Nat
  BY LenProperties
<1>2. Exists(0)
  <2> DEFINE f == [n \in 0..0 |-> 0]
  <2>1. f = [n \in 0..0 |-> E(f, n)]
    OBVIOUS
  <2>2. QED
    BY <2>1
<1>3. ASSUME NEW m \in Nat, Exists(m) PROVE Exists(m + 1)
  <2>1. PICK f : f = [n \in 0..m |-> E(f, n)]
    BY <1>3
  <2> DEFINE next == f[m] + s[m + 1]
             g == [n \in 0..(m + 1) |-> IF n = m + 1 THEN next ELSE f[n]]
  <2>2. ASSUME NEW n \in 0..(m + 1) PROVE g[n] = E(g, n)
    <3>1. CASE n = m + 1
      <4>1. n # 0 /\ n - 1 = m /\ m \in 0..(m + 1) /\ m # m + 1
        BY <3>1
      <4>2. g[n] = next /\ g[m] = f[m]
        BY <3>1, <4>1
      <4> HIDE DEF g
      <4>3. QED
        BY <3>1, <4>1, <4>2
    <3>2. CASE n # m + 1
      <4>1. n \in 0..m /\ f[n] = E(f, n)
        BY <2>1, <3>2
      <4>2. g[n] = f[n]
        BY <3>2
      <4>3. n # 0 => n - 1 \in 0..m /\ n - 1 \in 0..(m + 1) /\ n - 1 # m + 1
        BY <4>1
      <4>4. n # 0 => g[n - 1] = f[n - 1]
        BY <4>3
      <4> HIDE DEF g
      <4>5. QED
        BY <4>1, <4>2, <4>4
    <3>3. QED
      BY <3>1, <3>2
  <2>3. g = [n \in 0..(m + 1) |-> E(g, n)]
    <3>1. g = [n \in 0..(m + 1) |-> g[n]]
      OBVIOUS
    <3> HIDE DEF g
    <3>2. QED
      BY <2>2, <3>1
  <2>4. QED
    BY <2>3
<1> HIDE DEF Exists
<1>4. Missing = {}
  <2> SUFFICES ASSUME Missing # {} PROVE FALSE
    OBVIOUS
  <2>1. Missing \in SUBSET Nat
    BY <1>1
  <2>2. PICK m \in Missing : \A y \in Missing : m <= y
    <3> HIDE DEF Missing
    <3>1. QED
      BY <2>1, LeastExists
  <2>3. m \in Nat /\ m # 0 /\ m <= len
    BY <1>1, <1>2, <2>2
  <2>4. m - 1 \in 0..len /\ m - 1 \notin Missing
    BY <1>1, <2>2, <2>3
  <2>5. Exists((m - 1) + 1)
    BY <1>3, <2>3, <2>4
  <2>6. QED
    BY <2>2, <2>3, <2>5
<1>5. Exists(len)
  BY <1>1, <1>4
<1> DEFINE f == CHOOSE f : f = [n \in 0..len |-> E(f, n)]
<1>6. f = [n \in 0..len |-> E(f, n)]
  BY <1>5 DEF Exists
<1>7. Total(s) = f[len]
  BY DEF Total
<1> HIDE DEF f
<1>8. f[0] = 0 /\ \A n \in 1..len : f[n] = f[n - 1] + s[n]
  BY <1>1, <1>6
<1>9. QED
  BY <1>7, <1>8

LEMMA TotalFacts ==
  ASSUME NEW s \in Seq(Int), NEW x \in Int
  PROVE  /\ Total(s) \in Int /\ Total(<<>>) = 0
         /\ Total(Append(s, x)) = Total(s) + x
<1> DEFINE n == Len(s)
           t == Append(s, x)
<1>1. /\ n \in Nat /\ t \in Seq(Int) /\ Len(t) = n + 1
      /\ t[n + 1] = x /\ \A i \in 1..n : t[i] = s[i]
  BY AppendProperties, LenProperties
<1>2. PICK f : /\ f[0] = 0 /\ Total(s) = f[n]
               /\ \A i \in 1..n : f[i] = f[i - 1] + s[i]
  BY TotalDefined
<1>3. \A i \in 1..n : s[i] \in Int
  BY ElementOfSeq
<1> HIDE DEF t
<1>4. PICK g : /\ g[0] = 0 /\ Total(t) = g[n + 1]
               /\ \A i \in 1..(n + 1) : g[i] = g[i - 1] + t[i]
  BY <1>1, TotalDefined
<1> HIDE DEF n
<1> DEFINE Other == {i \in 0..n : f[i] # g[i] \/ f[i] \notin Int}
<1>5. Other = {}
  <2> SUFFICES ASSUME Other # {} PROVE FALSE
    OBVIOUS
  <2>1. Other \in SUBSET Nat
    BY <1>1
  <2>2. PICK i \in Other : \A y \in Other : i <= y
    <3> HIDE DEF Other
    <3>1. QED
      BY <2>1, LeastExists
  <2>3. i \in 1..n /\ i - 1 \in 0..n /\ i - 1 \notin Other /\ i \in 1..(n + 1)
    BY <1>1, <1>2, <1>4, <2>2
  <2>4. f[i - 1] = g[i - 1] /\ f[i - 1] \in Int
    BY <2>3
  <2>5. f[i] = f[i - 1] + s[i] /\ g[i] = g[i - 1] + s[i] /\ s[i] \in Int
    BY <1>1, <1>2, <1>3, <1>4, <2>3
  <2>6. QED
    BY <2>2, <2>4, <2>5
<1>6. f[n] = g[n] /\ f[n] \in Int /\ n + 1 \in 1..(n + 1) /\ (n + 1) - 1 = n
  <2>1. n \in 0..n /\ n + 1 \in 1..(n + 1) /\ (n + 1) - 1 = n
    BY <1>1
  <2>2. \A i \in 0..n : f[i] = g[i] /\ f[i] \in Int
    BY <1>5
  <2>3. QED
    BY ONLY <2>1, <2>2
<1>7. Total(t) = Total(s) + x /\ Total(s) \in Int
  BY <1>1, <1>2, <1>4, <1>6
<1>8. Total(<<>>) = 0
  <2>1. <<>> \in Seq(Int) /\ Len(<<>>) = 0
    OBVIOUS
  <2>2. QED
    BY <2>1, TotalDefined
<1>9. QED
  BY <1>7, <1>8 DEF t

(* One more element counts, or does not. *)
LEMMA CountGrows ==
  ASSUME NEW n \in Nat, NEW A \in SUBSET (1..n), NEW B, NEW yes \in BOOLEAN,
         B = IF yes THEN A \cup {n + 1} ELSE A
  PROVE  /\ Cardinality(A) \in Nat
         /\ Cardinality(B) = Cardinality(A) + (IF yes THEN 1 ELSE 0)
<1>1. IsFiniteSet(A) /\ n + 1 \notin A
  <2>1. IsFiniteSet(1..n)
    BY FS_Interval
  <2>2. IsFiniteSet(A)
    BY <2>1, FS_Subset
  <2>3. n + 1 \notin 1..n
    OBVIOUS
  <2>4. QED
    BY <2>2, <2>3
<1>2. Cardinality(A) \in Nat
  BY <1>1, FS_CardinalityType
<1>3. Cardinality(A \cup {n + 1}) = Cardinality(A) + 1
  BY <1>1, FS_AddElement
<1>4. QED
  BY <1>2, <1>3

-----------------------------------------------------------------------------
(* What the tree has *)

BytesOf(ns)  == [i \in 1..Len(ns) |-> NodeBytes(ns[i])]
FilledText(n) == n.type = "text" /\ n.end > n.start
CountedTag(n) == n.type = "tag" /\ n.tag \notin Greedy
SameTally(m, n) ==
  m.type = n.type /\ m.tag = n.tag /\ (n.type = "text" => m.start = n.start /\ m.end = n.end)

LEMMA TalliesSame ==
  ASSUME NEW ns, NEW ms, Len(ms) = Len(ns), \A i \in 1..Len(ns) : SameTally(ms[i], ns[i])
  PROVE  TextNodes(ms) = TextNodes(ns) /\ TagNodes(ms) = TagNodes(ns) /\ BytesOf(ms) = BytesOf(ns)
<1>1. TextNodes(ms) = TextNodes(ns) /\ TagNodes(ms) = TagNodes(ns)
  BY DEF TextNodes, TagNodes, SameTally
<1>2. \A i \in 1..Len(ns) : NodeBytes(ms[i]) = NodeBytes(ns[i])
  BY DEF NodeBytes, SameTally
<1>3. QED
  BY <1>1, <1>2 DEF BytesOf

LEMMA TalliesGrow ==
  ASSUME NEW ns \in Seq(NodeRecord), NEW ms \in Seq(NodeRecord), Len(ms) = Len(ns) + 1,
         \A i \in 1..Len(ns) : SameTally(ms[i], ns[i]), NEW node, node = ms[Len(ns) + 1]
  PROVE  /\ Cardinality(TextNodes(ns)) \in Nat /\ Cardinality(TagNodes(ns)) \in Nat
         /\ Total(BytesOf(ns)) \in Int
         /\ Cardinality(TextNodes(ms))
              = Cardinality(TextNodes(ns)) + (IF FilledText(node) THEN 1 ELSE 0)
         /\ Cardinality(TagNodes(ms))
              = Cardinality(TagNodes(ns)) + (IF CountedTag(node) THEN 1 ELSE 0)
         /\ Total(BytesOf(ms)) = Total(BytesOf(ns)) + NodeBytes(node)
<1> DEFINE n == Len(ns)
<1>1. n \in Nat /\ Len(ms) = n + 1 /\ node = ms[n + 1]
  BY LenProperties
<1>2. \A i \in 1..n : SameTally(ms[i], ns[i])
  OBVIOUS
<1>3. /\ TextNodes(ns) \in SUBSET (1..n) /\ TagNodes(ns) \in SUBSET (1..n)
  BY DEF TextNodes, TagNodes
<1>4. TextNodes(ms) = IF FilledText(node) THEN TextNodes(ns) \cup {n + 1} ELSE TextNodes(ns)
  <2>1. \A i \in 1..n : FilledText(ms[i]) <=> FilledText(ns[i])
    BY <1>2 DEF SameTally, FilledText
  <2>2. /\ TextNodes(ms) = {i \in 1..(n + 1) : FilledText(ms[i])}
        /\ TextNodes(ns) = {i \in 1..n : FilledText(ns[i])}
    BY <1>1 DEF TextNodes, FilledText
  <2> HIDE DEF n
  <2>3. QED
    BY <1>1, <2>1, <2>2
<1>5. TagNodes(ms) = IF CountedTag(node) THEN TagNodes(ns) \cup {n + 1} ELSE TagNodes(ns)
  <2>1. \A i \in 1..n : CountedTag(ms[i]) <=> CountedTag(ns[i])
    BY <1>2 DEF SameTally, CountedTag
  <2>2. /\ TagNodes(ms) = {i \in 1..(n + 1) : CountedTag(ms[i])}
        /\ TagNodes(ns) = {i \in 1..n : CountedTag(ns[i])}
    BY <1>1 DEF TagNodes, CountedTag
  <2> HIDE DEF n
  <2>3. QED
    BY <1>1, <2>1, <2>2
<1>6. /\ \A i \in 1..n : NodeBytes(ns[i]) \in Int
      /\ NodeBytes(node) \in Int
  <2>1. \A m \in NodeRecord : NodeBytes(m) \in Int
    BY DEF NodeBytes, NodeRecord
  <2>2. (\A i \in 1..n : ns[i] \in NodeRecord) /\ ms[n + 1] \in NodeRecord
    BY <1>1, ElementOfSeq
  <2>3. QED
    BY <1>1, <2>1, <2>2
<1>7. BytesOf(ns) \in Seq(Int) /\ BytesOf(ms) = Append(BytesOf(ns), NodeBytes(node))
  <2>1. \A i \in 1..n : NodeBytes(ms[i]) = NodeBytes(ns[i])
    BY <1>2 DEF NodeBytes, SameTally
  <2>2. BytesOf(ns) \in Seq(Int) /\ Len(BytesOf(ns)) = n
    BY <1>1, <1>6 DEF BytesOf
  <2>3. BytesOf(ms) = [i \in 1..(n + 1) |-> IF i = n + 1 THEN NodeBytes(node) ELSE BytesOf(ns)[i]]
    BY <1>1, <2>1 DEF BytesOf
  <2>4. QED
    BY <2>2, <2>3
<1>8. /\ Total(BytesOf(ns)) \in Int
      /\ Total(BytesOf(ms)) = Total(BytesOf(ns)) + NodeBytes(node)
  BY <1>6, <1>7, TotalFacts
<1> DEFINE filled == FilledText(node)
           counted == CountedTag(node)
<1>9. filled \in BOOLEAN /\ counted \in BOOLEAN
  BY DEF FilledText, CountedTag
<1> HIDE DEF filled, counted, n
<1>10. /\ Cardinality(TextNodes(ns)) \in Nat
       /\ Cardinality(TextNodes(ms)) = Cardinality(TextNodes(ns)) + (IF filled THEN 1 ELSE 0)
  BY <1>1, <1>3, <1>4, <1>9, CountGrows DEF filled
<1>11. /\ Cardinality(TagNodes(ns)) \in Nat
       /\ Cardinality(TagNodes(ms)) = Cardinality(TagNodes(ns)) + (IF counted THEN 1 ELSE 0)
  BY <1>1, <1>3, <1>5, <1>9, CountGrows DEF counted
<1>12. QED
  BY <1>8, <1>10, <1>11 DEF filled, counted

LEMMA TallyTypes ==
  ASSUME NEW ns \in Seq(NodeRecord)
  PROVE  /\ Cardinality(TextNodes(ns)) \in Nat /\ Cardinality(TagNodes(ns)) \in Nat
         /\ Total(BytesOf(ns)) \in Int
<1> DEFINE ms == Append(ns, Root)
<1>1. Root \in NodeRecord
  BY DEF Root, Node, NodeRecord
<1>2. /\ ms \in Seq(NodeRecord) /\ Len(ms) = Len(ns) + 1 /\ ms[Len(ns) + 1] = Root
      /\ \A i \in 1..Len(ns) : ms[i] = ns[i]
  BY <1>1, AppendProperties
<1> HIDE DEF ms
<1>3. \A i \in 1..Len(ns) : SameTally(ms[i], ns[i])
  BY <1>2 DEF SameTally
<1>4. QED
  BY <1>2, <1>3, TalliesGrow

LEMMA TokenTypes ==
  ASSUME RecordsOK
  PROVE  TextTokens \in Nat /\ TextByteLen \in Int
<1> DEFINE n == Len(input)
           old == {i \in 1..n : IsText(input[i])}
           bytes == [i \in 1..n |-> TextBytes(input[i])]
<1>1. n \in Nat /\ \A i \in 1..n : TextBytes(input[i]) \in Int
  <2>1. \A t \in TokenRecord : TextBytes(t) \in Int
    BY DEF TextBytes, PayloadEnd, PayloadStart, TokenRecord
  <2>2. \A i \in 1..n : input[i] \in TokenRecord
    BY ElementOfSeq DEF RecordsOK
  <2>3. QED
    BY <2>1, <2>2, LenProperties DEF RecordsOK
<1>2. bytes \in Seq(Int) /\ 0 \in Int
  BY <1>1
<1>3. Cardinality(old) \in Nat
  <2>1. IsFiniteSet(1..n) /\ old \subseteq 1..n
    BY <1>1, FS_Interval
  <2>2. QED
    BY <2>1, FS_Subset, FS_CardinalityType
<1> HIDE DEF bytes
<1>4. Total(bytes) \in Int
  BY <1>2, TotalFacts
<1>5. QED
  BY <1>3, <1>4 DEF TextTokens, TextByteLen, bytes

(* What the tokens have, when one more is read. *)
LEMMA TokenTallies ==
  ASSUME RecordsOK, NEW tok, Reads(tok)
  PROVE  /\ TextTokens \in Nat /\ TextByteLen \in Int /\ TextBytes(tok) \in Int
         /\ TextTokens' = TextTokens + (IF IsText(tok) THEN 1 ELSE 0)
         /\ TextByteLen' = TextByteLen + TextBytes(tok)
<1> DEFINE n == Len(input)
           old == {i \in 1..n : IsText(input[i])}
           new == {i \in 1..(n + 1) : IsText(input'[i])}
           bytes == [i \in 1..n |-> TextBytes(input[i])]
           more == [i \in 1..(n + 1) |-> TextBytes(input'[i])]
           yes == IsText(tok)
<1>1. /\ n \in Nat /\ Len(input') = n + 1 /\ input'[n + 1] = tok
      /\ \A i \in 1..n : input'[i] = input[i]
  BY AppendProperties, LenProperties DEF Reads, RecordsOK
<1>2. (\A i \in 1..n : TextBytes(input[i]) \in Int) /\ TextBytes(tok) \in Int
  <2>1. \A t \in TokenRecord : TextBytes(t) \in Int
    BY DEF TextBytes, PayloadEnd, PayloadStart, TokenRecord
  <2>2. (\A i \in 1..n : input[i] \in TokenRecord) /\ tok \in TokenRecord
    BY ElementOfSeq DEF Reads, RecordsOK
  <2>3. QED
    BY <2>1, <2>2
<1>3. /\ TextTokens = Cardinality(old) /\ TextTokens' = Cardinality(new)
      /\ TextByteLen = Total(bytes) /\ TextByteLen' = Total(more)
  BY <1>1 DEF TextTokens, TextByteLen
<1>4. yes \in BOOLEAN
  BY DEF IsText
<1>5. new = (IF yes THEN old \cup {n + 1} ELSE old) /\ old \in SUBSET (1..n)
  <2> HIDE DEF n
  <2>1. QED
    BY <1>1
<1>6. bytes \in Seq(Int) /\ more = Append(bytes, TextBytes(tok))
  <2> DEFINE x == TextBytes(tok)
             t == Append(bytes, x)
  <2>1. /\ bytes \in Seq(Int) /\ Len(bytes) = n /\ x \in Int
        /\ more \in Seq(Int) /\ Len(more) = n + 1
        /\ \A i \in 1..n : more[i] = bytes[i]
        /\ more[n + 1] = x
    BY <1>1, <1>2
  <2> HIDE DEF bytes, more, n, x
  <2>2. /\ t \in Seq(Int) /\ Len(t) = n + 1 /\ t[n + 1] = x
        /\ \A i \in 1..n : t[i] = bytes[i]
    BY <2>1, AppendProperties
  <2> HIDE DEF t
  <2>3. \A i \in 1..(n + 1) : more[i] = t[i]
    BY <1>1, <2>1, <2>2
  <2>4. more = t
    BY <2>1, <2>2, <2>3, SeqEqual
  <2>5. QED
    BY <2>1, <2>4 DEF x, t
<1> HIDE DEF old, new, bytes, more, n, yes
<1>7. /\ Cardinality(old) \in Nat
      /\ Cardinality(new) = Cardinality(old) + (IF yes THEN 1 ELSE 0)
  BY <1>1, <1>4, <1>5, CountGrows
<1>8. Total(bytes) \in Int /\ Total(more) = Total(bytes) + TextBytes(tok)
  BY <1>2, <1>6, TotalFacts
<1>9. QED
  BY <1>2, <1>3, <1>7, <1>8 DEF yes

-----------------------------------------------------------------------------
(* The actions *)

CrumbsOK(ns, crumbs) == \A k \in 1..Len(crumbs) : ns[crumbs[k]].type # "text"
SkipsOK(skp) == ~GreedyClosers => \A g \in Greedy : skp[g] = 0
Unwarned == "MaxNodesExceeded" \notin warnedLimits /\ ~GreedyClosers

(* Of a token that is neither text nor greedy nothing is text. *)
LEMMA NoTextIn ==
  ASSUME NEW tok, tok.type # "text", tok.type \notin Greedy
  PROVE  ~IsText(tok) /\ TextBytes(tok) = 0
  BY DEF IsText, TextBytes

LEMMA TallyStep ==
  ASSUME IInv, TalliesOK, phase = "tokens", phase' = "tokens", NEW tok, Reads(tok),
         NEW e \in Nat, NEW w \in Int, NEW g \in Nat,
         textNodes' = textNodes + e, totals' \in TotalsRecord,
         totals'.textByteLen = totals.textByteLen + w,
         totalTagNodes' = totalTagNodes + g, warnedLimits \subseteq warnedLimits',
         CrumbsOK(nodes', breadcrumbs'), SkipsOK(skip'),
         Cardinality(TagNodes(nodes')) = Cardinality(TagNodes(nodes)) + g,
         Unwarned /\ Unwarned' =>
           /\ Cardinality(TextNodes(nodes)) \in Nat
           /\ Total(BytesOf(nodes)) \in Int
           /\ Cardinality(TextNodes(nodes'))
                = Cardinality(TextNodes(nodes)) + e + (IF IsText(tok) THEN 1 ELSE 0)
           /\ Total(BytesOf(nodes')) = Total(BytesOf(nodes)) + w + TextBytes(tok)
  PROVE  TalliesOK'
<1>1. RecordsOK
  BY DEF IInv
<1>2. /\ TextTokens \in Nat /\ TextByteLen \in Int /\ TextBytes(tok) \in Int
      /\ TextTokens' = TextTokens + (IF IsText(tok) THEN 1 ELSE 0)
      /\ TextByteLen' = TextByteLen + TextBytes(tok)
  BY <1>1, TokenTallies
<1>3. /\ textNodes \in Nat /\ totals.textByteLen \in Int
      /\ totalTagNodes = Cardinality(TagNodes(nodes))
      /\ Unwarned => /\ textNodes + TextTokens = Cardinality(TextNodes(nodes))
                     /\ totals.textByteLen + TextByteLen = Total(BytesOf(nodes))
  BY DEF TalliesOK, TotalsRecord, Running, Unwarned, BytesOf
<1>4. totalTagNodes' = Cardinality(TagNodes(nodes'))
  BY <1>3
<1>5. textNodes' \in Nat
  BY <1>3
<1>6. Unwarned' => Unwarned
  BY DEF Unwarned
<1>7. ASSUME Unwarned'
      PROVE  /\ textNodes' + TextTokens' = Cardinality(TextNodes(nodes'))
             /\ totals'.textByteLen + TextByteLen' = Total(BytesOf(nodes'))
  BY <1>2, <1>3, <1>6, <1>7
<1>8. TextAccounted'
  BY DEF TextAccounted
<1>9. QED
  BY <1>4, <1>5, <1>7, <1>8 DEF TalliesOK, CrumbsOK, SkipsOK, Unwarned, BytesOf

(* A token without a node of its own. *)
LEMMA TallyQuiet ==
  ASSUME IInv, TalliesOK, phase = "tokens", phase' = "tokens", NEW tok, Reads(tok),
         textNodes' = textNodes, totals' = totals, totalTagNodes' = totalTagNodes,
         warnedLimits \subseteq warnedLimits',
         Len(nodes') = Len(nodes), \A i \in 1..Len(nodes) : SameTally(nodes'[i], nodes[i]),
         CrumbsOK(nodes', breadcrumbs'), SkipsOK(skip'),
         Unwarned /\ Unwarned' => ~IsText(tok) /\ TextBytes(tok) = 0
  PROVE  TalliesOK'
<1>1. /\ TextNodes(nodes') = TextNodes(nodes) /\ TagNodes(nodes') = TagNodes(nodes)
      /\ BytesOf(nodes') = BytesOf(nodes)
  BY TalliesSame
<1>2. /\ nodes \in Seq(NodeRecord) /\ Len(nodes) \in Nat
  BY LenProperties DEF IInv, RecordsOK
<1>3. /\ Cardinality(TextNodes(nodes)) \in Nat /\ Cardinality(TagNodes(nodes)) \in Nat
      /\ Total(BytesOf(nodes)) \in Int
  BY <1>2, TallyTypes
<1>4. /\ textNodes \in Nat /\ totals \in TotalsRecord /\ totals.textByteLen \in Int
      /\ totalTagNodes \in Nat
  BY <1>3 DEF TalliesOK, TotalsRecord, Running
<1>5. /\ 0 \in Nat /\ 0 \in Int /\ textNodes' = textNodes + 0 /\ totals' \in TotalsRecord
      /\ totals'.textByteLen = totals.textByteLen + 0 /\ totalTagNodes' = totalTagNodes + 0
      /\ Cardinality(TagNodes(nodes')) = Cardinality(TagNodes(nodes)) + 0
  BY <1>1, <1>3, <1>4
<1>6. ASSUME Unwarned /\ Unwarned'
      PROVE  /\ Cardinality(TextNodes(nodes'))
                  = Cardinality(TextNodes(nodes)) + 0 + (IF IsText(tok) THEN 1 ELSE 0)
             /\ Total(BytesOf(nodes')) = Total(BytesOf(nodes)) + 0 + TextBytes(tok)
  BY <1>1, <1>3, <1>6
<1>7. QED
  BY <1>3, <1>5, <1>6, TallyStep

(* What a node is, and where it hangs. *)
SameShape(m, n) ==
  /\ m.type = n.type /\ m.tag = n.tag
  /\ m.first = n.first /\ m.last = n.last /\ m.next = n.next /\ m.kids = n.kids

LEMMA EndShape ==
  ASSUME NEW ns \in Seq(NodeRecord), NEW p \in 1..Len(ns), NEW v \in Nat
  PROVE  LET ms == [ns EXCEPT ![p].end = v]
         IN /\ Len(ms) = Len(ns)
            /\ \A i \in 1..Len(ns) : SameShape(ms[i], ns[i]) /\ (i # p => ms[i] = ns[i])
<1> DEFINE n  == ns[p]
           m  == [n EXCEPT !.end = v]
           ms == [ns EXCEPT ![p] = m]
<1>1. n \in NodeRecord
  BY ElementOfSeq
<1>2. [ns EXCEPT ![p].end = v] = ms
  OBVIOUS
<1> HIDE DEF n
<1>3. m \in NodeRecord /\ SameShape(m, n)
  BY <1>1 DEF NodeRecord, SameShape
<1> HIDE DEF m
<1>4. /\ Len(ms) = Len(ns)
      /\ \A i \in 1..Len(ns) : ms[i] = IF i = p THEN m ELSE ns[i]
  BY <1>3, ExceptSeq
<1> HIDE DEF ms
<1>5. \A i \in 1..Len(ns) : SameShape(ms[i], ns[i]) /\ (i # p => ms[i] = ns[i])
  BY <1>3, <1>4 DEF SameShape, n
<1>6. QED
  BY <1>2, <1>4, <1>5

LEMMA AttributeShape ==
  ASSUME NEW ns \in Seq(NodeRecord), NEW p \in 1..Len(ns), NEW place \in Nat
  PROVE  LET ms == AttributeRange(ns, p, place)
         IN /\ Len(ms) = Len(ns)
            /\ \A i \in 1..Len(ns) : SameShape(ms[i], ns[i]) /\ SameTally(ms[i], ns[i])
<1> DEFINE n  == ns[p]
           at == IF n.attrLen = 0 THEN place ELSE n.attrStart
           l  == [n EXCEPT !.attrStart = at]
           m  == [l EXCEPT !.attrLen = @ + 1]
           ms == [ns EXCEPT ![p] = m]
<1>1. n \in NodeRecord
  BY ElementOfSeq
<1>2. AttributeRange(ns, p, place) = ms
  BY DEF AttributeRange
<1> HIDE DEF n
<1>3. n.attrLen \in Nat /\ at \in Nat
  BY <1>1 DEF NodeRecord
<1> HIDE DEF at
<1>4. /\ l \in NodeRecord /\ SameShape(l, n) /\ l.start = n.start /\ l.end = n.end
  BY <1>1, <1>3 DEF NodeRecord, SameShape
<1> HIDE DEF l
<1>5. m \in NodeRecord
  BY <1>4, MoreAttributes DEF m
<1>6. SameShape(m, l) /\ m.start = l.start /\ m.end = l.end
  BY <1>4 DEF NodeRecord, SameShape
<1> HIDE DEF m
<1>7. SameShape(m, n) /\ SameTally(m, n)
  BY <1>4, <1>6 DEF SameShape, SameTally
<1>8. /\ Len(ms) = Len(ns)
      /\ \A i \in 1..Len(ns) : ms[i] = IF i = p THEN m ELSE ns[i]
  BY <1>5, ExceptSeq
<1> HIDE DEF ms
<1>9. \A i \in 1..Len(ns) : SameShape(ms[i], ns[i]) /\ SameTally(ms[i], ns[i])
  BY <1>7, <1>8 DEF SameShape, SameTally, n
<1>10. QED
  BY <1>2, <1>8, <1>9

(* The two nodes of a greedy tag. *)
TagNode(tok)     == Node("tag", tok.type, tok.pos, tok.pos + tok.width)
PayloadNode(tok) == Node("text", NoTag, PayloadStart(tok), PayloadEnd(tok))
Tagged(tok) == Appended(nodes, Parent, TagNode(tok))
Paired(tok) == Appended(Tagged(tok), Len(nodes) + 1, PayloadNode(tok))

LEMMA GreedyNodes ==
  ASSUME IInv, NEW tok, Reads(tok), tok.type \in Greedy, tok.width >= 2
  PROVE  /\ Tagged(tok) \in Seq(NodeRecord) /\ Len(Tagged(tok)) = Len(nodes) + 1
         /\ Tagged(tok)[Len(nodes) + 1] = TagNode(tok)
         /\ \A i \in 1..Len(nodes) : SameNode(Tagged(tok)[i], nodes[i])
         /\ Paired(tok) \in Seq(NodeRecord) /\ Len(Paired(tok)) = Len(nodes) + 2
         /\ Paired(tok)[Len(nodes) + 2] = PayloadNode(tok)
         /\ \A i \in 1..(Len(nodes) + 1) : SameNode(Paired(tok)[i], Tagged(tok)[i])
<1> DEFINE n == Len(nodes) + 1
           payload == PayloadNode(tok)
           tagged == Tagged(tok)
           pair == Appended(tagged, n, payload)
<1>1. tok.type \in Tag \cup {NoTag} /\ RecordsOK
  BY ParserAssumption DEF IInv
<1>2. /\ Grows(tagged, nodes, Position, Position') /\ Len(tagged) = n
      /\ tagged[n] = TagNode(tok)
  BY <1>1, NodeOfToken DEF Tagged, TagNode
<1>3. /\ tagged \in Seq(NodeRecord) /\ Linked(tagged, Len(tagged))
      /\ \A i \in 1..Len(nodes) : SameNode(tagged[i], nodes[i])
  BY <1>2 DEF Grows
<1>4. /\ Len(nodes) \in Nat /\ n \in 1..n /\ n + 1 \in Nat /\ n + 1 = Len(nodes) + 2
  BY <1>1, ArenaFacts
<1>5. PayloadStart(tok) \in Nat /\ PayloadEnd(tok) \in Nat
  BY DEF PayloadStart, PayloadEnd, Reads, TokenRecord
<1>6. payload \in NodeRecord /\ Links(payload, n + 1)
  BY <1>4, <1>5, NodeTyped DEF PayloadNode
<1> HIDE DEF tagged, payload
<1>7. /\ pair \in Seq(NodeRecord) /\ Len(pair) = Len(tagged) + 1
      /\ pair[Len(tagged) + 1] = payload
      /\ \A i \in 1..Len(tagged) : SameNode(pair[i], tagged[i])
  BY <1>2, <1>3, <1>4, <1>6, AppendedFacts
<1> HIDE DEF pair
<1>8. QED
  BY <1>2, <1>3, <1>4, <1>7 DEF pair, tagged, payload, Paired

-----------------------------------------------------------------------------
(* What the actions count *)

LEMMA CrumbsStay ==
  ASSUME IInv, TalliesOK, \A i \in 1..Len(nodes) : nodes'[i].type = nodes[i].type,
         NEW crumbs, \A k \in 1..Len(crumbs) : \E j \in 1..Len(breadcrumbs) : crumbs[k] = breadcrumbs[j]
  PROVE  CrumbsOK(nodes', crumbs)
<1>1. \A j \in 1..Len(breadcrumbs) :
        breadcrumbs[j] \in 1..Len(nodes) /\ nodes[breadcrumbs[j]].type # "text"
  BY DEF IInv, StacksOK, NodeIds, TalliesOK
<1>2. QED
  BY <1>1 DEF CrumbsOK

LEMMA SkipsStay ==
  ASSUME TalliesOK, \A g \in Greedy : skip'[g] = skip[g]
  PROVE  SkipsOK(skip')
  BY DEF TalliesOK, SkipsOK

(* addTextNode: the text of one token, which Tokenize counts or the parser. *)
LEMMA AddTextTallies ==
  ASSUME IInv, TalliesOK, Parsing, NEW tok, Reads(tok), NEW items, AddText(tok, items),
         NEW e \in Nat, NEW w \in Int, textNodes' = textNodes + e,
         totals' \in TotalsRecord, totals'.textByteLen = totals.textByteLen + w,
         e + (IF IsText(tok) THEN 1 ELSE 0) = 1, w + TextBytes(tok) = tok.width
  PROVE  TalliesOK'
<1>1. /\ phase = "tokens" /\ phase' = "tokens" /\ skip' = skip
      /\ breadcrumbs' = breadcrumbs /\ totalTagNodes' = totalTagNodes
  BY DEF Parsing, AddText
<1>2. nodes \in Seq(NodeRecord) /\ Len(nodes) \in Nat
  BY LenProperties DEF IInv, RecordsOK
<1>3. /\ Cardinality(TextNodes(nodes)) \in Nat /\ Cardinality(TagNodes(nodes)) \in Nat
      /\ Total(BytesOf(nodes)) \in Int /\ totalTagNodes \in Nat
  BY <1>1, <1>2, TallyTypes DEF TalliesOK, Running
<1>4. TextBytes(tok) \in Int
  BY TokenTallies DEF IInv
<1>5. SkipsOK(skip')
  BY <1>1, SkipsStay
<1>6. 0 \in Nat /\ totalTagNodes' = totalTagNodes + 0
  BY <1>1, <1>3
<1>7. CASE /\ RoomForNode
           /\ nodes' = Appended(nodes, Parent, Node("text", NoTag, tok.pos, tok.pos + tok.width))
           /\ UNCHANGED warnedLimits
  <2> DEFINE node == Node("text", NoTag, tok.pos, tok.pos + tok.width)
  <2>1. /\ Grows(nodes', nodes, Position, Position') /\ Len(nodes') = Len(nodes) + 1
        /\ nodes'[Len(nodes) + 1] = node
    BY <1>7, NodeOfToken
  <2>2. FilledText(node) /\ ~CountedTag(node) /\ NodeBytes(node) = tok.width
    BY DEF Reads, TokenRecord, FilledText, CountedTag, NodeBytes, Node
  <2> HIDE DEF node
  <2>3. nodes' \in Seq(NodeRecord) /\ \A i \in 1..Len(nodes) : SameTally(nodes'[i], nodes[i])
    BY <2>1 DEF Grows, SameNode, SameTally
  <2>4. /\ Cardinality(TextNodes(nodes')) = Cardinality(TextNodes(nodes)) + 1
        /\ Cardinality(TagNodes(nodes')) = Cardinality(TagNodes(nodes)) + 0
        /\ Total(BytesOf(nodes')) = Total(BytesOf(nodes)) + tok.width
    BY <1>2, <2>1, <2>2, <2>3, TalliesGrow
  <2>5. CrumbsOK(nodes', breadcrumbs')
    BY <1>1, <2>3, CrumbsStay DEF SameTally
  <2>6. /\ Cardinality(TextNodes(nodes'))
             = Cardinality(TextNodes(nodes)) + e + (IF IsText(tok) THEN 1 ELSE 0)
        /\ Total(BytesOf(nodes')) = Total(BytesOf(nodes)) + w + TextBytes(tok)
    BY <1>3, <1>4, <2>4
  <2>7. QED
    BY <1>1, <1>3, <1>5, <1>6, <1>7, <2>4, <2>5, <2>6, TallyStep
<1>8. CASE /\ ~RoomForNode /\ WarnLimit("MaxNodesExceeded", tok.pos, items)
           /\ UNCHANGED nodes
  <2>1. warnedLimits \subseteq warnedLimits' /\ ~Unwarned'
    BY <1>8 DEF WarnLimit, Unwarned
  <2>2. CrumbsOK(nodes', breadcrumbs')
    BY <1>1, <1>8, CrumbsStay
  <2>3. Cardinality(TagNodes(nodes')) = Cardinality(TagNodes(nodes)) + 0
    BY <1>3, <1>8
  <2>4. QED
    BY <1>1, <1>3, <1>5, <1>6, <2>1, <2>2, <2>3, TallyStep
<1>9. QED
  BY <1>7, <1>8 DEF AddText

LEMMA TextTallies == ASSUME IInv, TalliesOK, ProcessText PROVE TalliesOK'
<1>1. PICK tok \in Tokens({"text"}) :
        /\ Parsing /\ input' = Append(input, tok) /\ AddText(tok, <<>>)
        /\ totals' = totals /\ textNodes' = textNodes
  BY DEF ProcessText
<1>2. Reads(tok) /\ RecordsOK
  BY <1>1, TextTokenFacts DEF IInv
<1>3. tok.type = "text" /\ tok.width \in Nat
  <2>1. {"text"} \in SUBSET TokenType
    BY DEF TokenType
  <2>2. tok.type \in {"text"}
    BY <1>2, <2>1, TokenFacts
  <2>3. QED
    BY <1>2, <2>2 DEF Reads, TokenRecord
<1>4. IsText(tok) /\ TextBytes(tok) = tok.width
  BY <1>3 DEF IsText, TextBytes
<1>5. /\ textNodes' = textNodes + 0 /\ totals' \in TotalsRecord
      /\ totals'.textByteLen = totals.textByteLen + 0
  BY <1>1 DEF TalliesOK, TotalsRecord
<1>6. 0 + (IF IsText(tok) THEN 1 ELSE 0) = 1 /\ 0 + TextBytes(tok) = tok.width
  BY <1>3, <1>4
<1>7. QED
  BY <1>1, <1>2, <1>5, <1>6, AddTextTallies

LEMMA MismatchedTallies == ASSUME IInv, TalliesOK, MismatchedClosingTag PROVE TalliesOK'
<1>1. PICK tok \in TagTokens(Closers) :
        /\ Parsing /\ input' = Append(input, tok)
        /\ totals' = [totals EXCEPT !.textByteLen = @ + tok.width]
        /\ textNodes' = textNodes + 1
        /\ AddText(tok, <<Warning("OpenCloseTagMismatch", tok.pos)>>)
  BY DEF MismatchedClosingTag
<1>2. Reads(tok) /\ tok.type \in Closers /\ tok.width \in Nat
  BY <1>1, OpenersFacts, PassedOn DEF IInv
<1>3. ~IsText(tok) /\ TextBytes(tok) = 0
  BY <1>2, NoTextIn, ParserAssumption DEF Closers
<1>4. totals' \in TotalsRecord /\ totals'.textByteLen = totals.textByteLen + tok.width
  <2> DEFINE v == totals.textByteLen + tok.width
  <2>1. totals \in TotalsRecord
    BY DEF TalliesOK
  <2>2. v \in Int
    BY <1>2, <2>1 DEF TotalsRecord
  <2>3. totals' = [totals EXCEPT !.textByteLen = v]
    BY <1>1
  <2> HIDE DEF v
  <2>4. totals' \in TotalsRecord /\ totals'.textByteLen = v
    BY <2>1, <2>2, <2>3 DEF TotalsRecord
  <2>5. QED
    BY <2>4 DEF v
<1>5. /\ 1 + (IF IsText(tok) THEN 1 ELSE 0) = 1 /\ tok.width + TextBytes(tok) = tok.width
      /\ 1 \in Nat /\ tok.width \in Int
  BY <1>2, <1>3
<1>6. QED
  BY <1>1, <1>2, <1>4, <1>5, AddTextTallies

(* A token without a node, whose type is that of a tag that is not greedy. *)
LEMMA DiscardTallies ==
  ASSUME IInv, TalliesOK, Parsing, NEW tok, Reads(tok), tok.type \in Tag,
         ~GreedyClosers => tok.type \notin Greedy, nodes' = nodes, totals' = totals,
         breadcrumbs' = breadcrumbs, textNodes' = textNodes, totalTagNodes' = totalTagNodes,
         warnedLimits \subseteq warnedLimits', SkipsOK(skip')
  PROVE  TalliesOK'
<1>1. phase = "tokens" /\ phase' = "tokens"
  BY DEF Parsing
<1>2. \A i \in 1..Len(nodes) : SameTally(nodes'[i], nodes[i])
  BY DEF SameTally
<1>3. CrumbsOK(nodes', breadcrumbs')
  BY CrumbsStay
<1>4. Unwarned => ~IsText(tok) /\ TextBytes(tok) = 0
  BY NoTextIn, ParserAssumption DEF Unwarned
<1>5. QED
  BY <1>1, <1>2, <1>3, <1>4, TallyQuiet

LEMMA SkippedTallies == ASSUME IInv, TalliesOK, ProcessSkipped PROVE TalliesOK'
<1> DEFINE skipped == {t \in Tag : skip[t] > 0}
<1>1. PICK tok \in Tokens(skipped) :
        /\ Parsing /\ input' = Append(input, tok)
        /\ skip' = [skip EXCEPT ![tok.type] = @ - 1]
        /\ Discard
  BY DEF ProcessSkipped
<1>2. /\ nodes' = nodes /\ totals' = totals /\ breadcrumbs' = breadcrumbs
      /\ textNodes' = textNodes /\ totalTagNodes' = totalTagNodes
      /\ warnedLimits' = warnedLimits
  BY <1>1 DEF Discard, ast, places
<1>3. Reads(tok) /\ tok.type \in skipped
  <2>1. skipped \in SUBSET Tag /\ RecordsOK
    BY DEF IInv
  <2> HIDE DEF skipped
  <2>2. QED
    BY <1>1, <2>1, TagTokenFacts
<1>4. /\ ~GreedyClosers => tok.type \notin Greedy
      /\ SkipsOK(skip')
  <2>1. skip \in [Tag -> Nat] /\ Greedy \subseteq Tag
    BY ParserAssumption DEF IInv, RecordsOK
  <2>2. ~GreedyClosers => \A g \in Greedy : skip[g] = 0
    BY DEF TalliesOK
  <2>3. ~GreedyClosers => tok.type \notin Greedy
    BY <1>3, <2>1, <2>2
  <2>4. QED
    BY <1>1, <2>1, <2>2, <2>3 DEF SkipsOK
<1>5. QED
  BY <1>1, <1>2, <1>3, <1>4, DiscardTallies

LEMMA OpenersNotGreedy ==
  ASSUME NEW t \in Openers \cup Closers
  PROVE  t \in Tag \ Greedy
  BY DEF Openers, Closers

(* A duplicate or refused opener will have its closer skipped. *)
LEMMA SkipCloserTallies ==
  ASSUME IInv, TalliesOK, NEW t \in Openers, SkipCloser(t)
  PROVE  SkipsOK(skip')
<1>1. skip \in [Tag -> Nat] /\ CloseID[t] \in Tag /\ t \in Tag \ Greedy /\ Greedy \subseteq Tag
  BY OpenersFacts, OpenersNotGreedy, ParserAssumption DEF IInv, RecordsOK
<1>2. ~GreedyClosers => CloseID[t] \notin Greedy
  BY <1>1 DEF GreedyClosers
<1>3. QED
  BY <1>1, <1>2 DEF SkipCloser, SkipsOK, TalliesOK

LEMMA DuplicateTallies == ASSUME IInv, TalliesOK, DuplicateNestedTag PROVE TalliesOK'
<1>1. PICK tok \in TagTokens(Openers) :
        /\ Parsing /\ input' = Append(input, tok) /\ SkipCloser(tok.type) /\ Discard
  BY DEF DuplicateNestedTag
<1>2. Reads(tok) /\ tok.type \in Openers
  BY <1>1, OpenersFacts, PassedOn DEF IInv
<1>3. tok.type \in Tag \ Greedy /\ SkipsOK(skip')
  BY <1>1, <1>2, OpenersNotGreedy, SkipCloserTallies
<1>4. QED
  BY <1>1, <1>2, <1>3, DiscardTallies DEF Discard, ast, places

LEMMA MisplacedTallies == ASSUME IInv, TalliesOK, MisplacedClosingTag PROVE TalliesOK'
<1>1. PICK tok \in TagTokens(Closers) :
        Parsing /\ input' = Append(input, tok) /\ skip' = skip /\ Discard
  BY DEF MisplacedClosingTag
<1>2. Reads(tok) /\ tok.type \in Closers
  BY <1>1, OpenersFacts, PassedOn DEF IInv
<1>3. tok.type \in Tag \ Greedy /\ SkipsOK(skip')
  BY <1>1, <1>2, OpenersNotGreedy, SkipsStay
<1>4. QED
  BY <1>1, <1>2, <1>3, DiscardTallies DEF Discard, ast, places

LEMMA RefuseTallies == ASSUME IInv, TalliesOK, RefuseTag PROVE TalliesOK'
<1>1. PICK tok \in TagTokens(Openers) :
        /\ Parsing /\ input' = Append(input, tok)
        /\ warnedLimits \subseteq warnedLimits' /\ SkipCloser(tok.type)
        /\ nodes' = nodes /\ totals' = totals /\ breadcrumbs' = breadcrumbs
        /\ totalTagNodes' = totalTagNodes /\ textNodes' = textNodes
  BY DEF RefuseTag, WarnLimit, ast
<1>2. Reads(tok) /\ tok.type \in Openers
  BY <1>1, OpenersFacts, PassedOn DEF IInv
<1>3. tok.type \in Tag \ Greedy /\ SkipsOK(skip')
  BY <1>1, <1>2, OpenersNotGreedy, SkipCloserTallies
<1>4. QED
  BY <1>1, <1>2, <1>3, DiscardTallies

LEMMA SameNodeTally ==
  ASSUME NEW m, NEW n, SameNode(m, n)
  PROVE  SameTally(m, n)
  BY DEF SameNode, SameTally

(* appendGreedyNode: the payload counts unless it is empty or left out. *)
LEMMA GreedyTallies == ASSUME IInv, TalliesOK, GreedyNode PROVE TalliesOK'
<1>1. PICK tok \in TagTokens(Greedy) :
        /\ Parsing /\ input' = Append(input, tok)
        /\ breadcrumbs' = breadcrumbs /\ skip' = skip /\ totals' = totals
        /\ totalTagNodes' = totalTagNodes /\ textNodes' = textNodes
        /\ \/ nodes' = Paired(tok) /\ NoWarning
           \/ nodes' = Tagged(tok) /\ WarnLimit("MaxNodesExceeded", PayloadStart(tok), <<>>)
           \/ nodes' = nodes /\ WarnLimit("MaxNodesExceeded", tok.pos, <<>>)
  BY DEF GreedyNode, Paired, Tagged, PayloadNode, TagNode
<1>2. Greedy \in SUBSET Tag /\ RecordsOK
  BY ParserAssumption DEF IInv
<1>3. Reads(tok) /\ tok.type \in Greedy /\ tok.width \in Width[tok.type]
  BY <1>1, <1>2, PassedOn
<1>4. /\ Tagged(tok) \in Seq(NodeRecord) /\ Len(Tagged(tok)) = Len(nodes) + 1
      /\ Tagged(tok)[Len(nodes) + 1] = TagNode(tok)
      /\ \A i \in 1..Len(nodes) : SameNode(Tagged(tok)[i], nodes[i])
      /\ Paired(tok) \in Seq(NodeRecord) /\ Len(Paired(tok)) = Len(nodes) + 2
      /\ Paired(tok)[Len(nodes) + 2] = PayloadNode(tok)
      /\ \A i \in 1..(Len(nodes) + 1) : SameNode(Paired(tok)[i], Tagged(tok)[i])
  <2>1. tok.width >= 2
    BY <1>3, ParserAssumption
  <2>2. QED
    BY <1>3, <2>1, GreedyNodes
<1>5. /\ nodes \in Seq(NodeRecord) /\ Len(nodes) \in Nat
      /\ phase = "tokens" /\ phase' = "tokens"
  BY <1>1, LenProperties DEF IInv, RecordsOK, Parsing
<1>6. /\ Cardinality(TextNodes(nodes)) \in Nat /\ Cardinality(TagNodes(nodes)) \in Nat
      /\ Total(BytesOf(nodes)) \in Int
      /\ textNodes \in Nat /\ totals \in TotalsRecord /\ totals.textByteLen \in Int
      /\ totalTagNodes \in Nat
  BY <1>5, TallyTypes DEF TalliesOK, TotalsRecord, Running
<1>7. SkipsOK(skip')
  BY <1>1, SkipsStay
<1>8. /\ IsText(tok) <=> FilledText(PayloadNode(tok))
      /\ TextBytes(tok) = NodeBytes(PayloadNode(tok)) /\ TextBytes(tok) \in Int
      /\ ~CountedTag(PayloadNode(tok)) /\ ~CountedTag(TagNode(tok)) /\ ~FilledText(TagNode(tok))
      /\ NodeBytes(TagNode(tok)) = 0
  <2>1. tok.type # "text" /\ TextBytes(tok) \in Int
    BY <1>2, <1>3, TokenTallies, ParserAssumption
  <2>2. /\ IsText(tok) <=> FilledText(PayloadNode(tok))
        /\ TextBytes(tok) = NodeBytes(PayloadNode(tok))
    BY <1>3, <2>1 DEF IsText, TextBytes, FilledText, NodeBytes, PayloadNode, Node
  <2>3. /\ ~CountedTag(PayloadNode(tok)) /\ ~CountedTag(TagNode(tok))
        /\ ~FilledText(TagNode(tok)) /\ NodeBytes(TagNode(tok)) = 0
    BY <1>3 DEF CountedTag, FilledText, NodeBytes, PayloadNode, TagNode, Node
  <2>4. QED
    BY <2>1, <2>2, <2>3
<1>9. /\ Cardinality(TextNodes(Tagged(tok))) = Cardinality(TextNodes(nodes))
      /\ Cardinality(TagNodes(Tagged(tok))) = Cardinality(TagNodes(nodes))
      /\ Total(BytesOf(Tagged(tok))) = Total(BytesOf(nodes))
  <2>1. \A i \in 1..Len(nodes) : SameTally(Tagged(tok)[i], nodes[i])
    BY <1>4, SameNodeTally
  <2>2. /\ Cardinality(TextNodes(Tagged(tok)))
             = Cardinality(TextNodes(nodes)) + (IF FilledText(TagNode(tok)) THEN 1 ELSE 0)
        /\ Cardinality(TagNodes(Tagged(tok)))
             = Cardinality(TagNodes(nodes)) + (IF CountedTag(TagNode(tok)) THEN 1 ELSE 0)
        /\ Total(BytesOf(Tagged(tok))) = Total(BytesOf(nodes)) + NodeBytes(TagNode(tok))
    BY ONLY <1>4, <1>5, <2>1, TalliesGrow
  <2>3. QED
    BY ONLY <1>6, <1>8, <2>2
<1>10. /\ Cardinality(TextNodes(Paired(tok)))
            = Cardinality(TextNodes(nodes)) + (IF IsText(tok) THEN 1 ELSE 0)
       /\ Cardinality(TagNodes(Paired(tok))) = Cardinality(TagNodes(nodes)) + 0
       /\ Total(BytesOf(Paired(tok))) = Total(BytesOf(nodes)) + TextBytes(tok)
  <2>1. /\ \A i \in 1..Len(Tagged(tok)) : SameTally(Paired(tok)[i], Tagged(tok)[i])
        /\ Len(Paired(tok)) = Len(Tagged(tok)) + 1
        /\ Paired(tok)[Len(Tagged(tok)) + 1] = PayloadNode(tok)
    BY <1>4, <1>5, SameNodeTally
  <2>2. /\ Cardinality(TextNodes(Paired(tok)))
             = Cardinality(TextNodes(Tagged(tok))) + (IF FilledText(PayloadNode(tok)) THEN 1 ELSE 0)
        /\ Cardinality(TagNodes(Paired(tok)))
             = Cardinality(TagNodes(Tagged(tok))) + (IF CountedTag(PayloadNode(tok)) THEN 1 ELSE 0)
        /\ Total(BytesOf(Paired(tok)))
             = Total(BytesOf(Tagged(tok))) + NodeBytes(PayloadNode(tok))
    BY <1>4, <2>1, TalliesGrow
  <2>3. QED
    BY <1>8, <1>9, <2>2
<1>11. /\ \A i \in 1..Len(nodes) : nodes'[i].type = nodes[i].type
       /\ Cardinality(TagNodes(nodes')) = Cardinality(TagNodes(nodes)) + 0
  <2>1. \A i \in 1..Len(nodes) :
          Tagged(tok)[i].type = nodes[i].type /\ Paired(tok)[i].type = nodes[i].type
    BY <1>4, <1>5 DEF SameNode
  <2>2. QED
    BY <1>1, <1>6, <1>9, <1>10, <2>1
<1>12. CrumbsOK(nodes', breadcrumbs')
  BY <1>1, <1>11, CrumbsStay
<1>13. /\ warnedLimits \subseteq warnedLimits'
       /\ nodes' = Paired(tok) \/ ~Unwarned'
  BY <1>1 DEF NoWarning, WarnLimit, Unwarned
<1>14. /\ 0 \in Nat /\ 0 \in Int /\ textNodes' = textNodes + 0 /\ totals' \in TotalsRecord
       /\ totals'.textByteLen = totals.textByteLen + 0 /\ totalTagNodes' = totalTagNodes + 0
  BY <1>1, <1>6
<1>15. ASSUME Unwarned /\ Unwarned'
       PROVE  /\ Cardinality(TextNodes(nodes'))
                   = Cardinality(TextNodes(nodes)) + 0 + (IF IsText(tok) THEN 1 ELSE 0)
              /\ Total(BytesOf(nodes')) = Total(BytesOf(nodes)) + 0 + TextBytes(tok)
  BY <1>6, <1>8, <1>10, <1>13, <1>15
<1>16. QED
  BY <1>3, <1>5, <1>6, <1>7, <1>11, <1>12, <1>13, <1>14, <1>15, TallyStep

LEMMA OpenTallies == ASSUME IInv, TalliesOK, OpenTag PROVE TalliesOK'
<1>1. PICK tok \in TagTokens(Openers) :
        /\ Parsing /\ input' = Append(input, tok)
        /\ nodes' = Appended(nodes, Parent, TagNode(tok))
        /\ breadcrumbs' = Append(breadcrumbs, Len(nodes) + 1)
        /\ totalTagNodes' = totalTagNodes + 1
        /\ warnedLimits' = warnedLimits /\ totals' = totals /\ skip' = skip
        /\ textNodes' = textNodes
  BY DEF OpenTag, NoWarning, TagNode
<1>2. Reads(tok) /\ tok.type \in Openers /\ tok.type \in Tag \ Greedy
  BY <1>1, OpenersFacts, OpenersNotGreedy, PassedOn DEF IInv
<1>3. /\ Grows(nodes', nodes, Position, Position') /\ Len(nodes') = Len(nodes) + 1
      /\ nodes'[Len(nodes) + 1] = TagNode(tok)
  BY <1>1, <1>2, NodeOfToken DEF TagNode
<1>4. /\ nodes' \in Seq(NodeRecord) /\ nodes \in Seq(NodeRecord) /\ Len(nodes) \in Nat
      /\ \A i \in 1..Len(nodes) : SameTally(nodes'[i], nodes[i])
  BY <1>3, SameNodeTally, LenProperties DEF Grows, IInv, RecordsOK
<1>5. CountedTag(TagNode(tok)) /\ ~FilledText(TagNode(tok)) /\ NodeBytes(TagNode(tok)) = 0
      /\ TagNode(tok).type # "text"
  BY <1>2 DEF CountedTag, FilledText, NodeBytes, TagNode, Node
<1>6. /\ Cardinality(TextNodes(nodes)) \in Nat /\ Cardinality(TagNodes(nodes)) \in Nat
      /\ Total(BytesOf(nodes)) \in Int
      /\ Cardinality(TextNodes(nodes')) = Cardinality(TextNodes(nodes)) + 0
      /\ Cardinality(TagNodes(nodes')) = Cardinality(TagNodes(nodes)) + 1
      /\ Total(BytesOf(nodes')) = Total(BytesOf(nodes)) + 0
  BY <1>3, <1>4, <1>5, TalliesGrow
<1>7. CrumbsOK(nodes', breadcrumbs')
  <2>1. /\ breadcrumbs \in Seq(Nat)
        /\ \A k \in 1..Len(breadcrumbs) :
             breadcrumbs[k] \in 1..Len(nodes) /\ nodes[breadcrumbs[k]].type # "text"
    BY DEF IInv, StacksOK, NodeIds, TalliesOK
  <2>2. /\ Len(breadcrumbs') = Len(breadcrumbs) + 1 /\ Len(breadcrumbs) \in Nat
        /\ breadcrumbs'[Len(breadcrumbs) + 1] = Len(nodes) + 1
        /\ \A k \in 1..Len(breadcrumbs) : breadcrumbs'[k] = breadcrumbs[k]
    BY <1>1, <1>4, <2>1, AppendProperties, LenProperties
  <2>3. ASSUME NEW k \in 1..(Len(breadcrumbs) + 1) PROVE nodes'[breadcrumbs'[k]].type # "text"
    <3>1. CASE k = Len(breadcrumbs) + 1
      BY <1>3, <1>5, <2>2, <3>1
    <3>2. CASE k # Len(breadcrumbs) + 1
      <4>1. k \in 1..Len(breadcrumbs)
        BY <2>2, <3>2
      <4>2. /\ breadcrumbs'[k] = breadcrumbs[k] /\ breadcrumbs[k] \in 1..Len(nodes)
            /\ nodes[breadcrumbs[k]].type # "text"
        BY <2>1, <2>2, <4>1
      <4>3. nodes'[breadcrumbs[k]].type = nodes[breadcrumbs[k]].type
        BY <1>4, <4>2 DEF SameTally
      <4>4. QED
        BY <4>2, <4>3
    <3>3. QED
      BY <3>1, <3>2
  <2>4. QED
    BY <2>2, <2>3 DEF CrumbsOK
<1>8. ~IsText(tok) /\ TextBytes(tok) = 0
  BY <1>2, NoTextIn, ParserAssumption
<1>9. /\ phase = "tokens" /\ phase' = "tokens" /\ SkipsOK(skip') /\ totals' \in TotalsRecord
      /\ textNodes \in Nat /\ totals.textByteLen \in Int
  BY <1>1, SkipsStay DEF Parsing, TalliesOK, TotalsRecord
<1>10. /\ 0 \in Nat /\ 0 \in Int /\ 1 \in Nat /\ textNodes' = textNodes + 0
       /\ totals'.textByteLen = totals.textByteLen + 0
       /\ Cardinality(TextNodes(nodes'))
            = Cardinality(TextNodes(nodes)) + 0 + (IF IsText(tok) THEN 1 ELSE 0)
       /\ Total(BytesOf(nodes')) = Total(BytesOf(nodes)) + 0 + TextBytes(tok)
  BY <1>1, <1>6, <1>8, <1>9
<1>11. QED
  BY <1>1, <1>2, <1>6, <1>7, <1>9, <1>10, TallyStep

(* closeTag writes the end of a node that is not a text. *)
LEMMA EndTallies ==
  ASSUME NEW ns \in Seq(NodeRecord), NEW p \in 1..Len(ns), NEW v \in Nat, ns[p].type # "text"
  PROVE  LET ms == [ns EXCEPT ![p].end = v]
         IN Len(ms) = Len(ns) /\ \A i \in 1..Len(ns) : SameTally(ms[i], ns[i])
<1> DEFINE ms == [ns EXCEPT ![p].end = v]
<1>1. /\ Len(ms) = Len(ns)
      /\ \A i \in 1..Len(ns) : SameShape(ms[i], ns[i]) /\ (i # p => ms[i] = ns[i])
  BY EndShape
<1> HIDE DEF ms
<1>2. \A i \in 1..Len(ns) : SameTally(ms[i], ns[i])
  BY <1>1 DEF SameShape, SameTally
<1>3. QED
  BY <1>1, <1>2 DEF ms

LEMMA PopTallies ==
  ASSUME IInv, TalliesOK, NEW w \in Nat, PopTag(w)
  PROVE  /\ Len(nodes') = Len(nodes) /\ \A i \in 1..Len(nodes) : SameTally(nodes'[i], nodes[i])
         /\ CrumbsOK(nodes', breadcrumbs')
<1>1. RecordsOK /\ StacksOK
  BY DEF IInv
<1>2. /\ Len(breadcrumbs) \in Nat \ {0} /\ Len(cumWidth) = Len(breadcrumbs)
      /\ Parent = breadcrumbs[Len(breadcrumbs)] /\ Parent \in 1..Len(nodes)
      /\ Last(cumWidth) \in Nat /\ nodes[Parent].start \in Nat /\ nodes[Parent].type # "text"
  <2>1. /\ Len(breadcrumbs) \in Nat \ {0} /\ Len(cumWidth) = Len(breadcrumbs)
        /\ Parent = breadcrumbs[Len(breadcrumbs)] /\ Parent \in NodeIds
        /\ Last(cumWidth) = cumWidth[Len(breadcrumbs)]
        /\ \A k \in 1..Len(breadcrumbs) :
             cumWidth[k] \in Nat /\ nodes[breadcrumbs[k]].start \in Nat
    BY <1>1, StackFacts
  <2>2. Len(breadcrumbs) \in 1..Len(breadcrumbs)
    BY <2>1
  <2>3. nodes[Parent].type # "text"
    BY <2>1, <2>2 DEF TalliesOK
  <2>4. QED
    BY <2>1, <2>2, <2>3 DEF NodeIds
<1> DEFINE v == nodes[Parent].start + Last(cumWidth) + w
<1>3. v \in Nat /\ nodes' = [nodes EXCEPT ![Parent].end = v] /\ breadcrumbs' = Front(breadcrumbs)
  BY <1>2 DEF PopTag
<1> HIDE DEF v
<1>4. Len(nodes') = Len(nodes) /\ \A i \in 1..Len(nodes) : SameTally(nodes'[i], nodes[i])
  <2> DEFINE ms == [nodes EXCEPT ![Parent].end = v]
  <2>1. nodes \in Seq(NodeRecord)
    BY <1>1 DEF RecordsOK
  <2>2. Len(ms) = Len(nodes) /\ \A i \in 1..Len(nodes) : SameTally(ms[i], nodes[i])
    BY <1>2, <1>3, <2>1, EndTallies
  <2> HIDE DEF ms
  <2>3. nodes' = ms
    BY <1>3 DEF ms
  <2>4. QED
    BY <2>2, <2>3
<1>5. \A k \in 1..Len(breadcrumbs') : \E j \in 1..Len(breadcrumbs) : breadcrumbs'[k] = breadcrumbs[j]
  <2>1. breadcrumbs \in Seq(Nat) /\ breadcrumbs # <<>>
    BY <1>1, <1>2, EmptySeq DEF StacksOK
  <2>2. /\ Len(Front(breadcrumbs)) = Len(breadcrumbs) - 1
        /\ \A i \in 1..(Len(breadcrumbs) - 1) : Front(breadcrumbs)[i] = breadcrumbs[i]
    BY <2>1, FrontFacts
  <2>3. QED
    BY <1>2, <1>3, <2>2
<1>6. QED
  BY <1>4, <1>5, CrumbsStay DEF SameTally

LEMMA CloseTallies == ASSUME IInv, TalliesOK, CloseTag PROVE TalliesOK'
<1>1. PICK tok \in TagTokens(Tag \ Greedy) :
        /\ Parsing /\ input' = Append(input, tok) /\ PopTag(tok.width)
        /\ totals' = totals /\ skip' = skip /\ warnedLimits' = warnedLimits
        /\ totalTagNodes' = totalTagNodes /\ textNodes' = textNodes
  BY DEF CloseTag, NoWarning
<1>2. Reads(tok) /\ tok.type \in Tag \ Greedy /\ tok.width \in Nat
  BY <1>1, PassedOn DEF IInv
<1>3. /\ Len(nodes') = Len(nodes) /\ \A i \in 1..Len(nodes) : SameTally(nodes'[i], nodes[i])
      /\ CrumbsOK(nodes', breadcrumbs')
  BY <1>1, <1>2, PopTallies
<1>4. ~IsText(tok) /\ TextBytes(tok) = 0
  BY <1>2, NoTextIn, ParserAssumption
<1>5. phase = "tokens" /\ phase' = "tokens" /\ SkipsOK(skip')
  BY <1>1, SkipsStay DEF Parsing
<1>6. QED
  BY <1>1, <1>2, <1>3, <1>4, <1>5, TallyQuiet

LEMMA AttributeTallies == ASSUME IInv, TalliesOK, ProcessAttribute PROVE TalliesOK'
<1>1. PICK tok \in Tokens({"attribute"}) :
        /\ Parsing /\ input' = Append(input, tok)
        /\ \/ nodes' = AttributeRange(nodes, lastNode, Len(attributes) + 1) /\ NoWarning
           \/ nodes' = nodes /\ WarnLimit("MaxAttributesExceeded", tok.pos, <<>>)
        /\ totals' = totals /\ breadcrumbs' = breadcrumbs /\ skip' = skip
        /\ totalTagNodes' = totalTagNodes /\ textNodes' = textNodes
  BY DEF ProcessAttribute, places
<1>2. RecordsOK /\ LinksOK
  BY DEF IInv
<1>3. Reads(tok) /\ tok.type = "attribute"
  <2>1. {"attribute"} \in SUBSET TokenType
    BY DEF TokenType
  <2>2. tok \in TokenRecord /\ tok.pos = Position /\ tok.type \in {"attribute"}
    BY <1>2, <2>1, TokenFacts
  <2>3. QED
    BY <1>1, <2>2 DEF Reads
<1>4. Len(nodes') = Len(nodes) /\ \A i \in 1..Len(nodes) : SameTally(nodes'[i], nodes[i])
  <2>1. /\ nodes \in Seq(NodeRecord) /\ lastNode \in 1..Len(nodes) /\ Len(attributes) + 1 \in Nat
    BY <1>2, ArenaFacts DEF RecordsOK, LinksOK, NodeIds
  <2> DEFINE ms == AttributeRange(nodes, lastNode, Len(attributes) + 1)
  <2>2. Len(ms) = Len(nodes) /\ \A i \in 1..Len(nodes) : SameTally(ms[i], nodes[i])
    BY <2>1, AttributeShape
  <2> HIDE DEF ms
  <2>3. nodes' = ms \/ nodes' = nodes
    BY <1>1 DEF ms
  <2>4. QED
    BY <2>2, <2>3 DEF SameTally
<1>5. warnedLimits \subseteq warnedLimits'
  BY <1>1 DEF NoWarning, WarnLimit
<1>6. CrumbsOK(nodes', breadcrumbs') /\ SkipsOK(skip')
  BY <1>1, <1>4, CrumbsStay, SkipsStay DEF SameTally
<1>7. ~IsText(tok) /\ TextBytes(tok) = 0
  BY <1>3, NoTextIn, ParserAssumption
<1>8. phase = "tokens" /\ phase' = "tokens"
  BY <1>1 DEF Parsing
<1>9. QED
  BY <1>1, <1>3, <1>4, <1>5, <1>6, <1>7, <1>8, TallyQuiet

(* A step between two tokens, while the parse goes on. *)
LEMMA TallyRest ==
  ASSUME TalliesOK, Running, phase' \in {"tokens", "closing"},
         input' = input, totals' = totals, textNodes' = textNodes, skip' = skip,
         totalTagNodes' = totalTagNodes, warnedLimits' = warnedLimits,
         Len(nodes') = Len(nodes), \A i \in 1..Len(nodes) : SameTally(nodes'[i], nodes[i]),
         CrumbsOK(nodes', breadcrumbs')
  PROVE  TalliesOK'
<1>1. /\ TextNodes(nodes') = TextNodes(nodes) /\ TagNodes(nodes') = TagNodes(nodes)
      /\ BytesOf(nodes') = BytesOf(nodes)
  BY TalliesSame
<1>2. TextTokens' = TextTokens /\ TextByteLen' = TextByteLen
  BY DEF TextTokens, TextByteLen
<1>3. /\ textNodes \in Nat /\ totals \in TotalsRecord
      /\ totalTagNodes = Cardinality(TagNodes(nodes))
      /\ SkipsOK(skip)
      /\ Unwarned => /\ textNodes + TextTokens = Cardinality(TextNodes(nodes))
                     /\ totals.textByteLen + TextByteLen = Total(BytesOf(nodes))
  BY DEF TalliesOK, Unwarned, BytesOf, SkipsOK
<1>4. TextAccounted'
  BY DEF TextAccounted
<1>5. QED
  BY <1>1, <1>2, <1>3, <1>4 DEF TalliesOK, CrumbsOK, SkipsOK, Unwarned, BytesOf

LEMMA EndOfInputTallies == ASSUME IInv, TalliesOK, EndOfInput PROVE TalliesOK'
<1>1. /\ phase = "tokens" /\ phase' = "closing"
      /\ input' = input /\ totals' = totals /\ textNodes' = textNodes /\ skip' = skip
      /\ totalTagNodes' = totalTagNodes /\ warnedLimits' = warnedLimits /\ nodes' = nodes
      /\ breadcrumbs' = breadcrumbs
  BY DEF EndOfInput, ast, pooled, places
<1>2. CrumbsOK(nodes', breadcrumbs')
  BY <1>1, CrumbsStay
<1>3. QED
  BY <1>1, <1>2, TallyRest DEF Running, SameTally

LEMMA ForceCloseTallies == ASSUME IInv, TalliesOK, ForceClose PROVE TalliesOK'
<1>1. /\ phase = "closing" /\ phase' = "closing" /\ PopTag(0)
      /\ input' = input /\ totals' = totals /\ textNodes' = textNodes /\ skip' = skip
      /\ totalTagNodes' = totalTagNodes /\ warnedLimits' = warnedLimits
  BY DEF ForceClose
<1>2. 0 \in Nat
  OBVIOUS
<1>3. /\ Len(nodes') = Len(nodes) /\ \A i \in 1..Len(nodes) : SameTally(nodes'[i], nodes[i])
      /\ CrumbsOK(nodes', breadcrumbs')
  BY <1>1, <1>2, PopTallies
<1>4. QED
  BY <1>1, <1>3, TallyRest DEF Running

(* The statistics are made of what was counted when the root is closed. *)
LEMMA FinalizeTallies == ASSUME IInv, TalliesOK, Finalize PROVE TalliesOK'
<1>1. /\ phase = "closing" /\ phase' = "done" /\ Len(breadcrumbs) = 1
      /\ nodes' = [nodes EXCEPT ![1].end = Last(cumWidth)]
      /\ totals' = [maxDepth |-> maxDepth, textByteLen |-> totals.textByteLen + TextByteLen,
                    totalTextNodes |-> textNodes + TextTokens, totalTagNodes |-> totalTagNodes]
      /\ raised' = raised /\ input' = input
  BY DEF Finalize
<1>2. /\ skip' = NothingSkipped /\ breadcrumbs' = <<1>> /\ textNodes' = 0
  BY DEF Finalize, Reset, ResetSkip
<1>3. RecordsOK /\ StacksOK /\ Telescope /\ LimitsReported
  BY DEF IInv
<1>4. /\ 1 \in 1..Len(nodes) /\ Last(cumWidth) \in Nat /\ nodes[1].type # "text"
      /\ nodes \in Seq(NodeRecord) /\ maxDepth \in Nat
  <2>1. Last(cumWidth) = cumWidth[1] /\ cumWidth[1] \in Nat /\ breadcrumbs[1] \in NodeIds
    BY <1>1, <1>3, StackFacts
  <2>2. breadcrumbs[1] = 1 /\ nodes[breadcrumbs[1]].type # "text"
    BY <1>1, <1>3 DEF Telescope, TalliesOK
  <2>3. QED
    BY <1>3, <2>1, <2>2 DEF NodeIds, RecordsOK
<1>5. Len(nodes') = Len(nodes) /\ \A i \in 1..Len(nodes) : SameTally(nodes'[i], nodes[i])
  <2> DEFINE v  == Last(cumWidth)
             ms == [nodes EXCEPT ![1].end = v]
  <2> HIDE DEF v
  <2>1. Len(ms) = Len(nodes) /\ \A i \in 1..Len(nodes) : SameTally(ms[i], nodes[i])
    BY <1>4, EndTallies DEF v
  <2> HIDE DEF ms
  <2>2. nodes' = ms
    BY <1>1 DEF ms, v
  <2>3. QED
    BY <2>1, <2>2
<1>6. /\ TextNodes(nodes') = TextNodes(nodes) /\ TagNodes(nodes') = TagNodes(nodes)
      /\ BytesOf(nodes') = BytesOf(nodes)
  BY <1>5, TalliesSame
<1>7. /\ Cardinality(TagNodes(nodes)) \in Nat /\ TextTokens \in Nat /\ TextByteLen \in Int
  <2>1. Cardinality(TagNodes(nodes)) \in Nat
    BY <1>4, TallyTypes
  <2>2. TextTokens \in Nat /\ TextByteLen \in Int
    BY <1>3, TokenTypes
  <2>3. QED
    BY <2>1, <2>2
<1>8. /\ textNodes \in Nat /\ totals.textByteLen \in Int
      /\ totalTagNodes = Cardinality(TagNodes(nodes))
      /\ Unwarned => /\ textNodes + TextTokens = Cardinality(TextNodes(nodes))
                     /\ totals.textByteLen + TextByteLen = Total(BytesOf(nodes))
  BY <1>1 DEF TalliesOK, TotalsRecord, Unwarned, BytesOf, Running
<1>9. totals' \in TotalsRecord
  BY <1>1, <1>4, <1>7, <1>8 DEF TotalsRecord
<1>10. /\ totals'.totalTextNodes = textNodes + TextTokens
       /\ totals'.textByteLen = totals.textByteLen + TextByteLen
       /\ totals'.totalTagNodes = totalTagNodes
  BY <1>1
<1>11. Issues("MaxNodesExceeded")' = 0 /\ ~GreedyClosers => Unwarned
  <2>1. Running /\ "MaxNodesExceeded" \in LimitIssue
    BY <1>1 DEF Running, LimitIssue
  <2>2. Issues("MaxNodesExceeded")' = Issues("MaxNodesExceeded")
    BY <1>1 DEF Issues
  <2>3. Issues("MaxNodesExceeded") = 1 <=> "MaxNodesExceeded" \in warnedLimits
    BY <1>3, <2>1 DEF LimitsReported
  <2>4. QED
    BY <2>2, <2>3 DEF Unwarned
<1>12. TextAccounted'
  BY <1>6, <1>8, <1>10, <1>11 DEF TextAccounted, BytesOf
<1>13. CrumbsOK(nodes', breadcrumbs')
  <2>1. nodes'[1].type # "text" /\ Len(breadcrumbs') = 1 /\ breadcrumbs'[1] = 1
    BY <1>2, <1>4, <1>5 DEF SameTally
  <2>2. QED
    BY <2>1 DEF CrumbsOK
<1>14. SkipsOK(skip')
  BY <1>2, ParserAssumption DEF SkipsOK, NothingSkipped
<1>15. ~Running' /\ textNodes' \in Nat
  BY <1>1, <1>2 DEF Running
<1>16. QED
  BY <1>9, <1>12, <1>13, <1>14, <1>15 DEF TalliesOK, CrumbsOK, SkipsOK

(* A parse before its first token. *)
AtStart ==
  /\ phase \in {"ready", "tokens"} /\ input = <<>>
  /\ nodes = <<Root>> /\ totals = NoTotals /\ Fresh

LEMMA StartTallies == AtStart => TalliesOK
<1> SUFFICES ASSUME AtStart PROVE TalliesOK
  OBVIOUS
<1>1. /\ phase \in {"ready", "tokens"} /\ input = <<>>
      /\ nodes = <<Root>> /\ totals = NoTotals /\ Fresh
  BY DEF AtStart
<1>2. /\ skip = NothingSkipped /\ breadcrumbs = <<1>> /\ totalTagNodes = 0 /\ textNodes = 0
  BY <1>1 DEF Fresh
<1>3. Len(nodes) = 1 /\ nodes[1] = Root /\ Root.type = "root" /\ NodeBytes(Root) = 0
  BY <1>1 DEF Root, Node, NodeBytes
<1>4. TextNodes(nodes) = {} /\ TagNodes(nodes) = {}
  BY <1>3 DEF TextNodes, TagNodes
<1>5. TextTokens = 0
  <2>1. {i \in 1..Len(input) : IsText(input[i])} = {}
    BY <1>1
  <2>2. QED
    BY <2>1, FS_EmptySet DEF TextTokens
<1>6. <<>> \in Seq(Int) /\ 0 \in Int
  OBVIOUS
<1>7. TextByteLen = 0
  <2>1. [i \in 1..Len(input) |-> TextBytes(input[i])] = <<>>
    BY <1>1
  <2>2. QED
    BY <1>6, <2>1, TotalFacts DEF TextByteLen
<1>8. Total(BytesOf(nodes)) = 0
  <2>1. BytesOf(nodes) = Append(<<>>, 0)
    BY <1>3 DEF BytesOf
  <2>2. Total(<<>>) = 0 /\ Total(Append(<<>>, 0)) = Total(<<>>) + 0
    BY <1>6, TotalFacts
  <2>3. QED
    BY <2>1, <2>2
<1>9. totals \in TotalsRecord /\ totals.textByteLen = 0
  BY <1>1 DEF NoTotals, TotalsRecord
<1>10. CrumbsOK(nodes, breadcrumbs) /\ SkipsOK(skip)
  BY <1>2, <1>3, ParserAssumption DEF CrumbsOK, SkipsOK, NothingSkipped
<1>11. TextAccounted
  BY <1>1 DEF TextAccounted
<1>12. /\ textNodes \in Nat /\ totals \in TotalsRecord
       /\ totalTagNodes = Cardinality(TagNodes(nodes))
       /\ textNodes + TextTokens = Cardinality(TextNodes(nodes))
       /\ totals.textByteLen + TextByteLen = Total(BytesOf(nodes))
  BY <1>2, <1>4, <1>5, <1>7, <1>8, <1>9, FS_EmptySet
<1>13. QED
  BY <1>10, <1>11, <1>12 DEF TalliesOK, CrumbsOK, SkipsOK, BytesOf

LEMMA BeginTallies == ASSUME IInv, BeginParse PROVE TalliesOK'
<1>1. /\ phase' = "tokens" /\ input' = <<>> /\ nodes' = <<Root>> /\ totals' = NoTotals
  BY DEF BeginParse
<1>2. Fresh'
  <2>1. Fresh
    BY DEF BeginParse, IInv, PoolIsClean
  <2>2. QED
    BY <2>1 DEF BeginParse, pooled, places, Fresh
<1>3. AtStart'
  BY <1>1, <1>2 DEF AtStart
<1>4. (AtStart => TalliesOK)'
  BY StartTallies, PTL
<1>5. QED
  BY <1>3, <1>4

LEMMA IdleTallies == ASSUME TalliesOK, UNCHANGED vars PROVE TalliesOK'
<1>1. /\ phase' = phase /\ input' = input /\ nodes' = nodes /\ totals' = totals
      /\ raised' = raised /\ breadcrumbs' = breadcrumbs /\ skip' = skip
      /\ totalTagNodes' = totalTagNodes /\ textNodes' = textNodes
      /\ warnedLimits' = warnedLimits
  BY DEF vars, ast, pooled, places
<1>2. /\ TextTokens' = TextTokens /\ TextByteLen' = TextByteLen /\ Running' = Running
      /\ Issues("MaxNodesExceeded")' = Issues("MaxNodesExceeded")
  BY <1>1 DEF TextTokens, TextByteLen, Running, Issues
<1>3. TextAccounted'
  BY <1>1, <1>2 DEF TalliesOK, TextAccounted
<1>4. QED
  BY <1>1, <1>2, <1>3 DEF TalliesOK

LEMMA NextTallies == IInv /\ TalliesOK /\ [Next]_vars => TalliesOK'
<1> SUFFICES ASSUME IInv, TalliesOK, [Next]_vars PROVE TalliesOK'
  OBVIOUS
<1>1. CASE BeginParse
  BY <1>1, BeginTallies
<1>2. CASE ProcessText
  BY <1>2, TextTallies
<1>3. CASE ProcessAttribute
  BY <1>3, AttributeTallies
<1>4. CASE ProcessSkipped
  BY <1>4, SkippedTallies
<1>5. CASE GreedyNode
  BY <1>5, GreedyTallies
<1>6. CASE DuplicateNestedTag
  BY <1>6, DuplicateTallies
<1>7. CASE OpenTag
  BY <1>7, OpenTallies
<1>8. CASE RefuseTag
  BY <1>8, RefuseTallies
<1>9. CASE CloseTag
  BY <1>9, CloseTallies
<1>10. CASE MisplacedClosingTag
  BY <1>10, MisplacedTallies
<1>11. CASE MismatchedClosingTag
  BY <1>11, MismatchedTallies
<1>12. CASE EndOfInput
  BY <1>12, EndOfInputTallies
<1>13. CASE ForceClose
  BY <1>13, ForceCloseTallies
<1>14. CASE Finalize
  BY <1>14, FinalizeTallies
<1>15. CASE UNCHANGED vars
  BY <1>15, IdleTallies
<1>16. QED
  BY <1>1, <1>2, <1>3, <1>4, <1>5, <1>6, <1>7, <1>8, <1>9, <1>10, <1>11, <1>12, <1>13,
     <1>14, <1>15 DEF Next

(* tokenize.go:104, process_closing_tag.go:38: what the tokenizer and the   *)
(* parser count between them, of texts, of their bytes and of tags, is what *)
(* the tree has, unless nodes were left out.                               *)
THEOREM TextCounted == Spec => []TextAccounted
<1>1. Init => TalliesOK
  BY StartTallies DEF Init, AtStart
<1>2. TalliesOK => TextAccounted
  BY DEF TalliesOK
<1>3. QED
  BY <1>1, <1>2, NextTallies, ParserInvariant, PTL DEF Spec

-----------------------------------------------------------------------------
(* What is left out *)

(* A node can be hung below the innermost open tag. *)
LEMMA ArenaLinked ==
  ASSUME IInv
  PROVE  /\ nodes \in Seq(NodeRecord) /\ Linked(nodes, Len(nodes)) /\ Parent \in 1..Len(nodes)
         /\ Len(nodes) \in Nat /\ Len(breadcrumbs) \in Nat \ {0}
         /\ Parent = breadcrumbs[Len(breadcrumbs)]
         /\ \A k \in 1..Len(breadcrumbs) : breadcrumbs[k] \in 1..Len(nodes)
<1>1. RecordsOK /\ LinksOK /\ StacksOK
  BY DEF IInv
<1>2. QED
  BY <1>1, StackFacts, ArenaFacts DEF RecordsOK, LinksOK, Linked, Links, NodeIds

(* The nodes there were keep their place and tag; new ones start in between. *)
NodesAdded(ms, ns, low, high) ==
  /\ Len(ns) \in Nat /\ Len(ms) \in Nat /\ Len(ns) <= Len(ms)
  /\ \A i \in 1..Len(ms) : ms[i].start \in Nat
  /\ \A i \in 1..Len(ns) : ms[i].start = ns[i].start /\ ms[i].tag = ns[i].tag
  /\ \A i \in (Len(ns) + 1)..Len(ms) : low <= ms[i].start /\ ms[i].start < high

(* Warnings of a step; those about nodes and closers are about its token. *)
AboutToken == {"OpenCloseTagMismatch", "MaxNodesExceeded", "MaxParseDepthExceeded"}
Reports(items, low, high) ==
  /\ items \in Seq(Report)
  /\ \A i \in 1..Len(items) :
       /\ items[i].pos <= high /\ (items[i].issue \in AboutToken => low <= items[i].pos)
       /\ items[i].issue = "OpenCloseTagMismatch" => items[i].pos < high

LEMMA RaisedMore ==
  ASSUME raised \in Seq(Report), NEW items \in Seq(Report), raised' = raised \o items
  PROVE  /\ DOMAIN raised = 1..Len(raised) /\ DOMAIN raised' = 1..Len(raised')
         /\ \A i \in 1..Len(raised) : i \in 1..Len(raised') /\ raised'[i] = raised[i]
         /\ \A j \in 1..Len(items) : \E i \in 1..Len(raised') : raised'[i] = items[j]
         /\ \A i \in 1..Len(raised') :
              \/ i \in 1..Len(raised) /\ raised'[i] = raised[i]
              \/ \E j \in 1..Len(items) : raised'[i] = items[j]
<1> DEFINE m == Len(raised)
           n == Len(items)
<1>1. /\ m \in Nat /\ n \in Nat /\ Len(raised') = m + n /\ raised' \in Seq(Report)
      /\ \A i \in 1..(m + n) : raised'[i] = IF i <= m THEN raised[i] ELSE items[i - m]
  BY ConcatProperties, LenProperties
<1>2. DOMAIN raised = 1..m /\ DOMAIN raised' = 1..Len(raised')
  BY <1>1, LenProperties
<1> HIDE DEF m, n
<1>3. \A i \in 1..m : i \in 1..(m + n) /\ raised'[i] = raised[i]
  BY <1>1
<1>4. \A j \in 1..n : m + j \in 1..(m + n) /\ raised'[m + j] = items[j]
  BY <1>1
<1>5. \A i \in 1..(m + n) : i \in 1..m \/ (i - m \in 1..n /\ raised'[i] = items[i - m])
  BY <1>1
<1>6. QED
  BY <1>1, <1>2, <1>3, <1>4, <1>5 DEF m, n

LEMMA WarnedMore ==
  ASSUME raised \in Seq(Report), NEW items \in Seq(Report), raised' = raised \o items,
         NEW issue, NEW pos
  PROVE  /\ WarnedAt(issue, pos) => WarnedAt(issue, pos)'
         /\ WarnedBy(issue, pos) => WarnedBy(issue, pos)'
         /\ WarnedAt(issue, pos)' =>
              \/ WarnedAt(issue, pos)
              \/ \E j \in 1..Len(items) : items[j].issue = issue /\ items[j].pos = pos
         /\ \A j \in 1..Len(items) :
              /\ items[j].issue = issue /\ items[j].pos = pos => WarnedAt(issue, pos)'
              /\ items[j].issue = issue /\ items[j].pos <= pos => WarnedBy(issue, pos)'
<1> DEFINE old == raised
           new == raised'
<1>1. /\ DOMAIN old = 1..Len(old) /\ DOMAIN new = 1..Len(new)
      /\ \A i \in 1..Len(old) : i \in 1..Len(new) /\ new[i] = old[i]
      /\ \A j \in 1..Len(items) : \E i \in 1..Len(new) : new[i] = items[j]
      /\ \A i \in 1..Len(new) :
           \/ i \in 1..Len(old) /\ new[i] = old[i]
           \/ \E j \in 1..Len(items) : new[i] = items[j]
  BY RaisedMore
<1>2. /\ WarnedAt(issue, pos) <=> \E i \in DOMAIN old : old[i].issue = issue /\ old[i].pos = pos
      /\ WarnedBy(issue, pos) <=> \E i \in DOMAIN old : old[i].issue = issue /\ old[i].pos <= pos
      /\ WarnedAt(issue, pos)' <=> \E i \in DOMAIN new : new[i].issue = issue /\ new[i].pos = pos
      /\ WarnedBy(issue, pos)' <=> \E i \in DOMAIN new : new[i].issue = issue /\ new[i].pos <= pos
  BY DEF WarnedAt, WarnedBy
<1> HIDE DEF old, new
<1>3. /\ WarnedAt(issue, pos) => WarnedAt(issue, pos)'
      /\ WarnedBy(issue, pos) => WarnedBy(issue, pos)'
  BY ONLY <1>1, <1>2
<1>4. WarnedAt(issue, pos)' =>
        \/ WarnedAt(issue, pos)
        \/ \E j \in 1..Len(items) : items[j].issue = issue /\ items[j].pos = pos
  BY ONLY <1>1, <1>2
<1>5. ASSUME NEW j \in 1..Len(items)
      PROVE  /\ items[j].issue = issue /\ items[j].pos = pos => WarnedAt(issue, pos)'
             /\ items[j].issue = issue /\ items[j].pos <= pos => WarnedBy(issue, pos)'
  <2>1. PICK i \in 1..Len(new) : new[i] = items[j]
    BY <1>1
  <2>2. i \in DOMAIN new /\ new[i].issue = items[j].issue /\ new[i].pos = items[j].pos
    BY <1>1, <2>1
  <2>3. QED
    BY ONLY <1>2, <2>2, Zenon
<1>6. QED
  BY <1>3, <1>4, <1>5

LEMMA StartsMore ==
  ASSUME NEW low \in Nat, NEW high \in Nat, NodesAdded(nodes', nodes, low, high),
         Len(nodes) # 0, \A j \in 2..Len(nodes) : nodes[j].start < low, low <= high
  PROVE  /\ NodeStarts \subseteq NodeStarts'
         /\ \A s \in NodeStarts' : s \in NodeStarts \/ low <= s
         /\ \A i \in (Len(nodes) + 1)..Len(nodes') : nodes'[i].start \in NodeStarts'
         /\ \A j \in 2..Len(nodes') : nodes'[j].start < high
         /\ \A s \in NodeStarts : s < low
<1>1. /\ Len(nodes) \in Nat \ {0} /\ Len(nodes') \in Nat /\ Len(nodes) <= Len(nodes')
      /\ \A i \in 1..Len(nodes) : nodes'[i].start = nodes[i].start
      /\ \A i \in (Len(nodes) + 1)..Len(nodes') : low <= nodes'[i].start /\ nodes'[i].start < high
  BY DEF NodesAdded
<1>2. /\ \A j \in 2..Len(nodes) :
           j \in 2..Len(nodes') /\ j \in 1..Len(nodes) /\ nodes'[j].start = nodes[j].start
      /\ \A j \in (Len(nodes) + 1)..Len(nodes') : j \in 2..Len(nodes')
      /\ \A j \in 2..Len(nodes') : j \in 2..Len(nodes) \/ j \in (Len(nodes) + 1)..Len(nodes')
  BY <1>1
<1>3. /\ NodeStarts = {nodes[j].start : j \in 2..Len(nodes)}
      /\ NodeStarts' = {nodes'[j].start : j \in 2..Len(nodes')}
  <2>1. NodeIds \ {1} = 2..Len(nodes) /\ (NodeIds \ {1})' = 2..Len(nodes')
    BY <1>1 DEF NodeIds
  <2>2. QED
    BY <2>1 DEF NodeStarts
<1>4. \A j \in 2..Len(nodes') : nodes'[j].start < high
  <2> SUFFICES ASSUME NEW j \in 2..Len(nodes') PROVE nodes'[j].start < high
    OBVIOUS
  <2>1. CASE j \in 2..Len(nodes)
    <3>1. nodes'[j].start < low /\ nodes'[j].start \in Nat
      BY <1>2, <2>1 DEF NodesAdded
    <3>2. QED
      BY <3>1
  <2>2. CASE j \in (Len(nodes) + 1)..Len(nodes')
    BY <1>1, <2>2
  <2>3. QED
    BY <1>2, <2>1, <2>2
<1>5. QED
  BY <1>1, <1>2, <1>3, <1>4

LEMMA ReasonKept ==
  ASSUME raised \in Seq(Report), NEW items \in Seq(Report), raised' = raised \o items,
         NEW low, NEW high, NodesAdded(nodes', nodes, low, high),
         NodeStarts \subseteq NodeStarts', NEW tok, NEW p, NodeOrReason(tok, p)
  PROVE  NodeOrReason(tok, p)'
<1>1. CASE p \in NodeStarts
  BY <1>1 DEF NodeOrReason
<1>2. CASE WarnedBy("MaxNodesExceeded", p)
  BY <1>2, WarnedMore DEF NodeOrReason
<1>3. CASE MayOpen(tok.type) /\ WarnedBy("MaxParseDepthExceeded", p)
  <2>1. WarnedBy("MaxParseDepthExceeded", p)'
    BY <1>3, WarnedMore
  <2>2. QED
    BY <1>3, <2>1 DEF NodeOrReason
<1>4. CASE NeedsNoNode(tok)
  <2>1. WarnedAt("DuplicateNestedTag", tok.pos) => WarnedAt("DuplicateNestedTag", tok.pos)'
    BY WarnedMore
  <2>2. \A issue : WarnedBy(issue, tok.pos) => WarnedBy(issue, tok.pos)'
    BY WarnedMore
  <2>3. \A j \in NodeIds : j \in NodeIds' /\ nodes'[j].tag = nodes[j].tag
                           /\ nodes'[j].start = nodes[j].start
    BY DEF NodesAdded, NodeIds
  <2>4. NeedsNoNode(tok)'
    BY <1>4, <2>1, <2>2, <2>3 DEF NeedsNoNode
  <2>5. QED
    BY <2>4 DEF NodeOrReason
<1>5. QED
  BY <1>1, <1>2, <1>3, <1>4 DEF NodeOrReason

(* What a token of before wants is not what this step warns of. *)
LEMMA WantedKept ==
  ASSUME raised \in Seq(Report), NEW items, NEW low \in Nat, NEW high, NEW tok,
         raised' = raised \o items, Reports(items, low, high), tok.pos \in Nat, tok.pos < low
  PROVE  Wanted(tok)' = Wanted(tok)
<1>1. items \in Seq(Report)
  BY DEF Reports
<1>2. ~\E j \in 1..Len(items) : items[j].issue = "OpenCloseTagMismatch" /\ items[j].pos = tok.pos
  <2> SUFFICES ASSUME NEW j \in 1..Len(items), items[j].issue = "OpenCloseTagMismatch",
                      items[j].pos = tok.pos
               PROVE  FALSE
    OBVIOUS
  <2>1. low <= items[j].pos
    BY DEF Reports, AboutToken
  <2>2. QED
    BY ONLY <2>1, items[j].pos = tok.pos, tok.pos < low, low \in Nat, tok.pos \in Nat
<1>3. WarnedAt("OpenCloseTagMismatch", tok.pos)' <=> WarnedAt("OpenCloseTagMismatch", tok.pos)
  <2>1. ASSUME NEW issue, NEW pos
        PROVE  WarnedAt(issue, pos) => WarnedAt(issue, pos)'
    BY <1>1, WarnedMore
  <2>2. ASSUME NEW issue, NEW pos
        PROVE  WarnedAt(issue, pos)' =>
                 \/ WarnedAt(issue, pos)
                 \/ \E j \in 1..Len(items) : items[j].issue = issue /\ items[j].pos = pos
    BY <1>1, WarnedMore
  <2>3. QED
    BY <1>2, <2>1, <2>2
<1>4. QED
  BY <1>3 DEF Wanted, PayloadStart

LEMMA WantedPlaces ==
  ASSUME NEW tok, NEW p \in Wanted(tok)
  PROVE  p = tok.pos \/ (tok.type \in Greedy /\ p = PayloadStart(tok))
  BY DEF Wanted

(* A step that adds at the end of what there is, and to no full arena. *)
Adds(items) ==
  /\ Position \in Nat /\ Position' \in Nat /\ Position <= Position'
  /\ setting' = setting
  /\ NodesAdded(nodes', nodes, Position, Position')
  /\ Reports(items, Position, Position') /\ raised' = raised \o items
  /\ input' \in Seq(TokenRecord) /\ Len(input) <= Len(input')
  /\ \A k \in 1..Len(input) : input'[k] = input[k]
  /\ Len(nodes) = setting.maxNodes => Len(nodes') = Len(nodes)
  /\ Deepest = setting.maxParseDepth => Deepest' = Deepest

LEMMA AddsFacts ==
  ASSUME RecordsOK, WarningsOK, PlacesOK, NEW items, Adds(items)
  PROVE  /\ raised \in Seq(Report) /\ items \in Seq(Report) /\ raised' = raised \o items
         /\ NodeStarts \subseteq NodeStarts'
         /\ \A s \in NodeStarts' : s \in NodeStarts \/ Position <= s
         /\ \A i \in (Len(nodes) + 1)..Len(nodes') : nodes'[i].start \in NodeStarts'
         /\ \A s \in NodeStarts : s < Position
         /\ Len(input) \in Nat /\ Len(input') \in Nat
         /\ DOMAIN input = 1..Len(input) /\ DOMAIN input' = 1..Len(input')
         /\ \A k \in 1..Len(input) : k \in 1..Len(input') /\ input[k] \in TokenRecord
<1>1. /\ input \in Seq(TokenRecord) /\ input' \in Seq(TokenRecord)
      /\ nodes \in Seq(NodeRecord) /\ Len(nodes) # 0
  BY EmptySeq DEF RecordsOK, Adds
<1>2. /\ raised \in Seq(Report) /\ items \in Seq(Report) /\ raised' = raised \o items
  BY DEF WarningsOK, Adds, Reports
<1>3. /\ NodeStarts \subseteq NodeStarts'
      /\ \A s \in NodeStarts' : s \in NodeStarts \/ Position <= s
      /\ \A i \in (Len(nodes) + 1)..Len(nodes') : nodes'[i].start \in NodeStarts'
      /\ \A s \in NodeStarts : s < Position
  BY <1>1, StartsMore DEF Adds, PlacesOK
<1>4. /\ Len(input) \in Nat /\ Len(input') \in Nat
      /\ DOMAIN input = 1..Len(input) /\ DOMAIN input' = 1..Len(input')
      /\ \A k \in 1..Len(input) : input[k] \in TokenRecord
  BY <1>1, LenProperties
<1>5. \A k \in 1..Len(input) : k \in 1..Len(input')
  BY <1>4 DEF Adds
<1>6. QED
  BY <1>2, <1>3, <1>4, <1>5

LEMMA TokenKept ==
  ASSUME RecordsOK, WarningsOK, PlacesOK, NEW items, Adds(items),
         NEW tok \in TokenRecord, tok.pos < Position, Answered(tok)
  PROVE  Wanted(tok)' = Wanted(tok) /\ Answered(tok)'
<1>1. Wanted(tok)' = Wanted(tok)
  <2>1. tok.pos \in Nat
    BY DEF TokenRecord
  <2>2. QED
    BY <2>1, AddsFacts, WantedKept DEF Adds
<1>2. ASSUME NEW p \in Wanted(tok)
      PROVE  NodeOrReason(tok, p)'
  <2>1. NodeOrReason(tok, p)
    BY <1>2 DEF Answered
  <2>2. QED
    BY <2>1, AddsFacts, ReasonKept DEF Adds
<1>3. QED
  BY <1>1, <1>2 DEF Answered

LEMMA LimitKept ==
  ASSUME RecordsOK, WarningsOK, OmissionsOK, NEW items, Adds(items), NEW item, LimitReached(item)
  PROVE  LimitReached(item)'
<1>1. PlacesOK
  BY DEF OmissionsOK
<1>2. ASSUME item.issue \in {"MaxNodesExceeded", "MaxParseDepthExceeded"}
      PROVE  item.pos \notin NodeStarts' /\ \E k \in DOMAIN input' : item.pos \in Wanted(input[k])'
  <2>1. PICK k \in 1..Len(input) : item.pos \in Wanted(input[k])
    BY <1>1, <1>2, AddsFacts DEF LimitReached
  <2>2. PICK tok : tok = input[k]
    OBVIOUS
  <2>3. /\ tok \in TokenRecord /\ tok.pos < Position /\ Answered(tok) /\ k \in DOMAIN input'
        /\ tok.type \in Greedy => PayloadStart(tok) < Position
        /\ input'[k] = tok
    BY <1>1, <2>2, AddsFacts DEF OmissionsOK, PlacesOK, Adds
  <2>4. Wanted(tok)' = Wanted(tok)
    BY <1>1, <2>3, TokenKept
  <2>5. item.pos \in Wanted(input[k])'
    BY <2>1, <2>2, <2>3, <2>4
  <2>6. item.pos < Position /\ item.pos \in Nat /\ Position \in Nat
    <3>1. tok.pos \in Nat /\ PayloadStart(tok) \in Nat
      BY <2>3 DEF TokenRecord, PayloadStart
    <3>2. item.pos \in Wanted(tok)
      BY <2>1, <2>2
    <3>3. QED
      BY <2>3, <3>1, <3>2, WantedPlaces DEF Adds
  <2>7. item.pos \notin NodeStarts
    BY <1>2 DEF LimitReached
  <2>8. item.pos \notin NodeStarts'
    <3>1. item.pos \in NodeStarts' => item.pos \in NodeStarts \/ Position <= item.pos
      BY <1>1, AddsFacts
    <3>2. QED
      BY <2>6, <2>7, <3>1
  <2>9. QED
    BY <2>3, <2>5, <2>8
<1>3. ASSUME item.issue = "MaxNodesExceeded"
      PROVE  Len(nodes') = setting'.maxNodes
  BY <1>3 DEF LimitReached, Adds
<1>4. ASSUME item.issue = "MaxParseDepthExceeded"
      PROVE  Deepest' = setting'.maxParseDepth
  BY <1>4 DEF LimitReached, Adds
<1>5. QED
  BY <1>2, <1>3, <1>4 DEF LimitReached

(* What there was is still as it should be. *)
LEMMA OldKept ==
  ASSUME RecordsOK, WarningsOK, OmissionsOK, NEW items, Adds(items)
  PROVE  /\ \A k \in 1..Len(input) :
              /\ Answered(input[k])' /\ input'[k].pos < Position'
              /\ input'[k].type \in Greedy => PayloadStart(input[k])' < Position'
         /\ \A j \in 2..Len(nodes') : nodes'[j].start < Position'
         /\ \A i \in 1..Len(raised') :
              /\ raised'[i].pos <= Position'
              /\ raised'[i].issue = "OpenCloseTagMismatch" => raised'[i].pos < Position'
         /\ \A i \in 1..Len(raised) : LimitReached(raised[i])'
<1>1. PlacesOK /\ Position \in Nat /\ Position' \in Nat /\ Position <= Position'
  BY DEF OmissionsOK, Adds
<1>2. ASSUME NEW k \in 1..Len(input)
      PROVE  /\ Answered(input[k])' /\ input'[k].pos < Position'
             /\ input'[k].type \in Greedy => PayloadStart(input[k])' < Position'
  <2>1. PICK tok : tok = input[k]
    OBVIOUS
  <2>2. /\ tok \in TokenRecord /\ tok.pos < Position /\ Answered(tok) /\ input'[k] = tok
        /\ tok.type \in Greedy => PayloadStart(tok) < Position
    BY <1>1, <2>1, AddsFacts DEF OmissionsOK, PlacesOK, Adds
  <2>3. Answered(tok)'
    BY <1>1, <2>2, TokenKept
  <2>4. tok.pos \in Nat /\ PayloadStart(tok) \in Nat /\ PayloadStart(tok)' = PayloadStart(tok)
    BY <2>2 DEF TokenRecord, PayloadStart
  <2>5. tok.pos < Position' /\ (tok.type \in Greedy => PayloadStart(tok)' < Position')
    BY <1>1, <2>2, <2>4
  <2>6. QED
    BY <2>1, <2>2, <2>3, <2>5
<1>3. \A j \in 2..Len(nodes') : nodes'[j].start < Position'
  <2>1. nodes \in Seq(NodeRecord) /\ Len(nodes) # 0
    BY EmptySeq DEF RecordsOK
  <2>2. QED
    BY <1>1, <2>1, StartsMore DEF Adds, PlacesOK
<1>4. ASSUME NEW i \in 1..Len(raised')
      PROVE  /\ raised'[i].pos <= Position'
             /\ raised'[i].issue = "OpenCloseTagMismatch" => raised'[i].pos < Position'
  <2>1. CASE i \in 1..Len(raised) /\ raised'[i] = raised[i]
    <3>1. /\ raised[i].pos <= Position /\ raised[i].pos \in Nat
          /\ raised[i].issue = "OpenCloseTagMismatch" => raised[i].pos < Position
      <4>1. /\ raised[i].pos <= Position
            /\ raised[i].issue = "OpenCloseTagMismatch" => raised[i].pos < Position
        BY <1>1, <2>1 DEF PlacesOK
      <4>2. raised[i] \in Report
        BY <2>1, ElementOfSeq DEF WarningsOK
      <4>3. QED
        BY <4>1, <4>2 DEF Report
    <3>2. QED
      BY <1>1, <2>1, <3>1
  <2>2. CASE \E j \in 1..Len(items) : raised'[i] = items[j]
    BY <2>2 DEF Adds, Reports
  <2>3. QED
    BY <1>1, <2>1, <2>2, AddsFacts, RaisedMore
<1>5. ASSUME NEW i \in 1..Len(raised)
      PROVE  LimitReached(raised[i])'
  <2>1. PICK item : item = raised[i]
    OBVIOUS
  <2>2. LimitReached(item)
    BY <2>1 DEF OmissionsOK
  <2>3. LimitReached(item)'
    BY <2>2, LimitKept
  <2>4. raised'[i] = item
    BY <1>1, <2>1, AddsFacts, RaisedMore
  <2>5. QED
    BY <2>3, <2>4
<1>6. QED
  BY <1>2, <1>3, <1>4, <1>5

(* Nothing is read: what is open is closed. *)
LEMMA NothingRead ==
  ASSUME RecordsOK, WarningsOK, OmissionsOK, NEW items, Adds(items), input' = input,
         \A j \in 1..Len(items) : items[j].issue \notin AboutToken,
         OpenNodes', SkipsExplained'
  PROVE  OmissionsOK'
<1>1. PlacesOK /\ Len(input') = Len(input)
  BY DEF OmissionsOK
<1>2. PlacesOK'
  BY <1>1, OldKept DEF PlacesOK
<1>3. \A k \in 1..Len(input') : Answered(input[k])'
  BY <1>1, OldKept
<1>4. ASSUME NEW i \in 1..Len(raised')
      PROVE  LimitReached(raised[i])'
  <2>1. CASE i \in 1..Len(raised)
    BY <2>1, OldKept
  <2>2. CASE \E j \in 1..Len(items) : raised'[i] = items[j]
    BY <2>2 DEF LimitReached, AboutToken
  <2>3. QED
    BY <1>1, <2>1, <2>2, AddsFacts, RaisedMore
<1>5. QED
  BY <1>2, <1>3, <1>4 DEF OmissionsOK

(* The token that is read gets the nodes it wants, or there is a reason. *)
Limiting(items, tok) ==
  \A j \in 1..Len(items) :
    /\ items[j].issue \in {"MaxNodesExceeded", "MaxParseDepthExceeded"} =>
         items[j].pos \in Wanted(tok)' /\ items[j].pos \notin NodeStarts'
    /\ items[j].issue = "MaxNodesExceeded" => Len(nodes') = setting.maxNodes
    /\ items[j].issue = "MaxParseDepthExceeded" => Deepest' = setting.maxParseDepth

LEMMA TokenRead ==
  ASSUME RecordsOK, WarningsOK, OmissionsOK, NEW items, Adds(items), NEW tok, Reads(tok),
         tok.type \in Greedy => PayloadStart(tok) < Position',
         Answered(tok)', Limiting(items, tok), OpenNodes', SkipsExplained'
  PROVE  OmissionsOK'
<1>1. /\ PlacesOK /\ input \in Seq(TokenRecord) /\ tok \in TokenRecord /\ tok.pos = Position
      /\ tok.width \in Nat \ {0} /\ Position' = Position + tok.width /\ Position \in Nat
      /\ input' = Append(input, tok)
  BY ReadFacts DEF OmissionsOK, RecordsOK, Reads, TokenRecord
<1>2. /\ Len(input') = Len(input) + 1 /\ input'[Len(input) + 1] = tok /\ Len(input) \in Nat
      /\ DOMAIN input' = 1..Len(input')
  BY <1>1, AppendProperties, AddsFacts
<1>3. tok.pos < Position'
  BY <1>1
<1>4. \A k \in 1..Len(input') : k \in 1..Len(input) \/ k = Len(input) + 1
  BY <1>2
<1>5. ASSUME NEW k \in 1..Len(input')
      PROVE  /\ Answered(input[k])' /\ input'[k].pos < Position'
             /\ input'[k].type \in Greedy => PayloadStart(input[k])' < Position'
  <2>1. CASE k \in 1..Len(input)
    BY <2>1, OldKept
  <2>2. CASE k = Len(input) + 1
    <3>1. input'[k] = tok
      BY <1>2, <2>2
    <3>2. PayloadStart(input[k])' = PayloadStart(tok)
      BY <3>1 DEF PayloadStart
    <3>3. QED
      BY <1>3, <3>1, <3>2
  <2>3. QED
    BY <1>4, <2>1, <2>2
<1>6. PlacesOK'
  BY <1>5, OldKept DEF PlacesOK
<1>7. ASSUME NEW i \in 1..Len(raised')
      PROVE  LimitReached(raised[i])'
  <2>1. CASE i \in 1..Len(raised)
    BY <2>1, OldKept
  <2>2. CASE \E j \in 1..Len(items) : raised'[i] = items[j]
    <3>1. PICK j \in 1..Len(items) : raised'[i] = items[j]
      BY <2>2
    <3>2. Len(input) + 1 \in DOMAIN input' /\ setting' = setting
      BY <1>2 DEF Adds
    <3>3. items[j].pos \in Wanted(tok)' => \E k \in DOMAIN input' : items[j].pos \in Wanted(input[k])'
      <4>1. PICK k \in DOMAIN input' : input'[k] = tok
        BY <1>2, <3>2
      <4>2. QED
        BY <4>1
    <3>4. QED
      BY <3>1, <3>2, <3>3 DEF LimitReached, Limiting
  <2>3. QED
    BY <1>1, <2>1, <2>2, AddsFacts, RaisedMore
<1>8. QED
  BY <1>5, <1>6, <1>7 DEF OmissionsOK

-----------------------------------------------------------------------------
(* What the steps add *)

LEMMA ReportsFrom ==
  ASSUME NEW S \in SUBSET Report, NEW items \in Seq(S), NEW low, NEW high,
         \A x \in S : /\ x.pos <= high /\ (x.issue \in AboutToken => low <= x.pos)
                      /\ x.issue = "OpenCloseTagMismatch" => x.pos < high
  PROVE  /\ Reports(items, low, high)
         /\ \A j \in 1..Len(items) : items[j] \in S
<1>1. \A j \in 1..Len(items) : items[j] \in S
  BY ElementOfSeq
<1>2. items \in Seq(Report)
  BY <1>1, LenProperties, SeqDef
<1>3. QED
  BY <1>1, <1>2 DEF Reports

LEMMA NothingRaised ==
  ASSUME WarningsOK, raised' = raised
  PROVE  \E items \in Seq({}) : raised' = raised \o items
<1>1. raised = raised \o <<>> /\ <<>> \in Seq({})
  BY ConcatEmptySeq, EmptySeq DEF WarningsOK
<1>2. QED
  BY <1>1

LEMMA OneRaised ==
  ASSUME WarningsOK, NEW w \in Report, Warn(<<w>>)
  PROVE  /\ \E items \in Seq({w}) : raised' = raised \o items
         /\ WarnedAt(w.issue, w.pos)'
<1>1. /\ raised \in Seq(Report) /\ <<w>> \in Seq(Report) /\ <<w>> \in Seq({w})
      /\ Len(<<w>>) = 1 /\ <<w>>[1] = w
  BY DEF WarningsOK
<1>2. raised' = raised \o <<w>>
  BY DEF Warn
<1> DEFINE items == <<w>>
<1> HIDE DEF items
<1>3. items \in Seq(Report) /\ items \in Seq({w}) /\ 1 \in 1..Len(items) /\ items[1] = w
      /\ raised' = raised \o items
  BY <1>1, <1>2 DEF items
<1>4. \E i \in 1..Len(raised') : raised'[i] = w
  BY <1>1, <1>3, RaisedMore
<1>5. DOMAIN raised' = 1..Len(raised')
  BY <1>1, <1>3, RaisedMore
<1>6. QED
  BY <1>3, <1>4, <1>5 DEF WarnedAt

LimitAdds(S, earlier, issue, pos) ==
  \E items \in Seq(S \cup {Warning(issue, pos)}) :
    /\ raised' = raised \o items
    /\ \A j \in 1..Len(earlier) : j \in 1..Len(items) /\ items[j] = earlier[j]
    /\ issue \notin warnedLimits => \E j \in 1..Len(items) : items[j] = Warning(issue, pos)

LEMMA LimitRaised ==
  ASSUME WarningsOK, NEW S \in SUBSET Report, NEW earlier \in Seq(S), NEW issue \in LimitIssue,
         NEW pos \in Nat, WarnLimit(issue, pos, earlier)
  PROVE  /\ Warning(issue, pos) \in Report
         /\ LimitAdds(S, earlier, issue, pos)
<1>1. Warning(issue, pos) \in Report
  BY NewReport DEF LimitIssue, Issue
<1> DEFINE w == Warning(issue, pos)
           items == IF issue \in warnedLimits THEN earlier ELSE Append(earlier, w)
<1>2. raised' = raised \o items
  BY DEF WarnLimit, Warn
<1> HIDE DEF w
<1>3. earlier \in Seq(S \cup {w}) /\ Len(earlier) \in Nat
  <2>1. \A j \in 1..Len(earlier) : earlier[j] \in S
    BY ElementOfSeq
  <2>2. QED
    BY <2>1, LenProperties, SeqDef
<1>4. /\ Append(earlier, w) \in Seq(S \cup {w}) /\ Len(Append(earlier, w)) = Len(earlier) + 1
      /\ Append(earlier, w)[Len(earlier) + 1] = w
      /\ \A j \in 1..Len(earlier) : Append(earlier, w)[j] = earlier[j]
  BY <1>3, AppendProperties
<1>5. /\ items \in Seq(S \cup {w})
      /\ \A j \in 1..Len(earlier) : j \in 1..Len(items) /\ items[j] = earlier[j]
      /\ issue \notin warnedLimits => Len(earlier) + 1 \in 1..Len(items) /\ items[Len(earlier) + 1] = w
  BY <1>3, <1>4
<1> HIDE DEF items
<1>6. QED
  BY <1>1, <1>2, <1>5 DEF w, LimitAdds

LEMMA PositionIsNat ==
  ASSUME RecordsOK
  PROVE  Position \in Nat
<1>1. input \in Seq(TokenRecord)
  BY DEF RecordsOK
<1>2. CASE input = <<>>
  BY <1>2 DEF Position
<1>3. CASE input # <<>>
  <2>1. Last(input) \in TokenRecord
    BY <1>1, <1>3, FrontFacts
  <2>2. QED
    BY <1>3, <2>1 DEF Position, TokenRecord
<1>4. QED
  BY <1>2, <1>3

(* A limit that bites has been warned of, now or before. *)
LEMMA LimitWarned ==
  ASSUME IInv, OmissionsOK, phase = "tokens", NEW S \in SUBSET Report, NEW earlier \in Seq(S),
         NEW issue \in LimitIssue, NEW pos \in Nat, Position <= pos,
         WarnLimit(issue, pos, earlier)
  PROVE  WarnedBy(issue, pos)'
<1>1. WarningsOK /\ raised \in Seq(Report) /\ PlacesOK
  BY DEF IInv, WarningsOK, OmissionsOK
<1>2. PICK items \in Seq(S \cup {Warning(issue, pos)}) :
        /\ raised' = raised \o items
        /\ issue \notin warnedLimits => \E j \in 1..Len(items) : items[j] = Warning(issue, pos)
  <2>1. LimitAdds(S, earlier, issue, pos)
    BY <1>1, LimitRaised
  <2>2. QED
    BY ONLY <2>1 DEF LimitAdds
<1>3. items \in Seq(Report)
  <2>1. S \cup {Warning(issue, pos)} \in SUBSET Report
    BY <1>1, LimitRaised
  <2>2. QED
    BY <1>2, <2>1, ElementOfSeq, LenProperties, SeqDef
<1>4. CASE issue \notin warnedLimits
  <2>1. PICK j \in 1..Len(items) : items[j] = Warning(issue, pos)
    BY <1>2, <1>4
  <2>2. items[j].issue = issue /\ items[j].pos <= pos
    BY <2>1 DEF Warning
  <2>3. QED
    BY <1>1, <1>2, <1>3, <2>2, WarnedMore
<1>5. CASE issue \in warnedLimits
  <2>1. Issues(issue) = 1
    BY <1>5 DEF IInv, LimitsReported, Running
  <2>2. \E i \in DOMAIN raised : raised[i].issue = issue
    <3> SUFFICES ASSUME ~\E i \in DOMAIN raised : raised[i].issue = issue PROVE FALSE
      OBVIOUS
    <3>1. {i \in DOMAIN raised : raised[i].issue = issue} = {}
      OBVIOUS
    <3>2. Issues(issue) = Cardinality({})
      BY <3>1 DEF Issues
    <3>3. QED
      BY <2>1, <3>2, FS_EmptySet
  <2>3. PICK i \in 1..Len(raised) : raised[i].issue = issue
    BY <1>1, <2>2, LenProperties
  <2>4. raised[i].pos <= Position /\ raised[i].pos \in Nat /\ Position \in Nat
    <3>1. raised[i] \in Report
      BY <1>1, <2>3, ElementOfSeq
    <3>2. Position \in Nat
      BY PositionIsNat DEF IInv
    <3>3. QED
      BY <1>1, <3>1, <3>2 DEF PlacesOK, Report
  <2>5. raised[i].pos <= pos
    BY <2>4
  <2>6. WarnedBy(issue, pos)
    BY <1>1, <2>3, <2>5, LenProperties DEF WarnedBy
  <2>7. QED
    BY <1>1, <1>2, <1>3, <2>6, WarnedMore
<1>6. QED
  BY <1>4, <1>5

LEMMA SameNodesAdded ==
  ASSUME RecordsOK, NEW low, NEW high, Len(nodes') = Len(nodes),
         \A i \in 1..Len(nodes) : nodes'[i].start = nodes[i].start /\ nodes'[i].tag = nodes[i].tag
  PROVE  NodesAdded(nodes', nodes, low, high)
<1>1. Len(nodes) \in Nat /\ \A i \in 1..Len(nodes) : nodes[i].start \in Nat
  BY ArenaFacts, NodeFields DEF NodeIds
<1>2. QED
  BY <1>1 DEF NodesAdded

LEMMA ReadAdds ==
  ASSUME IInv, NEW tok, Reads(tok), setting' = setting,
         NodesAdded(nodes', nodes, Position, Position'), NEW items,
         Reports(items, Position, Position'), raised' = raised \o items,
         Len(nodes) = setting.maxNodes => Len(nodes') = Len(nodes),
         Deepest = setting.maxParseDepth => Deepest' = Deepest
  PROVE  Adds(items)
<1>1. /\ RecordsOK /\ input \in Seq(TokenRecord) /\ tok \in TokenRecord /\ tok.width \in Nat
      /\ input' = Append(input, tok) /\ Len(input) \in Nat
  BY LenProperties DEF IInv, RecordsOK, Reads, TokenRecord
<1>2. /\ Position \in Nat /\ Position' = Position + tok.width /\ input' \in Seq(TokenRecord)
  BY <1>1, ReadFacts
<1>3. Len(input') = Len(input) + 1 /\ \A k \in 1..Len(input) : input'[k] = input[k]
  BY <1>1, AppendProperties
<1>4. Position' \in Nat /\ Position <= Position' /\ Len(input) <= Len(input')
  BY <1>1, <1>2, <1>3
<1>5. QED
  BY <1>2, <1>3, <1>4 DEF Adds

(* No token so far was warned of as a closer that matches nothing. *)
LEMMA NotMismatched ==
  ASSUME WarningsOK, PlacesOK, Position \in Nat, NEW S \in SUBSET Report, NEW items \in Seq(S),
         raised' = raised \o items, \A x \in S : x.issue # "OpenCloseTagMismatch",
         NEW pos, pos = Position
  PROVE  ~WarnedAt("OpenCloseTagMismatch", pos)'
<1>1. raised \in Seq(Report) /\ items \in Seq(Report)
      /\ \A j \in 1..Len(items) : items[j] \in S
  <2>1. \A j \in 1..Len(items) : items[j] \in S
    BY ElementOfSeq
  <2>2. QED
    BY <2>1, LenProperties, SeqDef DEF WarningsOK
<1>2. ~\E i \in 1..Len(raised) : raised[i].issue = "OpenCloseTagMismatch" /\ raised[i].pos = Position
  BY DEF PlacesOK
<1>3. ASSUME NEW i \in 1..Len(raised')
      PROVE  ~(raised'[i].issue = "OpenCloseTagMismatch" /\ raised'[i].pos = Position)
  <2>1. CASE i \in 1..Len(raised) /\ raised'[i] = raised[i]
    BY <1>2, <2>1
  <2>2. CASE \E j \in 1..Len(items) : raised'[i] = items[j]
    BY <1>1, <2>2
  <2>3. QED
    BY <1>1, <2>1, <2>2, RaisedMore
<1>4. DOMAIN raised' = 1..Len(raised')
  BY <1>1, RaisedMore
<1>5. QED
  BY <1>3, <1>4 DEF WarnedAt

(* A closer that is no mismatch, an attribute and the like want no node. *)
LEMMA WantsNothing ==
  ASSUME NEW tok, tok.type \notin Greedy, tok.type # "text", ~MayOpen(tok.type),
         ~WarnedAt("OpenCloseTagMismatch", tok.pos)'
  PROVE  Answered(tok)'
  BY DEF Answered, Wanted, MayOpen, IsOpening, IsUniversal

LEMMA KindsApart ==
  /\ "text" \notin Tag /\ "attribute" \notin Tag /\ NoTag \notin Tag /\ Greedy \subseteq Tag
  /\ \A t \in Closers : t \in Tag \ Greedy /\ ~MayOpen(t)
  /\ \A t \in Openers : t \in Tag \ Greedy /\ MayOpen(t) /\ CloseID[t] \in Skippable
<1>1. "text" \notin Tag /\ "attribute" \notin Tag /\ NoTag \notin Tag /\ Greedy \subseteq Tag
  BY ParserAssumption
<1>2. \A t \in Closers : t \in Tag \ Greedy /\ ~MayOpen(t)
  BY <1>1 DEF Closers, IsClosing, MayOpen, IsOpening, IsUniversal
<1>3. \A t \in Openers : t \in Tag \ Greedy /\ MayOpen(t) /\ CloseID[t] \in Skippable
  BY DEF Openers, MayOpen, Skippable
<1>4. QED
  BY <1>1, <1>2, <1>3

(* The stacks and skip counts stay, and nothing that was warned of is lost. *)
LEMMA SkipsStayExplained ==
  ASSUME WarningsOK, SkipsExplained, NEW items \in Seq(Report), raised' = raised \o items,
         \A t \in Tag : skip'[t] > 0 =>
           \/ skip[t] > 0
           \/ t \in Skippable /\ \E i \in 1..Len(raised') : raised'[i].issue \in LeavingOut
  PROVE  SkipsExplained'
<1>1. \A i \in 1..Len(raised) : i \in 1..Len(raised') /\ raised'[i] = raised[i]
  BY RaisedMore DEF WarningsOK
<1>2. QED
  BY <1>1 DEF SkipsExplained, Skippable

LEMMA OpenNodesStay ==
  ASSUME IInv, OpenNodes, NEW low, NEW high, NodesAdded(nodes', nodes, low, high),
         breadcrumbs' = breadcrumbs, stack' = stack
  PROVE  OpenNodes'
<1>1. ASSUME NEW k \in 1..Len(stack)
      PROVE  /\ breadcrumbs[k + 1] \in 2..Len(nodes')
             /\ nodes'[breadcrumbs[k + 1]].tag = stack[k]
  <2> DEFINE j == breadcrumbs[k + 1]
  <2>1. j \in 2..Len(nodes) /\ nodes[j].tag = stack[k]
    BY DEF OpenNodes
  <2> HIDE DEF j
  <2>2. /\ j \in 2..Len(nodes') /\ nodes'[j].tag = nodes[j].tag
    BY <2>1 DEF NodesAdded
  <2>3. QED
    BY <2>1, <2>2 DEF j
<1>2. QED
  BY <1>1 DEF OpenNodes

LEMMA GrownNodesAdded ==
  ASSUME RecordsOK, NEW low \in Nat, NEW high \in Nat, low < high, Grows(nodes', nodes, low, high),
         \A i \in (Len(nodes) + 1)..Len(nodes') : nodes'[i].start < high
  PROVE  NodesAdded(nodes', nodes, low, high)
<1>1. /\ Len(nodes) \in Nat /\ Len(nodes') \in Nat /\ Len(nodes) <= Len(nodes')
      /\ \A i \in 1..Len(nodes') : nodes'[i] \in NodeRecord
      /\ \A i \in 1..Len(nodes) : nodes'[i].start = nodes[i].start /\ nodes'[i].tag = nodes[i].tag
      /\ \A i \in (Len(nodes) + 1)..Len(nodes') : low <= nodes'[i].start
  BY LenProperties, ElementOfSeq DEF RecordsOK, Grows, SameNode
<1>2. \A i \in 1..Len(nodes') : nodes'[i].start \in Nat
  BY <1>1, NodeFields
<1>3. QED
  BY <1>1, <1>2 DEF NodesAdded

-----------------------------------------------------------------------------
(* What the actions leave out *)

(* addTextNode: a node, or the limit is warned of. *)
LEMMA AddTextOmissions ==
  ASSUME IInv, OmissionsOK, Parsing, NEW tok, Reads(tok), tok.type \notin Greedy, tok.pos \in Nat,
         NEW S \in SUBSET Report, NEW earlier \in Seq(S), AddText(tok, earlier),
         \A x \in S : x.issue = "OpenCloseTagMismatch" /\ x.pos = tok.pos,
         \A items : /\ items \in Seq(Report) /\ raised' = raised \o items
                    /\ \A j \in 1..Len(earlier) : j \in 1..Len(items) /\ items[j] = earlier[j]
                    => tok.pos \in Wanted(tok)'
  PROVE  OmissionsOK'
<1>1. /\ RecordsOK /\ WarningsOK /\ ArenasOK /\ OpenNodes /\ SkipsExplained /\ PlacesOK
      /\ setting' = setting /\ phase = "tokens" /\ Deepest' = Deepest
      /\ breadcrumbs' = breadcrumbs /\ stack' = stack /\ skip' = skip
  BY DEF IInv, OmissionsOK, Parsing, AddText, Deepest
<1>2. /\ Position \in Nat /\ tok.pos = Position /\ Position' = Position + tok.width
      /\ tok.width \in Nat \ {0} /\ Len(nodes) \in Nat \ {0}
  BY <1>1, ReadFacts, ArenaFacts DEF Reads, TokenRecord
<1>3. \A p \in Wanted(tok)' : p = tok.pos
  BY DEF Wanted
<1> DEFINE w == Warning("MaxNodesExceeded", tok.pos)
<1>4. w.issue = "MaxNodesExceeded" /\ w.pos = tok.pos
  BY DEF Warning
<1>5. CASE /\ RoomForNode
           /\ nodes' = Appended(nodes, Parent, Node("text", NoTag, tok.pos, tok.pos + tok.width))
           /\ Warn(earlier)
  <2>1. /\ Grows(nodes', nodes, Position, Position') /\ Len(nodes') = Len(nodes) + 1
        /\ nodes'[Len(nodes) + 1].start = tok.pos
    <3>1. nodes'[Len(nodes) + 1] = Node("text", NoTag, tok.pos, tok.pos + tok.width)
          /\ Grows(nodes', nodes, Position, Position') /\ Len(nodes') = Len(nodes) + 1
      BY <1>5, NodeOfToken
    <3>2. QED
      BY <3>1 DEF Node
  <2>2. NodesAdded(nodes', nodes, Position, Position')
    <3>1. \A i \in (Len(nodes) + 1)..Len(nodes') : i = Len(nodes) + 1
      BY <1>2, <2>1
    <3>2. Position' \in Nat /\ Position < Position'
      BY <1>2
    <3>3. QED
      BY <1>1, <1>2, <2>1, <3>1, <3>2, GrownNodesAdded
  <2>3. raised' = raised \o earlier
    BY <1>5 DEF Warn
  <2>4. /\ Reports(earlier, Position, Position')
        /\ \A j \in 1..Len(earlier) : earlier[j] \in S
    <3>1. \A x \in S : /\ x.pos <= Position' /\ (x.issue \in AboutToken => Position <= x.pos)
                       /\ x.issue = "OpenCloseTagMismatch" => x.pos < Position'
      BY <1>2
    <3>2. QED
      BY <3>1, ReportsFrom
  <2>5. Len(nodes) # setting.maxNodes
    BY <1>1, <1>2, <1>5, SettingFacts DEF RoomForNode
  <2>6. Adds(earlier)
    BY <1>1, <2>2, <2>3, <2>4, <2>5, ReadAdds
  <2>7. tok.pos \in NodeStarts'
    BY <1>1, <1>2, <2>1, <2>6, AddsFacts
  <2>8. Answered(tok)'
    BY <1>3, <2>7 DEF Answered, NodeOrReason
  <2>9. Limiting(earlier, tok)
    BY <2>4 DEF Limiting
  <2>10. OpenNodes' /\ SkipsExplained'
    BY <1>1, <2>2, <2>3, <2>4, OpenNodesStay, SkipsStayExplained DEF Reports
  <2>11. QED
    BY <1>1, <2>6, <2>8, <2>9, <2>10, TokenRead
<1>6. CASE /\ ~RoomForNode /\ nodes' = nodes
           /\ WarnLimit("MaxNodesExceeded", tok.pos, earlier)
  <2>1. "MaxNodesExceeded" \in LimitIssue
    BY DEF LimitIssue
  <2>2. w \in Report
    BY <1>1, <1>6, <2>1, LimitRaised
  <2>3. PICK items \in Seq(S \cup {w}) :
          /\ raised' = raised \o items
          /\ \A j \in 1..Len(earlier) : j \in 1..Len(items) /\ items[j] = earlier[j]
    <3>1. LimitAdds(S, earlier, "MaxNodesExceeded", tok.pos)
      BY <1>1, <1>6, <2>1, LimitRaised
    <3>2. QED
      BY <3>1 DEF LimitAdds
  <2>4. WarnedBy("MaxNodesExceeded", tok.pos)'
    BY <1>1, <1>2, <1>6, <2>1, LimitWarned
  <2>5. /\ Reports(items, Position, Position')
        /\ \A j \in 1..Len(items) : items[j] \in S \cup {w}
    <3>1. \A x \in S \cup {w} :
            /\ x.pos <= Position' /\ (x.issue \in AboutToken => Position <= x.pos)
            /\ x.issue = "OpenCloseTagMismatch" => x.pos < Position'
      BY <1>2, <1>4
    <3>2. S \cup {w} \in SUBSET Report
      BY <2>2
    <3> HIDE DEF w
    <3>3. QED
      BY <3>1, <3>2, ReportsFrom
  <2>6. NodesAdded(nodes', nodes, Position, Position')
    BY <1>1, <1>6, SameNodesAdded
  <2>7. Adds(items)
    BY <1>1, <1>6, <2>3, <2>5, <2>6, ReadAdds
  <2>8. tok.pos \in Wanted(tok)'
    BY <2>3, <2>5 DEF Reports
  <2>9. tok.pos \notin NodeStarts' /\ Len(nodes') = setting.maxNodes
    <3>1. NodeStarts' = NodeStarts
      BY <1>6 DEF NodeStarts, NodeIds
    <3>2. \A s \in NodeStarts : s < Position
      BY <1>1, <2>7, AddsFacts
    <3>3. QED
      BY <1>1, <1>2, <1>6, <3>1, <3>2, RoomFacts
  <2>10. Answered(tok)'
    BY <1>3, <2>4 DEF Answered, NodeOrReason
  <2>11. Limiting(items, tok)
    BY <1>4, <2>5, <2>8, <2>9 DEF Limiting
  <2>12. OpenNodes' /\ SkipsExplained'
    BY <1>1, <2>3, <2>5, <2>6, OpenNodesStay, SkipsStayExplained DEF Reports
  <2>13. QED
    BY <1>1, <2>7, <2>10, <2>11, <2>12, TokenRead
<1>7. QED
  BY <1>5, <1>6 DEF AddText

LEMMA TextOmissions == ASSUME IInv, OmissionsOK, ProcessText PROVE OmissionsOK'
<1>1. PICK tok \in Tokens({"text"}) :
        Parsing /\ input' = Append(input, tok) /\ AddText(tok, <<>>)
  BY DEF ProcessText
<1>2. Reads(tok) /\ RecordsOK
  BY <1>1, TextTokenFacts DEF IInv
<1>3. tok.type = "text" /\ tok.pos \in Nat
  <2>1. {"text"} \in SUBSET TokenType
    BY DEF TokenType
  <2>2. tok.type \in {"text"}
    BY <1>2, <2>1, TokenFacts
  <2>3. QED
    BY <1>2, <2>2 DEF Reads, TokenRecord
<1>4. tok.type \notin Greedy /\ tok.pos \in Wanted(tok)'
  BY <1>3, KindsApart DEF Wanted
<1>5. {} \in SUBSET Report /\ <<>> \in Seq({})
  BY EmptySeq
<1>6. QED
  BY <1>1, <1>2, <1>3, <1>4, <1>5, AddTextOmissions

LEMMA MismatchedOmissions == ASSUME IInv, OmissionsOK, MismatchedClosingTag PROVE OmissionsOK'
<1>1. PICK tok \in TagTokens(Closers) :
        /\ Parsing /\ input' = Append(input, tok)
        /\ AddText(tok, <<Warning("OpenCloseTagMismatch", tok.pos)>>)
  BY DEF MismatchedClosingTag
<1>2. Reads(tok) /\ tok.pos \in Nat /\ tok.type \in Closers /\ WarningsOK
  BY <1>1, OpenersFacts, PassedOn DEF IInv
<1>3. tok.type \in Tag \ Greedy
  BY <1>2, KindsApart
<1> DEFINE w == Warning("OpenCloseTagMismatch", tok.pos)
<1>4. w \in Report /\ w.issue = "OpenCloseTagMismatch" /\ w.pos = tok.pos
  BY <1>2, NewReport DEF Issue, Warning
<1> DEFINE earlier == <<w>>
<1>5. AddText(tok, earlier)
  BY <1>1
<1> HIDE DEF w
<1>6. earlier \in Seq({w}) /\ Len(earlier) = 1 /\ earlier[1] = w
  OBVIOUS
<1> HIDE DEF earlier
<1>7. ASSUME NEW items, items \in Seq(Report), raised' = raised \o items,
             \A j \in 1..Len(earlier) : j \in 1..Len(items) /\ items[j] = earlier[j]
      PROVE  tok.pos \in Wanted(tok)'
  <2>1. 1 \in 1..Len(items) /\ items[1] = w
    BY <1>6, <1>7
  <2>2. PICK i \in 1..Len(raised') : raised'[i] = w
    BY <1>2, <1>7, <2>1, RaisedMore DEF WarningsOK
  <2>3. DOMAIN raised' = 1..Len(raised')
    BY <1>2, <1>7, RaisedMore DEF WarningsOK
  <2>4. WarnedAt("OpenCloseTagMismatch", tok.pos)'
    BY <1>4, <2>2, <2>3 DEF WarnedAt
  <2>5. QED
    BY <1>3, <2>4 DEF Wanted
<1>8. {w} \in SUBSET Report /\ \A x \in {w} : x.issue = "OpenCloseTagMismatch" /\ x.pos = tok.pos
  BY <1>4
<1>9. QED
  BY <1>1, <1>2, <1>3, <1>5, <1>6, <1>7, <1>8, AddTextOmissions

(* A token that changes no place of a node. *)
LEMMA QuietOmissions ==
  ASSUME IInv, OmissionsOK, Parsing, NEW tok, Reads(tok), Len(nodes') = Len(nodes),
         \A i \in 1..Len(nodes) : nodes'[i].start = nodes[i].start /\ nodes'[i].tag = nodes[i].tag,
         maxDepth' = maxDepth, OpenNodes',
         NEW S \in SUBSET Report, NEW items \in Seq(S), raised' = raised \o items,
         \A x \in S : x.pos = tok.pos /\ x.issue # "OpenCloseTagMismatch"
                      /\ x.issue \notin {"MaxNodesExceeded", "MaxParseDepthExceeded"},
         tok.type \in Greedy => PayloadStart(tok) < Position',
         Answered(tok)',
         \A t \in Tag : skip'[t] > 0 =>
           \/ skip[t] > 0
           \/ t \in Skippable /\ \E i \in 1..Len(raised') : raised'[i].issue \in LeavingOut
  PROVE  OmissionsOK'
<1>1. /\ RecordsOK /\ WarningsOK /\ SkipsExplained
      /\ setting' = setting /\ phase = "tokens" /\ Deepest' = Deepest
  BY DEF IInv, OmissionsOK, Parsing, Deepest
<1>2. /\ Position \in Nat /\ tok.pos = Position /\ Position' = Position + tok.width
      /\ tok.width \in Nat \ {0}
  BY <1>1, ReadFacts DEF Reads, TokenRecord
<1>3. NodesAdded(nodes', nodes, Position, Position')
  BY <1>1, SameNodesAdded
<1>4. /\ Reports(items, Position, Position')
      /\ \A j \in 1..Len(items) : items[j] \in S
  <2>1. \A x \in S : /\ x.pos <= Position' /\ (x.issue \in AboutToken => Position <= x.pos)
                     /\ x.issue = "OpenCloseTagMismatch" => x.pos < Position'
    BY <1>2
  <2>2. QED
    BY <2>1, ReportsFrom
<1>5. Adds(items)
  BY <1>1, <1>3, <1>4, ReadAdds
<1>6. Limiting(items, tok)
  BY <1>4 DEF Limiting
<1>7. SkipsExplained'
  BY <1>1, <1>4, SkipsStayExplained DEF Reports
<1>8. QED
  BY <1>1, <1>5, <1>6, <1>7, TokenRead

LEMMA AttributeOmissions == ASSUME IInv, OmissionsOK, ProcessAttribute PROVE OmissionsOK'
<1>1. PICK tok \in Tokens({"attribute"}) :
        /\ Parsing /\ input' = Append(input, tok)
        /\ \/ nodes' = AttributeRange(nodes, lastNode, Len(attributes) + 1) /\ NoWarning
           \/ WarnLimit("MaxAttributesExceeded", tok.pos, <<>>) /\ nodes' = nodes
        /\ breadcrumbs' = breadcrumbs /\ stack' = stack /\ maxDepth' = maxDepth /\ skip' = skip
  BY DEF ProcessAttribute, places
<1>2. {"attribute"} \in SUBSET TokenType /\ RecordsOK /\ WarningsOK /\ LinksOK /\ OpenNodes /\ PlacesOK
  BY DEF TokenType, IInv, OmissionsOK
<1>3. /\ Reads(tok) /\ tok.type = "attribute" /\ tok.pos = Position /\ Position \in Nat
      /\ tok.pos \in Nat
  <2>1. /\ Position \in Nat /\ tok \in TokenRecord /\ tok.pos = Position
        /\ tok.type \in {"attribute"}
    BY <1>2, TokenFacts
  <2>2. QED
    BY <1>1, <2>1 DEF Reads
<1>4. /\ Len(nodes') = Len(nodes)
      /\ \A i \in 1..Len(nodes) : nodes'[i].start = nodes[i].start /\ nodes'[i].tag = nodes[i].tag
  <2>1. /\ nodes \in Seq(NodeRecord) /\ lastNode \in 1..Len(nodes) /\ Len(attributes) + 1 \in Nat
        /\ Linked(nodes, Len(nodes))
    BY <1>2, ArenaFacts, ArenaLinked DEF RecordsOK, LinksOK, NodeIds
  <2>2. QED
    BY <1>1, <2>1, AttributeRangeFacts
<1>5. OpenNodes'
  BY <1>1, <1>2, <1>4, SameNodesAdded, OpenNodesStay
<1> DEFINE w == Warning("MaxAttributesExceeded", tok.pos)
<1>6. w \in Report /\ w.issue = "MaxAttributesExceeded" /\ w.pos = tok.pos
  BY <1>3, NewReport DEF Issue, Warning
<1>7. PICK items \in Seq({w}) : raised' = raised \o items
  <2>1. CASE NoWarning
    <3>1. PICK items \in Seq({}) : raised' = raised \o items
      BY <1>2, <2>1, NothingRaised DEF NoWarning
    <3>2. items \in Seq({w})
      BY LenProperties, ElementOfSeq, SeqDef
    <3>3. QED
      BY <3>1, <3>2
  <2>2. CASE WarnLimit("MaxAttributesExceeded", tok.pos, <<>>)
    <3>1. "MaxAttributesExceeded" \in LimitIssue /\ {} \in SUBSET Report /\ <<>> \in Seq({})
      BY EmptySeq DEF LimitIssue
    <3>2. LimitAdds({}, <<>>, "MaxAttributesExceeded", tok.pos)
      BY <1>2, <1>3, <2>2, <3>1, LimitRaised
    <3>3. {} \cup {w} = {w}
      OBVIOUS
    <3>4. QED
      BY <3>2, <3>3 DEF LimitAdds
  <2>3. QED
    BY <1>1, <2>1, <2>2
<1> HIDE DEF w
<1>8. tok.type \notin Greedy /\ tok.type # "text" /\ ~MayOpen(tok.type) /\ {w} \in SUBSET Report
  BY <1>3, <1>6, KindsApart DEF MayOpen
<1>9. ~WarnedAt("OpenCloseTagMismatch", tok.pos)'
  <2>1. \A x \in {w} : x.issue # "OpenCloseTagMismatch"
    BY <1>6
  <2>2. QED
    BY <1>2, <1>3, <1>7, <1>8, <2>1, NotMismatched
<1>10. Answered(tok)'
  BY <1>8, <1>9, WantsNothing
<1>11. QED
  BY <1>1, <1>3, <1>4, <1>5, <1>6, <1>7, <1>8, <1>10, QuietOmissions

(* The token of an opener whose closer will be skipped, and of that closer. *)
LEMMA SkippedOmissions == ASSUME IInv, OmissionsOK, ProcessSkipped PROVE OmissionsOK'
<1> DEFINE skipped == {t \in Tag : skip[t] > 0}
<1>1. PICK tok \in Tokens(skipped) :
        /\ Parsing /\ input' = Append(input, tok)
        /\ skip' = [skip EXCEPT ![tok.type] = @ - 1]
        /\ Discard /\ raised' = raised
  BY DEF ProcessSkipped
<1>2. /\ RecordsOK /\ WarningsOK /\ OpenNodes /\ PlacesOK /\ SkipsExplained
      /\ skip \in [Tag -> Nat] /\ skipped \in SUBSET Tag
  BY DEF IInv, OmissionsOK, RecordsOK
<1>3. /\ nodes' = nodes /\ breadcrumbs' = breadcrumbs /\ stack' = stack /\ maxDepth' = maxDepth
  BY <1>1 DEF Discard, ast, places
<1>4. /\ Reads(tok) /\ tok.type \in skipped /\ tok.type \in Tag /\ skip[tok.type] > 0
      /\ tok.pos = Position /\ Position \in Nat /\ tok.width \in Width[tok.type]
      /\ tok.width \in Nat \ {0} /\ Position' = Position + tok.width
  <2>1. Reads(tok) /\ tok.type \in skipped /\ tok.width \in Nat \ {0} /\ tok.width \in Width[tok.type]
    BY <1>1, <1>2, TagTokenFacts
  <2>2. QED
    BY <1>2, <2>1, ReadFacts DEF Reads
<1> HIDE DEF skipped
<1>5. PICK i \in 1..Len(raised) : tok.type \in Skippable /\ raised[i].issue \in LeavingOut
  BY <1>2, <1>4 DEF SkipsExplained
<1>6. WarnedBy(raised[i].issue, tok.pos)'
  <2>1. raised[i].pos <= tok.pos /\ i \in DOMAIN raised
    BY <1>2, <1>4, <1>5, LenProperties DEF PlacesOK, WarningsOK
  <2>2. PICK issue : issue = raised[i].issue
    OBVIOUS
  <2>3. WarnedBy(issue, tok.pos)'
    BY <1>1, <2>1, <2>2 DEF WarnedBy
  <2>4. QED
    BY <1>1, <2>2, <2>3
<1>7. Answered(tok)'
  <2>1. PICK issue \in LeavingOut : issue = raised[i].issue
    BY <1>5
  <2>2. WarnedBy(issue, tok.pos)'
    BY <1>1, <1>6, <2>1
  <2>3. NeedsNoNode(tok)'
    BY <1>5, <2>1, <2>2 DEF NeedsNoNode, LeavingOut, Skippable
  <2>4. QED
    BY <2>3 DEF Answered, NodeOrReason
<1>8. PICK items \in Seq({}) : raised' = raised \o items
  BY <1>1, <1>2, NothingRaised
<1>9. tok.type \in Greedy => PayloadStart(tok) < Position'
  <2>1. tok.type \in Greedy => tok.width >= 2
    BY <1>4, ParserAssumption
  <2>2. QED
    BY <1>4, <2>1 DEF PayloadStart
<1>10. OpenNodes'
  BY <1>2, <1>3, SameNodesAdded, OpenNodesStay
<1>11. \A t \in Tag : skip'[t] > 0 => skip[t] > 0
  BY <1>1, <1>2, <1>4
<1>12. {} \in SUBSET Report /\ \A x \in {} : FALSE
  OBVIOUS
<1>13. /\ Len(nodes') = Len(nodes)
       /\ \A j \in 1..Len(nodes) : nodes'[j].start = nodes[j].start /\ nodes'[j].tag = nodes[j].tag
  BY <1>3
<1>14. QED
  BY <1>1, <1>3, <1>4, <1>7, <1>8, <1>9, <1>10, <1>11, <1>12, <1>13, QuietOmissions

(* Openers that are left out; their closers will be skipped. *)
LEMMA SkippedLater ==
  ASSUME IInv, NEW t \in Openers, SkipCloser(t), NEW i \in 1..Len(raised'),
         raised'[i].issue \in LeavingOut
  PROVE  \A u \in Tag : skip'[u] > 0 =>
           \/ skip[u] > 0
           \/ u \in Skippable /\ \E k \in 1..Len(raised') : raised'[k].issue \in LeavingOut
<1>1. skip \in [Tag -> Nat] /\ CloseID[t] \in Tag /\ CloseID[t] \in Skippable
  BY OpenersFacts, KindsApart DEF IInv, RecordsOK
<1>2. \A u \in Tag : u # CloseID[t] => skip'[u] = skip[u]
  BY <1>1 DEF SkipCloser
<1>3. QED
  BY <1>1, <1>2

LEMMA DuplicateOmissions == ASSUME IInv, OmissionsOK, DuplicateNestedTag PROVE OmissionsOK'
<1> DEFINE w(tok) == Warning("DuplicateNestedTag", tok.pos)
<1>1. PICK tok \in TagTokens(Openers) :
        /\ Parsing /\ input' = Append(input, tok) /\ Warn(<<w(tok)>>)
        /\ SkipCloser(tok.type) /\ Discard
  BY DEF DuplicateNestedTag
<1>2. Reads(tok) /\ tok.pos \in Nat /\ tok.type \in Openers /\ WarningsOK /\ RecordsOK /\ OpenNodes
  BY <1>1, OpenersFacts, PassedOn DEF IInv, OmissionsOK
<1>3. w(tok) \in Report /\ w(tok).issue = "DuplicateNestedTag" /\ w(tok).pos = tok.pos
  BY <1>2, NewReport DEF Issue, Warning
<1>4. /\ nodes' = nodes /\ breadcrumbs' = breadcrumbs /\ stack' = stack /\ maxDepth' = maxDepth
  BY <1>1 DEF Discard, ast, places
<1>5. PICK v : v = w(tok)
  OBVIOUS
<1> HIDE DEF w
<1>6. (\E items \in Seq({v}) : raised' = raised \o items) /\ WarnedAt(v.issue, v.pos)'
  BY <1>1, <1>2, <1>3, <1>5, OneRaised
<1>7. PICK items \in Seq({v}) : raised' = raised \o items
  BY <1>6
<1>8. WarnedAt("DuplicateNestedTag", tok.pos)'
  BY <1>3, <1>5, <1>6
<1>9. \E i \in 1..Len(raised') : raised'[i].issue \in LeavingOut
  <2>1. DOMAIN raised' = 1..Len(raised')
    <3>1. items \in Seq(Report)
      BY <1>3, <1>5, <1>7, LenProperties, ElementOfSeq, SeqDef
    <3>2. QED
      BY <1>2, <1>7, <3>1, RaisedMore DEF WarningsOK
  <2>2. QED
    BY <1>8, <2>1 DEF WarnedAt, LeavingOut
<1>10. Answered(tok)'
  BY <1>2, <1>8, KindsApart DEF Answered, NodeOrReason, NeedsNoNode, MayOpen, IsOpening, IsUniversal
<1>11. OpenNodes'
  BY <1>2, <1>4, SameNodesAdded, OpenNodesStay
<1>12. \A u \in Tag : skip'[u] > 0 =>
         \/ skip[u] > 0
         \/ u \in Skippable /\ \E k \in 1..Len(raised') : raised'[k].issue \in LeavingOut
  BY <1>1, <1>2, <1>9, SkippedLater
<1>13. /\ tok.type \notin Greedy /\ {v} \in SUBSET Report
       /\ \A x \in {v} : x.pos = tok.pos /\ x.issue = "DuplicateNestedTag"
       /\ Len(nodes') = Len(nodes)
       /\ \A j \in 1..Len(nodes) : nodes'[j].start = nodes[j].start /\ nodes'[j].tag = nodes[j].tag
  BY <1>2, <1>3, <1>4, <1>5, KindsApart
<1>14. QED
  BY <1>1, <1>2, <1>4, <1>7, <1>10, <1>11, <1>12, <1>13, QuietOmissions

LEMMA MisplacedOmissions == ASSUME IInv, OmissionsOK, MisplacedClosingTag PROVE OmissionsOK'
<1> DEFINE w(tok) == Warning("MisplacedClosingTag", tok.pos)
<1>1. PICK tok \in TagTokens(Closers) :
        /\ Parsing /\ input' = Append(input, tok) /\ Warn(<<w(tok)>>)
        /\ Discard /\ skip' = skip
  BY DEF MisplacedClosingTag
<1>2. Reads(tok) /\ tok.pos \in Nat /\ tok.type \in Closers /\ WarningsOK /\ RecordsOK
      /\ OpenNodes /\ PlacesOK
  BY <1>1, OpenersFacts, PassedOn DEF IInv, OmissionsOK
<1>3. w(tok) \in Report /\ w(tok).issue = "MisplacedClosingTag" /\ w(tok).pos = tok.pos
  BY <1>2, NewReport DEF Issue, Warning
<1>4. /\ nodes' = nodes /\ breadcrumbs' = breadcrumbs /\ stack' = stack /\ maxDepth' = maxDepth
  BY <1>1 DEF Discard, ast, places
<1>5. PICK v : v = w(tok)
  OBVIOUS
<1> HIDE DEF w
<1>6. PICK items \in Seq({v}) : raised' = raised \o items
  BY <1>1, <1>2, <1>3, <1>5, OneRaised
<1>7. /\ tok.type \notin Greedy /\ {v} \in SUBSET Report /\ tok.type # "text" /\ ~MayOpen(tok.type)
      /\ \A x \in {v} : x.pos = tok.pos /\ x.issue = "MisplacedClosingTag"
      /\ Len(nodes') = Len(nodes)
      /\ \A j \in 1..Len(nodes) : nodes'[j].start = nodes[j].start /\ nodes'[j].tag = nodes[j].tag
  BY <1>2, <1>3, <1>4, <1>5, KindsApart
<1>8. ~WarnedAt("OpenCloseTagMismatch", tok.pos)'
  <2>1. Position \in Nat /\ tok.pos = Position
    BY <1>2, PositionIsNat DEF Reads
  <2>2. \A x \in {v} : x.issue # "OpenCloseTagMismatch"
    BY <1>7
  <2>3. QED
    BY <1>2, <1>6, <1>7, <2>1, <2>2, NotMismatched
<1>9. Answered(tok)'
  BY <1>7, <1>8, WantsNothing
<1>10. OpenNodes'
  BY <1>2, <1>4, SameNodesAdded, OpenNodesStay
<1>11. QED
  BY <1>1, <1>2, <1>4, <1>6, <1>7, <1>9, <1>10, QuietOmissions

(* A token for which a limit is warned of. *)
LEMMA LimitedRead ==
  ASSUME IInv, OmissionsOK, Parsing, NEW tok, Reads(tok), NEW issue \in LimitIssue, NEW pos \in Nat,
         issue \in LeavingOut, Position <= pos, pos < Position', WarnLimit(issue, pos, <<>>),
         NodesAdded(nodes', nodes, Position, Position'),
         Len(nodes) = setting.maxNodes => Len(nodes') = Len(nodes),
         breadcrumbs' = breadcrumbs, stack' = stack, maxDepth' = maxDepth,
         tok.type \in Greedy => PayloadStart(tok) < Position',
         pos \in Wanted(tok)', pos \notin NodeStarts',
         issue = "MaxNodesExceeded" => Len(nodes') = setting.maxNodes,
         issue = "MaxParseDepthExceeded" => maxDepth = setting.maxParseDepth /\ MayOpen(tok.type),
         \A p \in Wanted(tok)' : p \in NodeStarts' \/ (p \in Nat /\ pos <= p),
         \A t \in Tag : skip'[t] > 0 => skip[t] > 0 \/ t \in Skippable
  PROVE  OmissionsOK'
<1>1. /\ WarningsOK /\ RecordsOK /\ OpenNodes /\ SkipsExplained /\ setting' = setting
      /\ phase = "tokens" /\ Deepest' = Deepest /\ Deepest = maxDepth
  BY DEF IInv, OmissionsOK, Parsing, Deepest
<1>2. {} \in SUBSET Report /\ <<>> \in Seq({})
  BY EmptySeq
<1>3. WarnedBy(issue, pos)'
  BY <1>1, <1>2, LimitWarned
<1>4. /\ Warning(issue, pos) \in Report /\ LimitAdds({}, <<>>, issue, pos)
  BY <1>1, <1>2, LimitRaised
<1>5. PICK w \in Report : w = Warning(issue, pos)
  BY <1>4
<1>6. w.issue = issue /\ w.pos = pos /\ {w} \in SUBSET Report
  BY <1>5 DEF Warning
<1>7. PICK items \in Seq({w}) : raised' = raised \o items
  <2>1. {} \cup {Warning(issue, pos)} = {w}
    BY <1>5
  <2>2. QED
    BY <1>4, <2>1 DEF LimitAdds
<1>8. /\ Reports(items, Position, Position')
      /\ \A j \in 1..Len(items) : items[j] \in {w}
  <2>1. \A x \in {w} : /\ x.pos <= Position' /\ (x.issue \in AboutToken => Position <= x.pos)
                       /\ x.issue = "OpenCloseTagMismatch" => x.pos < Position'
    <3>1. Position \in Nat /\ Position' \in Nat
      BY <1>1, ReadFacts DEF Reads, TokenRecord
    <3>2. QED
      BY <1>6, <3>1
  <2>2. QED
    BY <1>6, <2>1, ReportsFrom
<1>9. Adds(items)
  BY <1>1, <1>7, <1>8, ReadAdds
<1>10. Limiting(items, tok)
  BY <1>1, <1>6, <1>8 DEF Limiting, LimitIssue
<1>11. raised \in Seq(Report) /\ items \in Seq(Report) /\ raised' \in Seq(Report)
       /\ DOMAIN raised' = 1..Len(raised')
  <2>1. raised \in Seq(Report) /\ items \in Seq(Report)
    BY <1>1, <1>8 DEF WarningsOK, Reports
  <2>2. QED
    BY <1>7, <2>1, ConcatProperties, RaisedMore
<1>12. PICK i \in 1..Len(raised') : raised'[i].issue = issue /\ raised'[i].pos <= pos
  BY <1>3, <1>11 DEF WarnedBy
<1>13. raised'[i].pos \in Nat
  <2>1. raised'[i] \in Report
    BY <1>11, <1>12, ElementOfSeq
  <2>2. QED
    BY <2>1 DEF Report
<1>14. ASSUME NEW p \in Wanted(tok)'
       PROVE  NodeOrReason(tok, p)'
  <2>1. CASE p \in NodeStarts'
    BY <2>1 DEF NodeOrReason
  <2>2. CASE p \in Nat /\ pos <= p
    <3>1. raised'[i].pos <= p /\ i \in DOMAIN raised'
      BY <1>11, <1>12, <1>13, <2>2
    <3>2. WarnedBy(issue, p)'
      BY <1>12, <3>1 DEF WarnedBy
    <3>3. MayOpen(tok.type)' <=> MayOpen(tok.type)
      BY DEF MayOpen, IsOpening, IsUniversal
    <3>4. CASE issue = "MaxNodesExceeded"
      BY <3>2, <3>4 DEF NodeOrReason
    <3>5. CASE issue = "MaxParseDepthExceeded"
      BY <3>2, <3>3, <3>5 DEF NodeOrReason
    <3>6. QED
      BY <3>4, <3>5 DEF LimitIssue, LeavingOut
  <2>3. QED
    BY <1>14, <2>1, <2>2
<1>15. Answered(tok)'
  BY <1>14 DEF Answered
<1>16. OpenNodes'
  BY <1>1, OpenNodesStay
<1>17. SkipsExplained'
  BY <1>1, <1>7, <1>11, <1>12, SkipsStayExplained
<1>18. QED
  BY <1>1, <1>9, <1>10, <1>15, <1>16, <1>17, TokenRead

LEMMA RefuseOmissions == ASSUME IInv, OmissionsOK, RefuseTag PROVE OmissionsOK'
<1>1. PICK tok \in TagTokens(Openers), issue \in {"MaxNodesExceeded", "MaxParseDepthExceeded"} :
        /\ Parsing /\ input' = Append(input, tok)
        /\ issue = "MaxNodesExceeded" => ~RoomForNode
        /\ issue = "MaxParseDepthExceeded" => ~RoomForDepth
        /\ WarnLimit(issue, tok.pos, <<>>)
        /\ SkipCloser(tok.type)
        /\ nodes' = nodes /\ breadcrumbs' = breadcrumbs /\ stack' = stack /\ maxDepth' = maxDepth
  BY DEF RefuseTag, ast
<1>2. /\ Reads(tok) /\ tok.pos \in Nat /\ tok.type \in Openers /\ tok.type \in Tag \ Greedy
      /\ MayOpen(tok.type) /\ CloseID[tok.type] \in Skippable
      /\ issue \in LimitIssue /\ issue \in LeavingOut
      /\ RecordsOK /\ ArenasOK /\ DepthKept /\ PlacesOK /\ phase = "tokens" /\ Running
  BY <1>1, OpenersFacts, PassedOn, KindsApart
     DEF IInv, OmissionsOK, Parsing, LimitIssue, LeavingOut, Running
<1>3. /\ Position \in Nat /\ tok.pos = Position /\ Position' = Position + tok.width
      /\ tok.width \in Nat \ {0}
  BY <1>2, ReadFacts DEF Reads, TokenRecord
<1>4. NodesAdded(nodes', nodes, Position, Position')
  BY <1>1, <1>2, SameNodesAdded
<1>5. tok.pos \in Wanted(tok)' /\ \A p \in Wanted(tok)' : p = tok.pos
  BY <1>2 DEF Wanted, MayOpen, IsOpening, IsUniversal
<1>6. tok.pos \notin NodeStarts'
  <2>1. NodeStarts' = NodeStarts
    BY <1>1 DEF NodeStarts, NodeIds
  <2>2. \A s \in NodeStarts : s < Position
    BY <1>2 DEF NodeStarts, NodeIds, PlacesOK
  <2>3. QED
    BY <1>3, <2>1, <2>2
<1>7. issue = "MaxNodesExceeded" => Len(nodes') = setting.maxNodes
  BY <1>1, <1>2, RoomFacts
<1>8. issue = "MaxParseDepthExceeded" => maxDepth = setting.maxParseDepth /\ MayOpen(tok.type)
  <2>1. /\ Len(stack) <= maxDepth /\ (setting.maxParseDepth > 0 => maxDepth <= setting.maxParseDepth)
        /\ Len(stack) \in Nat /\ maxDepth \in Nat
    BY <1>2, StackFacts DEF IInv, DepthKept, RecordsOK
  <2>2. QED
    BY <1>1, <1>2, <2>1, SettingFacts DEF RoomForDepth
<1>9. \A t \in Tag : skip'[t] > 0 => skip[t] > 0 \/ t \in Skippable
  BY <1>1, <1>2 DEF SkipCloser, RecordsOK
<1>10. Position <= tok.pos /\ tok.pos < Position'
  BY <1>3
<1>11. QED
  BY <1>1, <1>2, <1>4, <1>5, <1>6, <1>7, <1>8, <1>9, <1>10, LimitedRead

(* appendGreedyNode: tag and payload, the tag alone, or neither of them. *)
LEMMA GreedyOmissions == ASSUME IInv, OmissionsOK, GreedyNode PROVE OmissionsOK'
<1>1. PICK tok \in TagTokens(Greedy) :
        /\ Parsing /\ input' = Append(input, tok)
        /\ breadcrumbs' = breadcrumbs /\ stack' = stack /\ maxDepth' = maxDepth /\ skip' = skip
        /\ \/ RoomForNode /\ nodes' = Paired(tok) /\ NoWarning
           \/ /\ RoomForNode /\ Len(nodes) + 1 = setting.maxNodes /\ nodes' = Tagged(tok)
              /\ WarnLimit("MaxNodesExceeded", PayloadStart(tok), <<>>)
           \/ /\ ~RoomForNode /\ nodes' = nodes /\ WarnLimit("MaxNodesExceeded", tok.pos, <<>>)
  BY DEF GreedyNode, Paired, Tagged, PayloadNode, TagNode
<1>2. Greedy \in SUBSET Tag /\ RecordsOK /\ WarningsOK /\ ArenasOK /\ OpenNodes /\ PlacesOK
      /\ SkipsExplained
  BY ParserAssumption DEF IInv, OmissionsOK
<1>3. Reads(tok) /\ tok.type \in Greedy /\ tok.width \in Width[tok.type]
  BY <1>1, <1>2, PassedOn
<1>4. tok.width >= 2
  BY <1>3, ParserAssumption
<1>5. /\ Position \in Nat /\ tok.pos = Position /\ Position' = Position + tok.width
      /\ tok.width \in Nat /\ Len(nodes) \in Nat \ {0} /\ Position' \in Nat /\ Position < Position'
      /\ PayloadStart(tok) = Position + 1 /\ Position + 1 < Position' /\ tok.pos \in Nat
      /\ PayloadStart(tok) \in Nat
  BY <1>2, <1>3, <1>4, ReadFacts, ArenaFacts DEF Reads, TokenRecord, PayloadStart
<1>6. Wanted(tok)' = {tok.pos, PayloadStart(tok)}
  BY <1>3 DEF Wanted, PayloadStart
<1>7. /\ Tagged(tok) \in Seq(NodeRecord) /\ Len(Tagged(tok)) = Len(nodes) + 1
      /\ Tagged(tok)[Len(nodes) + 1].start = tok.pos
      /\ \A i \in 1..Len(nodes) : SameNode(Tagged(tok)[i], nodes[i])
      /\ Paired(tok) \in Seq(NodeRecord) /\ Len(Paired(tok)) = Len(nodes) + 2
      /\ Paired(tok)[Len(nodes) + 2].start = PayloadStart(tok)
      /\ \A i \in 1..(Len(nodes) + 1) : SameNode(Paired(tok)[i], Tagged(tok)[i])
  <2>1. TagNode(tok).start = tok.pos /\ PayloadNode(tok).start = PayloadStart(tok)
    BY DEF TagNode, PayloadNode, Node
  <2>2. QED
    BY <1>3, <1>4, <2>1, GreedyNodes
<1>8. \A s \in NodeStarts : s < Position
  BY <1>2 DEF NodeStarts, NodeIds, PlacesOK
<1>9. phase = "tokens" /\ setting' = setting /\ Deepest' = Deepest
  BY <1>1 DEF Parsing, Deepest
<1>10. CASE RoomForNode /\ nodes' = Paired(tok) /\ NoWarning
  <2>1. PICK items \in Seq({}) : raised' = raised \o items
    BY <1>2, <1>10, NothingRaised DEF NoWarning
  <2>2. Reports(items, Position, Position') /\ \A j \in 1..Len(items) : items[j] \in {}
    BY ReportsFrom
  <2>3. NodesAdded(nodes', nodes, Position, Position')
    <3>1. \A i \in 1..Len(nodes) :
            Tagged(tok)[i].start = nodes[i].start /\ Tagged(tok)[i].tag = nodes[i].tag
      BY ONLY <1>7 DEF SameNode
    <3>2. \A i \in 1..(Len(nodes) + 1) :
            nodes'[i].start = Tagged(tok)[i].start /\ nodes'[i].tag = Tagged(tok)[i].tag
      BY ONLY <1>7, <1>10 DEF SameNode
    <3>3. \A i \in 1..Len(nodes) : i \in 1..(Len(nodes) + 1)
      BY ONLY <1>5
    <3>4. \A i \in 1..Len(nodes) : nodes'[i].start = nodes[i].start /\ nodes'[i].tag = nodes[i].tag
      BY ONLY <3>1, <3>2, <3>3
    <3>5. Len(nodes) + 1 \in 1..(Len(nodes) + 1)
      BY ONLY <1>5
    <3>6. /\ nodes'[Len(nodes) + 1].start = tok.pos
          /\ nodes'[Len(nodes) + 2].start = PayloadStart(tok)
          /\ nodes' \in Seq(NodeRecord) /\ Len(nodes') = Len(nodes) + 2
      BY ONLY <1>7, <1>10, <3>2, <3>5
    <3>7. \A i \in 1..Len(nodes') : nodes'[i].start \in Nat
      <4>1. \A i \in 1..Len(nodes') : nodes'[i] \in NodeRecord
        BY ONLY <3>6, ElementOfSeq
      <4>2. QED
        BY <4>1, NodeFields
    <3>8. \A i \in (Len(nodes) + 1)..Len(nodes') : i = Len(nodes) + 1 \/ i = Len(nodes) + 2
      BY ONLY <1>5, <3>6
    <3>9. \A i \in (Len(nodes) + 1)..Len(nodes') :
            Position <= nodes'[i].start /\ nodes'[i].start < Position'
      BY ONLY <1>5, <3>6, <3>8
    <3>10. Len(nodes) \in Nat /\ Len(nodes') \in Nat /\ Len(nodes) <= Len(nodes')
      BY ONLY <1>5, <3>6
    <3>11. QED
      BY ONLY <3>4, <3>7, <3>9, <3>10 DEF NodesAdded
  <2>4. Len(nodes) # setting.maxNodes
    BY <1>2, <1>5, <1>10, SettingFacts DEF RoomForNode
  <2>5. Adds(items)
    BY <1>3, <1>9, <2>1, <2>2, <2>3, <2>4, ReadAdds
  <2>6. tok.pos \in NodeStarts' /\ PayloadStart(tok) \in NodeStarts'
    <3>1. Len(nodes) + 1 \in 1..(Len(nodes) + 1)
      BY ONLY <1>5
    <3>2. /\ nodes'[Len(nodes) + 1].start = tok.pos
          /\ nodes'[Len(nodes) + 2].start = PayloadStart(tok)
      BY ONLY <1>7, <1>10, <3>1 DEF SameNode
    <3>3. /\ Len(nodes) + 1 \in (Len(nodes) + 1)..Len(nodes')
          /\ Len(nodes) + 2 \in (Len(nodes) + 1)..Len(nodes')
      BY ONLY <1>5, <1>7, <1>10
    <3>4. QED
      BY <1>2, <2>5, <3>2, <3>3, AddsFacts
  <2>7. Answered(tok)'
    BY <1>6, <2>6 DEF Answered, NodeOrReason
  <2>8. Limiting(items, tok)
    BY <2>2 DEF Limiting
  <2>9. OpenNodes' /\ SkipsExplained'
    BY <1>1, <1>2, <2>1, <2>2, <2>3, OpenNodesStay, SkipsStayExplained DEF Reports
  <2>10. QED
    BY <1>2, <1>3, <1>5, <2>5, <2>7, <2>8, <2>9, TokenRead
<1>11. "MaxNodesExceeded" \in LimitIssue /\ "MaxNodesExceeded" \in LeavingOut
       /\ "MaxNodesExceeded" # "MaxParseDepthExceeded"
  BY DEF LimitIssue, LeavingOut
<1>12. CASE /\ RoomForNode /\ Len(nodes) + 1 = setting.maxNodes /\ nodes' = Tagged(tok)
            /\ WarnLimit("MaxNodesExceeded", PayloadStart(tok), <<>>)
  <2>1. /\ nodes' \in Seq(NodeRecord) /\ Len(nodes') = Len(nodes) + 1
        /\ \A i \in 1..Len(nodes) : nodes'[i].start = nodes[i].start /\ nodes'[i].tag = nodes[i].tag
        /\ nodes'[Len(nodes) + 1].start = tok.pos
    BY <1>7, <1>12 DEF SameNode
  <2>2. \A i \in (Len(nodes) + 1)..Len(nodes') : i = Len(nodes) + 1
    BY <1>5, <2>1
  <2>3. NodesAdded(nodes', nodes, Position, Position')
    <3>1. \A i \in 1..Len(nodes') : nodes'[i].start \in Nat
      BY <2>1, NodeFields, ElementOfSeq
    <3>2. QED
      BY <1>5, <2>1, <2>2, <3>1 DEF NodesAdded
  <2>4. NodeStarts' = NodeStarts \cup {tok.pos}
    <3>1. /\ NodeStarts = {nodes[j].start : j \in (1..Len(nodes)) \ {1}}
          /\ NodeStarts' = {nodes'[j].start : j \in (1..Len(nodes')) \ {1}}
      BY DEF NodeStarts, NodeIds
    <3>2. (1..Len(nodes')) \ {1} = ((1..Len(nodes)) \ {1}) \cup {Len(nodes) + 1}
      BY <1>5, <2>1
    <3>3. QED
      BY <2>1, <3>1, <3>2
  <2>5. PayloadStart(tok) \notin NodeStarts'
    <3>1. \A s \in NodeStarts' : s < Position \/ s = Position
      BY <1>5, <1>8, <2>4
    <3>2. QED
      BY <1>5, <3>1
  <2>6. \A p \in Wanted(tok)' : p \in NodeStarts' \/ (p \in Nat /\ PayloadStart(tok) <= p)
    BY <1>5, <1>6, <2>4
  <2>7. PayloadStart(tok) \in Wanted(tok)' /\ Position <= PayloadStart(tok)
        /\ PayloadStart(tok) < Position' /\ Len(nodes') = setting.maxNodes
        /\ Len(nodes) # setting.maxNodes
    BY <1>5, <1>6, <1>12, <2>1
  <2>8. PICK pos \in Nat : pos = PayloadStart(tok)
    BY <1>5
  <2>9. QED
    BY <1>1, <1>3, <1>5, <1>11, <1>12, <2>3, <2>5, <2>6, <2>7, <2>8, LimitedRead
<1>13. CASE /\ ~RoomForNode /\ nodes' = nodes
            /\ WarnLimit("MaxNodesExceeded", tok.pos, <<>>)
  <2>1. NodesAdded(nodes', nodes, Position, Position')
    BY <1>2, <1>13, SameNodesAdded
  <2>2. NodeStarts' = NodeStarts /\ tok.pos \notin NodeStarts'
    <3>1. NodeStarts' = NodeStarts
      BY <1>13 DEF NodeStarts, NodeIds
    <3>2. QED
      BY <1>5, <1>8, <3>1
  <2>3. Len(nodes') = setting.maxNodes
    BY <1>2, <1>13, RoomFacts
  <2>4. /\ \A p \in Wanted(tok)' : p \in Nat /\ tok.pos <= p
        /\ tok.pos \in Wanted(tok)' /\ Position <= tok.pos /\ tok.pos < Position'
    BY <1>5, <1>6
  <2>5. QED
    BY <1>1, <1>3, <1>5, <1>11, <1>13, <2>1, <2>2, <2>3, <2>4, LimitedRead
<1>14. QED
  BY <1>1, <1>10, <1>12, <1>13

LEMMA OpenOmissions == ASSUME IInv, OmissionsOK, OpenTag PROVE OmissionsOK'
<1>1. PICK tok \in TagTokens(Openers) :
        /\ RoomForDepth /\ RoomForNode /\ Parsing /\ input' = Append(input, tok)
        /\ nodes' = Appended(nodes, Parent, Node("tag", tok.type, tok.pos, tok.pos + tok.width))
        /\ breadcrumbs' = Append(breadcrumbs, Len(nodes) + 1)
        /\ stack' = Append(stack, tok.type)
        /\ maxDepth' = IF Len(stack') > maxDepth THEN Len(stack') ELSE maxDepth
        /\ NoWarning /\ skip' = skip
  BY DEF OpenTag
<1>2. /\ Reads(tok) /\ tok.pos \in Nat /\ tok.type \in Openers /\ tok.type \in Tag \ Greedy
      /\ MayOpen(tok.type) /\ RecordsOK /\ WarningsOK /\ StacksOK /\ DepthKept /\ PlacesOK
      /\ OpenNodes /\ SkipsExplained /\ phase = "tokens" /\ setting' = setting
  BY <1>1, OpenersFacts, PassedOn, KindsApart DEF IInv, OmissionsOK, Parsing
<1>3. /\ Position \in Nat /\ tok.pos = Position /\ Position' = Position + tok.width
      /\ Position' \in Nat /\ Position < Position' /\ Len(nodes) \in Nat \ {0}
  BY <1>2, ReadFacts, ArenaFacts DEF Reads, TokenRecord
<1>4. /\ Grows(nodes', nodes, Position, Position') /\ Len(nodes') = Len(nodes) + 1
      /\ nodes'[Len(nodes) + 1].start = tok.pos /\ nodes'[Len(nodes) + 1].tag = tok.type
  <2>1. /\ Grows(nodes', nodes, Position, Position') /\ Len(nodes') = Len(nodes) + 1
        /\ nodes'[Len(nodes) + 1] = Node("tag", tok.type, tok.pos, tok.pos + tok.width)
    BY <1>1, <1>2, NodeOfToken
  <2>2. QED
    BY <2>1 DEF Node
<1>5. NodesAdded(nodes', nodes, Position, Position')
  <2>1. \A i \in (Len(nodes) + 1)..Len(nodes') : i = Len(nodes) + 1
    BY <1>3, <1>4
  <2>2. QED
    BY <1>2, <1>3, <1>4, <2>1, GrownNodesAdded
<1>6. PICK items \in Seq({}) : raised' = raised \o items
  BY <1>1, <1>2, NothingRaised DEF NoWarning
<1>7. Reports(items, Position, Position') /\ \A j \in 1..Len(items) : items[j] \in {}
  BY ReportsFrom
<1>8. Len(nodes) # setting.maxNodes
  BY <1>1, <1>2, <1>3, SettingFacts DEF RoomForNode
<1>9. /\ Len(stack) \in Nat /\ Len(stack') = Len(stack) + 1 /\ stack'[Len(stack) + 1] = tok.type
      /\ \A k \in 1..Len(stack) : stack'[k] = stack[k]
      /\ Len(breadcrumbs) = Len(stack) + 1 /\ breadcrumbs'[Len(stack) + 2] = Len(nodes) + 1
      /\ \A k \in 1..(Len(stack) + 1) : breadcrumbs'[k] = breadcrumbs[k]
  <2>1. stack \in Seq(Tag) /\ breadcrumbs \in Seq(Nat) /\ Len(stack) + 1 = Len(breadcrumbs)
    BY <1>2 DEF StacksOK
  <2>2. QED
    BY <1>1, <1>2, <1>3, <2>1, AppendProperties, LenProperties
<1>10. Deepest = setting.maxParseDepth => Deepest' = Deepest
  <2>1. Deepest = maxDepth /\ Deepest' = maxDepth'
    BY <1>1, <1>2 DEF Deepest, Parsing
  <2>2. maxDepth \in Nat \ {0} /\ setting.maxParseDepth \in Nat
    BY <1>2, SettingFacts DEF RecordsOK
  <2>3. QED
    BY <1>1, <1>9, <2>1, <2>2 DEF RoomForDepth
<1>11. Adds(items)
  BY <1>2, <1>5, <1>6, <1>7, <1>8, <1>10, ReadAdds
<1>12. tok.pos \in NodeStarts'
  <2>1. Len(nodes) + 1 \in (Len(nodes) + 1)..Len(nodes')
    BY <1>3, <1>4
  <2>2. QED
    BY <1>2, <1>4, <1>11, <2>1, AddsFacts
<1>13. Answered(tok)'
  <2>1. \A p \in Wanted(tok)' : p = tok.pos
    BY <1>2 DEF Wanted
  <2>2. QED
    BY <1>12, <2>1 DEF Answered, NodeOrReason
<1>14. Limiting(items, tok)
  BY <1>7 DEF Limiting
<1>15. OpenNodes'
  <2>1. ASSUME NEW k \in 1..Len(stack')
        PROVE  breadcrumbs'[k + 1] \in 2..Len(nodes') /\ nodes'[breadcrumbs'[k + 1]].tag = stack'[k]
    <3>1. CASE k \in 1..Len(stack)
      <4>1. breadcrumbs[k + 1] \in 2..Len(nodes) /\ nodes[breadcrumbs[k + 1]].tag = stack[k]
        BY <1>2, <3>1 DEF OpenNodes
      <4>2. breadcrumbs'[k + 1] = breadcrumbs[k + 1] /\ stack'[k] = stack[k]
        BY <1>9, <3>1
      <4>3. /\ breadcrumbs[k + 1] \in 1..Len(nodes) /\ breadcrumbs[k + 1] \in 2..Len(nodes')
        BY <1>3, <1>4, <4>1
      <4>4. QED
        BY <1>5, <4>1, <4>2, <4>3 DEF NodesAdded
    <3>2. CASE k = Len(stack) + 1
      <4>1. k + 1 = Len(stack) + 2
        BY <1>9, <3>2
      <4>2. Len(nodes) + 1 \in 2..Len(nodes')
        BY <1>3, <1>4
      <4>3. QED
        BY <1>4, <1>9, <3>2, <4>1, <4>2
    <3>3. QED
      BY <1>9, <2>1, <3>1, <3>2
  <2>2. QED
    BY <2>1 DEF OpenNodes
<1>16. SkipsExplained'
  BY <1>1, <1>2, <1>6, <1>7, SkipsStayExplained DEF Reports
<1>17. QED
  BY <1>2, <1>11, <1>13, <1>14, <1>15, <1>16, TokenRead

(* closeTag takes one node off the stacks and writes its end. *)
LEMMA PoppedOpenNodes ==
  ASSUME IInv, OpenNodes, Len(breadcrumbs) > 1, NEW w \in Nat, PopTag(w)
  PROVE  /\ OpenNodes'
         /\ Len(nodes') = Len(nodes)
         /\ \A i \in 1..Len(nodes) : nodes'[i].start = nodes[i].start /\ nodes'[i].tag = nodes[i].tag
<1>1. /\ nodes \in Seq(NodeRecord) /\ Linked(nodes, Len(nodes))
      /\ Parent \in 1..Len(nodes) /\ Len(stack) \in Nat \ {0} /\ Len(nodes) \in Nat
      /\ Len(breadcrumbs) = Len(stack) + 1 /\ stack \in Seq(Tag) /\ breadcrumbs \in Seq(Nat)
      /\ Last(cumWidth) \in Nat /\ nodes[Parent].start \in Nat
  <2>1. /\ Parent \in NodeIds /\ Parent = breadcrumbs[Len(breadcrumbs)]
        /\ Len(breadcrumbs) \in Nat \ {0}
        /\ Last(cumWidth) = cumWidth[Len(breadcrumbs)]
        /\ \A k \in 1..Len(breadcrumbs) :
             cumWidth[k] \in Nat /\ nodes[breadcrumbs[k]].start \in Nat
    BY StackFacts DEF IInv
  <2>2. stack \in Seq(Tag) /\ breadcrumbs \in Seq(Nat) /\ Len(stack) + 1 = Len(breadcrumbs)
    BY DEF IInv, StacksOK
  <2>3. Len(stack) \in Nat /\ Len(breadcrumbs) \in 1..Len(breadcrumbs)
    BY <2>1, <2>2, LenProperties
  <2>4. QED
    BY <2>1, <2>2, <2>3, ArenaLinked
<1>2. nodes[Parent].start \in Nat /\ Last(cumWidth) \in Nat
  BY ONLY <1>1
<1> DEFINE v == nodes[Parent].start + Last(cumWidth) + w
<1>3. v \in Nat
  BY ONLY <1>2, w \in Nat
<1>4. /\ nodes' = [nodes EXCEPT ![Parent].end = v]
      /\ breadcrumbs' = Front(breadcrumbs) /\ stack' = Front(stack)
  BY DEF PopTag
<1> HIDE DEF v
<1>5. /\ Len(nodes') = Len(nodes)
      /\ \A i \in 1..Len(nodes) : nodes'[i].start = nodes[i].start /\ nodes'[i].tag = nodes[i].tag
  BY <1>1, <1>3, <1>4, EndFacts
<1>6. /\ Len(stack') = Len(stack) - 1 /\ \A k \in 1..(Len(stack) - 1) : stack'[k] = stack[k]
      /\ \A k \in 1..Len(stack) : breadcrumbs'[k] = breadcrumbs[k]
  <2>1. stack # <<>> /\ stack \in Seq(Tag) /\ breadcrumbs # <<>> /\ breadcrumbs \in Seq(Nat)
    BY ONLY <1>1
  <2>2. /\ Len(stack') = Len(stack) - 1 /\ \A k \in 1..(Len(stack) - 1) : stack'[k] = stack[k]
    BY ONLY <1>4, <2>1, FrontFacts
  <2>3. \A k \in 1..(Len(breadcrumbs) - 1) : breadcrumbs'[k] = breadcrumbs[k]
    BY ONLY <1>4, <2>1, FrontFacts
  <2>4. Len(breadcrumbs) - 1 = Len(stack)
    BY ONLY <1>1
  <2>5. QED
    BY <2>2, <2>3, <2>4
<1>7. ASSUME NEW k \in 1..Len(stack')
      PROVE  breadcrumbs'[k + 1] \in 2..Len(nodes') /\ nodes'[breadcrumbs'[k + 1]].tag = stack'[k]
  <2>1. k \in 1..Len(stack) /\ k \in 1..(Len(stack) - 1) /\ k + 1 \in 1..Len(stack)
    <3>1. Len(stack) \in Nat \ {0} /\ Len(stack') = Len(stack) - 1
      BY ONLY <1>1, <1>6
    <3>2. QED
      BY ONLY <3>1, k \in 1..Len(stack')
  <2>2. breadcrumbs[k + 1] \in 2..Len(nodes) /\ nodes[breadcrumbs[k + 1]].tag = stack[k]
    BY <2>1 DEF OpenNodes
  <2>3. breadcrumbs[k + 1] \in 1..Len(nodes)
    BY <1>1, <2>2
  <2>4. QED
    BY <1>5, <1>6, <2>1, <2>2, <2>3
<1>8. QED
  BY <1>5, <1>7 DEF OpenNodes

LEMMA CloseOmissions == ASSUME IInv, OmissionsOK, CloseTag PROVE OmissionsOK'
<1>1. PICK tok \in TagTokens(Tag \ Greedy) :
        /\ Top # NoTag
        /\ (IsUniversal(tok.type) /\ Top = tok.type) \/ (IsClosing(tok.type) /\ Matches(tok.type))
        /\ Parsing /\ input' = Append(input, tok)
        /\ PopTag(tok.width) /\ NoWarning /\ skip' = skip
  BY DEF CloseTag
<1>2. /\ RecordsOK /\ StacksOK /\ LinksOK /\ WarningsOK /\ OpenNodes /\ PlacesOK
  BY DEF IInv, OmissionsOK
<1>3. /\ Reads(tok) /\ tok.type \in Tag \ Greedy /\ tok.width \in Nat /\ tok.pos = Position
      /\ Position \in Nat /\ maxDepth' = maxDepth
  <2>1. Reads(tok) /\ tok.type \in Tag \ Greedy
    BY <1>1, <1>2, PassedOn
  <2>2. QED
    BY <1>1, <1>2, <2>1, ReadFacts DEF Reads, TokenRecord, PopTag
<1>4. Len(stack) \in Nat \ {0} /\ Len(breadcrumbs) = Len(stack) + 1 /\ Top = stack[Len(stack)]
      /\ Len(stack) \in 1..Len(stack)
  <2>1. stack # <<>> /\ stack \in Seq(Tag) /\ Top = Last(stack)
    BY <1>1, <1>2 DEF Top, StacksOK
  <2>2. Len(stack) \in Nat \ {0} /\ Last(stack) = stack[Len(stack)]
    BY <2>1, EmptySeq, FrontFacts DEF Last
  <2>3. Len(breadcrumbs) \in Nat /\ Len(stack) = Len(breadcrumbs) - 1
    BY <1>2, StackFacts
  <2>4. QED
    BY <2>1, <2>2, <2>3
<1>5. Len(breadcrumbs) > 1
  BY <1>4
<1>6. /\ OpenNodes' /\ Len(nodes') = Len(nodes) /\ Len(nodes) \in Nat
      /\ \A i \in 1..Len(nodes) : nodes'[i].start = nodes[i].start /\ nodes'[i].tag = nodes[i].tag
  BY <1>1, <1>2, <1>3, <1>5, PoppedOpenNodes, ArenaFacts
<1>7. PICK items \in Seq({}) : raised' = raised \o items
  BY <1>1, <1>2, NothingRaised DEF NoWarning
<1>8. {} \in SUBSET Report /\ \A x \in {} : FALSE
  OBVIOUS
<1>9. ASSUME IsUniversal(tok.type), Top = tok.type
      PROVE  Answered(tok)'
  <2>1. PICK j \in 2..Len(nodes) : nodes[j].tag = tok.type
    BY <1>4, <1>9 DEF OpenNodes, OmissionsOK
  <2>2. j \in 1..Len(nodes) /\ nodes[j].start < Position
    BY <1>2, <1>6, <2>1 DEF PlacesOK
  <2>3. j \in NodeIds' /\ nodes'[j].tag = tok.type /\ nodes'[j].start < tok.pos
    BY <1>3, <1>6, <2>1, <2>2 DEF NodeIds
  <2>4. MayOpen(tok.type)' /\ IsUniversal(tok.type)'
    BY <1>3, <1>9 DEF MayOpen, IsUniversal
  <2>5. NeedsNoNode(tok)'
    BY <2>3, <2>4 DEF NeedsNoNode
  <2>6. QED
    BY <2>5 DEF Answered, NodeOrReason
<1>10. ASSUME IsClosing(tok.type)
       PROVE  Answered(tok)'
  <2>1. tok.type \notin Greedy /\ tok.type # "text" /\ ~MayOpen(tok.type)
    BY <1>3, <1>10, KindsApart DEF MayOpen, IsClosing, IsOpening, IsUniversal
  <2>2. ~WarnedAt("OpenCloseTagMismatch", tok.pos)'
    BY <1>2, <1>3, <1>7, <1>8, NotMismatched
  <2>3. QED
    BY <2>1, <2>2, WantsNothing
<1>11. Answered(tok)'
  BY <1>1, <1>9, <1>10
<1>12. QED
  BY <1>1, <1>3, <1>6, <1>7, <1>8, <1>11, QuietOmissions

-----------------------------------------------------------------------------
(* The end of the input, and the next one *)

(* A step that reads no token and adds no node. *)
LEMMA UnreadOmissions ==
  ASSUME IInv, OmissionsOK, input' = input, setting' = setting, Deepest' = Deepest,
         Len(nodes') = Len(nodes),
         \A i \in 1..Len(nodes) : nodes'[i].start = nodes[i].start /\ nodes'[i].tag = nodes[i].tag,
         NEW S \in SUBSET Report, NEW items \in Seq(S), raised' = raised \o items,
         \A x \in S : x.pos <= Position /\ x.issue \notin AboutToken,
         OpenNodes', \A t \in Tag : skip'[t] > 0 => skip[t] > 0
  PROVE  OmissionsOK'
<1>1. RecordsOK /\ WarningsOK /\ SkipsExplained
  BY DEF IInv, OmissionsOK
<1>2. Position \in Nat /\ Position' = Position
  BY <1>1, PositionIsNat DEF Position
<1>3. NodesAdded(nodes', nodes, Position, Position')
  BY <1>1, SameNodesAdded
<1>4. /\ Reports(items, Position, Position')
      /\ \A j \in 1..Len(items) : items[j] \in S
  <2>1. \A x \in S : /\ x.pos <= Position' /\ (x.issue \in AboutToken => Position <= x.pos)
                     /\ x.issue = "OpenCloseTagMismatch" => x.pos < Position'
    BY <1>2 DEF AboutToken
  <2>2. QED
    BY <2>1, ReportsFrom
<1>5. Adds(items)
  <2>1. input' \in Seq(TokenRecord) /\ Len(input') = Len(input) /\ Len(input) \in Nat
        /\ Len(input) <= Len(input') /\ Position <= Position' /\ Position' \in Nat
        /\ \A k \in 1..Len(input) : input'[k] = input[k]
    BY <1>1, <1>2, LenProperties DEF RecordsOK
  <2>2. QED
    BY <1>2, <1>3, <1>4, <2>1 DEF Adds
<1>6. SkipsExplained'
  BY <1>1, <1>4, SkipsStayExplained DEF Reports
<1>7. \A j \in 1..Len(items) : items[j].issue \notin AboutToken
  BY <1>4
<1>8. QED
  BY <1>1, <1>5, <1>6, <1>7, NothingRead

LEMMA EndOmissions == ASSUME IInv, OmissionsOK, EndOfInput PROVE OmissionsOK'
<1>1. /\ phase = "tokens" /\ phase' = "closing" /\ setting' = setting /\ input' = input
      /\ nodes' = nodes /\ raised' = raised /\ breadcrumbs' = breadcrumbs /\ stack' = stack
      /\ maxDepth' = maxDepth /\ skip' = skip /\ totals' = totals
  BY DEF EndOfInput, ast, pooled, places
<1>2. RecordsOK /\ WarningsOK /\ OpenNodes /\ Deepest' = Deepest
  BY <1>1 DEF IInv, OmissionsOK, Deepest
<1>3. PICK items \in Seq({}) : raised' = raised \o items
  BY <1>1, <1>2, NothingRaised
<1>4. OpenNodes'
  BY <1>1, <1>2, SameNodesAdded, OpenNodesStay
<1>5. {} \in SUBSET Report /\ \A x \in {} : FALSE
  OBVIOUS
<1>6. Len(nodes') = Len(nodes)
      /\ \A i \in 1..Len(nodes) : nodes'[i].start = nodes[i].start /\ nodes'[i].tag = nodes[i].tag
  BY <1>1
<1>7. QED
  BY <1>1, <1>2, <1>3, <1>4, <1>5, <1>6, UnreadOmissions

LEMMA ForceCloseOmissions == ASSUME IInv, OmissionsOK, ForceClose PROVE OmissionsOK'
<1> DEFINE w == Warning("UnclosedTag", nodes[Parent].start)
<1>1. /\ phase = "closing" /\ phase' = phase /\ Len(breadcrumbs) > 1 /\ PopTag(0) /\ Warn(<<w>>)
      /\ setting' = setting /\ input' = input /\ skip' = skip
  BY DEF ForceClose
<1>2. /\ RecordsOK /\ StacksOK /\ LinksOK /\ NodesInside /\ WarningsOK /\ OpenNodes
  BY DEF IInv, OmissionsOK
<1>3. Deepest' = Deepest /\ 0 \in Nat
  BY <1>1 DEF Deepest, PopTag
<1>4. /\ OpenNodes' /\ Len(nodes') = Len(nodes)
      /\ \A i \in 1..Len(nodes) : nodes'[i].start = nodes[i].start /\ nodes'[i].tag = nodes[i].tag
  BY <1>1, <1>2, <1>3, PoppedOpenNodes
<1>5. nodes[Parent].start \in Nat /\ nodes[Parent].start <= Position
  <2>1. Parent \in NodeIds
    BY <1>2, StackFacts
  <2>2. nodes[Parent].start \in Nat /\ nodes[Parent].end \in Nat
    BY <1>2, <2>1, ArenaFacts, NodeFields DEF NodeIds
  <2>3. QED
    BY <1>2, <2>1, <2>2, PositionIsNat DEF NodesInside
<1>6. w \in Report /\ w.issue = "UnclosedTag" /\ w.pos = nodes[Parent].start
  BY <1>5, NewReport DEF Issue, Warning
<1>7. PICK v : v = w
  OBVIOUS
<1>8. Warn(<<v>>)
  BY <1>1, <1>7
<1> HIDE DEF w
<1>9. \E items \in Seq({v}) : raised' = raised \o items
  BY <1>2, <1>6, <1>7, <1>8, OneRaised
<1>10. PICK items \in Seq({v}) : raised' = raised \o items
  BY <1>9
<1>11. {v} \in SUBSET Report /\ \A x \in {v} : x.pos <= Position /\ x.issue \notin AboutToken
  BY <1>5, <1>6, <1>7 DEF AboutToken
<1>12. QED
  BY <1>1, <1>3, <1>4, <1>10, <1>11, UnreadOmissions

LEMMA FinalizeOmissions == ASSUME IInv, OmissionsOK, Finalize PROVE OmissionsOK'
<1>1. /\ phase = "closing" /\ phase' = "done" /\ Len(breadcrumbs) = 1
      /\ nodes' = [nodes EXCEPT ![1].end = Last(cumWidth)]
      /\ totals'.maxDepth = maxDepth
      /\ stack' = <<>> /\ skip' = NothingSkipped
      /\ setting' = setting /\ input' = input /\ raised' = raised
  BY DEF Finalize, Reset, ResetSkip
<1>2. /\ WarningsOK /\ RecordsOK /\ StacksOK
  BY DEF IInv
<1>3. Deepest' = Deepest
  BY <1>1 DEF Deepest
<1>4. /\ Len(nodes') = Len(nodes)
      /\ \A i \in 1..Len(nodes) : nodes'[i].start = nodes[i].start /\ nodes'[i].tag = nodes[i].tag
  <2>1. Last(cumWidth) \in Nat /\ 1 \in 1..Len(nodes)
    BY <1>2, StackFacts, ArenaFacts
  <2>2. nodes \in Seq(NodeRecord) /\ Linked(nodes, Len(nodes))
    BY ArenaLinked
  <2>3. QED
    BY <1>1, <2>1, <2>2, EndFacts
<1>5. OpenNodes'
  <2>1. 1..Len(stack') = {}
    BY <1>1
  <2>2. QED
    BY <2>1 DEF OpenNodes
<1>6. \A t \in Tag : skip'[t] > 0 => skip[t] > 0
  BY <1>1 DEF NothingSkipped
<1>7. PICK items \in Seq({}) : raised' = raised \o items
  BY <1>1, <1>2, NothingRaised
<1>8. {} \in SUBSET Report /\ \A x \in {} : FALSE
  OBVIOUS
<1>9. QED
  BY <1>1, <1>3, <1>4, <1>5, <1>6, <1>7, <1>8, UnreadOmissions

(* Before the first token. *)
Unread ==
  /\ input = <<>> /\ nodes = <<Root>> /\ stack = <<>> /\ skip = NothingSkipped
  /\ raised \in TokenizerWarnings

LEMMA UnreadStart == Unread => OmissionsOK
<1> SUFFICES ASSUME Unread PROVE OmissionsOK
  OBVIOUS
<1>1. /\ input = <<>> /\ nodes = <<Root>> /\ stack = <<>> /\ skip = NothingSkipped
  BY DEF Unread
<1>2. Position = 0 /\ Len(input) = 0 /\ Len(nodes) = 1 /\ Len(stack) = 0
  BY <1>1 DEF Position
<1>3. \A i \in 1..Len(raised) : raised[i].issue = "UnexpectedEOL" /\ raised[i].pos = 0
  <2> DEFINE w == Warning("UnexpectedEOL", 0)
  <2>1. w.issue = "UnexpectedEOL" /\ w.pos = 0
    BY DEF Warning
  <2>2. raised = <<>> \/ raised = <<w>>
    BY DEF Unread, TokenizerWarnings
  <2> HIDE DEF w
  <2>3. CASE raised = <<>>
    BY <2>3
  <2>4. CASE raised = <<w>>
    BY <2>1, <2>4
  <2>5. QED
    BY <2>2, <2>3, <2>4
<1>4. PlacesOK
  BY <1>2, <1>3 DEF PlacesOK
<1>5. OpenNodes /\ \A k \in 1..Len(input) : Answered(input[k])
  BY <1>2 DEF OpenNodes
<1>6. SkipsExplained
  BY <1>1 DEF SkipsExplained, NothingSkipped
<1>7. \A i \in 1..Len(raised) : LimitReached(raised[i])
  BY <1>3 DEF LimitReached
<1>8. QED
  BY <1>4, <1>5, <1>6, <1>7 DEF OmissionsOK

LEMMA BeginOmissions == ASSUME IInv, BeginParse PROVE OmissionsOK'
<1>1. /\ input' = <<>> /\ nodes' = <<Root>> /\ raised' \in TokenizerWarnings
      /\ stack' = stack /\ skip' = skip
  BY DEF BeginParse, pooled, places
<1>2. stack = <<>> /\ skip = NothingSkipped
  BY DEF BeginParse, IInv, PoolIsClean, Fresh
<1>3. Unread'
  BY <1>1, <1>2 DEF Unread, NothingSkipped, TokenizerWarnings, Warning
<1>4. (Unread => OmissionsOK)'
  BY UnreadStart, PTL
<1>5. QED
  BY <1>3, <1>4

LEMMA NextOmissions == IInv /\ OmissionsOK /\ [Next]_vars => OmissionsOK'
<1> SUFFICES ASSUME IInv, OmissionsOK, [Next]_vars PROVE OmissionsOK'
  OBVIOUS
<1>1. CASE BeginParse
  BY <1>1, BeginOmissions
<1>2. CASE ProcessText
  BY <1>2, TextOmissions
<1>3. CASE ProcessAttribute
  BY <1>3, AttributeOmissions
<1>4. CASE ProcessSkipped
  BY <1>4, SkippedOmissions
<1>5. CASE GreedyNode
  BY <1>5, GreedyOmissions
<1>6. CASE DuplicateNestedTag
  BY <1>6, DuplicateOmissions
<1>7. CASE OpenTag
  BY <1>7, OpenOmissions
<1>8. CASE RefuseTag
  BY <1>8, RefuseOmissions
<1>9. CASE CloseTag
  BY <1>9, CloseOmissions
<1>10. CASE MisplacedClosingTag
  BY <1>10, MisplacedOmissions
<1>11. CASE MismatchedClosingTag
  BY <1>11, MismatchedOmissions
<1>12. CASE EndOfInput
  BY <1>12, EndOmissions
<1>13. CASE ForceClose
  BY <1>13, ForceCloseOmissions
<1>14. CASE Finalize
  BY <1>14, FinalizeOmissions
<1>15. CASE UNCHANGED vars
  <2>1. /\ phase' = phase /\ setting' = setting /\ input' = input /\ nodes' = nodes
        /\ totals' = totals /\ raised' = raised /\ breadcrumbs' = breadcrumbs
        /\ stack' = stack /\ maxDepth' = maxDepth /\ skip' = skip
    BY <1>15 DEF vars, ast, pooled, places
  <2>2. RecordsOK /\ WarningsOK /\ OpenNodes /\ Deepest' = Deepest
    BY <2>1 DEF IInv, OmissionsOK, Deepest
  <2>3. PICK items \in Seq({}) : raised' = raised \o items
    BY <2>1, <2>2, NothingRaised
  <2>4. OpenNodes'
    BY <2>1, <2>2, SameNodesAdded, OpenNodesStay
  <2>5. {} \in SUBSET Report /\ \A x \in {} : FALSE
    OBVIOUS
  <2>6. /\ Len(nodes') = Len(nodes)
        /\ \A i \in 1..Len(nodes) : nodes'[i].start = nodes[i].start /\ nodes'[i].tag = nodes[i].tag
    BY <2>1
  <2>7. QED
    BY <2>1, <2>2, <2>3, <2>4, <2>5, <2>6, UnreadOmissions
<1>16. QED
  BY <1>1, <1>2, <1>3, <1>4, <1>5, <1>6, <1>7, <1>8, <1>9, <1>10, <1>11, <1>12, <1>13,
     <1>14, <1>15 DEF Next

LEMMA IInvLimits == IInv /\ OmissionsOK => LimitsKept
<1> SUFFICES ASSUME IInv, OmissionsOK PROVE LimitsKept
  OBVIOUS
<1>1. /\ setting.maxNodes > 0 => Len(nodes) <= setting.maxNodes
      /\ setting.maxAttributes > 0 => Len(attributes) <= setting.maxAttributes
  BY DEF IInv, ArenasOK
<1>2. /\ \A limit \in LimitIssue : Issues(limit) <= 1
      /\ Issues("MaxAttributesExceeded") = 1 <=> Len(attributes) < AttributeTokens
  BY DEF IInv, LimitsReported
<1>3. DOMAIN input = 1..Len(input) /\ DOMAIN raised = 1..Len(raised)
  BY LenProperties DEF IInv, RecordsOK, WarningsOK
<1>4. \A k \in DOMAIN input : \A p \in Wanted(input[k]) : NodeOrReason(input[k], p)
  BY <1>3 DEF OmissionsOK, Answered
<1>5. \A i \in DOMAIN raised : LimitReached(raised[i])
  BY <1>3 DEF OmissionsOK
<1>6. QED
  BY <1>1, <1>2, <1>4, <1>5 DEF LimitsKept, LimitIssue, AttributeTokens

(* limits.go: no arena outgrows its limit, and a limit is warned of once in  *)
(* a parse: behind its warning, and nowhere else but for the closer of a    *)
(* skipped tag, a duplicate or a universal tag, a token may lack its node.  *)
THEOREM LimitsHold == Spec => []LimitsKept
<1>1. Init => OmissionsOK
  BY UnreadStart DEF Init, Fresh, Unread, TokenizerWarnings
<1>2. QED
  BY <1>1, NextOmissions, IInvLimits, ParserInvariant, PTL DEF Spec
=============================================================================
