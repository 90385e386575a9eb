------------------------- MODULE ScumSerializeProofs -------------------------
(***************************************************************************)
(* The tree that ScumParser leaves in the arena, and what Serialize and    *)
(* Text make of it, for every dictionary, every limit and every input: no  *)
(* tag is inside one of its own kind, the walk writes each node to one     *)
(* place, and tree and text read in the order of the input.                *)
(***************************************************************************)
EXTENDS ScumParserProofs, ScumSerialize

-----------------------------------------------------------------------------
(* The tree in the arena *)

(* One field of one node is written. *)
LEMMA FirstWritten ==
  ASSUME NEW ns \in Seq(NodeRecord), NEW i \in 1..Len(ns), NEW v \in Nat
  PROVE  LET ms == [ns EXCEPT ![i].first = v]
         IN /\ ms \in Seq(NodeRecord) /\ Len(ms) = Len(ns)
            /\ \A j \in 1..Len(ns) :
                 /\ ms[j].first = IF j = i THEN v ELSE ns[j].first
                 /\ ms[j].last = ns[j].last /\ ms[j].next = ns[j].next
                 /\ ms[j].kids = ns[j].kids /\ ms[j].tag = ns[j].tag
<1> DEFINE n == ns[i]
           m == [n EXCEPT !.first = v]
           ms == [ns EXCEPT ![i] = m]
<1>1. n \in NodeRecord
  BY ElementOfSeq
<1>2. [ns EXCEPT ![i].first = v] = ms
  OBVIOUS
<1> HIDE DEF n
<1>3. m \in NodeRecord
  BY <1>1 DEF NodeRecord
<1>4. /\ m.first = v /\ m.last = n.last /\ m.next = n.next
      /\ m.kids = n.kids /\ m.tag = n.tag
  BY <1>1 DEF NodeRecord
<1> HIDE DEF m
<1>5. /\ ms \in Seq(NodeRecord) /\ Len(ms) = Len(ns)
      /\ \A j \in 1..Len(ns) : ms[j] = IF j = i THEN m ELSE ns[j]
  BY <1>3, ExceptSeq
<1> HIDE DEF ms
<1>6. \A j \in 1..Len(ns) :
        /\ ms[j].first = IF j = i THEN v ELSE ns[j].first
        /\ ms[j].last = ns[j].last /\ ms[j].next = ns[j].next
        /\ ms[j].kids = ns[j].kids /\ ms[j].tag = ns[j].tag
  BY <1>4, <1>5 DEF n
<1>7. QED
  BY <1>2, <1>5, <1>6

LEMMA NextWritten ==
  ASSUME NEW ns \in Seq(NodeRecord), NEW i \in 1..Len(ns), NEW v \in Nat
  PROVE  LET ms == [ns EXCEPT ![i].next = v]
         IN /\ ms \in Seq(NodeRecord) /\ Len(ms) = Len(ns)
            /\ \A j \in 1..Len(ns) :
                 /\ ms[j].next = IF j = i THEN v ELSE ns[j].next
                 /\ ms[j].first = ns[j].first /\ ms[j].last = ns[j].last
                 /\ ms[j].kids = ns[j].kids /\ ms[j].tag = ns[j].tag
<1> DEFINE n == ns[i]
           m == [n EXCEPT !.next = v]
           ms == [ns EXCEPT ![i] = m]
<1>1. n \in NodeRecord
  BY ElementOfSeq
<1>2. [ns EXCEPT ![i].next = v] = ms
  OBVIOUS
<1> HIDE DEF n
<1>3. m \in NodeRecord
  BY <1>1 DEF NodeRecord
<1>4. /\ m.next = v /\ m.first = n.first /\ m.last = n.last
      /\ m.kids = n.kids /\ m.tag = n.tag
  BY <1>1 DEF NodeRecord
<1> HIDE DEF m
<1>5. /\ ms \in Seq(NodeRecord) /\ Len(ms) = Len(ns)
      /\ \A j \in 1..Len(ns) : ms[j] = IF j = i THEN m ELSE ns[j]
  BY <1>3, ExceptSeq
<1> HIDE DEF ms
<1>6. \A j \in 1..Len(ns) :
        /\ ms[j].next = IF j = i THEN v ELSE ns[j].next
        /\ ms[j].first = ns[j].first /\ ms[j].last = ns[j].last
        /\ ms[j].kids = ns[j].kids /\ ms[j].tag = ns[j].tag
  BY <1>4, <1>5 DEF n
<1>7. QED
  BY <1>2, <1>5, <1>6

LEMMA LastWritten ==
  ASSUME NEW ns \in Seq(NodeRecord), NEW i \in 1..Len(ns), NEW v \in Nat
  PROVE  LET ms == [ns EXCEPT ![i].last = v]
         IN /\ ms \in Seq(NodeRecord) /\ Len(ms) = Len(ns)
            /\ \A j \in 1..Len(ns) :
                 /\ ms[j].last = IF j = i THEN v ELSE ns[j].last
                 /\ ms[j].first = ns[j].first /\ ms[j].next = ns[j].next
                 /\ ms[j].kids = ns[j].kids /\ ms[j].tag = ns[j].tag
<1> DEFINE n == ns[i]
           m == [n EXCEPT !.last = v]
           ms == [ns EXCEPT ![i] = m]
<1>1. n \in NodeRecord
  BY ElementOfSeq
<1>2. [ns EXCEPT ![i].last = v] = ms
  OBVIOUS
<1> HIDE DEF n
<1>3. m \in NodeRecord
  BY <1>1 DEF NodeRecord
<1>4. /\ m.last = v /\ m.first = n.first /\ m.next = n.next
      /\ m.kids = n.kids /\ m.tag = n.tag
  BY <1>1 DEF NodeRecord
<1> HIDE DEF m
<1>5. /\ ms \in Seq(NodeRecord) /\ Len(ms) = Len(ns)
      /\ \A j \in 1..Len(ns) : ms[j] = IF j = i THEN m ELSE ns[j]
  BY <1>3, ExceptSeq
<1> HIDE DEF ms
<1>6. \A j \in 1..Len(ns) :
        /\ ms[j].last = IF j = i THEN v ELSE ns[j].last
        /\ ms[j].first = ns[j].first /\ ms[j].next = ns[j].next
        /\ ms[j].kids = ns[j].kids /\ ms[j].tag = ns[j].tag
  BY <1>4, <1>5 DEF n
<1>7. QED
  BY <1>2, <1>5, <1>6

LEMMA KidsWritten ==
  ASSUME NEW ns \in Seq(NodeRecord), NEW i \in 1..Len(ns)
  PROVE  LET ms == [ns EXCEPT ![i].kids = @ + 1]
         IN /\ ms \in Seq(NodeRecord) /\ Len(ms) = Len(ns)
            /\ \A j \in 1..Len(ns) :
                 /\ ms[j].kids = IF j = i THEN ns[j].kids + 1 ELSE ns[j].kids
                 /\ ms[j].first = ns[j].first /\ ms[j].next = ns[j].next
                 /\ ms[j].last = ns[j].last /\ ms[j].tag = ns[j].tag
<1> DEFINE n == ns[i]
           v == n.kids + 1
           m == [n EXCEPT !.kids = v]
           ms == [ns EXCEPT ![i] = m]
<1>1. n \in NodeRecord
  BY ElementOfSeq
<1>2. [ns EXCEPT ![i].kids = @ + 1] = ms
  OBVIOUS
<1> HIDE DEF n
<1>3. v \in Nat /\ v = ns[i].kids + 1
  <2>1. n.kids \in Nat
    BY <1>1 DEF NodeRecord
  <2>2. QED
    BY <2>1 DEF n
<1> HIDE DEF v
<1>4. m \in NodeRecord
  BY <1>1, <1>3 DEF NodeRecord
<1>5. /\ m.kids = v /\ m.first = n.first /\ m.next = n.next
      /\ m.last = n.last /\ m.tag = n.tag
  BY <1>1 DEF NodeRecord
<1> HIDE DEF m
<1>6. /\ ms \in Seq(NodeRecord) /\ Len(ms) = Len(ns)
      /\ \A j \in 1..Len(ns) : ms[j] = IF j = i THEN m ELSE ns[j]
  BY <1>4, ExceptSeq
<1> HIDE DEF ms
<1>7. \A j \in 1..Len(ns) :
        /\ ms[j].kids = IF j = i THEN ns[j].kids + 1 ELSE ns[j].kids
        /\ ms[j].first = ns[j].first /\ ms[j].next = ns[j].next
        /\ ms[j].last = ns[j].last /\ ms[j].tag = ns[j].tag
  BY <1>3, <1>5, <1>6 DEF n
<1>8. QED
  BY <1>2, <1>6, <1>7

(* appendNode: how the links change. *)
Hangs(ms, ns, p, node) ==
  /\ Len(ms) = Len(ns) + 1 /\ ms[Len(ns) + 1] = node
  /\ \A j \in 1..Len(ns) :
       /\ ms[j].first = IF j = p /\ ns[p].last = 0 THEN Len(ns) + 1 ELSE ns[j].first
       /\ ms[j].next = IF j = ns[p].last THEN Len(ns) + 1 ELSE ns[j].next
       /\ ms[j].last = IF j = p THEN Len(ns) + 1 ELSE ns[j].last
       /\ ms[j].kids = IF j = p THEN ns[j].kids + 1 ELSE ns[j].kids
       /\ ms[j].tag = ns[j].tag

LEMMA AppendedLinks ==
  ASSUME NEW ns \in Seq(NodeRecord), Linked(ns, Len(ns)), NEW p \in 1..Len(ns),
         NEW node \in NodeRecord
  PROVE  Hangs(Appended(ns, p, node), ns, p, node)
<1> DEFINE b      == Len(ns) + 1
           older  == ns[p].last
           linked == IF older = 0 THEN [ns EXCEPT ![p].first = b]
                     ELSE [ns EXCEPT ![older].next = b]
           counted == [linked EXCEPT ![p].kids = @ + 1]
           closed  == [counted EXCEPT ![p].last = b]
<1>1. Len(ns) \in Nat /\ b \in Nat
  BY LenProperties
<1>2. older \in 0..Len(ns)
  BY DEF Linked, Links
<1>3. Appended(ns, p, node) = Append(closed, node)
  BY DEF Appended
<1> HIDE DEF b, older
<1>4. /\ linked \in Seq(NodeRecord) /\ Len(linked) = Len(ns)
      /\ \A j \in 1..Len(ns) :
           /\ linked[j].first = IF j = p /\ older = 0 THEN b ELSE ns[j].first
           /\ linked[j].next = IF j = older THEN b ELSE ns[j].next
           /\ linked[j].last = ns[j].last /\ linked[j].kids = ns[j].kids
           /\ linked[j].tag = ns[j].tag
  <2>1. CASE older = 0
    <3> DEFINE ms == [ns EXCEPT ![p].first = b]
    <3>1. /\ ms \in Seq(NodeRecord) /\ Len(ms) = Len(ns)
          /\ \A j \in 1..Len(ns) :
               /\ ms[j].first = IF j = p THEN b ELSE ns[j].first
               /\ ms[j].last = ns[j].last /\ ms[j].next = ns[j].next
               /\ ms[j].kids = ns[j].kids /\ ms[j].tag = ns[j].tag
      BY <1>1, FirstWritten
    <3>2. linked = ms
      BY <2>1
    <3> HIDE DEF ms, linked
    <3>3. \A j \in 1..Len(ns) : j # older
      BY <2>1
    <3>4. QED
      BY <2>1, <3>1, <3>2, <3>3
  <2>2. CASE older # 0
    <3>1. older \in 1..Len(ns)
      BY <1>1, <1>2, <2>2
    <3> DEFINE ms == [ns EXCEPT ![older].next = b]
    <3>2. /\ ms \in Seq(NodeRecord) /\ Len(ms) = Len(ns)
          /\ \A j \in 1..Len(ns) :
               /\ ms[j].next = IF j = older THEN b ELSE ns[j].next
               /\ ms[j].first = ns[j].first /\ ms[j].last = ns[j].last
               /\ ms[j].kids = ns[j].kids /\ ms[j].tag = ns[j].tag
      BY <1>1, <3>1, NextWritten
    <3>3. linked = ms
      BY <2>2
    <3> HIDE DEF ms, linked
    <3>4. QED
      BY <2>2, <3>2, <3>3
  <2>3. QED
    BY <2>1, <2>2
<1> HIDE DEF linked
<1>5. linked \in Seq(NodeRecord) /\ p \in 1..Len(linked)
  BY <1>4
<1>6. /\ counted \in Seq(NodeRecord) /\ Len(counted) = Len(linked)
      /\ \A j \in 1..Len(linked) :
           /\ counted[j].kids = IF j = p THEN linked[j].kids + 1 ELSE linked[j].kids
           /\ counted[j].first = linked[j].first /\ counted[j].next = linked[j].next
           /\ counted[j].last = linked[j].last /\ counted[j].tag = linked[j].tag
  BY ONLY <1>5, KidsWritten
<1> HIDE DEF counted
<1>7. counted \in Seq(NodeRecord) /\ p \in 1..Len(counted)
  BY <1>5, <1>6
<1>8. /\ closed \in Seq(NodeRecord) /\ Len(closed) = Len(counted)
      /\ \A j \in 1..Len(counted) :
           /\ closed[j].last = IF j = p THEN b ELSE counted[j].last
           /\ closed[j].first = counted[j].first /\ closed[j].next = counted[j].next
           /\ closed[j].kids = counted[j].kids /\ closed[j].tag = counted[j].tag
  BY ONLY <1>1, <1>7, LastWritten
<1> HIDE DEF closed
<1> DEFINE ms == Append(closed, node)
<1>9. /\ Len(ms) = Len(ns) + 1 /\ ms[Len(ns) + 1] = node
      /\ \A j \in 1..Len(ns) : ms[j] = closed[j]
  <2>1. closed \in Seq(NodeRecord) /\ Len(closed) = Len(ns)
    BY <1>4, <1>6, <1>8
  <2>2. QED
    BY ONLY <2>1, node \in NodeRecord, AppendProperties
<1> HIDE DEF ms
<1>10. \A j \in 1..Len(ns) :
        /\ ms[j].first = IF j = p /\ older = 0 THEN b ELSE ns[j].first
        /\ ms[j].next = IF j = older THEN b ELSE ns[j].next
        /\ ms[j].last = IF j = p THEN b ELSE ns[j].last
        /\ ms[j].kids = IF j = p THEN ns[j].kids + 1 ELSE ns[j].kids
        /\ ms[j].tag = ns[j].tag
  BY <1>4, <1>6, <1>8, <1>9
<1>11. Hangs(ms, ns, p, node)
  BY <1>9, <1>10 DEF Hangs, b, older
<1>12. QED
  BY <1>3, <1>11 DEF ms

(* A node without children is hung behind the last child of p. *)
LEMMA FamilyGrows ==
  ASSUME NEW ns \in Seq(NodeRecord), NEW p \in 1..Len(ns), NEW node \in NodeRecord,
         node.last = 0, node.kids = 0, NEW ms, Hangs(ms, ns, p, node),
         NEW kid, NEW par, Family(ns, kid, par)
  PROVE  \E kids, pars : /\ Family(ms, kids, pars) /\ pars[Len(ns) + 1] = p
                         /\ \A j \in 2..Len(ns) : pars[j] = par[j]
<1> DEFINE n == Len(ns)
           c == ns[p].kids
           kids == [i \in 1..(n + 1) |->
                      IF i = p THEN [k \in 1..(c + 1) |-> IF k = c + 1 THEN n + 1 ELSE kid[p][k]]
                      ELSE kid[i]]
           pars == [j \in 1..(n + 1) |-> IF j = n + 1 THEN p ELSE par[j]]
<1>1. n \in Nat /\ n >= 1 /\ p \in 1..n /\ p # n + 1
  BY LenProperties
<1>2. \A i \in 1..n : ns[i].kids \in Nat /\ ns[i].last \in Nat
  <2>1. \A i \in 1..n : ns[i] \in NodeRecord
    BY ElementOfSeq
  <2>2. QED
    BY <2>1 DEF NodeRecord
<1>3. c \in Nat /\ c = ns[p].kids
  BY <1>1, <1>2
<1>4. /\ kids[p][c + 1] = n + 1 /\ \A k \in 1..c : kids[p][k] = kid[p][k]
      /\ \A i \in 1..n : i # p => kids[i] = kid[i]
  BY <1>1, <1>3
<1>5. pars[n + 1] = p /\ \A j \in 1..n : pars[j] = par[j]
  BY <1>1
<1> HIDE DEF kids, pars
<1>6. /\ Len(ms) = n + 1 /\ ms[n + 1].kids = 0 /\ ms[n + 1].last = 0
      /\ \A j \in 1..n :
           /\ ms[j].first = IF j = p /\ ns[p].last = 0 THEN n + 1 ELSE ns[j].first
           /\ ms[j].next = IF j = ns[p].last THEN n + 1 ELSE ns[j].next
           /\ ms[j].last = IF j = p THEN n + 1 ELSE ns[j].last
           /\ ms[j].kids = IF j = p THEN c + 1 ELSE ns[j].kids
  BY DEF Hangs
<1>7. \A i \in 1..n :
        /\ ns[i].kids = 0 <=> ns[i].last = 0
        /\ ns[i].kids > 0 => kid[i][1] = ns[i].first /\ kid[i][ns[i].kids] = ns[i].last
        /\ \A k \in 1..ns[i].kids : kid[i][k] \in 2..n /\ par[kid[i][k]] = i
        /\ \A k \in 1..(ns[i].kids - 1) :
             /\ kid[i][k] # ns[i].last /\ ns[kid[i][k]].next = kid[i][k + 1]
             /\ kid[i][k] < kid[i][k + 1]
  BY DEF Family
<1>8. \A j \in 2..n : par[j] \in 1..(j - 1) /\ \E k \in 1..ns[par[j]].kids : kid[par[j]][k] = j
  BY DEF Family
<1> HIDE DEF n, c
<1>9. /\ c = 0 <=> ns[p].last = 0
      /\ c > 0 => kid[p][1] = ns[p].first /\ kid[p][c] = ns[p].last
      /\ \A k \in 1..c : kid[p][k] \in 2..n /\ par[kid[p][k]] = p
      /\ \A k \in 1..(c - 1) : /\ kid[p][k] # ns[p].last /\ ns[kid[p][k]].next = kid[p][k + 1]
                               /\ kid[p][k] < kid[p][k + 1]
  BY ONLY <1>1, <1>3, <1>7
<1>10. /\ ms[p].kids = c + 1 /\ ms[p].last = n + 1
       /\ ms[p].first = IF ns[p].last = 0 THEN n + 1 ELSE ns[p].first
  BY ONLY <1>1, <1>6
<1>11. /\ ~(ms[p].kids = 0) /\ ~(ms[p].last = 0)
       /\ kids[p][1] = ms[p].first /\ kids[p][ms[p].kids] = ms[p].last
  <2>1. CASE c = 0
    BY ONLY <1>1, <1>4, <1>9, <1>10, <2>1
  <2>2. CASE c > 0
    <3>1. 1 \in 1..c /\ c # 0
      BY ONLY <1>3, <2>2
    <3>2. QED
      BY ONLY <1>1, <1>3, <1>4, <1>9, <1>10, <2>2, <3>1
  <2>3. QED
    BY ONLY <1>3, <2>1, <2>2
<1>12. \A k \in 1..(c + 1) : kids[p][k] \in 2..(n + 1) /\ pars[kids[p][k]] = p
  <2>1. ASSUME NEW k \in 1..c PROVE kids[p][k] \in 2..(n + 1) /\ pars[kids[p][k]] = p
    <3>1. kids[p][k] = kid[p][k] /\ kid[p][k] \in 2..n /\ par[kid[p][k]] = p
      BY ONLY <1>4, <1>9
    <3>2. 2..n \subseteq 1..n /\ 2..n \subseteq 2..(n + 1)
      BY ONLY <1>1
    <3>3. QED
      BY ONLY <1>5, <3>1, <3>2
  <2>2. kids[p][c + 1] \in 2..(n + 1) /\ pars[kids[p][c + 1]] = p
    BY ONLY <1>1, <1>4, <1>5
  <2>3. \A k \in 1..(c + 1) : k \in 1..c \/ k = c + 1
    BY ONLY <1>3
  <2>4. QED
    BY ONLY <2>1, <2>2, <2>3
<1>13. ASSUME NEW k \in 1..c
       PROVE  /\ kids[p][k] # ms[p].last /\ ms[kids[p][k]].next = kids[p][k + 1]
              /\ kids[p][k] < kids[p][k + 1]
  <2>1. /\ kids[p][k] = kid[p][k] /\ kid[p][k] \in 1..n /\ kid[p][k] # n + 1
        /\ kid[p][k] < n + 1
    <3>1. kids[p][k] = kid[p][k] /\ kid[p][k] \in 2..n
      BY ONLY <1>4, <1>9
    <3>2. \A x \in 2..n : x \in 1..n /\ x # n + 1 /\ x < n + 1
      BY ONLY <1>1
    <3>3. QED
      BY ONLY <3>1, <3>2
  <2>2. CASE k = c
    <3>1. c > 0
      BY ONLY <1>3, <2>2
    <3>2. ms[kid[p][k]].next = n + 1
      BY ONLY <1>6, <1>9, <2>1, <2>2, <3>1
    <3>3. QED
      BY ONLY <1>4, <1>10, <2>1, <2>2, <3>2
  <2>3. CASE k # c
    <3>1. k \in 1..(c - 1) /\ k + 1 \in 1..c
      BY ONLY <1>3, <2>3
    <3>2. /\ kid[p][k] # ns[p].last /\ ns[kid[p][k]].next = kid[p][k + 1]
          /\ kid[p][k] < kid[p][k + 1]
      BY ONLY <1>9, <3>1
    <3>3. ms[kid[p][k]].next = kid[p][k + 1] /\ kids[p][k + 1] = kid[p][k + 1]
      BY ONLY <1>4, <1>6, <2>1, <3>1, <3>2
    <3>4. QED
      BY ONLY <1>10, <2>1, <3>2, <3>3
  <2>4. QED
    BY <2>2, <2>3
<1>14. ASSUME NEW i \in 1..n, i # p, NEW k \in 1..ns[i].kids
       PROVE  kids[i][k] = kid[i][k] /\ kid[i][k] \in 2..n /\ kid[i][k] \in 1..n
              /\ kid[i][k] \in 2..(n + 1) /\ pars[kids[i][k]] = i /\ kid[i][k] # ns[p].last
  <2>1. kids[i][k] = kid[i][k] /\ kid[i][k] \in 2..n /\ par[kid[i][k]] = i
    BY ONLY <1>4, <1>7, <1>14
  <2>2. \A x \in 2..n : x \in 1..n /\ x \in 2..(n + 1) /\ x # 0
    BY ONLY <1>1
  <2>3. pars[kids[i][k]] = i
    BY ONLY <1>5, <2>1, <2>2
  <2>4. kid[i][k] # ns[p].last
    <3>1. CASE c = 0
      BY ONLY <1>9, <2>1, <2>2, <3>1
    <3>2. CASE c > 0
      <4>1. c \in 1..c
        BY ONLY <1>3, <3>2
      <4>2. ns[p].last = kid[p][c] /\ par[kid[p][c]] = p
        BY ONLY <1>9, <3>2, <4>1
      <4>3. QED
        BY ONLY <1>14, <2>1, <4>2
    <3>3. QED
      BY ONLY <1>3, <3>1, <3>2
  <2>5. QED
    BY ONLY <2>1, <2>2, <2>3, <2>4
<1>15. ASSUME NEW i \in 1..n, i # p
       PROVE  /\ ms[i].kids = 0 <=> ms[i].last = 0
              /\ ms[i].kids > 0 => kids[i][1] = ms[i].first /\ kids[i][ms[i].kids] = ms[i].last
              /\ \A k \in 1..ms[i].kids : kids[i][k] \in 2..(n + 1) /\ pars[kids[i][k]] = i
              /\ \A k \in 1..(ms[i].kids - 1) :
                   /\ kids[i][k] # ms[i].last /\ ms[kids[i][k]].next = kids[i][k + 1]
                   /\ kids[i][k] < kids[i][k + 1]
  <2>1. /\ ms[i].kids = ns[i].kids /\ ms[i].last = ns[i].last /\ ms[i].first = ns[i].first
        /\ kids[i] = kid[i] /\ ns[i].kids \in Nat
    BY ONLY <1>2, <1>4, <1>6, <1>15
  <2>2. /\ ns[i].kids = 0 <=> ns[i].last = 0
        /\ ns[i].kids > 0 => kid[i][1] = ns[i].first /\ kid[i][ns[i].kids] = ns[i].last
        /\ \A k \in 1..(ns[i].kids - 1) :
             /\ kid[i][k] # ns[i].last /\ ns[kid[i][k]].next = kid[i][k + 1]
             /\ kid[i][k] < kid[i][k + 1]
    BY ONLY <1>7
  <2>3. \A k \in 1..ns[i].kids : kids[i][k] \in 2..(n + 1) /\ pars[kids[i][k]] = i
    BY ONLY <1>14, <1>15, <2>1
  <2>4. ASSUME NEW k \in 1..(ns[i].kids - 1)
        PROVE  /\ kids[i][k] # ms[i].last /\ ms[kids[i][k]].next = kids[i][k + 1]
               /\ kids[i][k] < kids[i][k + 1]
    <3>1. k \in 1..ns[i].kids
      BY ONLY <2>1
    <3>2. kid[i][k] \in 1..n /\ kid[i][k] # ns[p].last
      BY ONLY <1>14, <1>15, <3>1
    <3>3. ms[kid[i][k]].next = ns[kid[i][k]].next
      BY ONLY <1>6, <3>2
    <3>4. QED
      BY ONLY <2>1, <2>2, <3>3
  <2>5. QED
    BY ONLY <2>1, <2>2, <2>3, <2>4
<1>16. ASSUME NEW i \in 1..(n + 1)
       PROVE  /\ ms[i].kids = 0 <=> ms[i].last = 0
              /\ ms[i].kids > 0 => kids[i][1] = ms[i].first /\ kids[i][ms[i].kids] = ms[i].last
              /\ \A k \in 1..ms[i].kids : kids[i][k] \in 2..(n + 1) /\ pars[kids[i][k]] = i
              /\ \A k \in 1..(ms[i].kids - 1) :
                   /\ kids[i][k] # ms[i].last /\ ms[kids[i][k]].next = kids[i][k + 1]
                   /\ kids[i][k] < kids[i][k + 1]
  <2>1. CASE i = p
    <3>1. (c + 1) - 1 = c
      BY ONLY <1>3
    <3>2. QED
      BY ONLY <1>10, <1>11, <1>12, <1>13, <2>1, <3>1
  <2>2. CASE i = n + 1
    <3>1. 1..0 = {} /\ 1..(0 - 1) = {}
      OBVIOUS
    <3>2. QED
      BY ONLY <1>6, <2>2, <3>1
  <2>3. CASE i \in 1..n /\ i # p
    BY ONLY <1>15, <2>3
  <2>4. QED
    BY ONLY <1>1, <2>1, <2>2, <2>3
<1>17. ASSUME NEW j \in 2..(n + 1)
       PROVE  pars[j] \in 1..(j - 1) /\ \E k \in 1..ms[pars[j]].kids : kids[pars[j]][k] = j
  <2>1. CASE j = n + 1
    <3>1. pars[j] = p /\ p \in 1..(j - 1) /\ c + 1 \in 1..(c + 1)
      BY ONLY <1>1, <1>3, <1>5, <2>1
    <3>2. c + 1 \in 1..ms[pars[j]].kids /\ kids[pars[j]][c + 1] = j
      BY ONLY <1>4, <1>10, <2>1, <3>1
    <3>3. QED
      BY ONLY <3>1, <3>2
  <2>2. CASE j # n + 1
    <3>1. j \in 2..n /\ j \in 1..n
      BY ONLY <1>1, <2>2
    <3>2. pars[j] = par[j] /\ par[j] \in 1..(j - 1)
      BY ONLY <1>5, <1>8, <3>1
    <3>3. PICK k \in 1..ns[par[j]].kids : kid[par[j]][k] = j
      BY ONLY <1>8, <3>1
    <3>4. par[j] \in 1..n
      BY ONLY <1>1, <3>1, <3>2
    <3>5. CASE par[j] = p
      <4>1. k \in 1..c /\ k \in 1..(c + 1)
        BY ONLY <1>3, <3>5
      <4>2. QED
        BY ONLY <1>4, <1>10, <3>2, <3>3, <3>5, <4>1
    <3>6. CASE par[j] # p
      BY ONLY <1>4, <1>6, <3>2, <3>3, <3>4, <3>6
    <3>7. QED
      BY <3>5, <3>6
  <2>3. QED
    BY <2>1, <2>2
<1>18. Family(ms, kids, pars)
  BY ONLY <1>6, <1>16, <1>17 DEF Family
<1>19. \A j \in 2..n : pars[j] = par[j]
  BY ONLY <1>1, <1>5
<1>20. QED
  BY <1>5, <1>18, <1>19 DEF n

(* The last node, and the innermost open one, have nothing behind them that *)
(* is not below them, so a child at the end keeps the arena in preorder.   *)
HangsLast(n, p, crumbs, par, pars) ==
  /\ n \in Nat /\ p \in 1..n /\ Len(crumbs) \in Nat \ {0}
  /\ \A k \in 1..Len(crumbs) : crumbs[k] \in 1..n
  /\ p = n \/ p = crumbs[Len(crumbs)]
  /\ \A j \in 2..n : par[j] \in 1..(j - 1)
  /\ pars[n + 1] = p /\ \A j \in 2..n : pars[j] = par[j]
Pushed(crumbs2, crumbs, i) ==
  /\ Len(crumbs2) = Len(crumbs) + 1 /\ crumbs2[Len(crumbs) + 1] = i
  /\ \A k \in 1..Len(crumbs) : crumbs2[k] = crumbs[k]

LEMMA PreorderGrows ==
  ASSUME NEW n, NEW p, NEW crumbs, NEW par, NEW pars,
         HangsLast(n, p, crumbs, par, pars), Preorder(n, crumbs, par)
  PROVE  /\ Preorder(n + 1, crumbs, pars)
         /\ \A crumbs2 : Pushed(crumbs2, crumbs, n + 1) => Preorder(n + 1, crumbs2, pars)
<1>0. /\ n \in Nat /\ p \in 1..n /\ Len(crumbs) \in Nat \ {0}
      /\ \A k \in 1..Len(crumbs) : crumbs[k] \in 1..n
      /\ p = n \/ p = crumbs[Len(crumbs)]
      /\ \A j \in 2..n : par[j] \in 1..(j - 1)
      /\ pars[n + 1] = p /\ \A j \in 2..n : pars[j] = par[j]
  BY DEF HangsLast
<1> USE <1>0
<1> DEFINE m == Len(crumbs)
<1>1. /\ \A j \in 2..n : \A y \in (par[j] + 1)..(j - 1) : par[j] <= par[y]
      /\ \A k \in 1..m : \A y \in (crumbs[k] + 1)..n : crumbs[k] <= par[y]
      /\ \A k, l \in 1..m : k < l => crumbs[k] < crumbs[l]
  BY DEF Preorder
<1>2. m \in Nat \ {0} /\ \A k \in 1..m : crumbs[k] \in 1..n
  OBVIOUS
<1>3. p = n \/ p = crumbs[m]
  OBVIOUS
<1> HIDE DEF m
<1>4. \A k \in 1..m : crumbs[k] <= p
  BY ONLY <1>1, <1>2, <1>3, <1>0
<1>5. \A y \in (p + 1)..n : p <= par[y]
  BY ONLY <1>1, <1>2, <1>3, <1>0
<1>6. ASSUME NEW j \in 2..(n + 1), NEW y \in (pars[j] + 1)..(j - 1) PROVE pars[j] <= pars[y]
  <2>1. CASE j = n + 1
    <3>1. pars[j] = p /\ y \in (p + 1)..n /\ y \in 2..n
      BY ONLY <1>6, <2>1, <1>0
    <3>2. pars[y] = par[y]
      BY <3>1
    <3>3. QED
      BY ONLY <1>5, <3>1, <3>2
  <2>2. CASE j # n + 1
    <3>1. j \in 2..n
      BY <2>2
    <3>2. pars[j] = par[j] /\ par[j] \in 1..(j - 1)
      BY <3>1
    <3>3. y \in (par[j] + 1)..(j - 1) /\ y \in 2..n
      BY ONLY <1>6, <3>1, <3>2, <1>0
    <3>4. pars[y] = par[y]
      BY <3>3
    <3>5. QED
      BY ONLY <1>1, <3>1, <3>2, <3>3, <3>4
  <2>3. QED
    BY <2>1, <2>2
<1>7. ASSUME NEW k \in 1..m, NEW y \in (crumbs[k] + 1)..(n + 1) PROVE crumbs[k] <= pars[y]
  <2>1. CASE y = n + 1
    BY <1>4, <2>1
  <2>2. CASE y # n + 1
    <3>1. crumbs[k] \in 1..n
      BY <1>2
    <3>2. y \in (crumbs[k] + 1)..n /\ y \in 2..n
      BY ONLY <1>7, <2>2, <3>1, <1>0
    <3>3. pars[y] = par[y]
      BY <3>2
    <3>4. QED
      BY ONLY <1>1, <3>2, <3>3
  <2>3. QED
    BY <2>1, <2>2
<1>8. Preorder(n + 1, crumbs, pars)
  BY <1>1, <1>6, <1>7 DEF Preorder, m
<1>9. ASSUME NEW crumbs2, Len(crumbs2) = m + 1, crumbs2[m + 1] = n + 1,
             \A k \in 1..m : crumbs2[k] = crumbs[k]
      PROVE  Preorder(n + 1, crumbs2, pars)
  <2>1. \A k \in 1..(m + 1) : k \in 1..m \/ k = m + 1
    BY ONLY <1>2
  <2>2. ASSUME NEW k \in 1..(m + 1), NEW y \in (crumbs2[k] + 1)..(n + 1)
        PROVE  crumbs2[k] <= pars[y]
    <3>1. CASE k = m + 1
      BY ONLY <1>9, <2>2, <3>1, <1>0
    <3>2. CASE k \in 1..m
      BY ONLY <1>7, <1>9, <2>2, <3>2
    <3>3. QED
      BY <2>1, <3>1, <3>2
  <2>3. ASSUME NEW k \in 1..(m + 1), NEW l \in 1..(m + 1), k < l PROVE crumbs2[k] < crumbs2[l]
    <3>1. k \in 1..m
      BY ONLY <1>2, <2>3
    <3>2. crumbs2[k] = crumbs[k] /\ crumbs[k] \in 1..n
      BY ONLY <1>2, <1>9, <3>1
    <3>3. CASE l = m + 1
      BY ONLY <1>9, <3>2, <3>3, <1>0
    <3>4. CASE l \in 1..m
      BY ONLY <1>1, <1>9, <2>3, <3>1, <3>4
    <3>5. QED
      BY <2>1, <3>3, <3>4
  <2>4. QED
    BY ONLY <1>6, <1>9, <2>2, <2>3 DEF Preorder
<1>10. QED
  BY <1>8, <1>9 DEF m, Pushed

(* What is around a node grows by its own tag, if that is not greedy. *)
LEMMA InsideTyped ==
  ASSUME NEW tags \in Seq(Tag), NEW tag \in Tag \cup {NoTag}
  PROVE  /\ Inside(tags, tag) \in Seq(Tag)
         /\ tag \in {NoTag} \cup Greedy => Inside(tags, tag) = tags
         /\ tag \in Tag \ Greedy => Inside(tags, tag) = Append(tags, tag)
<1>1. tag \in Tag => Append(tags, tag) \in Seq(Tag)
  BY AppendProperties
<1>2. NoTag \notin Tag
  BY ParserAssumption
<1>3. QED
  BY <1>1, <1>2 DEF Inside

(* The tags around the new node are those around p and its own. *)
LEMMA SurroundGrows ==
  ASSUME NEW ns \in Seq(NodeRecord), NEW p \in 1..Len(ns), NEW node \in NodeRecord,
         NEW ms, Hangs(ms, ns, p, node), NEW par, NEW around, Surround(ns, par, around),
         \A j \in 2..Len(ns) : par[j] \in 1..(j - 1),
         NEW pars, pars[Len(ns) + 1] = p, \A j \in 2..Len(ns) : pars[j] = par[j]
  PROVE  \E arounds : /\ Surround(ms, pars, arounds)
                      /\ \A j \in 1..Len(ns) : arounds[j] = around[j]
                      /\ arounds[Len(ns) + 1] = Inside(around[p], node.tag)
<1> DEFINE n == Len(ns)
           new == Inside(around[p], node.tag)
           arounds == [j \in 1..(n + 1) |-> IF j = n + 1 THEN new ELSE around[j]]
<1>1. n \in Nat /\ n >= 1 /\ p \in 1..n
  BY LenProperties
<1>2. arounds[n + 1] = new /\ \A j \in 1..n : arounds[j] = around[j]
  BY <1>1
<1> HIDE DEF arounds
<1>3. /\ \A j \in 1..n : around[j] \in Seq(Tag)
      /\ around[1] = <<>>
      /\ \A j \in 2..n : around[j] = Inside(around[par[j]], ns[j].tag)
  BY DEF Surround
<1>4. new \in Seq(Tag)
  <2>1. node.tag \in Tag \cup {NoTag}
    BY DEF NodeRecord
  <2>2. QED
    BY <1>1, <1>3, <2>1, InsideTyped
<1>5. Len(ms) = n + 1 /\ ms[n + 1] = node /\ \A j \in 1..n : ms[j].tag = ns[j].tag
  BY DEF Hangs
<1>6. \A j \in 2..n : par[j] \in 1..(j - 1) /\ pars[j] = par[j]
  OBVIOUS
<1>7. pars[n + 1] = p /\ new = Inside(around[p], node.tag)
  OBVIOUS
<1> HIDE DEF n, new
<1>8. ASSUME NEW j \in 1..(n + 1) PROVE arounds[j] \in Seq(Tag)
  BY ONLY <1>1, <1>2, <1>3, <1>4
<1>9. arounds[1] = <<>>
  BY ONLY <1>1, <1>2, <1>3
<1>10. ASSUME NEW j \in 2..(n + 1) PROVE arounds[j] = Inside(arounds[pars[j]], ms[j].tag)
  <2>1. CASE j = n + 1
    BY ONLY <1>1, <1>2, <1>5, <1>7, <2>1
  <2>2. CASE j # n + 1
    <3>1. j \in 2..n /\ j \in 1..n
      BY ONLY <1>1, <2>2
    <3>2. pars[j] = par[j] /\ par[j] \in 1..n
      BY ONLY <1>1, <1>6, <3>1
    <3>3. QED
      BY ONLY <1>2, <1>3, <1>5, <3>1, <3>2
  <2>3. QED
    BY <2>1, <2>2
<1>11. Surround(ms, pars, arounds)
  BY ONLY <1>5, <1>8, <1>9, <1>10 DEF Surround
<1>12. QED
  BY <1>2, <1>11 DEF n, new

LEMMA TreeGrows ==
  ASSUME NEW ns \in Seq(NodeRecord), NEW p \in 1..Len(ns), NEW node \in NodeRecord,
         node.last = 0, node.kids = 0, NEW ms, Hangs(ms, ns, p, node),
         NEW kid, NEW par, NEW around, Family(ns, kid, par), Surround(ns, par, around)
  PROVE  \E kids, pars, arounds :
           /\ Family(ms, kids, pars) /\ Surround(ms, pars, arounds)
           /\ pars[Len(ns) + 1] = p /\ \A j \in 2..Len(ns) : pars[j] = par[j]
           /\ \A j \in 1..Len(ns) : arounds[j] = around[j]
           /\ arounds[Len(ns) + 1] = Inside(around[p], node.tag)
<1>1. PICK kids, pars : /\ Family(ms, kids, pars) /\ pars[Len(ns) + 1] = p
                        /\ \A j \in 2..Len(ns) : pars[j] = par[j]
  BY FamilyGrows
<1>2. \A j \in 2..Len(ns) : par[j] \in 1..(j - 1)
  BY DEF Family
<1>3. PICK arounds : /\ Surround(ms, pars, arounds)
                     /\ \A j \in 1..Len(ns) : arounds[j] = around[j]
                     /\ arounds[Len(ns) + 1] = Inside(around[p], node.tag)
  BY <1>1, <1>2, SurroundGrows
<1>4. QED
  BY <1>1, <1>3

(* A node that is a text, or a greedy tag, has nothing new around it. *)
LEMMA FitsFlat ==
  ASSUME NEW ns \in Seq(NodeRecord), NEW p \in 1..Len(ns), NEW node \in NodeRecord,
         node.last = 0, node.kids = 0, node.tag \in {NoTag} \cup Greedy,
         NEW ms, Hangs(ms, ns, p, node),
         NEW crumbs, NEW stk, NEW depth, \A k \in 1..Len(crumbs) : crumbs[k] \in 1..Len(ns),
         Len(crumbs) \in Nat \ {0}, p = Len(ns) \/ p = crumbs[Len(crumbs)],
         NEW kid, NEW par, NEW around, TreeFits(ns, crumbs, stk, depth, kid, par, around)
  PROVE  \E kids, pars, arounds : TreeFits(ms, crumbs, stk, depth, kids, pars, arounds)
<1>1. /\ Family(ns, kid, par) /\ Surround(ns, par, around)
      /\ AroundOpen(around, crumbs, stk) /\ AroundKept(Len(ns), around, depth)
      /\ Preorder(Len(ns), crumbs, par)
  BY DEF TreeFits
<1>2. PICK kids, pars, arounds :
        /\ Family(ms, kids, pars) /\ Surround(ms, pars, arounds)
        /\ pars[Len(ns) + 1] = p /\ \A j \in 2..Len(ns) : pars[j] = par[j]
        /\ \A j \in 1..Len(ns) : arounds[j] = around[j]
        /\ arounds[Len(ns) + 1] = Inside(around[p], node.tag)
  BY <1>1, TreeGrows
<1>3. arounds[Len(ns) + 1] = around[p]
  <2>1. \A tags : Inside(tags, node.tag) = tags
    BY ONLY node.tag \in {NoTag} \cup Greedy DEF Inside
  <2>2. QED
    BY ONLY <1>2, <2>1
<1>4. AroundOpen(arounds, crumbs, stk)
  <2>1. \A k \in 1..Len(crumbs) : arounds[crumbs[k]] = around[crumbs[k]]
    BY <1>2
  <2>2. \A k \in 1..Len(crumbs) :
          /\ Len(around[crumbs[k]]) = k - 1
          /\ \A l \in 1..(k - 1) : around[crumbs[k]][l] = stk[l]
    BY <1>1 DEF AroundOpen
  <2>3. QED
    BY ONLY <2>1, <2>2 DEF AroundOpen
<1>5. AroundKept(Len(ms), arounds, depth)
  <2>1. Len(ns) \in Nat /\ Len(ms) = Len(ns) + 1
    BY LenProperties DEF Hangs
  <2>2. \A j \in 1..Len(ns) : IsInjective(around[j]) /\ Len(around[j]) <= depth
    BY <1>1 DEF AroundKept
  <2>3. ASSUME NEW j \in 1..(Len(ns) + 1)
        PROVE  IsInjective(arounds[j]) /\ Len(arounds[j]) <= depth
    <3>1. CASE j = Len(ns) + 1
      BY <1>3, <2>2, <3>1
    <3>2. CASE j # Len(ns) + 1
      <4>1. j \in 1..Len(ns)
        BY <2>1, <3>2
      <4>2. QED
        BY <1>2, <2>2, <4>1
    <3>3. QED
      BY <3>1, <3>2
  <2>4. depth = 1 \/ \E j \in 1..(Len(ns) + 1) : Len(arounds[j]) = depth
    <3>1. ASSUME NEW j \in 1..Len(ns), Len(around[j]) = depth
          PROVE  \E i \in 1..(Len(ns) + 1) : Len(arounds[i]) = depth
      <4>1. j \in 1..(Len(ns) + 1) /\ Len(arounds[j]) = depth
        BY <1>2, <2>1, <3>1
      <4>2. QED
        BY <4>1
    <3>2. QED
      BY <1>1, <3>1 DEF AroundKept
  <2>5. QED
    BY <2>1, <2>3, <2>4 DEF AroundKept
<1>6. Preorder(Len(ms), crumbs, pars)
  <2>1. Len(ns) \in Nat /\ Len(ms) = Len(ns) + 1
    BY LenProperties DEF Hangs
  <2>2. \A j \in 2..Len(ns) : par[j] \in 1..(j - 1)
    BY <1>1 DEF Family
  <2>3. HangsLast(Len(ns), p, crumbs, par, pars)
    BY <1>2, <2>1, <2>2 DEF HangsLast
  <2>4. QED
    BY ONLY <1>1, <2>1, <2>3, PreorderGrows
<1>7. QED
  BY <1>2, <1>4, <1>5, <1>6 DEF TreeFits

LEMMA OneMoreTag ==
  ASSUME NEW tags \in Seq(Tag), NEW t \in Tag, IsInjective(tags),
         \A l \in 1..Len(tags) : tags[l] # t
  PROVE  IsInjective(Append(tags, t))
<1> DEFINE more == Append(tags, t)
           n == Len(tags)
<1>1. /\ n \in Nat /\ DOMAIN tags = 1..n /\ DOMAIN more = 1..(n + 1) /\ more[n + 1] = t
      /\ \A l \in 1..n : more[l] = tags[l]
  BY AppendProperties, LenProperties
<1>2. \A a, b \in 1..n : tags[a] = tags[b] => a = b
  BY <1>1 DEF IsInjective
<1>3. \A l \in 1..n : tags[l] # t
  OBVIOUS
<1> HIDE DEF more, n
<1>4. ASSUME NEW a \in 1..(n + 1), NEW b \in 1..(n + 1), more[a] = more[b] PROVE a = b
  <2>1. \A l \in 1..(n + 1) : l \in 1..n \/ l = n + 1
    BY ONLY <1>1
  <2>2. QED
    BY ONLY <1>1, <1>2, <1>3, <1>4, <2>1
<1>5. IsInjective(more)
  BY <1>1, <1>4 DEF IsInjective
<1>6. QED
  BY <1>5 DEF more

(* A tag t that is not open is opened: node is hung below the last crumb. *)
Opens(ns, crumbs, stk, m, t, node, ms, crumbs2, stk2) ==
  /\ ns \in Seq(NodeRecord) /\ m \in Nat \ {0} /\ Len(crumbs) = m
  /\ \A k \in 1..m : crumbs[k] \in 1..Len(ns)
  /\ t \in Tag \ Greedy /\ node \in NodeRecord
  /\ node.last = 0 /\ node.kids = 0 /\ node.tag = t
  /\ Hangs(ms, ns, crumbs[m], node)
  /\ \A l \in 1..(m - 1) : stk[l] # t
  /\ Len(crumbs2) = m + 1 /\ crumbs2[m + 1] = Len(ns) + 1
  /\ \A k \in 1..m : crumbs2[k] = crumbs[k]
  /\ stk2[m] = t /\ \A l \in 1..(m - 1) : stk2[l] = stk[l]

(* It has the stack around it, and itself. *)
LEMMA FitsPushed ==
  ASSUME NEW ns, NEW crumbs, NEW stk, NEW m, NEW t, NEW node, NEW ms, NEW crumbs2, NEW stk2,
         Opens(ns, crumbs, stk, m, t, node, ms, crumbs2, stk2),
         NEW depth \in Nat \ {0}, NEW kid, NEW par, NEW around,
         TreeFits(ns, crumbs, stk, depth, kid, par, around),
         NEW deeper, deeper = IF m > depth THEN m ELSE depth
  PROVE  \E kids, pars, arounds : TreeFits(ms, crumbs2, stk2, deeper, kids, pars, arounds)
<1>1. /\ ns \in Seq(NodeRecord) /\ m \in Nat \ {0} /\ Len(crumbs) = m
      /\ \A k \in 1..m : crumbs[k] \in 1..Len(ns)
      /\ t \in Tag \ Greedy /\ node \in NodeRecord
      /\ node.last = 0 /\ node.kids = 0 /\ node.tag = t
      /\ Hangs(ms, ns, crumbs[m], node)
      /\ \A l \in 1..(m - 1) : stk[l] # t
      /\ Len(crumbs2) = m + 1 /\ crumbs2[m + 1] = Len(ns) + 1
      /\ \A k \in 1..m : crumbs2[k] = crumbs[k]
      /\ stk2[m] = t /\ \A l \in 1..(m - 1) : stk2[l] = stk[l]
  BY DEF Opens
<1> USE <1>1
<1> DEFINE n == Len(ns)
           p == crumbs[m]
<1>2. /\ Family(ns, kid, par) /\ Surround(ns, par, around)
      /\ AroundOpen(around, crumbs, stk) /\ AroundKept(n, around, depth)
      /\ Preorder(n, crumbs, par)
  BY DEF TreeFits
<1>3. n \in Nat /\ p \in 1..n /\ m \in 1..m /\ Len(ms) = n + 1
  BY LenProperties DEF Hangs
<1>4. PICK kids, pars, arounds :
        /\ Family(ms, kids, pars) /\ Surround(ms, pars, arounds)
        /\ pars[n + 1] = p /\ \A j \in 2..n : pars[j] = par[j]
        /\ \A j \in 1..n : arounds[j] = around[j]
        /\ arounds[n + 1] = Inside(around[p], node.tag)
  <2>1. Hangs(ms, ns, p, node)
    OBVIOUS
  <2> HIDE DEF p
  <2>2. QED
    BY <1>2, <1>3, <2>1, TreeGrows
<1>5. around[p] \in Seq(Tag) /\ t \in Tag \cup {NoTag}
  BY <1>2, <1>3 DEF Surround
<1>6. arounds[n + 1] = Append(around[p], t)
  <2>1. Inside(around[p], t) = Append(around[p], t)
    BY ONLY <1>1, <1>5, InsideTyped
  <2>2. QED
    BY <1>4, <2>1
<1>7. Len(around[p]) = m - 1 /\ \A l \in 1..(m - 1) : around[p][l] = stk[l]
  BY <1>2, <1>3 DEF AroundOpen
<1>8. IsInjective(around[p]) /\ Len(around[p]) <= depth
  BY <1>2, <1>3 DEF AroundKept
<1> HIDE DEF p
<1> DEFINE own == Append(around[p], t)
<1>9. IsInjective(own)
  <2>1. \A l \in 1..Len(around[p]) : around[p][l] # t
    BY <1>7
  <2>2. QED
    BY ONLY <1>1, <1>5, <1>8, <2>1, OneMoreTag
<1>10. /\ Len(own) = m /\ own[m] = t
      /\ \A l \in 1..(m - 1) : own[l] = stk[l]
  <2>1. /\ Len(own) = Len(around[p]) + 1 /\ own[Len(around[p]) + 1] = t
        /\ \A l \in 1..Len(around[p]) : own[l] = around[p][l]
    BY ONLY <1>1, <1>5, AppendProperties
  <2> HIDE DEF own
  <2>2. (m - 1) + 1 = m
    OBVIOUS
  <2>3. QED
    BY ONLY <1>7, <2>1, <2>2
<1> HIDE DEF own
<1>11. arounds[n + 1] = own
  BY <1>6 DEF own
<1>12. ASSUME NEW k \in 1..(m + 1)
       PROVE  /\ Len(arounds[crumbs2[k]]) = k - 1
              /\ \A l \in 1..(k - 1) : arounds[crumbs2[k]][l] = stk2[l]
  <2>1. CASE k = m + 1
    <3>1. arounds[crumbs2[k]] = own /\ k - 1 = m
      BY <1>11, <2>1
    <3>2. \A l \in 1..m : own[l] = stk2[l]
      <4>1. \A l \in 1..m : l \in 1..(m - 1) \/ l = m
        OBVIOUS
      <4>2. QED
        BY <1>10, <4>1
    <3>3. QED
      BY ONLY <1>10, <3>1, <3>2
  <2>2. CASE k # m + 1
    <3>1. k \in 1..m
      BY <2>2
    <3>2. arounds[crumbs2[k]] = around[crumbs[k]]
      BY <1>4, <3>1
    <3>3. Len(around[crumbs[k]]) = k - 1 /\ \A l \in 1..(k - 1) : around[crumbs[k]][l] = stk[l]
      BY <1>2, <3>1 DEF AroundOpen
    <3>4. \A l \in 1..(k - 1) : stk2[l] = stk[l]
      BY <3>1
    <3>5. QED
      BY ONLY <3>2, <3>3, <3>4
  <2>3. QED
    BY <2>1, <2>2
<1>13. AroundOpen(arounds, crumbs2, stk2)
  BY <1>12 DEF AroundOpen
<1>14. deeper \in Nat /\ depth <= deeper /\ m <= deeper /\ (deeper = m \/ deeper = depth)
       /\ (deeper = 1 => TRUE)
  OBVIOUS
<1>15. AroundKept(n + 1, arounds, deeper)
  <2>1. \A j \in 1..n : /\ IsInjective(around[j]) /\ Len(around[j]) <= depth
                        /\ Len(around[j]) \in Nat
    BY <1>2, LenProperties DEF AroundKept, Surround
  <2>2. ASSUME NEW j \in 1..(n + 1) PROVE IsInjective(arounds[j]) /\ Len(arounds[j]) <= deeper
    <3>1. CASE j = n + 1
      BY <1>9, <1>10, <1>11, <1>14, <3>1
    <3>2. CASE j # n + 1
      <4>1. j \in 1..n
        BY ONLY <1>3, <3>2
      <4>2. IsInjective(around[j]) /\ Len(around[j]) <= depth /\ Len(around[j]) \in Nat
        BY <2>1, <4>1
      <4>3. Len(around[j]) <= deeper
        BY <1>14, <4>2
      <4>4. QED
        BY <1>4, <4>1, <4>2, <4>3
    <3>3. QED
      BY <3>1, <3>2
  <2>3. deeper = 1 \/ \E j \in 1..(n + 1) : Len(arounds[j]) = deeper
    <3>1. CASE deeper = m
      <4>1. n + 1 \in 1..(n + 1) /\ Len(arounds[n + 1]) = deeper
        BY <1>3, <1>10, <1>11, <3>1
      <4>2. QED
        BY <4>1
    <3>2. CASE deeper = depth
      <4>1. ASSUME NEW j \in 1..n, Len(around[j]) = depth
            PROVE  \E i \in 1..(n + 1) : Len(arounds[i]) = deeper
        <5>1. j \in 1..(n + 1) /\ Len(arounds[j]) = deeper
          BY <1>3, <1>4, <3>2, <4>1
        <5>2. QED
          BY <5>1
      <4>2. QED
        BY <1>2, <3>2, <4>1 DEF AroundKept
    <3>3. QED
      BY <1>14, <3>1, <3>2
  <2>4. QED
    BY <2>2, <2>3 DEF AroundKept
<1>16. Preorder(n + 1, crumbs2, pars)
  <2>1. /\ \A j \in 2..n : par[j] \in 1..(j - 1)
        /\ \A k \in 1..Len(crumbs) : crumbs[k] \in 1..n /\ crumbs2[k] = crumbs[k]
        /\ Len(crumbs) \in Nat \ {0} /\ p = crumbs[Len(crumbs)]
        /\ Len(crumbs2) = Len(crumbs) + 1 /\ crumbs2[Len(crumbs) + 1] = n + 1
    BY <1>2 DEF Family, p
  <2>2. HangsLast(n, p, crumbs, par, pars)
    BY <1>2, <1>3, <1>4, <2>1 DEF HangsLast
  <2>3. Pushed(crumbs2, crumbs, n + 1)
    BY <2>1 DEF Pushed
  <2> HIDE DEF n
  <2>4. QED
    BY ONLY <1>2, <2>2, <2>3, PreorderGrows
<1>17. TreeFits(ms, crumbs2, stk2, deeper, kids, pars, arounds)
  BY <1>3, <1>4, <1>13, <1>15, <1>16 DEF TreeFits
<1>18. QED
  BY <1>17

(* Nothing is hung anywhere, and of the open tags the first remain. *)
LEMMA FitsCut ==
  ASSUME NEW ns \in Seq(NodeRecord), NEW ms, Len(ms) = Len(ns),
         \A i \in 1..Len(ns) : SameShape(ms[i], ns[i]),
         NEW crumbs, Len(crumbs) \in Nat,
         NEW crumbs2, Len(crumbs2) \in Nat, Len(crumbs2) <= Len(crumbs),
         \A k \in 1..Len(crumbs2) : crumbs2[k] = crumbs[k],
         NEW stk, NEW stk2, \A l \in 1..(Len(crumbs2) - 1) : stk2[l] = stk[l],
         NEW depth, NEW kid, NEW par, NEW around,
         TreeFits(ns, crumbs, stk, depth, kid, par, around)
  PROVE  TreeFits(ms, crumbs2, stk2, depth, kid, par, around)
<1>1. /\ Family(ns, kid, par) /\ Surround(ns, par, around)
      /\ AroundOpen(around, crumbs, stk) /\ AroundKept(Len(ns), around, depth)
      /\ Preorder(Len(ns), crumbs, par)
  BY DEF TreeFits
<1> DEFINE n  == Len(ns)
           m  == Len(crumbs)
           m2 == Len(crumbs2)
<1>2. /\ Len(ms) = n
      /\ \A i \in 1..n : /\ ms[i].tag = ns[i].tag /\ ms[i].first = ns[i].first
                         /\ ms[i].last = ns[i].last /\ ms[i].next = ns[i].next
                         /\ ms[i].kids = ns[i].kids
  BY DEF SameShape
<1>3. Family(ms, kid, par)
  <2>1. /\ \A i \in 1..n :
             /\ ns[i].kids = 0 <=> ns[i].last = 0
             /\ ns[i].kids > 0 => kid[i][1] = ns[i].first /\ kid[i][ns[i].kids] = ns[i].last
             /\ \A k \in 1..ns[i].kids : kid[i][k] \in 2..n /\ par[kid[i][k]] = i
             /\ \A k \in 1..(ns[i].kids - 1) :
                  /\ kid[i][k] # ns[i].last /\ ns[kid[i][k]].next = kid[i][k + 1]
                  /\ kid[i][k] < kid[i][k + 1]
        /\ \A j \in 2..n :
             par[j] \in 1..(j - 1) /\ \E k \in 1..ns[par[j]].kids : kid[par[j]][k] = j
    BY <1>1 DEF Family
  <2>2. n \in Nat /\ \A i \in 1..n : ns[i].kids \in Nat
    <3>1. \A i \in 1..n : ns[i] \in NodeRecord
      BY ElementOfSeq
    <3>2. QED
      BY <3>1, LenProperties DEF NodeRecord
  <2> HIDE DEF n
  <2>3. ASSUME NEW i \in 1..Len(ms)
        PROVE  /\ ms[i].kids = 0 <=> ms[i].last = 0
               /\ ms[i].kids > 0 => kid[i][1] = ms[i].first /\ kid[i][ms[i].kids] = ms[i].last
               /\ \A k \in 1..ms[i].kids : kid[i][k] \in 2..Len(ms) /\ par[kid[i][k]] = i
    <3>1. i \in 1..n
      BY ONLY <1>2
    <3>2. /\ Len(ms) = n /\ ms[i].first = ns[i].first /\ ms[i].last = ns[i].last
          /\ ms[i].kids = ns[i].kids
      BY ONLY <1>2, <3>1
    <3>3. /\ ns[i].kids = 0 <=> ns[i].last = 0
          /\ ns[i].kids > 0 => kid[i][1] = ns[i].first /\ kid[i][ns[i].kids] = ns[i].last
          /\ \A k \in 1..ns[i].kids : kid[i][k] \in 2..n /\ par[kid[i][k]] = i
      BY ONLY <2>1, <3>1
    <3>4. QED
      BY ONLY <3>2, <3>3, Zenon
  <2>4. ASSUME NEW i \in 1..Len(ms), NEW k \in 1..(ms[i].kids - 1)
        PROVE  /\ kid[i][k] # ms[i].last /\ ms[kid[i][k]].next = kid[i][k + 1]
               /\ kid[i][k] < kid[i][k + 1]
    <3>1. i \in 1..n
      BY ONLY <1>2
    <3>2. k \in 1..(ns[i].kids - 1) /\ k \in 1..ns[i].kids
      BY ONLY <1>2, <2>2, <3>1
    <3>3. /\ kid[i][k] \in 2..n /\ kid[i][k] # ns[i].last /\ ns[kid[i][k]].next = kid[i][k + 1]
          /\ kid[i][k] < kid[i][k + 1]
      BY ONLY <2>1, <3>1, <3>2
    <3>4. kid[i][k] \in 1..n
      BY ONLY <2>2, <3>3
    <3>5. QED
      BY ONLY <1>2, <3>1, <3>3, <3>4
  <2>5. ASSUME NEW j \in 2..Len(ms)
        PROVE  par[j] \in 1..(j - 1) /\ \E k \in 1..ms[par[j]].kids : kid[par[j]][k] = j
    <3>1. j \in 2..n
      BY ONLY <1>2
    <3>2. par[j] \in 1..(j - 1) /\ \E k \in 1..ns[par[j]].kids : kid[par[j]][k] = j
      BY ONLY <2>1, <3>1
    <3>3. par[j] \in 1..n
      BY ONLY <2>2, <3>1, <3>2
    <3>4. QED
      BY ONLY <1>2, <3>2, <3>3
  <2>6. QED
    BY ONLY <2>3, <2>4, <2>5 DEF Family
<1>4. Surround(ms, par, around)
  <2>1. /\ \A j \in 1..n : around[j] \in Seq(Tag)
        /\ around[1] = <<>>
        /\ \A j \in 2..n : around[j] = Inside(around[par[j]], ns[j].tag)
    BY <1>1 DEF Surround
  <2>2. \A j \in 2..n : j \in 1..n
    BY LenProperties
  <2>3. \A j \in 2..n : around[j] = Inside(around[par[j]], ms[j].tag)
    BY ONLY <1>2, <2>1, <2>2
  <2>4. QED
    BY ONLY <1>2, <2>1, <2>3 DEF Surround
<1>5. AroundOpen(around, crumbs2, stk2)
  <2>1. ASSUME NEW k \in 1..m2
        PROVE  /\ Len(around[crumbs2[k]]) = k - 1
               /\ \A l \in 1..(k - 1) : around[crumbs2[k]][l] = stk2[l]
    <3>1. k \in 1..m /\ crumbs2[k] = crumbs[k]
      <4>1. m \in Nat /\ m2 \in Nat /\ m2 <= m /\ \A j \in 1..m2 : crumbs2[j] = crumbs[j]
        OBVIOUS
      <4> HIDE DEF m, m2
      <4>2. QED
        BY ONLY <4>1, k \in 1..m2
    <3>2. /\ Len(around[crumbs[k]]) = k - 1
          /\ \A l \in 1..(k - 1) : around[crumbs[k]][l] = stk[l]
      BY <1>1, <3>1 DEF AroundOpen
    <3>3. \A l \in 1..(k - 1) : stk2[l] = stk[l]
      <4>1. m2 \in Nat /\ \A l \in 1..(m2 - 1) : stk2[l] = stk[l]
        OBVIOUS
      <4> HIDE DEF m2
      <4>2. QED
        BY ONLY <4>1, k \in 1..m2
    <3>4. QED
      BY ONLY <3>1, <3>2, <3>3
  <2>2. QED
    BY <2>1 DEF AroundOpen
<1>6. Preorder(n, crumbs2, par)
  <2>1. /\ m \in Nat /\ m2 \in Nat /\ m2 <= m /\ \A k \in 1..m2 : crumbs2[k] = crumbs[k]
        /\ \A j \in 2..n : \A y \in (par[j] + 1)..(j - 1) : par[j] <= par[y]
        /\ \A k \in 1..m : \A y \in (crumbs[k] + 1)..n : crumbs[k] <= par[y]
        /\ \A k, l \in 1..m : k < l => crumbs[k] < crumbs[l]
    BY <1>1 DEF Preorder
  <2>2. m2 = Len(crumbs2)
    OBVIOUS
  <2> HIDE DEF m, m2, n
  <2>3. \A k \in 1..m2 : k \in 1..m
    BY ONLY <2>1
  <2>4. QED
    BY ONLY <2>1, <2>2, <2>3 DEF Preorder
<1>7. QED
  BY <1>1, <1>2, <1>3, <1>4, <1>5, <1>6 DEF TreeFits

-----------------------------------------------------------------------------
(* The tree as it is read from the arena *)

LEMMA ChildrenAre ==
  ASSUME nodes \in Seq(NodeRecord), NEW kid, NEW par, Family(nodes, kid, par), NEW i \in NodeIds
  PROVE  /\ DOMAIN Children(i) = 1..nodes[i].kids
         /\ \A k \in 1..nodes[i].kids : Children(i)[k] = kid[i][k]
<1> DEFINE n == nodes[i].kids
           E(f, k) == IF k = 1 THEN nodes[i].first ELSE nodes[f[k - 1]].next
           w == [k \in 1..n |-> kid[i][k]]
<1>1. n \in Nat
  <2>1. nodes[i] \in NodeRecord
    BY ElementOfSeq DEF NodeIds
  <2>2. QED
    BY <2>1 DEF NodeRecord
<1>2. /\ n > 0 => kid[i][1] = nodes[i].first
      /\ \A k \in 1..(n - 1) : nodes[kid[i][k]].next = kid[i][k + 1]
  <2>1. i \in 1..Len(nodes)
    BY DEF NodeIds
  <2>2. QED
    BY <2>1 DEF Family
<1>3. \A k \in 1..n : w[k] = kid[i][k]
  OBVIOUS
<1> HIDE DEF n
<1>4. ASSUME NEW k \in 1..n PROVE w[k] = E(w, k)
  <2>1. CASE k = 1
    <3>1. n > 0
      BY ONLY <1>1, <2>1
    <3>2. QED
      BY <1>2, <1>3, <2>1, <3>1
  <2>2. CASE k # 1
    <3>1. k - 1 \in 1..n /\ k - 1 \in 1..(n - 1) /\ (k - 1) + 1 = k
      BY ONLY <1>1, <2>2
    <3>2. nodes[kid[i][k - 1]].next = kid[i][k]
      BY <1>2, <3>1
    <3>3. QED
      BY <1>3, <2>2, <3>1, <3>2
  <2>3. QED
    BY <2>1, <2>2
<1>5. w = [k \in 1..n |-> E(w, k)]
  <2>1. w = [k \in 1..n |-> w[k]]
    OBVIOUS
  <2> HIDE DEF w
  <2>2. QED
    BY <1>4, <2>1, Zenon
<1> HIDE DEF w
<1> DEFINE f == CHOOSE f : f = [k \in 1..n |-> E(f, k)]
<1>6. f = [k \in 1..n |-> E(f, k)]
  BY ONLY <1>5, Zenon
<1>7. Children(i) = f
  BY DEF Children, n
<1> HIDE DEF f
<1>8. \A k \in 1..n : f[k] = E(f, k)
  BY <1>6
<1> DEFINE Wrong == {k \in 1..n : f[k] # kid[i][k]}
<1>9. Wrong = {}
  <2> SUFFICES ASSUME Wrong # {} PROVE FALSE
    OBVIOUS
  <2>1. Wrong \in SUBSET Nat
    BY <1>1
  <2>2. PICK k \in Wrong : \A y \in Wrong : k <= y
    <3> HIDE DEF Wrong
    <3>1. QED
      BY <2>1, LeastExists
  <2>3. k \in 1..n /\ f[k] # kid[i][k] /\ f[k] = E(f, k) /\ w[k] = E(w, k) /\ w[k] = kid[i][k]
    BY <1>3, <1>4, <1>8, <2>2
  <2>4. CASE k = 1
    BY <2>3, <2>4
  <2>5. CASE k # 1
    <3>1. k - 1 \in 1..n /\ ~(k <= k - 1)
      BY <1>1, <2>3, <2>5
    <3>2. k - 1 \notin Wrong
      BY <2>2, <3>1
    <3>3. f[k - 1] = w[k - 1]
      BY <1>3, <3>1, <3>2
    <3>4. QED
      BY <2>3, <2>5, <3>3
  <2>6. QED
    BY <2>4, <2>5
<1>10. DOMAIN f = 1..n
  BY <1>6
<1>11. QED
  BY <1>7, <1>9, <1>10 DEF n

LEMMA ParentsAre ==
  ASSUME nodes \in Seq(NodeRecord), NEW kid, NEW par, Family(nodes, kid, par),
         NEW j \in 2..Len(nodes)
  PROVE  ParentOf[j] = par[j]
<1> DEFINE n == Len(nodes)
<1>1. n \in Nat
  BY LenProperties
<1>2. par[j] \in 1..(j - 1) /\ \E k \in 1..nodes[par[j]].kids : kid[par[j]][k] = j
  BY DEF Family
<1>3. \A i \in 1..(j - 1) : i \in NodeIds
  BY <1>1 DEF NodeIds
<1>4. IsParent(par[j], j)
  <2>1. par[j] \in NodeIds
    BY <1>2, <1>3
  <2>2. /\ DOMAIN Children(par[j]) = 1..nodes[par[j]].kids
        /\ \A k \in 1..nodes[par[j]].kids : Children(par[j])[k] = kid[par[j]][k]
    BY <2>1, ChildrenAre
  <2>3. QED
    BY <1>2, <2>2 DEF IsParent
<1>5. ASSUME NEW i \in 1..(j - 1), IsParent(i, j) PROVE i = par[j]
  <2>1. i \in NodeIds
    BY <1>3
  <2>2. /\ DOMAIN Children(i) = 1..nodes[i].kids
        /\ \A k \in 1..nodes[i].kids : Children(i)[k] = kid[i][k]
    BY <2>1, ChildrenAre
  <2>3. PICK k \in 1..nodes[i].kids : kid[i][k] = j
    BY <1>5, <2>2 DEF IsParent
  <2>4. QED
    BY <2>1, <2>3 DEF Family, NodeIds
<1>6. ParentOf[j] = CHOOSE i \in 1..(j - 1) : IsParent(i, j)
  BY DEF ParentOf
<1>7. QED
  BY <1>2, <1>4, <1>5, <1>6

LEMMA AroundAre ==
  ASSUME nodes \in Seq(NodeRecord), NEW kid, NEW par, NEW around,
         Family(nodes, kid, par), Surround(nodes, par, around)
  PROVE  \A j \in NodeIds : TagsAround[j] = around[j]
<1> DEFINE n == Len(nodes)
           E(f, j) == IF j = 1 THEN <<>>
                      ELSE IF nodes[j].tag \in {NoTag} \cup Greedy THEN f[ParentOf[j]]
                      ELSE Append(f[ParentOf[j]], nodes[j].tag)
           w == [j \in NodeIds |-> around[j]]
<1>1. n \in Nat /\ NodeIds = 1..n
  BY LenProperties DEF NodeIds
<1>2. \A j \in 2..n : ParentOf[j] = par[j] /\ par[j] \in 1..(j - 1)
  <2>1. \A j \in 2..n : ParentOf[j] = par[j]
    BY ParentsAre
  <2>2. \A j \in 2..n : par[j] \in 1..(j - 1)
    BY DEF Family
  <2>3. QED
    BY <2>1, <2>2
<1>3. /\ around[1] = <<>> /\ \A j \in NodeIds : w[j] = around[j]
      /\ \A j \in 2..n : around[j] = Inside(around[par[j]], nodes[j].tag)
  BY DEF Surround
<1> HIDE DEF n
<1>4. \A j \in NodeIds : j # 1 => j \in 2..n /\ ParentOf[j] = par[j] /\ par[j] \in NodeIds
                                  /\ par[j] \in 1..(j - 1)
  BY <1>1, <1>2
<1>5. ASSUME NEW j \in NodeIds PROVE w[j] = E(w, j)
  <2>1. CASE j = 1
    BY <1>3, <2>1
  <2>2. CASE j # 1
    <3>1. w[j] = Inside(w[par[j]], nodes[j].tag) /\ ParentOf[j] = par[j]
      BY <1>3, <1>4, <2>2
    <3> HIDE DEF w
    <3>2. QED
      BY <2>2, <3>1 DEF Inside
  <2>3. QED
    BY <2>1, <2>2
<1>6. w = [j \in NodeIds |-> E(w, j)]
  <2>1. w = [j \in NodeIds |-> w[j]]
    OBVIOUS
  <2> HIDE DEF w
  <2>2. QED
    BY <1>5, <2>1, Zenon
<1> HIDE DEF w
<1> DEFINE f == CHOOSE f : f = [j \in NodeIds |-> E(f, j)]
<1>7. f = [j \in NodeIds |-> E(f, j)]
  BY ONLY <1>6, Zenon
<1>8. TagsAround = f
  BY DEF TagsAround
<1> HIDE DEF f
<1>9. \A j \in NodeIds : f[j] = E(f, j)
  BY <1>7
<1> DEFINE Wrong == {j \in NodeIds : f[j] # w[j]}
<1>10. Wrong = {}
  <2> SUFFICES ASSUME Wrong # {} PROVE FALSE
    OBVIOUS
  <2>1. Wrong \in SUBSET Nat
    BY <1>1
  <2>2. PICK j \in Wrong : \A y \in Wrong : j <= y
    <3> HIDE DEF Wrong
    <3>1. QED
      BY <2>1, LeastExists
  <2>3. j \in NodeIds /\ f[j] # w[j] /\ f[j] = E(f, j) /\ w[j] = E(w, j)
    BY <1>5, <1>9, <2>2
  <2>4. CASE j = 1
    BY <2>3, <2>4
  <2>5. CASE j # 1
    <3>1. ParentOf[j] = par[j] /\ par[j] \in NodeIds /\ ~(j <= par[j])
      BY <1>1, <1>4, <2>3, <2>5
    <3>2. f[ParentOf[j]] = w[ParentOf[j]]
      BY <2>2, <3>1
    <3>3. QED
      BY <2>3, <2>5, <3>2
  <2>6. QED
    BY <2>4, <2>5
<1>11. QED
  BY <1>3, <1>8, <1>10

LEMMA TreeHolds == ASSUME IInv, TreeOK PROVE NoTagInItself
<1> SUFFICES ASSUME phase = "done" PROVE NoTagInItself
  BY DEF NoTagInItself
<1>1. PICK kid, par, around :
        TreeFits(nodes, breadcrumbs, stack, totals.maxDepth, kid, par, around)
  BY DEF TreeOK, Deepest
<1>2. /\ Family(nodes, kid, par) /\ Surround(nodes, par, around)
      /\ AroundKept(Len(nodes), around, totals.maxDepth)
  BY <1>1 DEF TreeFits
<1>3. nodes \in Seq(NodeRecord) /\ 1 \in NodeIds
  BY ArenaFacts DEF IInv, RecordsOK, NodeIds
<1>4. \A j \in NodeIds : TagsAround[j] = around[j]
  BY <1>2, <1>3, AroundAre
<1> DEFINE A == TagsAround
<1> HIDE DEF A
<1>5. \A j \in NodeIds : IsInjective(A[j]) /\ Len(A[j]) <= totals.maxDepth
  BY <1>2, <1>4 DEF AroundKept, NodeIds, A
<1>6. \E j \in NodeIds : Len(A[j]) = totals.maxDepth \/ (totals.maxDepth = 1 /\ A[j] = <<>>)
  <2>1. A[1] = <<>>
    BY <1>2, <1>3, <1>4 DEF Surround, A
  <2>2. totals.maxDepth = 1 \/ \E j \in NodeIds : Len(A[j]) = totals.maxDepth
    BY <1>2, <1>4 DEF AroundKept, NodeIds, A
  <2>3. QED
    BY <1>3, <2>1, <2>2
<1>7. setting.maxParseDepth > 0 => totals.maxDepth <= setting.maxParseDepth
  BY DEF IInv, DepthKept
<1>8. QED
  BY <1>5, <1>6, <1>7 DEF NoTagInItself, A

-----------------------------------------------------------------------------
(* What the actions do to the tree *)

LEMMA NodeIsBare ==
  ASSUME NEW type, NEW tag, NEW start, NEW end
  PROVE  LET node == Node(type, tag, start, end)
         IN node.last = 0 /\ node.kids = 0 /\ node.tag = tag
  BY DEF Node

LEMMA TreeStays ==
  ASSUME IInv, TreeOK, Len(nodes') = Len(nodes),
         \A i \in 1..Len(nodes) : SameShape(nodes'[i], nodes[i]),
         Len(breadcrumbs') \in Nat, Len(breadcrumbs') <= Len(breadcrumbs),
         \A k \in 1..Len(breadcrumbs') : breadcrumbs'[k] = breadcrumbs[k],
         \A l \in 1..(Len(breadcrumbs') - 1) : stack'[l] = stack[l], Deepest' = Deepest
  PROVE  TreeOK'
<1>1. nodes \in Seq(NodeRecord) /\ Len(breadcrumbs) \in Nat
  BY ArenaLinked
<1>2. PICK kid, par, around : TreeFits(nodes, breadcrumbs, stack, Deepest, kid, par, around)
  BY DEF TreeOK
<1> DEFINE ns == nodes'
           crumbs == breadcrumbs'
           stk == stack'
<1>3. TreeFits(ns, crumbs, stk, Deepest, kid, par, around)
  <2>1. /\ Len(ns) = Len(nodes) /\ \A i \in 1..Len(nodes) : SameShape(ns[i], nodes[i])
        /\ Len(crumbs) \in Nat /\ Len(crumbs) <= Len(breadcrumbs)
        /\ \A k \in 1..Len(crumbs) : crumbs[k] = breadcrumbs[k]
        /\ \A l \in 1..(Len(crumbs) - 1) : stk[l] = stack[l]
    OBVIOUS
  <2> HIDE DEF ns, crumbs, stk
  <2>2. QED
    BY ONLY <1>1, <1>2, <2>1, FitsCut
<1>4. QED
  BY <1>3 DEF TreeOK

LEMMA TreeQuiet ==
  ASSUME TreeOK, nodes' = nodes, breadcrumbs' = breadcrumbs, stack' = stack, Deepest' = Deepest
  PROVE  TreeOK'
  BY DEF TreeOK

(* A node without tags of its own is added to an open one, or is left out. *)
LEMMA TreeFlat ==
  ASSUME IInv, TreeOK, NEW node \in NodeRecord, node.last = 0, node.kids = 0,
         node.tag \in {NoTag} \cup Greedy, nodes' = Appended(nodes, Parent, node),
         breadcrumbs' = breadcrumbs, stack' = stack, Deepest' = Deepest
  PROVE  TreeOK'
<1>1. PICK kid, par, around : TreeFits(nodes, breadcrumbs, stack, Deepest, kid, par, around)
  BY DEF TreeOK
<1> DEFINE ms == Appended(nodes, Parent, node)
<1>2. Hangs(ms, nodes, Parent, node)
  BY ArenaLinked, AppendedLinks
<1> HIDE DEF ms
<1>3. \E kids, pars, arounds : TreeFits(ms, breadcrumbs, stack, Deepest, kids, pars, arounds)
  BY <1>1, <1>2, ArenaLinked, FitsFlat
<1>4. nodes' = ms
  BY DEF ms
<1>5. QED
  BY <1>3, <1>4 DEF TreeOK

LEMMA DeepestStays ==
  ASSUME phase # "done", phase' # "done", maxDepth' = maxDepth
  PROVE  Deepest' = Deepest
  BY DEF Deepest

LEMMA AddTextTree ==
  ASSUME IInv, TreeOK, Parsing, NEW tok, Reads(tok), NEW items, AddText(tok, items)
  PROVE  TreeOK'
<1>1. /\ breadcrumbs' = breadcrumbs /\ stack' = stack /\ maxDepth' = maxDepth
      /\ phase = "tokens" /\ phase' = "tokens"
  BY DEF AddText, Parsing
<1>2. Deepest' = Deepest
  BY <1>1, DeepestStays
<1> DEFINE end == tok.pos + tok.width
           node == Node("text", NoTag, tok.pos, end)
<1>3. tok.pos \in Nat /\ end \in Nat /\ 0 \in Nat
  BY DEF Reads, TokenRecord
<1>4. nodes' = Appended(nodes, Parent, node) \/ nodes' = nodes
  BY DEF AddText
<1> HIDE DEF end
<1>5. node \in NodeRecord
  BY <1>3, NodeTyped
<1>6. node.last = 0 /\ node.kids = 0 /\ node.tag = NoTag
  BY NodeIsBare
<1> HIDE DEF node
<1>7. CASE nodes' = Appended(nodes, Parent, node)
  BY <1>1, <1>2, <1>5, <1>6, <1>7, TreeFlat
<1>8. CASE nodes' = nodes
  BY <1>1, <1>2, <1>8, TreeQuiet
<1>9. QED
  BY <1>4, <1>7, <1>8

LEMMA TextTree == ASSUME IInv, TreeOK, ProcessText PROVE TreeOK'
<1>1. PICK tok \in Tokens({"text"}) :
        Parsing /\ input' = Append(input, tok) /\ AddText(tok, <<>>)
  BY DEF ProcessText
<1>2. Reads(tok)
  BY <1>1, TextTokenFacts DEF IInv
<1>3. QED
  BY <1>1, <1>2, AddTextTree

LEMMA MismatchedTree == ASSUME IInv, TreeOK, MismatchedClosingTag PROVE TreeOK'
<1>1. PICK tok \in TagTokens(Closers) :
        /\ Parsing /\ input' = Append(input, tok)
        /\ AddText(tok, <<Warning("OpenCloseTagMismatch", tok.pos)>>)
  BY DEF MismatchedClosingTag
<1>2. Reads(tok)
  BY <1>1, OpenersFacts, PassedOn DEF IInv
<1>3. QED
  BY <1>1, <1>2, AddTextTree

LEMMA LeftOutTree ==
  ASSUME IInv, TreeOK,
         ProcessSkipped \/ DuplicateNestedTag \/ MisplacedClosingTag \/ RefuseTag \/ EndOfInput
  PROVE  TreeOK'
<1>1. /\ nodes' = nodes /\ breadcrumbs' = breadcrumbs /\ stack' = stack /\ maxDepth' = maxDepth
      /\ phase # "done" /\ phase' # "done"
  <2>1. CASE ProcessSkipped
    BY <2>1 DEF ProcessSkipped, Discard, Parsing, ast, places
  <2>2. CASE DuplicateNestedTag
    BY <2>2 DEF DuplicateNestedTag, Discard, Parsing, ast, places
  <2>3. CASE MisplacedClosingTag
    BY <2>3 DEF MisplacedClosingTag, Discard, Parsing, ast, places
  <2>4. CASE RefuseTag
    BY <2>4 DEF RefuseTag, Parsing, ast
  <2>5. CASE EndOfInput
    BY <2>5 DEF EndOfInput, ast, pooled, places
  <2>6. QED
    BY <2>1, <2>2, <2>3, <2>4, <2>5
<1>2. QED
  BY <1>1, DeepestStays, TreeQuiet

LEMMA AttributeTree == ASSUME IInv, TreeOK, ProcessAttribute PROVE TreeOK'
<1>1. /\ \/ nodes' = AttributeRange(nodes, lastNode, Len(attributes) + 1)
         \/ nodes' = nodes
      /\ breadcrumbs' = breadcrumbs /\ stack' = stack /\ maxDepth' = maxDepth
      /\ phase = "tokens" /\ phase' = "tokens"
  BY DEF ProcessAttribute, Parsing, places
<1>2. Deepest' = Deepest
  BY <1>1, DeepestStays
<1>3. /\ nodes \in Seq(NodeRecord) /\ lastNode \in 1..Len(nodes) /\ Len(attributes) + 1 \in Nat
      /\ Len(breadcrumbs) \in Nat
  BY ArenaFacts, ArenaLinked DEF IInv, RecordsOK, LinksOK, NodeIds
<1> DEFINE ms == AttributeRange(nodes, lastNode, Len(attributes) + 1)
<1>4. Len(ms) = Len(nodes) /\ \A i \in 1..Len(nodes) : SameShape(ms[i], nodes[i])
  BY <1>3, AttributeShape
<1> HIDE DEF ms
<1>5. CASE nodes' = ms
  BY <1>1, <1>2, <1>3, <1>4, <1>5, TreeStays
<1>6. CASE nodes' = nodes
  BY <1>1, <1>2, <1>6, TreeQuiet
<1>7. QED
  BY <1>1, <1>5, <1>6 DEF ms

(* A greedy tag is added with its payload below it, or alone, or not at all. *)
LEMMA GreedyTree == ASSUME IInv, TreeOK, GreedyNode PROVE TreeOK'
<1>1. PICK tok \in TagTokens(Greedy) :
        /\ Parsing /\ input' = Append(input, tok)
        /\ breadcrumbs' = breadcrumbs /\ stack' = stack /\ maxDepth' = maxDepth
        /\ nodes' = Paired(tok) \/ nodes' = Tagged(tok) \/ nodes' = nodes
  BY DEF GreedyNode, Paired, Tagged, PayloadNode, TagNode
<1>2. Greedy \in SUBSET Tag /\ RecordsOK
  BY ParserAssumption DEF IInv
<1>3. /\ Reads(tok) /\ tok.type \in Greedy /\ tok.type \in Tag /\ tok.width \in Width[tok.type]
      /\ tok.width \in Nat /\ tok.pos \in Nat
  BY <1>1, <1>2, PassedOn
<1>4. tok.width >= 2
  BY <1>3, ParserAssumption
<1>5. Deepest' = Deepest
  <2>1. phase = "tokens" /\ phase' = "tokens"
    BY <1>1 DEF Parsing
  <2>2. QED
    BY <1>1, <2>1, DeepestStays
<1> DEFINE node == TagNode(tok)
           payload == PayloadNode(tok)
           tagged == Tagged(tok)
<1>6. /\ node \in NodeRecord /\ payload \in NodeRecord
      /\ node.last = 0 /\ node.kids = 0 /\ node.tag \in {NoTag} \cup Greedy
      /\ payload.last = 0 /\ payload.kids = 0 /\ payload.tag \in {NoTag} \cup Greedy
  <2>1. tok.pos + tok.width \in Nat /\ PayloadStart(tok) \in Nat /\ PayloadEnd(tok) \in Nat
        /\ 0 \in Nat
    BY <1>3, <1>4 DEF PayloadStart, PayloadEnd
  <2>2. node \in NodeRecord /\ payload \in NodeRecord
    BY <1>3, <2>1, NodeTyped DEF TagNode, PayloadNode
  <2>3. /\ node.last = 0 /\ node.kids = 0 /\ node.tag = tok.type
        /\ payload.last = 0 /\ payload.kids = 0 /\ payload.tag = NoTag
    BY NodeIsBare DEF TagNode, PayloadNode
  <2>4. QED
    BY <1>3, <2>2, <2>3
<1>7. CASE nodes' = nodes
  BY <1>1, <1>5, <1>7, TreeQuiet
<1>8. CASE nodes' = tagged
  <2>1. nodes' = Appended(nodes, Parent, node)
    BY <1>8 DEF Tagged
  <2> HIDE DEF node
  <2>2. QED
    BY <1>1, <1>5, <1>6, <2>1, TreeFlat
<1>9. CASE nodes' = Paired(tok)
  <2>1. PICK kid, par, around : TreeFits(nodes, breadcrumbs, stack, Deepest, kid, par, around)
    BY DEF TreeOK
  <2>2. Hangs(tagged, nodes, Parent, node)
    <3>1. tagged = Appended(nodes, Parent, node)
      BY DEF Tagged
    <3> HIDE DEF tagged, node
    <3>2. QED
      BY <1>6, <3>1, ArenaLinked, AppendedLinks
  <2>3. /\ tagged \in Seq(NodeRecord) /\ Linked(tagged, Len(tagged))
        /\ Len(tagged) = Len(nodes) + 1
    BY <1>3, NodeOfToken DEF Grows, Tagged, TagNode
  <2>4. Paired(tok) = Appended(tagged, Len(nodes) + 1, payload)
    BY DEF Paired
  <2> HIDE DEF tagged, node, payload
  <2>5. PICK kids, pars, arounds :
          TreeFits(tagged, breadcrumbs, stack, Deepest, kids, pars, arounds)
    BY <1>6, <2>1, <2>2, ArenaLinked, FitsFlat
  <2>6. /\ Len(nodes) + 1 \in 1..Len(tagged) /\ Len(nodes) + 1 = Len(tagged)
        /\ Len(breadcrumbs) \in Nat \ {0}
        /\ \A k \in 1..Len(breadcrumbs) : breadcrumbs[k] \in 1..Len(tagged)
    BY <2>3, ArenaLinked
  <2> DEFINE pair == Appended(tagged, Len(nodes) + 1, payload)
  <2>7. Hangs(pair, tagged, Len(nodes) + 1, payload)
    BY <1>6, <2>3, <2>6, AppendedLinks
  <2> HIDE DEF pair
  <2>8. \E kids2, pars2, arounds2 :
          TreeFits(pair, breadcrumbs, stack, Deepest, kids2, pars2, arounds2)
    BY ONLY <1>6, <2>3, <2>5, <2>6, <2>7, FitsFlat
  <2>9. nodes' = pair
    BY <1>9, <2>4 DEF pair
  <2>10. QED
    BY <1>1, <1>5, <2>8, <2>9 DEF TreeOK
<1>10. QED
  BY <1>1, <1>7, <1>8, <1>9

(* A tag that is opened is not among the open ones. *)
LEMMA OpenTree == ASSUME IInv, TreeOK, OpenTag PROVE TreeOK'
<1>1. PICK tok \in TagTokens(Openers) :
        /\ Parsing /\ input' = Append(input, tok) /\ ~IsOpenAnywhere(tok.type)
        /\ nodes' = Appended(nodes, Parent, TagNode(tok))
        /\ breadcrumbs' = Append(breadcrumbs, Len(nodes) + 1)
        /\ stack' = Append(stack, tok.type)
        /\ maxDepth' = IF Len(stack') > maxDepth THEN Len(stack') ELSE maxDepth
  BY DEF OpenTag, TagNode
<1>2. /\ RecordsOK /\ StacksOK /\ OpenedOnce
      /\ maxDepth \in Nat \ {0} /\ breadcrumbs \in Seq(Nat) /\ stack \in Seq(Tag)
  BY DEF IInv, RecordsOK, StacksOK
<1> DEFINE t     == tok.type
           node  == TagNode(tok)
           m     == Len(breadcrumbs)
           depth == maxDepth
           ns    == nodes
<1>3. Reads(tok) /\ t \in Tag \ Greedy /\ t \in Tag /\ tok.pos \in Nat /\ tok.width \in Nat
  BY <1>1, <1>2, OpenersFacts, OpenersNotGreedy, PassedOn
<1>4. node \in NodeRecord /\ node.last = 0 /\ node.kids = 0 /\ node.tag = t
  <2>1. tok.pos + tok.width \in Nat /\ 0 \in Nat
    BY <1>3
  <2>2. node \in NodeRecord
    BY <1>3, <2>1, NodeTyped DEF TagNode
  <2>3. QED
    BY <2>2, NodeIsBare DEF TagNode
<1>5. /\ ns \in Seq(NodeRecord) /\ m \in Nat \ {0} /\ Len(ns) \in Nat
      /\ Parent = breadcrumbs[m] /\ breadcrumbs[m] \in 1..Len(ns) /\ Linked(ns, Len(ns))
      /\ \A k \in 1..m : breadcrumbs[k] \in 1..Len(ns)
  BY ArenaLinked
<1>6. Len(stack) = m - 1 /\ m - 1 \in Nat
  BY <1>2, StackFacts
<1>7. /\ Len(breadcrumbs') = m + 1 /\ breadcrumbs'[m + 1] = Len(ns) + 1
      /\ \A k \in 1..m : breadcrumbs'[k] = breadcrumbs[k]
  BY <1>1, <1>2, <1>5, AppendProperties
<1>8. /\ Len(stack') = m /\ stack'[m] = t
      /\ \A l \in 1..(m - 1) : stack'[l] = stack[l]
  <2>1. /\ Len(stack') = Len(stack) + 1 /\ stack'[Len(stack) + 1] = t
        /\ \A l \in 1..Len(stack) : stack'[l] = stack[l]
    BY <1>1, <1>2, <1>3, AppendProperties
  <2>2. Len(stack) + 1 = m
    BY <1>5, <1>6
  <2>3. QED
    BY <1>6, <2>1, <2>2
<1>9. \A l \in 1..(m - 1) : stack[l] # t
  BY <1>1, <1>2, <1>6 DEF OpenedOnce, IsOpenAnywhere
<1>10. PICK kid, par, around : TreeFits(ns, breadcrumbs, stack, depth, kid, par, around)
  <2>1. Deepest = depth
    BY <1>1 DEF Deepest, Parsing
  <2>2. QED
    BY <2>1 DEF TreeOK
<1>11. Hangs(nodes', ns, breadcrumbs[m], node)
  <2>1. nodes' = Appended(ns, breadcrumbs[m], node)
    BY <1>1, <1>5
  <2> HIDE DEF node, ns, m
  <2>2. QED
    BY <1>4, <1>5, <2>1, AppendedLinks
<1>12. Deepest' = IF m > depth THEN m ELSE depth
  BY <1>1, <1>8 DEF Deepest, Parsing
<1> DEFINE ms      == nodes'
           crumbs  == breadcrumbs
           crumbs2 == breadcrumbs'
           stk     == stack
           stk2    == stack'
           deeper  == IF m > depth THEN m ELSE depth
<1>13. \E kids, pars, arounds : TreeFits(ms, crumbs2, stk2, deeper, kids, pars, arounds)
  <2>1. Opens(ns, crumbs, stk, m, t, node, ms, crumbs2, stk2)
    <3> HIDE DEF node
    <3>1. QED
      BY <1>3, <1>4, <1>5, <1>7, <1>8, <1>9, <1>11 DEF Opens
  <2>2. depth \in Nat \ {0} /\ TreeFits(ns, crumbs, stk, depth, kid, par, around)
    BY <1>2, <1>10
  <2> HIDE DEF ms, crumbs, crumbs2, stk, stk2, ns, node, t, m, depth
  <2>3. deeper = IF m > depth THEN m ELSE depth
    OBVIOUS
  <2> HIDE DEF deeper
  <2>4. QED
    BY ONLY <2>1, <2>2, <2>3, FitsPushed
<1>14. QED
  BY <1>12, <1>13 DEF TreeOK

(* The end of a tag that is closed changes no shape. *)
LEMMA PopTree ==
  ASSUME IInv, TreeOK, NEW w \in Nat, PopTag(w), Len(breadcrumbs) > 1, Deepest' = Deepest
  PROVE  TreeOK'
<1>1. RecordsOK /\ StacksOK
  BY DEF IInv
<1>2. /\ nodes \in Seq(NodeRecord) /\ Parent \in 1..Len(nodes)
      /\ Last(cumWidth) \in Nat /\ nodes[Parent].start \in Nat
  <2>1. /\ Len(breadcrumbs) \in Nat \ {0}
        /\ Parent = breadcrumbs[Len(breadcrumbs)] /\ Parent \in NodeIds
        /\ Last(cumWidth) = cumWidth[Len(breadcrumbs)]
        /\ \A k \in 1..Len(breadcrumbs) :
             cumWidth[k] \in Nat /\ nodes[breadcrumbs[k]].start \in Nat
    BY <1>1, StackFacts
  <2>2. Len(breadcrumbs) \in 1..Len(breadcrumbs)
    BY <2>1
  <2>3. QED
    BY <1>1, <2>1, <2>2 DEF NodeIds, RecordsOK
<1> DEFINE v  == nodes[Parent].start + Last(cumWidth) + w
           ms == [nodes EXCEPT ![Parent].end = v]
<1>3. v \in Nat /\ nodes' = ms /\ breadcrumbs' = Front(breadcrumbs) /\ stack' = Front(stack)
  <2>1. v \in Nat
    BY ONLY <1>2, w \in Nat
  <2>2. nodes' = ms /\ breadcrumbs' = Front(breadcrumbs) /\ stack' = Front(stack)
    BY DEF PopTag
  <2>3. QED
    BY ONLY <2>1, <2>2
<1> HIDE DEF v
<1>4. Len(ms) = Len(nodes) /\ \A i \in 1..Len(nodes) : SameShape(ms[i], nodes[i])
  BY <1>2, <1>3, EndShape
<1> HIDE DEF ms
<1>5. /\ breadcrumbs \in Seq(Nat) /\ stack \in Seq(Tag) /\ Len(stack) = Len(breadcrumbs) - 1
      /\ Len(breadcrumbs) \in Nat /\ breadcrumbs # <<>> /\ stack # <<>>
  <2>1. Len(stack) = Len(breadcrumbs) - 1 /\ Len(breadcrumbs) \in Nat
    BY <1>1, StackFacts
  <2>2. breadcrumbs \in Seq(Nat) /\ stack \in Seq(Tag)
    BY <1>1 DEF StacksOK
  <2>3. Len(breadcrumbs) # 0 /\ Len(stack) # 0
    BY <2>1
  <2>4. QED
    BY <2>1, <2>2, <2>3, EmptySeq
<1>6. /\ Len(breadcrumbs') = Len(breadcrumbs) - 1
      /\ \A k \in 1..(Len(breadcrumbs) - 1) : breadcrumbs'[k] = breadcrumbs[k]
      /\ \A l \in 1..(Len(stack) - 1) : stack'[l] = stack[l]
  BY <1>3, <1>5, FrontFacts
<1>7. /\ Len(breadcrumbs') \in Nat /\ Len(breadcrumbs') <= Len(breadcrumbs)
      /\ \A k \in 1..Len(breadcrumbs') : breadcrumbs'[k] = breadcrumbs[k]
      /\ \A l \in 1..(Len(breadcrumbs') - 1) : stack'[l] = stack[l]
  BY <1>5, <1>6
<1>8. Len(nodes') = Len(nodes) /\ \A i \in 1..Len(nodes) : SameShape(nodes'[i], nodes[i])
  BY <1>3, <1>4
<1>9. QED
  BY <1>7, <1>8, TreeStays

LEMMA CloseTree == ASSUME IInv, TreeOK, CloseTag PROVE TreeOK'
<1>1. PICK tok \in TagTokens(Tag \ Greedy) :
        /\ Parsing /\ input' = Append(input, tok) /\ PopTag(tok.width) /\ Top # NoTag
  BY DEF CloseTag
<1>2. tok.width \in Nat
  BY <1>1, PassedOn DEF IInv
<1>3. Len(breadcrumbs) > 1
  <2>1. stack # <<>> /\ stack \in Seq(Tag) /\ RecordsOK /\ StacksOK
    BY <1>1 DEF Top, IInv, StacksOK
  <2>2. Len(stack) # 0 /\ Len(stack) \in Nat /\ Len(stack) = Len(breadcrumbs) - 1
        /\ Len(breadcrumbs) \in Nat
    BY <2>1, StackFacts, EmptySeq
  <2>3. QED
    BY <2>2
<1>4. Deepest' = Deepest
  BY <1>1, DeepestStays DEF Parsing, PopTag
<1>5. QED
  BY <1>1, <1>2, <1>3, <1>4, PopTree

LEMMA ForceCloseTree == ASSUME IInv, TreeOK, ForceClose PROVE TreeOK'
<1>1. phase = "closing" /\ phase' = "closing" /\ PopTag(0) /\ Len(breadcrumbs) > 1
  BY DEF ForceClose
<1>2. Deepest' = Deepest
  BY <1>1, DeepestStays DEF PopTag
<1>3. QED
  BY <1>1, <1>2, PopTree

LEMMA FinalizeTree == ASSUME IInv, TreeOK, Finalize PROVE TreeOK'
<1>1. /\ phase = "closing" /\ phase' = "done" /\ Len(breadcrumbs) = 1
      /\ nodes' = [nodes EXCEPT ![1].end = Last(cumWidth)]
      /\ totals' = [maxDepth |-> maxDepth, textByteLen |-> totals.textByteLen + TextByteLen,
                    totalTextNodes |-> textNodes + TextTokens, totalTagNodes |-> totalTagNodes]
      /\ breadcrumbs' = <<1>>
  BY DEF Finalize, Reset
<1>2. RecordsOK /\ StacksOK /\ breadcrumbs[1] = 1
  BY DEF IInv, Telescope
<1>3. nodes \in Seq(NodeRecord) /\ 1 \in 1..Len(nodes) /\ Last(cumWidth) \in Nat
  BY <1>1, <1>2, StackFacts DEF NodeIds, RecordsOK
<1>4. Deepest' = Deepest
  BY <1>1 DEF Deepest
<1>5. Len(nodes') = Len(nodes) /\ \A i \in 1..Len(nodes) : SameShape(nodes'[i], nodes[i])
  <2> DEFINE v  == Last(cumWidth)
             ms == [nodes EXCEPT ![1].end = v]
  <2>1. v \in Nat
    BY <1>3
  <2> HIDE DEF v
  <2>2. Len(ms) = Len(nodes) /\ \A i \in 1..Len(nodes) : SameShape(ms[i], nodes[i])
    BY <1>3, <2>1, EndShape
  <2>3. nodes' = ms
    BY <1>1 DEF v
  <2> HIDE DEF ms
  <2>4. QED
    BY <2>2, <2>3
<1>6. /\ Len(breadcrumbs') = 1 /\ breadcrumbs'[1] = breadcrumbs[1]
      /\ \A k \in 1..1 : k = 1
      /\ \A l \in 1..(1 - 1) : FALSE
  BY <1>1, <1>2
<1>7. /\ Len(breadcrumbs') \in Nat /\ Len(breadcrumbs') <= Len(breadcrumbs)
      /\ \A k \in 1..Len(breadcrumbs') : breadcrumbs'[k] = breadcrumbs[k]
      /\ \A l \in 1..(Len(breadcrumbs') - 1) : stack'[l] = stack[l]
  BY <1>1, <1>6
<1>8. QED
  BY <1>4, <1>5, <1>7, TreeStays

(* The root alone, with nothing around it. *)
LEMMA StartTree == AtStart => TreeOK
<1> SUFFICES ASSUME AtStart PROVE TreeOK
  OBVIOUS
<1>1. /\ phase # "done" /\ nodes = <<Root>> /\ breadcrumbs = <<1>> /\ maxDepth = 1
  BY DEF AtStart, Fresh
<1>2. Len(nodes) = 1 /\ nodes[1] = Root /\ Root.last = 0 /\ Root.kids = 0
  BY <1>1 DEF Root, Node
<1>3. Len(breadcrumbs) = 1 /\ breadcrumbs[1] = 1 /\ Deepest = 1
  BY <1>1 DEF Deepest
<1> DEFINE none   == [i \in {1} |-> <<>>]
<1>4. /\ none[1] = <<>> /\ <<>> \in Seq(Tag) /\ Len(<<>>) = 0 /\ IsInjective(<<>>)
  BY DEF IsInjective
<1> HIDE DEF none
<1>5. /\ \A j \in 1..1 : j = 1
      /\ \A j \in 2..1 : FALSE
      /\ \A k \in 1..0 : FALSE
  OBVIOUS
<1>6. Family(nodes, none, none)
  BY <1>2, <1>5 DEF Family
<1>7. Surround(nodes, none, none)
  BY <1>2, <1>4, <1>5 DEF Surround
<1>8. AroundOpen(none, breadcrumbs, stack)
  BY <1>3, <1>4, <1>5 DEF AroundOpen
<1>9. AroundKept(Len(nodes), none, Deepest)
  BY <1>2, <1>3, <1>4, <1>5 DEF AroundKept
<1>10. Preorder(Len(nodes), breadcrumbs, none)
  <2>1. /\ \A k \in 1..1 : \A y \in (breadcrumbs[k] + 1)..1 : FALSE
        /\ \A k, l \in 1..1 : ~(k < l)
    BY <1>3
  <2>2. QED
    BY ONLY <1>2, <1>3, <1>5, <2>1 DEF Preorder
<1>11. QED
  BY <1>6, <1>7, <1>8, <1>9, <1>10 DEF TreeOK, TreeFits

LEMMA BeginTree == ASSUME IInv, BeginParse PROVE TreeOK'
<1>1. /\ phase' = "tokens" /\ input' = <<>> /\ nodes' = <<Root>> /\ totals' = NoTotals
  BY DEF BeginParse
<1>2. Fresh'
  <2>1. Fresh
    BY DEF BeginParse, IInv, PoolIsClean
  <2>2. QED
    BY <2>1 DEF BeginParse, pooled, places, Fresh
<1>3. AtStart'
  BY <1>1, <1>2 DEF AtStart
<1>4. (AtStart => TreeOK)'
  BY StartTree, PTL
<1>5. QED
  BY <1>3, <1>4

LEMMA NextTree == IInv /\ TreeOK /\ [Next]_vars => TreeOK'
<1> SUFFICES ASSUME IInv, TreeOK, [Next]_vars PROVE TreeOK'
  OBVIOUS
<1>1. CASE BeginParse
  BY <1>1, BeginTree
<1>2. CASE ProcessText
  BY <1>2, TextTree
<1>3. CASE ProcessAttribute
  BY <1>3, AttributeTree
<1>4. CASE GreedyNode
  BY <1>4, GreedyTree
<1>5. CASE OpenTag
  BY <1>5, OpenTree
<1>6. CASE CloseTag
  BY <1>6, CloseTree
<1>7. CASE MismatchedClosingTag
  BY <1>7, MismatchedTree
<1>8. CASE ProcessSkipped \/ DuplicateNestedTag \/ MisplacedClosingTag \/ RefuseTag \/ EndOfInput
  BY <1>8, LeftOutTree
<1>9. CASE ForceClose
  BY <1>9, ForceCloseTree
<1>10. CASE Finalize
  BY <1>10, FinalizeTree
<1>11. CASE UNCHANGED vars
  <2>1. nodes' = nodes /\ breadcrumbs' = breadcrumbs /\ stack' = stack /\ Deepest' = Deepest
    BY <1>11 DEF vars, ast, pooled, places, Deepest
  <2>2. QED
    BY <2>1, TreeQuiet
<1>12. QED
  BY <1>1, <1>2, <1>3, <1>4, <1>5, <1>6, <1>7, <1>8, <1>9, <1>10, <1>11 DEF Next

(* process_opening_tag.go:9, ast.go:48: in the tree that a walk along the    *)
(* sibling links reads from the arena, no tag is inside one of its own kind, *)
(* and tags nest as deep as MaxDepth says, which the limit allows.           *)
THEOREM TagsNest == Spec => []NoTagInItself
<1>1. Init => TreeOK
  BY StartTree DEF Init, AtStart
<1>2. IInv /\ TreeOK => NoTagInItself
  BY TreeHolds
<1>3. QED
  BY <1>1, <1>2, NextTree, ParserInvariant, PTL DEF Spec

-----------------------------------------------------------------------------
(* The order of the texts *)

(* New nodes lie behind all there are, and of two the first is a tag. *)
LEMMA OrderGrows ==
  ASSUME NEW ns \in Seq(NodeRecord), NEW ms \in Seq(NodeRecord), NEW low \in Nat,
         \A i \in 1..Len(ns) : ns[i].end <= low /\ SameNode(ms[i], ns[i]),
         \A i \in (Len(ns) + 1)..Len(ms) : low <= ms[i].start, TextsInOrder(ns),
         \/ Len(ms) = Len(ns) + 1
         \/ (Len(ms) = Len(ns) + 2 /\ ms[Len(ns) + 1].type # "text")
  PROVE  TextsInOrder(ms)
<1> DEFINE n == Len(ns)
           t == Len(ms)
<1>1. n \in Nat /\ t \in Nat /\ ms \in Seq(NodeRecord)
  BY LenProperties
<1>2. /\ \A i \in 1..n : ms[i].type = ns[i].type /\ ms[i].start = ns[i].start
                         /\ ms[i].end = ns[i].end
      /\ \A i \in (n + 1)..t : low <= ms[i].start
  BY DEF SameNode
<1>3. t = n + 1 \/ (t = n + 2 /\ ms[n + 1].type # "text")
  OBVIOUS
<1>4. /\ \A i \in 1..n : ns[i].end \in Nat
      /\ \A i \in 1..t : ms[i].start \in Nat
  <2>1. /\ \A i \in 1..n : ns[i] \in NodeRecord
        /\ \A i \in 1..t : ms[i] \in NodeRecord
    BY <1>1, ElementOfSeq
  <2>2. QED
    BY <2>1 DEF NodeRecord
<1>5. \A i \in 1..n : ns[i].end <= low
  OBVIOUS
<1>6. \A i, j \in 1..n : i < j /\ ns[i].type = "text" /\ ns[j].type = "text" => ns[i].end <= ns[j].start
  BY DEF TextsInOrder
<1> HIDE DEF n
<1>7. ASSUME NEW i \in 1..t, NEW j \in 1..t, i < j, ms[i].type = "text", ms[j].type = "text"
      PROVE  ms[i].end <= ms[j].start
  <2>1. CASE j \in 1..n
    <3>1. i \in 1..n
      BY ONLY <1>1, <1>7, <2>1
    <3>2. QED
      BY ONLY <1>2, <1>6, <1>7, <2>1, <3>1
  <2>2. CASE j \notin 1..n
    <3>1. j \in (n + 1)..t /\ low <= ms[j].start
      BY ONLY <1>1, <1>2, <2>2, j \in 1..t
    <3>2. i \in 1..n
      <4>1. i # n + 1 \/ j # n + 2
        BY ONLY <1>1, <1>3, <1>7
      <4>2. QED
        BY ONLY <1>1, <1>3, <1>7, <4>1
    <3>3. ms[i].end = ns[i].end /\ ns[i].end <= low /\ ns[i].end \in Nat /\ ms[j].start \in Nat
      BY ONLY <1>2, <1>4, <1>5, <3>2, j \in 1..t
    <3>4. QED
      BY ONLY <3>1, <3>3, low \in Nat
  <2>3. QED
    BY <2>1, <2>2
<1>8. QED
  BY <1>7 DEF TextsInOrder

(* Writing the end of a node that is no text, or an attribute range. *)
LEMMA OrderStays ==
  ASSUME NEW ns, NEW ms, Len(ms) = Len(ns), TextsInOrder(ns),
         \A i \in 1..Len(ns) : SameTally(ms[i], ns[i])
  PROVE  TextsInOrder(ms)
  BY DEF TextsInOrder, SameTally

LEMMA OrderSame ==
  ASSUME TextsInOrder(nodes), Len(nodes') = Len(nodes),
         \A i \in 1..Len(nodes) : SameTally(nodes'[i], nodes[i])
  PROVE  TextsInOrder(nodes')
<1> DEFINE ms == nodes'
<1>1. Len(ms) = Len(nodes) /\ \A i \in 1..Len(nodes) : SameTally(ms[i], nodes[i])
  OBVIOUS
<1> HIDE DEF ms
<1>2. TextsInOrder(ms)
  BY <1>1, OrderStays
<1>3. QED
  BY <1>2 DEF ms

(* One node for the token. *)
LEMMA OrderOfToken ==
  ASSUME IInv, TextsInOrder(nodes), NEW tok, Reads(tok), NEW type \in {"text", "tag"},
         NEW tag \in Tag \cup {NoTag},
         nodes' = Appended(nodes, Parent, Node(type, tag, tok.pos, tok.pos + tok.width))
  PROVE  TextsInOrder(nodes')
<1> DEFINE ms == Appended(nodes, Parent, Node(type, tag, tok.pos, tok.pos + tok.width))
           low == Position
<1>1. nodes \in Seq(NodeRecord) /\ RecordsOK
  BY DEF IInv, RecordsOK
<1>2. low \in Nat
  BY <1>1, ReadFacts
<1>3. Grows(ms, nodes, low, Position') /\ Len(ms) = Len(nodes) + 1
  BY NodeOfToken
<1>4. \A i \in 1..Len(nodes) : nodes[i].end <= low
  BY DEF IInv, NodesInside, NodeIds
<1>5. nodes' = ms
  OBVIOUS
<1> HIDE DEF low, ms
<1>6. /\ ms \in Seq(NodeRecord) /\ \A i \in 1..Len(nodes) : SameNode(ms[i], nodes[i])
      /\ \A i \in (Len(nodes) + 1)..Len(ms) : low <= ms[i].start
  BY <1>3 DEF Grows
<1>7. TextsInOrder(ms)
  BY <1>1, <1>2, <1>3, <1>4, <1>6, OrderGrows
<1>8. QED
  BY <1>5, <1>7

LEMMA AddTextOrder ==
  ASSUME IInv, TextsInOrder(nodes), NEW tok, Reads(tok), NEW items, AddText(tok, items)
  PROVE  TextsInOrder(nodes')
<1>1. \/ nodes' = Appended(nodes, Parent, Node("text", NoTag, tok.pos, tok.pos + tok.width))
      \/ nodes' = nodes
  BY DEF AddText
<1>2. QED
  BY <1>1, OrderOfToken

LEMMA GreedyOrder == ASSUME IInv, TextsInOrder(nodes), GreedyNode PROVE TextsInOrder(nodes')
<1>1. PICK tok \in TagTokens(Greedy) :
        /\ input' = Append(input, tok)
        /\ nodes' = Paired(tok) \/ nodes' = Tagged(tok) \/ nodes' = nodes
  BY DEF GreedyNode, Paired, Tagged, PayloadNode, TagNode
<1>2. Greedy \in SUBSET Tag /\ RecordsOK
  BY ParserAssumption DEF IInv
<1>3. /\ Reads(tok) /\ tok.type \in Greedy /\ tok.type \in Tag /\ tok.width \in Width[tok.type]
      /\ tok.width \in Nat /\ tok.pos \in Nat
  BY <1>1, <1>2, PassedOn
<1>4. tok.width >= 2
  BY <1>3, ParserAssumption
<1>5. CASE nodes' = Tagged(tok)
  BY <1>3, <1>5, OrderOfToken DEF Tagged, TagNode
<1>6. CASE nodes' = Paired(tok)
  <2> DEFINE ms == Paired(tok)
             ls == Tagged(tok)
             n  == Len(nodes)
             low == Position
  <2>1. /\ ls \in Seq(NodeRecord) /\ Len(ls) = n + 1 /\ ls[n + 1] = TagNode(tok)
        /\ \A i \in 1..n : SameNode(ls[i], nodes[i])
        /\ ms \in Seq(NodeRecord) /\ Len(ms) = n + 2 /\ ms[n + 2] = PayloadNode(tok)
        /\ \A i \in 1..(n + 1) : SameNode(ms[i], ls[i])
    BY <1>3, <1>4, GreedyNodes
  <2>2. /\ nodes \in Seq(NodeRecord) /\ n \in Nat /\ low \in Nat /\ low = tok.pos
        /\ \A i \in 1..n : nodes[i].end <= low
    BY <1>2, <1>3, ReadFacts, LenProperties DEF Reads, RecordsOK, IInv, NodesInside, NodeIds
  <2>3. /\ TagNode(tok).type = "tag" /\ TagNode(tok).start = tok.pos
        /\ PayloadNode(tok).start = tok.pos + 1
    BY DEF TagNode, PayloadNode, PayloadStart, Node
  <2> HIDE DEF ms, ls, low
  <2>4. n + 1 \in 1..(n + 1) /\ \A i \in 1..n : i \in 1..(n + 1)
    BY <2>2
  <2>5. /\ ms[n + 1].type # "text" /\ ms[n + 1].start = tok.pos
        /\ \A i \in 1..n : SameNode(ms[i], nodes[i])
    BY ONLY <2>1, <2>3, <2>4 DEF SameNode
  <2>6. \A i \in (n + 1)..Len(ms) : low <= ms[i].start
    <3>1. \A i \in (n + 1)..Len(ms) : i = n + 1 \/ i = n + 2
      BY <2>1, <2>2
    <3>2. QED
      BY <1>3, <2>1, <2>2, <2>3, <2>5, <3>1
  <2>7. TextsInOrder(ms)
    BY <2>1, <2>2, <2>5, <2>6, OrderGrows
  <2>8. QED
    BY <1>6, <2>7 DEF ms
<1>7. QED
  BY <1>1, <1>5, <1>6

LEMMA NextOrder ==
  IInv /\ TalliesOK /\ TextsInOrder(nodes) /\ [Next]_vars => TextsInOrder(nodes')
<1> SUFFICES ASSUME IInv, TalliesOK, TextsInOrder(nodes), [Next]_vars
             PROVE  TextsInOrder(nodes')
  OBVIOUS
<1>1. RecordsOK /\ LinksOK /\ StacksOK
  BY DEF IInv
<1>2. CASE BeginParse
  <2>1. nodes' = <<Root>>
    BY <1>2 DEF BeginParse
  <2>2. Len(nodes') = 1 /\ \A i \in 1..1, j \in 1..1 : ~(i < j)
    BY <2>1
  <2>3. QED
    BY <2>2 DEF TextsInOrder
<1>3. CASE ProcessText
  <2>1. PICK tok \in Tokens({"text"}) : input' = Append(input, tok) /\ AddText(tok, <<>>)
    BY <1>3 DEF ProcessText
  <2>2. QED
    BY <1>1, <2>1, TextTokenFacts, AddTextOrder
<1>4. CASE MismatchedClosingTag
  <2>1. PICK tok \in TagTokens(Closers) :
          /\ input' = Append(input, tok)
          /\ AddText(tok, <<Warning("OpenCloseTagMismatch", tok.pos)>>)
    BY <1>4 DEF MismatchedClosingTag
  <2>2. Closers \in SUBSET Tag
    BY DEF Closers
  <2>3. QED
    BY <1>1, <2>1, <2>2, PassedOn, AddTextOrder
<1>5. CASE ProcessAttribute
  <2>1. \/ nodes' = AttributeRange(nodes, lastNode, Len(attributes) + 1)
        \/ nodes' = nodes
    BY <1>5 DEF ProcessAttribute
  <2> DEFINE ms == AttributeRange(nodes, lastNode, Len(attributes) + 1)
  <2>2. /\ nodes \in Seq(NodeRecord) /\ lastNode \in 1..Len(nodes)
        /\ Len(attributes) + 1 \in Nat
    BY <1>1, ArenaFacts DEF RecordsOK, LinksOK, NodeIds
  <2>3. Len(ms) = Len(nodes) /\ \A i \in 1..Len(nodes) : SameTally(ms[i], nodes[i])
    BY <2>2, AttributeShape
  <2> HIDE DEF ms
  <2>4. nodes' = ms \/ nodes' = nodes
    BY <2>1 DEF ms
  <2>5. QED
    BY <2>3, <2>4, OrderStays
<1>6. CASE GreedyNode
  BY <1>6, GreedyOrder
<1>7. CASE OpenTag
  <2>1. PICK tok \in TagTokens(Openers) :
          /\ input' = Append(input, tok)
          /\ nodes' = Appended(nodes, Parent, Node("tag", tok.type, tok.pos, tok.pos + tok.width))
    BY <1>7 DEF OpenTag
  <2>2. Reads(tok) /\ tok.type \in Tag
    BY <1>1, <2>1, OpenersFacts, PassedOn
  <2>3. QED
    BY <2>1, <2>2, OrderOfToken
<1>8. CASE CloseTag
  <2>1. PICK tok \in TagTokens(Tag \ Greedy) : input' = Append(input, tok) /\ PopTag(tok.width)
    BY <1>8 DEF CloseTag
  <2>2. tok.width \in Nat
    BY <1>1, <2>1, PassedOn
  <2>3. QED
    BY <2>1, <2>2, PopTallies, OrderSame
<1>9. CASE ForceClose
  <2>1. PopTag(0) /\ 0 \in Nat
    BY <1>9 DEF ForceClose
  <2>2. QED
    BY <2>1, PopTallies, OrderSame
<1>10. CASE Finalize
  <2>1. nodes' = [nodes EXCEPT ![1].end = Last(cumWidth)] /\ Len(breadcrumbs) = 1
    BY <1>10 DEF Finalize
  <2>2. /\ 1 \in 1..Len(nodes) /\ Last(cumWidth) \in Nat /\ nodes[1].type # "text"
        /\ nodes \in Seq(NodeRecord)
    <3>1. Last(cumWidth) = cumWidth[1] /\ cumWidth[1] \in Nat /\ breadcrumbs[1] \in NodeIds
      BY <1>1, <2>1, StackFacts
    <3>2. breadcrumbs[1] = 1 /\ nodes[breadcrumbs[1]].type # "text"
      BY <2>1 DEF IInv, Telescope, TalliesOK
    <3>3. QED
      BY <1>1, <3>1, <3>2 DEF NodeIds, RecordsOK
  <2> DEFINE v  == Last(cumWidth)
             ms == [nodes EXCEPT ![1].end = v]
  <2>3. v \in Nat /\ nodes' = ms
    BY <2>1, <2>2
  <2> HIDE DEF v
  <2>4. Len(ms) = Len(nodes) /\ \A i \in 1..Len(nodes) : SameTally(ms[i], nodes[i])
    BY <2>2, <2>3, EndTallies
  <2> HIDE DEF ms
  <2>5. QED
    BY <2>3, <2>4, OrderStays
<1>11. CASE \/ ProcessSkipped \/ DuplicateNestedTag \/ MisplacedClosingTag \/ RefuseTag
           \/ EndOfInput \/ UNCHANGED vars
  <2>1. nodes' = nodes
    BY <1>11 DEF ProcessSkipped, DuplicateNestedTag, MisplacedClosingTag, RefuseTag, EndOfInput,
                 Discard, vars, ast
  <2>2. QED
    BY <2>1
<1>12. QED
  BY <1>2, <1>3, <1>4, <1>5, <1>6, <1>7, <1>8, <1>9, <1>10, <1>11 DEF Next

-----------------------------------------------------------------------------
(* The text *)

WithText(text, n) ==
  IF nodes[n].type = "text" THEN Append(text, <<nodes[n].start, nodes[n].end>>) ELSE text

(* The recursion over the nodes defines the text up to each of them. *)
LEMMA TextDefined ==
  ASSUME nodes \in Seq(NodeRecord)
  PROVE  \E f : /\ f[0] = <<>> /\ Text = f[Len(nodes)]
                /\ \A n \in 1..Len(nodes) : f[n] = WithText(f[n - 1], n)
<1> DEFINE len == Len(nodes)
           E(f, n) == IF n = 0 THEN <<>> ELSE WithText(f[n - 1], n)
           Exists(m) == \E f : f = [n \in 0..m |-> E(f, n)]
           Missing == {m \in 0..len : ~Exists(m)}
<1>1. len \in Nat
  BY LenProperties
<1>2. Exists(0)
  <2> DEFINE f == [n \in 0..0 |-> <<>>]
  <2>1. f = [n \in 0..0 |-> E(f, n)]
    OBVIOUS
  <2>2. QED
    BY <2>1
<1>3. ASSUME NEW m \in Nat, Exists(m) PROVE Exists(m + 1)
  <2>1. PICK f : f = [n \in 0..m |-> E(f, n)]
    BY <1>3
  <2> DEFINE next == WithText(f[m], m + 1)
             g == [n \in 0..(m + 1) |-> IF n = m + 1 THEN next ELSE f[n]]
  <2>2. ASSUME NEW n \in 0..(m + 1) PROVE g[n] = E(g, n)
    <3>1. CASE n = m + 1
      <4>1. n # 0 /\ n - 1 = m /\ m \in 0..(m + 1) /\ m # m + 1
        BY <3>1
      <4>2. g[n] = next /\ g[m] = f[m]
        BY <3>1, <4>1
      <4> HIDE DEF g
      <4>3. QED
        BY <3>1, <4>1, <4>2
    <3>2. CASE n # m + 1
      <4>1. n \in 0..m /\ f[n] = E(f, n)
        BY <2>1, <3>2
      <4>2. g[n] = f[n]
        BY <3>2
      <4>3. n # 0 => n - 1 \in 0..m /\ n - 1 \in 0..(m + 1) /\ n - 1 # m + 1
        BY <4>1
      <4>4. n # 0 => g[n - 1] = f[n - 1]
        BY <4>3
      <4> HIDE DEF g
      <4>5. QED
        BY <4>1, <4>2, <4>4
    <3>3. QED
      BY <3>1, <3>2
  <2>3. g = [n \in 0..(m + 1) |-> E(g, n)]
    <3>1. g = [n \in 0..(m + 1) |-> g[n]]
      OBVIOUS
    <3> HIDE DEF g
    <3>2. QED
      BY <2>2, <3>1
  <2>4. QED
    BY <2>3
<1> HIDE DEF Exists
<1>4. Missing = {}
  <2> SUFFICES ASSUME Missing # {} PROVE FALSE
    OBVIOUS
  <2>1. Missing \in SUBSET Nat
    BY <1>1
  <2>2. PICK m \in Missing : \A y \in Missing : m <= y
    <3> HIDE DEF Missing
    <3>1. QED
      BY <2>1, LeastExists
  <2>3. m \in Nat /\ m # 0 /\ m <= len
    BY <1>1, <1>2, <2>2
  <2>4. m - 1 \in 0..len /\ m - 1 \notin Missing
    BY <1>1, <2>2, <2>3
  <2>5. Exists((m - 1) + 1)
    BY <1>3, <2>3, <2>4
  <2>6. QED
    BY <2>2, <2>3, <2>5
<1>5. Exists(len)
  BY <1>1, <1>4
<1> DEFINE f == CHOOSE f : f = [n \in 0..len |-> E(f, n)]
<1>6. f = [n \in 0..len |-> E(f, n)]
  BY <1>5 DEF Exists
<1>7. Text = f[len]
  BY DEF Text, WithText
<1> HIDE DEF f
<1>8. f[0] = <<>> /\ \A n \in 1..len : f[n] = WithText(f[n - 1], n)
  BY <1>1, <1>6
<1>9. QED
  BY <1>7, <1>8

(* What has been taken ends before what comes next starts. *)
LEMMA TextOrdered ==
  ASSUME nodes \in Seq(NodeRecord), TextsInOrder(nodes)
  PROVE  \A k, l \in DOMAIN Text : k < l => Text[k][2] <= Text[l][1]
<1> DEFINE len == Len(nodes)
           Late(n) == {j \in 1..len : n < j /\ nodes[j].type = "text"}
           Good(t, n) ==
             /\ t \in Seq(Nat \X Nat)
             /\ \A k, l \in 1..Len(t) : k < l => t[k][2] <= t[l][1]
             /\ \A k \in 1..Len(t) : \A j \in Late(n) : t[k][2] <= nodes[j].start
<1>1. len \in Nat /\ \A j \in 1..len : nodes[j].start \in Nat /\ nodes[j].end \in Nat
  <2>1. len \in Nat /\ \A j \in 1..len : nodes[j] \in NodeRecord
    BY LenProperties, ElementOfSeq
  <2>2. QED
    BY <2>1 DEF NodeRecord
<1>2. \A i, j \in 1..len : i < j /\ nodes[i].type = "text" /\ nodes[j].type = "text"
                             => nodes[i].end <= nodes[j].start
  BY DEF TextsInOrder
<1>3. PICK f : /\ f[0] = <<>> /\ Text = f[len]
               /\ \A n \in 1..len : f[n] = WithText(f[n - 1], n)
  BY TextDefined
<1>4. Good(<<>>, 0)
  <2>1. <<>> \in Seq(Nat \X Nat) /\ Len(<<>>) = 0
    OBVIOUS
  <2>2. QED
    BY <2>1
<1> HIDE DEF len
<1>5. ASSUME NEW n \in 1..len, NEW t, Good(t, n - 1) PROVE Good(WithText(t, n), n)
  <2>1. /\ t \in Seq(Nat \X Nat) /\ Len(t) \in Nat
        /\ \A k, l \in 1..Len(t) : k < l => t[k][2] <= t[l][1]
        /\ \A k \in 1..Len(t) : \A j \in Late(n - 1) : t[k][2] <= nodes[j].start
    BY <1>5, LenProperties
  <2>2. Late(n) \subseteq Late(n - 1)
    BY <1>1
  <2> DEFINE span == <<nodes[n].start, nodes[n].end>>
             u == Append(t, span)
  <2>3. CASE nodes[n].type = "text"
    <3>1. /\ span \in Nat \X Nat /\ span[1] = nodes[n].start /\ span[2] = nodes[n].end
      BY <1>1
    <3>2. n \in Late(n - 1)
      BY <1>1, <2>3
    <3>3. \A j \in Late(n) : nodes[n].end <= nodes[j].start
      BY <1>2, <2>3
    <3>4. WithText(t, n) = u
      BY <2>3 DEF WithText
    <3> HIDE DEF span, Late
    <3>5. /\ u \in Seq(Nat \X Nat) /\ Len(u) = Len(t) + 1 /\ u[Len(t) + 1] = span
          /\ \A k \in 1..Len(t) : u[k] = t[k]
      BY ONLY <2>1, <3>1, AppendProperties
    <3> HIDE DEF u
    <3>6. \A k, l \in 1..Len(u) : k < l => u[k][2] <= u[l][1]
      <4> SUFFICES ASSUME NEW k \in 1..Len(u), NEW l \in 1..Len(u), k < l PROVE u[k][2] <= u[l][1]
        OBVIOUS
      <4>1. /\ Len(t) \in Nat /\ Len(u) = Len(t) + 1 /\ k \in 1..Len(u) /\ l \in 1..Len(u) /\ k < l
        BY <2>1, <3>5
      <4>2. k \in 1..Len(t) /\ (l \in 1..Len(t) \/ l = Len(t) + 1)
        BY ONLY <4>1
      <4>3. u[k] = t[k]
        BY <3>5, <4>2
      <4>4. CASE l \in 1..Len(t)
        BY <2>1, <3>5, <4>1, <4>2, <4>4, <4>3
      <4>5. CASE l = Len(t) + 1
        BY <2>1, <3>1, <3>2, <3>5, <4>2, <4>5, <4>3
      <4>6. QED
        BY <4>2, <4>4, <4>5
    <3>7. \A k \in 1..Len(u) : \A j \in Late(n) : u[k][2] <= nodes[j].start
      <4> SUFFICES ASSUME NEW k \in 1..Len(u), NEW j \in Late(n) PROVE u[k][2] <= nodes[j].start
        OBVIOUS
      <4>1. CASE k \in 1..Len(t)
        BY <2>1, <2>2, <3>5, <4>1
      <4>2. CASE k = Len(t) + 1
        BY <3>1, <3>3, <3>5, <4>2
      <4>3. QED
        BY <2>1, <3>5, <4>1, <4>2
    <3>8. QED
      BY <3>4, <3>5, <3>6, <3>7
  <2>4. CASE nodes[n].type # "text"
    <3>1. WithText(t, n) = t
      BY <2>4 DEF WithText
    <3>2. QED
      BY <2>1, <2>2, <3>1
  <2>5. QED
    BY <2>3, <2>4
<1> DEFINE Wrong == {n \in 0..len : ~Good(f[n], n)}
<1> HIDE DEF Good
<1>6. Wrong = {}
  <2> SUFFICES ASSUME Wrong # {} PROVE FALSE
    OBVIOUS
  <2>1. Wrong \in SUBSET Nat
    BY <1>1
  <2>2. PICK m \in Wrong : \A y \in Wrong : m <= y
    <3> HIDE DEF Wrong
    <3>1. QED
      BY <2>1, LeastExists
  <2>3. m \in 1..len
    BY <1>1, <1>3, <1>4, <2>2
  <2>4. m - 1 \in 0..len /\ m - 1 \notin Wrong
    BY <1>1, <2>2, <2>3
  <2>5. Good(f[m - 1], m - 1)
    BY <2>4
  <2>6. Good(f[m], m)
    BY <1>3, <1>5, <2>3, <2>5
  <2>7. QED
    BY <2>2, <2>6
<1>7. Good(Text, len)
  BY <1>1, <1>3, <1>6
<1>8. DOMAIN Text = 1..Len(Text)
  BY <1>7, LenProperties DEF Good
<1>9. QED
  BY <1>7, <1>8 DEF Good

-----------------------------------------------------------------------------
(* The order of the children *)

LEMMA KidsRise ==
  ASSUME nodes \in Seq(NodeRecord), NEW kid, NEW par, Family(nodes, kid, par), NEW i \in NodeIds
  PROVE  /\ nodes[i].kids \in Nat
         /\ \A k, l \in 1..nodes[i].kids : k < l => kid[i][k] < kid[i][l]
<1> DEFINE n == nodes[i].kids
           Wrong == {l \in 1..n : \E k \in 1..n : k < l /\ ~(kid[i][k] < kid[i][l])}
<1>1. n \in Nat
  <2>1. nodes[i] \in NodeRecord
    BY ElementOfSeq DEF NodeIds
  <2>2. QED
    BY <2>1 DEF NodeRecord
<1>2. /\ \A k \in 1..n : kid[i][k] \in 2..Len(nodes)
      /\ \A k \in 1..(n - 1) : kid[i][k] < kid[i][k + 1]
  <2>1. i \in 1..Len(nodes)
    BY DEF NodeIds
  <2>2. QED
    BY <2>1 DEF Family
<1>3. \A k \in 1..n : kid[i][k] \in Nat
  BY <1>2, LenProperties
<1> HIDE DEF n
<1>4. Wrong = {}
  <2> SUFFICES ASSUME Wrong # {} PROVE FALSE
    OBVIOUS
  <2>1. Wrong \in SUBSET Nat
    BY <1>1
  <2>2. PICK l \in Wrong : \A y \in Wrong : l <= y
    <3> HIDE DEF Wrong
    <3>1. QED
      BY <2>1, LeastExists
  <2>3. PICK k \in 1..n : k < l /\ ~(kid[i][k] < kid[i][l])
    BY <2>2
  <2>4. l \in 1..n
    BY <2>2
  <2>5. l - 1 \in 1..n /\ l - 1 \in 1..(n - 1) /\ ~(l <= l - 1) /\ (l - 1) + 1 = l
        /\ (k = l - 1 \/ k < l - 1)
    BY ONLY <1>1, <2>3, <2>4
  <2>6. kid[i][l - 1] < kid[i][l]
    BY <1>2, <2>5
  <2>7. l - 1 \notin Wrong
    BY <2>2, <2>5
  <2>8. k = l - 1 \/ kid[i][k] < kid[i][l - 1]
    BY <2>3, <2>5, <2>7
  <2>9. kid[i][k] \in Nat /\ kid[i][l] \in Nat /\ kid[i][l - 1] \in Nat
    BY <1>3, <2>3, <2>4, <2>5
  <2>10. QED
    BY ONLY <2>3, <2>6, <2>8, <2>9
<1>5. QED
  BY <1>1, <1>4 DEF n

(* rank[j] says which child of its parent a node is. *)
Ranked(kid, par, rank) ==
  /\ \A j \in 2..Len(nodes) : rank[j] \in 1..nodes[par[j]].kids /\ kid[par[j]][rank[j]] = j
  /\ \A i \in NodeIds : \A k \in 1..nodes[i].kids : rank[kid[i][k]] = k

LEMMA RanksExist ==
  ASSUME nodes \in Seq(NodeRecord), NEW kid, NEW par, Family(nodes, kid, par)
  PROVE  \E rank : Ranked(kid, par, rank)
<1> DEFINE n == Len(nodes)
           rank == [j \in 2..n |-> CHOOSE k \in 1..nodes[par[j]].kids : kid[par[j]][k] = j]
<1>1. n \in Nat
  BY LenProperties
<1>2. \A j \in 2..n : par[j] \in 1..(j - 1) /\ \E k \in 1..nodes[par[j]].kids : kid[par[j]][k] = j
  BY DEF Family
<1>3. \A j \in 2..n : rank[j] \in 1..nodes[par[j]].kids /\ kid[par[j]][rank[j]] = j
  BY <1>2
<1> HIDE DEF rank
<1>4. ASSUME NEW i \in NodeIds, NEW k \in 1..nodes[i].kids PROVE rank[kid[i][k]] = k
  <2> DEFINE j == kid[i][k]
  <2>1. j \in 2..n /\ par[j] = i
    BY DEF Family, NodeIds
  <2>2. rank[j] \in 1..nodes[i].kids /\ kid[i][rank[j]] = j
    BY <1>3, <2>1
  <2>3. /\ nodes[i].kids \in Nat
        /\ \A p, q \in 1..nodes[i].kids : p < q => kid[i][p] < kid[i][q]
    BY KidsRise
  <2>4. ~(rank[j] < k) /\ ~(k < rank[j])
    BY <1>1, <2>1, <2>2, <2>3
  <2>5. QED
    BY ONLY <2>2, <2>3, <2>4, k \in 1..nodes[i].kids
<1>5. QED
  BY <1>3, <1>4 DEF Ranked

-----------------------------------------------------------------------------
(* The walk *)

(* The place in the array of the j-th node, as soon as its parent has its   *)
(* window.                                                                 *)
Place(s, par, rank, j) == s.base[par[j]] + rank[j]
Task == [slot : Nat, node : Nat]

(* V are the nodes the walk has been at.  Their children have places of     *)
(* their own, which fill the array up to `used'; those where it has not     *)
(* been are on the stack, once each, and the others in the array.          *)
Placed(s, V, par, rank) ==
  /\ \A j \in 2..Len(nodes) : par[j] \in V => Place(s, par, rank, j) \in 1..s.used
  /\ \A i, j \in 2..Len(nodes) :
       par[i] \in V /\ par[j] \in V /\ Place(s, par, rank, i) = Place(s, par, rank, j) => i = j
  /\ \A p \in 1..s.used : \E j \in 2..Len(nodes) : par[j] \in V /\ Place(s, par, rank, j) = p
Due(s, V, par, rank) ==
  /\ \A k \in 1..Len(s.stack) :
       LET task == s.stack[k]
       IN /\ task.node \in 2..Len(nodes) /\ task.node \notin V /\ par[task.node] \in V
          /\ task.slot = Place(s, par, rank, task.node)
  /\ \A k, l \in 1..Len(s.stack) : s.stack[k].node = s.stack[l].node => k = l
  /\ \A j \in 2..Len(nodes) :
       par[j] \in V /\ j \notin V => \E k \in 1..Len(s.stack) : s.stack[k].node = j
Written(s, V, par, rank) ==
  \A j \in V : j # 1 => par[j] \in V /\ s.slots[Place(s, par, rank, j)] = j
WalkOK(s, V, par, rank) ==
  /\ 1 \in V /\ V \subseteq NodeIds
  /\ s.stack \in Seq(Task) /\ s.used \in Nat
  /\ s.slots \in [1..(Len(nodes) - 1) -> Nat] /\ s.base \in [NodeIds -> Nat]
  /\ Placed(s, V, par, rank) /\ Due(s, V, par, rank) /\ Written(s, V, par, rank)

(* The places are as many as the children of the nodes in V. *)
LEMMA PlacesFit ==
  ASSUME nodes \in Seq(NodeRecord), nodes # <<>>, NEW par, NEW rank, NEW s, NEW V,
         s.used \in Nat, Placed(s, V, par, rank)
  PROVE  /\ s.used <= Len(nodes) - 1
         /\ (\A j \in 2..Len(nodes) : par[j] \in V) => s.used = Len(nodes) - 1
<1> DEFINE n == Len(nodes)
           D == {j \in 2..n : par[j] \in V}
           f == [j \in D |-> Place(s, par, rank, j)]
           T == 1..s.used
<1>1. n \in Nat \ {0}
  BY LenProperties, EmptySeq
<1>2. /\ \A j \in D : f[j] \in T
      /\ \A i, j \in D : f[i] = f[j] => i = j
      /\ \A p \in T : \E j \in D : f[j] = p
  BY DEF Placed
<1>3. IsFiniteSet(2..n) /\ Cardinality(2..n) = n - 1
  BY <1>1, FS_Interval
<1>4. D \in SUBSET (2..n) /\ ((\A j \in 2..n : par[j] \in V) => D = 2..n)
  OBVIOUS
<1>5. f \in [D -> T]
  BY <1>2
<1>6. IsFiniteSet(T) /\ Cardinality(T) = s.used
  <2>1. 1 \in Int /\ s.used \in Nat /\ s.used \in Int
    OBVIOUS
  <2>2. IsFiniteSet(1..s.used) /\ Cardinality(1..s.used) = IF 1 > s.used THEN 0 ELSE s.used - 1 + 1
    BY ONLY <2>1, FS_Interval
  <2>3. QED
    BY <2>1, <2>2
<1> HIDE DEF D, f, T
<1>7. f \in Bijection(D, T)
  BY <1>2, <1>5 DEF Bijection, Injection, Surjection, IsInjective
<1>8. IsFiniteSet(D) /\ Cardinality(D) <= n - 1
  <2>1. IsFiniteSet(D) /\ Cardinality(D) <= Cardinality(2..n)
    BY ONLY <1>3, <1>4, FS_Subset
  <2>2. QED
    BY <1>3, <2>1
<1>9. Cardinality(T) = Cardinality(D)
  BY <1>7, <1>8, FS_Bijection DEF ExistsBijection
<1>10. QED
  BY <1>3, <1>4, <1>6, <1>8, <1>9

(* A step takes the last task, x, and gives the children of x their window. *)
Stepped(s, t, kid, m, x, c) ==
  /\ m \in Nat \ {0} /\ m = Len(s.stack) /\ x = s.stack[m].node /\ c = nodes[x].kids /\ c \in Nat
  /\ t.stack \in Seq(Task) /\ Len(t.stack) = m - 1 + c
  /\ \A k \in 1..(m - 1) : t.stack[k] = s.stack[k]
  /\ \A q \in 1..c : t.stack[m - 1 + q].slot = s.used + q /\ t.stack[m - 1 + q].node = kid[x][q]
  /\ t.used = s.used + c
  /\ t.slots = [s.slots EXCEPT ![s.stack[m].slot] = x]
  /\ t.base = [s.base EXCEPT ![x] = s.used]

TasksFit(kid, i, base) ==
  /\ nodes[i].kids \in Nat
  /\ Tasks(i, base) \in Seq(Task) /\ Len(Tasks(i, base)) = nodes[i].kids
  /\ \A q \in 1..nodes[i].kids :
       Tasks(i, base)[q].slot = base + q /\ Tasks(i, base)[q].node = kid[i][q]

LEMMA TasksAre ==
  ASSUME nodes \in Seq(NodeRecord), NEW kid, NEW par, Family(nodes, kid, par), NEW i \in NodeIds,
         NEW base \in Nat
  PROVE  TasksFit(kid, i, base)
<1> DEFINE c == nodes[i].kids
           ts == Tasks(i, base)
<1>1. /\ DOMAIN Children(i) = 1..c
      /\ \A k \in 1..c : Children(i)[k] = kid[i][k]
  BY ChildrenAre
<1>2. c \in Nat /\ \A k \in 1..c : kid[i][k] \in Nat
  <2>1. c \in Nat
    BY KidsRise
  <2>2. \A k \in 1..c : kid[i][k] \in 2..Len(nodes)
    BY DEF Family, NodeIds
  <2>3. QED
    BY <2>1, <2>2, LenProperties
<1>3. ts = [k \in 1..c |-> [slot |-> base + k, node |-> Children(i)[k]]]
  BY DEF Tasks
<1> HIDE DEF ts, c
<1>4. \A q \in 1..c : ts[q] = [slot |-> base + q, node |-> kid[i][q]]
  BY <1>1, <1>3
<1>5. \A q \in 1..c : ts[q] \in Task
  <2> SUFFICES ASSUME NEW q \in 1..c PROVE ts[q] \in Task
    OBVIOUS
  <2> DEFINE slot == base + q
             child == kid[i][q]
  <2>1. slot \in Nat /\ child \in Nat /\ ts[q] = [slot |-> slot, node |-> child]
    BY <1>2, <1>4
  <2> HIDE DEF slot, child
  <2>2. QED
    BY ONLY <2>1 DEF Task
<1>6. ts \in [1..c -> Task]
  BY <1>3, <1>5
<1>7. ts \in Seq(Task) /\ Len(ts) = c
  <2>1. c \in Nat
    BY <1>2
  <2>2. ts \in Seq(Task)
    <3>1. Seq(Task) = UNION {[1..n -> Task] : n \in Nat}
      BY SeqDef
    <3>2. [1..c -> Task] \in {[1..n -> Task] : n \in Nat}
      BY <2>1
    <3>3. QED
      BY ONLY <1>6, <3>1, <3>2
  <2>3. Len(ts) \in Nat /\ 1..Len(ts) = 1..c
    <3>1. DOMAIN ts = 1..Len(ts) /\ Len(ts) \in Nat
      BY ONLY <2>2, LenProperties
    <3>2. DOMAIN ts = 1..c
      BY ONLY <1>6
    <3>3. QED
      BY <3>1, <3>2
  <2>4. QED
    BY <2>1, <2>2, <2>3
<1>8. ASSUME NEW q \in 1..c PROVE ts[q].slot = base + q /\ ts[q].node = kid[i][q]
  <2> DEFINE slot == base + q
             child == kid[i][q]
             task == ts[q]
  <2>1. task = [slot |-> slot, node |-> child]
    BY <1>4
  <2> HIDE DEF slot, child, task
  <2>2. task.slot = slot /\ task.node = child
    BY ONLY <2>1
  <2>3. QED
    BY <2>2 DEF slot, child, task
<1>9. QED
  BY <1>2, <1>7, <1>8 DEF TasksFit, ts, c

LEMMA WalkSteps ==
  ASSUME nodes \in Seq(NodeRecord), NEW kid, NEW par, Family(nodes, kid, par), NEW s, NEW V,
         s.stack \in Seq(Task), s.used \in Nat, s.stack # <<>>,
         s.stack[Len(s.stack)].node \in NodeIds
  PROVE  \E m, x, c : Stepped(s, Walk(s), kid, m, x, c)
<1> DEFINE m == Len(s.stack)
           x == s.stack[m].node
           c == nodes[x].kids
           front == Front(s.stack)
           ts == Tasks(x, s.used)
           t == Walk(s)
<1>1. /\ m \in Nat \ {0} /\ front \in Seq(Task) /\ Len(front) = m - 1
      /\ \A k \in 1..(m - 1) : front[k] = s.stack[k]
  BY FrontFacts
<1>2. /\ c \in Nat /\ ts \in Seq(Task) /\ Len(ts) = c
      /\ \A q \in 1..c : ts[q].slot = s.used + q /\ ts[q].node = kid[x][q]
  <2>1. x \in NodeIds /\ s.used \in Nat
    OBVIOUS
  <2> DEFINE base == s.used
  <2>2. base \in Nat
    BY <2>1
  <2> HIDE DEF x, base
  <2>3. TasksFit(kid, x, base)
    BY <2>1, <2>2, TasksAre
  <2>4. QED
    BY <2>3 DEF base, TasksFit
<1>3. Last(s.stack) = s.stack[m]
  BY DEF Last
<1>4. /\ t.stack = front \o ts /\ t.used = s.used + c
      /\ t.slots = [s.slots EXCEPT ![s.stack[m].slot] = x]
      /\ t.base = [s.base EXCEPT ![x] = s.used]
  BY <1>3 DEF Walk
<1> HIDE DEF front, ts, t, c, x, m
<1>5. /\ front \o ts \in Seq(Task) /\ Len(front \o ts) = m - 1 + c
      /\ \A k \in 1..(m - 1 + c) :
           (front \o ts)[k] = IF k <= m - 1 THEN front[k] ELSE ts[k - (m - 1)]
  <2>1. /\ front \in Seq(Task) /\ ts \in Seq(Task)
    BY <1>1, <1>2
  <2>2. /\ front \o ts \in Seq(Task) /\ Len(front \o ts) = Len(front) + Len(ts)
        /\ \A k \in 1..(Len(front) + Len(ts)) :
             (front \o ts)[k] = IF k <= Len(front) THEN front[k] ELSE ts[k - Len(front)]
    BY ONLY <2>1, ConcatProperties
  <2>3. QED
    BY <1>1, <1>2, <2>2
<1>6. \A k \in 1..(m - 1) : t.stack[k] = s.stack[k]
  <2> SUFFICES ASSUME NEW k \in 1..(m - 1) PROVE t.stack[k] = s.stack[k]
    OBVIOUS
  <2>1. m \in Nat \ {0} /\ c \in Nat
    BY <1>1, <1>2
  <2>2. k \in 1..(m - 1 + c) /\ k <= m - 1
    BY ONLY <2>1, k \in 1..(m - 1)
  <2>3. QED
    BY <1>1, <1>4, <1>5, <2>2
<1>7. \A q \in 1..c : t.stack[m - 1 + q] = ts[q]
  <2> SUFFICES ASSUME NEW q \in 1..c PROVE t.stack[m - 1 + q] = ts[q]
    OBVIOUS
  <2>1. m \in Nat \ {0} /\ c \in Nat
    BY <1>1, <1>2
  <2>2. m - 1 + q \in 1..(m - 1 + c) /\ ~(m - 1 + q <= m - 1) /\ (m - 1 + q) - (m - 1) = q
    BY ONLY <2>1, q \in 1..c
  <2>3. QED
    BY <1>4, <1>5, <2>2
<1>8. Stepped(s, t, kid, m, x, c)
  BY <1>1, <1>2, <1>4, <1>5, <1>6, <1>7 DEF Stepped, m, x, c
<1>9. QED
  BY <1>8 DEF t

(* Where the walk goes on, everything still fits. *)
LEMMA WalkGoesOn ==
  ASSUME nodes \in Seq(NodeRecord), nodes # <<>>, NEW kid, NEW par, NEW rank,
         Family(nodes, kid, par), Ranked(kid, par, rank),
         NEW s, NEW V, WalkOK(s, V, par, rank), s.stack # <<>>
  PROVE  \E x \in NodeIds \ V : WalkOK(Walk(s), V \cup {x}, par, rank)
<1> DEFINE n == Len(nodes)
           P(j) == Place(s, par, rank, j)
<1>1. /\ n \in Nat \ {0} /\ NodeIds = 1..n
  BY LenProperties, EmptySeq DEF NodeIds
<1>2. /\ 1 \in V /\ V \subseteq NodeIds
      /\ s.stack \in Seq(Task) /\ s.used \in Nat
      /\ s.slots \in [1..(n - 1) -> Nat] /\ s.base \in [NodeIds -> Nat]
      /\ Placed(s, V, par, rank) /\ Due(s, V, par, rank) /\ Written(s, V, par, rank)
  BY DEF WalkOK
<1>3. s.used <= n - 1
  BY <1>2, PlacesFit
<1>4. /\ \A j \in 2..n : par[j] \in 1..(j - 1)
      /\ \A i \in 1..n : \A k \in 1..nodes[i].kids : kid[i][k] \in 2..n /\ par[kid[i][k]] = i
  BY DEF Family
<1>5. /\ \A j \in 2..n : rank[j] \in 1..nodes[par[j]].kids /\ kid[par[j]][rank[j]] = j
      /\ \A i \in 1..n : \A k \in 1..nodes[i].kids : rank[kid[i][k]] = k
  BY <1>1 DEF Ranked
<1>6. /\ \A j \in 2..n : par[j] \in V => P(j) \in 1..s.used
      /\ \A i, j \in 2..n : par[i] \in V /\ par[j] \in V /\ P(i) = P(j) => i = j
      /\ \A p \in 1..s.used : \E j \in 2..n : par[j] \in V /\ P(j) = p
  BY <1>2 DEF Placed
<1>7. /\ \A k \in 1..Len(s.stack) :
           /\ s.stack[k].node \in 2..n /\ s.stack[k].node \notin V /\ par[s.stack[k].node] \in V
           /\ s.stack[k].slot = P(s.stack[k].node)
      /\ \A k, l \in 1..Len(s.stack) : s.stack[k].node = s.stack[l].node => k = l
      /\ \A j \in 2..n :
           par[j] \in V /\ j \notin V => \E k \in 1..Len(s.stack) : s.stack[k].node = j
  BY <1>2 DEF Due
<1>8. \A j \in V : j # 1 => par[j] \in V /\ s.slots[P(j)] = j
  BY <1>2 DEF Written
<1> DEFINE t == Walk(s)
<1>9. PICK m, x, c : Stepped(s, t, kid, m, x, c)
  <2>1. s.stack[Len(s.stack)].node \in NodeIds
    <3>1. Len(s.stack) \in 1..Len(s.stack)
      BY <1>2, EmptySeq, LenProperties
    <3>2. s.stack[Len(s.stack)].node \in 2..n
      BY <1>7, <3>1
    <3>3. QED
      BY <1>1, <3>2
  <2>2. QED
    BY <1>2, <2>1, WalkSteps
<1> HIDE DEF t
<1>10. /\ m \in Nat \ {0} /\ m = Len(s.stack) /\ x = s.stack[m].node /\ c = nodes[x].kids /\ c \in Nat
       /\ t.stack \in Seq(Task) /\ Len(t.stack) = m - 1 + c
       /\ \A k \in 1..(m - 1) : t.stack[k] = s.stack[k]
       /\ \A q \in 1..c : t.stack[m - 1 + q].slot = s.used + q /\ t.stack[m - 1 + q].node = kid[x][q]
       /\ t.used = s.used + c
       /\ t.slots = [s.slots EXCEPT ![s.stack[m].slot] = x]
       /\ t.base = [s.base EXCEPT ![x] = s.used]
  BY <1>9 DEF Stepped
<1>11. m \in 1..Len(s.stack) /\ x \in 2..n /\ x \in NodeIds /\ x \notin V /\ par[x] \in V
       /\ s.stack[m].slot = P(x) /\ par[x] # x
  <2>1. m \in 1..Len(s.stack)
    BY ONLY <1>10
  <2>2. x \in 2..n /\ x \notin V /\ par[x] \in V /\ s.stack[m].slot = P(x)
    BY <1>7, <1>10, <2>1
  <2>3. QED
    BY <1>1, <2>1, <2>2
<1> DEFINE W == V \cup {x}
           Q(j) == Place(t, par, rank, j)
<1>12. /\ \A j \in 2..n : par[j] \in V => Q(j) = P(j)
       /\ \A j \in 2..n : par[j] = x => Q(j) = s.used + rank[j]
  <2>1. \A i \in V : t.base[i] = s.base[i]
    BY <1>2, <1>10, <1>11
  <2>2. t.base[x] = s.used
    BY <1>2, <1>10, <1>11
  <2>3. QED
    BY <2>1, <2>2 DEF Place
<1>13. t.slots \in [1..(n - 1) -> Nat] /\ t.base \in [NodeIds -> Nat] /\ t.used \in Nat
  <2>1. x \in Nat
    BY <1>1, <1>11
  <2> DEFINE slots == s.slots
             base == s.base
             y == s.stack[m].slot
             next == s.used
  <2>2. /\ slots \in [1..(n - 1) -> Nat] /\ t.slots = [slots EXCEPT ![y] = x]
        /\ base \in [NodeIds -> Nat] /\ t.base = [base EXCEPT ![x] = next] /\ next \in Nat
    BY <1>2, <1>10
  <2> HIDE DEF slots, base, y, next, n
  <2>3. t.slots \in [1..(n - 1) -> Nat]
    BY ONLY <2>1, <2>2
  <2>4. t.base \in [NodeIds -> Nat]
    BY ONLY <2>2
  <2>5. t.used \in Nat
    <3> DEFINE used == s.used
    <3>1. used \in Nat /\ c \in Nat /\ t.used = used + c
      BY <1>2, <1>10
    <3> HIDE DEF used
    <3>2. QED
      BY ONLY <3>1
  <2>6. QED
    BY <2>3, <2>4, <2>5
<1>14. P(x) \in 1..s.used /\ P(x) \in 1..(n - 1)
  <2>1. P(x) \in 1..s.used
    BY <1>6, <1>11
  <2>2. QED
    BY <1>1, <1>2, <1>3, <2>1
<1> DEFINE used == s.used
           used2 == t.used
           new(q) == t.stack[m - 1 + q]
<1>15. used \in Nat /\ c \in Nat /\ used2 = used + c
  BY <1>2, <1>10
<1>16. \A q \in 1..c : new(q).slot = used + q /\ new(q).node = kid[x][q]
  BY <1>10
<1>17. Len(t.stack) = m - 1 + c /\ m \in Nat \ {0} /\ c \in Nat
  BY <1>10
<1> HIDE DEF n, P, Q, used, used2, new
<1>18. \A j \in 2..n : par[j] \in W => par[j] \in V \/ par[j] = x
  OBVIOUS
<1>19. Placed(t, W, par, rank)
  <2>1. ASSUME NEW j \in 2..n, par[j] \in W PROVE Q(j) \in 1..used2
    <3>1. CASE par[j] \in V
      <4>1. Q(j) \in 1..used
        BY <1>6, <1>12, <3>1 DEF used
      <4>2. QED
        BY ONLY <4>1, <1>15
    <3>2. CASE par[j] = x
      <4>1. Q(j) = used + rank[j] /\ rank[j] \in 1..c
        BY <1>5, <1>10, <1>12, <3>2 DEF used
      <4>2. QED
        BY ONLY <4>1, <1>15
    <3>3. QED
      BY <1>18, <2>1, <3>1, <3>2
  <2>2. ASSUME NEW i \in 2..n, NEW j \in 2..n, par[i] \in W, par[j] \in W, Q(i) = Q(j) PROVE i = j
    <3>1. \A k \in 2..n : par[k] \in V => Q(k) \in 1..used
      BY <1>6, <1>12 DEF used
    <3>2. \A k \in 2..n : par[k] = x => Q(k) = used + rank[k] /\ rank[k] \in 1..c
                                        /\ kid[x][rank[k]] = k
      BY <1>5, <1>10, <1>12 DEF used
    <3>3. CASE par[i] \in V /\ par[j] \in V
      BY <1>6, <1>12, <2>2, <3>3
    <3>4. CASE par[i] = x /\ par[j] = x
      <4>1. rank[i] = rank[j]
        BY <1>15, <2>2, <3>2, <3>4
      <4>2. QED
        BY <3>2, <3>4, <4>1
    <3>5. CASE par[i] \in V /\ par[j] = x
      BY <1>15, <2>2, <3>1, <3>2, <3>5
    <3>6. CASE par[i] = x /\ par[j] \in V
      BY <1>15, <2>2, <3>1, <3>2, <3>6
    <3>7. QED
      BY <1>18, <2>2, <3>3, <3>4, <3>5, <3>6
  <2>3. ASSUME NEW p \in 1..used2 PROVE \E j \in 2..n : par[j] \in W /\ Q(j) = p
    <3>1. p \in 1..used \/ (p - used \in 1..c /\ used + (p - used) = p)
      BY ONLY <1>15, p \in 1..used2
    <3>2. CASE p \in 1..used
      <4>1. PICK j \in 2..n : par[j] \in V /\ P(j) = p
        BY <1>6, <3>2 DEF used
      <4>2. QED
        BY <1>12, <4>1
    <3>3. CASE p - used \in 1..c /\ used + (p - used) = p
      <4> DEFINE q == p - used
                 j == kid[x][q]
      <4>1. q \in 1..nodes[x].kids /\ x \in 1..n
        BY <1>1, <1>10, <1>11, <3>3
      <4>2. j \in 2..n /\ par[j] = x /\ rank[j] = q
        BY <1>4, <1>5, <4>1
      <4>3. Q(j) = p
        BY <1>12, <3>3, <4>2 DEF used
      <4>4. QED
        BY <4>2, <4>3
    <3>4. QED
      BY <3>1, <3>2, <3>3
  <2>4. QED
    BY <2>1, <2>2, <2>3 DEF Placed, n, Q, used2
<1>20. \A q \in 1..c : /\ kid[x][q] \in 2..n /\ par[kid[x][q]] = x /\ rank[kid[x][q]] = q
                       /\ kid[x][q] \notin W
  <2> SUFFICES ASSUME NEW q \in 1..c
               PROVE  /\ kid[x][q] \in 2..n /\ par[kid[x][q]] = x /\ rank[kid[x][q]] = q
                      /\ kid[x][q] \notin W
    OBVIOUS
  <2> DEFINE j == kid[x][q]
  <2>1. q \in 1..nodes[x].kids /\ x \in 1..n
    BY <1>1, <1>10, <1>11
  <2>2. j \in 2..n /\ par[j] = x /\ rank[j] = q
    BY <1>4, <1>5, <2>1
  <2>3. j # 1 /\ j # x
    BY <1>1, <1>11, <2>2
  <2>4. j \notin V
    BY <1>8, <1>11, <2>2, <2>3
  <2>5. QED
    BY <2>2, <2>3, <2>4
<1>21. \A k \in 1..(m - 1) : k \in 1..Len(s.stack) /\ k # m
  BY ONLY <1>10
<1>22. \A k \in 1..Len(t.stack) :
         k \in 1..(m - 1) \/ \E q \in 1..c : m - 1 + q = k /\ t.stack[k] = new(q)
  <2> SUFFICES ASSUME NEW k \in 1..Len(t.stack)
               PROVE  k \in 1..(m - 1) \/ \E q \in 1..c : m - 1 + q = k /\ t.stack[k] = new(q)
    OBVIOUS
  <2>1. k \in 1..(m - 1) \/ (k - (m - 1) \in 1..c /\ m - 1 + (k - (m - 1)) = k)
    BY ONLY <1>17, k \in 1..Len(t.stack)
  <2>2. CASE k - (m - 1) \in 1..c /\ m - 1 + (k - (m - 1)) = k
    <3> DEFINE q == k - (m - 1)
    <3>1. q \in 1..c /\ m - 1 + q = k /\ t.stack[k] = new(q)
      BY <2>2 DEF new
    <3>2. QED
      BY <3>1
  <2>3. QED
    BY <2>1, <2>2
<1>23. Due(t, W, par, rank)
  <2>1. ASSUME NEW k \in 1..(m - 1)
        PROVE  LET task == t.stack[k]
               IN /\ task.node \in 2..n /\ task.node \notin W /\ par[task.node] \in V
                  /\ task.slot = Q(task.node)
    <3> DEFINE j == s.stack[k].node
    <3>1. t.stack[k] = s.stack[k] /\ k \in 1..Len(s.stack) /\ k # m
      BY <1>10, <1>21
    <3>2. j \in 2..n /\ j \notin V /\ par[j] \in V /\ s.stack[k].slot = P(j)
      BY <1>7, <3>1
    <3>3. j # x
      BY <1>7, <1>10, <1>11, <3>1
    <3>4. Q(j) = P(j)
      BY <1>12, <3>2
    <3>5. QED
      BY <3>1, <3>2, <3>3, <3>4
  <2>2. ASSUME NEW q \in 1..c
        PROVE  LET task == new(q)
               IN /\ task.node \in 2..n /\ task.node \notin W /\ par[task.node] = x
                  /\ rank[task.node] = q /\ task.slot = Q(task.node)
    <3>1. new(q).slot = used + q /\ new(q).node = kid[x][q]
      BY <1>16
    <3>2. Q(kid[x][q]) = used + q
      BY <1>12, <1>20 DEF used
    <3>3. QED
      BY <1>20, <3>1, <3>2
  <2>3. ASSUME NEW k \in 1..Len(t.stack)
        PROVE  LET task == t.stack[k]
               IN /\ task.node \in 2..n /\ task.node \notin W /\ par[task.node] \in W
                  /\ task.slot = Q(task.node)
    <3>1. CASE k \in 1..(m - 1)
      BY <2>1, <3>1
    <3>2. CASE \E q \in 1..c : m - 1 + q = k /\ t.stack[k] = new(q)
      BY <2>2, <3>2
    <3>3. QED
      BY <1>22, <3>1, <3>2
  <2>4. ASSUME NEW k \in 1..Len(t.stack), NEW l \in 1..Len(t.stack), t.stack[k].node = t.stack[l].node
        PROVE  k = l
    <3>1. \A i \in 1..(m - 1) : /\ t.stack[i].node = s.stack[i].node /\ i \in 1..Len(s.stack)
                                /\ par[t.stack[i].node] # x
      <4> SUFFICES ASSUME NEW i \in 1..(m - 1)
                   PROVE  /\ t.stack[i].node = s.stack[i].node /\ i \in 1..Len(s.stack)
                          /\ par[t.stack[i].node] # x
        OBVIOUS
      <4>1. t.stack[i] = s.stack[i] /\ i \in 1..Len(s.stack)
        BY <1>10, <1>21
      <4>2. par[t.stack[i].node] \in V /\ x \notin V
        BY <1>11, <2>1
      <4>3. QED
        BY <4>1, <4>2
    <3>2. \A q \in 1..c : par[new(q).node] = x /\ rank[new(q).node] = q
      BY <2>2
    <3>3. \A i \in 1..Len(t.stack) : par[t.stack[i].node] # x => i \in 1..(m - 1)
      BY <1>22, <3>2
    <3>4. CASE par[t.stack[k].node] # x
      <4>1. k \in 1..(m - 1) /\ l \in 1..(m - 1)
        BY <2>4, <3>3, <3>4
      <4>2. QED
        BY <1>7, <2>4, <3>1, <4>1
    <3>5. CASE par[t.stack[k].node] = x
      <4>1. k \notin 1..(m - 1) /\ l \notin 1..(m - 1)
        BY <2>4, <3>1, <3>5
      <4>2. PICK p \in 1..c : m - 1 + p = k /\ t.stack[k] = new(p)
        BY <1>22, <4>1
      <4>3. PICK q \in 1..c : m - 1 + q = l /\ t.stack[l] = new(q)
        BY <1>22, <4>1
      <4>4. p = q
        BY <2>4, <3>2, <4>2, <4>3
      <4>5. QED
        BY <4>2, <4>3, <4>4
    <3>6. QED
      BY <3>4, <3>5, Zenon
  <2>5. ASSUME NEW j \in 2..n, par[j] \in W, j \notin W PROVE \E k \in 1..Len(t.stack) : t.stack[k].node = j
    <3>1. CASE par[j] \in V
      <4>1. PICK k \in 1..Len(s.stack) : s.stack[k].node = j
        BY <1>7, <2>5, <3>1
      <4>2. k # m
        BY <1>10, <2>5, <4>1
      <4>3. k \in 1..(m - 1) /\ k \in 1..Len(t.stack)
        BY ONLY <1>10, <4>2, k \in 1..Len(s.stack)
      <4>4. QED
        BY <1>10, <4>1, <4>3
    <3>2. CASE par[j] = x
      <4>1. rank[j] \in 1..c /\ kid[x][rank[j]] = j
        BY <1>5, <1>10, <3>2
      <4>2. m - 1 + rank[j] \in 1..Len(t.stack)
        BY ONLY <1>17, <4>1
      <4>3. new(rank[j]).node = j
        BY <1>16, <4>1
      <4>4. QED
        BY <4>2, <4>3 DEF new
    <3>3. QED
      BY <1>18, <2>5, <3>1, <3>2
  <2>6. QED
    BY <2>3, <2>4, <2>5 DEF Due, n, Q
<1>24. Written(t, W, par, rank)
  <2>1. ASSUME NEW j \in V, j # 1 PROVE par[j] \in W /\ t.slots[Q(j)] = j
    <3>1. par[j] \in V /\ s.slots[P(j)] = j /\ j \in 2..n
      BY <1>1, <1>2, <1>8, <2>1
    <3>2. Q(j) = P(j) /\ P(j) \in 1..s.used /\ P(j) # P(x)
      BY <1>6, <1>11, <1>12, <3>1
    <3>3. P(j) \in 1..(n - 1)
      BY ONLY <1>1, <1>2, <1>3, <3>2
    <3>4. t.slots[P(j)] = s.slots[P(j)]
      BY <1>2, <1>10, <1>11, <3>2, <3>3
    <3>5. QED
      BY <3>1, <3>2, <3>4
  <2>2. par[x] \in W /\ t.slots[Q(x)] = x
    <3>1. Q(x) = P(x)
      BY <1>11, <1>12
    <3>2. t.slots[P(x)] = x
      <4>1. t.slots = [s.slots EXCEPT ![P(x)] = x]
        BY <1>10, <1>11
      <4>2. DOMAIN s.slots = 1..(n - 1)
        BY <1>2
      <4>3. QED
        BY <1>14, <4>1, <4>2, Zenon
    <3>3. QED
      BY <1>11, <3>1, <3>2
  <2>3. QED
    BY <2>1, <2>2 DEF Written, Q
<1>25. WalkOK(t, W, par, rank)
  BY <1>2, <1>10, <1>11, <1>13, <1>19, <1>23, <1>24 DEF WalkOK, n
<1>26. QED
  BY <1>11, <1>25 DEF t

(* The walk starts with the children of the root. *)
LEMMA WalkStarts ==
  ASSUME nodes \in Seq(NodeRecord), nodes # <<>>, NEW kid, NEW par, NEW rank,
         Family(nodes, kid, par), Ranked(kid, par, rank)
  PROVE  WalkOK(AtRoot, {1}, par, rank)
<1> DEFINE n == Len(nodes)
           c == nodes[1].kids
           t == AtRoot
           Q(j) == Place(t, par, rank, j)
<1>1. n \in Nat \ {0} /\ NodeIds = 1..n /\ 1 \in NodeIds
  BY LenProperties, EmptySeq DEF NodeIds
<1>2. /\ c \in Nat /\ Tasks(1, 0) \in Seq(Task) /\ Len(Tasks(1, 0)) = c
      /\ \A q \in 1..c : Tasks(1, 0)[q].slot = 0 + q /\ Tasks(1, 0)[q].node = kid[1][q]
  <2> DEFINE root == 1
             none == 0
  <2>1. root \in NodeIds /\ none \in Nat
    BY <1>1
  <2> HIDE DEF root, none
  <2>2. TasksFit(kid, root, none)
    BY <2>1, TasksAre
  <2>3. QED
    BY <2>2 DEF root, none, TasksFit
<1>3. /\ t.stack = Tasks(1, 0) /\ t.used = c
      /\ t.slots = [k \in 1..(n - 1) |-> 0] /\ t.base = [x \in NodeIds |-> 0]
  BY DEF AtRoot
<1>4. /\ \A j \in 2..n : par[j] \in 1..(j - 1)
      /\ \A k \in 1..c : kid[1][k] \in 2..n /\ par[kid[1][k]] = 1
  BY <1>1 DEF Family
<1>5. /\ \A j \in 2..n : par[j] = 1 => rank[j] \in 1..c /\ kid[1][rank[j]] = j
      /\ \A k \in 1..c : rank[kid[1][k]] = k
  BY <1>1 DEF Ranked
<1> HIDE DEF c, t
<1>6. \A j \in 2..n : par[j] = 1 => Q(j) = rank[j]
  <2> SUFFICES ASSUME NEW j \in 2..n, par[j] = 1 PROVE Q(j) = rank[j]
    OBVIOUS
  <2>1. t.base[par[j]] = 0
    BY <1>1, <1>3
  <2>2. rank[j] \in Nat
    BY <1>2, <1>5
  <2>3. QED
    BY <2>1, <2>2 DEF Place
<1>7. t.stack \in Seq(Task) /\ Len(t.stack) = c
      /\ \A q \in 1..c : t.stack[q].slot = q /\ t.stack[q].node = kid[1][q]
  BY <1>2, <1>3
<1>8. t.slots \in [1..(n - 1) -> Nat] /\ t.base \in [NodeIds -> Nat] /\ t.used \in Nat
  <2>1. t.used \in Nat
    BY <1>2, <1>3
  <2>2. t.slots \in [1..(n - 1) -> Nat]
    BY ONLY <1>3
  <2>3. t.base \in [NodeIds -> Nat]
    BY ONLY <1>3
  <2>4. QED
    BY <2>1, <2>2, <2>3
<1> HIDE DEF n, Q
<1>9. Placed(t, {1}, par, rank)
  <2>1. \A j \in 2..n : par[j] \in {1} => Q(j) \in 1..t.used
    BY <1>3, <1>5, <1>6
  <2>2. \A i, j \in 2..n : par[i] \in {1} /\ par[j] \in {1} /\ Q(i) = Q(j) => i = j
    <3> SUFFICES ASSUME NEW i \in 2..n, NEW j \in 2..n, par[i] = 1, par[j] = 1, Q(i) = Q(j)
                 PROVE  i = j
      OBVIOUS
    <3>1. rank[i] = rank[j]
      BY <1>6
    <3>2. QED
      BY <1>5, <3>1
  <2>3. \A p \in 1..t.used : \E j \in 2..n : par[j] \in {1} /\ Q(j) = p
    BY <1>3, <1>4, <1>5, <1>6
  <2>4. QED
    BY <2>1, <2>2, <2>3 DEF Placed, n, Q
<1>10. \A q \in 1..c : kid[1][q] \in 2..n /\ kid[1][q] # 1 /\ par[kid[1][q]] = 1 /\ rank[kid[1][q]] = q
  BY <1>4, <1>5 DEF n
<1>11. Due(t, {1}, par, rank)
  <2>1. ASSUME NEW k \in 1..Len(t.stack)
        PROVE  LET task == t.stack[k]
               IN /\ task.node \in 2..n /\ task.node \notin {1} /\ par[task.node] \in {1}
                  /\ task.slot = Q(task.node)
    <3>1. t.stack[k].slot = k /\ t.stack[k].node = kid[1][k] /\ k \in 1..c
      BY <1>7
    <3>2. Q(kid[1][k]) = k
      BY <1>6, <1>10, <3>1
    <3>3. QED
      BY <1>10, <3>1, <3>2
  <2>2. \A k, l \in 1..Len(t.stack) : t.stack[k].node = t.stack[l].node => k = l
    <3> SUFFICES ASSUME NEW k \in 1..c, NEW l \in 1..c, kid[1][k] = kid[1][l] PROVE k = l
      BY <1>7
    <3>1. QED
      BY <1>10
  <2>3. \A j \in 2..n :
          par[j] \in {1} /\ j \notin {1} => \E k \in 1..Len(t.stack) : t.stack[k].node = j
    BY <1>5, <1>7
  <2>4. QED
    BY <2>1, <2>2, <2>3 DEF Due, n, Q
<1>12. Written(t, {1}, par, rank)
  BY DEF Written
<1>13. QED
  BY <1>1, <1>7, <1>8, <1>9, <1>11, <1>12 DEF WalkOK, n, t

(* The recursion over the rounds defines where the walk is after each. *)
LEMMA WalkDefined ==
  ASSUME nodes \in Seq(NodeRecord)
  PROVE  \E f : /\ f[0] = AtRoot /\ Serialize = f[Len(nodes)]
                /\ \A n \in 1..Len(nodes) : f[n] = Walk(f[n - 1])
<1> DEFINE len == Len(nodes)
           E(f, n) == IF n = 0 THEN AtRoot ELSE Walk(f[n - 1])
           Exists(m) == \E f : f = [n \in 0..m |-> E(f, n)]
           Missing == {m \in 0..len : ~Exists(m)}
<1>1. len \in Nat
  BY LenProperties
<1>2. Exists(0)
  <2> DEFINE f == [n \in 0..0 |-> AtRoot]
  <2>1. f = [n \in 0..0 |-> E(f, n)]
    OBVIOUS
  <2>2. QED
    BY <2>1
<1>3. ASSUME NEW m \in Nat, Exists(m) PROVE Exists(m + 1)
  <2>1. PICK f : f = [n \in 0..m |-> E(f, n)]
    BY <1>3
  <2> DEFINE next == Walk(f[m])
             g == [n \in 0..(m + 1) |-> IF n = m + 1 THEN next ELSE f[n]]
  <2>2. ASSUME NEW n \in 0..(m + 1) PROVE g[n] = E(g, n)
    <3>1. CASE n = m + 1
      <4>1. n # 0 /\ n - 1 = m /\ m \in 0..(m + 1) /\ m # m + 1
        BY <3>1
      <4>2. g[n] = next /\ g[m] = f[m]
        BY <3>1, <4>1
      <4> HIDE DEF g
      <4>3. QED
        BY <3>1, <4>1, <4>2
    <3>2. CASE n # m + 1
      <4>1. n \in 0..m /\ f[n] = E(f, n)
        BY <2>1, <3>2
      <4>2. g[n] = f[n]
        BY <3>2
      <4>3. n # 0 => n - 1 \in 0..m /\ n - 1 \in 0..(m + 1) /\ n - 1 # m + 1
        BY <4>1
      <4>4. n # 0 => g[n - 1] = f[n - 1]
        BY <4>3
      <4> HIDE DEF g
      <4>5. QED
        BY <4>1, <4>2, <4>4
    <3>3. QED
      BY <3>1, <3>2
  <2>3. g = [n \in 0..(m + 1) |-> E(g, n)]
    <3>1. g = [n \in 0..(m + 1) |-> g[n]]
      OBVIOUS
    <3> HIDE DEF g
    <3>2. QED
      BY <2>2, <3>1
  <2>4. QED
    BY <2>3
<1> HIDE DEF Exists
<1>4. Missing = {}
  <2> SUFFICES ASSUME Missing # {} PROVE FALSE
    OBVIOUS
  <2>1. Missing \in SUBSET Nat
    BY <1>1
  <2>2. PICK m \in Missing : \A y \in Missing : m <= y
    <3> HIDE DEF Missing
    <3>1. QED
      BY <2>1, LeastExists
  <2>3. m \in Nat /\ m # 0 /\ m <= len
    BY <1>1, <1>2, <2>2
  <2>4. m - 1 \in 0..len /\ m - 1 \notin Missing
    BY <1>1, <2>2, <2>3
  <2>5. Exists((m - 1) + 1)
    BY <1>3, <2>3, <2>4
  <2>6. QED
    BY <2>2, <2>3, <2>5
<1>5. Exists(len)
  BY <1>1, <1>4
<1> DEFINE f == CHOOSE f : f = [n \in 0..len |-> E(f, n)]
<1>6. f = [n \in 0..len |-> E(f, n)]
  BY <1>5 DEF Exists
<1>7. Serialize = f[len]
  BY DEF Serialize
<1> HIDE DEF f
<1>8. f[0] = AtRoot /\ \A n \in 1..len : f[n] = Walk(f[n - 1])
  BY <1>1, <1>6
<1>9. QED
  BY <1>7, <1>8

(* A walk of as many rounds as there are nodes has been everywhere. *)
LEMMA WalkEnds ==
  ASSUME nodes \in Seq(NodeRecord), nodes # <<>>, NEW kid, NEW par, NEW rank,
         Family(nodes, kid, par), Ranked(kid, par, rank)
  PROVE  /\ WalkOK(Serialize, NodeIds, par, rank)
         /\ Serialize.stack = <<>> /\ Serialize.used = Len(nodes) - 1
<1> DEFINE n == Len(nodes)
           Good(s, r) ==
             \E V : /\ WalkOK(s, V, par, rank) /\ IsFiniteSet(V)
                    /\ Cardinality(V) = r + 1 \/ s.stack = <<>>
<1>1. n \in Nat \ {0} /\ NodeIds = 1..n
  BY LenProperties, EmptySeq DEF NodeIds
<1>2. PICK f : /\ f[0] = AtRoot /\ Serialize = f[n]
               /\ \A r \in 1..n : f[r] = Walk(f[r - 1])
  BY WalkDefined
<1>3. Good(AtRoot, 0)
  <2>1. WalkOK(AtRoot, {1}, par, rank)
    BY WalkStarts
  <2>2. IsFiniteSet({1}) /\ Cardinality({1}) = 0 + 1
    <3>1. IsFiniteSet({1}) /\ Cardinality({1}) = 1
      BY ONLY FS_Singleton, Zenon
    <3>2. QED
      BY <3>1
  <2>3. QED
    BY <2>1, <2>2
<1>4. ASSUME NEW r \in 1..n, NEW s, Good(s, r - 1) PROVE Good(Walk(s), r)
  <2>1. PICK V : /\ WalkOK(s, V, par, rank) /\ IsFiniteSet(V)
                 /\ Cardinality(V) = (r - 1) + 1 \/ s.stack = <<>>
    BY <1>4
  <2>2. CASE s.stack = <<>>
    <3>1. Walk(s) = s
      BY <2>2 DEF Walk
    <3>2. QED
      BY <2>1, <2>2, <3>1
  <2>3. CASE s.stack # <<>>
    <3>1. PICK x \in NodeIds \ V : WalkOK(Walk(s), V \cup {x}, par, rank)
      BY <2>1, <2>3, WalkGoesOn
    <3>2. IsFiniteSet(V \cup {x}) /\ Cardinality(V \cup {x}) = Cardinality(V) + 1
      BY <2>1, <3>1, FS_AddElement
    <3>3. Cardinality(V) + 1 = r + 1
      BY <2>1, <2>3
    <3>4. QED
      BY <3>1, <3>2, <3>3
  <2>4. QED
    BY <2>2, <2>3
<1> DEFINE Wrong == {r \in 0..n : ~Good(f[r], r)}
<1> HIDE DEF Good
<1>5. Wrong = {}
  <2> SUFFICES ASSUME Wrong # {} PROVE FALSE
    OBVIOUS
  <2>1. Wrong \in SUBSET Nat
    BY <1>1
  <2>2. PICK r \in Wrong : \A y \in Wrong : r <= y
    <3> HIDE DEF Wrong
    <3>1. QED
      BY <2>1, LeastExists
  <2>3. r \in 1..n
    BY <1>1, <1>2, <1>3, <2>2
  <2>4. r - 1 \in 0..n /\ r - 1 \notin Wrong
    BY <1>1, <2>2, <2>3
  <2>5. Good(f[r - 1], r - 1)
    BY <2>4
  <2>6. Good(f[r], r)
    BY <1>2, <1>4, <2>3, <2>5
  <2>7. QED
    BY <2>2, <2>6
<1>6. Good(Serialize, n)
  BY <1>1, <1>2, <1>5
<1> DEFINE s == Serialize
<1>7. PICK V : /\ WalkOK(s, V, par, rank) /\ IsFiniteSet(V)
               /\ Cardinality(V) = n + 1 \/ s.stack = <<>>
  BY <1>6 DEF Good
<1> HIDE DEF s
<1>8. /\ 1 \in V /\ V \subseteq NodeIds /\ s.used \in Nat
      /\ Placed(s, V, par, rank) /\ Due(s, V, par, rank)
  BY <1>7 DEF WalkOK
<1>9. s.stack = <<>>
  <2>1. IsFiniteSet(NodeIds) /\ Cardinality(NodeIds) = n
    BY <1>1, FS_Interval
  <2>2. Cardinality(V) <= n
    BY <1>8, <2>1, FS_Subset
  <2>3. Cardinality(V) # n + 1
    BY <1>1, <2>2
  <2>4. QED
    BY <1>7, <2>3
<1>10. V = NodeIds
  <2> DEFINE Left == NodeIds \ V
  <2> SUFFICES ASSUME Left # {} PROVE FALSE
    BY <1>8
  <2>1. Left \in SUBSET Nat
    BY <1>1
  <2>2. PICK j \in Left : \A y \in Left : j <= y
    <3> HIDE DEF Left
    <3>1. QED
      BY <2>1, LeastExists
  <2>3. j \in 2..n /\ j \notin V
    BY <1>1, <1>8, <2>2
  <2>4. par[j] \in 1..(j - 1)
    BY <2>3 DEF Family
  <2>5. par[j] \in NodeIds /\ ~(j <= par[j])
    BY <1>1, <2>3, <2>4
  <2>6. par[j] \in V
    BY <2>2, <2>5
  <2>7. Len(s.stack) = 0
    BY <1>9
  <2>8. \A k \in 1..Len(s.stack) : FALSE
    BY <2>7
  <2>9. \E k \in 1..Len(s.stack) : s.stack[k].node = j
    BY <1>8, <2>3, <2>6 DEF Due
  <2>10. QED
    BY <2>8, <2>9
<1>11. \A j \in 2..n : par[j] \in V
  <2> SUFFICES ASSUME NEW j \in 2..n PROVE par[j] \in V
    OBVIOUS
  <2>1. par[j] \in 1..(j - 1)
    BY DEF Family
  <2>2. QED
    BY <1>1, <1>10, <2>1
<1>12. s.used = n - 1
  BY <1>8, <1>11, PlacesFit
<1>13. QED
  BY <1>7, <1>9, <1>10, <1>12 DEF s

-----------------------------------------------------------------------------
(* The reading *)

(* after[x] is the first node behind x that is not below x. *)
Outside(par, x, y) == y = Len(nodes) + 1 \/ par[y] < x
Spanned(par, x, z) ==
  /\ z \in (x + 1)..(Len(nodes) + 1) /\ Outside(par, x, z)
  /\ \A y \in (x + 1)..(z - 1) : x <= par[y]
Spans(par, after) == \A x \in NodeIds : Spanned(par, x, after[x])

LEMMA SpansExist ==
  ASSUME nodes \in Seq(NodeRecord), NEW kid, NEW par, Family(nodes, kid, par)
  PROVE  \E after : Spans(par, after)
<1> DEFINE n == Len(nodes)
           after == [x \in NodeIds |-> CHOOSE z : Spanned(par, x, z)]
<1>1. n \in Nat /\ NodeIds = 1..n
  BY LenProperties DEF NodeIds
<1>2. \A y \in 2..n : par[y] \in 1..(y - 1)
  BY DEF Family
<1> HIDE DEF n
<1>3. ASSUME NEW x \in NodeIds PROVE \E z : Spanned(par, x, z)
  <2> DEFINE S == {y \in (x + 1)..(n + 1) : Outside(par, x, y)}
  <2>1. n + 1 \in S
    BY <1>1 DEF Outside, n
  <2>2. S \in SUBSET Nat /\ S # {}
    BY <1>1, <2>1
  <2>3. PICK z \in S : \A y \in S : z <= y
    <3> HIDE DEF S
    <3>1. QED
      BY <2>2, LeastExists
  <2>4. ASSUME NEW y \in (x + 1)..(z - 1) PROVE x <= par[y]
    <3>1. y \in (x + 1)..(n + 1) /\ ~(z <= y) /\ y \in 2..n
      BY <1>1, <2>3
    <3>2. ~Outside(par, x, y)
      BY <2>3, <3>1
    <3>3. ~(par[y] < x) /\ par[y] \in Nat /\ x \in Nat
      BY <1>1, <1>2, <3>1, <3>2 DEF Outside
    <3>4. QED
      BY ONLY <3>3
  <2>5. QED
    BY <2>3, <2>4 DEF Spanned, n
<1>4. \A x \in NodeIds : Spanned(par, x, after[x])
  BY <1>3
<1>5. QED
  BY <1>4 DEF Spans

LEMMA SpanIsOne ==
  ASSUME nodes \in Seq(NodeRecord), NEW kid, NEW par, Family(nodes, kid, par),
         NEW x \in NodeIds, NEW a, NEW b, Spanned(par, x, a), Spanned(par, x, b)
  PROVE  a = b
<1> DEFINE n == Len(nodes)
<1>1. n \in Nat /\ x \in 1..n
  BY LenProperties DEF NodeIds
<1>2. \A y \in 2..n : par[y] \in 1..(y - 1)
  BY DEF Family
<1>3. /\ a \in (x + 1)..(n + 1) /\ (a = n + 1 \/ par[a] < x)
      /\ b \in (x + 1)..(n + 1) /\ (b = n + 1 \/ par[b] < x)
      /\ \A y \in (x + 1)..(a - 1) : x <= par[y]
      /\ \A y \in (x + 1)..(b - 1) : x <= par[y]
  BY DEF Spanned, Outside
<1> HIDE DEF n
<1>4. ~(a < b)
  <2> SUFFICES ASSUME a < b PROVE FALSE
    OBVIOUS
  <2>1. a \in 2..n /\ a \in (x + 1)..(b - 1) /\ a # n + 1
    BY <1>1, <1>3
  <2>2. par[a] \in Nat /\ x <= par[a] /\ par[a] < x
    BY <1>2, <1>3, <2>1
  <2>3. QED
    BY <1>1, <2>2
<1>5. ~(b < a)
  <2> SUFFICES ASSUME b < a PROVE FALSE
    OBVIOUS
  <2>1. b \in 2..n /\ b \in (x + 1)..(a - 1) /\ b # n + 1
    BY <1>1, <1>3
  <2>2. par[b] \in Nat /\ x <= par[b] /\ par[b] < x
    BY <1>2, <1>3, <2>1
  <2>3. QED
    BY <1>1, <2>2
<1>6. QED
  BY <1>1, <1>3, <1>4, <1>5

(* What is behind a node but not below it, and not outside its parent, is   *)
(* a child of the same parent.                                             *)
LEMMA NextOfKin ==
  ASSUME nodes \in Seq(NodeRecord), NEW kid, NEW par, Family(nodes, kid, par),
         NEW crumbs, Preorder(Len(nodes), crumbs, par),
         NEW x \in NodeIds, NEW k \in 1..nodes[x].kids,
         NEW y \in (kid[x][k] + 1)..Len(nodes), x <= par[y]
  PROVE  \/ kid[x][k] <= par[y]
         \/ \E l \in 1..nodes[x].kids : k < l /\ y = kid[x][l]
<1> DEFINE n == Len(nodes)
           c == kid[x][k]
           m == nodes[x].kids
<1>1. n \in Nat /\ x \in 1..n
  BY LenProperties DEF NodeIds
<1>2. /\ \A j \in 2..n : par[j] \in 1..(j - 1) /\ \E l \in 1..nodes[par[j]].kids : kid[par[j]][l] = j
      /\ \A l \in 1..m : kid[x][l] \in 2..n /\ par[kid[x][l]] = x
  BY <1>1 DEF Family
<1>3. \A j \in 2..n : \A z \in (par[j] + 1)..(j - 1) : par[j] <= par[z]
  BY DEF Preorder
<1>4. m \in Nat /\ \A p, q \in 1..m : p < q => kid[x][p] < kid[x][q]
  BY KidsRise
<1>5. c \in 2..n /\ par[c] = x /\ c \in Nat
  BY <1>1, <1>2
<1>6. y \in 2..n /\ y \in Nat /\ c < y /\ par[y] \in Nat
  <2>1. y \in 2..n /\ c < y
    BY <1>1, <1>5
  <2>2. QED
    BY <1>1, <1>2, <2>1
<1> HIDE DEF n, c, m
<1>7. CASE par[y] < c
  <2>1. par[y] = x
    <3> SUFFICES ASSUME par[y] # x PROVE FALSE
      OBVIOUS
    <3>1. x < par[y] /\ c \in (par[y] + 1)..(y - 1)
      BY <1>1, <1>5, <1>6, <1>7
    <3>2. par[y] <= par[c]
      BY <1>3, <1>6, <3>1
    <3>3. QED
      BY <1>1, <1>5, <1>6, <3>1, <3>2
  <2>2. PICK l \in 1..m : kid[x][l] = y
    BY <1>2, <1>6, <2>1 DEF m
  <2>3. ~(l < k) /\ l # k
    <3>1. kid[x][k] = c /\ k \in 1..m
      BY DEF c, m
    <3>2. l < k => y < c
      BY <1>4, <2>2, <3>1
    <3>3. l = k => y = c
      BY <2>2, <3>1
    <3>4. QED
      BY <1>5, <1>6, <3>2, <3>3
  <2>4. k < l
    BY <1>4, <2>3, k \in 1..m DEF m
  <2>5. QED
    BY <2>2, <2>4 DEF m
<1>8. CASE ~(par[y] < c)
  BY <1>5, <1>6, <1>8 DEF c
<1>9. QED
  BY <1>7, <1>8

(* The children follow each other, and the first follows the node. *)
LEMMA KidsAdjoin ==
  ASSUME nodes \in Seq(NodeRecord), NEW kid, NEW par, Family(nodes, kid, par),
         NEW crumbs, Preorder(Len(nodes), crumbs, par),
         NEW after, Spans(par, after), NEW x \in NodeIds
  PROVE  /\ nodes[x].kids = 0 => after[x] = x + 1
         /\ nodes[x].kids > 0 => /\ kid[x][1] = x + 1
                                 /\ after[kid[x][nodes[x].kids]] = after[x]
         /\ \A k \in 1..(nodes[x].kids - 1) : after[kid[x][k]] = kid[x][k + 1]
<1> DEFINE n == Len(nodes)
           m == nodes[x].kids
           ch(k) == kid[x][k]
<1>1. n \in Nat /\ x \in 1..n /\ NodeIds = 1..n
  BY LenProperties DEF NodeIds
<1>2. /\ \A j \in 2..n : par[j] \in 1..(j - 1) /\ \E l \in 1..nodes[par[j]].kids : kid[par[j]][l] = j
      /\ \A l \in 1..m : ch(l) \in 2..n /\ par[ch(l)] = x
  BY <1>1 DEF Family
<1>3. \A j \in 2..n : \A z \in (par[j] + 1)..(j - 1) : par[j] <= par[z]
  BY DEF Preorder
<1>4. m \in Nat /\ \A p, q \in 1..m : p < q => ch(p) < ch(q)
  BY KidsRise
<1>5. \A k \in 1..m : \A y \in (ch(k) + 1)..n :
        x <= par[y] => ch(k) <= par[y] \/ \E l \in 1..m : k < l /\ y = ch(l)
  BY NextOfKin
<1>6. Spanned(par, x, after[x]) /\ \A k \in 1..m : Spanned(par, ch(k), after[ch(k)])
  BY <1>1, <1>2 DEF Spans
<1>7. \A l \in 1..m : x < ch(l) /\ ch(l) \in NodeIds /\ ch(l) \in Nat
  <2> SUFFICES ASSUME NEW l \in 1..m PROVE x < ch(l) /\ ch(l) \in NodeIds /\ ch(l) \in Nat
    OBVIOUS
  <2>1. ch(l) \in 2..n /\ par[ch(l)] = x
    BY <1>2
  <2>2. par[ch(l)] \in 1..(ch(l) - 1)
    BY <1>2, <2>1
  <2> HIDE DEF ch, n
  <2>3. QED
    BY <1>1, <2>1, <2>2
<1>8. \A j \in 2..n : par[j] = x => \E l \in 1..m : ch(l) = j
  BY <1>2
<1>9. /\ after[x] \in (x + 1)..(n + 1) /\ (after[x] = n + 1 \/ par[after[x]] < x)
      /\ \A y \in (x + 1)..(after[x] - 1) : x <= par[y]
  BY <1>6 DEF Spanned, Outside
<1>10. \A j \in 2..n : par[j] \in Nat /\ par[j] < j /\ j \in Nat
  BY <1>1, <1>2
<1> HIDE DEF n, m, ch
<1>11. m = 0 => after[x] = x + 1
  <2> SUFFICES ASSUME m = 0 PROVE after[x] = x + 1
    OBVIOUS
  <2>1. x + 1 \in (x + 1)..(n + 1)
    BY <1>1
  <2>2. x + 1 = n + 1 \/ par[x + 1] < x
    <3> SUFFICES ASSUME x + 1 # n + 1 PROVE par[x + 1] < x
      OBVIOUS
    <3>1. x + 1 \in 2..n
      BY <1>1
    <3>2. par[x + 1] # x
      BY <1>8, <3>1
    <3>3. par[x + 1] \in Nat /\ par[x + 1] < x + 1
      BY <1>10, <3>1
    <3>4. QED
      BY <1>1, <3>2, <3>3
  <2>3. \A y \in (x + 1)..((x + 1) - 1) : FALSE
    BY <1>1
  <2>4. Spanned(par, x, x + 1)
    BY <2>1, <2>2, <2>3 DEF Spanned, Outside, n
  <2>5. QED
    BY <1>6, <2>4, SpanIsOne
<1>12. m > 0 => ch(1) = x + 1
  <2> SUFFICES ASSUME m > 0, ch(1) # x + 1 PROVE FALSE
    OBVIOUS
  <2>1. 1 \in 1..m /\ ch(1) \in 2..n /\ par[ch(1)] = x /\ x < ch(1) /\ ch(1) \in Nat
    BY <1>2, <1>4, <1>7
  <2>2. x + 1 \in (x + 1)..(ch(1) - 1) /\ x + 1 \in 2..n
    BY <1>1, <2>1
  <2>3. x <= par[x + 1]
    BY <1>3, <2>1, <2>2
  <2>4. par[x + 1] = x
    BY <1>1, <1>10, <2>2, <2>3
  <2>5. PICK l \in 1..m : ch(l) = x + 1
    BY <1>8, <2>2, <2>4
  <2>6. l = 1 \/ 1 < l
    BY <1>4
  <2>7. ch(1) < ch(l)
    BY <1>4, <2>1, <2>5, <2>6
  <2>8. QED
    BY <1>1, <2>1, <2>5, <2>7
<1>13. ASSUME NEW k \in 1..(m - 1) PROVE after[ch(k)] = ch(k + 1)
  <2>1. k \in 1..m /\ k + 1 \in 1..m /\ k < k + 1
    BY <1>4
  <2> DEFINE b == ch(k)
             d == ch(k + 1)
  <2>2. /\ b \in 2..n /\ par[b] = x /\ x < b /\ b \in Nat /\ b \in NodeIds
        /\ d \in 2..n /\ par[d] = x /\ d \in Nat /\ b < d
    BY <1>2, <1>4, <1>7, <2>1
  <2>3. ASSUME NEW y \in (b + 1)..(d - 1) PROVE b <= par[y]
    <3> HIDE DEF b, d
    <3>1. y \in (b + 1)..n /\ y \in (x + 1)..(d - 1) /\ y < d
      BY <1>1, <2>2
    <3>2. x <= par[y]
      BY <1>3, <2>2, <3>1
    <3>3. b <= par[y] \/ \E l \in 1..m : k < l /\ y = ch(l)
      BY <1>5, <2>1, <3>1, <3>2 DEF b
    <3>4. ASSUME NEW l \in 1..m, k < l, y = ch(l) PROVE FALSE
      <4>1. l = k + 1 \/ k + 1 < l
        BY <1>4, <2>1, <3>4
      <4>2. d = y \/ d < y
        BY <1>4, <2>1, <3>4, <4>1 DEF d
      <4>3. QED
        BY <2>2, <3>1, <4>2
    <3>5. QED
      BY <3>3, <3>4
  <2> HIDE DEF b, d
  <2>4. d \in (b + 1)..(n + 1) /\ par[d] < b
    BY <1>1, <2>2
  <2>5. Spanned(par, b, d)
    BY <2>3, <2>4 DEF Spanned, Outside, n
  <2>6. Spanned(par, b, after[b])
    BY <1>6, <2>1 DEF b
  <2>7. after[b] = d
    BY <2>2, <2>5, <2>6, SpanIsOne
  <2>8. QED
    BY <2>7 DEF b, d
<1>14. m > 0 => after[ch(m)] = after[x]
  <2> SUFFICES ASSUME m > 0 PROVE after[ch(m)] = after[x]
    OBVIOUS
  <2>1. m \in 1..m
    BY <1>4
  <2> DEFINE b == ch(m)
             a == after[x]
  <2>2. b \in 2..n /\ par[b] = x /\ x < b /\ b \in Nat /\ b \in NodeIds
    BY <1>2, <1>7, <2>1
  <2>3. a \in (x + 1)..(n + 1) /\ (a = n + 1 \/ par[a] < x)
        /\ \A y \in (x + 1)..(a - 1) : x <= par[y]
    BY <1>9
  <2>4. Spanned(par, b, after[b])
    BY <1>6, <2>1
  <2> HIDE DEF b, a
  <2>5. b < a
    <3> SUFFICES ASSUME ~(b < a) PROVE FALSE
      OBVIOUS
    <3>1. a \in 2..n /\ a # n + 1 /\ a <= b
      BY <1>1, <2>2, <2>3
    <3>2. par[a] < x
      BY <2>3, <3>1
    <3>3. a # b
      BY <1>1, <2>2, <3>2
    <3>4. a \in (x + 1)..(b - 1)
      BY <1>1, <2>2, <2>3, <3>1, <3>3
    <3>5. x <= par[a]
      BY <1>3, <2>2, <3>4
    <3>6. QED
      BY <1>1, <1>10, <3>1, <3>2, <3>5
  <2>6. ASSUME NEW y \in (b + 1)..(a - 1) PROVE b <= par[y]
    <3>1. y \in (b + 1)..n /\ y \in (x + 1)..(a - 1)
      BY <1>1, <2>2, <2>3
    <3>2. x <= par[y]
      BY <2>3, <3>1
    <3>3. b <= par[y] \/ \E l \in 1..m : m < l /\ y = ch(l)
      BY <1>5, <2>1, <3>1, <3>2 DEF b
    <3>4. \A l \in 1..m : ~(m < l)
      BY <1>4
    <3>5. QED
      BY <3>3, <3>4
  <2>7. a \in (b + 1)..(n + 1) /\ (a = n + 1 \/ par[a] < b)
    <3>1. a \in (b + 1)..(n + 1)
      BY <1>1, <2>2, <2>3, <2>5
    <3>2. a # n + 1 => par[a] < b
      <4> SUFFICES ASSUME a # n + 1 PROVE par[a] < b
        OBVIOUS
      <4>1. a \in 2..n
        BY <1>1, <2>2, <3>1
      <4>2. QED
        BY <1>1, <1>10, <2>2, <2>3, <4>1
    <3>3. QED
      BY <3>1, <3>2
  <2>8. Spanned(par, b, a)
    BY <2>6, <2>7 DEF Spanned, Outside, n
  <2>9. after[b] = a
    BY <2>2, <2>4, <2>8, SpanIsOne
  <2>10. QED
    BY <2>9 DEF a, b
<1>15. QED
  BY <1>11, <1>12, <1>13, <1>14 DEF m, ch

(* The numbers from a up to b, without b. *)
Count(a, b) == [k \in 1..(b - a) |-> a + k - 1]

LEMMA CountFacts ==
  ASSUME NEW a \in Nat, NEW b \in Nat, a <= b
  PROVE  /\ Count(a, b) \in Seq(Nat) /\ Len(Count(a, b)) = b - a
         /\ \A k \in 1..(b - a) : Count(a, b)[k] = a + k - 1
<1> DEFINE c == b - a
           ts == Count(a, b)
<1>1. c \in Nat
  OBVIOUS
<1>2. ts = [k \in 1..c |-> a + k - 1]
  BY DEF Count
<1> HIDE DEF ts, c
<1>3. \A k \in 1..c : a + k - 1 \in Nat
  BY <1>1
<1>4. ts \in [1..c -> Nat] /\ \A k \in 1..c : ts[k] = a + k - 1
  BY <1>2, <1>3
<1>5. ts \in Seq(Nat)
  <2>1. Seq(Nat) = UNION {[1..n -> Nat] : n \in Nat}
    BY SeqDef
  <2>2. [1..c -> Nat] \in {[1..n -> Nat] : n \in Nat}
    BY <1>1
  <2>3. QED
    BY ONLY <1>4, <2>1, <2>2
<1>6. Len(ts) \in Nat /\ 1..Len(ts) = 1..c
  <2>1. DOMAIN ts = 1..Len(ts) /\ Len(ts) \in Nat
    BY ONLY <1>5, LenProperties
  <2>2. DOMAIN ts = 1..c
    BY ONLY <1>2
  <2>3. QED
    BY <2>1, <2>2
<1>7. Len(ts) = c
  BY <1>1, <1>6
<1>8. QED
  BY <1>4, <1>5, <1>7 DEF ts, c

LEMMA CountsJoin ==
  ASSUME NEW a \in Nat, NEW b \in Nat, NEW c \in Nat, a <= b, b <= c
  PROVE  Count(a, b) \o Count(b, c) = Count(a, c)
<1> DEFINE s == Count(a, b)
           t == Count(b, c)
           u == Count(a, c)
<1>1. /\ s \in Seq(Nat) /\ Len(s) = b - a /\ \A k \in 1..(b - a) : s[k] = a + k - 1
      /\ t \in Seq(Nat) /\ Len(t) = c - b /\ \A k \in 1..(c - b) : t[k] = b + k - 1
      /\ u \in Seq(Nat) /\ Len(u) = c - a /\ \A k \in 1..(c - a) : u[k] = a + k - 1
  <2>1. a <= c
    OBVIOUS
  <2>2. /\ s \in Seq(Nat) /\ Len(s) = b - a /\ \A k \in 1..(b - a) : s[k] = a + k - 1
    BY ONLY a \in Nat, b \in Nat, a <= b, CountFacts
  <2>3. /\ t \in Seq(Nat) /\ Len(t) = c - b /\ \A k \in 1..(c - b) : t[k] = b + k - 1
    BY ONLY b \in Nat, c \in Nat, b <= c, CountFacts
  <2>4. /\ u \in Seq(Nat) /\ Len(u) = c - a /\ \A k \in 1..(c - a) : u[k] = a + k - 1
    BY ONLY a \in Nat, c \in Nat, <2>1, CountFacts
  <2>5. QED
    BY <2>2, <2>3, <2>4
<1> HIDE DEF s, t, u
<1>2. /\ s \o t \in Seq(Nat) /\ Len(s \o t) = Len(s) + Len(t)
      /\ \A k \in 1..(Len(s) + Len(t)) : (s \o t)[k] = IF k <= Len(s) THEN s[k] ELSE t[k - Len(s)]
  BY ONLY <1>1, ConcatProperties
<1>3. Len(s) + Len(t) = c - a
  BY <1>1
<1>4. ASSUME NEW k \in 1..(c - a) PROVE (s \o t)[k] = u[k]
  <2>1. CASE k <= b - a
    <3>1. k \in 1..(b - a)
      BY <2>1
    <3>2. QED
      BY <1>1, <1>2, <1>3, <3>1
  <2>2. CASE ~(k <= b - a)
    <3>1. k - (b - a) \in 1..(c - b) /\ b + (k - (b - a)) - 1 = a + k - 1
      BY <2>2
    <3>2. (s \o t)[k] = t[k - (b - a)]
      BY <1>1, <1>2, <1>3, <2>2
    <3>3. QED
      BY <1>1, <3>1, <3>2
  <2>3. QED
    BY <2>1, <2>2
<1>5. s \o t = u
  BY <1>1, <1>2, <1>3, <1>4, SeqEqual
<1>6. QED
  BY <1>5 DEF s, t, u

(* Counts that adjoin, put together. *)
LEMMA CountsFlatten ==
  ASSUME NEW m \in Nat \ {0}, NEW p,
         \A k \in 1..(m + 1) : p[k] \in Nat /\ p[1] <= p[k],
         \A k \in 1..m : p[k] <= p[k + 1],
         NEW seqs, Len(seqs) = m, \A k \in 1..m : seqs[k] = Count(p[k], p[k + 1])
  PROVE  FlattenSeq(seqs) = Count(p[1], p[m + 1])
<1> DEFINE E(f, i) == IF i = 1 THEN seqs[i] ELSE f[i - 1] \o seqs[i]
           w == [i \in 1..m |-> Count(p[1], p[i + 1])]
<1>1. \A i \in 1..m : w[i] = Count(p[1], p[i + 1])
  OBVIOUS
<1>2. ASSUME NEW i \in 1..m PROVE w[i] = E(w, i)
  <2>1. CASE i = 1
    BY <1>1, <2>1
  <2>2. CASE i # 1
    <3>1. i - 1 \in 1..m /\ (i - 1) + 1 = i /\ i \in 1..(m + 1) /\ i + 1 \in 1..(m + 1) /\ 1 \in 1..(m + 1)
      BY <2>2
    <3>2. w[i - 1] = Count(p[1], p[i]) /\ seqs[i] = Count(p[i], p[i + 1])
      BY <1>1, <3>1
    <3>3. Count(p[1], p[i]) \o Count(p[i], p[i + 1]) = Count(p[1], p[i + 1])
      <4>1. p[1] \in Nat /\ p[i] \in Nat /\ p[i + 1] \in Nat /\ p[1] <= p[i] /\ p[i] <= p[i + 1]
        BY <3>1
      <4>2. QED
        BY ONLY <4>1, CountsJoin
    <3> HIDE DEF w
    <3>4. QED
      BY <1>1, <2>2, <3>2, <3>3
  <2>3. QED
    BY <2>1, <2>2
<1>3. w = [i \in 1..m |-> E(w, i)]
  <2>1. w = [i \in 1..m |-> w[i]]
    OBVIOUS
  <2> HIDE DEF w
  <2>2. QED
    BY <1>2, <2>1, Zenon
<1> HIDE DEF w
<1> DEFINE f == CHOOSE f : f = [i \in 1..m |-> E(f, i)]
<1>4. f = [i \in 1..m |-> E(f, i)]
  BY ONLY <1>3, Zenon
<1>5. FlattenSeq(seqs) = f[m]
  BY DEF FlattenSeq
<1> HIDE DEF f
<1>6. \A i \in 1..m : f[i] = E(f, i)
  BY <1>4
<1> DEFINE Wrong == {i \in 1..m : f[i] # w[i]}
<1>7. Wrong = {}
  <2> SUFFICES ASSUME Wrong # {} PROVE FALSE
    OBVIOUS
  <2>1. Wrong \in SUBSET Nat
    OBVIOUS
  <2>2. PICK i \in Wrong : \A y \in Wrong : i <= y
    <3> HIDE DEF Wrong
    <3>1. QED
      BY <2>1, LeastExists
  <2>3. i \in 1..m /\ f[i] # w[i] /\ f[i] = E(f, i) /\ w[i] = E(w, i)
    BY <1>2, <1>6, <2>2
  <2>4. i # 1
    BY <2>3
  <2>5. i - 1 \in 1..m /\ ~(i <= i - 1)
    BY <2>3, <2>4
  <2>6. f[i - 1] = w[i - 1]
    BY <2>2, <2>5
  <2>7. QED
    BY <2>3, <2>6
<1>8. m \in 1..m
  OBVIOUS
<1>9. QED
  BY <1>1, <1>5, <1>7, <1>8

KidsRead(reads, x, kid, after) ==
  /\ reads = [k \in 1..nodes[x].kids |-> reads[k]]
  /\ \A k \in 1..nodes[x].kids : reads[k] = Count(kid[x][k], after[kid[x][k]])

(* A node and what is read of its children are the nodes it spans. *)
LEMMA NodeReads ==
  ASSUME nodes \in Seq(NodeRecord), NEW kid, NEW par, Family(nodes, kid, par),
         NEW crumbs, Preorder(Len(nodes), crumbs, par),
         NEW after, Spans(par, after), NEW x \in NodeIds,
         NEW seqs, KidsRead(seqs, x, kid, after)
  PROVE  <<x>> \o FlattenSeq(seqs) = Count(x, after[x])
<1> DEFINE n == Len(nodes)
           m == nodes[x].kids
<1>1. n \in Nat /\ x \in 1..n /\ NodeIds = 1..n
  BY LenProperties DEF NodeIds
<1>2. m \in Nat /\ \A p, q \in 1..m : p < q => kid[x][p] < kid[x][q]
  BY KidsRise
<1>3. /\ m = 0 => after[x] = x + 1
      /\ m > 0 => kid[x][1] = x + 1 /\ after[kid[x][m]] = after[x]
      /\ \A k \in 1..(m - 1) : after[kid[x][k]] = kid[x][k + 1]
  BY KidsAdjoin
<1>4. \A y \in NodeIds : after[y] \in (y + 1)..(n + 1)
  BY DEF Spans, Spanned
<1>5. \A k \in 1..m : kid[x][k] \in NodeIds
  <2>1. \A k \in 1..m : kid[x][k] \in 2..n
    BY <1>1 DEF Family
  <2>2. QED
    BY <1>1, <2>1
<1>6. \A k \in 1..m : seqs[k] = Count(kid[x][k], after[kid[x][k]])
  BY DEF KidsRead
<1>7. x \in Nat /\ after[x] \in Nat /\ x + 1 \in Nat /\ x + 1 <= after[x] /\ x <= x + 1
  BY <1>1, <1>4
<1>8. <<x>> = Count(x, x + 1)
  <2>1. /\ Count(x, x + 1) \in Seq(Nat) /\ Len(Count(x, x + 1)) = 1
        /\ Count(x, x + 1)[1] = x
    <3> DEFINE b == x + 1
    <3>1. x \in Nat /\ b \in Nat /\ x <= b /\ b - x = 1 /\ x + 1 - 1 = x
      BY <1>7
    <3> HIDE DEF b
    <3>2. /\ Count(x, b) \in Seq(Nat) /\ Len(Count(x, b)) = b - x
          /\ \A k \in 1..(b - x) : Count(x, b)[k] = x + k - 1
      BY ONLY <3>1, CountFacts
    <3>3. 1 \in 1..(b - x)
      BY <3>1
    <3>4. QED
      BY <3>1, <3>2, <3>3 DEF b
  <2>2. <<x>> \in Seq(Nat) /\ Len(<<x>>) = 1 /\ <<x>>[1] = x
    BY <1>7
  <2>3. \A k \in 1..1 : k = 1
    OBVIOUS
  <2>4. QED
    BY <2>1, <2>2, <2>3, SeqEqual
<1>9. Len(seqs) = m
  <2>1. seqs = [k \in 1..m |-> seqs[k]]
    BY DEF KidsRead
  <2>2. QED
    BY <1>2, <2>1
<1>10. CASE m = 0
  <2>1. FlattenSeq(seqs) = seqs
    BY <1>9, <1>10 DEF FlattenSeq
  <2>2. seqs = <<>>
    <3>1. seqs = [k \in 1..m |-> seqs[k]]
      BY DEF KidsRead
    <3>2. QED
      BY <1>10, <3>1
  <2>3. <<x>> \o <<>> = <<x>>
    BY <1>7
  <2>4. FlattenSeq(seqs) = <<>>
    BY <2>1, <2>2
  <2>5. <<x>> \o FlattenSeq(seqs) = Count(x, after[x])
    BY <1>3, <1>8, <1>10, <2>3, <2>4
  <2>6. QED
    BY <2>5
<1>11. CASE m # 0
  <2> DEFINE p == [k \in 1..(m + 1) |-> IF k = m + 1 THEN after[x] ELSE kid[x][k]]
  <2>1. m \in Nat \ {0} /\ 1 \in 1..m /\ m \in 1..m /\ m > 0
    BY <1>2, <1>11
  <2>2. /\ p[m + 1] = after[x] /\ \A k \in 1..m : p[k] = kid[x][k]
    BY <2>1
  <2>3. p[1] = x + 1
    BY <1>3, <2>1, <2>2
  <2>4. \A k \in 1..m : after[kid[x][k]] = p[k + 1]
    <3> SUFFICES ASSUME NEW k \in 1..m PROVE after[kid[x][k]] = p[k + 1]
      OBVIOUS
    <3>1. CASE k = m
      BY <1>3, <2>1, <2>2, <3>1
    <3>2. CASE k # m
      <4>1. k \in 1..(m - 1) /\ k + 1 \in 1..m
        BY <2>1, <3>2
      <4>2. QED
        BY <1>3, <2>2, <4>1
    <3>3. QED
      BY <3>1, <3>2
  <2> HIDE DEF p, m
  <2>5. ASSUME NEW k \in 1..m PROVE p[k] \in Nat /\ p[k + 1] \in Nat /\ p[1] <= p[k] /\ p[k] <= p[k + 1]
    <3>1. p[k] = kid[x][k] /\ kid[x][k] \in NodeIds /\ p[k + 1] \in (kid[x][k] + 1)..(n + 1)
      BY <1>4, <1>5, <2>2, <2>4
    <3>2. p[k] \in Nat /\ p[k + 1] \in Nat /\ p[k] <= p[k + 1]
      BY <1>1, <3>1
    <3>3. p[1] \in Nat /\ p[1] = kid[x][1]
      BY <1>7, <2>1, <2>2, <2>3
    <3>4. k = 1 \/ 1 < k
      BY <2>1
    <3>5. p[1] <= p[k]
      BY <1>2, <2>1, <3>1, <3>2, <3>3, <3>4 DEF m
    <3>6. QED
      BY <3>2, <3>5
  <2>6. \A k \in 1..(m + 1) : p[k] \in Nat /\ p[1] <= p[k]
    <3> SUFFICES ASSUME NEW k \in 1..(m + 1) PROVE p[k] \in Nat /\ p[1] <= p[k]
      OBVIOUS
    <3>1. k \in 1..m \/ k = m + 1
      BY <2>1
    <3>2. QED
      BY <1>7, <2>2, <2>3, <2>5, <3>1
  <2>7. \A k \in 1..m : p[k] <= p[k + 1]
    BY <2>5
  <2>8. \A k \in 1..m : seqs[k] = Count(p[k], p[k + 1])
    BY <1>6, <2>2, <2>4 DEF m
  <2>9. FlattenSeq(seqs) = Count(x + 1, after[x])
    <3>1. Len(seqs) = m
      BY <1>9
    <3>2. FlattenSeq(seqs) = Count(p[1], p[m + 1])
      BY ONLY <2>1, <2>6, <2>7, <2>8, <3>1, CountsFlatten
    <3>3. QED
      BY <2>2, <2>3, <3>2
  <2>10. Count(x, x + 1) \o Count(x + 1, after[x]) = Count(x, after[x])
    BY ONLY <1>7, CountsJoin
  <2>11. <<x>> \o FlattenSeq(seqs) = Count(x, after[x])
    BY <1>8, <2>9, <2>10
  <2>12. QED
    BY <2>11
<1>12. QED
  BY <1>10, <1>11

(* The array holds every node but the root, each in the window of its       *)
(* parent and there at its place among the children.                       *)
LEMMA TreeWritten ==
  ASSUME nodes \in Seq(NodeRecord), nodes # <<>>, NEW kid, NEW par, Family(nodes, kid, par)
  PROVE  LET s == Serialize
         IN /\ s.stack = <<>> /\ s.used = Len(nodes) - 1
            /\ ToSet(s.slots) = 2..Len(nodes)
            /\ \A x \in NodeIds : \A k \in 1..nodes[x].kids : s.slots[s.base[x] + k] = kid[x][k]
<1> DEFINE n == Len(nodes)
           s == Serialize
<1>1. n \in Nat \ {0} /\ NodeIds = 1..n
  BY LenProperties, EmptySeq DEF NodeIds
<1>2. PICK rank : Ranked(kid, par, rank)
  BY RanksExist
<1>3. WalkOK(s, NodeIds, par, rank) /\ s.stack = <<>> /\ s.used = n - 1
  BY <1>2, WalkEnds
<1> DEFINE P(j) == Place(s, par, rank, j)
<1> HIDE DEF s
<1>4. \A j \in 2..n : par[j] \in NodeIds /\ j \in NodeIds /\ j # 1
  <2> SUFFICES ASSUME NEW j \in 2..n PROVE par[j] \in NodeIds /\ j \in NodeIds /\ j # 1
    OBVIOUS
  <2>1. par[j] \in 1..(j - 1)
    BY DEF Family
  <2>2. QED
    BY <1>1, <2>1
<1>5. s.slots \in [1..(n - 1) -> Nat]
  BY <1>3 DEF WalkOK
<1>6. /\ \A j \in 2..n : P(j) \in 1..(n - 1)
      /\ \A p \in 1..(n - 1) : \E j \in 2..n : P(j) = p
  <2>1. Placed(s, NodeIds, par, rank)
    BY <1>3 DEF WalkOK
  <2>2. QED
    BY <1>3, <1>4, <2>1 DEF Placed
<1>7. \A j \in 2..n : s.slots[P(j)] = j
  <2>1. Written(s, NodeIds, par, rank)
    BY <1>3 DEF WalkOK
  <2>2. QED
    BY <1>4, <2>1 DEF Written
<1>8. ASSUME NEW x \in NodeIds, NEW k \in 1..nodes[x].kids PROVE s.slots[s.base[x] + k] = kid[x][k]
  <2>1. kid[x][k] \in 2..n /\ par[kid[x][k]] = x
    BY <1>1 DEF Family
  <2>2. rank[kid[x][k]] = k
    BY <1>2 DEF Ranked
  <2>3. P(kid[x][k]) = s.base[x] + k
    BY <2>1, <2>2 DEF Place
  <2>4. QED
    BY <1>7, <2>1, <2>3
<1> HIDE DEF P, n
<1>9. ToSet(s.slots) = 2..n
  <2>1. DOMAIN s.slots = 1..(n - 1)
    BY <1>5
  <2>2. ToSet(s.slots) = {s.slots[i] : i \in 1..(n - 1)}
    BY <2>1 DEF ToSet
  <2>3. ASSUME NEW i \in 1..(n - 1) PROVE s.slots[i] \in 2..n
    <3>1. PICK j \in 2..n : P(j) = i
      BY <1>6
    <3>2. s.slots[P(j)] = j
      BY <1>7
    <3>3. QED
      BY <3>1, <3>2
  <2>4. ASSUME NEW j \in 2..n PROVE \E i \in 1..(n - 1) : s.slots[i] = j
    BY <1>6, <1>7
  <2>5. QED
    BY <2>2, <2>3, <2>4
<1>10. QED
  BY <1>3, <1>8, <1>9 DEF s, n

(* The tree reads in the order of the arena. *)
LEMMA ReadsInOrder ==
  ASSUME nodes \in Seq(NodeRecord), nodes # <<>>, NEW kid, NEW par, Family(nodes, kid, par),
         NEW crumbs, Preorder(Len(nodes), crumbs, par), NEW s,
         \A x \in NodeIds : \A k \in 1..nodes[x].kids : s.slots[s.base[x] + k] = kid[x][k]
  PROVE  Reading(s) = [x \in NodeIds |-> x]
<1> DEFINE n == Len(nodes)
           E(f, x) ==
             <<x>> \o FlattenSeq([k \in 1..nodes[x].kids |-> f[s.slots[s.base[x] + k]]])
<1>1. n \in Nat \ {0} /\ NodeIds = 1..n
  BY LenProperties, EmptySeq DEF NodeIds
<1>2. PICK after : Spans(par, after)
  BY SpansExist
<1> DEFINE w == [x \in NodeIds |-> Count(x, after[x])]
<1>3. \A x \in NodeIds : w[x] = Count(x, after[x])
  OBVIOUS
<1>4. \A x \in NodeIds : \A k \in 1..nodes[x].kids : kid[x][k] \in NodeIds /\ x < kid[x][k]
  <2> SUFFICES ASSUME NEW x \in NodeIds, NEW k \in 1..nodes[x].kids
               PROVE  kid[x][k] \in NodeIds /\ x < kid[x][k]
    OBVIOUS
  <2>1. kid[x][k] \in 2..n /\ par[kid[x][k]] = x
    BY <1>1 DEF Family
  <2>2. par[kid[x][k]] \in 1..(kid[x][k] - 1)
    BY <2>1 DEF Family
  <2>3. QED
    BY <1>1, <2>1, <2>2
<1> HIDE DEF w
<1>5. ASSUME NEW f, NEW x \in NodeIds, \A k \in 1..nodes[x].kids : f[kid[x][k]] = w[kid[x][k]]
      PROVE  E(f, x) = w[x]
  <2> DEFINE reads == [k \in 1..nodes[x].kids |-> f[s.slots[s.base[x] + k]]]
  <2>1. \A k \in 1..nodes[x].kids : reads[k] = f[kid[x][k]]
    OBVIOUS
  <2>2. reads = [k \in 1..nodes[x].kids |-> reads[k]]
    OBVIOUS
  <2>3. E(f, x) = <<x>> \o FlattenSeq(reads)
    OBVIOUS
  <2> HIDE DEF reads, E
  <2>4. \A k \in 1..nodes[x].kids : reads[k] = Count(kid[x][k], after[kid[x][k]])
    BY <1>3, <1>4, <1>5, <2>1
  <2>5. KidsRead(reads, x, kid, after)
    BY <2>2, <2>4 DEF KidsRead
  <2>6. <<x>> \o FlattenSeq(reads) = Count(x, after[x])
    BY <1>2, <2>5, NodeReads
  <2>7. QED
    BY <1>3, <2>3, <2>6
<1>6. w = [x \in NodeIds |-> E(w, x)]
  <2>1. w = [x \in NodeIds |-> w[x]]
    BY DEF w
  <2>2. \A x \in NodeIds : E(w, x) = w[x]
    BY <1>5, Zenon
  <2> HIDE DEF E
  <2>3. QED
    BY <2>1, <2>2
<1> DEFINE f == CHOOSE f : f = [x \in NodeIds |-> E(f, x)]
<1>7. f = [x \in NodeIds |-> E(f, x)]
  BY ONLY <1>6, Zenon
<1>8. Reading(s) = f[1]
  BY Zenon DEF Reading
<1> HIDE DEF f
<1>9. \A x \in NodeIds : f[x] = E(f, x)
  BY <1>7, Zenon
<1> HIDE DEF E, n
<1> DEFINE Wrong == {d \in 0..n : n - d \in NodeIds /\ f[n - d] # w[n - d]}
<1>10. Wrong = {}
  <2> SUFFICES ASSUME Wrong # {} PROVE FALSE
    OBVIOUS
  <2>1. Wrong \in SUBSET Nat
    BY <1>1
  <2>2. PICK d \in Wrong : \A y \in Wrong : d <= y
    <3> HIDE DEF Wrong
    <3>1. QED
      BY <2>1, LeastExists
  <2> DEFINE x == n - d
  <2>3. x \in NodeIds /\ f[x] # w[x] /\ d \in 0..n
    BY <2>2
  <2>4. ASSUME NEW y \in NodeIds, x < y PROVE f[y] = w[y]
    <3>1. n - y \in 0..n /\ n - (n - y) = y /\ ~(d <= n - y)
      BY <1>1, <2>3, <2>4
    <3>2. n - y \notin Wrong
      BY <2>2, <3>1
    <3>3. QED
      BY <3>1, <3>2
  <2> HIDE DEF x
  <2>5. \A k \in 1..nodes[x].kids : f[kid[x][k]] = w[kid[x][k]]
    BY <1>4, <2>3, <2>4
  <2>6. E(f, x) = w[x]
    BY <1>5, <2>3, <2>5
  <2>7. QED
    BY <1>9, <2>3, <2>6
<1>11. 1 \in NodeIds /\ f[1] = w[1]
  <2>1. 1 \in NodeIds /\ n - 1 \in 0..n /\ n - (n - 1) = 1
    BY <1>1
  <2>2. n - 1 \notin Wrong
    BY <1>10
  <2>3. QED
    BY <2>1, <2>2
<1>12. after[1] = n + 1
  <2>1. Spanned(par, 1, after[1])
    BY <1>2, <1>11 DEF Spans
  <2>2. after[1] \in 2..(n + 1) /\ (after[1] = n + 1 \/ par[after[1]] < 1)
    BY <2>1 DEF Spanned, Outside, n
  <2>3. \A j \in 2..n : par[j] \in 1..(j - 1)
    BY DEF Family, n
  <2>4. \A j \in 2..n : ~(par[j] < 1)
    BY <2>3
  <2>5. after[1] # n + 1 => after[1] \in 2..n
    BY <1>1, <2>2
  <2>6. QED
    BY <2>2, <2>4, <2>5
<1>13. Count(1, n + 1) = [x \in NodeIds |-> x]
  <2>1. (n + 1) - 1 = n /\ \A k \in 1..n : 1 + k - 1 = k
    BY <1>1
  <2>2. Count(1, n + 1) = [k \in 1..n |-> 1 + k - 1]
    BY <2>1 DEF Count
  <2>3. QED
    BY <1>1, <2>1, <2>2
<1>14. QED
  BY <1>3, <1>8, <1>11, <1>12, <1>13

LEMMA TreeSerialized == IInv /\ TreeOK /\ TextsInOrder(nodes) => SerializedAsParsed
<1> SUFFICES ASSUME IInv, TreeOK, TextsInOrder(nodes) PROVE SerializedAsParsed
  OBVIOUS
<1>1. nodes \in Seq(NodeRecord) /\ nodes # <<>>
  BY DEF IInv, RecordsOK
<1>2. PICK kid, par, around : TreeFits(nodes, breadcrumbs, stack, Deepest, kid, par, around)
  BY DEF TreeOK
<1>3. Family(nodes, kid, par) /\ Preorder(Len(nodes), breadcrumbs, par)
  BY <1>2 DEF TreeFits
<1> DEFINE s == Serialize
<1>4. /\ s.stack = <<>> /\ s.used = Len(nodes) - 1 /\ ToSet(s.slots) = 2..Len(nodes)
      /\ \A x \in NodeIds : \A k \in 1..nodes[x].kids : s.slots[s.base[x] + k] = kid[x][k]
  BY <1>1, <1>3, TreeWritten
<1> HIDE DEF s
<1>5. Reading(s) = [x \in NodeIds |-> x]
  BY <1>1, <1>3, <1>4, ReadsInOrder
<1>6. \A x \in NodeIds : \A k \in 1..nodes[x].kids : s.slots[s.base[x] + k] > x
  <2> SUFFICES ASSUME NEW x \in NodeIds, NEW k \in 1..nodes[x].kids PROVE kid[x][k] > x
    BY <1>4
  <2>1. kid[x][k] \in 2..Len(nodes) /\ par[kid[x][k]] = x
    BY <1>3 DEF Family, NodeIds
  <2>2. par[kid[x][k]] \in 1..(kid[x][k] - 1)
    BY <1>3, <2>1 DEF Family
  <2>3. kid[x][k] \in Nat
    BY <1>1, <2>1, LenProperties
  <2>4. QED
    BY <2>1, <2>2, <2>3
<1>7. \A k, l \in DOMAIN Text : k < l => Text[k][2] <= Text[l][1]
  BY <1>1, TextOrdered
<1>8. QED
  BY <1>4, <1>5, <1>6, <1>7 DEF SerializedAsParsed, s

LEMMA StartOrder == AtStart => TextsInOrder(nodes)
<1> SUFFICES ASSUME AtStart PROVE TextsInOrder(nodes)
  OBVIOUS
<1>1. nodes = <<Root>>
  BY DEF AtStart
<1>2. Len(nodes) = 1
  BY <1>1
<1>3. \A i, j \in 1..1 : ~(i < j)
  OBVIOUS
<1>4. QED
  BY <1>2, <1>3 DEF TextsInOrder

(* serialize.go:28, serialize.go:105: whatever was demoted, skipped, left    *)
(* out by a limit or closed by force, the walk over the arena of a finished *)
(* parse writes every node to one place of its own, and both the tree and   *)
(* the text read in the order of the input.                                *)
THEOREM SerializesAsParsed == Spec => []SerializedAsParsed
<1>1. Init => TalliesOK /\ TreeOK /\ TextsInOrder(nodes)
  BY StartTallies, StartTree, StartOrder DEF Init, AtStart
<1>2. IInv /\ TalliesOK /\ TreeOK /\ TextsInOrder(nodes) /\ [Next]_vars
        => (TalliesOK /\ TreeOK /\ TextsInOrder(nodes))'
  BY NextTallies, NextTree, NextOrder
<1>3. IInv /\ TreeOK /\ TextsInOrder(nodes) => SerializedAsParsed
  BY TreeSerialized
<1>4. Spec => []IInv
  BY ParserInvariant
<1>5. QED
  BY <1>1, <1>2, <1>3, <1>4, PTL DEF Spec
=============================================================================
