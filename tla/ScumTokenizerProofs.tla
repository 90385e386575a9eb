------------------------- MODULE ScumTokenizerProofs -------------------------
(***************************************************************************)
(* Proofs about ScumTokenizer, for any dictionary that calls can set up,   *)
(* any limits and any input: the tokens tile the input and are what the    *)
(* parser relies on, markup that is left as text is reported, the scan     *)
(* always moves on, bodies and attributes end where they should, and the   *)
(* statistics are those of the tokens.                                     *)
(***************************************************************************)
EXTENDS ScumTokenizerInv, TLAPS, FiniteSetTheorems, SequenceTheorems, WellFoundedInduction

-----------------------------------------------------------------------------
(* Least and greatest numbers *)

LEMMA LeastExists ==
  ASSUME NEW S \in SUBSET Nat, S # {}
  PROVE  \E m \in S : \A y \in S : m <= y
<1> DEFINE R == OpToRel(<, Nat)
<1>1. IsWellFoundedOn(R, Nat)
  BY NatLessThanWellFounded, Zenon
<1>2. \A y, m \in Nat : y < m => <<y, m>> \in R
  BY Zenon DEF OpToRel
<1> HIDE DEF R
<1>3. PICK m \in S : \A y \in S : ~ (<<y, m>> \in R)
  BY <1>1, WFMin
<1>4. \A y \in S : ~ (y < m)
  BY <1>2, <1>3
<1>5. QED
  BY <1>4

LEMMA MinFacts ==
  ASSUME NEW S \in SUBSET Nat, S # {}
  PROVE  Min(S) \in S /\ \A y \in S : Min(S) <= y
  BY LeastExists DEF Min

LEMMA MaxFacts ==
  ASSUME NEW top \in Nat, NEW S \in SUBSET 0..top, S # {}
  PROVE  Max(S) \in S /\ \A y \in S : Max(S) >= y
<1> DEFINE T == {top - y : y \in S}
<1>1. T \in SUBSET Nat /\ T # {}
  <2>1. \A y \in S : top - y \in Nat
    OBVIOUS
  <2>2. QED
    BY <2>1
<1>2. PICK m \in T : \A y \in T : m <= y
  BY <1>1, LeastExists
<1>3. \E x \in S : \A y \in S : x >= y
  <2>1. PICK x \in S : m = top - x
    BY <1>2
  <2>2. \A y \in S : x >= y
    BY <1>2, <2>1
  <2>3. QED
    BY <2>2
<1>4. QED
  BY <1>3 DEF Max

-----------------------------------------------------------------------------
(* The dictionary *)

(* The recursion over the calls defines what it says. *)
Fills(setup, m, d) ==
  /\ d[0] = NewDictionary(setup.limits)
  /\ \A k \in 1..m : d[k] = Configured(d[k - 1], setup.calls[k])

LEMMA FilledSteps ==
  ASSUME NEW setup \in Setup
  PROVE  Fills(setup, Len(setup.calls), Filled(setup))
<1> DEFINE len == Len(setup.calls)
           E(d, k) == IF k = 0 THEN NewDictionary(setup.limits)
                      ELSE Configured(d[k - 1], setup.calls[k])
           Exists(m) == \E d : d = [k \in 0..m |-> E(d, k)]
           Missing == {m \in 0..len : ~Exists(m)}
<1>1. len \in Nat
  BY LenProperties DEF Setup
<1> HIDE DEF len
<1>2. Exists(0)
  <2> DEFINE d == [k \in 0..0 |-> NewDictionary(setup.limits)]
  <2>1. d = [k \in 0..0 |-> E(d, k)]
    OBVIOUS
  <2>2. QED
    BY <2>1
<1>3. ASSUME NEW m \in Nat, Exists(m) PROVE Exists(m + 1)
  <2>1. PICK d : d = [k \in 0..m |-> E(d, k)]
    BY <1>3
  <2> DEFINE e == [k \in 0..(m + 1) |-> IF k = m + 1 THEN Configured(d[m], setup.calls[m + 1])
                                        ELSE d[k]]
  <2>2. \A k \in 0..(m + 1) : e[k] = E(e, k)
    <3>1. ASSUME NEW k \in 0..(m + 1) PROVE e[k] = E(e, k)
      <4>1. CASE k = m + 1
        <5>1. e[m] = d[m] /\ k # 0 /\ k - 1 = m
          BY <4>1
        <5>2. QED
          BY <4>1, <5>1
      <4>2. CASE k # m + 1
        <5>1. k \in 0..m /\ e[k] = d[k] /\ d[k] = E(d, k)
          BY <2>1, <4>2
        <5>2. k # 0 => k - 1 \in 0..m /\ e[k - 1] = d[k - 1]
          BY <5>1
        <5>3. QED
          BY <5>1, <5>2
      <4>3. QED
        BY <4>1, <4>2
    <3>2. QED
      BY <3>1
  <2>3. e = [k \in 0..(m + 1) |-> E(e, k)]
    BY <2>2
  <2>4. QED
    BY <2>3
<1> HIDE DEF Exists
<1>4. Missing = {}
  <2> SUFFICES ASSUME Missing # {} PROVE FALSE
    OBVIOUS
  <2>1. Missing \in SUBSET Nat
    BY <1>1
  <2>2. PICK m \in Missing : \A y \in Missing : m <= y
    <3> HIDE DEF Missing
    <3>1. QED
      BY <2>1, LeastExists
  <2>3. m \in Nat /\ m # 0 /\ m <= len
    BY <1>1, <1>2, <2>2
  <2>4. m - 1 \in 0..len /\ m - 1 \notin Missing
    BY <1>1, <2>2, <2>3
  <2>5. Exists((m - 1) + 1)
    BY <1>3, <2>3, <2>4
  <2>6. QED
    BY <2>2, <2>3, <2>5
<1>5. Exists(len)
  BY <1>1, <1>4
<1> DEFINE f == CHOOSE d : d = [k \in 0..len |-> E(d, k)]
<1>6. f = [k \in 0..len |-> E(f, k)]
  BY <1>5 DEF Exists
<1>7. Filled(setup) = f
  BY DEF Filled, len
<1> HIDE DEF f
<1>8. f[0] = NewDictionary(setup.limits)
      /\ \A k \in 1..len : f[k] = Configured(f[k - 1], setup.calls[k])
  BY <1>1, <1>6
<1>9. QED
  BY <1>7, <1>8 DEF Fills, len

LEMMA NewDictionaryOK ==
  ASSUME NEW limits \in ScanLimits
  PROVE  DictionaryOK(NewDictionary(limits))
<1> DEFINE set == [x \in DOMAIN limits |-> IF limits[x] = 0 THEN DefaultLimits[x] ELSE limits[x]]
           d   == NewDictionary(limits)
<1>1. set \in SetLimits
  <2> DEFINE X == {"maxAttrKeyLen", "maxAttrPayloadLen", "maxPayloadLen", "maxKeyLen"}
  <2>1. DOMAIN limits = X /\ \A x \in X : limits[x] \in Nat
    BY DEF ScanLimits
  <2>2. \A x \in X : DefaultLimits[x] \in Nat \ {0}
    BY DEF DefaultLimits
  <2>3. set \in [X -> Nat \ {0}]
    <3> HIDE DEF X
    <3>1. QED
      BY <2>1, <2>2
  <2> HIDE DEF set
  <2>4. QED
    BY <2>3 DEF SetLimits
<1>2. NoTag \in Tag
  BY DEF NoTag, Tag
<1>3. d = [tags |-> [b \in Byte |-> NoTag], action |-> [b \in Byte |-> "none"],
           attrTrigger |-> NoByte, attrStart |-> NoByte, attrEnd |-> NoByte,
           escape |-> NoByte, limits |-> set]
  BY DEF NewDictionary
<1> HIDE DEF d, set
<1> DEFINE none == [b \in Byte |-> "none"]
           bare == [b \in Byte |-> NoTag]
<1>4. none \in [Byte -> ActionName] /\ bare \in [Byte -> Tag]
  BY <1>2 DEF ActionName
<1>5. d = [tags |-> bare, action |-> none,
           attrTrigger |-> NoByte, attrStart |-> NoByte, attrEnd |-> NoByte,
           escape |-> NoByte, limits |-> set]
  BY <1>3
<1> HIDE DEF none, bare
<1>6. d \in DictionaryRecord
  BY <1>1, <1>4, <1>5 DEF DictionaryRecord
<1>7. \A b \in Byte : d.tags[b] = NoTag /\ d.action[b] = "none"
  BY <1>3
<1>8. QED
  BY <1>6, <1>7 DEF DictionaryOK, d

LEMMA ActionSet ==
  ASSUME NEW f \in DictionaryRecord, NEW b \in Byte, NEW v \in ActionName
  PROVE  /\ [f EXCEPT !.action[b] = v] \in DictionaryRecord
         /\ [f EXCEPT !.action[b] = v].tags = f.tags
         /\ \A x \in Byte : [f EXCEPT !.action[b] = v].action[x]
                               = IF x = b THEN v ELSE f.action[x]
<1> DEFINE act == [f.action EXCEPT ![b] = v]
           e   == [f EXCEPT !.action = act]
<1>1. [f EXCEPT !.action[b] = v] = e
  OBVIOUS
<1>2. f.action \in [Byte -> ActionName]
  BY DEF DictionaryRecord
<1>3. act \in [Byte -> ActionName] /\ \A x \in Byte : act[x] = IF x = b THEN v ELSE f.action[x]
  BY <1>2
<1> HIDE DEF act
<1>4. e \in DictionaryRecord /\ e.tags = f.tags /\ e.action = act
  BY <1>3 DEF DictionaryRecord
<1>5. QED
  BY <1>1, <1>3, <1>4

LEMMA AddTagOK ==
  ASSUME NEW d, DictionaryOK(d), NEW t \in Tag
  PROVE  DictionaryOK(AddTag(d, t))
<1>1. CASE AddTag(d, t) = d
  BY <1>1
<1>2. CASE AddTag(d, t) # d
  <2> DEFINE b == t.seq[1]
             e == [d EXCEPT !.tags[b] = t, !.action[b] = "tag"]
  <2>1. t.seq # <<>> /\ Consistent(t) /\ AddTag(d, t) = e
    BY <1>2 DEF AddTag
  <2>2. b \in Byte
    BY <2>1 DEF Tag
  <2>3. d \in DictionaryRecord
    BY DEF DictionaryOK
  <2>4. Registered(t, b) /\ t # NoTag
    BY <2>1 DEF Registered, NoTag
  <2> HIDE DEF b
  <2> DEFINE f == [d EXCEPT !.tags[b] = t]
  <2>5. /\ f \in DictionaryRecord /\ f.action = d.action
        /\ f.tags = [d.tags EXCEPT ![b] = t]
    BY <2>2, <2>3 DEF DictionaryRecord
  <2>6. e = [f EXCEPT !.action[b] = "tag"]
    OBVIOUS
  <2> HIDE DEF f, e
  <2>7. /\ e \in DictionaryRecord /\ e.tags = f.tags
        /\ \A x \in Byte : e.action[x] = IF x = b THEN "tag" ELSE f.action[x]
    <3>1. "tag" \in ActionName /\ f \in DictionaryRecord
      BY <2>5 DEF ActionName
    <3>2. QED
      BY ONLY <2>2, <2>6, <3>1, ActionSet
  <2>8. /\ d.tags \in [Byte -> Tag] /\ d.action \in [Byte -> ActionName]
    BY <2>3 DEF DictionaryRecord
  <2>9. \A x \in Byte : /\ e.tags[x] = IF x = b THEN t ELSE d.tags[x]
                        /\ e.action[x] = IF x = b THEN "tag" ELSE d.action[x]
    BY <2>2, <2>5, <2>7, <2>8
  <2>10. DictionaryOK(e)
    BY <2>4, <2>7, <2>9 DEF DictionaryOK
  <2>11. QED
    BY <2>1, <2>10
<1>3. QED
  BY <1>1, <1>2

LEMMA SetEscapeOK ==
  ASSUME NEW d, DictionaryOK(d), NEW b \in Byte
  PROVE  DictionaryOK(SetEscapeTrigger(d, b))
<1> DEFINE f == [d EXCEPT !.escape = b]
           e == [f EXCEPT !.action[b] = "escape"]
<1>1. SetEscapeTrigger(d, b) = d \/ SetEscapeTrigger(d, b) = e
  BY DEF SetEscapeTrigger
<1>2. d \in DictionaryRecord
  BY DEF DictionaryOK
<1>3. f \in DictionaryRecord /\ f.tags = d.tags /\ f.action = d.action
  BY <1>2 DEF DictionaryRecord
<1> HIDE DEF f
<1>4. /\ e \in DictionaryRecord /\ e.tags = f.tags
      /\ \A x \in Byte : e.action[x] = IF x = b THEN "escape" ELSE f.action[x]
  BY <1>3, ActionSet DEF ActionName
<1> HIDE DEF e
<1>5. DictionaryOK(e)
  BY <1>3, <1>4 DEF DictionaryOK
<1>6. QED
  BY <1>1, <1>5

LEMMA SetSignatureOK ==
  ASSUME NEW d, DictionaryOK(d), NEW trigger \in Byte, NEW start \in Byte, NEW end \in Byte
  PROVE  DictionaryOK(SetAttributeSignature(d, trigger, start, end))
<1> DEFINE g == [d EXCEPT !.attrTrigger = trigger]
           h == [g EXCEPT !.attrStart = start]
           f == [h EXCEPT !.attrEnd = end]
           e == [f EXCEPT !.action[trigger] = "attribute"]
<1>1. \/ SetAttributeSignature(d, trigger, start, end) = d
      \/ SetAttributeSignature(d, trigger, start, end) = e
  BY DEF SetAttributeSignature
<1>2. d \in DictionaryRecord
  BY DEF DictionaryOK
<1>3. g \in DictionaryRecord /\ g.tags = d.tags /\ g.action = d.action
  BY <1>2 DEF DictionaryRecord
<1> HIDE DEF g
<1>4. h \in DictionaryRecord /\ h.tags = d.tags /\ h.action = d.action
  BY <1>3 DEF DictionaryRecord
<1> HIDE DEF h
<1>5. f \in DictionaryRecord /\ f.tags = d.tags /\ f.action = d.action
  BY <1>4 DEF DictionaryRecord
<1> HIDE DEF f
<1>6. /\ e \in DictionaryRecord /\ e.tags = f.tags
      /\ \A x \in Byte : e.action[x] = IF x = trigger THEN "attribute" ELSE f.action[x]
  BY <1>5, ActionSet DEF ActionName
<1> HIDE DEF e
<1>7. DictionaryOK(e)
  BY <1>5, <1>6 DEF DictionaryOK
<1>8. QED
  BY <1>1, <1>7

LEMMA ConfiguredOK ==
  ASSUME NEW d, DictionaryOK(d), NEW c \in Call
  PROVE  DictionaryOK(Configured(d, c))
<1>1. CASE c \in [call : {"AddTag"}, tag : Tag]
  <2>1. Configured(d, c) = AddTag(d, c.tag) /\ c.tag \in Tag
    BY <1>1 DEF Configured
  <2>2. QED
    BY <2>1, AddTagOK
<1>2. CASE c \in [call : {"SetEscapeTrigger"}, byte : Byte]
  <2>1. Configured(d, c) = SetEscapeTrigger(d, c.byte) /\ c.byte \in Byte
    BY <1>2 DEF Configured
  <2>2. QED
    BY <2>1, SetEscapeOK
<1>3. CASE c \in [call : {"SetAttributeSignature"}, trigger : Byte, start : Byte, end : Byte]
  <2>1. /\ Configured(d, c) = SetAttributeSignature(d, c.trigger, c.start, c.end)
        /\ c.trigger \in Byte /\ c.start \in Byte /\ c.end \in Byte
    BY <1>3 DEF Configured
  <2>2. QED
    BY <2>1, SetSignatureOK
<1>4. QED
  BY <1>1, <1>2, <1>3 DEF Call

(* Whatever the calls are, refused ones among them, the dictionary is one   *)
(* in which every tag is registered on its first byte as the checks allow. *)
LEMMA DictionaryCorrect ==
  ASSUME NEW setup \in Setup
  PROVE  DictionaryOK(Dictionary(setup))
<1> DEFINE len == Len(setup.calls)
           d   == Filled(setup)
           Bad == {k \in 0..len : ~DictionaryOK(d[k])}
<1>1. len \in Nat /\ \A k \in 1..len : setup.calls[k] \in Call
  BY LenProperties, ElementOfSeq DEF Setup
<1>2. Fills(setup, len, d)
  BY FilledSteps
<1> HIDE DEF len, d
<1>3. DictionaryOK(d[0])
  BY <1>2, NewDictionaryOK DEF Fills, Setup
<1>4. ASSUME NEW k \in 1..len, DictionaryOK(d[k - 1]) PROVE DictionaryOK(d[k])
  BY <1>1, <1>2, <1>4, ConfiguredOK DEF Fills
<1>5. Bad = {}
  <2> SUFFICES ASSUME Bad # {} PROVE FALSE
    OBVIOUS
  <2>1. Bad \in SUBSET Nat
    BY <1>1
  <2>2. PICK k \in Bad : \A y \in Bad : k <= y
    <3> HIDE DEF Bad
    <3>1. QED
      BY <2>1, LeastExists
  <2>3. k \in 1..len /\ k - 1 \in 0..len
    BY <1>1, <1>3, <2>2
  <2>4. DictionaryOK(d[k - 1])
    BY <2>2, <2>3
  <2>5. QED
    BY <1>4, <2>2, <2>3, <2>4
<1>6. DictionaryOK(d[len])
  BY <1>1, <1>5
<1>7. QED
  BY <1>6 DEF Dictionary, d, len

-----------------------------------------------------------------------------
(* Searching *)

LEMMA SmallerFacts ==
  ASSUME NEW a \in Int, NEW b \in Int
  PROVE  /\ Smaller(a, b) \in Int /\ Smaller(a, b) <= a /\ Smaller(a, b) <= b
         /\ Smaller(a, b) = a \/ Smaller(a, b) = b
  BY DEF Smaller

LEMMA MatchedFacts ==
  ASSUME NEW p \in Nat, NEW to \in Nat, p < to, NEW seq \in Seq(Byte)
  PROVE  /\ MatchedAt(p, to, seq) \in 0..Len(seq) /\ p + MatchedAt(p, to, seq) <= to
         /\ seq # <<>> /\ At(p) = seq[1] => MatchedAt(p, to, seq) >= 1
<1> DEFINE len == Len(seq)
           top == Smaller(len, to - p)
           S == {k \in 0..top : \A j \in 0..k - 1 : At(p + j) = seq[j + 1]}
<1>1. len \in Nat /\ top \in Nat /\ top <= len /\ p + top <= to /\ (seq # <<>> => top >= 1)
  BY LenProperties, EmptySeq DEF Smaller
<1>2. MatchedAt(p, to, seq) = Max(S)
  BY DEF MatchedAt
<1> HIDE DEF top, len
<1>3. 0 \in S /\ S \in SUBSET 0..top
  BY <1>1
<1>4. Max(S) \in S /\ \A k \in S : Max(S) >= k
  <2> HIDE DEF S
  <2>1. QED
    BY <1>1, <1>3, MaxFacts
<1>5. seq # <<>> /\ At(p) = seq[1] => 1 \in S
  <2> SUFFICES ASSUME seq # <<>>, At(p) = seq[1] PROVE 1 \in S
    OBVIOUS
  <2>1. 1 \in 0..top
    BY <1>1
  <2>2. \A j \in 0..1 - 1 : At(p + j) = seq[j + 1]
    <3>1. \A j \in 0..1 - 1 : j = 0
      OBVIOUS
    <3>2. p + 0 = p /\ 0 + 1 = 1
      OBVIOUS
    <3>3. QED
      BY <3>1, <3>2
  <2>3. QED
    BY <2>1, <2>2
<1>6. Max(S) \in 0..top
  BY <1>4
<1> HIDE DEF S
<1>7. Max(S) \in 0..len /\ p + Max(S) <= to
  BY <1>1, <1>6
<1>8. QED
  BY <1>2, <1>4, <1>5, <1>7 DEF len

(* What the search finds lies within its range. *)
LEMMA FoundFacts ==
  ASSUME NEW from \in Nat, NEW to \in Nat, NEW seq \in Seq(Byte), seq # <<>>,
         NEW f, f = LongestCommonSubPrefix(from, to, seq)
  PROVE  /\ f.length \in 0..Len(seq) /\ f.contained \in BOOLEAN
         /\ f.contained <=> f.length = Len(seq)
         /\ f.idx = -1 \/ (f.idx \in from..to - 1 /\ f.idx + f.length <= to)
         /\ f.length > 0 => f.idx # -1
         /\ \A p \in from..to - 1 : At(p) = seq[1] => f.length > 0
<1> DEFINE len == Len(seq)
           places == {p \in from..to - 1 : At(p) = seq[1]}
           matches == {MatchedAt(p, to, seq) : p \in places}
           length == Max({0} \cup matches)
           best == {p \in places : MatchedAt(p, to, seq) = length}
<1>1. f = [contained |-> length = len, length |-> length,
           idx |-> IF places = {} THEN -1 ELSE Min(best)]
  BY DEF LongestCommonSubPrefix
<1>2. len \in Nat \ {0}
  BY LenProperties, EmptySeq
<1>3. \A p \in places : /\ p \in Nat /\ p < to /\ At(p) = seq[1]
                        /\ MatchedAt(p, to, seq) \in 0..len
                        /\ p + MatchedAt(p, to, seq) <= to /\ MatchedAt(p, to, seq) >= 1
  <2>1. \A p \in places : p \in Nat /\ p < to /\ At(p) = seq[1]
    OBVIOUS
  <2> HIDE DEF places
  <2>2. QED
    BY <2>1, MatchedFacts
<1> HIDE DEF len
<1>4. length \in {0} \cup matches /\ \A y \in matches : length >= y
  <2>1. {0} \cup matches \in SUBSET 0..len /\ {0} \cup matches # {}
    <3> HIDE DEF places
    <3>1. QED
      BY <1>2, <1>3
  <2> HIDE DEF matches
  <2>2. QED
    BY <1>2, <2>1, MaxFacts
<1>5. \A p \in places : length >= MatchedAt(p, to, seq)
  BY <1>4
<1> HIDE DEF length
<1>6. length \in 0..len
  <2> HIDE DEF places
  <2>1. QED
    BY <1>2, <1>3, <1>4
<1>7. CASE places = {}
  <2>1. length = 0 /\ f.idx = -1
    BY <1>1, <1>4, <1>7
  <2>2. \A p \in from..to - 1 : At(p) # seq[1]
    BY <1>7
  <2>3. f.length = length /\ f.contained = (length = len)
    BY <1>1
  <2> HIDE DEF places, matches
  <2>4. len = Len(seq) /\ f.contained \in BOOLEAN
    BY <2>3 DEF len
  <2>5. f.contained <=> f.length = Len(seq)
    BY <2>3, <2>4
  <2>6. f.length = 0 /\ f.length \in 0..Len(seq)
    BY <1>2, <2>1, <2>3, <2>4
  <2>7. ~(f.length > 0)
    BY <2>6
  <2>8. \A p \in from..to - 1 : At(p) = seq[1] => f.length > 0
    BY <2>2
  <2>9. QED
    BY <2>1, <2>4, <2>5, <2>6, <2>7, <2>8
<1>8. CASE places # {}
  <2>1. length >= 1
    <3> HIDE DEF places
    <3>1. QED
      BY <1>3, <1>5, <1>6, <1>8
  <2>2. best # {} /\ best \in SUBSET Nat
    <3>1. length \in matches
      BY <1>4, <2>1
    <3>2. QED
      BY <3>1
  <2>3. Min(best) \in best
    <3> HIDE DEF best
    <3>1. QED
      BY <2>2, MinFacts
  <2>4. Min(best) \in places /\ MatchedAt(Min(best), to, seq) = length
    BY <2>3
  <2>5. Min(best) \in from..to - 1
    BY <2>4
  <2>6. Min(best) + length <= to
    <3> HIDE DEF places, best
    <3>1. QED
      BY <1>3, <2>4
  <2> HIDE DEF best, places
  <2>7. f.idx = Min(best) /\ f.length = length /\ f.contained = (length = len)
    BY <1>1, <1>8
  <2>8. Min(best) # -1
    BY <2>5
  <2>9. len = Len(seq) /\ f.contained \in BOOLEAN
    BY <2>7 DEF len
  <2>10. f.contained <=> f.length = Len(seq)
    BY <2>7, <2>9
  <2>11. f.idx \in from..to - 1 /\ f.idx + f.length <= to /\ f.idx # -1 /\ f.length > 0
    BY <1>6, <2>1, <2>5, <2>6, <2>7, <2>8
  <2>12. f.length \in 0..Len(seq)
    BY <1>6, <2>7, <2>9
  <2> HIDE DEF matches
  <2>13. QED
    BY <2>9, <2>10, <2>11, <2>12
<1>9. QED
  BY <1>7, <1>8

(* A match is whole where all of seq stands before `to'. *)
StandsBefore(p, to, seq) ==
  p + Len(seq) <= to /\ \A j \in 0..Len(seq) - 1 : At(p + j) = seq[j + 1]

LEMMA MatchedWhole ==
  ASSUME NEW p \in Nat, NEW to \in Nat, p < to, NEW seq \in Seq(Byte)
  PROVE  MatchedAt(p, to, seq) = Len(seq) <=> StandsBefore(p, to, seq)
<1> DEFINE len == Len(seq)
           room == to - p
           top == Smaller(len, room)
           S == {k \in 0..top : \A j \in 0..k - 1 : At(p + j) = seq[j + 1]}
<1>1. len \in Nat /\ room \in Nat /\ (p + len <= to <=> len <= room)
  BY LenProperties
<1>2. MatchedAt(p, to, seq) = Max(S)
  BY DEF MatchedAt
<1> HIDE DEF len, room
<1>3. top \in Nat /\ top <= len /\ (top = len <=> len <= room)
  BY <1>1 DEF Smaller
<1> HIDE DEF top
<1>4. 0 \in S /\ S \in SUBSET 0..top
  BY <1>3
<1>5. Max(S) \in S /\ \A k \in S : Max(S) >= k
  <2> HIDE DEF S
  <2>1. QED
    BY <1>3, <1>4, MaxFacts
<1>6. len \in S <=> len <= room /\ \A j \in 0..len - 1 : At(p + j) = seq[j + 1]
  <2>1. len \in 0..top <=> len <= room
    BY <1>1, <1>3
  <2>2. QED
    BY <2>1
<1> HIDE DEF S
<1>7. Max(S) = len <=> len \in S
  <2>1. Max(S) \in 0..top
    BY <1>4, <1>5
  <2> DEFINE m == Max(S)
  <2> HIDE DEF m
  <2>2. m \in 0..top /\ m \in S /\ \A k \in S : m >= k
    BY <1>5, <2>1 DEF m
  <2>3. len \in S => m >= len
    BY <2>2
  <2>4. QED
    BY <1>1, <1>3, <2>2, <2>3 DEF m
<1>8. QED
  BY <1>1, <1>2, <1>6, <1>7 DEF StandsBefore, len

(* The search finds all of seq if it stands in the range, and there first. *)
WholePlaces(from, to, seq) == {p \in from..to - 1 : StandsBefore(p, to, seq)}

LEMMA FoundFirst ==
  ASSUME NEW from \in Nat, NEW to \in Nat, NEW seq \in Seq(Byte), seq # <<>>,
         NEW f, f = LongestCommonSubPrefix(from, to, seq)
  PROVE  /\ f.contained <=> WholePlaces(from, to, seq) # {}
         /\ f.contained => f.idx = Min(WholePlaces(from, to, seq))
<1> DEFINE len == Len(seq)
           places == {p \in from..to - 1 : At(p) = seq[1]}
           matches == {MatchedAt(p, to, seq) : p \in places}
           length == Max({0} \cup matches)
           best == {p \in places : MatchedAt(p, to, seq) = length}
           whole == WholePlaces(from, to, seq)
<1>1. f.contained = (length = len) /\ f.idx = IF places = {} THEN -1 ELSE Min(best)
  BY DEF LongestCommonSubPrefix
<1>2. len \in Nat \ {0}
  BY LenProperties, EmptySeq
<1>3. \A p \in places : p \in Nat /\ p < to /\ MatchedAt(p, to, seq) \in 0..len
  <2>1. \A p \in places : p \in Nat /\ p < to
    OBVIOUS
  <2> HIDE DEF places
  <2>2. QED
    BY <2>1, MatchedFacts
<1>4. /\ length \in {0} \cup matches /\ \A y \in {0} \cup matches : length >= y
      /\ length \in 0..len
  <2>1. {0} \cup matches \in SUBSET 0..len /\ {0} \cup matches # {}
    <3> HIDE DEF places, len
    <3>1. QED
      BY <1>2, <1>3
  <2> HIDE DEF matches, len
  <2>2. QED
    BY <1>2, <2>1, MaxFacts
<1>5. \A p \in places : length >= MatchedAt(p, to, seq)
  BY <1>4
<1>6. \A p \in places : MatchedAt(p, to, seq) = len <=> p \in whole
  <2> SUFFICES ASSUME NEW p \in places PROVE MatchedAt(p, to, seq) = len <=> p \in whole
    OBVIOUS
  <2>1. p \in from..to - 1 /\ p \in Nat /\ p < to
    OBVIOUS
  <2> HIDE DEF places
  <2>2. QED
    BY <2>1, MatchedWhole DEF WholePlaces
<1>7. whole \in SUBSET places
  <2> SUFFICES ASSUME NEW p \in whole PROVE p \in places
    OBVIOUS
  <2>1. p \in from..to - 1 /\ \A j \in 0..len - 1 : At(p + j) = seq[j + 1]
    BY DEF WholePlaces, StandsBefore
  <2>2. 0 \in 0..len - 1 /\ p + 0 = p /\ 0 + 1 = 1
    BY <1>2, <2>1
  <2>3. At(p + 0) = seq[0 + 1]
    BY <2>1, <2>2
  <2>4. QED
    BY <2>1, <2>2, <2>3
<1> HIDE DEF length, whole, len
<1>8. length = len => whole # {} /\ best = whole
  <2> SUFFICES ASSUME length = len PROVE whole # {} /\ best = whole
    OBVIOUS
  <2>1. length \in matches
    BY <1>2, <1>4
  <2>2. PICK p \in places : length = MatchedAt(p, to, seq)
    BY <2>1
  <2> HIDE DEF places
  <2>3. p \in whole
    BY <1>6, <2>2
  <2>4. \A x : x \in best <=> x \in whole
    BY <1>6, <1>7
  <2>5. QED
    BY <2>3, <2>4
<1>9. whole # {} => length = len
  <2> SUFFICES ASSUME NEW p \in whole PROVE length = len
    OBVIOUS
  <2> HIDE DEF places, matches
  <2>1. MatchedAt(p, to, seq) = len /\ length >= len
    BY <1>5, <1>6, <1>7
  <2>2. QED
    BY <1>2, <1>4, <2>1
<1>10. whole # {} => places # {}
  BY <1>7
<1> HIDE DEF places, best
<1>11. QED
  BY <1>1, <1>8, <1>9, <1>10 DEF whole

(* A run goes on as long as its byte does. *)
LEMMA RunFacts ==
  ASSUME n \in Nat, NEW p \in 0..n - 1
  PROVE  /\ Run(p) \in 1..n - p
         /\ \A j \in 0..Run(p) - 1 : At(p + j) = At(p)
         /\ p + Run(p) < n => At(p + Run(p)) # At(p)
<1> DEFINE top == n - p
           S == {k \in 1..top : \A j \in 0..k - 1 : At(p + j) = At(p)}
           r == Max(S)
<1>1. top \in Nat /\ 1 \in 1..top
  OBVIOUS
<1>2. Run(p) = r
  BY DEF Run
<1>3. 1 \in S
  <2>1. \A j \in 0..1 - 1 : p + j = p
    OBVIOUS
  <2>2. QED
    BY <1>1, <2>1
<1>4. S \in SUBSET 0..top
  OBVIOUS
<1>5. r \in S /\ \A k \in S : r >= k
  <2> HIDE DEF S, top
  <2>1. QED
    BY <1>1, <1>3, <1>4, MaxFacts
<1>6. r \in 1..top /\ \A j \in 0..r - 1 : At(p + j) = At(p)
  BY <1>5
<1> HIDE DEF r
<1>7. ASSUME p + r < n, At(p + r) = At(p) PROVE FALSE
  <2>1. r + 1 \in 1..top
    BY <1>6, <1>7
  <2>2. ASSUME NEW j \in 0..(r + 1) - 1 PROVE At(p + j) = At(p)
    <3>1. j = r \/ j \in 0..r - 1
      BY <1>6
    <3>2. QED
      BY <1>6, <1>7, <3>1
  <2>3. r + 1 \in S
    BY <2>1, <2>2
  <2>4. r >= r + 1
    <3> HIDE DEF S
    <3>1. QED
      BY <1>5, <2>3
  <2>5. QED
    BY <1>6, <2>4
<1>8. QED
  BY <1>2, <1>6, <1>7

LEMMA FindFacts ==
  ASSUME NEW b, NEW from \in Nat, NEW to \in Int
  PROVE  /\ Find(b, from, to) = -1 \/ Find(b, from, to) \in from..to - 1
         /\ FindUnescaped(b, from, to) = -1 \/ FindUnescaped(b, from, to) \in from..to - 1
<1>1. ASSUME NEW S \in SUBSET (from..to - 1), NEW r, r = IF S = {} THEN -1 ELSE Min(S)
      PROVE  r = -1 \/ r \in from..to - 1
  <2>1. S \in SUBSET Nat
    OBVIOUS
  <2>2. S # {} => Min(S) \in S
    BY <2>1, MinFacts
  <2>3. QED
    BY <1>1, <2>2
<1>2. Find(b, from, to) = -1 \/ Find(b, from, to) \in from..to - 1
  <2> DEFINE S == {p \in from..to - 1 : At(p) = b}
  <2>1. S \in SUBSET (from..to - 1)
    OBVIOUS
  <2>2. Find(b, from, to) = IF S = {} THEN -1 ELSE Min(S)
    BY DEF Find
  <2> HIDE DEF S
  <2>3. QED
    BY <1>1, <2>1, <2>2
<1>3. FindUnescaped(b, from, to) = -1 \/ FindUnescaped(b, from, to) \in from..to - 1
  <2> DEFINE escaped[p \in from..to] == p > from /\ At(p - 1) = dict.escape /\ ~escaped[p - 1]
             S == {p \in from..to - 1 : At(p) = b /\ b # dict.escape /\ ~escaped[p]}
  <2>1. S \in SUBSET (from..to - 1)
    OBVIOUS
  <2>2. FindUnescaped(b, from, to) = IF S = {} THEN -1 ELSE Min(S)
    BY DEF FindUnescaped
  <2> HIDE DEF S
  <2>3. QED
    BY <1>1, <2>1, <2>2
<1>4. QED
  BY <1>2, <1>3

-----------------------------------------------------------------------------
(* Bounds *)

Bounds == [valid : BOOLEAN, width : Nat, end : Nat, inner : SpanRecord,
           closed : BOOLEAN, keyLimit : BOOLEAN, payloadLimit : BOOLEAN]

(* Bounds of a tag at i: it lies in the input, and its body lies in it. *)
Within(b) ==
  /\ b \in Bounds
  /\ b.width >= 1 /\ i + b.width <= n
  /\ b.end \in i + 1..n
  /\ SpanInInput(b.inner) /\ i <= b.inner.start /\ b.inner.end <= b.end

Scanning == DictionaryOK(dict) /\ ScanOK /\ i < n

LEMMA HereFacts ==
  ASSUME Scanning
  PROVE  /\ n \in Nat /\ i \in 0..n - 1 /\ textStart \in 0..i
         /\ \A p \in 0..n - 1 : At(p) \in Byte
         /\ dict.action[At(i)] \in ActionName
         /\ Tagged \in Tag
         /\ dict.action[At(i)] = "tag" => Registered(Tagged, At(i))
         /\ \A b \in Byte : dict.tags[b] \in Tag
         /\ dict.limits \in SetLimits
<1>1. n \in Nat /\ i \in 0..n - 1 /\ textStart \in 0..i
  BY LenProperties DEF Scanning, ScanOK, n
<1>2. \A p \in 0..n - 1 : At(p) \in Byte
  <2> SUFFICES ASSUME NEW p \in 0..n - 1 PROVE At(p) \in Byte
    OBVIOUS
  <2>1. p + 1 \in 1..Len(input)
    BY <1>1 DEF n
  <2>2. QED
    BY <2>1, ElementOfSeq DEF Scanning, ScanOK, At
<1>3. At(i) \in Byte
  BY <1>1, <1>2
<1>4. /\ dict.tags \in [Byte -> Tag] /\ dict.action \in [Byte -> ActionName]
      /\ dict.limits \in SetLimits
  BY DEF Scanning, DictionaryOK, DictionaryRecord
<1>5. dict.action[At(i)] = "tag" => Registered(Tagged, At(i))
  BY <1>3 DEF Scanning, DictionaryOK, Tagged
<1>6. dict.action[At(i)] \in ActionName
  BY <1>3, <1>4
<1>7. Tagged \in Tag /\ \A b \in Byte : dict.tags[b] \in Tag
  BY <1>3, <1>4 DEF Tagged
<1>8. QED
  BY <1>1, <1>2, <1>4, <1>5, <1>6, <1>7

LEMMA PreparedFacts ==
  ASSUME Scanning
  PROVE  Within(Prepared) /\ Prepared.end = i + Prepared.width /\ ~Prepared.closed
         /\ Prepared.width = 1
<1>1. n \in Nat /\ i \in 0..n - 1
  BY HereFacts
<1>2. Span(i + 1, i + 1) \in SpanRecord
  BY <1>1 DEF Span, SpanRecord
<1>3. Prepared \in Bounds
  BY <1>1, <1>2 DEF Prepared, Bounds
<1>4. /\ Prepared.inner = Span(i + 1, i + 1) /\ Prepared.width = 1 /\ Prepared.end = i + 1
      /\ ~Prepared.closed
  BY DEF Prepared
<1>5. SpanInInput(Span(i + 1, i + 1))
  BY <1>1 DEF SpanInInput, Span
<1>6. Span(i + 1, i + 1).start = i + 1 /\ Span(i + 1, i + 1).end = i + 1
  BY DEF Span
<1>7. QED
  BY <1>1, <1>3, <1>4, <1>5, <1>6 DEF Within

(* A record of bounds with some of its fields set. *)
Reaching(b, width, end, inner) == [b EXCEPT !.width = width, !.end = end, !.inner = inner]

LEMMA ReachingFacts ==
  ASSUME NEW b \in Bounds, NEW width \in Nat, NEW end \in Nat, NEW inner \in SpanRecord
  PROVE  /\ Reaching(b, width, end, inner) \in Bounds
         /\ Reaching(b, width, end, inner).width = width
         /\ Reaching(b, width, end, inner).end = end
         /\ Reaching(b, width, end, inner).inner = inner
         /\ Reaching(b, width, end, inner).closed = b.closed
<1> DEFINE r1 == [b EXCEPT !.width = width]
           r2 == [r1 EXCEPT !.end = end]
           r3 == [r2 EXCEPT !.inner = inner]
<1>1. r1 \in Bounds /\ r1.width = width /\ r1.closed = b.closed
  BY DEF Bounds
<1>2. Reaching(b, width, end, inner) = r3
  BY DEF Reaching
<1> HIDE DEF r1
<1>3. r2 \in Bounds /\ r2.width = width /\ r2.closed = b.closed /\ r2.end = end
  BY <1>1 DEF Bounds
<1> HIDE DEF r2
<1>4. /\ r3 \in Bounds /\ r3.width = width /\ r3.closed = b.closed /\ r3.end = end
      /\ r3.inner = inner
  BY <1>3 DEF Bounds
<1> HIDE DEF r3
<1>5. QED
  BY <1>2, <1>4

(* An opening sequence is at least one byte wide and ends in the input. *)
OpenedAt(b) == Within(b) /\ b.end = i + b.width /\ ~b.closed

LEMMA OpenedFacts ==
  ASSUME Scanning, dict.action[At(i)] = "tag"
  PROVE  OpenedAt(Opened(Tagged))
<1> DEFINE t == Tagged
<1>1. n \in Nat /\ i \in 0..n - 1 /\ t \in Tag /\ Registered(t, At(i))
  BY HereFacts
<1>2. t.seq \in Seq(Byte) /\ t.seq # <<>> /\ t.seq[1] = At(i)
  BY <1>1 DEF Tag, Registered
<1>3. CASE Len(t.seq) = 1
  <2>1. Opened(t) = Prepared
    BY <1>3 DEF Opened
  <2>2. QED
    BY <2>1, PreparedFacts DEF OpenedAt
<1>4. CASE Len(t.seq) # 1
  <2> DEFINE to    == Smaller(n, i + Len(t.seq))
             found == LongestCommonSubPrefix(i, to, t.seq)
             end   == i + found.length
             r1    == [Prepared EXCEPT !.valid = found.contained]
             b     == Reaching(r1, found.length, end, Span(end, end))
  <2>1. Opened(t) = b
    BY <1>4 DEF Opened, CheckMultiCharTagSeq, Reaching
  <2>2. Len(t.seq) \in Nat /\ Len(t.seq) >= 1
    BY <1>2, LenProperties, EmptySeq
  <2>3. to \in Nat /\ to <= n /\ i < to
    BY <1>1, <2>2 DEF Smaller
  <2>4. i \in i..to - 1
    BY <1>1, <2>3
  <2>5. /\ found.length \in 0..Len(t.seq) /\ found.contained \in BOOLEAN
        /\ found.idx = -1 \/ (found.idx \in i..to - 1 /\ found.idx + found.length <= to)
        /\ found.length > 0 => found.idx # -1
        /\ \A p \in i..to - 1 : At(p) = t.seq[1] => found.length > 0
    <3>1. i \in Nat
      BY <1>1
    <3> HIDE DEF to, t, found
    <3>2. found = LongestCommonSubPrefix(i, to, t.seq)
      BY DEF found
    <3>3. QED
      BY <1>2, <2>3, <3>1, <3>2, FoundFacts
  <2> HIDE DEF found, to
  <2>6. found.length \in Nat /\ found.length > 0
    BY <1>2, <2>2, <2>4, <2>5
  <2>7. i + found.length <= n
    BY <1>1, <2>3, <2>5, <2>6
  <2>8. end \in i + 1..n
    BY <1>1, <2>6, <2>7
  <2>9. /\ Span(end, end) \in SpanRecord /\ SpanInInput(Span(end, end))
        /\ Span(end, end).start = end /\ Span(end, end).end = end
    BY <1>1, <2>8 DEF Span, SpanRecord, SpanInInput
  <2>10. Prepared \in Bounds /\ ~Prepared.closed
    BY PreparedFacts DEF Within
  <2>11. r1 \in Bounds /\ r1.closed = Prepared.closed
    BY <2>5, <2>10 DEF Bounds
  <2>12. end \in Nat /\ end > i
    BY <1>1, <2>8
  <2> HIDE DEF r1, t
  <2> HIDE DEF end
  <2>13. b \in Bounds /\ b.width = found.length /\ b.end = end /\ b.inner = Span(end, end)
         /\ b.closed = r1.closed
    BY <2>6, <2>9, <2>11, <2>12, ReachingFacts
  <2>14. i <= b.inner.start /\ b.inner.end <= b.end
    <3> HIDE DEF b
    <3>1. QED
      BY <1>1, <2>9, <2>12, <2>13
  <2> HIDE DEF b
  <2>15. Within(b)
    BY <2>6, <2>7, <2>8, <2>9, <2>13, <2>14 DEF Within
  <2>16. b.end = i + b.width
    BY <2>13 DEF end
  <2>17. QED
    BY <2>1, <2>10, <2>11, <2>13, <2>15, <2>16 DEF OpenedAt, t
<1>5. QED
  BY <1>3, <1>4

LEMMA UnclosedFacts ==
  ASSUME Scanning, NEW b, OpenedAt(b), NEW width \in Nat \ {0}, i + width <= n
  PROVE  Within(Unclosed(b, width)) /\ ~Unclosed(b, width).closed
<1> DEFINE u == Unclosed(b, width)
<1>1. n \in Nat /\ i \in 0..n - 1
  BY HereFacts
<1>2. b \in Bounds /\ ~b.closed
  BY DEF OpenedAt, Within
<1>3. /\ Span(i + width, n) \in SpanRecord /\ SpanInInput(Span(i + width, n))
      /\ Span(i + width, n).start = i + width /\ Span(i + width, n).end = n
  BY <1>1 DEF Span, SpanRecord, SpanInInput
<1>4. u \in Bounds /\ u.width = width /\ u.end = n /\ u.inner = Span(i + width, n)
      /\ u.closed = b.closed
  <2>1. u = Reaching(b, width, n, Span(i + width, n))
    BY DEF Unclosed, Reaching
  <2> HIDE DEF u
  <2>2. QED
    BY <1>1, <1>2, <1>3, <2>1, ReachingFacts
<1> HIDE DEF u
<1>5. n \in i + 1..n /\ i <= i + width
  BY <1>1
<1>6. Within(u)
  BY <1>1, <1>3, <1>4, <1>5 DEF Within
<1>7. QED
  BY <1>2, <1>4, <1>6 DEF u

(* Limits reached change nothing of where the tag lies. *)
LEMMA LimitFacts ==
  ASSUME NEW b, Within(b), ~b.closed, NEW v \in BOOLEAN
  PROVE  /\ Within([b EXCEPT !.keyLimit = v]) /\ ~[b EXCEPT !.keyLimit = v].closed
         /\ Within([b EXCEPT !.payloadLimit = v]) /\ ~[b EXCEPT !.payloadLimit = v].closed
<1>1. ASSUME NEW c, c = [b EXCEPT !.keyLimit = v] \/ c = [b EXCEPT !.payloadLimit = v]
      PROVE  Within(c) /\ ~c.closed
  <2>1. /\ c \in Bounds /\ c.width = b.width /\ c.end = b.end /\ c.inner = b.inner
        /\ c.closed = b.closed
    BY <1>1 DEF Within, Bounds
  <2>2. QED
    BY <2>1 DEF Within
<1>2. QED
  BY <1>1

(* A body that is closed lies in the input if where it ends does. *)
Ended(b, width, end, inner) ==
  [b EXCEPT !.width = width, !.closed = TRUE, !.end = end, !.inner = inner]

LEMMA EndedFacts ==
  ASSUME Scanning, NEW b, OpenedAt(b), NEW width \in Nat \ {0}, i + width <= n,
         NEW start \in Nat, NEW stop \in Nat, NEW end \in Nat,
         i <= start, start <= stop, stop <= end, i < end, end <= n
  PROVE  /\ Within(Ended(b, width, end, Span(start, stop)))
         /\ Ended(b, width, end, Span(start, stop)).closed
<1> DEFINE b1 == [b EXCEPT !.closed = TRUE]
           inner == Span(start, stop)
           r  == Ended(b, width, end, inner)
<1>1. n \in Nat /\ i \in 0..n - 1
  BY HereFacts
<1>2. b \in Bounds
  BY DEF OpenedAt, Within
<1>3. b1 \in Bounds
  BY <1>2 DEF Bounds
<1>4. b1.closed
  BY <1>2 DEF Bounds
<1>5. r = Reaching(b1, width, end, inner)
  BY <1>2 DEF Ended, Reaching, Bounds
<1>6. /\ inner \in SpanRecord /\ SpanInInput(inner)
      /\ inner.start = start /\ inner.end = stop
  BY <1>1 DEF Span, SpanRecord, SpanInInput
<1> HIDE DEF b1, inner, r
<1>7. /\ r \in Bounds /\ r.width = width /\ r.end = end /\ r.inner = inner
      /\ r.closed = b1.closed
  <2>1. width \in Nat /\ end \in Nat /\ inner \in SpanRecord
    BY <1>6
  <2>2. /\ Reaching(b1, width, end, inner) \in Bounds
        /\ Reaching(b1, width, end, inner).width = width
        /\ Reaching(b1, width, end, inner).end = end
        /\ Reaching(b1, width, end, inner).inner = inner
        /\ Reaching(b1, width, end, inner).closed = b1.closed
    BY ONLY <1>3, <2>1, ReachingFacts
  <2>3. QED
    BY ONLY <1>5, <2>2, Zenon
<1>8. end \in i + 1..n
  BY <1>1
<1>9. Within(r)
  BY <1>1, <1>6, <1>7, <1>8 DEF Within
<1>10. QED
  BY <1>7, <1>4, <1>9 DEF r, inner

LEMMA ContentBody ==
  ASSUME Scanning, NEW t \in Tag, t.close \in Byte, NEW b, OpenedAt(b)
  PROVE  Within(CheckCloseTag(t, b))
<1> DEFINE content == i + b.width
           closer  == dict.tags[t.close]
           scanEnd == ScanEnd(content)
           found   == LongestCommonSubPrefix(content, scanEnd, closer.seq)
           open    == Unclosed(b, b.width)
           limited == found.idx = -1 /\ scanEnd < n
           shut    == [b EXCEPT !.closed = TRUE, !.end = found.idx + found.length,
                                !.inner = Span(content, found.idx)]
<1>1. n \in Nat /\ i \in 0..n - 1 /\ dict.limits \in SetLimits /\ closer \in Tag
  BY HereFacts
<1>2. /\ b \in Bounds /\ b.width \in Nat \ {0} /\ i + b.width <= n /\ b.end = i + b.width
  BY DEF OpenedAt, Within, Bounds
<1>3. /\ content \in Nat /\ content <= n /\ i < content
  BY <1>1, <1>2
<1>4. Within(open) /\ ~open.closed
  BY <1>2, UnclosedFacts
<1>5. CheckCloseTag(t, b) = IF closer = NoTag THEN open
                            ELSE IF found.contained THEN shut
                            ELSE [open EXCEPT !.payloadLimit = limited]
  BY DEF CheckCloseTag
<1>6. Within([open EXCEPT !.payloadLimit = limited])
  <2>1. limited \in BOOLEAN
    OBVIOUS
  <2> HIDE DEF open, limited
  <2>2. QED
    BY <1>4, <2>1, LimitFacts
<1>7. closer # NoTag /\ found.contained => Within(shut)
  <2> SUFFICES ASSUME closer # NoTag, found.contained PROVE Within(shut)
    OBVIOUS
  <2>1. closer.seq \in Seq(Byte) /\ closer.seq # <<>>
    BY <1>1 DEF Scanning, DictionaryOK, Registered, Tag
  <2>2. Len(closer.seq) \in Nat \ {0}
    BY <2>1, LenProperties, EmptySeq
  <2>3. scanEnd \in Nat /\ scanEnd <= n
    BY <1>1, <1>3 DEF ScanEnd, Smaller, SetLimits
  <2>4. /\ found.length \in 0..Len(closer.seq)
        /\ found.contained <=> found.length = Len(closer.seq)
        /\ found.idx = -1 \/ (found.idx \in content..scanEnd - 1
                              /\ found.idx + found.length <= scanEnd)
        /\ found.length > 0 => found.idx # -1
    <3> HIDE DEF content, scanEnd, closer, found
    <3>1. found = LongestCommonSubPrefix(content, scanEnd, closer.seq)
      BY DEF found
    <3>2. QED
      BY <1>3, <2>1, <2>3, <3>1, FoundFacts
  <2> HIDE DEF found, closer, scanEnd
  <2>5. found.length \in Nat \ {0} /\ found.idx \in content..scanEnd - 1
        /\ found.idx + found.length <= scanEnd
    BY <2>2, <2>4
  <2>6. /\ found.idx \in Nat /\ content <= found.idx /\ found.length \in Nat \ {0}
        /\ found.idx + found.length <= n
    BY <1>1, <1>3, <2>3, <2>5
  <2> DEFINE end == found.idx + found.length
  <2>7. shut = Ended(b, b.width, end, Span(content, found.idx))
    BY <1>2 DEF Ended, Bounds
  <2>8. end \in Nat /\ found.idx <= end /\ i < end /\ i <= content /\ end <= n
    BY <1>1, <1>3, <2>6
  <2> HIDE DEF shut, content, end
  <2>9. QED
    BY <1>2, <1>3, <2>6, <2>7, <2>8, EndedFacts
<1> HIDE DEF open, shut, limited, found, closer
<1>8. QED
  BY <1>4, <1>5, <1>6, <1>7

LEMMA SymbolBody ==
  ASSUME Scanning, NEW b, OpenedAt(b)
  PROVE  Within(CheckTagVsContent(b))
<1> DEFINE limit   == dict.limits.maxKeyLen
           width   == Smaller(Run(i), limit)
           from    == i + width + 1
           last    == n - width + 1
           scanEnd == Smaller(from + dict.limits.maxPayloadLen, last)
           runs    == {p \in from..scanEnd - 1 : At(p) = At(i) /\ At(p - 1) # At(i)}
           closers == {p \in runs : Run(p) = width}
           resume  == Max({from} \cup {p + Run(p) + 1 : p \in runs})
           limited == scanEnd < last /\ resume < scanEnd
           shut    == [b EXCEPT !.width = width, !.closed = TRUE, !.end = Min(closers) + width,
                                !.inner = Span(i + width, Min(closers))]
<1>1. n \in Nat /\ i \in 0..n - 1 /\ dict.limits \in SetLimits
  BY HereFacts
<1>2. limit \in Nat \ {0} /\ dict.limits.maxPayloadLen \in Nat \ {0}
  BY <1>1 DEF SetLimits
<1>3. Run(i) \in 1..n - i
  BY <1>1, RunFacts
<1> HIDE DEF limit
<1>4. width \in Nat \ {0} /\ i + width <= n /\ width <= limit /\ width <= Run(i)
  BY <1>1, <1>2, <1>3 DEF Smaller
<1>5. CheckTagVsContent(b) =
        IF i + width = n THEN Unclosed(b, width)
        ELSE IF Run(i) > limit THEN [Unclosed(b, limit) EXCEPT !.keyLimit = TRUE]
        ELSE IF closers # {} THEN shut
        ELSE [Unclosed(b, width) EXCEPT !.payloadLimit = limited]
  BY DEF CheckTagVsContent, limit
<1> HIDE DEF width
<1>6. Within(Unclosed(b, width)) /\ ~Unclosed(b, width).closed
  BY <1>4, UnclosedFacts
<1>7. Run(i) > limit => Within([Unclosed(b, limit) EXCEPT !.keyLimit = TRUE])
  <2> SUFFICES ASSUME Run(i) > limit
               PROVE  Within([Unclosed(b, limit) EXCEPT !.keyLimit = TRUE])
    OBVIOUS
  <2>1. i + limit <= n
    BY <1>1, <1>2, <1>3
  <2>2. Within(Unclosed(b, limit)) /\ ~Unclosed(b, limit).closed
    BY <1>2, <2>1, UnclosedFacts
  <2>3. TRUE \in BOOLEAN
    OBVIOUS
  <2>4. QED
    BY <2>2, <2>3, LimitFacts
<1>8. Within([Unclosed(b, width) EXCEPT !.payloadLimit = limited])
  <2>1. limited \in BOOLEAN
    OBVIOUS
  <2> HIDE DEF limited
  <2>2. QED
    BY <1>6, <2>1, LimitFacts
<1>9. closers # {} => Within(shut)
  <2> SUFFICES ASSUME closers # {} PROVE Within(shut)
    OBVIOUS
  <2>1. from \in Nat /\ from > i /\ last \in Int /\ i + width < from
    BY <1>1, <1>4
  <2> DEFINE furthest == from + dict.limits.maxPayloadLen
  <2>2. furthest \in Int
    BY <1>2, <2>1
  <2>3. scanEnd \in Int /\ scanEnd <= last
    <3>1. scanEnd = Smaller(furthest, last)
      OBVIOUS
    <3> HIDE DEF scanEnd, furthest, last
    <3>2. QED
      BY <2>1, <2>2, <3>1, SmallerFacts
  <2> HIDE DEF scanEnd, from
  <2>4. closers \in SUBSET (from..scanEnd - 1)
    OBVIOUS
  <2> HIDE DEF closers
  <2>5. Min(closers) \in from..scanEnd - 1
    <3>1. closers \in SUBSET Nat
      BY <2>1, <2>3, <2>4
    <3>2. Min(closers) \in closers
      BY <3>1, MinFacts
    <3>3. QED
      BY <2>4, <3>2
  <2> DEFINE stop == Min(closers)
             end  == Min(closers) + width
  <2>6. stop \in Nat /\ stop >= from /\ end <= n /\ end \in Nat
    BY <1>1, <1>4, <2>1, <2>3, <2>5
  <2>7. i + width \in Nat /\ i <= i + width /\ i + width <= stop /\ stop <= end /\ i < end
    BY <1>1, <1>4, <2>1, <2>6
  <2>8. shut = Ended(b, width, end, Span(i + width, stop))
    BY DEF Ended
  <2> HIDE DEF shut, stop, end
  <2>9. QED
    BY <1>4, <2>6, <2>7, <2>8, EndedFacts
<1> HIDE DEF shut, limited, closers
<1>10. QED
  BY <1>5, <1>6, <1>7, <1>8, <1>9

LEMMA BodyFacts ==
  ASSUME Scanning, dict.action[At(i)] = "tag", Opens(Tagged)
  PROVE  Within(Body(Tagged))
<1>1. Tagged \in Tag /\ Registered(Tagged, At(i)) /\ At(i) \in Byte
  <2>1. n \in Nat /\ i \in 0..n - 1
    BY HereFacts
  <2>2. QED
    BY <2>1, HereFacts
<1>2. Tagged.close \in Byte
  BY <1>1 DEF Opens, IsUniversal, IsOpening, Registered, Tag
<1>3. QED
  BY <1>1, <1>2, OpenedFacts, ContentBody, SymbolBody DEF Body

(* A body that is not closed is reported, at the tag. *)
LEMMA BodyWarningsFacts ==
  ASSUME Scanning, NEW b, Within(b)
  PROVE  /\ BodyWarnings(b) \in Seq(Notice)
         /\ ~b.closed => Len(BodyWarnings(b)) > 0
<1> DEFINE w1 == IF b.keyLimit THEN <<Warning("TagKeyTooLong", i)>> ELSE <<>>
           w2 == IF b.payloadLimit THEN <<Warning("TagPayloadTooLong", i)>> ELSE <<>>
           w3 == IF b.closed \/ b.payloadLimit THEN <<>> ELSE <<Warning("UnclosedTag", i)>>
<1>1. i \in 0..n
  BY HereFacts
<1>2. \A x \in ScanIssue : Warning(x, i) \in Notice
  BY <1>1 DEF Notice, Warning
<1>3. /\ Warning("TagKeyTooLong", i) \in Notice /\ Warning("TagPayloadTooLong", i) \in Notice
      /\ Warning("UnclosedTag", i) \in Notice
  BY <1>2 DEF ScanIssue
<1>4. w1 \in Seq(Notice) /\ w2 \in Seq(Notice) /\ w3 \in Seq(Notice)
  BY <1>3
<1>5. ~b.closed => Len(w2) = 1 \/ Len(w3) = 1
  OBVIOUS
<1>6. BodyWarnings(b) = w1 \o w2 \o w3
  BY DEF BodyWarnings
<1> HIDE DEF w1, w2, w3
<1>7. /\ w1 \o w2 \o w3 \in Seq(Notice)
      /\ Len(w1 \o w2 \o w3) = Len(w1) + Len(w2) + Len(w3)
  BY <1>4, ConcatProperties
<1>8. Len(w1) \in Nat /\ Len(w2) \in Nat /\ Len(w3) \in Nat
  BY <1>4, LenProperties
<1>9. QED
  BY <1>5, <1>6, <1>7, <1>8

-----------------------------------------------------------------------------
(* Attributes *)

LEMMA NoticeSeq ==
  ASSUME NEW x \in ScanIssue, NEW p \in 0..n
  PROVE  /\ <<Warning(x, p)>> \in Seq(Notice)
         /\ Len(<<Warning(x, p)>>) = 1 /\ <<Warning(x, p)>> # <<>>
<1>1. Warning(x, p) \in Notice
  BY DEF Notice, Warning
<1>2. QED
  BY <1>1

(* What is no attribute is reported once, within the input; what is one has *)
(* its start symbol behind the trigger, and a payload of a byte or more.   *)
LEMMA AttributeFacts ==
  ASSUME Scanning
  PROVE  /\ AttributeIssue \in Seq(Notice)
         /\ AttributeIssue # <<>> => Len(AttributeIssue) = 1
         /\ AttributeIssue = <<>> =>
              /\ PayloadStartIdx \in i + 1..n - 1
              /\ PayloadEndIdx(PayloadStartIdx + 1) \in PayloadStartIdx + 2..n - 1
<1> DEFINE s == PayloadStartIdx
           e == PayloadEndIdx(s + 1)
           Reported(w) == \E x \in ScanIssue, p \in 0..n : w = <<Warning(x, p)>>
<1>1. n \in Nat /\ i \in 0..n - 1 /\ dict.limits \in SetLimits
  BY HereFacts
<1>2. dict.limits.maxAttrKeyLen \in Nat /\ dict.limits.maxAttrPayloadLen \in Nat
  BY <1>1 DEF SetLimits
<1>3. KeyEnd \in Int /\ KeyEnd <= n
  BY <1>1, <1>2 DEF KeyEnd, Smaller
<1>4. s = -1 \/ s \in i + 1..n - 1
  <2>1. i + 1 \in Nat
    BY <1>1
  <2>2. s = -1 \/ s \in i + 1..KeyEnd - 1
    BY <1>3, <2>1, FindFacts DEF PayloadStartIdx
  <2> HIDE DEF s
  <2>3. QED
    BY <1>1, <1>3, <2>2
<1>5. s # -1 => (e = -1 \/ e \in s + 1..n - 1)
  <2> SUFFICES ASSUME s # -1 PROVE e = -1 \/ e \in s + 1..n - 1
    OBVIOUS
  <2> HIDE DEF s
  <2>1. s + 1 \in Nat
    BY <1>1, <1>4
  <2>2. PayloadEnd(s + 1) \in Int /\ PayloadEnd(s + 1) <= n
    BY <1>1, <1>2, <2>1 DEF PayloadEnd, Smaller
  <2>3. e = -1 \/ e \in s + 1..PayloadEnd(s + 1) - 1
    BY <2>1, <2>2, FindFacts DEF PayloadEndIdx
  <2> HIDE DEF e
  <2>4. QED
    BY <1>1, <2>1, <2>2, <2>3
<1>6. ASSUME NEW w, Reported(w) PROVE w \in Seq(Notice) /\ Len(w) = 1 /\ w # <<>>
  BY <1>6, NoticeSeq
<1>7. /\ "UnexpectedEOL" \in ScanIssue /\ "AttrKeyTooLong" \in ScanIssue
      /\ "AttrPayloadTooLong" \in ScanIssue /\ "UnclosedAttrPayload" \in ScanIssue
      /\ "EmptyAttrPayload" \in ScanIssue
  BY DEF ScanIssue
<1>8. AttributeIssue = IF i + 1 = n THEN <<Warning("UnexpectedEOL", i)>>
        ELSE IF s = -1 THEN IF KeyEnd < n THEN <<Warning("AttrKeyTooLong", i)>>
                            ELSE <<Warning("UnexpectedEOL", n)>>
        ELSE IF s + 1 = n THEN <<Warning("UnexpectedEOL", s)>>
        ELSE IF e = -1 THEN IF PayloadEnd(s + 1) < n THEN <<Warning("AttrPayloadTooLong", i)>>
                            ELSE <<Warning("UnclosedAttrPayload", n)>>
        ELSE IF e = s + 1 THEN <<Warning("EmptyAttrPayload", s + 1)>>
        ELSE <<>>
  BY DEF AttributeIssue
<1> HIDE DEF s, e
<1>9. i \in 0..n /\ n \in 0..n /\ (s # -1 => s \in 0..n)
      /\ (s # -1 /\ e # -1 => s + 1 \in 0..n)
  BY <1>1, <1>4, <1>5
<1>10. \/ Reported(AttributeIssue)
       \/ AttributeIssue = <<>> /\ s # -1 /\ e # -1 /\ e # s + 1
  BY <1>7, <1>8, <1>9
<1>11. CASE Reported(AttributeIssue)
  BY <1>6, <1>11
<1>12. CASE AttributeIssue = <<>> /\ s # -1 /\ e # -1 /\ e # s + 1
  <2>1. s \in i + 1..n - 1 /\ e \in s + 2..n - 1
    BY <1>1, <1>4, <1>5, <1>12
  <2>2. QED
    BY <1>12, <2>1 DEF s, e
<1>13. QED
  BY <1>10, <1>11, <1>12

-----------------------------------------------------------------------------
(* Tokens *)

(* Tokens laid end to end, from the start of the input up to `end'. *)
Laid(toks, end) ==
  /\ toks \in Seq(TokenRecord)
  /\ \A k \in 1..Len(toks) :
       /\ TokenOK(toks[k])
       /\ toks[k].pos = IF k = 1 THEN 0 ELSE EndOf(toks[k - 1])
       /\ k > 1 /\ IsText(toks[k]) => ~IsText(toks[k - 1])
       /\ IsTag(toks[k]) /\ IsClosing(dict.tags[toks[k].type]) => k > 1
  /\ (IF toks = <<>> THEN 0 ELSE EndOf(Last(toks))) = end

LEMMA AppendLaid ==
  ASSUME NEW end \in Nat, NEW toks, Laid(toks, end),
         NEW tok \in TokenRecord, TokenOK(tok), tok.pos = end,
         toks # <<>> /\ IsText(tok) => ~IsText(Last(toks)),
         IsTag(tok) /\ IsClosing(dict.tags[tok.type]) => end # 0
  PROVE  Laid(Append(toks, tok), EndOf(tok))
<1> DEFINE m == Len(toks)
           a == Append(toks, tok)
<1>1. toks \in Seq(TokenRecord) /\ m \in Nat
  BY LenProperties DEF Laid
<1>2. /\ a \in Seq(TokenRecord) /\ Len(a) = m + 1 /\ a[m + 1] = tok
      /\ \A k \in 1..m : a[k] = toks[k]
  BY <1>1, AppendProperties
<1>3. m = 0 <=> toks = <<>>
  BY <1>1, EmptySeq
<1>4. m # 0 => Last(toks) = toks[m] /\ EndOf(toks[m]) = end
  BY <1>3 DEF Laid, Last
<1>5. m = 0 => end = 0
  BY <1>3 DEF Laid
<1> HIDE DEF m, a
<1>6. ASSUME NEW k \in 1..Len(a)
      PROVE  /\ TokenOK(a[k])
             /\ a[k].pos = IF k = 1 THEN 0 ELSE EndOf(a[k - 1])
             /\ k > 1 /\ IsText(a[k]) => ~IsText(a[k - 1])
             /\ IsTag(a[k]) /\ IsClosing(dict.tags[a[k].type]) => k > 1
  <2>1. CASE k \in 1..m
    <3>1. a[k] = toks[k] /\ (k > 1 => a[k - 1] = toks[k - 1])
      BY <1>1, <1>2, <2>1
    <3>2. /\ TokenOK(toks[k])
          /\ toks[k].pos = IF k = 1 THEN 0 ELSE EndOf(toks[k - 1])
          /\ k > 1 /\ IsText(toks[k]) => ~IsText(toks[k - 1])
          /\ IsTag(toks[k]) /\ IsClosing(dict.tags[toks[k].type]) => k > 1
      BY <2>1 DEF Laid, m
    <3>3. k = 1 \/ k > 1
      BY <2>1
    <3>4. QED
      BY <3>1, <3>2, <3>3
  <2>2. CASE k = m + 1
    <3>1. a[k] = tok /\ (m # 0 => a[k - 1] = Last(toks) /\ k > 1) /\ (m = 0 => k = 1)
      BY <1>1, <1>2, <1>4, <2>2
    <3>2. m # 0 => EndOf(Last(toks)) = end
      BY <1>4
    <3>3. QED
      BY <1>1, <1>3, <1>5, <3>1, <3>2
  <2>3. QED
    BY <1>1, <1>2, <2>1, <2>2
<1>7. a # <<>> /\ Last(a) = tok
  <2>1. a # <<>>
    BY <1>1, <1>2, EmptySeq
  <2>2. QED
    BY <1>2, <2>1 DEF Last
<1>8. Laid(a, EndOf(tok))
  BY <1>2, <1>6, <1>7 DEF Laid
<1>9. QED
  BY <1>8 DEF a

LEMMA InvLaid ==
  IInv => /\ Laid(tokens, Covered)
          /\ ~done /\ tokens # <<>> => ~IsText(Last(tokens))
<1> SUFFICES ASSUME IInv
             PROVE  /\ Laid(tokens, Covered)
                    /\ ~done /\ tokens # <<>> => ~IsText(Last(tokens))
  OBVIOUS
<1>1. tokens \in Seq(TokenRecord) /\ Len(tokens) \in Nat
  BY LenProperties DEF IInv, ScanOK
<1>2. ASSUME NEW k \in 1..Len(tokens)
      PROVE  /\ TokenOK(tokens[k])
             /\ tokens[k].pos = IF k = 1 THEN 0 ELSE EndOf(tokens[k - 1])
             /\ k > 1 /\ IsText(tokens[k]) => ~IsText(tokens[k - 1])
             /\ IsTag(tokens[k]) /\ IsClosing(dict.tags[tokens[k].type]) => k > 1
  <2>1. k > 1 => k \in 2..Len(tokens)
    BY <1>1
  <2>2. QED
    BY <2>1 DEF IInv, TokensOK, Tiled, TextsApart, ClosersBehind
<1>3. (IF tokens = <<>> THEN 0 ELSE EndOf(Last(tokens))) = Covered
  BY DEF IInv, Tiled
<1>4. ~done /\ tokens # <<>> => ~IsText(Last(tokens))
  BY DEF IInv, TextsApart
<1>5. QED
  BY <1>1, <1>2, <1>3, <1>4 DEF Laid

LEMMA LaidInv ==
  Laid(tokens, Covered) /\ (~done /\ tokens # <<>> => ~IsText(Last(tokens)))
    => TokensOK /\ Tiled /\ TextsApart /\ ClosersBehind
<1> SUFFICES ASSUME Laid(tokens, Covered), ~done /\ tokens # <<>> => ~IsText(Last(tokens))
             PROVE  TokensOK /\ Tiled /\ TextsApart /\ ClosersBehind
  OBVIOUS
<1>1. Len(tokens) \in Nat
  BY LenProperties DEF Laid
<1>2. TokensOK /\ ClosersBehind
  BY DEF Laid, TokensOK, ClosersBehind
<1>3. Tiled
  BY DEF Laid, Tiled
<1>4. \A k \in 2..Len(tokens) : k \in 1..Len(tokens) /\ k > 1
  BY <1>1
<1>5. TextsApart
  BY <1>4 DEF Laid, TextsApart
<1>6. QED
  BY <1>2, <1>3, <1>5

(* The text before an end, if any, is laid behind the tokens. *)
LEMMA PlainTextLaid ==
  ASSUME IInv, ~done, NEW end \in Nat, textStart <= end, end <= n
  PROVE  /\ Laid(tokens \o PlainText(end), end)
         /\ textStart = end => tokens \o PlainText(end) = tokens
         /\ Len(tokens \o PlainText(end)) \in {Len(tokens), Len(tokens) + 1}
<1>1. Laid(tokens, textStart) /\ (tokens # <<>> => ~IsText(Last(tokens)))
  BY InvLaid DEF Covered
<1>2. tokens \in Seq(TokenRecord) /\ Len(tokens) \in Nat
  BY <1>1, LenProperties DEF Laid
<1>3. textStart \in Nat /\ n \in Nat
  BY LenProperties DEF IInv, ScanOK, n
<1>4. CASE textStart < end
  <2> DEFINE tok == TextToken(textStart, end)
  <2>1. /\ tok.type = "text" /\ tok.pos = textStart /\ tok.width = end - textStart
        /\ tok.payload = Span(textStart, end) /\ tok.key = Span(0, 0)
    BY DEF TextToken, Token, NoKey
  <2>2. /\ Span(textStart, end) \in SpanRecord /\ Span(0, 0) \in SpanRecord
        /\ SpanInInput(Span(textStart, end)) /\ SpanInInput(Span(0, 0))
        /\ Span(textStart, end).start = textStart /\ Span(textStart, end).end = end
    BY <1>3, <1>4 DEF Span, SpanRecord, SpanInInput
  <2>3. tok \in TokenRecord
    BY <1>3, <1>4, <2>2 DEF TextToken, Token, NoKey, TokenRecord
  <2> HIDE DEF tok
  <2>4. EndOf(tok) = end
    BY <1>3, <2>1 DEF EndOf
  <2>5. ~IsTag(tok) /\ IsText(tok)
    BY <2>1, JobAssumption DEF IsTag, IsText
  <2>6. TokenOK(tok)
    BY <1>3, <1>4, <2>1, <2>2, <2>4, <2>5 DEF TokenOK, OpensBody
  <2>7. Laid(Append(tokens, tok), end)
    BY <1>1, <1>3, <2>1, <2>3, <2>4, <2>5, <2>6, AppendLaid
  <2>8. tokens \o PlainText(end) = Append(tokens, tok)
    <3>1. PlainText(end) = <<tok>>
      BY <1>4 DEF PlainText, tok
    <3>2. QED
      BY <1>2, <2>3, <3>1, AppendIsConcat
  <2>9. Len(Append(tokens, tok)) = Len(tokens) + 1
    BY <1>2, <2>3, AppendProperties
  <2>10. QED
    BY <1>3, <1>4, <2>7, <2>8, <2>9
<1>5. CASE textStart = end
  <2>1. PlainText(end) = <<>>
    BY <1>3, <1>5 DEF PlainText
  <2>2. tokens \o <<>> = tokens
    BY <1>2, ConcatEmptySeq
  <2>3. QED
    BY <1>1, <1>5, <2>1, <2>2
<1>6. QED
  BY <1>3, <1>4, <1>5

-----------------------------------------------------------------------------
(* Statistics *)

LEMMA WithTextFacts ==
  ASSUME NEW s \in [StatName -> Nat], NEW count \in Nat, NEW bytes \in Nat
  PROVE  /\ WithText(count, bytes, s) \in [StatName -> Nat]
         /\ WithText(count, bytes, s)["textTokens"] = s["textTokens"] + count
         /\ WithText(count, bytes, s)["textBytes"] = s["textBytes"] + bytes
         /\ \A x \in StatName \ {"textTokens", "textBytes"} : WithText(count, bytes, s)[x] = s[x]
<1>1. "textTokens" \in StatName /\ "textBytes" \in StatName
  BY DEF StatName
<1> DEFINE r1 == [s EXCEPT !["textTokens"] = @ + count]
           r2 == [r1 EXCEPT !["textBytes"] = @ + bytes]
<1>2. WithText(count, bytes, s) = r2
  BY DEF WithText
<1>3. /\ r1 \in [StatName -> Nat] /\ r1["textTokens"] = s["textTokens"] + count
      /\ \A x \in StatName \ {"textTokens"} : r1[x] = s[x]
  BY <1>1
<1> HIDE DEF r1
<1>4. /\ r2 \in [StatName -> Nat] /\ r2["textTokens"] = r1["textTokens"]
      /\ r2["textBytes"] = r1["textBytes"] + bytes
      /\ \A x \in StatName \ {"textTokens", "textBytes"} : r2[x] = r1[x]
  BY <1>1, <1>3
<1> HIDE DEF r2
<1>5. QED
  BY <1>1, <1>2, <1>3, <1>4

(* What the text before an end adds. *)
TextShare(end, x) ==
  IF textStart < end
  THEN IF x = "textTokens" THEN 1 ELSE IF x = "textBytes" THEN end - textStart ELSE 0
  ELSE 0

LEMMA PlainTextAdded ==
  ASSUME NEW s \in [StatName -> Nat], textStart \in Nat, NEW end \in Nat, textStart <= end
  PROVE  /\ WithPlainText(end, s) \in [StatName -> Nat]
         /\ \A x \in StatName : /\ TextShare(end, x) \in Nat /\ TextShare(end, x) <= end - textStart
                               /\ WithPlainText(end, s)[x] = s[x] + TextShare(end, x)
<1> DEFINE count == IF textStart < end THEN 1 ELSE 0
           bytes == end - textStart
           r == WithText(count, bytes, s)
<1>1. /\ count \in Nat /\ bytes \in Nat /\ count <= bytes
      /\ textStart < end => count = 1
      /\ ~(textStart < end) => count = 0 /\ bytes = 0
  OBVIOUS
<1>2. WithPlainText(end, s) = r
  BY DEF WithPlainText
<1>3. \A x \in StatName :
        TextShare(end, x) = IF x = "textTokens" THEN count ELSE IF x = "textBytes" THEN bytes ELSE 0
  BY <1>1 DEF TextShare
<1> HIDE DEF count
<1>4. /\ r \in [StatName -> Nat]
      /\ r["textTokens"] = s["textTokens"] + count /\ r["textBytes"] = s["textBytes"] + bytes
      /\ \A x \in StatName \ {"textTokens", "textBytes"} : r[x] = s[x]
  <2> HIDE DEF bytes, r
  <2>1. r = WithText(count, bytes, s)
    BY DEF r
  <2>2. bytes \in Nat /\ count \in Nat
    BY <1>1
  <2>3. QED
    BY ONLY s \in [StatName -> Nat], <2>1, <2>2, WithTextFacts
<1> HIDE DEF r
<1>5. ASSUME NEW x \in StatName
      PROVE  /\ TextShare(end, x) \in Nat /\ TextShare(end, x) <= bytes
             /\ r[x] = s[x] + TextShare(end, x)
  <2>1. s[x] \in Nat
    OBVIOUS
  <2> HIDE DEF bytes
  <2>2. CASE x = "textTokens"
    BY <1>1, <1>3, <1>4, <2>2
  <2>3. CASE x = "textBytes"
    BY <1>1, <1>3, <1>4, <2>3
  <2>4. CASE x \notin {"textTokens", "textBytes"}
    BY <1>1, <1>3, <1>4, <2>1, <2>4
  <2>5. QED
    BY <2>2, <2>3, <2>4
<1>6. QED
  BY <1>2, <1>4, <1>5

(* What is counted for the text before an end is no more than the text. *)
LEMMA PlainTextCounted ==
  ASSUME NEW s \in [StatName -> Nat], NEW most \in Nat, \A x \in StatName : s[x] <= most,
         textStart \in Nat, NEW end \in Nat, textStart <= end
  PROVE  /\ WithPlainText(end, s) \in [StatName -> Nat]
         /\ \A x \in StatName : WithPlainText(end, s)[x] <= most + (end - textStart)
<1>1. WithPlainText(end, s) \in [StatName -> Nat]
  BY PlainTextAdded
<1>2. ASSUME NEW x \in StatName PROVE WithPlainText(end, s)[x] <= most + (end - textStart)
  <2>1. /\ TextShare(end, x) \in Nat /\ TextShare(end, x) <= end - textStart
        /\ WithPlainText(end, s)[x] = s[x] + TextShare(end, x)
    BY PlainTextAdded
  <2>2. s[x] \in Nat /\ s[x] <= most
    OBVIOUS
  <2>3. QED
    BY <2>1, <2>2
<1>3. QED
  BY <1>1, <1>2

(* A token counted is one more of its kinds. *)
LEMMA CountedFacts ==
  ASSUME StatsBounded, ~done, NEW fields
  PROVE  /\ Counted(fields) \in [StatName -> Nat]
         /\ \A x \in StatName : Counted(fields)[x] <= stats[x] + 1
         /\ \A x \in StatName \ fields : Counted(fields)[x] = stats[x]
         /\ \A x \in StatName : stats[x] \in Nat /\ stats[x] <= textStart
<1>1. stats \in [StatName -> Nat] /\ \A x \in StatName : stats[x] <= textStart
  BY DEF StatsBounded, Covered
<1>2. \A x \in StatName : Counted(fields)[x] = IF x \in fields THEN stats[x] + 1 ELSE stats[x]
  BY <1>1 DEF Counted
<1>3. \A x \in StatName : stats[x] \in Nat
  BY <1>1
<1>4. Counted(fields) \in [StatName -> Nat]
  BY <1>1, <1>3 DEF Counted
<1>5. QED
  BY <1>1, <1>2, <1>3, <1>4

-----------------------------------------------------------------------------
(* Steps *)

(* Invariant facts while the scan goes on. *)
LEMMA InvScanning ==
  ASSUME IInv, Busy
  PROVE  /\ Scanning /\ ~done
         /\ n \in Nat /\ i \in 0..n - 1 /\ textStart \in 0..i
         /\ dict' = dict /\ input' = input /\ done' = done /\ n' = n
<1>1. Scanning /\ ~done
  BY DEF IInv, Scanning, Busy
<1>2. n \in Nat /\ i \in 0..n - 1 /\ textStart \in 0..i
  BY <1>1, HereFacts
<1>3. dict' = dict /\ input' = input /\ done' = done /\ n' = n
  BY DEF Busy, n
<1>4. QED
  BY <1>1, <1>2, <1>3

(* What stays text moves on, and what is said about it is added. *)
LEMMA SkipKeeps ==
  ASSUME IInv, Busy, NEW stride \in Nat \ {0}, i + stride <= n,
         NEW w \in Seq(Notice), Skip(stride, w)
  PROVE  IInv' /\ i' > i /\ (Len(w) > 0 => Len(raised') > Len(raised))
<1>1. /\ n \in Nat /\ i \in 0..n - 1 /\ textStart \in 0..i /\ ~done
      /\ dict' = dict /\ input' = input /\ done' = done /\ n' = n
  BY InvScanning
<1>2. /\ i' = i + stride /\ raised' = raised \o w
      /\ textStart' = textStart /\ tokens' = tokens /\ stats' = stats
  BY DEF Skip
<1>3. raised' \in Seq(Notice) /\ (Len(w) > 0 => Len(raised') > Len(raised))
  <2>1. raised \in Seq(Notice)
    BY DEF IInv, ScanOK
  <2>2. Len(raised) \in Nat /\ Len(w) \in Nat
    BY <2>1, LenProperties
  <2>3. raised' \in Seq(Notice) /\ Len(raised') = Len(raised) + Len(w)
    BY <1>2, <2>1, ConcatProperties
  <2>4. QED
    BY <2>2, <2>3
<1>4. Notice' = Notice
  BY <1>1 DEF Notice
<1>5. ScanOK'
  <2>1. i' \in 0..n /\ textStart \in 0..i'
    BY <1>1, <1>2
  <2>2. input \in Seq(Byte) /\ done \in BOOLEAN /\ tokens \in Seq(TokenRecord)
    BY DEF IInv, ScanOK
  <2>3. QED
    BY <1>1, <1>2, <1>3, <1>4, <2>1, <2>2 DEF ScanOK, TokenRecord, SpanRecord
<1>6. DictionaryOK(dict)'
  BY <1>1 DEF IInv, DictionaryOK
<1>7. Covered' = Covered
  BY <1>1, <1>2 DEF Covered
<1>8. StatsBounded'
  BY <1>2, <1>7 DEF IInv, StatsBounded
<1>9. TokensOK' /\ Tiled' /\ TextsApart' /\ ClosersBehind'
  BY <1>1, <1>2, <1>7
  DEF IInv, TokensOK, Tiled, TextsApart, ClosersBehind, TokenOK, EndOf, SpanInInput, OpensBody,
      IsTag, IsText, IsOpening, IsClosing
<1>10. IInv'
  BY <1>5, <1>6, <1>8, <1>9 DEF IInv
<1>11. QED
  BY <1>1, <1>2, <1>3, <1>10

(* A token at i that lies in the input, and is counted no more than it is   *)
(* wide, keeps the invariant.                                              *)
LEMMA EmitKeeps ==
  ASSUME IInv, Busy,
         NEW tok \in TokenRecord, TokenOK(tok), tok.pos = i, ~IsText(tok),
         IsTag(tok) /\ IsClosing(dict.tags[tok.type]) => i # 0,
         NEW counted \in [StatName -> Nat],
         \A x \in StatName : counted[x] <= textStart + tok.width,
         NEW w \in Seq(Notice), Emit(tok, counted, w)
  PROVE  IInv' /\ Len(tokens') > Len(tokens) /\ i' > i
<1> DEFINE before == tokens \o PlainText(i)
<1>1. /\ n \in Nat /\ i \in 0..n - 1 /\ textStart \in 0..i /\ ~done
      /\ dict' = dict /\ input' = input /\ done' = done /\ n' = n
  BY InvScanning
<1>2. /\ tokens' = before \o <<tok>> /\ stats' = WithPlainText(i, counted)
      /\ i' = EndOf(tok) /\ textStart' = EndOf(tok) /\ raised' = raised \o w
  BY DEF Emit, EndOf
<1>3. /\ tok.width \in Nat /\ tok.width > 0 /\ EndOf(tok) = i + tok.width /\ EndOf(tok) <= n
  BY DEF TokenOK, TokenRecord, EndOf
<1>4. Laid(before, i) /\ Len(before) >= Len(tokens) /\ Len(before) \in Nat
  <2>1. i \in Nat /\ textStart <= i /\ i <= n
    BY <1>1
  <2>2. Laid(before, i) /\ Len(before) \in {Len(tokens), Len(tokens) + 1}
    BY <1>1, <2>1, PlainTextLaid
  <2>3. Len(tokens) \in Nat
    BY LenProperties DEF IInv, ScanOK
  <2>4. QED
    BY <2>2, <2>3
<1> HIDE DEF before
<1>5. before \in Seq(TokenRecord)
  BY <1>4 DEF Laid
<1>6. tokens' = Append(before, tok) /\ Len(tokens') = Len(before) + 1
  BY <1>2, <1>5, AppendIsConcat, AppendProperties
<1>7. Laid(Append(before, tok), EndOf(tok))
  BY <1>1, <1>4, AppendLaid
<1>8. Last(Append(before, tok)) = tok
  <2>1. /\ Append(before, tok) \in Seq(TokenRecord)
        /\ Len(Append(before, tok)) = Len(before) + 1
        /\ Append(before, tok)[Len(before) + 1] = tok
    BY <1>5, AppendProperties
  <2>2. QED
    BY <2>1 DEF Last
<1>9. Laid(tokens', EndOf(tok))
  BY <1>6, <1>7
<1>10. Covered' = EndOf(tok)
  BY <1>1, <1>2 DEF Covered
<1>11. (Laid(tokens, Covered))'
  BY <1>1, <1>9, <1>10
  DEF Laid, TokenOK, EndOf, SpanInInput, OpensBody, IsTag, IsText, IsOpening, IsClosing
<1>12. (~done /\ tokens # <<>> => ~IsText(Last(tokens)))'
  BY <1>6, <1>8 DEF IsText
<1>13. (TokensOK /\ Tiled /\ TextsApart /\ ClosersBehind)'
  BY <1>11, <1>12, LaidInv, PTL
<1>14. StatsBounded'
  <2>1. EndOf(tok) = (textStart + tok.width) + (i - textStart)
    BY <1>1, <1>3
  <2>2. textStart + tok.width \in Nat /\ textStart \in Nat /\ i \in Nat /\ textStart <= i
    BY <1>1, <1>3
  <2> DEFINE most == textStart + tok.width
  <2>3. \A x \in StatName : counted[x] <= most
    OBVIOUS
  <2> HIDE DEF most
  <2>4. /\ WithPlainText(i, counted) \in [StatName -> Nat]
        /\ \A x \in StatName : WithPlainText(i, counted)[x] <= most + (i - textStart)
    BY <2>2, <2>3, PlainTextCounted DEF most
  <2>5. \A x \in StatName : WithPlainText(i, counted)[x] <= EndOf(tok)
    BY <2>1, <2>4 DEF most
  <2>6. QED
    BY <1>2, <1>10, <2>4, <2>5 DEF StatsBounded
<1>15. ScanOK'
  <2>1. raised' \in Seq(Notice)
    <3>1. raised \in Seq(Notice)
      BY DEF IInv, ScanOK
    <3>2. QED
      BY <1>2, <3>1, ConcatProperties
  <2>2. Notice' = Notice
    BY <1>1 DEF Notice
  <2>3. i' \in 0..n /\ textStart' \in 0..i'
    BY <1>1, <1>2, <1>3
  <2>4. tokens' \in Seq(TokenRecord)
    BY <1>9 DEF Laid
  <2>5. input \in Seq(Byte) /\ done \in BOOLEAN
    BY DEF IInv, ScanOK
  <2>6. QED
    BY <1>1, <2>1, <2>2, <2>3, <2>4, <2>5 DEF ScanOK, TokenRecord, SpanRecord
<1>16. DictionaryOK(dict)'
  BY <1>1 DEF IInv, DictionaryOK
<1>17. IInv'
  BY <1>13, <1>14, <1>15, <1>16 DEF IInv
<1>18. QED
  BY <1>1, <1>2, <1>3, <1>4, <1>6, <1>17

-----------------------------------------------------------------------------
(* Actions *)

(* Markup is said to have become a token, is reported, or is of the silent  *)
(* kinds.                                                                  *)
Accounted ==
  \/ Len(tokens') > Len(tokens)
  \/ Len(raised') > Len(raised)
  \/ dict.action[At(i)] = "none"
  \/ dict.action[At(i)] = "tag" /\ (InsideWord(Tagged) \/ IsUnclassified(Tagged))
  \/ dict.action[At(i)] = "escape" /\ dict.action[At(i + 1)] # "none"

Kept == IInv' /\ i' > i /\ Accounted

LEMMA ScanIssues ==
  /\ "UnexpectedSymbol" \in ScanIssue /\ "UnexpectedEOL" \in ScanIssue
  /\ "MisplacedClosingTag" \in ScanIssue /\ "RedundantEscape" \in ScanIssue
  BY DEF ScanIssue

LEMMA EmptyNotice ==
  <<>> \in Seq(Notice)
  OBVIOUS

(* What every action on a tag starts from. *)
LEMMA ValidTagFacts ==
  ASSUME IInv, ValidTag
  PROVE  /\ Busy /\ Scanning /\ dict.action[At(i)] = "tag"
         /\ Tagged \in Tag /\ Registered(Tagged, At(i)) /\ At(i) \in Byte
         /\ n \in Nat /\ i \in 0..n - 1 /\ textStart \in 0..i /\ ~done
         /\ OpenedAt(Opened(Tagged))
         /\ Opened(Tagged).width \in Nat \ {0} /\ i + Opened(Tagged).width <= n
<1>1. Busy /\ dict.action[At(i)] = "tag"
  BY DEF ValidTag, Action
<1>2. /\ Scanning /\ n \in Nat /\ i \in 0..n - 1 /\ textStart \in 0..i /\ ~done
  BY <1>1, InvScanning
<1>3. Tagged \in Tag /\ Registered(Tagged, At(i)) /\ At(i) \in Byte
  BY <1>1, <1>2, HereFacts
<1>4. OpenedAt(Opened(Tagged))
  BY <1>1, <1>2, OpenedFacts
<1>5. Opened(Tagged).width \in Nat \ {0} /\ i + Opened(Tagged).width <= n
  BY <1>4 DEF OpenedAt, Within, Bounds
<1>6. QED
  BY <1>1, <1>2, <1>3, <1>4, <1>5

LEMMA SkipTagKeeps ==
  ASSUME IInv,
         \/ SkipInvalidTriggerTag \/ SkipUnclassified
         \/ SkipOpenTagBeforeEOL \/ SkipCloseTagAfterStart \/ SkipInfraWord
  PROVE  Kept
<1> DEFINE b == Opened(Tagged)
<1>1. Busy /\ dict.action[At(i)] = "tag"
  BY DEF SkipInvalidTriggerTag, SkipUnclassified, SkipOpenTagBeforeEOL,
         SkipCloseTagAfterStart, SkipInfraWord, ValidTag, Action
<1>2. Scanning /\ n \in Nat /\ i \in 0..n - 1
  BY <1>1, InvScanning
<1>3. b.width \in Nat \ {0} /\ i + b.width <= n
  BY <1>1, <1>2, OpenedFacts DEF OpenedAt, Within, Bounds
<1>4. i + b.width \in 0..n /\ n \in 0..n /\ i \in 0..n
  BY <1>2, <1>3
<1>5. /\ 1 \in Nat \ {0} /\ i + 1 <= n
  BY <1>2
<1> HIDE DEF b
<1>6. ASSUME NEW x \in ScanIssue, NEW p \in 0..n, Skip(b.width, <<Warning(x, p)>>) PROVE Kept
  <2>1. <<Warning(x, p)>> \in Seq(Notice) /\ Len(<<Warning(x, p)>>) = 1
    BY NoticeSeq
  <2>2. IInv' /\ i' > i /\ (Len(<<Warning(x, p)>>) > 0 => Len(raised') > Len(raised))
    BY <1>1, <1>3, <1>6, <2>1, SkipKeeps
  <2>3. QED
    BY <2>1, <2>2 DEF Kept, Accounted
<1>7. ASSUME Skip(1, <<>>), InsideWord(Tagged) \/ IsUnclassified(Tagged) PROVE Kept
  <2>1. IInv' /\ i' > i
    BY <1>1, <1>5, <1>7, EmptyNotice, SkipKeeps
  <2>2. QED
    BY <1>1, <1>7, <2>1 DEF Kept, Accounted
<1>8. CASE SkipInvalidTriggerTag
  BY <1>4, <1>6, <1>8, ScanIssues DEF SkipInvalidTriggerTag, b
<1>9. CASE SkipUnclassified
  BY <1>7, <1>9 DEF SkipUnclassified
<1>10. CASE SkipOpenTagBeforeEOL
  BY <1>4, <1>6, <1>10, ScanIssues DEF SkipOpenTagBeforeEOL, b
<1>11. CASE SkipCloseTagAfterStart
  BY <1>4, <1>6, <1>11, ScanIssues DEF SkipCloseTagAfterStart, b
<1>12. CASE SkipInfraWord
  BY <1>7, <1>12 DEF SkipInfraWord
<1>13. QED
  BY <1>8, <1>9, <1>10, <1>11, <1>12

(* The token of a tag lies in the input as its bounds do. *)
LEMMA TagTokenFacts ==
  ASSUME IInv, ValidTag, NEW b, Within(b),
         IsOpening(Tagged) /\ Tagged.greed = "NonGreedy" => b.end < n
  PROVE  /\ TagToken(b) \in TokenRecord /\ TokenOK(TagToken(b))
         /\ TagToken(b).pos = i /\ TagToken(b).type = At(i)
         /\ TagToken(b).width = b.end - i /\ b.end - i \in Nat \ {0}
         /\ ~IsText(TagToken(b)) /\ dict.tags[TagToken(b).type] = Tagged
         /\ Length(b.inner) \in Nat /\ Length(b.inner) <= b.end - i
<1> DEFINE tok == TagToken(b)
<1>1. n \in Nat /\ i \in 0..n - 1 /\ At(i) \in Byte
  BY ValidTagFacts
<1>2. /\ b.end \in Nat /\ i < b.end /\ b.end <= n /\ b.inner \in SpanRecord
      /\ SpanInInput(b.inner) /\ i <= b.inner.start /\ b.inner.end <= b.end
  BY <1>1 DEF Within, Bounds
<1>3. /\ tok.type = At(i) /\ tok.pos = i /\ tok.width = b.end - i
      /\ tok.payload = b.inner /\ tok.key = NoKey
  BY DEF TagToken, Token
<1>4. b.end - i \in Nat \ {0}
  BY <1>1, <1>2
<1>5. NoKey \in SpanRecord /\ SpanInInput(NoKey)
  BY <1>1 DEF NoKey, Span, SpanRecord, SpanInInput
<1>6. tok \in TokenRecord
  BY <1>1, <1>2, <1>4, <1>5 DEF TagToken, Token, TokenRecord
<1>7. EndOf(tok) = b.end
  BY <1>1, <1>2, <1>3 DEF EndOf
<1> HIDE DEF tok
<1>8. ~IsText(tok)
  BY <1>1, <1>3, JobAssumption DEF IsText
<1>9. dict.tags[tok.type] = Tagged
  BY <1>3 DEF Tagged
<1>10. OpensBody(tok) => b.end < n
  BY <1>9 DEF OpensBody
<1>11. TokenOK(tok)
  <2>1. tok.width > 0
    BY <1>3, <1>4
  <2>2. QED
    BY <1>2, <1>3, <1>5, <1>7, <1>10, <2>1 DEF TokenOK
<1>12. Length(b.inner) \in Nat /\ Length(b.inner) <= b.end - i
  BY <1>1, <1>2 DEF Length, SpanInInput
<1>13. QED
  BY <1>3, <1>4, <1>6, <1>8, <1>9, <1>11, <1>12 DEF tok

(* One token counted is within its width. *)
LEMMA OneCounted ==
  ASSUME IInv, Busy, NEW fields, NEW width \in Nat \ {0}
  PROVE  /\ Counted(fields) \in [StatName -> Nat]
         /\ \A x \in StatName : Counted(fields)[x] <= textStart + width
<1>1. ~done /\ textStart \in Nat /\ StatsBounded
  BY InvScanning DEF IInv
<1>2. /\ Counted(fields) \in [StatName -> Nat]
      /\ \A x \in StatName : Counted(fields)[x] <= stats[x] + 1
      /\ \A x \in StatName : stats[x] \in Nat /\ stats[x] <= textStart
  BY <1>1, CountedFacts
<1>3. ASSUME NEW x \in StatName PROVE Counted(fields)[x] <= textStart + width
  <2>1. /\ Counted(fields)[x] \in Nat /\ Counted(fields)[x] <= stats[x] + 1
        /\ stats[x] \in Nat /\ stats[x] <= textStart
    BY <1>2
  <2>2. QED
    BY <1>1, <2>1
<1>4. QED
  BY <1>2, <1>3

LEMMA EmitCloseTagKeeps ==
  ASSUME IInv, EmitCloseTag
  PROVE  Kept
<1> DEFINE b == Opened(Tagged)
           tok == TagToken(b)
           counted == Counted({"tags", "close"})
<1>1. ValidTag /\ IsClosing(Tagged) /\ i # 0 /\ Emit(tok, counted, <<>>)
  BY DEF EmitCloseTag
<1>2. Busy /\ Within(b)
  BY <1>1, ValidTagFacts DEF OpenedAt
<1>3. ~IsOpening(Tagged)
  BY <1>1 DEF IsClosing, IsOpening
<1> HIDE DEF b
<1>4. /\ tok \in TokenRecord /\ TokenOK(tok) /\ tok.pos = i /\ ~IsText(tok)
      /\ tok.width \in Nat \ {0}
  BY <1>1, <1>2, <1>3, TagTokenFacts
<1> HIDE DEF tok
<1>5. counted \in [StatName -> Nat] /\ \A x \in StatName : counted[x] <= textStart + tok.width
  BY <1>2, <1>4, OneCounted
<1> HIDE DEF counted
<1>6. IInv' /\ Len(tokens') > Len(tokens) /\ i' > i
  BY <1>1, <1>2, <1>4, <1>5, EmptyNotice, EmitKeeps
<1>7. QED
  BY <1>6 DEF Kept, Accounted

LEMMA EmitNonGreedyKeeps ==
  ASSUME IInv, EmitNonGreedy
  PROVE  Kept
<1> DEFINE b == Opened(Tagged)
           tok == TagToken(b)
           counted == Counted({"tags", IF IsUniversal(Tagged) THEN "universal" ELSE "open"})
<1>1. ValidTag /\ Opens(Tagged) /\ Emit(tok, counted, <<>>)
  BY DEF EmitNonGreedy
<1>2. /\ Busy /\ Within(b) /\ b.end = i + b.width /\ Registered(Tagged, At(i)) /\ At(i) \in Byte
      /\ n \in Nat /\ i \in 0..n - 1 /\ b.width \in Nat
  BY <1>1, ValidTagFacts DEF OpenedAt
<1>3. IsOpening(Tagged) => b.end < n
  <2>1. IsOpening(Tagged) => ~IsUniversal(Tagged)
    BY <1>2, DictionaryAssumption DEF IsOpening, IsUniversal, Registered
  <2>2. IsOpening(Tagged) => ~AtEOL(b)
    BY <1>1, <2>1 DEF Opens
  <2> HIDE DEF b
  <2>3. QED
    BY <1>2, <2>2 DEF AtEOL
<1>4. ~IsClosing(Tagged) \/ i # 0
  BY <1>1, <1>2, DictionaryAssumption DEF Opens, IsClosing, IsOpening, IsUniversal, Registered
<1> HIDE DEF b
<1>5. /\ tok \in TokenRecord /\ TokenOK(tok) /\ tok.pos = i /\ ~IsText(tok)
      /\ tok.width \in Nat \ {0} /\ dict.tags[tok.type] = Tagged
  BY <1>1, <1>2, <1>3, TagTokenFacts
<1> HIDE DEF tok
<1>6. counted \in [StatName -> Nat] /\ \A x \in StatName : counted[x] <= textStart + tok.width
  BY <1>2, <1>5, OneCounted
<1> HIDE DEF counted
<1>7. IInv' /\ Len(tokens') > Len(tokens) /\ i' > i
  BY <1>1, <1>2, <1>4, <1>5, <1>6, EmptyNotice, EmitKeeps
<1>8. QED
  BY <1>7 DEF Kept, Accounted

LEMMA SkipUnclosedOpenTagKeeps ==
  ASSUME IInv, SkipUnclosedOpenTag
  PROVE  Kept
<1> DEFINE b == Body(Tagged)
           w == BodyWarnings(b)
<1>1. ValidTag /\ Opens(Tagged) /\ ~b.closed /\ Skip(b.width, w)
  BY DEF SkipUnclosedOpenTag
<1>2. Busy /\ Scanning /\ Within(b)
  BY <1>1, ValidTagFacts, BodyFacts
<1> HIDE DEF b
<1>3. w \in Seq(Notice) /\ Len(w) > 0
  BY <1>1, <1>2, BodyWarningsFacts
<1>4. b.width \in Nat \ {0} /\ i + b.width <= n
  BY <1>2 DEF Within, Bounds
<1> HIDE DEF w
<1>5. IInv' /\ i' > i /\ Len(raised') > Len(raised)
  BY <1>1, <1>2, <1>3, <1>4, SkipKeeps
<1>6. QED
  BY <1>5 DEF Kept, Accounted

LEMMA EmitGreedyKeeps ==
  ASSUME IInv, EmitGreedy
  PROVE  Kept
<1> DEFINE b == Body(Tagged)
           tok == TagToken(b)
           w == BodyWarnings(b)
           tags == Counted({"tags"})
           count == IF Length(b.inner) > 0 THEN 1 ELSE 0
           counted == WithText(count, Length(b.inner), tags)
<1>1. /\ ValidTag /\ Opens(Tagged) /\ Tagged.greed # "NonGreedy" /\ Emit(tok, counted, w)
  BY DEF EmitGreedy
<1>2. /\ Busy /\ Scanning /\ Within(b) /\ Registered(Tagged, At(i)) /\ At(i) \in Byte
      /\ n \in Nat /\ i \in 0..n - 1 /\ textStart \in 0..i /\ ~done
  BY <1>1, ValidTagFacts, BodyFacts
<1>3. ~IsClosing(Tagged) \/ i # 0
  BY <1>1, <1>2, DictionaryAssumption DEF Opens, IsClosing, IsOpening, IsUniversal, Registered
<1> HIDE DEF b
<1>4. w \in Seq(Notice)
  BY <1>2, BodyWarningsFacts
<1>5. /\ tok \in TokenRecord /\ TokenOK(tok) /\ tok.pos = i /\ ~IsText(tok)
      /\ tok.width \in Nat \ {0} /\ dict.tags[tok.type] = Tagged
      /\ Length(b.inner) \in Nat /\ Length(b.inner) <= tok.width
  BY <1>1, <1>2, TagTokenFacts
<1> HIDE DEF tok, w
<1>6. counted \in [StatName -> Nat] /\ \A x \in StatName : counted[x] <= textStart + tok.width
  <2>1. StatsBounded
    BY DEF IInv
  <2>2. /\ tags \in [StatName -> Nat]
        /\ \A x \in StatName : tags[x] <= stats[x] + 1
        /\ \A x \in StatName \ {"tags"} : tags[x] = stats[x]
        /\ \A x \in StatName : stats[x] \in Nat /\ stats[x] <= textStart
    BY <1>2, <2>1, CountedFacts
  <2>3. "textTokens" \in StatName \ {"tags"} /\ "textBytes" \in StatName \ {"tags"}
    BY DEF StatName
  <2>4. count \in Nat /\ count <= tok.width
    BY <1>5
  <2> DEFINE bytes == Length(b.inner)
  <2> HIDE DEF count, tags, bytes
  <2>5. /\ counted \in [StatName -> Nat]
        /\ counted["textTokens"] = tags["textTokens"] + count
        /\ counted["textBytes"] = tags["textBytes"] + bytes
        /\ \A x \in StatName \ {"textTokens", "textBytes"} : counted[x] = tags[x]
    <3>1. counted = WithText(count, bytes, tags)
      BY DEF bytes
    <3>2. bytes \in Nat /\ count \in Nat /\ tags \in [StatName -> Nat]
      BY <1>5, <2>2, <2>4 DEF bytes
    <3> HIDE DEF counted
    <3>3. QED
      BY ONLY <3>1, <3>2, WithTextFacts
  <2> HIDE DEF counted
  <2>6. bytes \in Nat /\ bytes <= tok.width /\ textStart \in Nat
    BY <1>2, <1>5 DEF bytes
  <2>7. ASSUME NEW x \in StatName PROVE counted[x] <= textStart + tok.width
    <3>1. /\ tags[x] \in Nat /\ tags[x] <= stats[x] + 1
          /\ stats[x] \in Nat /\ stats[x] <= textStart
      BY <2>2
    <3>2. CASE x = "textTokens"
      <4>1. counted[x] = stats[x] + count
        BY <2>2, <2>3, <2>5, <3>2
      <4>2. QED
        BY <1>5, <2>4, <2>6, <3>1, <4>1
    <3>3. CASE x = "textBytes"
      <4>1. counted[x] = stats[x] + bytes
        BY <2>2, <2>3, <2>5, <3>3
      <4>2. QED
        BY <1>5, <2>6, <3>1, <4>1
    <3>4. CASE x \notin {"textTokens", "textBytes"}
      <4>1. counted[x] = tags[x]
        BY <2>5, <3>4
      <4>2. QED
        BY <1>5, <2>6, <3>1, <4>1
    <3>5. QED
      BY <3>2, <3>3, <3>4
  <2>8. QED
    BY <2>5, <2>7
<1> HIDE DEF counted
<1>7. IInv' /\ Len(tokens') > Len(tokens) /\ i' > i
  BY <1>1, <1>2, <1>3, <1>4, <1>5, <1>6, EmitKeeps
<1>8. QED
  BY <1>7 DEF Kept, Accounted

LEMMA EscapeKeeps ==
  ASSUME IInv, EscapeAtEOL \/ Escape
  PROVE  Kept
<1>1. Busy /\ dict.action[At(i)] = "escape"
  BY DEF EscapeAtEOL, Escape, Action
<1>2. n \in Nat /\ i \in 0..n - 1
  BY <1>1, InvScanning
<1>3. i \in 0..n
  BY <1>2
<1>4. CASE EscapeAtEOL
  <2>1. <<Warning("UnexpectedEOL", i)>> \in Seq(Notice) /\ Len(<<Warning("UnexpectedEOL", i)>>) = 1
    BY <1>3, NoticeSeq, ScanIssues
  <2>2. 1 \in Nat \ {0} /\ i + 1 <= n /\ Skip(1, <<Warning("UnexpectedEOL", i)>>)
    BY <1>2, <1>4 DEF EscapeAtEOL
  <2>3. /\ IInv' /\ i' > i
        /\ Len(<<Warning("UnexpectedEOL", i)>>) > 0 => Len(raised') > Len(raised)
    BY <1>1, <2>1, <2>2, SkipKeeps
  <2>4. QED
    BY <2>1, <2>3 DEF Kept, Accounted
<1>5. CASE Escape
  <2> DEFINE none == dict.action[At(i + 1)] = "none"
             one == <<Warning("RedundantEscape", i)>>
             w == IF none THEN one ELSE <<>>
  <2>1. one \in Seq(Notice) /\ Len(one) = 1
    BY <1>3, NoticeSeq, ScanIssues
  <2>2. 2 \in Nat \ {0} /\ i + 2 <= n /\ Skip(2, w)
    BY <1>2, <1>5 DEF Escape
  <2> HIDE DEF none, one
  <2>3. w \in Seq(Notice) /\ (none => Len(w) > 0)
    BY <2>1, EmptyNotice
  <2> HIDE DEF w
  <2>4. IInv' /\ i' > i /\ (Len(w) > 0 => Len(raised') > Len(raised))
    BY <1>1, <2>2, <2>3, SkipKeeps
  <2>5. QED
    BY <1>1, <2>3, <2>4 DEF Kept, Accounted, none
<1>6. QED
  BY <1>4, <1>5

LEMMA SkipAttributeKeeps ==
  ASSUME IInv, SkipAttribute
  PROVE  Kept
<1>1. Busy /\ AttributeIssue # <<>> /\ Skip(1, AttributeIssue)
  BY DEF SkipAttribute, Action
<1>2. Scanning /\ n \in Nat /\ i \in 0..n - 1
  BY <1>1, InvScanning
<1>3. AttributeIssue \in Seq(Notice) /\ Len(AttributeIssue) = 1
  BY <1>1, <1>2, AttributeFacts
<1>4. 1 \in Nat \ {0} /\ i + 1 <= n
  BY <1>2
<1>5. IInv' /\ i' > i /\ (Len(AttributeIssue) > 0 => Len(raised') > Len(raised))
  BY <1>1, <1>3, <1>4, SkipKeeps
<1>6. QED
  BY <1>3, <1>5 DEF Kept, Accounted

(* The token of an attribute lies in the input. *)
LEMMA AttributeTokenFacts ==
  ASSUME IInv, Busy, AttributeIssue = <<>>,
         NEW type \in {"flag", "keyvalue"},
         NEW key \in {NoKey, Span(i + 1, PayloadStartIdx)},
         NEW tok,
         tok = Token(type, i, PayloadEndIdx(PayloadStartIdx + 1) + 1,
                     Span(PayloadStartIdx + 1, PayloadEndIdx(PayloadStartIdx + 1)), key)
  PROVE  /\ tok \in TokenRecord /\ TokenOK(tok) /\ tok.pos = i /\ tok.width \in Nat \ {0}
         /\ IsAttribute(tok) /\ ~IsText(tok) /\ ~IsTag(tok)
<1> DEFINE s == PayloadStartIdx
           e == PayloadEndIdx(s + 1)
           end == e + 1
<1>1. Scanning /\ n \in Nat /\ i \in 0..n - 1
  BY InvScanning
<1>2. s \in i + 1..n - 1 /\ e \in s + 2..n - 1
  BY <1>1, AttributeFacts
<1>3. tok = Token(type, i, end, Span(s + 1, e), key) /\ key \in {NoKey, Span(i + 1, s)}
  OBVIOUS
<1> HIDE DEF s, e
<1>4. /\ Span(s + 1, e) \in SpanRecord /\ SpanInInput(Span(s + 1, e))
      /\ Span(s + 1, e).start = s + 1 /\ Span(s + 1, e).end = e
      /\ Span(i + 1, s) \in SpanRecord /\ SpanInInput(Span(i + 1, s))
      /\ NoKey \in SpanRecord /\ SpanInInput(NoKey)
  BY <1>1, <1>2 DEF Span, SpanRecord, SpanInInput, NoKey
<1>5. /\ tok.type = type /\ tok.pos = i /\ tok.width = end - i
      /\ tok.payload = Span(s + 1, e) /\ tok.key = key
  <2> HIDE DEF end
  <2>1. QED
    BY <1>3 DEF Token
<1>6. end - i \in Nat \ {0} /\ end <= n /\ i <= s + 1 /\ e <= end /\ e \in Int
  BY <1>1, <1>2
<1>7. tok \in TokenRecord
  <2> HIDE DEF end
  <2>1. QED
    BY <1>1, <1>3, <1>4, <1>6 DEF Token, TokenRecord
<1>8. EndOf(tok) = end
  BY <1>1, <1>5, <1>6 DEF EndOf
<1>9. ~IsText(tok) /\ ~IsTag(tok) /\ IsAttribute(tok)
  BY <1>5, JobAssumption DEF IsText, IsTag, IsAttribute
<1>10. SpanInInput(tok.payload) /\ SpanInInput(tok.key)
  BY <1>3, <1>4, <1>5
<1>11. tok.width > 0 /\ tok.pos <= tok.payload.start /\ tok.payload.end <= EndOf(tok)
  BY <1>1, <1>2, <1>4, <1>5, <1>6, <1>8
<1>12. TokenOK(tok)
  BY <1>6, <1>8, <1>9, <1>10, <1>11 DEF TokenOK, OpensBody
<1>13. QED
  BY <1>5, <1>6, <1>7, <1>9, <1>12

LEMMA EmitAttributeKeeps ==
  ASSUME IInv, EmitAttribute
  PROVE  Kept
<1> DEFINE s == PayloadStartIdx
           e == PayloadEndIdx(s + 1)
           counted == Counted({"attributes"})
<1>1. Busy /\ AttributeIssue = <<>>
  BY DEF EmitAttribute, Action
<1>2. PICK type \in {"flag", "keyvalue"}, key \in {NoKey, Span(i + 1, s)} :
        Emit(Token(type, i, e + 1, Span(s + 1, e), key), counted, <<>>)
  BY DEF EmitAttribute
<1> DEFINE tok == Token(type, i, e + 1, Span(s + 1, e), key)
<1>3. /\ tok \in TokenRecord /\ TokenOK(tok) /\ tok.pos = i /\ tok.width \in Nat \ {0}
      /\ ~IsText(tok) /\ ~IsTag(tok)
  BY <1>1, AttributeTokenFacts
<1>4. Emit(tok, counted, <<>>)
  BY <1>2
<1> HIDE DEF tok
<1>5. counted \in [StatName -> Nat] /\ \A x \in StatName : counted[x] <= textStart + tok.width
  BY <1>1, <1>3, OneCounted
<1> HIDE DEF counted
<1>6. IInv' /\ Len(tokens') > Len(tokens) /\ i' > i
  BY <1>1, <1>3, <1>4, <1>5, EmptyNotice, EmitKeeps
<1>7. QED
  BY <1>6 DEF Kept, Accounted

LEMMA PlainByteKeeps ==
  ASSUME IInv, PlainByte
  PROVE  Kept
<1>1. Busy /\ dict.action[At(i)] = "none" /\ Skip(1, <<>>)
  BY DEF PlainByte, Action
<1>2. n \in Nat /\ i \in 0..n - 1
  BY <1>1, InvScanning
<1>3. 1 \in Nat \ {0} /\ i + 1 <= n
  BY <1>2
<1>4. IInv' /\ i' > i
  BY <1>1, <1>3, EmptyNotice, SkipKeeps
<1>5. QED
  BY <1>1, <1>4 DEF Kept, Accounted

LEMMA FinishKeeps ==
  ASSUME IInv, Finish
  PROVE  IInv'
<1> DEFINE after == tokens \o PlainText(n)
<1>1. /\ ~done /\ done' = TRUE /\ tokens' = after /\ stats' = WithPlainText(n, stats)
      /\ dict' = dict /\ input' = input /\ i' = i /\ textStart' = textStart
      /\ raised' = raised /\ n' = n /\ i >= n
  BY DEF Finish, n
<1>2. n \in Nat /\ i \in 0..n /\ textStart \in 0..i
  BY LenProperties DEF IInv, ScanOK, n
<1>3. Laid(after, n)
  <2>1. textStart <= n /\ n <= n
    BY <1>2
  <2>2. QED
    BY <1>1, <1>2, <2>1, PlainTextLaid
<1> HIDE DEF after
<1>4. Covered' = n
  BY <1>1 DEF Covered
<1>5. (Laid(tokens, Covered))'
  BY <1>1, <1>3, <1>4
  DEF Laid, TokenOK, EndOf, SpanInInput, OpensBody, IsTag, IsText, IsOpening, IsClosing
<1>6. (~done /\ tokens # <<>> => ~IsText(Last(tokens)))'
  BY <1>1
<1>7. (TokensOK /\ Tiled /\ TextsApart /\ ClosersBehind)'
  BY <1>5, <1>6, LaidInv, PTL
<1>8. StatsBounded'
  <2>1. stats \in [StatName -> Nat] /\ \A x \in StatName : stats[x] <= textStart
    BY <1>1 DEF IInv, StatsBounded, Covered
  <2>2. textStart \in Nat /\ textStart <= n
    BY <1>2
  <2>3. /\ WithPlainText(n, stats) \in [StatName -> Nat]
        /\ \A x \in StatName : WithPlainText(n, stats)[x] <= textStart + (n - textStart)
    BY <1>2, <2>1, <2>2, PlainTextCounted
  <2>4. textStart + (n - textStart) = n
    BY <1>2, <2>2
  <2>5. QED
    BY <1>1, <1>4, <2>3, <2>4 DEF StatsBounded
<1>9. ScanOK'
  <2>1. tokens' \in Seq(TokenRecord)
    BY <1>1, <1>3 DEF Laid
  <2>2. Notice' = Notice
    BY <1>1 DEF Notice
  <2>3. input \in Seq(Byte) /\ raised \in Seq(Notice)
    BY DEF IInv, ScanOK
  <2>4. QED
    BY <1>1, <1>2, <2>1, <2>2, <2>3 DEF ScanOK, TokenRecord, SpanRecord
<1>10. DictionaryOK(dict)'
  BY <1>1 DEF IInv, DictionaryOK
<1>11. QED
  BY <1>7, <1>8, <1>9, <1>10 DEF IInv

-----------------------------------------------------------------------------
(* Theorems *)

LEMMA ActionKeeps ==
  ASSUME IInv, Next
  PROVE  \/ Kept
         \/ IInv' /\ done'
<1>1. CASE PlainByte
  BY <1>1, PlainByteKeeps
<1>2. CASE \/ SkipInvalidTriggerTag \/ SkipUnclassified
           \/ SkipOpenTagBeforeEOL \/ SkipCloseTagAfterStart \/ SkipInfraWord
  BY <1>2, SkipTagKeeps
<1>3. CASE EmitCloseTag
  BY <1>3, EmitCloseTagKeeps
<1>4. CASE EmitNonGreedy
  BY <1>4, EmitNonGreedyKeeps
<1>5. CASE SkipUnclosedOpenTag
  BY <1>5, SkipUnclosedOpenTagKeeps
<1>6. CASE EmitGreedy
  BY <1>6, EmitGreedyKeeps
<1>7. CASE EscapeAtEOL \/ Escape
  BY <1>7, EscapeKeeps
<1>8. CASE SkipAttribute
  BY <1>8, SkipAttributeKeeps
<1>9. CASE EmitAttribute
  BY <1>9, EmitAttributeKeeps
<1>10. CASE Finish
  <2>1. done'
    BY <1>10 DEF Finish
  <2>2. QED
    BY <1>10, <2>1, FinishKeeps
<1>11. CASE done /\ UNCHANGED vars
  <2>1. (IInv)' /\ done'
    BY <1>11 DEF vars, IInv, DictionaryOK, Registered, ScanOK, Notice, StatsBounded, Covered, n,
       TokensOK, Tiled, TextsApart, ClosersBehind, TokenOK, EndOf, SpanInInput, OpensBody,
       IsTag, IsText, IsOpening, IsClosing
  <2>2. QED
    BY <2>1
<1>12. QED
  BY <1>1, <1>2, <1>3, <1>4, <1>5, <1>6, <1>7, <1>8, <1>9, <1>10, <1>11 DEF Next

LEMMA Initial ==
  Init => IInv
<1> SUFFICES ASSUME Init PROVE IInv
  OBVIOUS
<1>1. PICK j \in Job : dict = Dictionary(j.setup) /\ input \in j.inputs
  BY DEF Init
<1>2. DictionaryOK(dict)
  BY <1>1, JobAssumption, DictionaryCorrect
<1>3. input \in Seq(Byte) /\ n \in Nat
  BY <1>1, JobAssumption, LenProperties DEF n
<1>4. /\ i = 0 /\ textStart = 0 /\ tokens = <<>> /\ raised = <<>> /\ done = FALSE
  BY DEF Init
<1>5. ScanOK
  <2>1. done \in BOOLEAN
    BY <1>4
  <2>2. i = 0 /\ textStart = 0
    BY <1>4
  <2>3. i \in 0..n /\ textStart \in 0..i
    <3>1. n \in Nat => 0 \in 0..n /\ 0 \in 0..0
      OBVIOUS
    <3>2. QED
      BY <1>3, <2>2, <3>1
  <2>4. tokens \in Seq(TokenRecord) /\ raised \in Seq(Notice)
    BY <1>4
  <2>5. QED
    BY <1>3, <2>1, <2>4, <2>3 DEF ScanOK
<1>6. Covered = 0
  BY <1>4 DEF Covered
<1>7. StatsBounded
  <2>1. stats \in [StatName -> {0}]
    BY DEF Init, StatName
  <2>2. QED
    BY <1>6, <2>1 DEF StatsBounded
<1>8. Len(tokens) = 0
  BY <1>4
<1>9. TokensOK /\ Tiled /\ TextsApart /\ ClosersBehind
  BY <1>4, <1>6, <1>8 DEF TokensOK, Tiled, TextsApart, ClosersBehind
<1>10. QED
  BY <1>2, <1>5, <1>7, <1>9 DEF IInv

LEMMA Inductive ==
  IInv /\ [Next]_vars => IInv'
<1> SUFFICES ASSUME IInv, [Next]_vars PROVE IInv'
  OBVIOUS
<1>1. CASE Next
  BY <1>1, ActionKeeps DEF Kept
<1>2. CASE UNCHANGED vars
  BY <1>2 DEF vars, IInv, DictionaryOK, Registered, ScanOK, Notice, StatsBounded, Covered, n,
       TokensOK, Tiled, TextsApart, ClosersBehind, TokenOK, EndOf, SpanInInput, OpensBody,
       IsTag, IsText, IsOpening, IsClosing
<1>3. QED
  BY <1>1, <1>2

(* Tokenize keeps, from the first byte to the last, a dictionary of the     *)
(* registered tags, tokens that lie end to end within the input, texts     *)
(* apart, no closing tag at the start, and counts within what is read.     *)
THEOREM TokenizerInvariant == Spec => []IInv
<1>1. QED
  BY Initial, Inductive, PTL DEF Spec

LEMMA InvTypes ==
  IInv => TypeOK
<1> SUFFICES ASSUME IInv PROVE TypeOK
  OBVIOUS
<1>1. n \in Nat /\ i \in 0..n /\ textStart \in 0..i /\ done \in BOOLEAN
  BY LenProperties DEF IInv, ScanOK, n
<1>2. textStart \in 0..n
  BY <1>1
<1>3. ASSUME NEW b \in Byte, dict.tags[b] # NoTag
      PROVE  /\ dict.tags[b] \in Tag /\ dict.tags[b].seq[1] = b /\ Consistent(dict.tags[b])
  BY <1>3 DEF IInv, DictionaryOK, DictionaryRecord, Registered
<1>4. ASSUME NEW tok \in Range(tokens)
      PROVE  /\ tok.type \in Byte \cup {"text", "flag", "keyvalue"}
             /\ tok.pos \in 0..n /\ tok.width \in 0..n
             /\ SpanInInput(tok.payload) /\ SpanInInput(tok.key)
  <2>1. tokens \in Seq(TokenRecord)
    BY DEF IInv, ScanOK
  <2>2. PICK k \in 1..Len(tokens) : tok = tokens[k]
    BY <2>1, LenProperties DEF Range
  <2>3. tok \in TokenRecord /\ TokenOK(tok)
    BY <2>1, <2>2, ElementOfSeq DEF IInv, TokensOK
  <2>4. tok.pos \in Nat /\ tok.width \in Nat /\ tok.pos + tok.width <= n
    BY <2>3 DEF TokenRecord, TokenOK, EndOf
  <2>5. tok.pos \in 0..n /\ tok.width \in 0..n
    BY <1>1, <2>4
  <2>6. QED
    BY <2>3, <2>5 DEF TokenRecord, TokenOK
<1>5. ASSUME NEW x \in Range(raised) PROVE x.pos \in 0..n
  <2>1. raised \in Seq(Notice)
    BY DEF IInv, ScanOK
  <2>2. PICK k \in 1..Len(raised) : x = raised[k]
    BY <2>1, LenProperties DEF Range
  <2>3. x \in Notice
    BY <2>1, <2>2, ElementOfSeq
  <2>4. QED
    BY <2>3 DEF Notice
<1>6. ASSUME NEW x \in DOMAIN stats PROVE stats[x] \in 0..n
  <2>1. stats \in [StatName -> Nat] /\ \A y \in StatName : stats[y] <= Covered
    BY DEF IInv, StatsBounded
  <2>2. stats[x] \in Nat /\ stats[x] <= Covered
    BY <2>1
  <2>3. Covered \in Nat /\ Covered <= n
    BY <1>1 DEF Covered
  <2>4. QED
    BY <1>1, <2>2, <2>3
<1>7. QED
  BY <1>1, <1>2, <1>3, <1>4, <1>5, <1>6 DEF TypeOK

(* Every position handed out in a token or a warning is one of the input,   *)
(* and every tag that is registered is one the checks allow.               *)
THEOREM PositionsInInput == Spec => []TypeOK
<1>1. QED
  BY TokenizerInvariant, InvTypes, PTL

LEMMA InvTile ==
  IInv => TokensTile
<1> SUFFICES ASSUME IInv PROVE TokensTile
  OBVIOUS
<1>1. DOMAIN tokens = 1..Len(tokens)
  BY LenProperties DEF IInv, ScanOK
<1>2. \A k \in 1..Len(tokens) : tokens[k].width > 0
  BY DEF IInv, TokensOK, TokenOK
<1>3. textStart <= i
  BY LenProperties DEF IInv, ScanOK, n
<1>4. /\ \A k \in 1..Len(tokens) : tokens[k].pos = IF k = 1 THEN 0 ELSE EndOf(tokens[k - 1])
      /\ (IF tokens = <<>> THEN 0 ELSE EndOf(Last(tokens))) = IF done THEN n ELSE textStart
  BY DEF IInv, Tiled, Covered
<1>5. QED
  BY <1>1, <1>2, <1>3, <1>4 DEF TokensTile

(* The tokens tile the input: nothing is lost, and nothing is read twice.   *)
THEOREM InputTiled == Spec => []TokensTile
<1>1. QED
  BY TokenizerInvariant, InvTile, PTL

LEMMA InvFits ==
  IInv => FitsParser
<1> SUFFICES ASSUME IInv PROVE FitsParser
  OBVIOUS
<1>1. Len(tokens) \in Nat /\ DOMAIN tokens = 1..Len(tokens)
  BY LenProperties DEF IInv, ScanOK
<1>2. ASSUME NEW k \in 1..Len(tokens)
      PROVE  /\ IsText(tokens[k]) /\ k > 1 => ~IsText(tokens[k - 1])
             /\ tokens[k].pos <= tokens[k].payload.start
             /\ tokens[k].payload.end <= EndOf(tokens[k])
             /\ IsTag(tokens[k]) /\ IsClosing(dict.tags[tokens[k].type]) => k > 1
             /\ done /\ OpensBody(tokens[k]) => k < Len(tokens)
  <2>1. TokenOK(tokens[k])
    BY DEF IInv, TokensOK
  <2>2. k > 1 => k \in 2..Len(tokens)
    BY <1>1
  <2>3. IsText(tokens[k]) /\ k > 1 => ~IsText(tokens[k - 1])
    BY <2>2 DEF IInv, TextsApart
  <2>4. ASSUME done, OpensBody(tokens[k]) PROVE k < Len(tokens)
    <3>1. EndOf(tokens[k]) # n
      <4> DEFINE end == EndOf(tokens[k])
      <4>1. end < n
        BY <2>1, <2>4 DEF TokenOK
      <4>2. n \in Int
        BY LenProperties DEF IInv, ScanOK, n
      <4> HIDE DEF end
      <4>3. end # n
        BY <4>1, <4>2
      <4>4. QED
        BY <4>3 DEF end
    <3>2. tokens # <<>> /\ Last(tokens) = tokens[Len(tokens)]
      BY <1>1 DEF Last
    <3>3. EndOf(tokens[Len(tokens)]) = n
      BY <2>4, <3>2 DEF IInv, Tiled, Covered
    <3>4. k # Len(tokens)
      BY <3>1, <3>3
    <3>5. Len(tokens) \in Nat
      BY <1>1
    <3>6. QED
      BY <3>4, <3>5
  <2>5. IsTag(tokens[k]) /\ IsClosing(dict.tags[tokens[k].type]) => k > 1
    BY DEF IInv, ClosersBehind
  <2>6. QED
    BY <2>1, <2>3, <2>4, <2>5 DEF TokenOK
<1>3. QED
  BY <1>1, <1>2 DEF FitsParser, OpensBody

(* The tokens are what the parser relies on.                               *)
THEOREM TokensFitParser == Spec => []FitsParser
<1>1. QED
  BY TokenizerInvariant, InvFits, PTL

(* Markup left as text is reported, but for the three silent kinds.        *)
THEOREM NothingUnreported == Spec => MarkupReported
<1> DEFINE A == ~done' /\ tokens' = tokens /\ dict.action[At(i)] # "none" =>
       \/ Len(raised') > Len(raised)
       \/ dict.action[At(i)] = "tag" /\ (InsideWord(Tagged) \/ IsUnclassified(Tagged))
       \/ dict.action[At(i)] = "escape" /\ dict.action[At(i + 1)] # "none"
<1>1. IInv /\ [Next]_vars => [A]_vars
  <2> SUFFICES ASSUME IInv, Next PROVE A
    OBVIOUS
  <2>1. Kept \/ done'
    BY ActionKeeps
  <2>2. tokens' = tokens => ~(Len(tokens') > Len(tokens))
    <3>1. Len(tokens) \in Nat
      BY LenProperties DEF IInv, ScanOK
    <3>2. QED
      BY <3>1
  <2>3. QED
    BY <2>1, <2>2 DEF Kept, Accounted
<1>2. QED
  BY <1>1, TokenizerInvariant, PTL DEF Spec, MarkupReported

(* Every step but the last moves the scan on.                              *)
THEOREM ScanMovesOn == Spec => AlwaysMovesOn
<1>1. IInv /\ [Next]_vars => [i' > i \/ done']_vars
  BY ActionKeeps DEF Kept
<1>2. QED
  BY <1>1, TokenizerInvariant, PTL DEF Spec, AlwaysMovesOn

-----------------------------------------------------------------------------
(* Bodies of greedy tags *)

(* What BodyTaken says of the token of the tag at i. *)
TakenBy(b) ==
  LET t       == Tagged
      from    == b.inner.start
      opening == from - i
      closers == Closers(t, opening, from)
      closer  == IF t.rule = "TagVsContent" THEN opening ELSE Len(dict.tags[t.close].seq)
  IN /\ t.rule # "TagVsContent" => opening = Len(t.seq) /\ Stands(i, t.seq)
     /\ \/ /\ closers # {}
           /\ b.inner.end = Min(closers)
           /\ b.end = Min(closers) + closer
        \/ /\ closers = {} /\ t.greed = "Grasping"
           /\ b.inner.end = n /\ b.end = n

LEMMA TokenTaken ==
  ASSUME Scanning, NEW b, Within(b), TakenBy(b)
  PROVE  BodyTaken(TagToken(b))
<1> DEFINE tok == TagToken(b)
<1>1. n \in Nat /\ i \in 0..n - 1
  BY HereFacts
<1>2. /\ tok.type = At(i) /\ tok.pos = i /\ tok.width = b.end - i /\ tok.payload = b.inner
  BY DEF TagToken, Token
<1>3. b.end \in Nat
  BY DEF Within, Bounds
<1> HIDE DEF tok
<1>4. EndOf(tok) = b.end
  BY <1>1, <1>2, <1>3 DEF EndOf
<1>5. dict.tags[tok.type] = Tagged
  BY <1>2 DEF Tagged
<1>6. BodyTaken(tok)
  BY <1>2, <1>4, <1>5 DEF TakenBy, BodyTaken
<1>7. QED
  BY <1>6 DEF tok

(* A valid opening sequence stands at i. *)
LEMMA ValidOpening ==
  ASSUME Scanning, dict.action[At(i)] = "tag", Opened(Tagged).valid
  PROVE  /\ Opened(Tagged).width = Len(Tagged.seq) /\ Stands(i, Tagged.seq)
         /\ Tagged.seq \in Seq(Byte) /\ Len(Tagged.seq) \in Nat \ {0}
<1> DEFINE t == Tagged
           len == Len(t.seq)
<1>1. n \in Nat /\ i \in 0..n - 1 /\ t \in Tag /\ Registered(t, At(i))
  BY HereFacts
<1>2. t.seq \in Seq(Byte) /\ t.seq # <<>> /\ t.seq[1] = At(i)
  BY <1>1 DEF Tag, Registered
<1>3. len \in Nat \ {0} /\ DOMAIN t.seq = 1..len
  BY <1>2, LenProperties, EmptySeq
<1>4. CASE len = 1
  <2>1. Opened(t) = Prepared
    BY <1>4 DEF Opened
  <2>2. i + 1 <= n
    BY <1>1
  <2>3. \A j \in DOMAIN t.seq : j = 1 /\ i + j - 1 = i
    BY <1>1, <1>3, <1>4
  <2>4. Stands(i, t.seq)
    BY <1>2, <1>4, <2>2, <2>3 DEF Stands
  <2>5. QED
    BY <1>2, <1>3, <1>4, <2>1, <2>4 DEF Prepared
<1>5. CASE len # 1
  <2> DEFINE to    == Smaller(n, i + len)
             found == LongestCommonSubPrefix(i, to, t.seq)
  <2>1. Opened(t).valid = found.contained /\ Opened(t).width = found.length
    BY <1>5 DEF Opened, CheckMultiCharTagSeq, Prepared
  <2>2. to \in Nat /\ to <= n /\ to <= i + len
    BY <1>1, <1>3 DEF Smaller
  <2> HIDE DEF to
  <2>3. /\ found.contained <=> found.length = Len(t.seq)
        /\ found.contained <=> WholePlaces(i, to, t.seq) # {}
    <3>1. i \in Nat
      BY <1>1
    <3> HIDE DEF t, found
    <3>2. found = LongestCommonSubPrefix(i, to, t.seq)
      BY DEF found
    <3>3. found.contained <=> found.length = Len(t.seq)
      BY <1>2, <2>2, <3>1, <3>2, FoundFacts
    <3>4. found.contained <=> WholePlaces(i, to, t.seq) # {}
      BY <1>2, <2>2, <3>1, <3>2, FoundFirst
    <3>5. QED
      BY <3>3, <3>4
  <2> HIDE DEF found
  <2>4. PICK p \in WholePlaces(i, to, t.seq) : TRUE
    BY <2>1, <2>3
  <2>5. p \in i..to - 1 /\ StandsBefore(p, to, t.seq)
    BY <2>4 DEF WholePlaces
  <2>6. p \in Nat /\ i <= p /\ p + len <= to /\ \A j \in 0..len - 1 : At(p + j) = t.seq[j + 1]
    BY <1>1, <2>5 DEF StandsBefore
  <2>7. p = i
    BY <1>1, <1>3, <2>2, <2>6
  <2>8. i + len <= n
    BY <1>1, <1>3, <2>2, <2>6, <2>7
  <2>9. ASSUME NEW j \in 1..len PROVE At(i + j - 1) = t.seq[j]
    <3>1. j - 1 \in 0..len - 1 /\ i + (j - 1) = i + j - 1 /\ (j - 1) + 1 = j
      BY <1>1, <1>3
    <3>2. At(i + (j - 1)) = t.seq[(j - 1) + 1]
      BY <2>6, <2>7, <3>1
    <3>3. QED
      BY <3>1, <3>2
  <2>10. Stands(i, t.seq)
    BY <1>3, <2>8, <2>9 DEF Stands
  <2>11. QED
    BY <1>2, <1>3, <2>1, <2>3, <2>10
<1>6. QED
  BY <1>4, <1>5

(* Bounds of the bodies: how the fields of the code's Bounds are set. *)
LEMMA UnclosedFields ==
  ASSUME NEW b \in Bounds, NEW width
  PROVE  /\ Unclosed(b, width).end = n /\ Unclosed(b, width).inner = Span(i + width, n)
         /\ Unclosed(b, width).closed = b.closed
         /\ \A v : /\ [Unclosed(b, width) EXCEPT !.payloadLimit = v].end = n
                   /\ [Unclosed(b, width) EXCEPT !.payloadLimit = v].inner = Span(i + width, n)
                   /\ [Unclosed(b, width) EXCEPT !.payloadLimit = v].closed = b.closed
                   /\ [Unclosed(b, width) EXCEPT !.keyLimit = v].end = n
                   /\ [Unclosed(b, width) EXCEPT !.keyLimit = v].inner = Span(i + width, n)
                   /\ [Unclosed(b, width) EXCEPT !.keyLimit = v].closed = b.closed
  BY DEF Unclosed, Bounds

(* The content of a tag ends where its closing tag stands first. *)
LEMMA ContentTaken ==
  ASSUME Scanning, dict.action[At(i)] = "tag", Opened(Tagged).valid,
         Tagged.rule # "TagVsContent", Tagged.close \in Byte,
         NEW b, b = CheckCloseTag(Tagged, Opened(Tagged)),
         Tagged.greed = "Grasping" \/ b.closed
  PROVE  TakenBy(b)
<1> DEFINE t       == Tagged
           o       == Opened(t)
           content == i + o.width
           closer  == dict.tags[t.close]
           seq     == closer.seq
           scanEnd == ScanEnd(content)
           found   == LongestCommonSubPrefix(content, scanEnd, seq)
           limited == found.idx = -1 /\ scanEnd < n
           closers == Closers(t, o.width, content)
<1>1. n \in Nat /\ i \in 0..n - 1 /\ dict.limits \in SetLimits /\ closer \in Tag
  BY HereFacts
<1>2. /\ o \in Bounds /\ ~o.closed /\ o.width \in Nat /\ content <= n
      /\ o.width = Len(t.seq) /\ Stands(i, t.seq)
  BY OpenedFacts, ValidOpening DEF OpenedAt, Within, Bounds
<1>3. content \in Nat /\ content - i = o.width
  BY <1>1, <1>2
<1>4. b = IF closer = NoTag THEN Unclosed(o, o.width)
          ELSE IF found.contained
          THEN [o EXCEPT !.closed = TRUE, !.end = found.idx + found.length,
                         !.inner = Span(content, found.idx)]
          ELSE [Unclosed(o, o.width) EXCEPT !.payloadLimit = limited]
  BY DEF CheckCloseTag
<1>5. closers = {p \in content..n - 1 : /\ seq # <<>> /\ Stands(p, seq)
                                        /\ p + Len(seq) <= content + dict.limits.maxPayloadLen + 1}
  BY DEF Closers
<1>6. ASSUME b.inner.start = content, b.inner.end = n, b.end = n, ~b.closed, closers = {}
      PROVE  TakenBy(b)
  <2> HIDE DEF closers, content, o
  <2>1. Closers(t, content - i, content) = {}
    BY <1>3, <1>6 DEF closers
  <2>2. t.rule # "TagVsContent" /\ t.greed = "Grasping"
    BY <1>6
  <2>3. content - i = Len(t.seq) /\ Stands(i, t.seq)
    BY <1>2, <1>3
  <2> HIDE DEF t
  <2>4. QED
    BY <1>6, <2>1, <2>2, <2>3 DEF TakenBy, t
<1> HIDE DEF limited
<1>7. CASE closer = NoTag
  <2>1. b = Unclosed(o, o.width)
    BY <1>4, <1>7
  <2>2. b.end = n /\ b.inner = Span(content, n) /\ ~b.closed
    BY <1>2, <2>1, UnclosedFields
  <2>3. seq = <<>>
    BY <1>7 DEF NoTag
  <2>4. closers = {}
    BY <1>5, <2>3
  <2>5. b.inner.start = content /\ b.inner.end = n
    BY <2>2 DEF Span
  <2> HIDE DEF closers, content
  <2>6. QED
    BY <1>6, <2>2, <2>4, <2>5
<1>8. CASE closer # NoTag
  <2>1. seq \in Seq(Byte) /\ seq # <<>>
    BY <1>1, <1>8 DEF Scanning, DictionaryOK, Registered, Tag
  <2>2. Len(seq) \in Nat \ {0} /\ DOMAIN seq = 1..Len(seq)
    BY <2>1, LenProperties, EmptySeq
  <2> DEFINE limit == dict.limits.maxPayloadLen
             furthest == content + limit + 1
  <2>3. limit \in Nat /\ furthest \in Nat
    BY <1>1, <1>3 DEF SetLimits
  <2>4. scanEnd = Smaller(furthest, n)
    BY DEF ScanEnd
  <2> HIDE DEF limit
  <2>5. /\ scanEnd \in Nat /\ scanEnd <= n
        /\ \A x \in Nat : x <= scanEnd <=> x <= n /\ x <= furthest
    <3> HIDE DEF scanEnd, content, furthest
    <3>1. QED
      BY <1>1, <2>3, <2>4 DEF Smaller
  <2> DEFINE whole == WholePlaces(content, scanEnd, seq)
  <2>6. /\ found.contained <=> found.length = Len(seq)
        /\ found.contained <=> whole # {}
        /\ found.contained => found.idx = Min(whole)
    <3> HIDE DEF content, scanEnd, seq, found
    <3>1. found = LongestCommonSubPrefix(content, scanEnd, seq)
      BY DEF found
    <3>2. QED
      BY <1>3, <2>1, <2>5, <3>1, FoundFacts, FoundFirst
  <2>7. \A p \in Nat : StandsBefore(p, scanEnd, seq)
                         <=> Stands(p, seq) /\ p + Len(seq) <= furthest
    <3> SUFFICES ASSUME NEW p \in Nat
                 PROVE  StandsBefore(p, scanEnd, seq)
                          <=> Stands(p, seq) /\ p + Len(seq) <= furthest
      OBVIOUS
    <3>1. p + Len(seq) \in Nat
      BY <2>2
    <3>2. p + Len(seq) <= scanEnd <=> p + Len(seq) <= n /\ p + Len(seq) <= furthest
      BY <2>5, <3>1
    <3>3. (\A j \in 0..Len(seq) - 1 : At(p + j) = seq[j + 1])
            <=> (\A j \in 1..Len(seq) : At(p + j - 1) = seq[j])
      <4>1. \A j \in 0..Len(seq) - 1 : j + 1 \in 1..Len(seq) /\ p + (j + 1) - 1 = p + j
        BY <2>2
      <4>2. \A j \in 1..Len(seq) : /\ j - 1 \in 0..Len(seq) - 1 /\ p + (j - 1) = p + j - 1
                                   /\ (j - 1) + 1 = j
        BY <2>2
      <4> HIDE DEF seq
      <4>3. ASSUME \A j \in 0..Len(seq) - 1 : At(p + j) = seq[j + 1], NEW j \in 1..Len(seq)
            PROVE  At(p + j - 1) = seq[j]
        <5>1. At(p + (j - 1)) = seq[(j - 1) + 1]
          BY <4>2, <4>3
        <5>2. QED
          BY <4>2, <5>1
      <4>4. ASSUME \A j \in 1..Len(seq) : At(p + j - 1) = seq[j], NEW j \in 0..Len(seq) - 1
            PROVE  At(p + j) = seq[j + 1]
        <5>1. At(p + (j + 1) - 1) = seq[j + 1]
          BY <4>1, <4>4
        <5>2. QED
          BY <4>1, <5>1
      <4>5. QED
        BY <4>3, <4>4
    <3> HIDE DEF seq, scanEnd, furthest
    <3>4. QED
      BY <2>2, <3>2, <3>3 DEF StandsBefore, Stands
  <2>8. closers = whole
    <3>1. ASSUME NEW p PROVE p \in whole <=> p \in closers
      <4>1. p \in whole <=> p \in content..scanEnd - 1 /\ StandsBefore(p, scanEnd, seq)
        BY DEF WholePlaces
      <4>2. p \in closers <=> p \in content..n - 1 /\ Stands(p, seq) /\ p + Len(seq) <= furthest
        <5> HIDE DEF closers, content, seq
        <5>1. QED
          BY <1>5, <2>1 DEF limit
      <4>3. StandsBefore(p, scanEnd, seq) => p + Len(seq) <= scanEnd
        BY DEF StandsBefore
      <4> HIDE DEF whole, closers, content, scanEnd, seq, furthest
      <4>4. p \in content..scanEnd - 1 => p \in content..n - 1
        BY <1>1, <1>3, <2>5
      <4>5. p \in content..n - 1 /\ StandsBefore(p, scanEnd, seq) => p \in content..scanEnd - 1
        BY <1>1, <1>3, <2>2, <2>5, <4>3
      <4>6. p \in content..n - 1 => p \in Nat
        BY <1>3
      <4>7. QED
        BY <2>7, <4>1, <4>2, <4>4, <4>5, <4>6
    <3> HIDE DEF whole, closers
    <3>2. QED
      BY <3>1
  <2>9. CASE found.contained
    <3>1. b = [o EXCEPT !.closed = TRUE, !.end = found.idx + found.length,
                        !.inner = Span(content, found.idx)]
      BY <1>4, <1>8, <2>9
    <3>2. b.end = found.idx + found.length /\ b.inner = Span(content, found.idx)
      <4> HIDE DEF found, content, o
      <4>1. QED
        BY <1>2, <3>1 DEF Bounds
    <3>3. b.inner.start = content /\ b.inner.end = found.idx
      BY <3>2 DEF Span
    <3>4. closers # {} /\ found.idx = Min(closers) /\ found.length = Len(seq)
      BY <2>6, <2>8, <2>9
    <3> HIDE DEF found, content, o
    <3>5. Closers(t, content - i, content) = closers
      BY <1>3
    <3>6. content - i = Len(t.seq) /\ Stands(i, t.seq)
      BY <1>2, <1>3
    <3> HIDE DEF closers
    <3>7. QED
      BY <3>2, <3>3, <3>4, <3>5, <3>6 DEF TakenBy
  <2>10. CASE ~found.contained
    <3>1. b = [Unclosed(o, o.width) EXCEPT !.payloadLimit = limited]
      BY <1>4, <1>8, <2>10
    <3>2. b.end = n /\ b.inner = Span(content, n) /\ ~b.closed
      BY <1>2, <3>1, UnclosedFields
    <3>3. b.inner.start = content /\ b.inner.end = n
      BY <3>2 DEF Span
    <3>4. closers = {}
      BY <2>6, <2>8, <2>10
    <3> HIDE DEF closers, content
    <3>5. QED
      BY <1>6, <3>2, <3>3, <3>4
  <2>11. QED
    BY <2>9, <2>10
<1>9. QED
  BY <1>7, <1>8

(* The content between two runs of a symbol ends at the first run that is   *)
(* as long as the opening one.                                             *)
LEMMA SymbolTaken ==
  ASSUME Scanning, dict.action[At(i)] = "tag", Tagged.rule = "TagVsContent",
         NEW b, b = CheckTagVsContent(Opened(Tagged)),
         Tagged.greed = "Grasping" \/ b.closed
  PROVE  TakenBy(b)
<1> DEFINE t       == Tagged
           o       == Opened(t)
           most    == dict.limits.maxPayloadLen
           limit   == dict.limits.maxKeyLen
           width   == Smaller(Run(i), limit)
           from    == i + width + 1
           last    == n - width + 1
           scanEnd == Smaller(from + most, last)
           runs    == {p \in from..scanEnd - 1 : At(p) = At(i) /\ At(p - 1) # At(i)}
           closers == {p \in runs : Run(p) = width}
           resume  == Max({from} \cup {p + Run(p) + 1 : p \in runs})
           limited == scanEnd < last /\ resume < scanEnd
           Ends(x, start) ==
             {p \in start + 1..n - 1 : /\ At(p) = t.seq[1] /\ At(p - 1) # t.seq[1]
                                       /\ Run(p) = x /\ p - start <= most
                                       /\ At(start) # t.seq[1]}
<1>1. /\ n \in Nat /\ i \in 0..n - 1 /\ dict.limits \in SetLimits
      /\ t \in Tag /\ Registered(t, At(i))
  BY HereFacts
<1>2. limit \in Nat \ {0} /\ most \in Nat \ {0}
  BY <1>1 DEF SetLimits
<1>3. At(i) = t.seq[1]
  BY <1>1 DEF Registered
<1>4. o \in Bounds /\ ~o.closed
  BY OpenedFacts DEF OpenedAt, Within
<1>5. /\ Run(i) \in 1..n - i
      /\ \A j \in 0..Run(i) - 1 : At(i + j) = At(i)
      /\ i + Run(i) < n => At(i + Run(i)) # At(i)
  BY <1>1, RunFacts
<1> HIDE DEF limit, most
<1>6. /\ width \in Nat \ {0} /\ i + width <= n /\ width <= limit
      /\ (Run(i) <= limit => width = Run(i)) /\ (Run(i) > limit => width = limit)
  BY <1>1, <1>2, <1>5 DEF Smaller
<1>7. b = IF i + width = n THEN Unclosed(o, width)
          ELSE IF Run(i) > limit THEN [Unclosed(o, limit) EXCEPT !.keyLimit = TRUE]
          ELSE IF closers # {}
          THEN [o EXCEPT !.width = width, !.closed = TRUE, !.end = Min(closers) + width,
                         !.inner = Span(i + width, Min(closers))]
          ELSE [Unclosed(o, width) EXCEPT !.payloadLimit = limited]
  BY DEF CheckTagVsContent, limit, most
<1> HIDE DEF width, limited
<1>8. \A x, start : Closers(t, x, start) = Ends(x, start)
  BY DEF Closers, most
<1> HIDE DEF t
<1>9. ASSUME NEW x \in Nat, NEW start, start = i + x, b.inner = Span(start, n), b.end = n,
             ~b.closed, Ends(x, start) = {}
      PROVE  TakenBy(b)
  <2>1. b.inner.start = start /\ b.inner.end = n /\ start - i = x
    BY <1>1, <1>9 DEF Span
  <2>2. t.rule = "TagVsContent" /\ t.greed = "Grasping"
    BY <1>9 DEF t
  <2>3. Closers(t, start - i, start) = {}
    BY <1>8, <1>9, <2>1
  <2> HIDE DEF Ends
  <2>4. QED
    BY <1>9, <2>1, <2>2, <2>3 DEF TakenBy, t
<1>10. CASE i + width = n
  <2>1. b.inner = Span(n, n) /\ b.end = n /\ ~b.closed
    BY <1>4, <1>7, <1>10, UnclosedFields
  <2>2. Ends(width, n) = {}
    BY <1>1
  <2> HIDE DEF Ends
  <2>3. QED
    BY <1>6, <1>9, <1>10, <2>1, <2>2
<1>11. CASE i + width # n /\ Run(i) > limit
  <2>1. b = [Unclosed(o, limit) EXCEPT !.keyLimit = TRUE]
    BY <1>7, <1>11
  <2>2. b.inner = Span(i + limit, n) /\ b.end = n /\ ~b.closed
    BY <1>4, <2>1, UnclosedFields
  <2>3. limit \in 0..Run(i) - 1
    BY <1>1, <1>2, <1>5, <1>11
  <2>4. At(i + limit) = t.seq[1]
    BY <1>3, <1>5, <2>3
  <2>5. Ends(limit, i + limit) = {}
    BY <2>4
  <2> HIDE DEF Ends
  <2>6. QED
    BY <1>2, <1>9, <2>2, <2>5
<1>12. CASE i + width # n /\ ~(Run(i) > limit)
  <2>1. width = Run(i) /\ i + width < n
    BY <1>1, <1>2, <1>5, <1>6, <1>12
  <2>2. At(i + width) # t.seq[1]
    BY <1>3, <1>5, <2>1
  <2>3. /\ scanEnd \in Int
        /\ \A x \in Int : x <= scanEnd - 1 <=> x <= from + most - 1 /\ x <= n - width
    <3>1. from \in Int /\ last \in Int /\ last - 1 = n - width
      BY <1>1, <1>6
    <3> HIDE DEF from, last
    <3>2. QED
      BY <1>1, <1>2, <1>6, <3>1 DEF Smaller
  <2> HIDE DEF scanEnd
  <2>4. closers = Ends(width, i + width)
    <3>1. ASSUME NEW p \in Nat
          PROVE  p \in closers <=> p \in Ends(width, i + width)
      <4>1. p \in closers <=> /\ p \in from..scanEnd - 1
                              /\ At(p) = t.seq[1] /\ At(p - 1) # t.seq[1] /\ Run(p) = width
        BY <1>3
      <4>2. p \in Ends(width, i + width)
              <=> /\ p \in (i + width) + 1..n - 1 /\ p - (i + width) <= most
                  /\ At(p) = t.seq[1] /\ At(p - 1) # t.seq[1] /\ Run(p) = width
        BY <2>2
      <4>3. p \in 0..n - 1 => Run(p) \in 1..n - p
        BY <1>1, RunFacts
      <4> HIDE DEF closers, Ends
      <4>4. ASSUME Run(p) = width, p \in 0..n - 1
            PROVE  p \in from..scanEnd - 1
                     <=> p \in (i + width) + 1..n - 1 /\ p - (i + width) <= most
        <5>1. p <= n - width
          BY <1>1, <1>6, <4>3, <4>4
        <5>2. p <= scanEnd - 1 <=> p <= from + most - 1
          BY <2>3, <5>1
        <5>3. QED
          BY <1>1, <1>2, <1>6, <2>3, <4>4, <5>2
      <4>5. p \in from..scanEnd - 1 => p \in 0..n - 1
        BY <1>1, <1>6, <2>3
      <4>6. QED
        BY <1>1, <1>6, <4>1, <4>2, <4>4, <4>5
    <3>2. closers \in SUBSET Nat
      BY <1>1, <1>6, <2>3
    <3>3. Ends(width, i + width) \in SUBSET Nat
      BY <1>1, <1>6
    <3> HIDE DEF closers, Ends
    <3>4. QED
      BY <3>1, <3>2, <3>3
  <2>5. CASE closers # {}
    <3>1. b = [o EXCEPT !.width = width, !.closed = TRUE, !.end = Min(closers) + width,
                        !.inner = Span(i + width, Min(closers))]
      BY <1>7, <1>12, <2>5
    <3> HIDE DEF closers, o
    <3>2. b.end = Min(closers) + width /\ b.inner = Span(i + width, Min(closers))
      BY <1>4, <3>1 DEF Bounds
    <3>3. b.inner.start = i + width /\ b.inner.end = Min(closers)
      BY <3>2 DEF Span
    <3>4. b.inner.start - i = width
      BY <1>1, <1>6, <3>3
    <3> HIDE DEF Ends
    <3>5. Closers(t, width, i + width) = closers
      BY <1>8, <2>4
    <3>6. Closers(t, b.inner.start - i, b.inner.start) = closers
      BY <3>3, <3>4, <3>5
    <3>7. b.end = Min(closers) + (b.inner.start - i)
      BY <3>2, <3>4
    <3>8. QED
      BY <2>5, <3>3, <3>6, <3>7 DEF TakenBy, t
  <2>6. CASE closers = {}
    <3>1. b = [Unclosed(o, width) EXCEPT !.payloadLimit = limited]
      BY <1>7, <1>12, <2>6
    <3>2. b.inner = Span(i + width, n) /\ b.end = n /\ ~b.closed
      BY <1>4, <3>1, UnclosedFields
    <3>3. Ends(width, i + width) = {}
      BY <2>4, <2>6
    <3> HIDE DEF Ends
    <3>4. QED
      BY <1>6, <1>9, <3>2, <3>3
  <2>7. QED
    BY <2>5, <2>6
<1>13. QED
  BY <1>10, <1>11, <1>12

LEMMA BodyTakenHere ==
  ASSUME IInv, ValidTag, Opens(Tagged), Tagged.greed = "Grasping" \/ Body(Tagged).closed
  PROVE  BodyTaken(TagToken(Body(Tagged)))
<1> DEFINE b == Body(Tagged)
<1>1. /\ Scanning /\ dict.action[At(i)] = "tag" /\ Opened(Tagged).valid
      /\ Tagged \in Tag /\ Registered(Tagged, At(i)) /\ At(i) \in Byte
  BY ValidTagFacts DEF ValidTag
<1>2. Tagged.close \in Byte
  BY <1>1 DEF Opens, IsUniversal, IsOpening, Registered, Tag
<1>3. TakenBy(b)
  <2>1. CASE Tagged.rule = "TagVsContent"
    BY <1>1, <2>1, SymbolTaken DEF Body
  <2>2. CASE Tagged.rule # "TagVsContent"
    BY <1>1, <1>2, <2>2, ContentTaken DEF Body
  <2>3. QED
    BY <2>1, <2>2
<1>4. Within(b)
  BY <1>1, BodyFacts
<1>5. QED
  BY <1>1, <1>3, <1>4, TokenTaken

-----------------------------------------------------------------------------
(* Escapes *)

(* A byte is escaped by an escape symbol that is not. *)
LEMMA EscapedStep ==
  ASSUME NEW from \in Nat, NEW p \in Nat, from <= p
  PROVE  IsEscaped(p, from)
           <=> p > from /\ At(p - 1) = dict.escape /\ ~IsEscaped(p - 1, from)
<1> DEFINE E(x) == {q \in from..x - 1 : \A r \in q..x - 1 : At(r) = dict.escape}
<1>1. \A x : IsEscaped(x, from) <=> Cardinality(E(x)) % 2 = 1
  BY DEF IsEscaped, EscapesBefore
<1>2. E(p) = {} => ~IsEscaped(p, from)
  <2>1. Cardinality({}) = 0 /\ 0 % 2 = 0
    BY FS_EmptySet
  <2> HIDE DEF E
  <2>2. QED
    BY <1>1, <2>1
<1>3. CASE p = from
  <2>1. E(p) = {}
    BY <1>3
  <2>2. QED
    BY <1>2, <1>3, <2>1
<1>4. CASE p > from /\ At(p - 1) # dict.escape
  <2>1. \A q \in from..p - 1 : p - 1 \in q..p - 1
    BY <1>4
  <2>2. E(p) = {}
    BY <1>4, <2>1
  <2>3. QED
    BY <1>2, <1>4, <2>2
<1>5. CASE p > from /\ At(p - 1) = dict.escape
  <2> DEFINE before == E(p - 1)
  <2>1. \A q \in from..p - 1 :
          q = p - 1 \/ (q \in from..p - 2 /\ \A r \in q..p - 1 : r = p - 1 \/ r \in q..p - 2)
    BY <1>5
  <2>2. \A q \in from..p - 2 : q \in from..p - 1 /\ \A r \in q..p - 2 : r \in q..p - 1
    BY <1>5
  <2>3. p - 1 \in from..p - 1 /\ (\A r \in p - 1..p - 1 : r = p - 1) /\ p - 1 - 1 = p - 2
    BY <1>5
  <2>4. E(p) = before \cup {p - 1}
    BY <1>5, <2>1, <2>2, <2>3
  <2>5. p - 1 \notin before
    BY <1>5
  <2>6. IsFiniteSet(before)
    <3>1. IsFiniteSet(from..p - 2)
      BY <1>5, FS_Interval
    <3>2. before \in SUBSET (from..p - 2)
      BY <2>3
    <3> HIDE DEF before
    <3>3. QED
      BY <3>1, <3>2, FS_Subset
  <2> HIDE DEF E
  <2>7. Cardinality(E(p)) = Cardinality(before) + 1
    <3> HIDE DEF before
    <3>1. QED
      BY <2>4, <2>5, <2>6, FS_AddElement
  <2>8. Cardinality(before) \in Nat
    BY <2>6, FS_CardinalityType
  <2> DEFINE c == Cardinality(before)
  <2> HIDE DEF c
  <2>9. (c + 1) % 2 = 1 <=> ~(c % 2 = 1)
    BY <2>8 DEF c
  <2>10. QED
    BY <1>1, <1>5, <2>7, <2>9 DEF c
<1>6. QED
  BY <1>3, <1>4, <1>5

(* The least of what qualifies, where something does. *)
LEMMA LeastOf ==
  ASSUME NEW from \in Nat, NEW to \in Int, NEW S, S \in SUBSET (from..to - 1),
         NEW r, r = IF S = {} THEN -1 ELSE Min(S), r # -1
  PROVE  /\ r \in from..to - 1 /\ r \in S
         /\ \A p \in from..r - 1 : p \notin S
<1>1. S # {} /\ r = Min(S) /\ S \in SUBSET Nat
  OBVIOUS
<1>2. r \in S /\ \A y \in S : r <= y
  BY <1>1, MinFacts
<1>3. QED
  BY <1>1, <1>2

LEMMA FoundHere ==
  ASSUME NEW b, NEW from \in Nat, NEW to \in Int, NEW r, r = Find(b, from, to), r # -1
  PROVE  /\ r \in from..to - 1 /\ At(r) = b
         /\ \A p \in from..r - 1 : At(p) # b
<1> DEFINE S == {p \in from..to - 1 : At(p) = b}
<1>1. r = IF S = {} THEN -1 ELSE Min(S)
  BY DEF Find
<1>2. S \in SUBSET (from..to - 1)
  OBVIOUS
<1>3. r \in from..to - 1 /\ r \in S /\ \A p \in from..r - 1 : p \notin S
  <2> HIDE DEF S
  <2>1. QED
    BY <1>1, <1>2, LeastOf
<1>4. \A p \in from..r - 1 : p \in from..to - 1
  BY <1>3
<1>5. QED
  BY <1>3, <1>4

(* What the loop of findPayloadEndWithEscape knows of a byte is whether an  *)
(* odd number of escape symbols ends before it.                            *)
LEMMA FoundUnescaped ==
  ASSUME NEW b, NEW from \in Nat, NEW to \in Int, NEW r, r = FindUnescaped(b, from, to), r # -1
  PROVE  /\ r \in from..to - 1 /\ At(r) = b /\ b # dict.escape /\ ~IsEscaped(r, from)
         /\ \A p \in from..r - 1 : At(p) = b => IsEscaped(p, from)
<1> DEFINE Escapes(f, p) == p > from /\ At(p - 1) = dict.escape /\ ~f[p - 1]
           IsLoop(f) == f = [p \in from..to |-> Escapes(f, p)]
           loop == CHOOSE f : IsLoop(f)
           known == [p \in from..to |-> IsEscaped(p, from)]
           S == {p \in from..to - 1 : At(p) = b /\ b # dict.escape /\ ~loop[p]}
<1>1. r = IF S = {} THEN -1 ELSE Min(S)
  BY DEF FindUnescaped
<1>2. IsLoop(known)
  <2>1. ASSUME NEW p \in from..to PROVE IsEscaped(p, from) <=> Escapes(known, p)
    <3>1. p \in Nat /\ from <= p
      OBVIOUS
    <3>2. IsEscaped(p, from) <=> p > from /\ At(p - 1) = dict.escape /\ ~IsEscaped(p - 1, from)
      BY <3>1, EscapedStep
    <3>3. p > from => p - 1 \in from..to
      BY <3>1
    <3>4. p > from => known[p - 1] = IsEscaped(p - 1, from)
      BY <3>3, Zenon
    <3>5. QED
      BY <3>2, <3>4
  <2>2. known = [p \in from..to |-> Escapes(known, p)]
    <3> DEFINE other == [p \in from..to |-> Escapes(known, p)]
    <3> SUFFICES ASSUME NEW p \in from..to PROVE known[p] = other[p]
      OBVIOUS
    <3> DEFINE x == IsEscaped(p, from)
               y == Escapes(known, p)
    <3>1. known[p] = x /\ other[p] = y
      BY Zenon
    <3>2. x <=> y
      BY <2>1
    <3> HIDE DEF x, y, known, other
    <3>3. x = y
      BY <3>2
    <3>4. QED
      BY <3>1, <3>3
  <2>3. QED
    BY <2>2
<1>3. IsLoop(loop)
  BY <1>2
<1> HIDE DEF loop
<1>4. \A p \in from..to : loop[p] <=> Escapes(loop, p)
  BY <1>3
<1> DEFINE Wrong == {p \in from..to : ~(loop[p] <=> IsEscaped(p, from))}
<1>5. Wrong = {}
  <2> SUFFICES ASSUME Wrong # {} PROVE FALSE
    OBVIOUS
  <2>1. Wrong \in SUBSET Nat
    OBVIOUS
  <2>2. PICK p \in Wrong : \A y \in Wrong : p <= y
    <3> HIDE DEF Wrong
    <3>1. QED
      BY <2>1, LeastExists
  <2>3. p \in from..to /\ p \in Nat /\ from <= p
    OBVIOUS
  <2>4. p > from => p - 1 \in from..to /\ p - 1 \notin Wrong
    BY <2>2, <2>3
  <2>5. p > from => (loop[p - 1] <=> IsEscaped(p - 1, from))
    BY <2>4
  <2>6. IsEscaped(p, from) <=> p > from /\ At(p - 1) = dict.escape /\ ~IsEscaped(p - 1, from)
    BY <2>3, EscapedStep
  <2>7. loop[p] <=> IsEscaped(p, from)
    BY <1>4, <2>3, <2>5, <2>6
  <2>8. QED
    BY <2>2, <2>7
<1>6. \A p \in from..to : loop[p] <=> IsEscaped(p, from)
  BY <1>5
<1>7. S \in SUBSET (from..to - 1)
  OBVIOUS
<1>8. r \in from..to - 1 /\ r \in S /\ \A p \in from..r - 1 : p \notin S
  <2> HIDE DEF S
  <2>1. QED
    BY <1>1, <1>7, LeastOf
<1>9. r \in from..to /\ \A p \in from..r - 1 : p \in from..to - 1 /\ p \in from..to
  BY <1>8
<1>10. At(r) = b /\ b # dict.escape /\ ~IsEscaped(r, from)
  BY <1>6, <1>8, <1>9
<1>11. \A p \in from..r - 1 : At(p) = b => IsEscaped(p, from)
  BY <1>6, <1>8, <1>9, <1>10
<1>12. QED
  BY <1>8, <1>10, <1>11

(* Without an escape symbol nothing is escaped. *)
LEMMA NothingEscaped ==
  ASSUME Scanning, dict.escape = NoByte, NEW from \in Nat, NEW p \in Nat, from <= p, p <= n
  PROVE  ~IsEscaped(p, from)
<1>1. CASE p > from
  <2>1. p - 1 \in 0..n - 1
    BY <1>1, HereFacts
  <2>2. At(p - 1) \in Byte
    BY <2>1, HereFacts
  <2>3. At(p - 1) # dict.escape
    BY <2>2, DictionaryAssumption
  <2>4. QED
    BY <2>3, EscapedStep
<1>2. CASE ~(p > from)
  BY <1>2, EscapedStep
<1>3. QED
  BY <1>1, <1>2

-----------------------------------------------------------------------------
(* Signatures *)

(* An attribute at i is what the signature says. *)
LEMMA AttributeHere ==
  ASSUME Scanning, dict.action[At(i)] = "attribute", AttributeIssue = <<>>,
         NEW s, s = PayloadStartIdx, NEW e, e = PayloadEndIdx(s + 1),
         NEW type \in {"flag", "keyvalue"}, NEW key,
         NEW tok, tok = Token(type, i, e + 1, Span(s + 1, e), key),
         \/ s = i + 1 /\ type = "flag" /\ key = NoKey
         \/ s # i + 1 /\ type = "keyvalue" /\ key = Span(i + 1, s)
  PROVE  WellFormed(tok)
<1> DEFINE maxKey     == dict.limits.maxAttrKeyLen
           maxPayload == dict.limits.maxAttrPayloadLen
           start      == s + 1
<1>1. n \in Nat /\ i \in 0..n - 1 /\ dict.limits \in SetLimits
  BY HereFacts
<1>2. maxKey \in Nat \ {0} /\ maxPayload \in Nat \ {0}
  BY <1>1 DEF SetLimits
<1>3. s \in i + 1..n - 1 /\ e \in s + 2..n - 1 /\ s # -1 /\ e # -1
  <2>1. s \in i + 1..n - 1 /\ e \in s + 2..n - 1
    BY AttributeFacts
  <2>2. QED
    BY <1>1, <2>1
<1>4. /\ s \in i + 1..KeyEnd - 1 /\ At(s) = dict.attrStart
      /\ \A p \in i + 1..s - 1 : At(p) # dict.attrStart
  <2>1. KeyEnd \in Int
    BY <1>1, <1>2 DEF KeyEnd, Smaller
  <2>2. s = Find(dict.attrStart, i + 1, KeyEnd) /\ i + 1 \in Nat
    BY <1>1 DEF PayloadStartIdx
  <2>3. QED
    BY <1>3, <2>1, <2>2, FoundHere
<1>5. start \in Nat /\ PayloadEnd(start) \in Int
  BY <1>1, <1>2, <1>3 DEF PayloadEnd, Smaller
<1>6. e = PayloadEndIdx(start)
  OBVIOUS
<1> HIDE DEF start
<1>7. /\ e \in start..PayloadEnd(start) - 1 /\ At(e) = dict.attrEnd /\ ~IsEscaped(e, start)
      /\ \A p \in start..e - 1 : At(p) = dict.attrEnd => IsEscaped(p, start)
  <2>1. CASE dict.escape = NoByte
    <3>1. e = Find(dict.attrEnd, start, PayloadEnd(start))
      BY <1>6, <2>1 DEF PayloadEndIdx
    <3>2. /\ e \in start..PayloadEnd(start) - 1 /\ At(e) = dict.attrEnd
          /\ \A p \in start..e - 1 : At(p) # dict.attrEnd
      BY <1>3, <1>5, <3>1, FoundHere
    <3>3. e \in Nat /\ start <= e /\ e <= n
      BY <1>1, <1>3, <1>5, <3>2
    <3>4. ~IsEscaped(e, start)
      BY <1>5, <2>1, <3>3, NothingEscaped
    <3>5. QED
      BY <3>2, <3>4
  <2>2. CASE dict.escape # NoByte
    <3>1. e = FindUnescaped(dict.attrEnd, start, PayloadEnd(start))
      BY <1>6, <2>2 DEF PayloadEndIdx
    <3>2. QED
      BY <1>3, <1>5, <3>1, FoundUnescaped
  <2>3. QED
    BY <2>1, <2>2
<1>8. s - i - 1 \in 0..maxKey
  <2>1. KeyEnd <= i + 1 + maxKey + 1
    BY <1>1, <1>2 DEF KeyEnd, Smaller
  <2>2. KeyEnd \in Int
    BY <1>1, <1>2 DEF KeyEnd, Smaller
  <2> HIDE DEF maxKey
  <2>3. QED
    BY <1>1, <1>2, <1>3, <1>4, <2>1, <2>2
<1>9. e - start \in 1..maxPayload
  <2>1. PayloadEnd(start) <= start + maxPayload + 1
    BY <1>1, <1>2, <1>5 DEF PayloadEnd, Smaller
  <2> HIDE DEF maxPayload
  <2>2. e - start \in Int /\ e - start >= 1
    BY <1>1, <1>3 DEF start
  <2>3. QED
    BY <1>2, <1>3, <1>5, <1>7, <2>1, <2>2
<1> DEFINE end == e + 1
           payload == Span(start, e)
<1>10. payload.start = start /\ payload.end = e /\ Length(payload) = e - start
  BY DEF Span, Length
<1>11. end \in Nat /\ i \in Nat /\ i + (end - i) = e + 1
  BY <1>1, <1>3
<1>12. tok = Token(type, i, end, payload, key)
  BY DEF start
<1> HIDE DEF end, payload
<1>13. /\ tok.type = type /\ tok.pos = i /\ tok.width = end - i
       /\ tok.payload = payload /\ tok.key = key
  BY <1>12 DEF Token
<1>14. EndOf(tok) = e + 1
  BY <1>11, <1>13 DEF EndOf
<1>15. /\ tok.payload.start = start /\ tok.payload.end = e /\ Length(tok.payload) = e - start
       /\ tok.pos = i
  BY <1>10, <1>13
<1>16. /\ start - 1 = s /\ start - 2 = s - 1 /\ start - i - 2 = s - i - 1
       /\ (start = i + 2 <=> s = i + 1)
  BY <1>1, <1>3 DEF start
<1>17. tok.type = "flag" <=> start = i + 2
  BY <1>13, <1>16
<1>18. /\ tok.type = "keyvalue" => tok.key = Span(i + 1, s)
       /\ tok.type = "flag" => tok.key = NoKey
  BY <1>13
<1> HIDE DEF start, maxKey, maxPayload
<1>19. /\ At(start - 1) = dict.attrStart
       /\ \A p \in i + 1..start - 2 : At(p) # dict.attrStart
       /\ tok.type = "keyvalue" => tok.key = Span(i + 1, start - 1)
       /\ tok.type = "flag" => tok.key = NoKey
       /\ start - i - 2 \in 0..maxKey
  BY <1>4, <1>8, <1>16, <1>18
<1>20. QED
  BY <1>7, <1>9, <1>14, <1>15, <1>17, <1>19 DEF WellFormed, maxKey, maxPayload

-----------------------------------------------------------------------------
(* What is emitted is sound *)

(* What is said of a token rests on the dictionary and the input alone. *)
Sound(tok) == /\ IsGreedy(tok) => BodyTaken(tok)
              /\ IsAttribute(tok) => WellFormed(tok)

LEMMA RunStays ==
  ASSUME dict' = dict, input' = input, NEW p
  PROVE  Run(p)' = Run(p)
  BY DEF Run, At, n

LEMMA ClosersStay ==
  ASSUME dict' = dict, input' = input, NEW t, NEW opening, NEW from
  PROVE  Closers(t, opening, from)' = Closers(t, opening, from)
<1>1. n' = n /\ \A p : At(p)' = At(p) /\ Run(p)' = Run(p)
  BY RunStays DEF At, n
<1>2. \A p, seq : Stands(p, seq)' <=> Stands(p, seq)
  BY <1>1 DEF Stands
<1>3. QED
  BY <1>1, <1>2 DEF Closers

LEMMA EscapesStay ==
  ASSUME dict' = dict, input' = input, NEW p, NEW from
  PROVE  IsEscaped(p, from)' <=> IsEscaped(p, from)
  BY DEF IsEscaped, EscapesBefore, At

LEMMA SoundStays ==
  ASSUME dict' = dict, input' = input, NEW tok
  PROVE  Sound(tok)' <=> Sound(tok)
<1>1. n' = n /\ \A p : At(p)' = At(p)
  BY DEF At, n
<1>2. \A t, opening, from : Closers(t, opening, from)' = Closers(t, opening, from)
  BY ClosersStay
<1>3. \A p, seq : Stands(p, seq)' <=> Stands(p, seq)
  BY <1>1 DEF Stands
<1>4. \A p, from : IsEscaped(p, from)' <=> IsEscaped(p, from)
  BY EscapesStay
<1>5. IsGreedy(tok)' <=> IsGreedy(tok)
  BY DEF IsGreedy, IsTag, IsClosing
<1>6. IsAttribute(tok)' <=> IsAttribute(tok)
  BY DEF IsAttribute
<1>7. BodyTaken(tok)' <=> BodyTaken(tok)
  BY <1>1, <1>2, <1>3 DEF BodyTaken, EndOf
<1>8. WellFormed(tok)' <=> WellFormed(tok)
  BY <1>1, <1>4 DEF WellFormed, EndOf, Length
<1>9. QED
  BY <1>5, <1>6, <1>7, <1>8 DEF Sound

LEMMA ConcatRange ==
  ASSUME NEW S, NEW a \in Seq(S), NEW b \in Seq(S), NEW x \in Range(a \o b)
  PROVE  x \in Range(a) \/ x \in Range(b)
<1>1. /\ a \o b \in Seq(S) /\ Len(a \o b) = Len(a) + Len(b) /\ Len(a) \in Nat /\ Len(b) \in Nat
      /\ DOMAIN a = 1..Len(a) /\ DOMAIN b = 1..Len(b) /\ DOMAIN (a \o b) = 1..Len(a \o b)
  BY ConcatProperties, LenProperties
<1>2. \A k \in 1..Len(a) + Len(b) :
        (a \o b)[k] = IF k <= Len(a) THEN a[k] ELSE b[k - Len(a)]
  BY ConcatProperties
<1>3. PICK k \in 1..Len(a) + Len(b) : x = (a \o b)[k]
  BY <1>1 DEF Range
<1>4. CASE k <= Len(a)
  <2>1. k \in DOMAIN a /\ x = a[k]
    BY <1>1, <1>2, <1>3, <1>4
  <2>2. QED
    BY <2>1 DEF Range
<1>5. CASE ~(k <= Len(a))
  <2>1. k - Len(a) \in DOMAIN b /\ x = b[k - Len(a)]
    BY <1>1, <1>2, <1>3, <1>5
  <2>2. QED
    BY <2>1 DEF Range
<1>6. QED
  BY <1>4, <1>5

(* The text before an end is one token of text, or none. *)
LEMMA PlainTextTokens ==
  ASSUME IInv, NEW end \in Nat, textStart <= end
  PROVE  /\ PlainText(end) \in Seq(TokenRecord)
         /\ \A x \in Range(PlainText(end)) : IsText(x)
<1> DEFINE tok == TextToken(textStart, end)
<1>1. textStart \in Nat
  BY LenProperties DEF IInv, ScanOK, n
<1>2. Span(textStart, end) \in SpanRecord /\ Span(0, 0) \in SpanRecord /\ end - textStart \in Nat
  BY <1>1 DEF Span, SpanRecord
<1>3. tok \in TokenRecord /\ IsText(tok)
  BY <1>1, <1>2 DEF TextToken, Token, NoKey, TokenRecord, IsText
<1>4. PlainText(end) = <<tok>> \/ PlainText(end) = <<>>
  BY DEF PlainText
<1> HIDE DEF tok
<1>5. <<tok>> \in Seq(TokenRecord) /\ \A x \in Range(<<tok>>) : x = tok
  BY <1>3 DEF Range
<1>6. <<>> \in Seq(TokenRecord) /\ Range(<<>>) = {}
  BY DEF Range
<1>7. QED
  BY <1>3, <1>4, <1>5, <1>6

LEMMA EmitTokens ==
  ASSUME IInv, Busy, NEW tok \in TokenRecord, NEW counted, NEW w, Emit(tok, counted, w),
         NEW x \in Range(tokens')
  PROVE  x \in Range(tokens) \/ IsText(x) \/ x = tok
<1> DEFINE text == PlainText(i)
<1>1. tokens \in Seq(TokenRecord)
  BY DEF IInv, ScanOK
<1>2. i \in Nat /\ textStart <= i
  BY InvScanning
<1>3. text \in Seq(TokenRecord) /\ \A y \in Range(text) : IsText(y)
  BY <1>2, PlainTextTokens
<1>4. <<tok>> \in Seq(TokenRecord) /\ \A y \in Range(<<tok>>) : y = tok
  BY DEF Range
<1>5. tokens' = (tokens \o text) \o <<tok>>
  BY DEF Emit
<1> HIDE DEF text
<1>6. tokens \o text \in Seq(TokenRecord)
  BY <1>1, <1>3, ConcatProperties
<1>7. x \in Range(tokens \o text) \/ x \in Range(<<tok>>)
  BY <1>4, <1>5, <1>6, ConcatRange
<1>8. x \in Range(tokens \o text) => x \in Range(tokens) \/ x \in Range(text)
  BY <1>1, <1>3, ConcatRange
<1>9. QED
  BY <1>3, <1>4, <1>7, <1>8

(* Every token that a step emits is sound. *)
LEMMA StepSound ==
  ASSUME IInv, Next, NEW x \in Range(tokens')
  PROVE  x \in Range(tokens) \/ Sound(x)
<1>1. ASSUME IsText(x) PROVE Sound(x)
  BY <1>1, JobAssumption DEF Sound, IsText, IsGreedy, IsTag, IsAttribute
<1>2. ASSUME tokens' = tokens PROVE x \in Range(tokens)
  BY <1>2
<1>3. CASE \/ PlainByte \/ SkipInvalidTriggerTag \/ SkipUnclassified
           \/ SkipOpenTagBeforeEOL \/ SkipCloseTagAfterStart \/ SkipInfraWord
           \/ SkipUnclosedOpenTag \/ EscapeAtEOL \/ Escape \/ SkipAttribute
  <2>1. tokens' = tokens
    BY <1>3 DEF PlainByte, SkipInvalidTriggerTag, SkipUnclassified, SkipOpenTagBeforeEOL,
                SkipCloseTagAfterStart, SkipInfraWord, SkipUnclosedOpenTag, EscapeAtEOL,
                Escape, SkipAttribute, Skip
  <2>2. QED
    BY <1>2, <2>1
<1>4. ASSUME NEW b, Within(b), ValidTag, NEW counted, NEW w, Emit(TagToken(b), counted, w),
             IsOpening(Tagged) /\ Tagged.greed = "NonGreedy" => b.end < n,
             Tagged.greed = "NonGreedy" \/ IsClosing(Tagged) \/ BodyTaken(TagToken(b))
      PROVE  x \in Range(tokens) \/ Sound(x)
  <2> DEFINE tok == TagToken(b)
  <2>1. tok \in TokenRecord /\ tok.type = At(i) /\ dict.tags[tok.type] = Tagged /\ At(i) \in Byte
    BY <1>4, TagTokenFacts, ValidTagFacts
  <2> HIDE DEF tok
  <2>2. Busy
    BY <1>4, ValidTagFacts
  <2>3. x \in Range(tokens) \/ IsText(x) \/ x = tok
    BY <1>4, <2>1, <2>2, EmitTokens DEF tok
  <2>4. ~IsAttribute(tok)
    BY <2>1, JobAssumption DEF IsAttribute
  <2>5. IsGreedy(tok) => BodyTaken(tok)
    BY <1>4, <2>1 DEF IsGreedy, tok
  <2>6. Sound(tok)
    BY <2>4, <2>5 DEF Sound
  <2>7. QED
    BY <1>1, <2>3, <2>6
<1>5. CASE EmitCloseTag
  <2>1. /\ ValidTag /\ IsClosing(Tagged)
        /\ Emit(TagToken(Opened(Tagged)), Counted({"tags", "close"}), <<>>)
    BY <1>5 DEF EmitCloseTag
  <2>2. Within(Opened(Tagged)) /\ ~IsOpening(Tagged)
    BY <2>1, ValidTagFacts DEF OpenedAt, IsClosing, IsOpening
  <2>3. QED
    BY <1>4, <2>1, <2>2
<1>6. CASE EmitNonGreedy
  <2> DEFINE counted == Counted({"tags", IF IsUniversal(Tagged) THEN "universal" ELSE "open"})
             b == Opened(Tagged)
  <2>1. /\ ValidTag /\ Opens(Tagged) /\ Tagged.greed = "NonGreedy"
        /\ Emit(TagToken(b), counted, <<>>)
    BY <1>6 DEF EmitNonGreedy
  <2>2. Within(b) /\ b.end = i + b.width /\ n \in Nat /\ i \in Nat /\ b.width \in Nat
    BY <2>1, ValidTagFacts DEF OpenedAt
  <2>3. IsOpening(Tagged) => ~AtEOL(b)
    BY <2>1, ValidTagFacts, DictionaryAssumption DEF Opens, IsOpening, IsUniversal, Registered
  <2> HIDE DEF b, counted
  <2>4. IsOpening(Tagged) => b.end < n
    BY <2>2, <2>3 DEF AtEOL
  <2>5. QED
    BY <1>4, <2>1, <2>2, <2>4
<1>7. CASE EmitGreedy
  <2> DEFINE b == Body(Tagged)
             w == BodyWarnings(b)
             count == IF Length(b.inner) > 0 THEN 1 ELSE 0
             counted == WithText(count, Length(b.inner), Counted({"tags"}))
  <2>1. /\ ValidTag /\ Opens(Tagged) /\ Tagged.greed # "NonGreedy"
        /\ Tagged.greed = "Grasping" \/ b.closed
        /\ Emit(TagToken(b), counted, w)
    BY <1>7 DEF EmitGreedy
  <2>2. Within(b)
    BY <2>1, ValidTagFacts, BodyFacts
  <2>3. BodyTaken(TagToken(b))
    BY <2>1, BodyTakenHere
  <2> HIDE DEF b, w, counted
  <2>4. QED
    BY <1>4, <2>1, <2>2, <2>3
<1>8. CASE EmitAttribute
  <2> DEFINE s == PayloadStartIdx
             e == PayloadEndIdx(s + 1)
             flag == Token("flag", i, e + 1, Span(s + 1, e), NoKey)
             keyvalue == Token("keyvalue", i, e + 1, Span(s + 1, e), Span(i + 1, s))
             counted == Counted({"attributes"})
  <2>1. /\ Busy /\ dict.action[At(i)] = "attribute" /\ AttributeIssue = <<>>
        /\ \/ s = i + 1 /\ Emit(flag, counted, <<>>)
           \/ s # i + 1 /\ Emit(keyvalue, counted, <<>>)
    BY <1>8 DEF EmitAttribute, Action
  <2>2. Scanning /\ n \in Nat /\ i \in 0..n - 1
    BY <2>1, InvScanning
  <2>3. s \in i + 1..n - 1 /\ e \in s + 2..n - 1
    BY <2>1, <2>2, AttributeFacts
  <2>4. ASSUME NEW type \in {"flag", "keyvalue"}, NEW key \in SpanRecord,
               NEW tok, tok = Token(type, i, e + 1, Span(s + 1, e), key),
               Emit(tok, counted, <<>>),
               \/ s = i + 1 /\ type = "flag" /\ key = NoKey
               \/ s # i + 1 /\ type = "keyvalue" /\ key = Span(i + 1, s)
        PROVE  x \in Range(tokens) \/ Sound(x)
    <3>1. WellFormed(tok)
      BY <2>1, <2>2, <2>4, AttributeHere
    <3> HIDE DEF s, e, counted
    <3>2. Span(s + 1, e) \in SpanRecord /\ e + 1 - i \in Nat /\ i \in Nat
      BY <2>2, <2>3 DEF Span, SpanRecord
    <3> DEFINE end == e + 1
               payload == Span(s + 1, e)
    <3>3. tok = [type |-> type, pos |-> i, width |-> end - i, payload |-> payload, key |-> key]
      BY <2>4 DEF Token
    <3>4. tok \in TokenRecord /\ tok.type \in {"flag", "keyvalue"}
      <4>1. end - i \in Nat
        BY <2>2, <2>3
      <4>2. payload \in SpanRecord
        BY <3>2, Zenon
      <4> HIDE DEF end, payload
      <4>3. QED
        BY <3>2, <3>3, <4>1, <4>2 DEF TokenRecord
    <3>5. ~IsGreedy(tok)
      BY <3>4, JobAssumption DEF IsGreedy, IsTag
    <3>6. Sound(tok)
      BY <3>1, <3>5 DEF Sound
    <3>7. x \in Range(tokens) \/ IsText(x) \/ x = tok
      BY <2>1, <2>4, <3>4, EmitTokens
    <3>8. QED
      BY <1>1, <3>6, <3>7
  <2>5. NoKey \in SpanRecord /\ Span(i + 1, s) \in SpanRecord
    <3> HIDE DEF s
    <3>1. QED
      BY <2>2, <2>3 DEF NoKey, Span, SpanRecord
  <2> HIDE DEF s, e, counted
  <2>6. QED
    BY <2>1, <2>4, <2>5
<1>9. CASE Finish
  <2>1. tokens' = tokens \o PlainText(n) /\ i >= n
    BY <1>9 DEF Finish
  <2>2. tokens \in Seq(TokenRecord) /\ n \in Nat /\ i \in 0..n /\ textStart \in 0..i
    BY LenProperties DEF IInv, ScanOK, n
  <2>3. textStart <= n
    BY <2>2
  <2>4. PlainText(n) \in Seq(TokenRecord) /\ \A y \in Range(PlainText(n)) : IsText(y)
    BY <2>2, <2>3, PlainTextTokens
  <2>5. x \in Range(tokens) \/ x \in Range(PlainText(n))
    BY <2>1, <2>2, <2>4, ConcatRange
  <2>6. QED
    BY <1>1, <2>4, <2>5
<1>10. CASE done /\ UNCHANGED vars
  BY <1>2, <1>10 DEF vars
<1>11. QED
  BY <1>3, <1>5, <1>6, <1>7, <1>8, <1>9, <1>10 DEF Next

SoundTokens == \A tok \in Range(tokens) : Sound(tok)

LEMMA NextSound ==
  IInv /\ SoundTokens /\ [Next]_vars => SoundTokens'
<1> SUFFICES ASSUME IInv, SoundTokens, [Next]_vars PROVE SoundTokens'
  OBVIOUS
<1>1. dict' = dict /\ input' = input
  BY DEF Next, vars, PlainByte, SkipInvalidTriggerTag, SkipUnclassified, SkipOpenTagBeforeEOL,
         SkipCloseTagAfterStart, EmitCloseTag, SkipInfraWord, EmitNonGreedy,
         SkipUnclosedOpenTag, EmitGreedy, EscapeAtEOL, Escape, SkipAttribute, EmitAttribute,
         Finish, ValidTag, Action, Busy
<1>2. ASSUME NEW x \in Range(tokens') PROVE Sound(x)'
  <2>1. x \in Range(tokens) \/ Sound(x)
    BY StepSound DEF vars
  <2>2. Sound(x)
    BY <2>1 DEF SoundTokens
  <2>3. QED
    BY <1>1, <2>2, SoundStays
<1>3. QED
  BY <1>2 DEF SoundTokens

(* Every greedy tag takes its content up to the first place where it may    *)
(* close, and every attribute is what its signature says.                  *)
LEMMA AlwaysSound == Spec => []SoundTokens
<1>1. Init => SoundTokens
  BY DEF Init, SoundTokens, Range
<1>2. QED
  BY <1>1, NextSound, TokenizerInvariant, PTL DEF Spec

LEMMA SoundBodies == SoundTokens => GreedyBodies
  BY DEF SoundTokens, Sound, GreedyBodies

LEMMA SoundAttributes == SoundTokens => AttributesWellFormed
  BY DEF SoundTokens, Sound, AttributesWellFormed

(* The content of a greedy tag ends at the first place where it may close,  *)
(* its closer included; without one, a grasping tag takes the rest.        *)
THEOREM BodiesEndAtCloser == Spec => []GreedyBodies
<1>1. QED
  BY AlwaysSound, SoundBodies, PTL

(* An attribute is what its signature says, within the limits, with escapes *)
(* counted back to the start of the payload.                               *)
THEOREM AttributesMatchSignature == Spec => []AttributesWellFormed
<1>1. QED
  BY AlwaysSound, SoundAttributes, PTL


-----------------------------------------------------------------------------
(* What the statistics count *)

(* What one token adds to a total. *)
Share(tok, x) ==
  IF x = "textBytes" THEN IF IsAttribute(tok) THEN 0 ELSE Length(tok.payload)
  ELSE IF Counts(tok, x) THEN 1 ELSE 0

(* Tokens end where the last one ends, or before. *)
LEMMA LaidEnds ==
  ASSUME NEW end \in Nat, NEW toks, Laid(toks, end)
  PROVE  \A k \in 1..Len(toks) : EndOf(toks[k]) <= end
<1> DEFINE m == Len(toks)
           late == {k \in 1..m : ~(EndOf(toks[k]) <= end)}
<1>1. toks \in Seq(TokenRecord) /\ m \in Nat
  BY LenProperties DEF Laid
<1>2. \A k \in 1..m : EndOf(toks[k]) \in Nat /\ toks[k].pos \in Nat
                      /\ toks[k].width \in Nat /\ toks[k].width > 0
  <2> SUFFICES ASSUME NEW k \in 1..m
               PROVE  EndOf(toks[k]) \in Nat /\ toks[k].pos \in Nat
                      /\ toks[k].width \in Nat /\ toks[k].width > 0
    OBVIOUS
  <2>1. toks[k] \in TokenRecord /\ TokenOK(toks[k])
    BY <1>1, ElementOfSeq DEF Laid
  <2>2. toks[k].pos \in Nat /\ toks[k].width \in Nat /\ toks[k].width > 0
    BY <2>1 DEF TokenRecord, TokenOK
  <2>3. QED
    BY <2>2 DEF EndOf
<1>3. \A k \in 1..m : k # 1 => toks[k].pos = EndOf(toks[k - 1])
  BY DEF Laid
<1>4. m # 0 => EndOf(toks[m]) = end
  BY <1>1, EmptySeq DEF Laid, Last
<1>5. SUFFICES ASSUME late # {} PROVE FALSE
  OBVIOUS
<1>6. late \in SUBSET 0..m
  BY <1>1
<1>7. Max(late) \in late /\ \A y \in late : Max(late) >= y
  BY <1>1, <1>5, <1>6, MaxFacts
<1>8. PICK k \in late : \A y \in late : k >= y
  BY <1>7
<1>9. k \in 1..m /\ ~(EndOf(toks[k]) <= end)
  OBVIOUS
<1>10. k # m
  BY <1>1, <1>2, <1>4, <1>9
<1>11. k + 1 \in 1..m /\ k + 1 # 1 /\ (k + 1) - 1 = k /\ ~(k >= k + 1)
  BY <1>1, <1>9, <1>10
<1>12. toks[k + 1].pos = EndOf(toks[k])
  BY <1>3, <1>11
<1>13. EndOf(toks[k + 1]) = toks[k + 1].pos + toks[k + 1].width
  BY DEF EndOf
<1>14. ~(EndOf(toks[k + 1]) <= end)
  BY <1>2, <1>9, <1>11, <1>12, <1>13
<1>15. k + 1 \in late
  BY <1>11, <1>14
<1>16. QED
  BY <1>8, <1>11, <1>15

(* A token laid behind others adds its share. *)
LEMMA AppendCounted ==
  ASSUME NEW toks \in Seq(TokenRecord), NEW tok \in TokenRecord, NEW x, x # "textBytes"
  PROVE  /\ Total(toks, x) \in Nat
         /\ Total(Append(toks, tok), x) = Total(toks, x) + Share(tok, x)
<1> DEFINE m == Len(toks)
           a == Append(toks, tok)
           A == {k \in 1..m : Counts(toks[k], x)}
           B == {k \in 1..Len(a) : Counts(a[k], x)}
<1>1. m \in Nat
  BY LenProperties
<1>2. Len(a) = m + 1 /\ a[m + 1] = tok /\ \A k \in 1..m : a[k] = toks[k]
  BY AppendProperties
<1>3. Total(toks, x) = Cardinality(A) /\ Total(a, x) = Cardinality(B)
  BY DEF Total
<1> HIDE DEF a
<1>4. IsFiniteSet(A)
  <2>1. IsFiniteSet(1..m)
    BY <1>1, FS_Interval
  <2>2. QED
    BY <2>1, FS_Subset
<1>5. Cardinality(A) \in Nat
  BY <1>4, FS_CardinalityType
<1>6. B = IF Counts(tok, x) THEN A \cup {m + 1} ELSE A
  <2>1. \A k \in 1..Len(a) : k \in 1..m \/ k = m + 1
    BY <1>1, <1>2
  <2>2. \A k \in 1..m : k \in 1..Len(a)
    BY <1>1, <1>2
  <2>3. m + 1 \in 1..Len(a) /\ ~(m + 1 \in 1..m)
    BY <1>1, <1>2
  <2> HIDE DEF m
  <2>4. QED
    BY <1>2, <2>1, <2>2, <2>3
<1>7. ~(m + 1 \in A)
  BY <1>1
<1>8. Cardinality(A \cup {m + 1}) = Cardinality(A) + 1
  BY <1>4, <1>7, FS_AddElement
<1>9. Share(tok, x) = IF Counts(tok, x) THEN 1 ELSE 0
  BY DEF Share
<1> HIDE DEF A, B
<1>10. Cardinality(B) = Cardinality(A) + Share(tok, x)
  BY <1>5, <1>6, <1>8, <1>9
<1>11. QED
  BY <1>3, <1>5, <1>10 DEF a

LEMMA AppendText ==
  ASSUME NEW end \in Nat, NEW toks, Laid(toks, end), n \in Nat,
         NEW tok \in TokenRecord, TokenOK(tok), tok.pos = end
  PROVE  /\ Total(toks, "textBytes") \in Nat
         /\ Total(Append(toks, tok), "textBytes")
              = Total(toks, "textBytes") + Share(tok, "textBytes")
<1> DEFINE m == Len(toks)
           a == Append(toks, tok)
           from == tok.payload.start
           to == tok.payload.end
           A == TextIn(toks)
           B == TextIn(a)
           New == IF IsAttribute(tok) THEN {} ELSE from..to - 1
<1>1. toks \in Seq(TokenRecord) /\ m \in Nat
  BY LenProperties DEF Laid
<1>2. Len(a) = m + 1 /\ a[m + 1] = tok /\ \A k \in 1..m : a[k] = toks[k]
  BY <1>1, AppendProperties
<1>3. from \in Nat /\ to \in Nat /\ from <= to /\ to <= n /\ end <= from
  BY DEF TokenOK, SpanInInput, TokenRecord, SpanRecord
<1>4. Total(toks, "textBytes") = Cardinality(A) /\ Total(a, "textBytes") = Cardinality(B)
  BY DEF Total
<1> HIDE DEF a, from, to
<1>5. A \subseteq 0..n - 1 /\ IsFiniteSet(A)
  <2>1. A \subseteq 0..n - 1
    BY DEF TextIn
  <2>2. IsFiniteSet(0..n - 1)
    BY FS_Interval
  <2>3. QED
    BY <2>1, <2>2, FS_Subset
<1>6. \A p \in A : p < end
  <2> SUFFICES ASSUME NEW p \in A PROVE p < end
    OBVIOUS
  <2>1. PICK k \in 1..m : p < toks[k].payload.end
    BY DEF TextIn
  <2>2. toks[k] \in TokenRecord /\ TokenOK(toks[k]) /\ EndOf(toks[k]) <= end
    BY <1>1, ElementOfSeq, LaidEnds DEF Laid
  <2>3. /\ toks[k].payload.end \in Nat /\ EndOf(toks[k]) \in Nat
        /\ toks[k].payload.end <= EndOf(toks[k])
    <3> DEFINE u == toks[k]
    <3>1. u \in TokenRecord /\ TokenOK(u)
      BY <2>2
    <3> HIDE DEF u
    <3>2. u.payload \in SpanRecord /\ u.pos \in Nat /\ u.width \in Nat
      BY <3>1 DEF TokenRecord
    <3>3. u.payload.end \in Nat /\ EndOf(u) \in Nat
      BY <3>2 DEF SpanRecord, EndOf
    <3>4. u.payload.end <= EndOf(u)
      BY <3>1 DEF TokenOK
    <3>5. QED
      BY <3>3, <3>4 DEF u
  <2>4. p \in Nat
    BY <1>5
  <2>5. QED
    BY <2>1, <2>2, <2>3, <2>4
<1>7. B = A \cup New
  <2>1. ASSUME NEW p \in B PROVE p \in A \cup New
    <3>1. /\ p \in 0..n - 1
          /\ \E k \in 1..Len(a) : ~IsAttribute(a[k]) /\ a[k].payload.start <= p
                                  /\ p < a[k].payload.end
      BY DEF TextIn
    <3>2. PICK k \in 1..Len(a) : ~IsAttribute(a[k]) /\ a[k].payload.start <= p
                                 /\ p < a[k].payload.end
      BY <3>1
    <3>3. CASE k \in 1..m
      <4>1. a[k] = toks[k]
        BY <1>2, <3>3
      <4>2. p \in A
        BY <3>1, <3>2, <3>3, <4>1 DEF TextIn
      <4>3. QED
        BY <4>2
    <3>4. CASE k = m + 1
      <4>1. ~IsAttribute(tok) /\ from <= p /\ p < to
        BY <1>2, <3>2, <3>4 DEF from, to
      <4>2. p \in from..to - 1
        BY <1>3, <3>1, <4>1
      <4>3. QED
        BY <4>1, <4>2
    <3>5. QED
      BY <1>1, <1>2, <3>3, <3>4
  <2>2. ASSUME NEW p \in A PROVE p \in B
    <3>1. PICK k \in 1..m : ~IsAttribute(toks[k]) /\ toks[k].payload.start <= p
                            /\ p < toks[k].payload.end
      BY DEF TextIn
    <3>2. k \in 1..Len(a) /\ a[k] = toks[k]
      BY <1>1, <1>2
    <3>3. p \in 0..n - 1
      BY <1>5
    <3>4. QED
      BY <3>1, <3>2, <3>3 DEF TextIn
  <2>3. ASSUME NEW p \in New PROVE p \in B
    <3>1. ~IsAttribute(tok) /\ p \in from..to - 1
      OBVIOUS
    <3>2. from <= p /\ p < to /\ p \in 0..n - 1
      BY <1>3, <3>1
    <3>3. m + 1 \in 1..Len(a) /\ a[m + 1] = tok
      BY <1>1, <1>2
    <3>4. QED
      BY <3>1, <3>2, <3>3 DEF TextIn, from, to
  <2>4. QED
    BY <2>1, <2>2, <2>3
<1>8. IsFiniteSet(New) /\ Cardinality(New) = Share(tok, "textBytes")
  <2>1. Share(tok, "textBytes") = IF IsAttribute(tok) THEN 0 ELSE to - from
    BY DEF Share, Length, from, to
  <2>2. IsFiniteSet({}) /\ Cardinality({}) = 0
    BY FS_EmptySet
  <2>3. IsFiniteSet(from..to - 1) /\ Cardinality(from..to - 1) = to - from
    <3>1. from \in Int /\ to - 1 \in Int
      BY <1>3
    <3>2. /\ IsFiniteSet(from..to - 1)
          /\ Cardinality(from..to - 1) = IF from > to - 1 THEN 0 ELSE (to - 1) - from + 1
      BY <3>1, FS_Interval
    <3>3. QED
      BY <1>3, <3>2
  <2>4. QED
    BY <2>1, <2>2, <2>3
<1>9. A \cap New = {}
  <2>1. \A p \in New : from <= p
    BY <1>3
  <2>2. \A p \in New : p \in Int
    BY <1>3
  <2>3. \A p \in A : ~(from <= p)
    BY <1>3, <1>5, <1>6
  <2> HIDE DEF A, New
  <2>4. QED
    BY <2>1, <2>3
<1> HIDE DEF A, B, New
<1>10. Cardinality(A \cup New) = Cardinality(A) + Cardinality(New) - Cardinality({})
  BY <1>5, <1>8, <1>9, FS_Union
<1>11. Cardinality({}) = 0 /\ Cardinality(A) \in Nat /\ Cardinality(New) \in Nat
  BY <1>5, <1>8, FS_EmptySet, FS_CardinalityType
<1>12. Cardinality(B) = Cardinality(A) + Share(tok, "textBytes")
  BY <1>7, <1>8, <1>10, <1>11
<1>13. QED
  BY <1>4, <1>11, <1>12 DEF a

LEMMA AppendTotal ==
  ASSUME NEW end \in Nat, NEW toks, Laid(toks, end), n \in Nat,
         NEW tok \in TokenRecord, TokenOK(tok), tok.pos = end, NEW x
  PROVE  /\ Total(toks, x) \in Nat
         /\ Total(Append(toks, tok), x) = Total(toks, x) + Share(tok, x)
<1>1. toks \in Seq(TokenRecord)
  BY DEF Laid
<1>2. CASE x = "textBytes"
  BY <1>2, AppendText
<1>3. CASE x # "textBytes"
  BY <1>1, <1>3, AppendCounted
<1>4. QED
  BY <1>2, <1>3

LEMMA PlainTextShare ==
  ASSUME IInv, ~done, NEW end \in Nat, textStart <= end, end <= n,
         NEW s \in [StatName -> Nat], NEW x \in StatName
  PROVE  /\ Total(tokens, x) \in Nat /\ TextShare(end, x) \in Nat
         /\ WithPlainText(end, s)[x] = s[x] + TextShare(end, x)
         /\ Total(tokens \o PlainText(end), x) = Total(tokens, x) + TextShare(end, x)
<1> DEFINE tok == TextToken(textStart, end)
<1>1. textStart \in Nat /\ n \in Nat
  BY LenProperties DEF IInv, ScanOK, n
<1>2. Laid(tokens, textStart) /\ tokens \in Seq(TokenRecord)
  BY InvLaid DEF Covered, Laid
<1>3. TextShare(end, x) \in Nat /\ WithPlainText(end, s)[x] = s[x] + TextShare(end, x)
  BY <1>1, PlainTextAdded
<1>4. Total(tokens, x) \in Nat
         /\ Total(tokens \o PlainText(end), x) = Total(tokens, x) + TextShare(end, x)
  <2>1. /\ tok.type = "text" /\ tok.pos = textStart /\ tok.width = end - textStart
        /\ tok.payload = Span(textStart, end) /\ tok.key = Span(0, 0)
    BY DEF TextToken, Token, NoKey
  <2>2. /\ Span(textStart, end) \in SpanRecord /\ Span(0, 0) \in SpanRecord
        /\ SpanInInput(Span(textStart, end)) /\ SpanInInput(Span(0, 0))
        /\ Span(textStart, end).start = textStart /\ Span(textStart, end).end = end
    BY <1>1 DEF Span, SpanRecord, SpanInInput
  <2>3. CASE textStart < end
    <3>1. tok \in TokenRecord
      BY <1>1, <2>2, <2>3 DEF TextToken, Token, NoKey, TokenRecord
    <3> HIDE DEF tok
    <3>2. EndOf(tok) = end
      BY <1>1, <2>1 DEF EndOf
    <3>3. ~IsTag(tok) /\ ~IsAttribute(tok)
      BY <2>1, JobAssumption DEF IsTag, IsAttribute
    <3>4. TokenOK(tok)
      BY <1>1, <2>1, <2>2, <2>3, <3>2, <3>3 DEF TokenOK, OpensBody
    <3>5. /\ Total(tokens, x) \in Nat
          /\ Total(Append(tokens, tok), x) = Total(tokens, x) + Share(tok, x)
      BY <1>1, <1>2, <2>1, <3>1, <3>4, AppendTotal
    <3>6. tokens \o PlainText(end) = Append(tokens, tok)
      BY <1>2, <2>3, <3>1, AppendIsConcat DEF PlainText, tok
    <3>7. Share(tok, x) = TextShare(end, x)
      <4>1. Counts(tok, x) <=> x = "textTokens"
        BY <2>1, <2>2, <2>3, <3>3 DEF Counts, StatName
      <4>2. Length(tok.payload) = end - textStart
        BY <2>1, <2>2 DEF Length
      <4>3. QED
        BY <2>3, <3>3, <4>1, <4>2 DEF Share, TextShare
    <3>8. QED
      BY <3>5, <3>6, <3>7
  <2>4. CASE ~(textStart < end)
    <3>1. tokens \o PlainText(end) = tokens /\ TextShare(end, x) = 0
      BY <1>2, <2>4, ConcatEmptySeq DEF PlainText, TextShare
    <3>2. Total(tokens, x) \in Nat
      <4>1. Total(tokens, x) = Cardinality(TextIn(tokens))
            \/ Total(tokens, x) = Cardinality({k \in 1..Len(tokens) : Counts(tokens[k], x)})
        BY DEF Total
      <4>2. IsFiniteSet(0..n - 1) /\ TextIn(tokens) \subseteq 0..n - 1
        BY <1>1, FS_Interval DEF TextIn
      <4>3. /\ IsFiniteSet(1..Len(tokens))
            /\ {k \in 1..Len(tokens) : Counts(tokens[k], x)} \subseteq 1..Len(tokens)
        BY <1>2, LenProperties, FS_Interval
      <4>4. /\ IsFiniteSet(TextIn(tokens))
            /\ IsFiniteSet({k \in 1..Len(tokens) : Counts(tokens[k], x)})
        BY <4>2, <4>3, FS_Subset
      <4>5. QED
        BY <4>1, <4>4, FS_CardinalityType
    <3>3. QED
      BY <3>1, <3>2
  <2>5. QED
    BY <2>3, <2>4
<1>5. QED
  BY <1>3, <1>4

(* Totals only depend on the dictionary and the input. *)
LEMMA TotalStays ==
  ASSUME dict' = dict, n' = n, NEW toks, tokens' = toks, NEW x
  PROVE  Total(tokens, x)' = Total(toks, x)
<1>1. \A tok : Counts(tok, x)' <=> Counts(tok, x)
  BY DEF Counts, IsTag, IsAttribute, IsUniversal, IsOpening, IsClosing
<1>2. TextIn(tokens)' = TextIn(toks)
  BY DEF TextIn, IsAttribute
<1>3. {k \in 1..Len(tokens) : Counts(tokens[k], x)}' = {k \in 1..Len(toks) : Counts(toks[k], x)}
  BY <1>1
<1>4. QED
  BY <1>2, <1>3 DEF Total

LEMMA EmitMatches ==
  ASSUME IInv, StatsMatch, Busy, NEW tok \in TokenRecord, TokenOK(tok), tok.pos = i,
         NEW counted \in [StatName -> Nat],
         \A x \in StatName : counted[x] = stats[x] + Share(tok, x),
         NEW w, Emit(tok, counted, w)
  PROVE  StatsMatch'
<1> DEFINE before == tokens \o PlainText(i)
           after == Append(before, tok)
<1>1. /\ n \in Nat /\ i \in 0..n - 1 /\ textStart \in 0..i /\ ~done
      /\ dict' = dict /\ input' = input /\ n' = n
  BY InvScanning
<1>2. /\ tokens' = before \o <<tok>> /\ stats' = WithPlainText(i, counted)
  BY DEF Emit
<1>3. i \in Nat /\ textStart <= i /\ i <= n /\ textStart \in Nat
  BY <1>1
<1>4. Laid(before, i)
  BY <1>1, <1>3, PlainTextLaid
<1>5. tokens' = after
  BY <1>2, <1>4, AppendIsConcat DEF Laid
<1>6. stats \in [StatName -> Nat] /\ DOMAIN stats = StatName
  BY DEF IInv, StatsBounded
<1>7. DOMAIN stats' = StatName
  <2>1. WithPlainText(i, counted) \in [StatName -> Nat]
    BY <1>3, PlainTextAdded
  <2>2. QED
    BY <1>2, <2>1
<1> HIDE DEF before, after
<1>8. ASSUME NEW x \in StatName PROVE stats'[x] = Total(tokens, x)'
  <2>1. /\ Total(tokens, x) \in Nat /\ TextShare(i, x) \in Nat
        /\ WithPlainText(i, counted)[x] = counted[x] + TextShare(i, x)
        /\ Total(before, x) = Total(tokens, x) + TextShare(i, x)
    BY <1>1, <1>3, PlainTextShare DEF before
  <2>2. Total(before, x) \in Nat /\ Total(after, x) = Total(before, x) + Share(tok, x)
    BY <1>1, <1>3, <1>4, AppendTotal DEF after
  <2>3. Total(tokens, x)' = Total(after, x)
    BY <1>1, <1>5, TotalStays
  <2>4. counted[x] = stats[x] + Share(tok, x) /\ stats[x] = Total(tokens, x)
    BY <1>6 DEF StatsMatch
  <2>5. counted[x] \in Nat /\ Share(tok, x) \in Int
    <3>1. Share(tok, x) = Length(tok.payload) \/ Share(tok, x) \in {0, 1}
      BY DEF Share
    <3>2. Length(tok.payload) \in Int
      BY DEF Length, TokenRecord, SpanRecord
    <3>3. QED
      BY <3>1, <3>2
  <2>6. QED
    BY <1>2, <2>1, <2>2, <2>3, <2>4, <2>5
<1>9. QED
  BY <1>7, <1>8 DEF StatsMatch

(* The sequence of a tag has no content. *)
LEMMA OpenedEmpty ==
  ASSUME NEW t
  PROVE  Opened(t).inner.start = Opened(t).inner.end
<1>1. \E e : Opened(t).inner = Span(e, e)
  <2>1. CASE Len(t.seq) = 1
    BY <2>1 DEF Opened, Prepared
  <2>2. CASE Len(t.seq) # 1
    <3> DEFINE e == i + LongestCommonSubPrefix(i, Smaller(n, i + Len(t.seq)), t.seq).length
    <3>1. Opened(t).inner = Span(e, e)
      <4> HIDE DEF e
      <4>1. Opened(t) = [Prepared EXCEPT
              !.valid = LongestCommonSubPrefix(i, Smaller(n, i + Len(t.seq)), t.seq).contained,
              !.width = LongestCommonSubPrefix(i, Smaller(n, i + Len(t.seq)), t.seq).length,
              !.end = e, !.inner = Span(e, e)]
        BY <2>2 DEF Opened, CheckMultiCharTagSeq, e
      <4>2. "inner" \in DOMAIN Prepared
        BY DEF Prepared
      <4>3. QED
        BY <4>1, <4>2
    <3>2. QED
      BY <3>1
  <2>3. QED
    BY <2>1, <2>2
<1>2. QED
  BY <1>1 DEF Span

(* One more of some kinds. *)
LEMMA CountedShare ==
  ASSUME IInv, Busy, NEW fields, NEW x \in StatName
  PROVE  /\ Counted(fields) \in [StatName -> Nat]
         /\ Counted(fields)[x] = stats[x] + (IF x \in fields THEN 1 ELSE 0)
         /\ stats[x] \in Nat
<1>1. StatsBounded /\ ~done
  BY InvScanning DEF IInv
<1>2. stats \in [StatName -> Nat] /\ Counted(fields) \in [StatName -> Nat]
  BY <1>1, CountedFacts DEF StatsBounded
<1>3. QED
  BY <1>2 DEF Counted

LEMMA CloseTagMatches ==
  ASSUME IInv, StatsMatch, EmitCloseTag
  PROVE  StatsMatch'
<1> DEFINE b == Opened(Tagged)
           tok == TagToken(b)
           counted == Counted({"tags", "close"})
<1>1. ValidTag /\ IsClosing(Tagged) /\ Emit(tok, counted, <<>>)
  BY DEF EmitCloseTag
<1>2. Busy /\ Within(b) /\ Registered(Tagged, At(i)) /\ At(i) \in Byte
  BY <1>1, ValidTagFacts DEF OpenedAt
<1>3. ~IsOpening(Tagged) /\ ~IsUniversal(Tagged)
  BY <1>1, <1>2, DictionaryAssumption DEF IsClosing, IsOpening, IsUniversal, Registered
<1>4. b.inner.start = b.inner.end
  BY OpenedEmpty
<1> HIDE DEF b
<1>5. /\ tok \in TokenRecord /\ TokenOK(tok) /\ tok.pos = i /\ tok.type = At(i)
      /\ dict.tags[tok.type] = Tagged
  BY <1>1, <1>2, <1>3, TagTokenFacts
<1>6. tok.payload = b.inner /\ b.inner \in SpanRecord
  BY <1>2 DEF TagToken, Token, Within, Bounds
<1> HIDE DEF tok
<1>7. IsTag(tok) /\ ~IsAttribute(tok)
  BY <1>2, <1>5, JobAssumption DEF IsTag, IsAttribute
<1>8. Length(tok.payload) = 0 /\ ~(tok.payload.start < tok.payload.end)
  BY <1>4, <1>6 DEF Length, SpanRecord
<1>9. ASSUME NEW x \in StatName PROVE counted[x] = stats[x] + Share(tok, x)
  <2>1. Share(tok, x) = IF x \in {"tags", "close"} THEN 1 ELSE 0
    BY <1>1, <1>3, <1>5, <1>7, <1>8 DEF Share, Counts
  <2>2. QED
    BY <1>2, <2>1, CountedShare
<1>10. counted \in [StatName -> Nat]
  BY <1>2, CountedShare DEF StatName
<1> HIDE DEF counted
<1>11. QED
  BY <1>1, <1>2, <1>5, <1>9, <1>10, EmitMatches

LEMMA NonGreedyMatches ==
  ASSUME IInv, StatsMatch, EmitNonGreedy
  PROVE  StatsMatch'
<1> DEFINE b == Opened(Tagged)
           tok == TagToken(b)
           kind == IF IsUniversal(Tagged) THEN "universal" ELSE "open"
           counted == Counted({"tags", kind})
<1>1. ValidTag /\ Opens(Tagged) /\ Tagged.greed = "NonGreedy" /\ Emit(tok, counted, <<>>)
  BY DEF EmitNonGreedy
<1>2. /\ Busy /\ Within(b) /\ Registered(Tagged, At(i)) /\ At(i) \in Byte
      /\ b.end = i + b.width /\ n \in Nat /\ i \in 0..n - 1 /\ b.width \in Nat
  BY <1>1, ValidTagFacts DEF OpenedAt
<1>3. /\ ~IsClosing(Tagged) /\ (IsOpening(Tagged) <=> ~IsUniversal(Tagged))
      /\ IsOpening(Tagged) => ~AtEOL(b)
  BY <1>1, <1>2, DictionaryAssumption DEF Opens, IsClosing, IsOpening, IsUniversal, Registered
<1>4. b.inner.start = b.inner.end
  BY OpenedEmpty
<1> HIDE DEF b
<1>5. IsOpening(Tagged) => b.end < n
  BY <1>2, <1>3 DEF AtEOL
<1>6. /\ tok \in TokenRecord /\ TokenOK(tok) /\ tok.pos = i /\ tok.type = At(i)
      /\ dict.tags[tok.type] = Tagged
  BY <1>1, <1>2, <1>5, TagTokenFacts
<1>7. tok.payload = b.inner /\ b.inner \in SpanRecord
  BY <1>2 DEF TagToken, Token, Within, Bounds
<1> HIDE DEF tok
<1>8. IsTag(tok) /\ ~IsAttribute(tok)
  BY <1>2, <1>6, JobAssumption DEF IsTag, IsAttribute
<1>9. Length(tok.payload) = 0 /\ ~(tok.payload.start < tok.payload.end)
  BY <1>4, <1>7 DEF Length, SpanRecord
<1>10. ASSUME NEW x \in StatName PROVE counted[x] = stats[x] + Share(tok, x)
  <2>1. Share(tok, x) = IF x \in {"tags", kind} THEN 1 ELSE 0
    BY <1>1, <1>3, <1>6, <1>8, <1>9 DEF Share, Counts
  <2>2. QED
    BY <1>2, <2>1, CountedShare
<1>11. counted \in [StatName -> Nat]
  BY <1>2, CountedShare DEF StatName
<1> HIDE DEF counted
<1>12. QED
  BY <1>1, <1>2, <1>6, <1>10, <1>11, EmitMatches

LEMMA GreedyMatches ==
  ASSUME IInv, StatsMatch, EmitGreedy
  PROVE  StatsMatch'
<1> DEFINE b == Body(Tagged)
           tok == TagToken(b)
           w == BodyWarnings(b)
           tags == Counted({"tags"})
           count == IF Length(b.inner) > 0 THEN 1 ELSE 0
           bytes == Length(b.inner)
           counted == WithText(count, bytes, tags)
<1>1. /\ ValidTag /\ Opens(Tagged) /\ Tagged.greed # "NonGreedy" /\ Emit(tok, counted, w)
  BY DEF EmitGreedy
<1>2. /\ Busy /\ Scanning /\ Within(b) /\ Registered(Tagged, At(i)) /\ At(i) \in Byte
  BY <1>1, ValidTagFacts, BodyFacts
<1>3. ~IsClosing(Tagged)
  BY <1>1, <1>2, DictionaryAssumption DEF Opens, IsClosing, IsOpening, IsUniversal, Registered
<1> HIDE DEF b
<1>4. /\ tok \in TokenRecord /\ TokenOK(tok) /\ tok.pos = i /\ tok.type = At(i)
      /\ dict.tags[tok.type] = Tagged /\ Length(b.inner) \in Nat
  BY <1>1, <1>2, TagTokenFacts
<1>5. tok.payload = b.inner /\ b.inner \in SpanRecord
  BY <1>2 DEF TagToken, Token, Within, Bounds
<1> HIDE DEF tok, w
<1>6. IsTag(tok) /\ ~IsAttribute(tok)
  BY <1>2, <1>4, JobAssumption DEF IsTag, IsAttribute
<1>7. /\ bytes \in Nat /\ count \in Nat /\ (count = IF bytes > 0 THEN 1 ELSE 0)
      /\ Length(tok.payload) = bytes
      /\ tok.payload.start < tok.payload.end <=> bytes > 0
  BY <1>4, <1>5 DEF Length, SpanRecord
<1> HIDE DEF count, bytes
<1>8. tags \in [StatName -> Nat]
  BY <1>2, CountedShare DEF StatName
<1>9. \A x \in StatName : tags[x] = stats[x] + (IF x \in {"tags"} THEN 1 ELSE 0)
                          /\ stats[x] \in Nat
  BY <1>2, CountedShare
<1> HIDE DEF tags
<1>10. /\ counted \in [StatName -> Nat]
       /\ counted["textTokens"] = tags["textTokens"] + count
       /\ counted["textBytes"] = tags["textBytes"] + bytes
       /\ \A x \in StatName \ {"textTokens", "textBytes"} : counted[x] = tags[x]
  <2> HIDE DEF counted
  <2>1. counted = WithText(count, bytes, tags)
    BY DEF counted
  <2>2. bytes \in Nat /\ count \in Nat /\ tags \in [StatName -> Nat]
    BY <1>7, <1>8
  <2>3. QED
    BY ONLY <2>1, <2>2, WithTextFacts
<1> HIDE DEF counted
<1>11. ASSUME NEW x \in StatName PROVE counted[x] = stats[x] + Share(tok, x)
  <2>1. CASE x = "textBytes"
    <3>1. Share(tok, x) = bytes
      BY <1>6, <1>7, <2>1 DEF Share
    <3>2. tags[x] = stats[x] /\ stats[x] \in Nat
      BY <1>9, <2>1
    <3>3. QED
      BY <1>7, <1>10, <2>1, <3>1, <3>2
  <2>2. CASE x = "textTokens"
    <3>1. Share(tok, x) = count
      BY <1>6, <1>7, <2>2 DEF Share, Counts
    <3>2. tags[x] = stats[x] /\ stats[x] \in Nat
      BY <1>9, <2>2
    <3>3. QED
      BY <1>7, <1>10, <2>2, <3>1, <3>2
  <2>3. CASE x \notin {"textTokens", "textBytes"}
    <3>1. Share(tok, x) = IF x \in {"tags"} THEN 1 ELSE 0
      BY <1>1, <1>3, <1>4, <1>6, <2>3 DEF Share, Counts
    <3>2. QED
      BY <1>9, <1>10, <2>3, <3>1
  <2>4. QED
    BY <2>1, <2>2, <2>3
<1>12. QED
  BY <1>1, <1>2, <1>4, <1>10, <1>11, EmitMatches

LEMMA AttributeMatches ==
  ASSUME IInv, StatsMatch, EmitAttribute
  PROVE  StatsMatch'
<1> DEFINE s == PayloadStartIdx
           e == PayloadEndIdx(s + 1)
           Tok(type, key) == Token(type, i, e + 1, Span(s + 1, e), key)
           counted == Counted({"attributes"})
<1>1. Busy /\ AttributeIssue = <<>>
  BY DEF EmitAttribute, Action
<1>2. PICK type \in {"flag", "keyvalue"}, key \in {NoKey, Span(i + 1, s)} :
        Emit(Tok(type, key), counted, <<>>)
  BY DEF EmitAttribute
<1> DEFINE tok == Tok(type, key)
<1>3. /\ tok \in TokenRecord /\ TokenOK(tok) /\ tok.pos = i
      /\ IsAttribute(tok) /\ ~IsText(tok) /\ ~IsTag(tok)
  BY <1>1, AttributeTokenFacts
<1>4. Emit(tok, counted, <<>>)
  BY <1>2
<1> HIDE DEF tok
<1>5. ASSUME NEW x \in StatName PROVE counted[x] = stats[x] + Share(tok, x)
  <2>1. Share(tok, x) = IF x \in {"attributes"} THEN 1 ELSE 0
    BY <1>3 DEF Share, Counts
  <2>2. QED
    BY <1>1, <2>1, CountedShare
<1>6. counted \in [StatName -> Nat]
  BY <1>1, CountedShare DEF StatName
<1> HIDE DEF counted
<1>7. QED
  BY <1>1, <1>3, <1>4, <1>5, <1>6, EmitMatches

LEMMA FinishMatches ==
  ASSUME IInv, StatsMatch, Finish
  PROVE  StatsMatch'
<1> DEFINE after == tokens \o PlainText(n)
<1>1. /\ ~done /\ tokens' = after /\ stats' = WithPlainText(n, stats)
      /\ dict' = dict /\ n' = n
  BY DEF Finish, n
<1>2. n \in Nat /\ n <= n /\ textStart \in Nat /\ textStart <= n
  BY LenProperties DEF IInv, ScanOK, n
<1>3. stats \in [StatName -> Nat] /\ DOMAIN stats = StatName
  BY DEF IInv, StatsBounded
<1>4. DOMAIN stats' = StatName
  <2>1. WithPlainText(n, stats) \in [StatName -> Nat]
    BY <1>2, <1>3, PlainTextAdded
  <2>2. QED
    BY <1>1, <2>1
<1>5. ASSUME NEW x \in StatName PROVE stats'[x] = Total(tokens, x)'
  <2>1. /\ WithPlainText(n, stats)[x] = stats[x] + TextShare(n, x)
        /\ Total(after, x) = Total(tokens, x) + TextShare(n, x)
    BY <1>1, <1>2, <1>3, PlainTextShare
  <2> HIDE DEF after
  <2>2. Total(tokens, x)' = Total(after, x)
    BY <1>1, TotalStays
  <2>3. QED
    BY <1>1, <1>3, <2>1, <2>2 DEF StatsMatch
<1>6. QED
  BY <1>4, <1>5 DEF StatsMatch

LEMMA NextMatches ==
  IInv /\ StatsMatch /\ [Next]_vars => StatsMatch'
<1> SUFFICES ASSUME IInv, StatsMatch, [Next]_vars PROVE StatsMatch'
  OBVIOUS
<1>1. ASSUME dict' = dict, input' = input, tokens' = tokens, stats' = stats PROVE StatsMatch'
  <2>1. n' = n
    BY <1>1 DEF n
  <2>2. \A x : Total(tokens, x)' = Total(tokens, x)
    BY <1>1, <2>1, TotalStays
  <2>3. QED
    BY <1>1, <2>2 DEF StatsMatch
<1>2. CASE EmitCloseTag
  BY <1>2, CloseTagMatches
<1>3. CASE EmitNonGreedy
  BY <1>3, NonGreedyMatches
<1>4. CASE EmitGreedy
  BY <1>4, GreedyMatches
<1>5. CASE EmitAttribute
  BY <1>5, AttributeMatches
<1>6. CASE Finish
  BY <1>6, FinishMatches
<1>7. CASE \/ PlainByte \/ SkipInvalidTriggerTag \/ SkipUnclassified \/ SkipOpenTagBeforeEOL
           \/ SkipCloseTagAfterStart \/ SkipInfraWord \/ SkipUnclosedOpenTag
           \/ EscapeAtEOL \/ Escape \/ SkipAttribute
  <2>1. dict' = dict /\ input' = input /\ tokens' = tokens /\ stats' = stats
    BY <1>7 DEF PlainByte, SkipInvalidTriggerTag, SkipUnclassified, SkipOpenTagBeforeEOL,
         SkipCloseTagAfterStart, SkipInfraWord, SkipUnclosedOpenTag, EscapeAtEOL, Escape,
         SkipAttribute, ValidTag, Action, Busy, Skip
  <2>2. QED
    BY <1>1, <2>1
<1>8. CASE UNCHANGED vars
  BY <1>1, <1>8 DEF vars
<1>9. QED
  BY <1>2, <1>3, <1>4, <1>5, <1>6, <1>7, <1>8 DEF Next

(* The statistics are those of the tokens: of each kind as many as were     *)
(* emitted, and as many bytes of text as the text tokens and the contents  *)
(* of greedy tags have between them.                                       *)
THEOREM StatsCountTokens == Spec => []StatsMatch
<1>1. Init => StatsMatch
  <2> SUFFICES ASSUME Init PROVE StatsMatch
    OBVIOUS
  <2>1. tokens = <<>> /\ stats = [x \in StatName |-> 0]
    BY DEF Init, StatName
  <2>2. \A x : Total(<<>>, x) = 0
    <3>1. TextIn(<<>>) = {} /\ \A x : {k \in 1..Len(<<>>) : Counts(<<>>[k], x)} = {}
      BY DEF TextIn
    <3>2. QED
      BY <3>1, FS_EmptySet DEF Total
  <2>3. QED
    BY <2>1, <2>2 DEF StatsMatch
<1>2. QED
  BY <1>1, NextMatches, TokenizerInvariant, PTL DEF Spec

-----------------------------------------------------------------------------
(* Escapes before tokens *)

(* What matched is the start of the sequence. *)
LEMMA MatchedBytes ==
  ASSUME NEW p \in Nat, NEW to \in Nat, p < to, NEW seq \in Seq(Byte)
  PROVE  \A j \in 0..MatchedAt(p, to, seq) - 1 : At(p + j) = seq[j + 1]
<1> DEFINE top == Smaller(Len(seq), to - p)
           S == {k \in 0..top : \A j \in 0..k - 1 : At(p + j) = seq[j + 1]}
<1>1. top \in Nat
  BY LenProperties DEF Smaller
<1>2. MatchedAt(p, to, seq) = Max(S)
  BY DEF MatchedAt
<1> HIDE DEF top
<1>3. 0 \in S /\ S \in SUBSET 0..top
  BY <1>1
<1>4. Max(S) \in S
  <2> HIDE DEF S
  <2>1. QED
    BY <1>1, <1>3, MaxFacts
<1>5. QED
  BY <1>2, <1>4

(* What is found stands there; a single symbol is found where the search    *)
(* began, if it stands there.                                              *)
LEMMA FoundBytes ==
  ASSUME NEW from \in Nat, NEW to \in Nat, from < to,
         NEW seq \in Seq(Byte), seq # <<>>, At(from) = seq[1],
         NEW f, f = LongestCommonSubPrefix(from, to, seq)
  PROVE  /\ f.idx \in from..to - 1 /\ f.length \in 1..Len(seq) /\ f.idx + f.length <= to
         /\ \A j \in 0..f.length - 1 : At(f.idx + j) = seq[j + 1]
         /\ f.length = 1 => f.idx = from
<1> DEFINE places == {p \in from..to - 1 : At(p) = seq[1]}
           matches == {MatchedAt(p, to, seq) : p \in places}
           length == Max({0} \cup matches)
           best == {p \in places : MatchedAt(p, to, seq) = length}
<1>1. f.length = length /\ f.idx = IF places = {} THEN -1 ELSE Min(best)
  BY DEF LongestCommonSubPrefix
<1>2. /\ f.length \in 0..Len(seq)
      /\ f.length > 0 => f.idx # -1
      /\ f.idx = -1 \/ (f.idx \in from..to - 1 /\ f.idx + f.length <= to)
      /\ f.length > 0
  <2>1. from \in from..to - 1
    OBVIOUS
  <2>2. QED
    BY <2>1, FoundFacts
<1>3. from \in places
  OBVIOUS
<1>4. \A p \in places : p \in Nat /\ p < to /\ MatchedAt(p, to, seq) \in 0..Len(seq)
  <2>1. \A p \in places : p \in Nat /\ p < to
    OBVIOUS
  <2> HIDE DEF places
  <2>2. QED
    BY <2>1, MatchedFacts
<1>5. length \in {0} \cup matches /\ \A y \in {0} \cup matches : length >= y
  <2>1. {0} \cup matches \in SUBSET 0..Len(seq) /\ {0} \cup matches # {} /\ Len(seq) \in Nat
    <3> HIDE DEF places
    <3>1. QED
      BY <1>4, LenProperties
  <2> HIDE DEF matches
  <2>2. QED
    BY <2>1, MaxFacts
<1> HIDE DEF length
<1>6. length \in matches
  BY <1>1, <1>2, <1>5
<1>7. best # {} /\ best \in SUBSET Nat
  <2>1. PICK p \in places : length = MatchedAt(p, to, seq)
    BY <1>6
  <2> HIDE DEF places
  <2>2. QED
    BY <1>4, <2>1
<1>8. Min(best) \in best /\ \A p \in best : Min(best) <= p
  <2> HIDE DEF best
  <2>1. QED
    BY <1>7, MinFacts
<1>9. f.idx = Min(best)
  BY <1>1, <1>3
<1>10. f.idx \in places /\ MatchedAt(f.idx, to, seq) = f.length
  BY <1>1, <1>8, <1>9
<1>11. \A j \in 0..f.length - 1 : At(f.idx + j) = seq[j + 1]
  <2>1. f.idx \in Nat /\ f.idx < to
    BY <1>4, <1>10
  <2>2. QED
    BY <1>10, <2>1, MatchedBytes
<1>12. f.length = 1 => f.idx = from
  <2> SUFFICES ASSUME f.length = 1 PROVE f.idx = from
    OBVIOUS
  <2>1. MatchedAt(from, to, seq) >= 1
    BY MatchedFacts
  <2>2. MatchedAt(from, to, seq) \in matches
    BY <1>3
  <2> HIDE DEF matches
  <2>3. length >= MatchedAt(from, to, seq)
    BY <1>5, <2>2
  <2>4. MatchedAt(from, to, seq) = length
    BY <1>1, <1>3, <1>4, <2>1, <2>3
  <2>5. from \in best
    BY <1>3, <2>4
  <2> HIDE DEF best
  <2>6. f.idx <= from
    BY <1>8, <1>9, <2>5
  <2>7. QED
    BY <1>2, <2>6
<1>13. QED
  BY <1>2, <1>11, <1>12

(* The last symbol that is passed over as part of a tag is one of the tag's.*)
Short(t) == Len(t.seq) < MaxTagLen

LEMMA OpenedLast ==
  ASSUME Scanning, dict.action[At(i)] = "tag", Short(Tagged)
  PROVE  At(i + Opened(Tagged).width - 1) \in Range(Tagged.seq)
<1> DEFINE seq == Tagged.seq
           len == Len(seq)
           width == Opened(Tagged).width
<1>1. n \in Nat /\ i \in 0..n - 1 /\ Tagged \in Tag /\ Registered(Tagged, At(i))
  BY HereFacts
<1>2. seq \in Seq(Byte) /\ seq # <<>> /\ seq[1] = At(i)
  BY <1>1 DEF Tag, Registered
<1>3. len \in Nat /\ len >= 1 /\ len < 4
  BY <1>2, LenProperties, EmptySeq DEF Short, MaxTagLen
<1>4. len = 1 => width = 1
  BY DEF Opened, Prepared
<1> DEFINE to    == Smaller(n, i + len)
           found == LongestCommonSubPrefix(i, to, seq)
<1>5. len # 1 => width = found.length
  BY DEF Opened, CheckMultiCharTagSeq, Prepared
<1> SUFFICES At(i + width - 1) \in Range(seq)
  OBVIOUS
<1> HIDE DEF seq, width
<1>6. \A k \in 1..len : seq[k] \in Range(seq)
  BY <1>2, LenProperties DEF Range
<1>7. CASE len = 1
  <2>1. i + 1 - 1 = i /\ 1 \in 1..len
    BY <1>1, <1>3
  <2>2. QED
    BY <1>2, <1>4, <1>6, <1>7, <2>1
<1>8. CASE len # 1
  <2> DEFINE idx == found.idx
  <2> HIDE DEF to
  <2>1. to \in Nat /\ i < to /\ to <= i + len /\ i \in Nat
    BY <1>1, <1>3 DEF Smaller, to
  <2> HIDE DEF found, idx, len
  <2>2. /\ idx \in i..to - 1 /\ width \in 1..len /\ idx + width <= to
        /\ \A j \in 0..width - 1 : At(idx + j) = seq[j + 1]
        /\ width = 1 => idx = i
    BY <1>2, <1>5, <1>8, <2>1, FoundBytes DEF found, idx, len
  <2> DEFINE j == i + width - 1 - idx
  <2>3. j \in 0..width - 1 /\ j + 1 \in 1..len /\ idx + j = i + width - 1
    BY <1>1, <1>3, <2>1, <2>2
  <2> HIDE DEF j
  <2>4. At(i + width - 1) = seq[j + 1]
    BY <2>2, <2>3
  <2>5. QED
    BY <1>6, <2>3, <2>4
<1>9. QED
  BY <1>7, <1>8

LEMMA BodyLast ==
  ASSUME Scanning, dict.action[At(i)] = "tag", Short(Tagged), Opens(Tagged), ~Body(Tagged).closed
  PROVE  At(i + Body(Tagged).width - 1) \in Range(Tagged.seq)
<1> DEFINE b == Opened(Tagged)
<1>1. n \in Nat /\ i \in 0..n - 1 /\ Tagged \in Tag /\ Registered(Tagged, At(i))
      /\ dict.limits \in SetLimits
  BY HereFacts
<1>2. b \in Bounds /\ At(i + b.width - 1) \in Range(Tagged.seq)
  BY OpenedFacts, OpenedLast DEF OpenedAt, Within
<1>3. Tagged.seq \in Seq(Byte) /\ Tagged.seq # <<>> /\ Tagged.seq[1] = At(i)
  BY <1>1 DEF Tag, Registered
<1>4. At(i) \in Range(Tagged.seq)
  <2>1. 1 \in DOMAIN Tagged.seq
    BY <1>3, LenProperties, EmptySeq
  <2>2. QED
    BY <1>3, <2>1 DEF Range
<1> HIDE DEF b
<1>5. CASE Tagged.rule # "TagVsContent"
  <2>1. Body(Tagged) = CheckCloseTag(Tagged, b)
    BY <1>5 DEF Body, b
  <2>2. CheckCloseTag(Tagged, b).width = b.width
    BY <1>2 DEF CheckCloseTag, Unclosed, Bounds
  <2>3. QED
    BY <1>2, <2>1, <2>2
<1>6. CASE Tagged.rule = "TagVsContent"
  <2>1. Body(Tagged) = CheckTagVsContent(b)
    BY <1>6 DEF Body, b
  <2> DEFINE limit == dict.limits.maxKeyLen
             width == CheckTagVsContent(b).width
  <2>2. limit \in Nat /\ limit >= 1
    BY <1>1 DEF SetLimits
  <2>3. Run(i) \in 1..n - i /\ \A j \in 0..Run(i) - 1 : At(i + j) = At(i)
    BY <1>1, RunFacts
  <2>4. width = Smaller(Run(i), limit) \/ (Run(i) > limit /\ width = limit)
    BY <1>2 DEF CheckTagVsContent, Unclosed, Bounds
  <2> HIDE DEF width, limit
  <2>5. width \in 1..Run(i)
    BY <2>2, <2>3, <2>4 DEF Smaller
  <2>6. width - 1 \in 0..Run(i) - 1 /\ i + (width - 1) = i + width - 1
    BY <1>1, <2>3, <2>5
  <2>7. At(i + width - 1) = At(i)
    BY <2>3, <2>6
  <2>8. QED
    BY <1>4, <2>1, <2>7 DEF width
<1>7. QED
  BY <1>5, <1>6

(* Of tokens laid end to end: none of them stands behind an escape symbol   *)
(* that is not escaped.                                                    *)
Protected(toks) ==
  \A k \in 2..Len(toks) :
    IsText(toks[k - 1]) => ~IsEscaped(toks[k].pos, toks[k - 1].pos)

ShortTags == \A b \in Byte : Len(dict.tags[b].seq) < MaxTagLen

(* The text that is pending has not ended in an escape symbol.              *)
Unescaped ==
  EscapeStands /\ ShortTags =>
    /\ Protected(tokens)
    /\ i < n => ~IsEscaped(i, textStart)

LEMMA AppendProtected ==
  ASSUME NEW toks \in Seq(TokenRecord), NEW tok \in TokenRecord, Protected(toks),
         toks # <<>> /\ IsText(Last(toks)) => ~IsEscaped(tok.pos, Last(toks).pos)
  PROVE  Protected(Append(toks, tok))
<1> DEFINE all == Append(toks, tok)
<1>1. /\ Len(toks) \in Nat /\ Len(all) = Len(toks) + 1 /\ all[Len(toks) + 1] = tok
      /\ \A k \in 1..Len(toks) : all[k] = toks[k]
  BY AppendProperties, LenProperties
<1> HIDE DEF all
<1>2. ASSUME NEW k \in 2..Len(all), IsText(all[k - 1])
      PROVE  ~IsEscaped(all[k].pos, all[k - 1].pos)
  <2>1. CASE k <= Len(toks)
    <3>1. k \in 2..Len(toks) /\ all[k] = toks[k] /\ all[k - 1] = toks[k - 1]
      BY <1>1, <2>1
    <3>2. QED
      BY <1>2, <3>1 DEF Protected
  <2>2. CASE k = Len(toks) + 1
    <3>1. toks # <<>> /\ k - 1 = Len(toks) /\ all[k - 1] = toks[Len(toks)] /\ all[k] = tok
      BY <1>1, <2>2
    <3>2. Last(toks) = all[k - 1]
      BY <3>1 DEF Last
    <3>3. QED
      BY <1>2, <3>1, <3>2
  <2>3. QED
    BY <1>1, <2>1, <2>2
<1>3. QED
  BY <1>2 DEF Protected, all

(* The pending text follows a token that is no text. *)
LEMMA PlainTextProtected ==
  ASSUME IInv, ~done, Protected(tokens), NEW end \in Nat, textStart <= end,
         NEW toks, toks = tokens \o PlainText(end)
  PROVE  /\ toks \in Seq(TokenRecord) /\ Protected(toks)
         /\ toks # <<>> /\ IsText(Last(toks)) => Last(toks).pos = textStart
<1> DEFINE tok == TextToken(textStart, end)
<1>1. tokens \in Seq(TokenRecord) /\ textStart \in Nat /\ (tokens # <<>> => ~IsText(Last(tokens)))
  BY LenProperties DEF IInv, ScanOK, TextsApart, n
<1>2. CASE PlainText(end) = <<>>
  <2>1. toks = tokens
    BY <1>1, <1>2
  <2>2. QED
    BY <1>1, <2>1
<1>3. CASE PlainText(end) # <<>>
  <2>1. PlainText(end) = <<tok>>
    BY <1>3 DEF PlainText
  <2>2. tok \in TokenRecord
    <3>1. Span(textStart, end) \in SpanRecord /\ Span(0, 0) \in SpanRecord /\ end - textStart \in Nat
      BY <1>1 DEF Span, SpanRecord
    <3>2. QED
      BY <1>1, <3>1 DEF TextToken, Token, NoKey, TokenRecord
  <2>3. tok.pos = textStart
    BY DEF TextToken, Token
  <2> HIDE DEF tok
  <2>4. toks = Append(tokens, tok)
    BY <1>1, <2>1, <2>2
  <2>5. Protected(toks)
    BY <1>1, <2>2, <2>4, AppendProtected
  <2>6. toks \in Seq(TokenRecord) /\ Last(toks) = tok
    BY <1>1, <2>2, <2>4, AppendProperties, LenProperties DEF Last
  <2>7. QED
    BY <2>3, <2>5, <2>6
<1>4. QED
  BY <1>2, <1>3

LEMMA ProtectionStays ==
  ASSUME dict' = dict, input' = input
  PROVE  /\ EscapeStands' <=> EscapeStands
         /\ ShortTags' <=> ShortTags
         /\ n' = n
<1>1. n' = n
  BY DEF n
<1>2. QED
  BY <1>1 DEF EscapeStands, ShortTags, Range

(* A step that hands out no token passes no escape symbol but a whole pair.  *)
LEMMA SkipProtects ==
  ASSUME IInv, Unescaped, Busy, NEW stride \in Nat \ {0}, NEW w, Skip(stride, w),
         EscapeStands /\ ShortTags /\ i + stride < n => ~IsEscaped(i + stride, textStart)
  PROVE  Unescaped'
<1>1. /\ dict' = dict /\ input' = input /\ tokens' = tokens /\ textStart' = textStart
      /\ i' = i + stride
  BY DEF Busy, Skip
<1>2. \A p, from : IsEscaped(p, from)' <=> IsEscaped(p, from)
  BY <1>1, EscapesStay
<1>3. Protected(tokens) => Protected(tokens)'
  BY <1>1, <1>2 DEF Protected, IsText
<1>4. (EscapeStands' <=> EscapeStands) /\ (ShortTags' <=> ShortTags) /\ n' = n
  BY <1>1, ProtectionStays
<1>5. IsEscaped(i, textStart)' <=> IsEscaped(i + stride, textStart)
  BY <1>1, <1>2
<1>6. QED
  BY <1>1, <1>3, <1>4, <1>5 DEF Unescaped

(* A plain symbol at the end of the skip leaves nothing escaped. *)
LEMMA LastPlain ==
  ASSUME IInv, Busy, NEW stride \in Nat \ {0}, At(i + stride - 1) # dict.escape
  PROVE  ~IsEscaped(i + stride, textStart)
<1> DEFINE end == i + stride
<1>1. i \in Nat /\ textStart \in Nat /\ textStart <= i
  BY InvScanning
<1>2. end \in Nat /\ textStart <= end /\ At(end - 1) # dict.escape
  BY <1>1
<1> HIDE DEF end
<1>3. ~IsEscaped(end, textStart)
  BY <1>1, <1>2, EscapedStep
<1>4. QED
  BY <1>3 DEF end

(* Behind a token the text begins anew. *)
LEMMA EmitProtects ==
  ASSUME IInv, Unescaped, Busy, NEW tok \in TokenRecord, tok.pos = i, NEW counted, NEW w,
         Emit(tok, counted, w)
  PROVE  Unescaped'
<1> DEFINE toks == tokens \o PlainText(i)
<1>1. /\ dict' = dict /\ input' = input /\ tokens' = toks \o <<tok>>
      /\ i' = tok.pos + tok.width /\ textStart' = tok.pos + tok.width
  BY DEF Busy, Emit
<1>2. i \in 0..n - 1 /\ n \in Nat /\ textStart \in 0..i /\ ~done
  BY InvScanning
<1>3. (EscapeStands' <=> EscapeStands) /\ (ShortTags' <=> ShortTags) /\ n' = n
  BY <1>1, ProtectionStays
<1>4. \A p, from : IsEscaped(p, from)' <=> IsEscaped(p, from)
  BY <1>1, EscapesStay
<1> SUFFICES ASSUME EscapeStands, ShortTags
             PROVE  Protected(tokens)' /\ ~IsEscaped(i, textStart)'
  BY <1>3 DEF Unescaped
<1>5. Protected(tokens) /\ ~IsEscaped(i, textStart)
  BY <1>2 DEF Unescaped
<1> HIDE DEF toks
<1>6. /\ toks \in Seq(TokenRecord) /\ Protected(toks)
      /\ toks # <<>> /\ IsText(Last(toks)) => Last(toks).pos = textStart
  <2>1. i \in Nat /\ textStart <= i
    BY <1>2
  <2>2. QED
    BY <1>2, <1>5, <2>1, PlainTextProtected DEF toks
<1>7. Protected(Append(toks, tok))
  BY <1>5, <1>6, AppendProtected
<1>8. tokens' = Append(toks, tok)
  BY <1>1, <1>6
<1>9. Protected(tokens)'
  BY <1>4, <1>7, <1>8 DEF Protected, IsText
<1>10. ~IsEscaped(i, textStart)'
  <2> DEFINE end == tok.pos + tok.width
  <2>1. end \in Nat
    BY <1>2 DEF TokenRecord
  <2> HIDE DEF end
  <2>2. ~IsEscaped(end, end)
    BY <2>1, EscapedStep
  <2>3. QED
    BY <1>1, <1>4, <2>2 DEF end
<1>11. QED
  BY <1>9, <1>10

(* A symbol that is not the escape's, or one of a tag's, does not escape. *)
LEMMA NotEscaping ==
  ASSUME IInv, Busy, EscapeStands
  PROVE  /\ dict.action[At(i)] = "escape" <=> At(i) = dict.escape
         /\ dict.escape \notin Range(Tagged.seq)
         /\ ShortTags => Short(Tagged)
<1>1. At(i) \in Byte
  BY InvScanning, HereFacts
<1>2. QED
  BY <1>1 DEF EscapeStands, ShortTags, Short, Tagged

LEMMA TagSkipsProtect ==
  ASSUME IInv, Unescaped,
         \/ SkipInvalidTriggerTag \/ SkipUnclassified \/ SkipOpenTagBeforeEOL
         \/ SkipCloseTagAfterStart \/ SkipInfraWord \/ SkipUnclosedOpenTag
  PROVE  Unescaped'
<1> DEFINE b == Opened(Tagged)
           body == Body(Tagged)
<1>1. Busy /\ dict.action[At(i)] = "tag"
  BY DEF SkipInvalidTriggerTag, SkipUnclassified, SkipOpenTagBeforeEOL,
         SkipCloseTagAfterStart, SkipInfraWord, SkipUnclosedOpenTag, ValidTag, Action
<1>2. Scanning /\ i \in Nat
  BY <1>1, InvScanning
<1>3. b.width \in Nat \ {0}
  BY <1>1, <1>2, OpenedFacts DEF OpenedAt, Within, Bounds
<1>4. EscapeStands /\ ShortTags => At(i + b.width - 1) # dict.escape
  BY <1>1, <1>2, NotEscaping, OpenedLast
<1>5. EscapeStands => At(i + 1 - 1) # dict.escape
  <2>1. i + 1 - 1 = i
    BY <1>2
  <2>2. QED
    BY <1>1, <2>1, NotEscaping
<1> HIDE DEF b
<1>6. ASSUME NEW w, Skip(b.width, w) PROVE Unescaped'
  BY <1>1, <1>3, <1>4, <1>6, LastPlain, SkipProtects
<1>7. ASSUME NEW w, Skip(1, w) PROVE Unescaped'
  <2>1. 1 \in Nat \ {0}
    OBVIOUS
  <2>2. QED
    BY <1>1, <1>5, <1>7, <2>1, LastPlain, SkipProtects
<1>8. CASE SkipInvalidTriggerTag
  BY <1>6, <1>8 DEF SkipInvalidTriggerTag, b
<1>9. CASE SkipUnclassified
  BY <1>7, <1>9 DEF SkipUnclassified
<1>10. CASE SkipOpenTagBeforeEOL
  BY <1>6, <1>10 DEF SkipOpenTagBeforeEOL, b
<1>11. CASE SkipCloseTagAfterStart
  BY <1>6, <1>11 DEF SkipCloseTagAfterStart, b
<1>12. CASE SkipInfraWord
  BY <1>7, <1>12 DEF SkipInfraWord
<1>13. CASE SkipUnclosedOpenTag
  <2>1. Opens(Tagged) /\ ~body.closed /\ \E w : Skip(body.width, w)
    BY <1>13 DEF SkipUnclosedOpenTag
  <2>2. body.width \in Nat \ {0}
    BY <1>1, <1>2, <2>1, BodyFacts DEF Within, Bounds
  <2>3. EscapeStands /\ ShortTags => At(i + body.width - 1) # dict.escape
    BY <1>1, <1>2, <2>1, NotEscaping, BodyLast
  <2> HIDE DEF body
  <2>4. QED
    BY <1>1, <2>1, <2>2, <2>3, LastPlain, SkipProtects
<1>14. QED
  BY <1>8, <1>9, <1>10, <1>11, <1>12, <1>13

LEMMA ByteSkipsProtect ==
  ASSUME IInv, Unescaped, PlainByte \/ SkipAttribute \/ EscapeAtEOL \/ Escape
  PROVE  Unescaped'
<1>1. Busy
  BY DEF PlainByte, SkipAttribute, EscapeAtEOL, Escape, Action
<1>2. n \in Nat /\ i \in 0..n - 1 /\ textStart \in 0..i
  BY <1>1, InvScanning
<1>3. 1 \in Nat \ {0} /\ 2 \in Nat \ {0} /\ i + 1 - 1 = i
  BY <1>2
<1>4. CASE PlainByte \/ SkipAttribute
  <2>1. dict.action[At(i)] # "escape" /\ \E w : Skip(1, w)
    BY <1>4 DEF PlainByte, SkipAttribute, Action
  <2>2. EscapeStands => At(i + 1 - 1) # dict.escape
    BY <1>1, <1>3, <2>1, NotEscaping
  <2>3. QED
    BY <1>1, <1>3, <2>1, <2>2, LastPlain, SkipProtects
<1>5. CASE EscapeAtEOL
  <2>1. i + 1 = n /\ \E w : Skip(1, w)
    BY <1>5 DEF EscapeAtEOL
  <2>2. ~(i + 1 < n)
    BY <1>2, <2>1
  <2>3. QED
    BY <1>1, <1>3, <2>1, <2>2, SkipProtects
<1>6. CASE Escape
  <2>1. dict.action[At(i)] = "escape" /\ \E w : Skip(2, w)
    BY <1>6 DEF Escape, Action
  <2>2. EscapeStands /\ ShortTags => ~IsEscaped(i + 2, textStart)
    <3> SUFFICES ASSUME EscapeStands, ShortTags PROVE ~IsEscaped(i + 2, textStart)
      OBVIOUS
    <3>1. ~IsEscaped(i, textStart) /\ At(i) = dict.escape
      BY <1>1, <1>2, <2>1, NotEscaping DEF Unescaped
    <3>2. /\ i + 1 \in Nat /\ i + 2 \in Nat /\ textStart \in Nat /\ i + 1 > textStart
          /\ textStart <= i + 1 /\ textStart <= i + 2 /\ i + 2 - 1 = i + 1 /\ i + 1 - 1 = i
      BY <1>2
    <3> DEFINE p == i + 1
               q == i + 2
    <3>3. /\ p \in Nat /\ p > textStart /\ textStart <= p /\ At(p - 1) = dict.escape
          /\ ~IsEscaped(p - 1, textStart)
      BY <1>2, <3>1, <3>2
    <3>4. q \in Nat /\ textStart <= q /\ q - 1 = p
      BY <1>2, <3>2
    <3> HIDE DEF p, q
    <3>5. IsEscaped(p, textStart)
      BY <3>2, <3>3, EscapedStep
    <3>6. ~IsEscaped(q, textStart)
      BY <3>2, <3>4, <3>5, EscapedStep
    <3>7. QED
      BY <3>6 DEF q
  <2>3. QED
    BY <1>1, <1>3, <2>1, <2>2, SkipProtects
<1>7. QED
  BY <1>4, <1>5, <1>6

LEMMA EmitsProtect ==
  ASSUME IInv, Unescaped, EmitCloseTag \/ EmitNonGreedy \/ EmitGreedy \/ EmitAttribute
  PROVE  Unescaped'
<1>1. ASSUME NEW b, ValidTag, Within(b), NEW counted, NEW w, Emit(TagToken(b), counted, w),
             IsOpening(Tagged) /\ Tagged.greed = "NonGreedy" => b.end < n
      PROVE  Unescaped'
  <2>1. TagToken(b) \in TokenRecord /\ TagToken(b).pos = i /\ Busy
    BY <1>1, TagTokenFacts, ValidTagFacts
  <2>2. QED
    BY <1>1, <2>1, EmitProtects
<1>2. CASE EmitCloseTag
  <2>1. /\ ValidTag /\ IsClosing(Tagged)
        /\ Emit(TagToken(Opened(Tagged)), Counted({"tags", "close"}), <<>>)
    BY <1>2 DEF EmitCloseTag
  <2>2. Within(Opened(Tagged)) /\ ~IsOpening(Tagged)
    BY <2>1, ValidTagFacts DEF OpenedAt, IsClosing, IsOpening
  <2>3. QED
    BY <1>1, <2>1, <2>2
<1>3. CASE EmitNonGreedy
  <2> DEFINE counted == Counted({"tags", IF IsUniversal(Tagged) THEN "universal" ELSE "open"})
             b == Opened(Tagged)
  <2>1. ValidTag /\ Opens(Tagged) /\ Emit(TagToken(b), counted, <<>>)
    BY <1>3 DEF EmitNonGreedy
  <2>2. Within(b) /\ b.end = i + b.width /\ n \in Nat /\ i \in Nat /\ b.width \in Nat
    BY <2>1, ValidTagFacts DEF OpenedAt
  <2>3. IsOpening(Tagged) => ~AtEOL(b)
    BY <2>1, ValidTagFacts, DictionaryAssumption DEF Opens, IsOpening, IsUniversal, Registered
  <2> HIDE DEF b, counted
  <2>4. IsOpening(Tagged) => b.end < n
    BY <2>2, <2>3 DEF AtEOL
  <2>5. QED
    BY <1>1, <2>1, <2>2, <2>4
<1>4. CASE EmitGreedy
  <2> DEFINE b == Body(Tagged)
  <2>1. /\ ValidTag /\ Opens(Tagged) /\ Tagged.greed # "NonGreedy"
        /\ \E counted, w : Emit(TagToken(b), counted, w)
    BY <1>4 DEF EmitGreedy
  <2>2. Within(b)
    BY <2>1, ValidTagFacts, BodyFacts
  <2> HIDE DEF b
  <2>3. QED
    BY <1>1, <2>1, <2>2
<1>5. CASE EmitAttribute
  <2> DEFINE s == PayloadStartIdx
             e == PayloadEndIdx(s + 1)
             payload == Span(s + 1, e)
             flag == Token("flag", i, e + 1, payload, NoKey)
             keyvalue == Token("keyvalue", i, e + 1, payload, Span(i + 1, s))
  <2>1. /\ Busy /\ AttributeIssue = <<>>
        /\ \E counted, w : Emit(flag, counted, w) \/ Emit(keyvalue, counted, w)
    BY <1>5 DEF EmitAttribute, Action
  <2>2. "flag" \in {"flag", "keyvalue"} /\ "keyvalue" \in {"flag", "keyvalue"}
        /\ NoKey \in {NoKey, Span(i + 1, s)} /\ Span(i + 1, s) \in {NoKey, Span(i + 1, s)}
    OBVIOUS
  <2>3. flag \in TokenRecord /\ flag.pos = i
    <3> HIDE DEF flag
    <3>1. flag = Token("flag", i, e + 1, payload, NoKey)
      BY DEF flag
    <3>2. QED
      BY <2>1, <2>2, <3>1, AttributeTokenFacts
  <2>4. keyvalue \in TokenRecord /\ keyvalue.pos = i
    <3> HIDE DEF keyvalue
    <3>1. keyvalue = Token("keyvalue", i, e + 1, payload, Span(i + 1, s))
      BY DEF keyvalue
    <3>2. QED
      BY <2>1, <2>2, <3>1, AttributeTokenFacts
  <2> HIDE DEF flag, keyvalue
  <2>5. QED
    BY <2>1, <2>3, <2>4, EmitProtects
<1>6. QED
  BY <1>2, <1>3, <1>4, <1>5

LEMMA FinishProtects ==
  ASSUME IInv, Unescaped, Finish
  PROVE  Unescaped'
<1>1. /\ dict' = dict /\ input' = input /\ tokens' = tokens \o PlainText(n)
      /\ i' = i /\ textStart' = textStart /\ ~done /\ i >= n
  BY DEF Finish
<1>2. n \in Nat /\ i \in 0..n /\ textStart \in 0..i
  BY LenProperties DEF IInv, ScanOK, n
<1>3. (EscapeStands' <=> EscapeStands) /\ (ShortTags' <=> ShortTags) /\ n' = n
  BY <1>1, ProtectionStays
<1>4. \A p, from : IsEscaped(p, from)' <=> IsEscaped(p, from)
  BY <1>1, EscapesStay
<1> SUFFICES ASSUME EscapeStands, ShortTags PROVE Protected(tokens)'
  BY <1>1, <1>2, <1>3 DEF Unescaped
<1>5. textStart <= n /\ Protected(tokens)
  BY <1>2 DEF Unescaped
<1> DEFINE toks == tokens \o PlainText(n)
<1> HIDE DEF toks
<1>6. Protected(toks)
  BY <1>1, <1>2, <1>5, PlainTextProtected DEF toks
<1>7. tokens' = toks
  BY <1>1 DEF toks
<1>8. QED
  BY <1>4, <1>6, <1>7 DEF Protected, IsText

LEMMA NextProtects ==
  IInv /\ Unescaped /\ [Next]_vars => Unescaped'
<1> SUFFICES ASSUME IInv, Unescaped, [Next]_vars PROVE Unescaped'
  OBVIOUS
<1>1. CASE UNCHANGED vars
  <2>1. /\ dict' = dict /\ input' = input /\ tokens' = tokens /\ i' = i
        /\ textStart' = textStart
    BY <1>1 DEF vars
  <2>2. (EscapeStands' <=> EscapeStands) /\ (ShortTags' <=> ShortTags) /\ n' = n
    BY <2>1, ProtectionStays
  <2>3. \A p, from : IsEscaped(p, from)' <=> IsEscaped(p, from)
    BY <2>1, EscapesStay
  <2>4. Protected(tokens)' <=> Protected(tokens)
    BY <2>1, <2>3 DEF Protected, IsText
  <2>5. QED
    BY <2>1, <2>2, <2>3, <2>4 DEF Unescaped
<1>2. QED
  BY <1>1, TagSkipsProtect, ByteSkipsProtect, EmitsProtect, FinishProtects DEF Next

(* Under a dictionary whose escape symbol is in no tag, with no tag of the   *)
(* greatest length, nothing behind a symbol that escapes starts a token.   *)
THEOREM EscapesHold == Spec => []EscapedIsText
<1>1. Init => Unescaped
  <2> SUFFICES ASSUME Init PROVE Unescaped
    OBVIOUS
  <2>1. tokens = <<>> /\ i = 0 /\ textStart = 0
    BY DEF Init
  <2>2. Protected(tokens)
    BY <2>1 DEF Protected
  <2>3. ~IsEscaped(0, 0)
    BY EscapedStep
  <2>4. QED
    BY <2>1, <2>2, <2>3 DEF Unescaped
<1>2. IInv /\ Unescaped => EscapedIsText
  <2> SUFFICES ASSUME IInv, Unescaped, ShortTags, EscapeStands,
                      NEW k \in DOMAIN tokens, k > 1, IsText(tokens[k - 1])
               PROVE  ~IsEscaped(tokens[k].pos, tokens[k - 1].pos)
    BY DEF EscapedIsText, EscapeProtects, ShortTags
  <2>1. k \in 2..Len(tokens)
    BY LenProperties DEF IInv, ScanOK
  <2>2. QED
    BY <2>1 DEF Unescaped, Protected
<1>3. QED
  BY <1>1, <1>2, NextProtects, TokenizerInvariant, PTL DEF Spec
=============================================================================
