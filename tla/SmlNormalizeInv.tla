-------------------------- MODULE SmlNormalizeInv --------------------------
(***************************************************************************)
(* The inductive invariant of SmlNormalize: the array of the link that is  *)
(* being normalized has a front that is filtered, and a rest that has not  *)
(* been read and is still as it was given, but for one rel.                *)
(***************************************************************************)
EXTENDS SmlNormalize

WorkAttribute == Attribute \cup {Rel}
WorkNode == [kind : Kind, attributes : Seq(WorkAttribute)]
Report   == [code : {"ATTRIBUTE_NOT_ALLOWED", "ATTRIBUTE_INVALID_PAYLOAD"}, node : Nat, pos : Nat]

ShapeOK ==
  /\ given \in Tree /\ tree \in Seq(WorkNode) /\ Len(tree) = Len(given)
  /\ \A n \in 1..Len(given) : tree[n].kind = given[n].kind /\ (node < n => tree[n] = given[n])
  /\ node \in 1..(Len(given) + 1)
  /\ i \in Nat \ {0} /\ allowed \in Nat /\ has \subseteq LinkAttribute

FinishedOK == \A n \in 1..Len(given) : Before(n) => Clean(n) /\ Settled(n)

IssuesOK ==
  /\ issues \in Seq(Report) /\ InOrder
  /\ \A r \in 1..Len(issues) :
       Before(issues[r].node) \/ (issues[r].node = node /\ issues[r].pos < i)

-----------------------------------------------------------------------------
(* A link n: the attributes up to `at' have been read, `array' starts with   *)
(* `len' that are allowed, and these have the names `names'.               *)

Source(n) == given[n].attributes
Blank(a)  == a.name = "target" /\ a.value = "_blank"

(* Nothing is left out before k. *)
Straight(n, k) ==
  /\ \A l \in 1..(k - 1) : Source(n)[l].name \in LinkAttribute /\ Valid(Source(n)[l])
  /\ \A l, m \in 1..(k - 1) : Source(n)[l].name = Source(n)[m].name => l = m

(* Nothing has been left out, and the last attribute read was a _blank target. *)
Ahead(n, at) == at > 1 /\ Straight(n, at) /\ Blank(Source(n)[at - 1])

(* What is written stays behind what is read, but for the rel of that.      *)
Place(n, array, at, len, names) ==
  /\ at <= Len(Source(n)) + 1 /\ Len(Source(n)) <= Len(array) /\ len <= Len(array)
  /\ "target" \notin names =>
       /\ len <= at - 1 /\ (len = at - 1 <=> Straight(n, at))
       /\ Straight(n, at) => \A l \in 1..(at - 1) : Source(n)[l].name \in names
  /\ IF Ahead(n, at) THEN len = at ELSE len <= at - 1

Rest(n, array, at, len) ==
  \A j \in at..Len(Source(n)) : array[j] = IF j <= len THEN Rel ELSE Source(n)[j]

Names(n, at, names) ==
  /\ \A x \in names : \E k \in 1..(at - 1) : FirstValid(n, k) /\ Source(n)[k].name = x
  /\ \A k \in 1..(at - 1) :
       Source(n)[k].name \in LinkAttribute /\ Valid(Source(n)[k]) /\ k \notin Overwritten(n)
         => Source(n)[k].name \in names

Added(array, names, m) ==
  array[m] = Rel /\ m > 1 /\ Blank(array[m - 1]) /\ "target" \in names
Kept(n, array, at, len, names, m) ==
  /\ array[m].pos \in 1..(at - 1) /\ array[m] = Source(n)[array[m].pos]
  /\ FirstValid(n, array[m].pos) /\ array[m].name \in names
  /\ array[m].value = "_blank" => m < len /\ array[m + 1] = Rel
Filtered(n, array, at, len, names) ==
  /\ \A m \in 1..len : Added(array, names, m) \/ Kept(n, array, at, len, names, m)
  /\ \A k \in 1..(at - 1) : FirstValid(n, k) => \E m \in 1..len : array[m].pos = k
  /\ \A k, l \in 1..len : array[k].name = array[l].name => k = l

LinkFits(n, array, at, len, names) ==
  /\ Place(n, array, at, len, names) /\ Rest(n, array, at, len)
  /\ Names(n, at, names) /\ Filtered(n, array, at, len, names)

LinkOK ==
  /\ LinkFits(node, Current.attributes, i, allowed, has)
  /\ \A k \in 1..(i - 1) : Reported(node, k) <=> Faulty(node, k)
PlainOK == i = 1 /\ Current = given[node]

IInv ==
  /\ ShapeOK /\ FinishedOK /\ IssuesOK
  /\ node <= Len(given) => IF given[node].kind = "link" THEN LinkOK ELSE PlainOK
=============================================================================
