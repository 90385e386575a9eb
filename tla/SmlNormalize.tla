---------------------------- MODULE SmlNormalize ----------------------------
(***************************************************************************)
(* normalizeRenderTree of src/sml: what Munch does to the tree that        *)
(* Serialize made before it is rendered as HTML.  Attributes that a tag    *)
(* does not take are stripped, and what was wrong with them is reported.   *)
(*                                                                         *)
(* Every node of the tree has an attribute slice of its own, as long as    *)
(* what it may hold.  A tree is its nodes in the order in which they are   *)
(* visited, parents before their children.  The attributes of a link are   *)
(* filtered in place: `allowed' is the front of the very array that is     *)
(* being read, and the rel that comes with a _blank target is appended to  *)
(* it as well, whether or not there is room before the next attribute.     *)
(***************************************************************************)
EXTENDS Integers, Sequences, FiniteSets, SequencesExt

CONSTANTS
  Value,   \* the classes of attribute values in use, a subset of AnyValue
  Tree     \* the trees to be normalized

(* What validateHref, validateTarget and validateTitle tell apart; "missing" *)
(* is a flag, an empty value or one with control characters, "relative" a   *)
(* reference without scheme, "web" one with a scheme that is allowed.       *)
AnyValue == {"missing", "web", "relative", "protocol-relative", "unparsable", "other-scheme",
             "_blank", "_self", "other-target", "short", "long"}

(* Names are compared without regard to case.  `pos' is where the attribute *)
(* was in the input.                                                       *)
LinkAttribute == {"href", "target", "title"}
Attribute == [name : LinkAttribute \cup {"rel", "other"}, value : Value, pos : Nat]
Kind == {"text", "simple", "link"}
Node == [kind : Kind, attributes : Seq(Attribute)]

ASSUME SmlAssumption ==
  /\ Value \subseteq AnyValue
  /\ Tree \subseteq Seq(Node)
  /\ \A t \in Tree : \A n \in DOMAIN t : \A k \in DOMAIN t[n].attributes :
       t[n].attributes[k].pos = k

VARIABLES
  given,    \* the tree as Serialize made it
  tree,     \* the tree as it is now
  node,     \* the node being normalized
  i,        \* normalizeLink: the attribute it looks at
  allowed,  \* normalizeLink: how many it has put at the front
  has,      \* normalizeLink: the names of those, rel aside
  issues    \* what has been reported, in order

vars == <<given, tree, node, i, allowed, has, issues>>

-----------------------------------------------------------------------------
(* Attributes *)

Allowed == [href   |-> {"web", "relative"},
            target |-> {"_blank", "_self"},
            title  |-> {"short"}]
Valid(a) == a.value \in Allowed[a.name]

Rel == [name |-> "rel", value |-> "noopener noreferrer", pos |-> 0]
AcceptedAlone(a) == <<a>>
Accepted(a) == IF a.name = "target" /\ a.value = "_blank" THEN <<a, Rel>> ELSE <<a>>

(* append to a slice of length len that shares the array: an element beyond *)
(* the array's end makes it longer, and then nothing is left to be read.   *)
Pushed(array, len, new) ==
  SubSeq(array, 1, len) \o new \o SubSeq(array, len + Len(new) + 1, Len(array))

Issue(code, n, a) == [code |-> code, node |-> n, pos |-> a.pos]

-----------------------------------------------------------------------------
(* normalizeNode, normalizeTagNode *)

Current == tree[node]
Visiting(kinds) == node <= Len(tree) /\ Current.kind \in kinds

NextNode ==
  /\ node' = node + 1
  /\ i' = 1 /\ allowed' = 0 /\ has' = {}
  /\ UNCHANGED given

(* normalizeText, normalizeSimpleTag *)
StripNode ==
  /\ Visiting({"text", "simple"})
  /\ tree' = [tree EXCEPT ![node].attributes = <<>>]
  /\ issues' = issues \o [k \in DOMAIN Current.attributes |->
                            Issue("ATTRIBUTE_NOT_ALLOWED", node, Current.attributes[k])]
  /\ NextNode

-----------------------------------------------------------------------------
(* normalizeLink *)

(* The loop is over when all three names are there. *)
TwoAreThere == Cardinality(has) = 2
AllAreThere == has = LinkAttribute
Reading   == Visiting({"link"}) /\ i <= Len(given[node].attributes) /\ ~AllAreThere
Here      == Current.attributes[i]
Wanted(a) == a.name \in LinkAttribute \ has

SkipAttribute ==
  /\ Reading /\ ~Wanted(Here)
  /\ i' = i + 1
  /\ UNCHANGED <<given, tree, node, allowed, has, issues>>

RefuseAttribute ==
  /\ Reading /\ Wanted(Here) /\ ~Valid(Here)
  /\ issues' = Append(issues, Issue("ATTRIBUTE_INVALID_PAYLOAD", node, Here))
  /\ i' = i + 1
  /\ UNCHANGED <<given, tree, node, allowed, has>>

AcceptAttribute ==
  /\ Reading /\ Wanted(Here) /\ Valid(Here)
  /\ tree' = [tree EXCEPT ![node].attributes = Pushed(@, allowed, Accepted(Here))]
  /\ allowed' = allowed + Len(Accepted(Here))
  /\ has' = has \cup {Here.name}
  /\ i' = i + 1
  /\ UNCHANGED <<given, node, issues>>

FinishLink ==
  /\ Visiting({"link"}) /\ ~Reading
  /\ tree' = [tree EXCEPT ![node].attributes = SubSeq(@, 1, allowed)]
  /\ UNCHANGED issues
  /\ NextNode

-----------------------------------------------------------------------------
Init ==
  /\ given \in Tree
  /\ tree = given
  /\ node = 1 /\ i = 1 /\ allowed = 0 /\ has = {}
  /\ issues = <<>>

Next == StripNode \/ SkipAttribute \/ RefuseAttribute \/ AcceptAttribute \/ FinishLink

Spec == Init /\ [][Next]_vars

-----------------------------------------------------------------------------
(* Properties *)

Before(n) == n < node

Clean(n) ==
  LET out == tree[n].attributes
      kept(k) == out[k] = given[n].attributes[out[k].pos] /\ Valid(out[k])
  IN /\ tree[n].kind # "link" => out = <<>>
     /\ \A k, l \in DOMAIN out : out[k].name = out[l].name => k = l
     /\ \A k \in DOMAIN out :
          IF out[k] = Rel
          THEN k > 1 /\ out[k - 1].name = "target" /\ out[k - 1].value = "_blank"
          ELSE /\ out[k].name \in LinkAttribute /\ kept(k)
               /\ out[k].value = "_blank" => k < Len(out) /\ out[k + 1] = Rel

(* What the renderer writes into the tags of a finished node, whatever was  *)
(* overwritten on the way: nothing but valid attributes of a link as they   *)
(* were given, no name twice (HTML takes the first), and rel with _blank,   *)
(* right behind it, and only there.                                        *)
Rendered == \A n \in DOMAIN tree : Before(n) => Clean(n)

(* Where the rel of a link overwrites an attribute that has not been read:  *)
(* behind a _blank target with nothing left out before it.                 *)
Overwritten(n) ==
  {k \in 2..Len(given[n].attributes) :
     LET a == given[n].attributes
     IN /\ a[k - 1].name = "target" /\ a[k - 1].value = "_blank"
        /\ \A l \in 1..(k - 1) : a[l].name \in LinkAttribute /\ Valid(a[l])
        /\ \A l, m \in 1..(k - 1) : a[l].name = a[m].name => l = m}

FirstValid(n, k) ==
  LET a == given[n].attributes
  IN /\ a[k].name \in LinkAttribute /\ Valid(a[k]) /\ k \notin Overwritten(n)
     /\ \A l \in 1..(k - 1) : a[l].name = a[k].name => l \in Overwritten(n) \/ ~Valid(a[l])
Repetition(n, k) ==
  \E l \in 1..(k - 1) :
    FirstValid(n, l) /\ given[n].attributes[l].name = given[n].attributes[k].name
Reported(n, k) == \E r \in DOMAIN issues : issues[r].node = n /\ issues[r].pos = k
Used(n, k)     == \E m \in DOMAIN tree[n].attributes : tree[n].attributes[m].pos = k
Faulty(n, k) ==
  LET a == given[n].attributes[k]
  IN a.name \in LinkAttribute /\ ~Valid(a) /\ ~Repetition(n, k) /\ k \notin Overwritten(n)
Settled(n) ==
  \A k \in DOMAIN given[n].attributes :
    IF tree[n].kind = "link"
    THEN (Used(n, k) <=> FirstValid(n, k)) /\ (Reported(n, k) <=> Faulty(n, k))
    ELSE Reported(n, k)
InOrder ==
  \A r, s \in DOMAIN issues : r < s =>
    \/ issues[r].node < issues[s].node
    \/ issues[r].node = issues[s].node /\ issues[r].pos < issues[s].pos

(* eater.go:31: of several attributes with the same name the first is used; *)
(* it is the first that is valid.  Whatever else was given is a repetition, *)
(* has a name links do not take, has been reported, once and in order - or  *)
(* was overwritten by a rel.                                               *)
FirstValidKept == (\A n \in DOMAIN tree : Before(n) => Settled(n)) /\ InOrder
=============================================================================
