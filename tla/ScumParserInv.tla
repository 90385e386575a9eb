---------------------------- MODULE ScumParserInv ----------------------------
(***************************************************************************)
(* The inductive invariant of ScumParser: how the three stacks mirror the  *)
(* open tags and telescope over the input, which part of the attribute     *)
(* arena a node owns, and which limits have been warned of.                *)
(***************************************************************************)
EXTENDS ScumParser

TokenType   == Tag \cup {"text", "attribute"}
TokenRecord == [type : TokenType, pos : Nat, width : Nat \ {0}]
NodeRecord  ==
  [type : {"root", "text", "tag"}, tag : Tag \cup {NoTag}, start : Nat, end : Nat,
   first : Nat, last : Nat, next : Nat, kids : Nat, attrStart : Nat, attrLen : Nat]
AttributeRecord == [pos : Nat, of : Nat \ {0}]
Report    == [issue : Issue, pos : Nat]
Collector ==
  [policy : Policy, maxWarnings : Nat, list : Seq(Report), overflowed : BOOLEAN,
   droppedCount : Nat, firstDropPos : Nat]
LimitIssue == {"MaxNodesExceeded", "MaxAttributesExceeded", "MaxParseDepthExceeded"}
Running   == phase \in {"tokens", "closing"}

-----------------------------------------------------------------------------
(* Types *)

RecordsOK ==
  /\ phase \in Phase /\ setting \in Setting
  /\ input \in Seq(TokenRecord)
  /\ nodes \in Seq(NodeRecord) /\ nodes # <<>>
  /\ attributes \in Seq(AttributeRecord)
  /\ skip \in [Tag -> Nat] /\ maxDepth \in Nat \ {0}

LinksOK ==
  /\ \A i \in NodeIds : nodes[i].first \in 0..Len(nodes) /\ nodes[i].last \in 0..Len(nodes)
                        /\ nodes[i].next \in 0..Len(nodes)
  /\ \A k \in 1..Len(attributes) : attributes[k].of \in NodeIds
  /\ lastNode \in NodeIds

(* The three stacks are parallel. *)
StacksOK ==
  /\ breadcrumbs \in Seq(Nat) /\ cumWidth \in Seq(Nat) /\ stack \in Seq(Tag)
  /\ Len(cumWidth) = Len(breadcrumbs) /\ Len(stack) + 1 = Len(breadcrumbs)
  /\ \A k \in 1..Len(breadcrumbs) : breadcrumbs[k] \in NodeIds

WarningsOK ==
  /\ warns \in Collector /\ raised \in Seq(Report)
  /\ WarningsReported

-----------------------------------------------------------------------------
(* Spans *)

(* No node reaches behind what has been read. *)
NodesInside ==
  \A i \in NodeIds : nodes[i].start <= nodes[i].end /\ nodes[i].end <= Position

(* What an open tag spans so far ends before the next open tag starts, and  *)
(* what the innermost one spans has been read.                             *)
Telescope ==
  /\ nodes[1].start = 0 /\ breadcrumbs[1] = 1
  /\ \A k \in 1..(Len(breadcrumbs) - 1) :
       nodes[breadcrumbs[k]].start + cumWidth[k] <= nodes[breadcrumbs[k + 1]].start
  /\ nodes[Parent].start + Last(cumWidth) <= Position

-----------------------------------------------------------------------------
(* Attributes *)

AttributesOf(i) == {k \in DOMAIN attributes : attributes[k].of = i}

RangesOK ==
  \A i \in NodeIds :
    /\ nodes[i].attrLen = Cardinality(AttributesOf(i))
    /\ nodes[i].attrLen > 0 =>
         nodes[i].attrStart >= 1
         /\ nodes[i].attrStart + nodes[i].attrLen - 1 <= Len(attributes)

-----------------------------------------------------------------------------
(* Limits *)

AttributeTokens == Cardinality({i \in DOMAIN input : input[i].type = "attribute"})

ArenasOK ==
  /\ setting.maxNodes > 0 => Len(nodes) <= setting.maxNodes
  /\ setting.maxAttributes > 0 => Len(attributes) <= setting.maxAttributes
  /\ Len(attributes) <= AttributeTokens

LimitsReported ==
  /\ warnedLimits \subseteq LimitIssue
  /\ \A limit \in LimitIssue :
       /\ Issues(limit) <= 1
       /\ Running => (Issues(limit) = 1 <=> limit \in warnedLimits)
  /\ Issues("MaxAttributesExceeded") = 1 <=> Len(attributes) < AttributeTokens
  /\ Issues("MaxNodesExceeded") = 1 => Len(nodes) = setting.maxNodes

-----------------------------------------------------------------------------
(* What was left out *)

(* Tokens, nodes and warnings lie in what has been read; an open tag has    *)
(* its node, and what is to be skipped was warned of.                      *)
PlacesOK ==
  /\ \A k \in 1..Len(input) :
       /\ input[k].pos < Position
       /\ input[k].type \in Greedy => PayloadStart(input[k]) < Position
  /\ \A j \in 2..Len(nodes) : nodes[j].start < Position
  /\ \A i \in 1..Len(raised) :
       /\ raised[i].pos <= Position
       /\ raised[i].issue = "OpenCloseTagMismatch" => raised[i].pos < Position

OpenNodes ==
  \A k \in 1..Len(stack) :
    breadcrumbs[k + 1] \in 2..Len(nodes) /\ nodes[breadcrumbs[k + 1]].tag = stack[k]

LeavingOut == {"DuplicateNestedTag", "MaxNodesExceeded", "MaxParseDepthExceeded"}
SkipsExplained ==
  \A t \in Tag : skip[t] > 0 =>
    t \in Skippable /\ \E i \in 1..Len(raised) : raised[i].issue \in LeavingOut

Answered(tok) == \A p \in Wanted(tok) : NodeOrReason(tok, p)
OmissionsOK ==
  /\ PlacesOK /\ OpenNodes /\ SkipsExplained
  /\ \A k \in 1..Len(input) : Answered(input[k])
  /\ \A i \in 1..Len(raised) : LimitReached(raised[i])

-----------------------------------------------------------------------------
(* Open tags *)

(* The set of open tags is what is on the stack, and no tag is on it twice. *)
OpenedOnce ==
  /\ openedTags = {stack[k] : k \in 1..Len(stack)}
  /\ \A k, l \in 1..Len(stack) : stack[k] = stack[l] => k = l

(* The depth the statistics report is one the limit allows. *)
DepthKept ==
  /\ Len(stack) <= maxDepth
  /\ Running /\ setting.maxParseDepth > 0 => maxDepth <= setting.maxParseDepth
  /\ phase = "done" /\ setting.maxParseDepth > 0 => totals.maxDepth <= setting.maxParseDepth

-----------------------------------------------------------------------------
(* Nesting *)

Occurs(open, t)    == \E k \in 1..Len(open) : open[k] = t
Before(open, t, u) == \E k \in 1..Len(open) : open[k] = t /\ \A j \in 1..k : open[j] # u
OpenFor(open, c)   == {k \in 1..Len(open) : CloseID[open[k]] = c}

(* A reading without a fault holds tags that pair, and one closer is that   *)
(* of one tag, which is open only once if it is universal.                 *)
ReadingOK(open) ==
  /\ open \in Seq(Tag)
  /\ \A k \in 1..Len(open) : Pairs(open[k])
  /\ \A j, k \in 1..Len(open) :
       CloseID[open[j]] = CloseID[open[k]] /\ j # k =>
         open[j] = open[k] /\ ~IsUniversal(open[j])

(* The stack is the reading without the tags that are open further out; as  *)
(* soon as one is missing, no other gets in any more.                      *)
StackReads(open, stk, room) ==
  /\ \A i \in 1..Len(stk) : Occurs(open, stk[i])
  /\ \A i, j \in 1..Len(stk) : i < j => Before(open, stk[i], stk[j])
  /\ \A t \in Tag : Occurs(open, t) /\ ~Occurs(stk, t) =>
       /\ \A i \in 1..Len(stk) : Before(open, stk[i], t)
       /\ ~room

(* Of each closer, as many will be skipped as tags that it closes are open  *)
(* in the reading and not on the stack.                                    *)
SkipReads(open, stk, skp) ==
  \A c \in Tag :
    skp[c] + (IF OpenFor(stk, c) = {} THEN 0 ELSE 1) = Cardinality(OpenFor(open, c))

RoomToOpen == RoomForNode /\ RoomForDepth
NothingRefused ==
  Issues("MisplacedClosingTag") = 0 /\ Issues("OpenCloseTagMismatch") = 0

NestingOK ==
  phase = "tokens" /\ Nesting(input) # Fault =>
    /\ ReadingOK(Nesting(input))
    /\ StackReads(Nesting(input), stack, RoomToOpen) /\ SkipReads(Nesting(input), stack, skip)
    /\ NothingRefused

-----------------------------------------------------------------------------
(* Statistics *)

(* While the parse goes on, what was counted and what will be taken over    *)
(* from the tokens is what the tree has; no open node is a text.           *)
TotalsRecord ==
  [maxDepth : Nat, textByteLen : Int, totalTextNodes : Nat, totalTagNodes : Nat]

TalliesOK ==
  /\ textNodes \in Nat /\ totals \in TotalsRecord
  /\ \A k \in 1..Len(breadcrumbs) : nodes[breadcrumbs[k]].type # "text"
  /\ Running => totalTagNodes = Cardinality(TagNodes(nodes))
  /\ ~GreedyClosers => \A g \in Greedy : skip[g] = 0
  /\ Running /\ "MaxNodesExceeded" \notin warnedLimits /\ ~GreedyClosers =>
       /\ textNodes + TextTokens = Cardinality(TextNodes(nodes))
       /\ totals.textByteLen + TextByteLen = Total([i \in 1..Len(nodes) |-> NodeBytes(nodes[i])])
  /\ TextAccounted

-----------------------------------------------------------------------------
(* The tree *)

(* kid[i] are the children of a node in the order of the sibling links,     *)
(* which is that of the arena, and par[j] is the node whose child j is.    *)
Family(ns, kid, par) ==
  /\ \A i \in 1..Len(ns) :
       /\ ns[i].kids = 0 <=> ns[i].last = 0
       /\ ns[i].kids > 0 => kid[i][1] = ns[i].first /\ kid[i][ns[i].kids] = ns[i].last
       /\ \A k \in 1..ns[i].kids : kid[i][k] \in 2..Len(ns) /\ par[kid[i][k]] = i
       /\ \A k \in 1..(ns[i].kids - 1) :
            /\ kid[i][k] # ns[i].last /\ ns[kid[i][k]].next = kid[i][k + 1]
            /\ kid[i][k] < kid[i][k + 1]
  /\ \A j \in 2..Len(ns) :
       par[j] \in 1..(j - 1) /\ \E k \in 1..ns[par[j]].kids : kid[par[j]][k] = j

(* around[j] are the tags around a node and its own, but no greedy ones. *)
Inside(tags, tag) == IF tag \in {NoTag} \cup Greedy THEN tags ELSE Append(tags, tag)
Surround(ns, par, around) ==
  /\ \A j \in 1..Len(ns) : around[j] \in Seq(Tag)
  /\ around[1] = <<>>
  /\ \A j \in 2..Len(ns) : around[j] = Inside(around[par[j]], ns[j].tag)

(* Around an open tag is what the stack has below it and the tag itself. *)
AroundOpen(around, crumbs, stk) ==
  \A k \in 1..Len(crumbs) :
    Len(around[crumbs[k]]) = k - 1 /\ \A l \in 1..(k - 1) : around[crumbs[k]][l] = stk[l]

AroundKept(n, around, depth) ==
  /\ \A j \in 1..n : IsInjective(around[j]) /\ Len(around[j]) <= depth
  /\ depth = 1 \/ \E j \in 1..n : Len(around[j]) = depth

(* What lies between a node and its parent is below the parent as well, and *)
(* so is all that has been added since a tag was opened.                   *)
Preorder(n, crumbs, par) ==
  /\ \A j \in 2..n : \A y \in (par[j] + 1)..(j - 1) : par[j] <= par[y]
  /\ \A k \in 1..Len(crumbs) : \A y \in (crumbs[k] + 1)..n : crumbs[k] <= par[y]
  /\ \A k, l \in 1..Len(crumbs) : k < l => crumbs[k] < crumbs[l]

TreeFits(ns, crumbs, stk, depth, kid, par, around) ==
  /\ Family(ns, kid, par) /\ Surround(ns, par, around)
  /\ AroundOpen(around, crumbs, stk) /\ AroundKept(Len(ns), around, depth)
  /\ Preorder(Len(ns), crumbs, par)

(* Texts lie in the arena in the order of the input, and do not overlap. *)
TextsInOrder(ns) ==
  \A i, j \in 1..Len(ns) :
    i < j /\ ns[i].type = "text" /\ ns[j].type = "text" => ns[i].end <= ns[j].start

TreeOK ==
  \E kid, par, around : TreeFits(nodes, breadcrumbs, stack, Deepest, kid, par, around)

IInv ==
  /\ RecordsOK /\ LinksOK /\ StacksOK /\ WarningsOK
  /\ NodesInside /\ Telescope /\ RangesOK
  /\ ArenasOK /\ LimitsReported
  /\ OpenedOnce /\ DepthKept
  /\ PoolIsClean
=============================================================================
