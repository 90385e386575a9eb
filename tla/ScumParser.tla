----------------------------- MODULE ScumParser -----------------------------
(***************************************************************************)
(* ParseInto of src/scum: the parser that turns the tokens of an input     *)
(* into a tree kept in an arena, in one pass, under the resource limits of *)
(* the dictionary, with parser state that a pool keeps between parses.     *)
(*                                                                         *)
(* Tokenize comes first in the code; here a token is chosen when the       *)
(* parser gets to it, among those that can follow.  A token is its type,   *)
(* its place and its width.  Nodes are numbered from 1, the root, so 0     *)
(* stands for the code's -1; input positions count from 0 as in the code.  *)
(***************************************************************************)
EXTENDS ScumWarnings, FiniteSets, SequencesExt

CONSTANTS
  Tag,             \* ids of the registered tags
  NoTag,           \* the id 0
  OpenID, CloseID, \* of each tag, NoTag where it has none
  Greedy,          \* tags with Greed above NonGreedy
  Width,           \* widths a token may have, by tag or "text" or "attribute"
  Setting,         \* limits and warnings policies that parses are run with
  MaxTokens        \* bound: tokens of an input

ASSUME ParserAssumption ==
  /\ NoTag \notin Tag \cup {"text", "attribute"}
  /\ Tag \cap {"text", "attribute"} = {}
  /\ OpenID \in [Tag -> Tag \cup {NoTag}] /\ CloseID \in [Tag -> Tag \cup {NoTag}]
  /\ Greedy \subseteq Tag
  /\ Width \in [Tag \cup {"text", "attribute"} -> SUBSET (Nat \ {0})]
  /\ \A w \in UNION {Width[g] : g \in Greedy} : w >= 2
  /\ Setting \subseteq [maxNodes : Nat, maxAttributes : Nat, maxParseDepth : Nat,
                        policy : Policy, maxWarnings : Nat]
  /\ MaxTokens \in Nat

VARIABLES
  phase,       \* of ParseInto
  setting,     \* limits and policy of this parse
  input,       \* the tokens consumed so far
  nodes,       \* AST.Nodes
  attributes,  \* AST.Attributes: where the token was, and the node it was meant for
  totals,      \* the statistics of the AST
  warns,       \* the Warnings of this parse
  raised,      \* every warning this parse has raised, listed or not
  breadcrumbs, cumWidth, stack,   \* the three parallel stacks
  skip,        \* closers to be discarded, by tag
  openedTags,  \* tags that are open
  maxDepth, lastNode, totalTagNodes, textNodes, warnedLimits

ast    == <<nodes, attributes, totals>>
places == <<breadcrumbs, cumWidth, stack, openedTags, maxDepth>>
pooled == <<places, skip, lastNode, totalTagNodes, textNodes, warnedLimits>>
vars   == <<phase, setting, input, ast, warns, raised, pooled>>

-----------------------------------------------------------------------------
(* Tags, tokens, nodes *)

IsUniversal(t) == CloseID[t] = t /\ OpenID[t] = t
IsOpening(t)   == CloseID[t] # NoTag /\ OpenID[t] = NoTag
IsClosing(t)   == OpenID[t] # NoTag /\ CloseID[t] = NoTag

Position == IF input = <<>> THEN 0 ELSE Last(input).pos + Last(input).width

(* The tokens the tokenizer may emit next.  Text up to the next special     *)
(* byte is one token, so texts do not touch.  A closing tag at index 0 is   *)
(* text, and so is an opening tag that ends the input.                     *)
CanFollow(type) ==
  /\ Len(input) < MaxTokens
  /\ type = "text" => input = <<>> \/ Last(input).type # "text"
  /\ type \in Tag \ Greedy => /\ IsClosing(type) => input # <<>>
                              /\ IsOpening(type) => Len(input) + 1 < MaxTokens
CanEnd == input # <<>> => ~(Last(input).type \in Tag \ Greedy /\ IsOpening(Last(input).type))

Tokens(types) ==
  UNION {{[type |-> y, pos |-> Position, width |-> w] : w \in Width[y]} :
         y \in {x \in types : CanFollow(x)}}

(* Greedy tags here open and close with one byte. *)
PayloadStart(tok) == tok.pos + 1
PayloadEnd(tok)   == tok.pos + tok.width - 1

Node(type, tag, start, end) ==
  [type |-> type, tag |-> tag, start |-> start, end |-> end,
   first |-> 0, last |-> 0, next |-> 0, kids |-> 0, attrStart |-> 0, attrLen |-> 0]
Root == Node("root", NoTag, 0, 0)

-----------------------------------------------------------------------------
(* The arenas *)

Parent == Last(breadcrumbs)

(* appendNode: node becomes the last child of parent. *)
Appended(ns, parent, node) ==
  LET i == Len(ns) + 1
      older == ns[parent].last
      linked == IF older = 0 THEN [ns EXCEPT ![parent].first = i]
                ELSE [ns EXCEPT ![older].next = i]
  IN Append([linked EXCEPT ![parent].kids = @ + 1, ![parent].last = i], node)

(* appendAttribute: the first one says where the node's attributes start. *)
RestartedRange(ns, i, place) ==
  [ns EXCEPT ![i].attrStart = place, ![i].attrLen = @ + 1]
AttributeRange(ns, i, place) ==
  [ns EXCEPT ![i].attrStart = IF ns[i].attrLen = 0 THEN place ELSE @, ![i].attrLen = @ + 1]

-----------------------------------------------------------------------------
(* Limits and warnings *)

RoomForNode      == setting.maxNodes = 0 \/ Len(nodes) < setting.maxNodes
RoomForAttribute == setting.maxAttributes = 0 \/ Len(attributes) < setting.maxAttributes
RoomForDepth     == setting.maxParseDepth = 0 \/ Len(stack) < setting.maxParseDepth

Warn(new) ==
  /\ warns' = AddAll(warns, new)
  /\ raised' = raised \o new

NoWarning == UNCHANGED <<warns, raised, warnedLimits>>

(* warnLimitOnce, after other warnings of the same token; each limit has a  *)
(* flag of its own.                                                        *)
WarnFirstLimit(issue, pos, earlier) ==
  /\ Warn(IF warnedLimits # {} THEN earlier ELSE Append(earlier, Warning(issue, pos)))
  /\ warnedLimits' = warnedLimits \cup {issue}
WarnLimit(issue, pos, earlier) ==
  /\ Warn(IF issue \in warnedLimits THEN earlier
          ELSE Append(earlier, Warning(issue, pos)))
  /\ warnedLimits' = warnedLimits \cup {issue}

-----------------------------------------------------------------------------
(* The parallel stacks *)

Top == IF stack = <<>> THEN NoTag ELSE Last(stack)

Widened(w) == [cumWidth EXCEPT ![Len(cumWidth)] = @ + w]

(* popCumWidth: what the closed tag spans goes into its parent too. *)
Popped(w) ==
  LET n == Len(cumWidth)
  IN [Front(cumWidth) EXCEPT ![n - 1] = @ + cumWidth[n] + w]

PopTagKeepingStack(w) ==
  /\ nodes' = [nodes EXCEPT ![Parent].end = nodes[Parent].start + Last(cumWidth) + w]
  /\ breadcrumbs' = Front(breadcrumbs)
  /\ cumWidth' = Popped(w)
  /\ openedTags' = openedTags \ {Top}
  /\ UNCHANGED <<stack, maxDepth>>
PopTag(w) ==
  /\ nodes' = [nodes EXCEPT ![Parent].end = nodes[Parent].start + Last(cumWidth) + w]
  /\ breadcrumbs' = Front(breadcrumbs)
  /\ cumWidth' = Popped(w)
  /\ stack' = Front(stack)
  /\ openedTags' = openedTags \ {Top}
  /\ UNCHANGED maxDepth

(* An opening tag is left out; its closer will have to be left out with it. *)
KeepCloser(t) == UNCHANGED skip
SkipCloser(t) == skip' = [skip EXCEPT ![CloseID[t]] = @ + 1]

-----------------------------------------------------------------------------
(* Text, attributes *)

AddText(tok, earlier) ==
  /\ cumWidth' = Widened(tok.width)
  /\ \/ /\ RoomForNode
        /\ nodes' = Appended(nodes, Parent, Node("text", NoTag, tok.pos, tok.pos + tok.width))
        /\ lastNode' = Len(nodes) + 1
        /\ Warn(earlier) /\ UNCHANGED warnedLimits
     \/ /\ ~RoomForNode
        /\ WarnLimit("MaxNodesExceeded", tok.pos, earlier)
        /\ UNCHANGED <<nodes, lastNode>>
  /\ UNCHANGED <<attributes, breadcrumbs, stack, openedTags, maxDepth, skip, totalTagNodes>>

Parsing == phase = "tokens" /\ UNCHANGED <<phase, setting>>

ProcessText ==
  \E tok \in Tokens({"text"}) :
    /\ Parsing /\ input' = Append(input, tok)
    /\ AddText(tok, <<>>)
    /\ UNCHANGED <<totals, textNodes>>

ProcessAttribute ==
  \E tok \in Tokens({"attribute"}) :
    /\ Parsing /\ input' = Append(input, tok)
    /\ \/ /\ RoomForAttribute
          /\ attributes' = Append(attributes, [pos |-> tok.pos, of |-> lastNode])
          /\ nodes' = AttributeRange(nodes, lastNode, Len(attributes) + 1)
          /\ NoWarning
       \/ /\ ~RoomForAttribute
          /\ WarnLimit("MaxAttributesExceeded", tok.pos, <<>>)
          /\ UNCHANGED <<attributes, nodes>>
    /\ UNCHANGED <<totals, places, skip, lastNode, totalTagNodes, textNodes>>

-----------------------------------------------------------------------------
(* Tags *)

(* A token that is left out in silence, or with a warning. *)
Discard == UNCHANGED <<ast, places, lastNode, totalTagNodes, textNodes, warnedLimits>>

ProcessSkipped ==
  \E tok \in Tokens({t \in Tag : skip[t] > 0}) :
    /\ Parsing /\ input' = Append(input, tok)
    /\ skip' = [skip EXCEPT ![tok.type] = @ - 1]
    /\ Discard /\ UNCHANGED <<warns, raised>>

(* The tag tokens that processTag passes on. *)
TagTokens(tags) == Tokens({t \in tags : skip[t] = 0})

GreedyNode ==
  \E tok \in TagTokens(Greedy) :
    /\ Parsing /\ input' = Append(input, tok)
    /\ cumWidth' = Widened(tok.width)
    /\ LET tag     == Node("tag", tok.type, tok.pos, tok.pos + tok.width)
           payload == Node("text", NoTag, PayloadStart(tok), PayloadEnd(tok))
           tagged  == Appended(nodes, Parent, tag)
           n       == Len(nodes) + 1
       IN \/ /\ RoomForNode /\ (setting.maxNodes = 0 \/ n < setting.maxNodes)
             /\ nodes' = Appended(tagged, n, payload)
             /\ lastNode' = n + 1
             /\ NoWarning
          \/ /\ RoomForNode /\ n = setting.maxNodes
             /\ nodes' = tagged
             /\ lastNode' = n
             /\ WarnLimit("MaxNodesExceeded", PayloadStart(tok), <<>>)
          \/ /\ ~RoomForNode
             /\ UNCHANGED <<nodes, lastNode>>
             /\ WarnLimit("MaxNodesExceeded", tok.pos, <<>>)
    /\ UNCHANGED <<attributes, totals, breadcrumbs, stack, openedTags, maxDepth, skip,
                   totalTagNodes, textNodes>>

(* Opening tags, and universal tags that are not the innermost open one.  A *)
(* tag that is open already, anywhere, is a duplicate.                     *)
IsOpenInnermost(t) == Top = t
IsOpenAnywhere(t) == t \in openedTags
Openers == {t \in Tag \ Greedy : IsOpening(t) \/ (IsUniversal(t) /\ Top # t)}

DuplicateNestedTag ==
  \E tok \in TagTokens(Openers) :
    /\ IsOpenAnywhere(tok.type)
    /\ Parsing /\ input' = Append(input, tok)
    /\ Warn(<<Warning("DuplicateNestedTag", tok.pos)>>)
    /\ SkipCloser(tok.type)
    /\ Discard

OpenTag ==
  \E tok \in TagTokens(Openers) :
    /\ ~IsOpenAnywhere(tok.type) /\ RoomForDepth /\ RoomForNode
    /\ Parsing /\ input' = Append(input, tok)
    /\ nodes' = Appended(nodes, Parent, Node("tag", tok.type, tok.pos, tok.pos + tok.width))
    /\ breadcrumbs' = Append(breadcrumbs, Len(nodes) + 1)
    /\ stack' = Append(stack, tok.type)
    /\ cumWidth' = Append(cumWidth, tok.width)
    /\ openedTags' = openedTags \cup {tok.type}
    /\ maxDepth' = IF Len(stack') > maxDepth THEN Len(stack') ELSE maxDepth
    /\ lastNode' = Len(nodes) + 1
    /\ totalTagNodes' = totalTagNodes + 1
    /\ NoWarning
    /\ UNCHANGED <<attributes, totals, skip, textNodes>>

(* Too deep, or no room for the node. *)
RefuseTag ==
  \E tok \in TagTokens(Openers) :
    /\ ~IsOpenAnywhere(tok.type) /\ ~(RoomForDepth /\ RoomForNode)
    /\ Parsing /\ input' = Append(input, tok)
    /\ WarnLimit(IF RoomForDepth THEN "MaxNodesExceeded" ELSE "MaxParseDepthExceeded",
                 tok.pos, <<>>)
    /\ cumWidth' = Widened(tok.width)
    /\ SkipCloser(tok.type)
    /\ UNCHANGED <<ast, breadcrumbs, stack, openedTags, maxDepth, lastNode, totalTagNodes,
                   textNodes>>

(* What the innermost open tag closes with. *)
Matches(t) == CloseID[Top] = t \/ OpenID[t] = Top
Closers == {t \in Tag \ Greedy : IsClosing(t)}

CloseTag ==
  \E tok \in TagTokens(Tag \ Greedy) :
    /\ Top # NoTag
    /\ \/ IsUniversal(tok.type) /\ Top = tok.type
       \/ IsClosing(tok.type) /\ Matches(tok.type)
    /\ Parsing /\ input' = Append(input, tok)
    /\ PopTag(tok.width)
    /\ lastNode' = Parent
    /\ NoWarning
    /\ UNCHANGED <<attributes, totals, skip, totalTagNodes, textNodes>>

MisplacedClosingTag ==
  \E tok \in TagTokens(Closers) :
    /\ Top = NoTag
    /\ Parsing /\ input' = Append(input, tok)
    /\ Warn(<<Warning("MisplacedClosingTag", tok.pos)>>)
    /\ Discard /\ UNCHANGED skip

(* The closer of another tag becomes text. *)
MismatchedClosingTag ==
  \E tok \in TagTokens(Closers) :
    /\ Top # NoTag /\ ~Matches(tok.type)
    /\ Parsing /\ input' = Append(input, tok)
    /\ totals' = [totals EXCEPT !.textByteLen = @ + tok.width]
    /\ textNodes' = textNodes + 1
    /\ AddText(tok, <<Warning("OpenCloseTagMismatch", tok.pos)>>)

-----------------------------------------------------------------------------
(* ParseInto *)

NoTotals == [maxDepth |-> 0, textByteLen |-> 0, totalTextNodes |-> 0, totalTagNodes |-> 0]
NothingSkipped == [t \in Tag |-> 0]

(* parserState.Reset, and newParserState. *)
ResetKeepingSkip == UNCHANGED skip
ResetSkip == skip' = NothingSkipped
Reset ==
  /\ ResetSkip
  /\ breadcrumbs' = <<1>> /\ cumWidth' = <<0>> /\ stack' = <<>>
  /\ openedTags' = {} /\ maxDepth' = 1 /\ lastNode' = 1
  /\ totalTagNodes' = 0 /\ textNodes' = 0 /\ warnedLimits' = {}

Fresh ==
  /\ skip = NothingSkipped
  /\ breadcrumbs = <<1>> /\ cumWidth = <<0>> /\ stack = <<>>
  /\ openedTags = {} /\ maxDepth = 1 /\ lastNode = 1
  /\ totalTagNodes = 0 /\ textNodes = 0 /\ warnedLimits = {}

(* A new AST, in old or new backing arrays, and a state from the pool.      *)
(* Tokenize may have warned of something before the first token is parsed. *)
TokenizerWarnings == {<<>>, <<Warning("UnexpectedEOL", 0)>>}

BeginParse ==
  /\ phase \in {"ready", "done"}
  /\ phase' = "tokens"
  /\ \E s \in Setting, early \in TokenizerWarnings :
       /\ setting' = s
       /\ warns' = AddAll(NewWarnings(s.policy, s.maxWarnings), early)
       /\ raised' = early
  /\ input' = <<>>
  /\ nodes' = <<Root>> /\ attributes' = <<>> /\ totals' = NoTotals
  /\ UNCHANGED pooled

EndOfInput ==
  /\ phase = "tokens" /\ CanEnd
  /\ phase' = "closing"
  /\ UNCHANGED <<setting, input, ast, warns, raised, pooled>>

(* One turn of the loop that closes what is still open. *)
ForceClose ==
  /\ phase = "closing" /\ Len(breadcrumbs) > 1
  /\ PopTag(0)
  /\ Warn(<<Warning("UnclosedTag", nodes[Parent].start)>>)
  /\ UNCHANGED <<phase, setting, input, attributes, totals, skip, lastNode, totalTagNodes,
                 textNodes, warnedLimits>>

(* TokenizerOutput.TextTokens and TextByteLen. *)
IsText(tok) ==
  tok.type = "text" \/ (tok.type \in Greedy /\ PayloadEnd(tok) > PayloadStart(tok))
WidthOfText(tok) == IF tok.type \in {"text"} \cup Greedy THEN tok.width ELSE 0
TextBytes(tok) ==
  IF tok.type = "text" THEN tok.width
  ELSE IF tok.type \in Greedy THEN PayloadEnd(tok) - PayloadStart(tok) ELSE 0
Total(numbers) ==
  LET sum[n \in 0..Len(numbers)] == IF n = 0 THEN 0 ELSE sum[n - 1] + numbers[n]
  IN sum[Len(numbers)]
TextTokens  == Cardinality({i \in 1..Len(input) : IsText(input[i])})
TextByteLen == Total([i \in 1..Len(input) |-> TextBytes(input[i])])

Finalize ==
  /\ phase = "closing" /\ Len(breadcrumbs) = 1
  /\ phase' = "done"
  /\ nodes' = [nodes EXCEPT ![1].end = Last(cumWidth)]
  /\ totals' = [maxDepth |-> maxDepth, textByteLen |-> totals.textByteLen + TextByteLen,
                totalTextNodes |-> textNodes + TextTokens, totalTagNodes |-> totalTagNodes]
  /\ Reset
  /\ UNCHANGED <<setting, input, attributes, warns, raised>>

Init ==
  /\ phase = "ready"
  /\ setting \in Setting
  /\ input = <<>> /\ raised = <<>>
  /\ nodes = <<Root>> /\ attributes = <<>> /\ totals = NoTotals
  /\ warns = NewWarnings(setting.policy, setting.maxWarnings)
  /\ Fresh

Next ==
  \/ BeginParse
  \/ ProcessText \/ ProcessAttribute
  \/ ProcessSkipped \/ GreedyNode \/ DuplicateNestedTag \/ OpenTag \/ RefuseTag
  \/ CloseTag \/ MisplacedClosingTag \/ MismatchedClosingTag
  \/ EndOfInput \/ ForceClose \/ Finalize

Spec == Init /\ [][Next]_vars

-----------------------------------------------------------------------------
(* The tree in the arena *)

NodeIds == 1..Len(nodes)

(* Children of i, first to last, along the sibling links. *)
Children(i) ==
  LET child[k \in 1..nodes[i].kids] ==
        IF k = 1 THEN nodes[i].first ELSE nodes[child[k - 1]].next
  IN child

IsParent(i, j) == \E k \in DOMAIN Children(i) : Children(i)[k] = j
ParentOf == [j \in 2..Len(nodes) |-> CHOOSE i \in 1..(j - 1) : IsParent(i, j)]

(* Tags around a node, the node itself included, but no greedy ones. *)
TagsAround ==
  LET parent == ParentOf
      around[j \in NodeIds] ==
        IF j = 1 THEN <<>>
        ELSE IF nodes[j].tag \in {NoTag} \cup Greedy THEN around[parent[j]]
        ELSE Append(around[parent[j]], nodes[j].tag)
  IN around

Issues(issue) == Cardinality({i \in DOMAIN raised : raised[i].issue = issue})

-----------------------------------------------------------------------------
(* Properties *)

Phase == {"ready", "tokens", "closing", "done"}
Issue == {"DuplicateNestedTag", "MisplacedClosingTag", "OpenCloseTagMismatch", "UnclosedTag",
          "MaxNodesExceeded", "MaxAttributesExceeded", "MaxParseDepthExceeded",
          "WarningsTruncated", "UnexpectedEOL"}

(* Every variable has its type, the three stacks are parallel, a tag and a  *)
(* width for every breadcrumb above the root, and openedTags is the stack. *)
TypeOK ==
  /\ phase \in Phase /\ setting \in Setting
  /\ \A i \in DOMAIN input : input[i].type \in Tag \cup {"text", "attribute"}
  /\ \A i \in NodeIds :
       /\ nodes[i].type \in {"root", "text", "tag"} /\ nodes[i].tag \in Tag \cup {NoTag}
       /\ {nodes[i].first, nodes[i].last, nodes[i].next} \subseteq {0} \cup NodeIds
       /\ {nodes[i].start, nodes[i].end, nodes[i].kids, nodes[i].attrStart,
           nodes[i].attrLen} \subseteq Nat
  /\ \A i \in DOMAIN attributes : attributes[i].of \in NodeIds
  /\ \A i \in DOMAIN warns.list : warns.list[i].issue \in Issue
  /\ Len(cumWidth) = Len(breadcrumbs) /\ Len(stack) + 1 = Len(breadcrumbs)
  /\ \A i \in DOMAIN breadcrumbs : breadcrumbs[i] \in NodeIds /\ cumWidth[i] \in Nat
  /\ \A i \in DOMAIN stack : stack[i] \in Tag
  /\ skip \in [Tag -> Nat] /\ openedTags = Range(stack)
  /\ lastNode \in NodeIds /\ maxDepth \in Nat

(* Nested tags with the same id have no effect: none is below another one,  *)
(* and the tree is as deep as MaxDepth says and the limit allows.          *)
NoTagInItself ==
  phase = "done" =>
    LET around == TagsAround
    IN /\ \A j \in NodeIds : IsInjective(around[j])
       /\ \A j \in NodeIds : Len(around[j]) <= totals.maxDepth
       /\ \E j \in NodeIds : Len(around[j]) = totals.maxDepth
                             \/ (totals.maxDepth = 1 /\ around[j] = <<>>)
       /\ setting.maxParseDepth > 0 => totals.maxDepth <= setting.maxParseDepth

(* Serialize and Text slice the input by spans and the attribute arena by   *)
(* ranges: they stay inside, whatever was skipped, demoted or force-closed. *)
InBounds ==
  /\ \A i \in NodeIds :
       /\ 0 <= nodes[i].start /\ nodes[i].start <= nodes[i].end
       /\ nodes[i].end <= Position
       /\ nodes[i].attrLen > 0 =>
            /\ nodes[i].attrStart >= 1
            /\ nodes[i].attrStart + nodes[i].attrLen - 1 <= Len(attributes)
       /\ nodes[i].attrLen = Cardinality({k \in DOMAIN attributes : attributes[k].of = i})

(* The statistics that Tokenize and the parser add up between them are      *)
(* those of the tree, unless nodes were left out or a greedy tag is the     *)
(* closer of a tag, and may have to be skipped with the text inside.       *)
TextNodes(ns) == {i \in 1..Len(ns) : ns[i].type = "text" /\ ns[i].end > ns[i].start}
TagNodes(ns)  == {i \in 1..Len(ns) : ns[i].type = "tag" /\ ns[i].tag \notin Greedy}
NodeBytes(n)  == IF n.type = "text" THEN n.end - n.start ELSE 0
GreedyClosers == \E t \in Tag \ Greedy : CloseID[t] \in Greedy
TextAccounted ==
  phase = "done" /\ Issues("MaxNodesExceeded") = 0 /\ ~GreedyClosers =>
    /\ totals.totalTextNodes = Cardinality(TextNodes(nodes))
    /\ totals.textByteLen = Total([i \in 1..Len(nodes) |-> NodeBytes(nodes[i])])
    /\ totals.totalTagNodes = Cardinality(TagNodes(nodes))

(* Where a token asks for a node: a closer that matches no open tag is text. *)
WarnedAt(issue, pos) == \E i \in DOMAIN raised : raised[i].issue = issue /\ raised[i].pos = pos
WarnedBy(issue, pos) == \E i \in DOMAIN raised : raised[i].issue = issue /\ raised[i].pos <= pos
MayOpen(t) == t \in Tag \ Greedy /\ (IsOpening(t) \/ IsUniversal(t))
Wanted(tok) ==
  IF tok.type \in Greedy THEN {tok.pos, PayloadStart(tok)}
  ELSE IF \/ tok.type = "text" \/ MayOpen(tok.type)
          \/ tok.type \in Tag /\ WarnedAt("OpenCloseTagMismatch", tok.pos)
       THEN {tok.pos} ELSE {}

(* What no limit is to blame for: a duplicate, a universal tag behind one   *)
(* of its kind, which it may close, a closer skipped with its opener.      *)
NodeStarts == {nodes[j].start : j \in NodeIds \ {1}}
Skippable  == {CloseID[t] : t \in Tag \ Greedy}
NeedsNoNode(tok) ==
  \/ /\ MayOpen(tok.type)
     /\ \/ WarnedAt("DuplicateNestedTag", tok.pos)
        \/ /\ IsUniversal(tok.type)
           /\ \E j \in NodeIds : nodes[j].tag = tok.type /\ nodes[j].start < tok.pos
  \/ /\ tok.type \in Skippable
     /\ \E issue \in {"DuplicateNestedTag", "MaxNodesExceeded", "MaxParseDepthExceeded"} :
          WarnedBy(issue, tok.pos)

(* limits.go: the arenas keep to their limits, and a limit is warned of     *)
(* once and exactly when something is left out because of it: what has no  *)
(* node is behind the warning of a limit, and a warning stands where a     *)
(* token wanted a node, with the arena full or as deep as it may get.      *)
Deepest == IF phase = "done" THEN totals.maxDepth ELSE maxDepth
NodeOrReason(tok, p) ==
  \/ p \in NodeStarts \/ NeedsNoNode(tok)
  \/ WarnedBy("MaxNodesExceeded", p)
  \/ MayOpen(tok.type) /\ WarnedBy("MaxParseDepthExceeded", p)
LimitReached(item) ==
  /\ item.issue \in {"MaxNodesExceeded", "MaxParseDepthExceeded"} =>
       item.pos \notin NodeStarts /\ \E k \in DOMAIN input : item.pos \in Wanted(input[k])
  /\ item.issue = "MaxNodesExceeded" => Len(nodes) = setting.maxNodes
  /\ item.issue = "MaxParseDepthExceeded" => Deepest = setting.maxParseDepth
LimitsKept ==
  LET attributeTokens == Cardinality({i \in DOMAIN input : input[i].type = "attribute"})
  IN /\ setting.maxNodes > 0 => Len(nodes) <= setting.maxNodes
     /\ setting.maxAttributes > 0 => Len(attributes) <= setting.maxAttributes
     /\ \A limit \in {"MaxNodesExceeded", "MaxAttributesExceeded", "MaxParseDepthExceeded"} :
          Issues(limit) <= 1
     /\ Issues("MaxAttributesExceeded") = 1 <=> Len(attributes) < attributeTokens
     /\ \A k \in DOMAIN input : \A p \in Wanted(input[k]) : NodeOrReason(input[k], p)
     /\ \A i \in DOMAIN raised : LimitReached(raised[i])

(* A reading of the input in which every closer closes the tag before it:   *)
(* the tags open at its end, or a fault.  A tag inside another one that     *)
(* closes the same way is a fault, unless both are the same paired tag.    *)
Fault == <<NoTag>>
Pairs(t) == t \in Tag \ Greedy /\ (IsUniversal(t) \/ (IsOpening(t) /\ CloseID[t] \in Closers))
Clashes(open, t) ==
  \E k \in DOMAIN open : CloseID[open[k]] = CloseID[t] /\ (open[k] # t \/ IsUniversal(t))
NestedBy(open, t) ==
  IF open = Fault \/ t \notin Tag \ Greedy THEN open
  ELSE IF open # <<>> /\ CloseID[Last(open)] = t THEN Front(open)
  ELSE IF Pairs(t) /\ ~Clashes(open, t) THEN Append(open, t)
  ELSE Fault
Nesting(toks) ==
  LET open[n \in 0..Len(toks)] ==
        IF n = 0 THEN <<>> ELSE NestedBy(open[n - 1], toks[n].type)
  IN open[Len(toks)]

(* parser_state.go:44: the closer of a tag that was left out is consumed    *)
(* without error.  When the input is well nested, nothing stays open or to  *)
(* be skipped behind it, and no closer is refused, although the skip counts *)
(* know neither place nor depth.  Tags with different openers and the same  *)
(* closer inside each other break it, as in [ [ * :[ ] * ] ].               *)
WellNested ==
  phase = "tokens" /\ Nesting(input) = <<>> =>
    /\ stack = <<>> /\ skip = NothingSkipped
    /\ Issues("MisplacedClosingTag") = 0 /\ Issues("OpenCloseTagMismatch") = 0

(* The list a caller gets is what its policy makes of the warnings raised,  *)
(* and IsOverflow says that some were lost.  (Not that the list is full, as *)
(* warnings.go:63 and :73 have it: see Faithful.)                          *)
WarningsReported == Faithful(warns, raised)

(* Nothing of a parse is left in the state that goes back to the pool. *)
PoolIsClean == phase \in {"ready", "done"} => Fresh

(* append_attribute.go:5: attributes of a node are contiguous in the arena. *)
AttributesContiguous ==
  \A i \in NodeIds : \A k \in DOMAIN attributes :
    attributes[k].of = i <=>
      nodes[i].attrStart <= k /\ k < nodes[i].attrStart + nodes[i].attrLen
=============================================================================
