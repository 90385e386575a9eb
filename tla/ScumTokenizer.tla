---------------------------- MODULE ScumTokenizer ----------------------------
(***************************************************************************)
(* Tokenize of src/scum: one pass over the input that turns special bytes  *)
(* into tokens and everything between them into text.                      *)
(*                                                                         *)
(* The action of a tag is a plan, a list of steps that CreateAction puts   *)
(* together from the kind of the tag; here every way through a plan is an  *)
(* action of its own.  Positions count from 0 as in the code.              *)
(***************************************************************************)
EXTENDS ScumDictionary, ScumWarnings, FiniteSetsExt

CONSTANT Job   \* setups of a dictionary, each with the inputs for it

ASSUME JobAssumption ==
  /\ Byte \cap {"text", "flag", "keyvalue"} = {}
  /\ \A j \in Job : j.setup \in Setup /\ j.inputs \subseteq Seq(Byte)

VARIABLES
  dict,       \* the dictionary
  input,
  i,          \* where the loop is
  textStart,  \* where the current plain text started
  tokens, stats,
  raised,     \* the warnings added, in order
  done

vars == <<dict, input, i, textStart, tokens, stats, raised, done>>

n       == Len(input)
At(p)   == input[p + 1]
Smaller(a, b) == IF a < b THEN a ELSE b

Token(type, pos, end, payload, key) ==
  [type |-> type, pos |-> pos, width |-> end - pos, payload |-> payload, key |-> key]
Span(start, end) == [start |-> start, end |-> end]
Length(span)     == span.end - span.start
NoKey == Span(0, 0)
TextToken(start, end) == Token("text", start, end, Span(start, end), NoKey)

-----------------------------------------------------------------------------
(* Searching *)

(* How much of seq stands at p, looking no further than `to'. *)
MatchedAt(p, to, seq) ==
  Max({k \in 0..Smaller(Len(seq), to - p) : \A j \in 0..k - 1 : At(p + j) = seq[j + 1]})

(* longestCommonSubPrefix: the first place between from and to where most   *)
(* of seq stands.                                                          *)
LongestCommonSubPrefix(from, to, seq) ==
  LET places == {p \in from..to - 1 : At(p) = seq[1]}
      length == Max({0} \cup {MatchedAt(p, to, seq) : p \in places})
  IN [contained |-> length = Len(seq), length |-> length,
      idx |-> IF places = {} THEN -1
              ELSE Min({p \in places : MatchedAt(p, to, seq) = length})]

(* The length of the run of the byte at p, from p on. *)
Run(p) == Max({k \in 1..n - p : \A j \in 0..k - 1 : At(p + j) = At(p)})

-----------------------------------------------------------------------------
(* Bounds: what is known of the tag at i.  It spans from i to `end'. *)

Prepared ==
  [valid |-> TRUE, width |-> 1, end |-> i + 1, inner |-> Span(i + 1, i + 1),
   closed |-> FALSE, keyLimit |-> FALSE, payloadLimit |-> FALSE]

CheckMultiCharTagSeq(t) ==
  LET found == LongestCommonSubPrefix(i, Smaller(n, i + Len(t.seq)), t.seq)
      end   == i + found.length
  IN [Prepared EXCEPT !.valid = found.contained, !.width = found.length,
                      !.end = end, !.inner = Span(end, end)]

Opened(t) == IF Len(t.seq) = 1 THEN Prepared ELSE CheckMultiCharTagSeq(t)

UnclosedBehind(b, width) ==
  [b EXCEPT !.width = width, !.end = n, !.inner = Span(i + width + 1, n)]
Unclosed(b, width) ==
  [b EXCEPT !.width = width, !.end = n, !.inner = Span(i + width, n)]

ScanEndAtLimit(content) == Smaller(content + dict.limits.maxPayloadLen, n)
ScanEnd(content) == Smaller(content + dict.limits.maxPayloadLen + 1, n)
CheckCloseTag(t, b) ==
  LET content == i + b.width
      closer  == dict.tags[t.close]
      scanEnd == ScanEnd(content)
      found   == LongestCommonSubPrefix(content, scanEnd, closer.seq)
  IN IF closer = NoTag THEN Unclosed(b, b.width)
     ELSE IF found.contained
     THEN [b EXCEPT !.closed = TRUE, !.end = found.idx + found.length,
                    !.inner = Span(content, found.idx)]
     ELSE [Unclosed(b, b.width) EXCEPT !.payloadLimit = found.idx = -1 /\ scanEnd < n]

(* A run of the symbol as long as the opening one closes.  The search goes  *)
(* on behind the byte that ends a run, and calls it a limit only if it had  *)
(* not got past the limit by then.                                         *)
CheckTagVsContent(b) ==
  LET limit   == dict.limits.maxKeyLen
      width   == Smaller(Run(i), limit)
      from    == i + width + 1
      last    == n - width + 1
      scanEnd == Smaller(from + dict.limits.maxPayloadLen, last)
      runs    == {p \in from..scanEnd - 1 : At(p) = At(i) /\ At(p - 1) # At(i)}
      closers == {p \in runs : Run(p) = width}
      resume  == Max({from} \cup {p + Run(p) + 1 : p \in runs})
  IN IF i + width = n THEN Unclosed(b, width)
     ELSE IF Run(i) > limit THEN [Unclosed(b, limit) EXCEPT !.keyLimit = TRUE]
     ELSE IF closers # {}
     THEN [b EXCEPT !.width = width, !.closed = TRUE, !.end = Min(closers) + width,
                    !.inner = Span(i + width, Min(closers))]
     ELSE [Unclosed(b, width) EXCEPT !.payloadLimit = scanEnd < last /\ resume < scanEnd]

Body(t) == IF t.rule = "TagVsContent" THEN CheckTagVsContent(Opened(t))
           ELSE CheckCloseTag(t, Opened(t))

(* WarnTagKeyTooLong, WarnTagPayloadTooLong, WarnUnclosedTag: a tag that    *)
(* runs into the payload limit is not called unclosed too.                 *)
BodyWarningsUnlimited(b) ==
     (IF b.keyLimit THEN <<Warning("TagKeyTooLong", i)>> ELSE <<>>)
  \o (IF b.closed \/ b.payloadLimit THEN <<>> ELSE <<Warning("UnclosedTag", i)>>)
BodyWarnings(b) ==
     (IF b.keyLimit THEN <<Warning("TagKeyTooLong", i)>> ELSE <<>>)
  \o (IF b.payloadLimit THEN <<Warning("TagPayloadTooLong", i)>> ELSE <<>>)
  \o (IF b.closed \/ b.payloadLimit THEN <<>> ELSE <<Warning("UnclosedTag", i)>>)

-----------------------------------------------------------------------------
(* Steps *)

Busy == ~done /\ i < n /\ UNCHANGED <<dict, input, done>>

(* The bytes stay text; what was text before goes on. *)
Skip(stride, warnings) ==
  /\ i' = i + stride
  /\ raised' = raised \o warnings
  /\ UNCHANGED <<textStart, tokens, stats>>

(* The text before i, if any, and its share in the statistics. *)
PlainTextOfMany(end) == IF textStart + 1 < end THEN <<TextToken(textStart, end)>> ELSE <<>>
PlainText(end) == IF textStart < end THEN <<TextToken(textStart, end)>> ELSE <<>>
WithText(count, bytes, s) ==
  [s EXCEPT !.textTokens = @ + count, !.textBytes = @ + bytes]
WithAnyText(end, s) == WithText(1, end - textStart, s)
WithPlainText(end, s) ==
  WithText(IF textStart < end THEN 1 ELSE 0, end - textStart, s)

Emit(tok, counted, warnings) ==
  /\ tokens' = tokens \o PlainText(i) \o <<tok>>
  /\ stats' = WithPlainText(i, counted)
  /\ i' = tok.pos + tok.width
  /\ textStart' = tok.pos + tok.width
  /\ raised' = raised \o warnings

Counted(fields) == [x \in DOMAIN stats |-> IF x \in fields THEN stats[x] + 1 ELSE stats[x]]
TagToken(b) == Token(At(i), i, b.end, b.inner, NoKey)

Action(kind) == Busy /\ dict.action[At(i)] = kind
Tagged       == dict.tags[At(i)]
PastEOL(b)   == i + b.width > n
AtEOL(b)     == i + b.width >= n

PlainByte == Action("none") /\ Skip(1, <<>>)

(* StepSkipInvalidTriggerTag, after WarnInvalidSequence *)
SkipMatchedBehindFirst ==
  LET b == Opened(Tagged)
  IN /\ Action("tag") /\ ~b.valid
     /\ Skip(b.width - 1, <<Warning("UnexpectedSymbol", i + b.width)>>)
SkipInvalidTriggerTag ==
  LET b == Opened(Tagged)
  IN /\ Action("tag") /\ ~b.valid
     /\ Skip(b.width, <<Warning("UnexpectedSymbol", i + b.width)>>)

(* Past the check of its sequence. *)
ValidTag == Action("tag") /\ Opened(Tagged).valid

(* No plan handles a tag that neither opens nor closes. *)
IsUnclassified(t) == ~IsUniversal(t) /\ ~IsOpening(t) /\ ~IsClosing(t)
SkipUnclassified == ValidTag /\ IsUnclassified(Tagged) /\ Skip(1, <<>>)

SkipOpenTagBeforeEOL ==
  LET b == Opened(Tagged)
  IN /\ ValidTag /\ IsOpening(Tagged) /\ AtEOL(b)
     /\ Skip(b.width, <<Warning("UnexpectedEOL", n)>>)

SkipCloseTagAfterStart ==
  LET b == Opened(Tagged)
  IN /\ ValidTag /\ IsClosing(Tagged) /\ i = 0
     /\ Skip(b.width, <<Warning("MisplacedClosingTag", i)>>)

EmitCloseTag ==
  /\ ValidTag /\ IsClosing(Tagged) /\ i # 0
  /\ Emit(TagToken(Opened(Tagged)), Counted({"tags", "close"}), <<>>)

(* What is left are universal tags, and opening tags with something behind. *)
Opens(t) == IsUniversal(t) \/ (IsOpening(t) /\ ~AtEOL(Opened(t)))

(* StepInfraWordCheck *)
IsWordPart(p) == /\ p \in 0..n - 1
                 /\ At(p) = At(i) \/ (~IsSpecial(dict, At(p)) /\ At(p) \in WordByte)
InsideWord(t) == t.rule = "InfraWord" /\ IsWordPart(i - 1) /\ IsWordPart(i + 1)

SkipInfraWord == ValidTag /\ Opens(Tagged) /\ InsideWord(Tagged) /\ Skip(1, <<>>)

EmitNonGreedy ==
  /\ ValidTag /\ Opens(Tagged) /\ Tagged.greed = "NonGreedy" /\ ~InsideWord(Tagged)
  /\ Emit(TagToken(Opened(Tagged)),
          Counted({"tags", IF IsUniversal(Tagged) THEN "universal" ELSE "open"}), <<>>)

SkipUnclosedOpenTag ==
  LET b == Body(Tagged)
  IN /\ ValidTag /\ Opens(Tagged) /\ Tagged.greed = "Greedy" /\ ~b.closed
     /\ Skip(b.width, BodyWarnings(b))

(* The payload of a greedy tag counts as text, unless it is empty. *)
EmitGreedy ==
  LET b == Body(Tagged)
  IN /\ ValidTag /\ Opens(Tagged)
     /\ Tagged.greed = "Grasping" \/ (Tagged.greed = "Greedy" /\ b.closed)
     /\ Emit(TagToken(b),
             WithText(IF Length(b.inner) > 0 THEN 1 ELSE 0, Length(b.inner), Counted({"tags"})),
             BodyWarnings(b))

(* ActEscape *)
EscapeAtEOL == Action("escape") /\ i + 1 = n /\ Skip(1, <<Warning("UnexpectedEOL", i)>>)

EscapeItself ==
  /\ Action("escape") /\ i + 1 < n
  /\ Skip(1, IF dict.action[At(i + 1)] = "none" THEN <<Warning("RedundantEscape", i)>> ELSE <<>>)
Escape ==
  /\ Action("escape") /\ i + 1 < n
  /\ Skip(2, IF dict.action[At(i + 1)] = "none" THEN <<Warning("RedundantEscape", i)>> ELSE <<>>)

-----------------------------------------------------------------------------
(* ActAttribute *)

Find(b, from, to) ==
  LET places == {p \in from..to - 1 : At(p) = b}
  IN IF places = {} THEN -1 ELSE Min(places)

(* findPayloadEndWithEscape: escaped[p] when the byte at p is escaped by    *)
(* one before it, from `from' on.                                          *)
FindUnescaped(b, from, to) ==
  LET escaped[p \in from..to] == p > from /\ At(p - 1) = dict.escape /\ ~escaped[p - 1]
      places == {p \in from..to - 1 : At(p) = b /\ b # dict.escape /\ ~escaped[p]}
  IN IF places = {} THEN -1 ELSE Min(places)

KeyEnd  == Smaller(i + 1 + dict.limits.maxAttrKeyLen + 1, n)
PayloadEnd(start) == Smaller(start + dict.limits.maxAttrPayloadLen + 1, n)
PayloadStartIdx == Find(dict.attrStart, i + 1, KeyEnd)
PayloadEndRaw(start) == Find(dict.attrEnd, start, PayloadEnd(start))
PayloadEndIdx(start) ==
  IF dict.escape = NoByte THEN Find(dict.attrEnd, start, PayloadEnd(start))
  ELSE FindUnescaped(dict.attrEnd, start, PayloadEnd(start))

(* The issue that keeps the trigger at i from being an attribute, and where *)
(* it is reported.                                                         *)
AttributeIssue ==
  LET s == PayloadStartIdx
      e == PayloadEndIdx(s + 1)
  IN IF i + 1 = n THEN <<Warning("UnexpectedEOL", i)>>
     ELSE IF s = -1 THEN IF KeyEnd < n THEN <<Warning("AttrKeyTooLong", i)>>
                         ELSE <<Warning("UnexpectedEOL", n)>>
     ELSE IF s + 1 = n THEN <<Warning("UnexpectedEOL", s)>>
     ELSE IF e = -1 THEN IF PayloadEnd(s + 1) < n THEN <<Warning("AttrPayloadTooLong", i)>>
                         ELSE <<Warning("UnclosedAttrPayload", n)>>
     ELSE IF e = s + 1 THEN <<Warning("EmptyAttrPayload", s + 1)>>
     ELSE <<>>

SkipAttribute == Action("attribute") /\ AttributeIssue # <<>> /\ Skip(1, AttributeIssue)

EmitAttribute ==
  LET s == PayloadStartIdx
      e == PayloadEndIdx(s + 1)
  IN /\ Action("attribute") /\ AttributeIssue = <<>>
     /\ IF s = i + 1
        THEN Emit(Token("flag", i, e + 1, Span(s + 1, e), NoKey), Counted({"attributes"}), <<>>)
        ELSE Emit(Token("keyvalue", i, e + 1, Span(s + 1, e), Span(i + 1, s)),
                  Counted({"attributes"}), <<>>)

-----------------------------------------------------------------------------

Finish ==
  /\ ~done /\ i >= n
  /\ done' = TRUE
  /\ tokens' = tokens \o PlainText(n)
  /\ stats' = WithPlainText(n, stats)
  /\ UNCHANGED <<dict, input, i, textStart, raised>>

Init ==
  /\ \E j \in Job : dict = Dictionary(j.setup) /\ input \in j.inputs
  /\ i = 0 /\ textStart = 0
  /\ tokens = <<>> /\ raised = <<>>
  /\ stats = [tags |-> 0, universal |-> 0, open |-> 0, close |-> 0, attributes |-> 0,
              textTokens |-> 0, textBytes |-> 0]
  /\ done = FALSE

Next ==
  \/ PlainByte
  \/ SkipInvalidTriggerTag \/ SkipUnclassified
  \/ SkipOpenTagBeforeEOL \/ SkipCloseTagAfterStart \/ EmitCloseTag
  \/ SkipInfraWord \/ EmitNonGreedy
  \/ SkipUnclosedOpenTag \/ EmitGreedy
  \/ EscapeAtEOL \/ Escape
  \/ SkipAttribute \/ EmitAttribute
  \/ Finish
  \/ done /\ UNCHANGED vars   \* Tokenize has returned

Spec == Init /\ [][Next]_vars

-----------------------------------------------------------------------------
(* Properties *)

SpanInInput(s) == s.start \in 0..n /\ s.end \in s.start..n

(* Every position that is handed out, in a token or in a warning, is a      *)
(* position of the input, and a registered tag is one the checks allow.    *)
TypeOK ==
  /\ \A b \in Byte : dict.tags[b] # NoTag =>
       dict.tags[b] \in Tag /\ dict.tags[b].seq[1] = b /\ Consistent(dict.tags[b])
  /\ i \in 0..n /\ textStart \in 0..n /\ done \in BOOLEAN
  /\ \A tok \in Range(tokens) :
       /\ tok.type \in Byte \cup {"text", "flag", "keyvalue"}
       /\ tok.pos \in 0..n /\ tok.width \in 0..n
       /\ SpanInInput(tok.payload) /\ SpanInInput(tok.key)
  /\ \A x \in Range(raised) : x.pos \in 0..n
  /\ \A x \in DOMAIN stats : stats[x] \in 0..n

EndOf(tok) == tok.pos + tok.width

(* The tokens cover what has been read without a gap or an overlap, and in  *)
(* the end all of the input: whatever is skipped, escaped or left unclosed *)
(* is still in the text.                                                   *)
TokensTile ==
  /\ \A k \in DOMAIN tokens :
       /\ tokens[k].width > 0
       /\ tokens[k].pos = IF k = 1 THEN 0 ELSE EndOf(tokens[k - 1])
  /\ textStart <= i
  /\ (IF tokens = <<>> THEN 0 ELSE EndOf(Last(tokens))) = IF done THEN n ELSE textStart

IsTag(tok)  == tok.type \in Byte
IsText(tok) == tok.type = "text"
IsAttribute(tok) == tok.type \in {"flag", "keyvalue"}

(* Which statistics a token counts for. *)
Counts(tok, x) ==
  LET t         == dict.tags[tok.type]
      nonGreedy == IsTag(tok) /\ t.greed = "NonGreedy"
  IN \/ x = "tags"       /\ IsTag(tok)
     \/ x = "universal"  /\ nonGreedy /\ IsUniversal(t)
     \/ x = "open"       /\ nonGreedy /\ IsOpening(t)
     \/ x = "close"      /\ IsTag(tok) /\ IsClosing(t)
     \/ x = "attributes" /\ IsAttribute(tok)
     \/ x = "textTokens" /\ ~IsAttribute(tok) /\ tok.payload.start < tok.payload.end
TextIn(toks) ==
  {p \in 0..n - 1 : \E k \in 1..Len(toks) :
     /\ ~IsAttribute(toks[k])
     /\ toks[k].payload.start <= p /\ p < toks[k].payload.end}
Total(toks, x) == IF x = "textBytes" THEN Cardinality(TextIn(toks))
                  ELSE Cardinality({k \in 1..Len(toks) : Counts(toks[k], x)})

(* The statistics, from which the parser sizes its arenas, are those of the *)
(* tokens: a greedy payload is a text of its own, and its bytes and those  *)
(* of the plain texts are the text of the input.                           *)
StatsMatch == \A x \in DOMAIN stats : stats[x] = Total(tokens, x)

(* Where the body of a greedy tag t that starts at `from' may close: a run  *)
(* of the symbol exactly as long as the opening one, or the closing tag,   *)
(* no further away than the limit.  An opening run that goes on at `from'  *)
(* is longer than any that may close.                                      *)
Stands(p, seq) == p + Len(seq) <= n /\ \A j \in DOMAIN seq : At(p + j - 1) = seq[j]
Closers(t, opening, from) ==
  LET limit == dict.limits.maxPayloadLen
  IN IF t.rule = "TagVsContent"
     THEN {p \in from + 1..n - 1 : /\ At(p) = t.seq[1] /\ At(p - 1) # t.seq[1]
                                   /\ Run(p) = opening /\ p - from <= limit
                                   /\ At(from) # t.seq[1]}
     ELSE LET seq == dict.tags[t.close].seq
          IN {p \in from..n - 1 : /\ seq # <<>> /\ Stands(p, seq)
                                  /\ p + Len(seq) <= from + limit + 1}

(* A greedy tag takes everything up to the first place where it may close,  *)
(* its closer included; without one, a grasping tag takes all of the rest  *)
(* and a greedy one is no tag.                                             *)
IsGreedy(tok) == /\ IsTag(tok) /\ dict.tags[tok.type].greed # "NonGreedy"
                 /\ ~IsClosing(dict.tags[tok.type])
BodyTaken(tok) ==
  LET t       == dict.tags[tok.type]
      from    == tok.payload.start
      opening == from - tok.pos
      closers == Closers(t, opening, from)
      closer  == IF t.rule = "TagVsContent" THEN opening ELSE Len(dict.tags[t.close].seq)
  IN /\ t.rule # "TagVsContent" => opening = Len(t.seq) /\ Stands(tok.pos, t.seq)
     /\ \/ /\ closers # {}
           /\ tok.payload.end = Min(closers)
           /\ EndOf(tok) = Min(closers) + closer
        \/ /\ closers = {} /\ t.greed = "Grasping"
           /\ tok.payload.end = n /\ EndOf(tok) = n
GreedyBodies == \A tok \in Range(tokens) : IsGreedy(tok) => BodyTaken(tok)

(* The escape symbols that end just before p, back to `from'. *)
EscapesBefore(p, from) ==
  Cardinality({q \in from..p - 1 : \A r \in q..p - 1 : At(r) = dict.escape})
IsEscaped(p, from) == EscapesBefore(p, from) % 2 = 1

(* An attribute is what its signature says, within the limits: a key that   *)
(* ends at the first start symbol, and a payload that is not empty and     *)
(* ends at the first end symbol that is not escaped.  Without a key it is  *)
(* a flag.  token.go:48 says that the payload of a flag is empty, and :51  *)
(* that AttrKey holds its name; the code puts the name into the payload    *)
(* and leaves AttrKey empty, which set_attribute_signature_test.go:266     *)
(* expects, and so does this property.                                     *)
WellFormed(tok) ==
  LET start == tok.payload.start
      end   == tok.payload.end
  IN /\ dict.action[At(tok.pos)] = "attribute"
     /\ At(start - 1) = dict.attrStart
     /\ \A p \in tok.pos + 1..start - 2 : At(p) # dict.attrStart
     /\ tok.type = "keyvalue" => tok.key = Span(tok.pos + 1, start - 1)
     /\ tok.type = "flag" => tok.key = NoKey
     /\ start - tok.pos - 2 \in 0..dict.limits.maxAttrKeyLen
     /\ tok.type = "flag" <=> start = tok.pos + 2
     /\ Length(tok.payload) \in 1..dict.limits.maxAttrPayloadLen
     /\ At(end) = dict.attrEnd /\ ~IsEscaped(end, start)
     /\ \A p \in start..end - 1 : At(p) = dict.attrEnd => IsEscaped(p, start)
     /\ EndOf(tok) = end + 1
AttributesWellFormed == \A tok \in Range(tokens) : IsAttribute(tok) => WellFormed(tok)

(* One symbol escapes, and it is in no tag. *)
EscapeStands ==
  /\ \A b \in Byte : dict.action[b] = "escape" <=> b = dict.escape
  /\ \A b \in Byte : dict.escape \notin Range(dict.tags[b].seq)

(* dictionary.go:125: what an escape symbol stands before never starts a    *)
(* token.  (An escaped escape symbol escapes nothing.)                     *)
EscapeProtects ==
  \A k \in DOMAIN tokens :
    k > 1 /\ IsText(tokens[k - 1]) /\ EscapeStands
      => ~IsEscaped(tokens[k].pos, tokens[k - 1].pos)

(* It does where no tag has four symbols.  One that has may pass over an    *)
(* escape symbol when its sequence breaks off and a longer part of it      *)
(* stands further on.                                                      *)
EscapedIsText ==
  (\A b \in Byte : Len(dict.tags[b].seq) < MaxTagLen) => EscapeProtects

(* What the parser relies on: texts do not touch, a closing tag has         *)
(* something before it, an opening tag something behind it, and a payload  *)
(* lies within its token.                                                  *)
FitsParser ==
  \A k \in DOMAIN tokens :
    LET tok == tokens[k] IN
    /\ IsText(tok) /\ k > 1 => ~IsText(tokens[k - 1])
    /\ tok.pos <= tok.payload.start /\ tok.payload.end <= EndOf(tok)
    /\ IsTag(tok) => LET t == dict.tags[tok.type] IN
         /\ IsClosing(t) => k > 1
         /\ done /\ IsOpening(t) /\ t.greed = "NonGreedy" => k < Len(tokens)

(* Markup that is left as text is reported.  Silent are a tag inside a      *)
(* word, the escaping of a special byte and a tag that is of no kind.      *)
MarkupReported ==
  [][~done' /\ tokens' = tokens /\ dict.action[At(i)] # "none" =>
       \/ Len(raised') > Len(raised)
       \/ dict.action[At(i)] = "tag" /\ (InsideWord(Tagged) \/ IsUnclassified(Tagged))
       \/ dict.action[At(i)] = "escape" /\ dict.action[At(i + 1)] # "none"]_vars

(* plan.go:5: an action always returns a stride above 0, so the loop ends.  *)
(* (That it never gets stuck is the check for deadlock.)                   *)
AlwaysMovesOn == [][i' > i \/ done']_vars
=============================================================================
