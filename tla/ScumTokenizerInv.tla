--------------------------- MODULE ScumTokenizerInv ---------------------------
(***************************************************************************)
(* The inductive invariant of ScumTokenizer: what the calls make sure of   *)
(* in a dictionary, and what the tokens so far are to the scan that goes   *)
(* on behind them.                                                         *)
(***************************************************************************)
EXTENDS ScumTokenizer

SetLimits == [maxAttrKeyLen : Nat \ {0}, maxAttrPayloadLen : Nat \ {0},
              maxPayloadLen : Nat \ {0}, maxKeyLen : Nat \ {0}]
ActionName == {"none", "tag", "escape", "attribute"}
DictionaryRecord ==
  [tags : [Byte -> Tag], action : [Byte -> ActionName],
   attrTrigger : Byte \cup {NoByte}, attrStart : Byte \cup {NoByte},
   attrEnd : Byte \cup {NoByte}, escape : Byte \cup {NoByte}, limits : SetLimits]

(* A special byte that is a tag has one of its own, which the checks allow. *)
Registered(t, b) == t.seq # <<>> /\ t.seq[1] = b /\ Consistent(t)
DictionaryOK(d) ==
  /\ d \in DictionaryRecord
  /\ \A b \in Byte : d.tags[b] # NoTag => Registered(d.tags[b], b)
  /\ \A b \in Byte : d.action[b] = "tag" => d.tags[b] # NoTag

StatName == {"tags", "universal", "open", "close", "attributes", "textTokens", "textBytes"}
SpanRecord  == [start : Nat, end : Nat]
TokenRecord == [type : Byte \cup {"text", "flag", "keyvalue"}, pos : Nat, width : Nat,
                payload : SpanRecord, key : SpanRecord]
ScanIssue == {"UnexpectedSymbol", "UnexpectedEOL", "MisplacedClosingTag", "TagKeyTooLong",
              "TagPayloadTooLong", "UnclosedTag", "RedundantEscape", "AttrKeyTooLong",
              "AttrPayloadTooLong", "UnclosedAttrPayload", "EmptyAttrPayload"}
Notice == [issue : ScanIssue, pos : 0..n]

(* Where the tokens so far end. *)
Covered == IF done THEN n ELSE textStart

ScanOK ==
  /\ input \in Seq(Byte) /\ done \in BOOLEAN
  /\ i \in 0..n /\ textStart \in 0..i
  /\ tokens \in Seq(TokenRecord) /\ raised \in Seq(Notice)

StatsBounded == stats \in [StatName -> Nat] /\ \A x \in StatName : stats[x] <= Covered

(* An opening tag without a body is not the last thing in the input. *)
OpensBody(tok) == IsTag(tok) /\ IsOpening(dict.tags[tok.type])
                  /\ dict.tags[tok.type].greed = "NonGreedy"
TokenOK(tok) ==
  /\ tok.width > 0 /\ EndOf(tok) <= n
  /\ SpanInInput(tok.payload) /\ SpanInInput(tok.key)
  /\ tok.pos <= tok.payload.start /\ tok.payload.end <= EndOf(tok)
  /\ OpensBody(tok) => EndOf(tok) < n
TokensOK == \A k \in 1..Len(tokens) : TokenOK(tokens[k])

Tiled ==
  /\ \A k \in 1..Len(tokens) : tokens[k].pos = IF k = 1 THEN 0 ELSE EndOf(tokens[k - 1])
  /\ (IF tokens = <<>> THEN 0 ELSE EndOf(Last(tokens))) = Covered

(* While the scan goes on, text is pending and has not become a token. *)
TextsApart ==
  /\ \A k \in 2..Len(tokens) : IsText(tokens[k]) => ~IsText(tokens[k - 1])
  /\ ~done /\ tokens # <<>> => ~IsText(Last(tokens))
ClosersBehind ==
  \A k \in 1..Len(tokens) : IsTag(tokens[k]) /\ IsClosing(dict.tags[tokens[k].type]) => k > 1

IInv ==
  /\ DictionaryOK(dict)
  /\ ScanOK /\ StatsBounded
  /\ TokensOK /\ Tiled /\ TextsApart /\ ClosersBehind
=============================================================================
