--------------------------- MODULE MCScumTokenizer ---------------------------
(* ScumTokenizer for TLC: six setups, the first of them that of SML, each   *)
(* with all short inputs over bytes that mean something to it, and one for  *)
(* what the comments promise of escapes.                                    *)
EXTENDS ScumTokenizerInv, SmlEater

CONSTANT MaxLen   \* bound: length of an input

MCByte == {"a", " ", "[", "]", "!", "{", "}", "\\", "|", "_", "<", "b", ">", "~",
           "$", "*", "(", ")", "%", "^"}
MCWordByte == MCByte \ {" "}

Limits == [maxAttrKeyLen |-> 1, maxAttrPayloadLen |-> 2, maxPayloadLen |-> 2, maxKeyLen |-> 2]

(* The language of comments, with small limits instead of the defaults,      *)
(* which are out of reach.                                                  *)
SmallEater == [NewEater EXCEPT !.limits = Limits]

(* Both rules, and calls that are refused: a second tag on a byte, an       *)
(* escape symbol on a tag, and a rule that does not fit the greed.         *)
Rules ==
  [limits |-> Limits,
   calls  |-> <<AddUniversalTag(<<"|">>, "Greedy", "TagVsContent"),
                AddUniversalTag(<<"_">>, "NonGreedy", "InfraWord"),
                AddUniversalTag(<<"_">>, "Greedy", "NA"), EscapeTrigger("|"),
                AddUniversalTag(<<"$">>, "Greedy", "InfraWord"), EscapeTrigger("\\")>>]

(* Sequences of several bytes. *)
Sequences ==
  [limits |-> Limits,
   calls  |-> <<AddUniversalTag(<<"<", "b", ">">>, "NonGreedy", "NA"),
                AddUniversalTag(<<"~", "~">>, "Greedy", "NA"),
                AddUniversalTag(<<"^", "^">>, "Grasping", "NA"), EscapeTrigger("\\")>>]

(* Bodies with another closer, with one that is not registered, grasping    *)
(* ones, and a tag of no kind on what was the escape symbol.               *)
Bodies ==
  [limits |-> Limits,
   calls  |-> <<AddPairedTag(<<"(">>, "Grasping", NoByte, ")"),
                AddPairedTag(<<")">>, "NonGreedy", "(", NoByte),
                AddPairedTag(<<"[">>, "Greedy", NoByte, "]"),
                AddUniversalTag(<<"%">>, "Grasping", "TagVsContent"),
                EscapeTrigger("^"), AddPairedTag(<<"^">>, "NonGreedy", NoByte, NoByte)>>]

(* A signature set twice: its symbols are those of the second call, but both *)
(* triggers stay.  A payload may start and end with one symbol.             *)
Signatures ==
  [limits |-> Limits,
   calls  |-> <<AttributeSignature("!", "{", "}"), AttributeSignature("%", "|", "|")>>]

On(setup, bytes) == [setup |-> setup, inputs |-> BoundedSeq(bytes, MaxLen)]

MCJob ==
  {On(NewEater, {"a", "[", "]", "!", "{", "}"}),
   On(SmallEater, {"a", "!", "{", "}", "\\"}),
   On(Rules, {"a", " ", "|", "_", "\\"}),
   On(Sequences, {"<", "b", ">", "~", "^", "\\"}),
   On(Bodies, {"a", "(", ")", "[", "%", "^"}),
   On(Signatures, {"a", "!", "%", "|"})}

(* A tag of the greatest length. *)
FourSymbols ==
  [limits |-> Limits,
   calls  |-> <<AddUniversalTag(<<"<", "b", "b", ">">>, "NonGreedy", "NA"), EscapeTrigger("\\")>>]

MCFourSymbolsJob == {On(FourSymbols, {"<", "b", ">", "\\"})}
=============================================================================
