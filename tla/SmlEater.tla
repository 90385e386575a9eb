------------------------------ MODULE SmlEater ------------------------------
(***************************************************************************)
(* The dictionary that NewEater of src/sml builds: the markup language of  *)
(* comments as calls on an empty dictionary of src/scum.                   *)
(***************************************************************************)
EXTENDS ScumDictionary

SmlByte == {"$", "*", "_", "[", "]", "!", "{", "}", "\\"}

AddUniversalTag(seq, greed, rule) ==
  [call |-> "AddTag",
   tag |-> [seq |-> seq, greed |-> greed, rule |-> rule, open |-> seq[1], close |-> seq[1]]]
AddPairedTag(seq, greed, open, close) ==
  [call |-> "AddTag",
   tag |-> [seq |-> seq, greed |-> greed, rule |-> "NA", open |-> open, close |-> close]]
AttributeSignature(trigger, start, end) ==
  [call |-> "SetAttributeSignature", trigger |-> trigger, start |-> start, end |-> end]
EscapeTrigger(b) == [call |-> "SetEscapeTrigger", byte |-> b]

NewEater ==
  [limits |-> [x \in DOMAIN DefaultLimits |-> 0],
   calls  |-> <<AddUniversalTag(<<"$">>, "NonGreedy", "NA"),
                AddUniversalTag(<<"*">>, "NonGreedy", "NA"),
                AddUniversalTag(<<"_">>, "NonGreedy", "InfraWord"),
                AddPairedTag(<<"[">>, "NonGreedy", NoByte, "]"),
                AddPairedTag(<<"]">>, "NonGreedy", "[", NoByte),
                AttributeSignature("!", "{", "}"),
                EscapeTrigger("\\")>>]

(* NewEater panics when a call is refused, "this should not happen": each   *)
(* changes the dictionary, that is, none is.                               *)
EveryCallTakes(setup) ==
  LET after(k) == Dictionary([setup EXCEPT !.calls = SubSeq(@, 1, k)])
  IN \A k \in DOMAIN setup.calls : after(k) # after(k - 1)

ASSUME EaterAssumption == SmlByte \subseteq Byte /\ EveryCallTakes(NewEater)
=============================================================================
