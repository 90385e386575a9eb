--------------------------- MODULE ScumDictionary ---------------------------
(***************************************************************************)
(* The dictionary of src/scum: which bytes are special and what they do.   *)
(* It is filled by calls, each of which may refuse its arguments with a    *)
(* ConfigError; a refused call leaves the dictionary as it was.            *)
(***************************************************************************)
EXTENDS Integers, Sequences, SequencesExt

CONSTANTS
  Byte,      \* the symbols of inputs and tags; a wide character is one symbol
  NoByte,    \* the byte 0
  WordByte   \* letters, digits and punctuation

ASSUME DictionaryAssumption == NoByte \notin Byte /\ WordByte \subseteq Byte

MaxTagLen == 4

(* A tag is its byte sequence, whose first byte is its id, its greed and    *)
(* rule, and the ids of the tags that open and close it.                   *)
Tag == [seq : Seq(Byte), greed : {"NonGreedy", "Greedy", "Grasping"},
        rule : {"NA", "InfraWord", "TagVsContent"},
        open : Byte \cup {NoByte}, close : Byte \cup {NoByte}]
NoTag == [seq |-> <<>>, greed |-> "NonGreedy", rule |-> "NA", open |-> NoByte, close |-> NoByte]

IsUniversal(t) == t.open = t.seq[1] /\ t.close = t.seq[1]
IsOpening(t)   == t.close # NoByte /\ t.open = NoByte
IsClosing(t)   == t.open # NoByte /\ t.close = NoByte

(* NewDictionary: a scanning limit of 0 asks for the default. *)
DefaultLimits ==
  [maxAttrKeyLen |-> 128, maxAttrPayloadLen |-> 512, maxPayloadLen |-> 1024, maxKeyLen |-> 128]
NewDictionary(limits) ==
  [tags |-> [b \in Byte |-> NoTag], action |-> [b \in Byte |-> "none"],
   attrTrigger |-> NoByte, attrStart |-> NoByte, attrEnd |-> NoByte, escape |-> NoByte,
   limits |-> [x \in DOMAIN limits |-> IF limits[x] = 0 THEN DefaultLimits[x] ELSE limits[x]]]

(* checkTagConsistency *)
Consistent(t) ==
  /\ t.rule # "NA" => Len(t.seq) = 1 /\ IsUniversal(t)
  /\ t.rule = "InfraWord" => t.greed = "NonGreedy"
  /\ t.rule = "TagVsContent" => t.greed # "NonGreedy"

(* The calls.  AddTag looks for another tag on its byte, not for the escape *)
(* symbol or the attribute trigger, and takes the byte over from those.    *)
AddTag(d, t) ==
  IF t.seq = <<>> \/ Len(t.seq) > MaxTagLen THEN d
  ELSE IF d.tags[t.seq[1]] # NoTag \/ ~Consistent(t) THEN d
  ELSE [d EXCEPT !.tags[t.seq[1]] = t, !.action[t.seq[1]] = "tag"]

SetEscapeTrigger(d, b) ==
  IF d.action[b] # "none" THEN d
  ELSE [d EXCEPT !.escape = b, !.action[b] = "escape"]

SetAttributeSignature(d, trigger, start, end) ==
  IF d.action[trigger] # "none" \/ trigger \in {start, end} THEN d
  ELSE [d EXCEPT !.attrTrigger = trigger, !.attrStart = start, !.attrEnd = end,
                 !.action[trigger] = "attribute"]

Configured(d, c) ==
  CASE c.call = "AddTag"                -> AddTag(d, c.tag)
    [] c.call = "SetEscapeTrigger"      -> SetEscapeTrigger(d, c.byte)
    [] c.call = "SetAttributeSignature" -> SetAttributeSignature(d, c.trigger, c.start, c.end)

(* A setup: limits, and then calls in their order. *)
ScanLimits == [maxAttrKeyLen : Nat, maxAttrPayloadLen : Nat, maxPayloadLen : Nat, maxKeyLen : Nat]
Call == [call : {"AddTag"}, tag : Tag]
        \cup [call : {"SetEscapeTrigger"}, byte : Byte]
        \cup [call : {"SetAttributeSignature"}, trigger : Byte, start : Byte, end : Byte]
Setup == [limits : ScanLimits, calls : Seq(Call)]

(* The dictionary after the first k calls. *)
Filled(setup) ==
  LET filled[k \in 0..Len(setup.calls)] ==
        IF k = 0 THEN NewDictionary(setup.limits) ELSE Configured(filled[k - 1], setup.calls[k])
  IN filled
Dictionary(setup) == Filled(setup)[Len(setup.calls)]

IsSpecial(d, b) ==
  b \in {d.attrTrigger, d.attrStart, d.attrEnd, d.escape} \/ d.action[b] # "none"
=============================================================================
