---------------------------- MODULE MCScumParser ----------------------------
(* ScumParser for TLC: a small dictionary, and settings for its parses. *)
EXTENDS ScumSerialize, ScumParserInv

CONSTANTS Star, Open, Image, Close, Code   \* tags as in * [ :[ ] and a greedy one

MCTag == {Star, Open, Image, Close, Code}
MCGreedy == {Code}
MCOpenID  == [t \in MCTag |-> CASE t = Close -> Open [] t \in {Star, Code} -> t [] OTHER -> NoTag]
MCCloseID == [t \in MCTag |-> CASE t \in {Open, Image} -> Close [] t \in {Star, Code} -> t
                                [] OTHER -> NoTag]
MCWidth == [t \in MCTag \cup {"text", "attribute"} |->
              CASE t = Code -> {2, 3} [] t = Image -> {2} [] t = "attribute" -> {4}
                [] t = "text" -> {1} [] OTHER -> {1}]

Unlimited(policy, maxWarnings) ==
  [maxNodes |-> 0, maxAttributes |-> 0, maxParseDepth |-> 0,
   policy |-> policy, maxWarnings |-> maxWarnings]

MCSetting ==
  {Unlimited("NoCap", 0),
   [Unlimited("Trunc", 2) EXCEPT !.maxParseDepth = 1, !.maxAttributes = 1],
   [Unlimited("Trunc", 0) EXCEPT !.maxNodes = 3, !.maxParseDepth = 2],
   [Unlimited("Trunc", 1) EXCEPT !.maxNodes = 2],
   [Unlimited("Drop", 1) EXCEPT !.maxNodes = 4, !.maxAttributes = 1],
   [Unlimited("Drop", 0) EXCEPT !.maxParseDepth = 1, !.maxNodes = 2],
   [Unlimited("NoRec", 0) EXCEPT !.maxNodes = 1]}
(* One pair of tags, without limits: enough for what the comments promise. *)
LinkTag == {Open, Close}
LinkOpenID  == [t \in LinkTag |-> MCOpenID[t]]
LinkCloseID == [t \in LinkTag |-> MCCloseID[t]]
LinkWidth   == [t \in LinkTag \cup {"text", "attribute"} |-> MCWidth[t]]
JustUnlimited == {Unlimited("NoCap", 0)}
=============================================================================
