--------------------------- MODULE MCSmlNormalize ---------------------------
(* SmlNormalize for TLC: a link with a few attributes of every kind, and     *)
(* small trees of all kinds of nodes.                                       *)
EXTENDS SmlNormalizeInv

CONSTANTS
  MaxAttributes,  \* bound: attributes of the one link
  MaxShared       \* bound: attributes of each node of a tree of two

MCValue == {"missing", "web", "other-scheme", "_blank", "_self", "other-target", "short", "long"}

Choice == {<<"href", "web">>, <<"href", "other-scheme">>,
           <<"target", "_blank">>, <<"target", "_self">>, <<"target", "other-target">>,
           <<"title", "short">>, <<"title", "long">>, <<"rel", "short">>, <<"other", "missing">>}

Placed(choices) ==
  [k \in DOMAIN choices |-> [name |-> choices[k][1], value |-> choices[k][2], pos |-> k]]
Nodes(kinds, max) ==
  {[kind |-> x, attributes |-> Placed(c)] : x \in kinds, c \in BoundedSeq(Choice, max)}

MCTree ==
  {<<n>> : n \in Nodes({"link"}, MaxAttributes)}
  \cup {<<m, n>> : m, n \in Nodes(Kind, MaxShared)}
=============================================================================
