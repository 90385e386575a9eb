---------------------------- MODULE ScumSerialize ----------------------------
(***************************************************************************)
(* AST.Serialize and AST.Text of src/scum on what ParseInto has left in    *)
(* the arena: the tree as values, and the text.                            *)
(*                                                                         *)
(* Serialize makes one array for all nodes but the root and hands it out   *)
(* in windows, one for the children of each node, of the length that the   *)
(* node's count of children says.  It walks the arena with a stack of      *)
(* tasks, each of which knows the place its node will be written to.       *)
(***************************************************************************)
EXTENDS ScumParser

(* `stack' has the tasks left, `used' places are handed out; `slots' is the *)
(* array, with the arena's number for a node, and `base' says where the    *)
(* window of each node starts.                                             *)
TasksLastFirst(x, base) ==
  [k \in 1..nodes[x].kids |->
     [slot |-> base + nodes[x].kids + 1 - k, node |-> Children(x)[k]]]
Tasks(x, base) ==
  [k \in 1..nodes[x].kids |-> [slot |-> base + k, node |-> Children(x)[k]]]

Walk(s) ==
  LET task == Last(s.stack)
  IN IF s.stack = <<>> THEN s
     ELSE [stack |-> Front(s.stack) \o Tasks(task.node, s.used),
           used  |-> s.used + nodes[task.node].kids,
           slots |-> [s.slots EXCEPT ![task.slot] = task.node],
           base  |-> [s.base EXCEPT ![task.node] = s.used]]

AtRoot ==
  [stack |-> Tasks(1, 0), used |-> nodes[1].kids,
   slots |-> [k \in 1..(Len(nodes) - 1) |-> 0], base |-> [x \in NodeIds |-> 0]]
Serialize ==
  LET walk[n \in 0..Len(nodes)] == IF n = 0 THEN AtRoot ELSE Walk(walk[n - 1])
  IN walk[Len(nodes)]

(* The nodes below x and x itself in the order of the tree. *)
Reading(s) ==
  LET reading[x \in NodeIds] ==
        <<x>> \o FlattenSeq([k \in 1..nodes[x].kids |-> reading[s.slots[s.base[x] + k]]])
  IN reading[1]

(* AST.Text takes the text nodes in the order of the arena. *)
Text ==
  LET text[n \in 0..Len(nodes)] ==
        IF n = 0 THEN <<>>
        ELSE IF nodes[n].type = "text" THEN Append(text[n - 1], <<nodes[n].start, nodes[n].end>>)
        ELSE text[n - 1]
  IN text[Len(nodes)]

-----------------------------------------------------------------------------
(* Properties *)

(* Whatever was demoted, skipped, left out by a limit or closed by force:   *)
(* the walk ends when the array is used up, every node is written to one    *)
(* place of its own, and the tree reads in the order of the arena, which is *)
(* that of the input, so that Text, which never looks at the tree, has its  *)
(* text in the right order, and no byte twice.                              *)
SerializedAsParsed ==
  phase = "done" =>
    LET s == Serialize
    IN /\ s.stack = <<>> /\ s.used = Len(nodes) - 1
       /\ ToSet(s.slots) = 2..Len(nodes)
       /\ \A x \in NodeIds : \A k \in 1..nodes[x].kids : s.slots[s.base[x] + k] > x
       /\ Reading(s) = [x \in NodeIds |-> x]
       /\ \A k, l \in DOMAIN Text : k < l => Text[k][2] <= Text[l][1]
=============================================================================
