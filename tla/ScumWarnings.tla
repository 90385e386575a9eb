---------------------------- MODULE ScumWarnings ----------------------------
(***************************************************************************)
(* The list of warnings of a parse, src/scum/warnings.go: what Add does    *)
(* under each overflow policy, and what a reader of the list may conclude  *)
(* from it.                                                                *)
(***************************************************************************)
EXTENDS Integers, Sequences

Policy == {"NoCap", "NoRec", "Drop", "Trunc"}

Warning(issue, pos) == [issue |-> issue, pos |-> pos]

(* maxWarnings is a capacity, 0 included. *)
NewWarnings(policy, maxWarnings) ==
  [policy |-> policy, maxWarnings |-> maxWarnings, list |-> <<>>,
   overflowed |-> FALSE, droppedCount |-> 0, firstDropPos |-> 0]

(* Trunc keeps the last place for the truncation marker. *)
WholeCapacity(w) == w.maxWarnings
Places(w) == IF w.policy = "Trunc" /\ w.maxWarnings > 0 THEN w.maxWarnings - 1
             ELSE w.maxWarnings

Listed(w, item) == [w EXCEPT !.list = Append(@, item)]

FirstOverflow(w, item) ==
  LET v == [w EXCEPT !.overflowed = TRUE, !.firstDropPos = item.pos]
  IN IF w.policy = "Drop" THEN v
     ELSE [v EXCEPT !.droppedCount = 1,
                    !.list = IF w.maxWarnings = 0 THEN @
                             ELSE Append(@, Warning("WarningsTruncated", item.pos))]

Add(w, item) ==
  IF w.policy = "NoRec" THEN w
  ELSE IF w.policy = "NoCap" THEN Listed(w, item)
  ELSE IF w.overflowed
       THEN IF w.policy = "Trunc" THEN [w EXCEPT !.droppedCount = @ + 1] ELSE w
  ELSE IF Len(w.list) < Places(w) THEN Listed(w, item)
  ELSE FirstOverflow(w, item)

(* The warnings of one token, of which there are at most two. *)
AddAll(w, items) ==
  LET first == IF items = <<>> THEN w ELSE Add(w, items[1])
  IN IF Len(items) < 2 THEN first ELSE Add(first, items[2])

-----------------------------------------------------------------------------
(* What the collector has to look like after the warnings `raised' have     *)
(* been added to it one by one: the kept ones are the first ones, nothing   *)
(* is lost without a trace under Trunc, and overflowed says that something  *)
(* was lost.  warnings.go:63 and :73 say that it is true once the list has  *)
(* reached its capacity; the code sets it with the first warning that finds *)
(* no place (:125), so a full list with nothing lost is no overflow, and    *)
(* this follows the code.                                                  *)
Faithful(w, raised) ==
  LET n    == Len(raised)
      kept == CASE w.policy = "NoRec" -> 0
                [] w.policy = "NoCap" -> n
                [] w.policy = "Drop"  -> IF n < w.maxWarnings THEN n ELSE w.maxWarnings
                [] w.policy = "Trunc" -> IF n < w.maxWarnings THEN n
                                         ELSE IF w.maxWarnings = 0 THEN 0
                                         ELSE w.maxWarnings - 1
      lost   == w.policy \in {"Drop", "Trunc"} /\ kept < n
      marked == w.policy = "Trunc" /\ lost /\ w.maxWarnings > 0
  IN /\ w.overflowed <=> lost
     /\ Len(w.list) = kept + (IF marked THEN 1 ELSE 0)
     /\ \A i \in 1..kept : w.list[i] = raised[i]
     /\ lost => w.firstDropPos = raised[kept + 1].pos
     /\ marked => w.list[kept + 1] = Warning("WarningsTruncated", w.firstDropPos)
     /\ w.policy = "Trunc" => w.droppedCount = n - kept
     /\ w.policy \in {"Drop", "Trunc"} => Len(w.list) <= w.maxWarnings
=============================================================================
