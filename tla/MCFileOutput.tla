---------------------------- MODULE MCFileOutput ----------------------------
(* A text, its reduction, and another text that nothing can be removed from. *)
(* Two reductions of the file at once, or one next to an editor.             *)
EXTENDS FileOutput
CONSTANTS j1, j2

MCContent == {"full", "other", "small"}
MCReduce == [c \in MCContent |-> IF c = "full" THEN "small" ELSE c]
MCKinds == [place : {"in", "out"}, container : BOOLEAN]
Absent == [place |-> "none", container |-> FALSE]
MCStarts ==
  [Job -> MCKinds]
    \cup {[t \in Job |-> IF t = j1 THEN k ELSE Absent] : k \in MCKinds}
MCInode == 1..5
=============================================================================
