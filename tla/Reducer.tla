------------------------------ MODULE Reducer -------------------------------
(***************************************************************************)
(* main.rs: what one start of the reducer does.  Its arguments make it the *)
(* reduction of a file, which is a session of its own, or of a Cargo       *)
(* project, whose adapters run a session each; those sessions are single   *)
(* steps of CargoProject.                                                  *)
(***************************************************************************)
EXTENDS ReductionSession

CONSTANTS Projects, Plans

\* A compilation is not the absence of a result.
ASSUME PlanAssumption ==
  \A p \in Plans : "none" \notin DOMAIN p

VARIABLES
  main,    \* what the process does
  project, plan, outer, cargo, unit, chosen, recorded, libraries, source

Project == INSTANCE CargoProject

project_vars == <<project, plan, outer, cargo, unit, chosen, recorded, libraries, source>>
allVars == <<main, vars, project_vars>>

\* run: the arguments decide which of the two it is; for a file they also give
\* the output path, and the host's target if they name none.
Start ==
  /\ Init /\ Project!Init
  /\ \/ /\ main = "file" /\ libraries = "missing"
        /\ project = (CHOOSE p \in Projects : TRUE) /\ plan = (CHOOSE p \in Plans : TRUE)
     \/ /\ main = "project"
        /\ program = (CHOOSE p \in Programs : TRUE) /\ options = (CHOOSE o \in Options : TRUE)

\* run of a file: the reduction is written, or its error is rendered.
Write ==
  /\ main = "file" /\ pc = "returned"
  /\ main' \in IF outcome.kind = "reduction" THEN {"written", "failed"} ELSE {"failed"}
  /\ UNCHANGED <<vars, project_vars>>

FileStep == main = "file" /\ Next /\ UNCHANGED <<main, project_vars>>
ProjectStep == main = "project" /\ Project!Next /\ UNCHANGED <<main, vars>>

Run == Write \/ FileStep \/ ProjectStep

ReducerSpec ==
  /\ Start /\ [][Run]_allVars
  /\ WF_allVars(Write) /\ WF_allVars(main = "file" /\ Session /\ UNCHANGED <<main, project_vars>>)

-----------------------------------------------------------------------------
\* A file is written only with a reduction that the compiler has accepted
\* without an error, and about which it has decided the same as about the
\* original, in what it uses of external crates and in everything else.
WrittenIsVerified ==
  main = "written" \/ outcome.kind = "reduction" =>
    /\ phase = "reduced" /\ same.external /\ same.decisions
    /\ errors = <<>> /\ parsed /\ expanded /\ result.kind = "inspected"

\* What the analyzer itself refuses to the compiler is reported as unsupported
\* input if it came first, never as an error of the program or of the compiler;
\* and a file or a macro that was refused after an error is not given as the
\* cause.
DenialIsNotAnError ==
  /\ outcome.kind \in {"OriginalCompilationFailed", "ReducedCompilationFailed", "CompilerFailure"}
       => first # "denial"
  /\ outcome.kind = "UnsupportedInput" /\ result = None =>
       (outcome.reason \in {"AdditionalSourceFile", "ProcMacro"} => first = "denial")

\* Definitions are looked up in the inventory of the source they come from, the
\* two graphs that are compared have the same coordinates, and every range that
\* is reported is one of the source the user knows, also when the compiler has
\* found it in the rewritten source.
JoinedInOneText ==
  /\ "range" \in DOMAIN outcome => outcome.range \in {"none", "original"}
  /\ coords.constraints \in {"none", Text}
  /\ result.kind = "inspected" =>
       coords.constraints = Text /\ coords.keys = "original" /\ coords.ranges = "original"

\* The cfg attributes of every node around an item have a say: what is removed
\* before expansion is never the reason for a rejection.
RejectsCompiledCodeOnly ==
  result.kind = "UnsupportedInput" /\ ~expanded /\ program.features = {} =>
    \E i \in 1..Len(program.nodes) :
      /\ program.nodes[i].attr = result.reason \/ program.nodes[i].is \notin {"plain", "std"}
      /\ program.active
      /\ \E path \in SUBSET (1..Len(program.nodes)) :
           /\ i \in path
           /\ \A j \in path : program.nodes[j].on /\ program.nodes[j].up \in path \cup {0}

UpdateIsSelected == Project!UpdateIsSelected

\* A reduction of a file ends, however the compiler behaves between two callbacks.
ReductionEnds == main = "file" ~> main \in {"written", "failed"}
=============================================================================
