---------------------------- MODULE CargoProject ----------------------------
(***************************************************************************)
(* cargo_project.rs: the reduction of a binary of a Cargo project.         *)
(*                                                                         *)
(* The reducer selects the binary, reads its source, and runs Cargo with   *)
(* itself as the compiler.  Cargo starts one adapter per compilation, any  *)
(* number at once; the one that carries the marker reduces the source and  *)
(* records the result, the others compile.  An adapter that compiles for a *)
(* foreign target has the launcher prepare that target's libraries first.  *)
(* When Cargo has succeeded the reducer replaces the source.               *)
(***************************************************************************)
EXTENDS Naturals, FiniteSets

CONSTANTS
  Projects,    \* what cargo metadata may say, with the user's selection
  Plans        \* the compilations Cargo may decide on

NoText == "none"

\* A compilation is how often its arguments have the marker, whether rustc can
\* parse them, its target, and what it builds: binary, manifest, inputs.
VARIABLES
  project, plan,    \* the project; the compilations of this run
  outer, cargo,     \* the reducer that the user started; Cargo
  unit,             \* each compilation's adapter
  chosen,           \* the binary that was selected
  recorded,         \* the result file: the unit that wrote it, or NoText
  libraries,        \* of the foreign target: missing, partial or complete
  source            \* the selected source: as read, edited meanwhile, replaced

project_vars == <<project, plan, outer, cargo, unit, chosen, recorded, libraries, source>>

Init ==
  /\ project \in Projects /\ plan \in Plans
  /\ outer = "select" /\ cargo = "none"
  /\ unit = [u \in DOMAIN plan |-> "waiting"]
  /\ chosen = NoText /\ recorded = NoText
  /\ libraries \in {"missing", "partial", "complete"} /\ source = "original"

-----------------------------------------------------------------------------
(* The outer reducer                                                       *)

\* Members are the selected package, if it is one, or the default members.
Members(p) ==
  IF p.package # NoText THEN {p.package} \cap p.workspace ELSE p.defaults

Candidates(p) ==
  {b \in p.binaries : b.package \in Members(p) /\ (p.bin = NoText \/ b.name = p.bin)}

\* reduce up to the start of Cargo: metadata, selection, the source, the
\* temporary directory and the configuration of the adapters.
Select ==
  /\ outer = "select"
  /\ \/ outer' = "failed" /\ UNCHANGED <<chosen, cargo>>
     \/ /\ Cardinality(Candidates(project)) = 1
        /\ chosen' = (CHOOSE b \in Candidates(project) : TRUE).name
        /\ outer' = "waiting" /\ cargo' = "running"
  /\ UNCHANGED <<project, plan, unit, recorded, libraries, source>>

\* status, the result, and SourceOutput::write, which refuses a source that
\* has changed.
\* Mutant: Cargo's exit status is not looked at.
SucceededAnyway == cargo # "running"
Succeeded == cargo = "ok"

Update ==
  /\ outer = "waiting" /\ cargo # "running"
  /\ IF Succeeded /\ recorded # NoText /\ source = "original"
       THEN outer' = "done" /\ source' = "replaced"
       ELSE outer' = "failed" /\ UNCHANGED source
  /\ UNCHANGED <<project, plan, cargo, unit, chosen, recorded, libraries>>

EditSource ==
  /\ outer = "waiting" /\ source = "original" /\ source' = "edited"
  /\ UNCHANGED <<project, plan, outer, cargo, unit, chosen, recorded, libraries>>

-----------------------------------------------------------------------------
(* Cargo, as far as the adapters can tell                                  *)

Ended == {"built", "recorded", "failed"}

Start(u) ==
  /\ cargo = "running" /\ unit[u] = "waiting"
  /\ \A v \in DOMAIN plan : unit[v] # "failed"
  /\ unit' = [unit EXCEPT ![u] = "arguments"]
  /\ UNCHANGED <<project, plan, outer, cargo, chosen, recorded, libraries, source>>

\* A failed compilation fails the build; what is up to date is not compiled.
CargoEnds ==
  /\ cargo = "running"
  /\ \A v \in DOMAIN plan : unit[v] \in Ended \cup {"waiting"}
  /\ cargo' = IF \E v \in DOMAIN plan : unit[v] = "failed" THEN "failed" ELSE "ok"
  /\ UNCHANGED <<project, plan, outer, unit, chosen, recorded, libraries, source>>

-----------------------------------------------------------------------------
(* An adapter                                                              *)

To(u, next) ==
  /\ unit' = [unit EXCEPT ![u] = next]
  /\ UNCHANGED <<project, plan, outer, cargo, chosen>>

\* Response files, the marker, and options: without a marker it is rustc.
Arguments(u) ==
  /\ unit[u] = "arguments"
  /\ \/ To(u, "failed")
     \/ /\ plan[u].markers <= 1 /\ (plan[u].markers = 1 => plan[u].parsed)
        /\ To(u, IF plan[u].target = "host" THEN "ready" ELSE "libraries")
  /\ UNCHANGED <<recorded, libraries, source>>

\* prepare_target: what is neither missing nor complete is an error.
Libraries(u) ==
  /\ unit[u] = "libraries"
  /\ CASE libraries = "partial" -> To(u, "failed")
       [] libraries = "complete" -> To(u, "ready")
       [] OTHER -> To(u, "launcher") \/ To(u, "failed")
  /\ UNCHANGED <<recorded, libraries, source>>

\* The launcher prepares them and says so; it is not taken at its word.
CheckedAgain == libraries' = "complete"

Launch(u) ==
  /\ unit[u] = "launcher"
  /\ libraries' \in {libraries, "complete"}
  /\ \/ To(u, "failed")
     \/ CheckedAgain /\ To(u, "ready")
  /\ UNCHANGED <<recorded, source>>

Build(u) ==
  /\ unit[u] = "ready" /\ plan[u].markers = 0
  /\ To(u, "built") \/ To(u, "failed")
  /\ UNCHANGED <<recorded, libraries, source>>

\* Mutant: the marker is enough.
IsSelectedAssumed(u) == TRUE
IsSelected(u) ==
  /\ plan[u].bin = chosen /\ plan[u].manifest = "selected"
  /\ plan[u].inputs = {"selected"}

\* CompilerInvocation::reduce of the source that the outer reducer has read.
Reduce(u) ==
  /\ unit[u] = "ready" /\ plan[u].markers = 1
  /\ IF IsSelected(u) THEN To(u, "reduced") \/ To(u, "failed") ELSE To(u, "failed")
  /\ UNCHANGED <<recorded, libraries, source>>

\* write_new: the result file is created once.
\* Mutant: a later result replaces an earlier one.
ResultFreeAssumed == TRUE
ResultFree == recorded = NoText

Record(u) ==
  /\ unit[u] = "reduced"
  /\ \/ To(u, "failed") /\ UNCHANGED recorded
     \/ ResultFree /\ recorded' = u /\ To(u, "recorded")
  /\ UNCHANGED <<libraries, source>>

Adapter(u) ==
  Arguments(u) \/ Libraries(u) \/ Launch(u) \/ Build(u) \/ Reduce(u) \/ Record(u)

Next ==
  \/ Select \/ Update \/ EditSource \/ CargoEnds
  \/ \E u \in DOMAIN plan : Start(u) \/ Adapter(u)

Spec == Init /\ [][Next]_project_vars

-----------------------------------------------------------------------------
\* A project's source is replaced only if exactly one compilation has reduced
\* it, that of the selected binary, and nothing that Cargo started has failed,
\* whatever Cargo does with the marker and however compilations overlap.
UpdateIsSelected ==
  source = "replaced" =>
    /\ \A u \in DOMAIN plan : unit[u] \notin {"failed", "reduced"}
    /\ \E u \in DOMAIN plan :
         recorded = u /\ plan[u].bin = chosen /\ plan[u].manifest = "selected"
    /\ {u \in DOMAIN plan : unit[u] = "recorded"} = {recorded}
=============================================================================
