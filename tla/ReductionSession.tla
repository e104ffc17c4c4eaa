-------------------------- MODULE ReductionSession --------------------------
(***************************************************************************)
(* api.rs and the session part of input.rs: one reduction, which compiles  *)
(* the program twice.  The original is inspected, what must stay is        *)
(* computed, the source is rewritten, the rewritten source is inspected    *)
(* under the same conditions, and the result counts only if the compiler   *)
(* has decided the same.                                                   *)
(*                                                                         *)
(* The compiler is the environment: between the callbacks it reports       *)
(* errors, asks for files and procedural macros, and gives up.  Afterwards *)
(* the session tells from what it has recorded why there is no result.     *)
(***************************************************************************)
EXTENDS Naturals, Sequences, FiniteSets

CONSTANTS
  Programs,    \* the sources to consider, as the validators see them
  Options,     \* the compilation options to consider
  MaxErrors    \* bound: errors the compiler reports in an inspection

NoPlace == 1000    \* a span that does not lie in the source, sorted last
None == [kind |-> "none"]

\* What the compiler may report: a diagnostic with its code and level, and
\* whether its primary span is in the source.
\* An internal error has no code.
Diagnostic ==
  {d \in [code : {"E0554", "E0463", "other"}, bug : BOOLEAN, ranged : BOOLEAN] :
     d.bug => d.code = "other"}

ASSUME SessionAssumption ==
  /\ MaxErrors \in Nat \ {0}
  /\ \A o \in Options : /\ o.mode \in {"standalone", "invocation"}
                        /\ o.crate \in {"bin", "lib"} /\ o.valid \in BOOLEAN

\* The nodes of a program are those of its syntax tree, each after the one around
\* it; 0 is the crate.
ASSUME ProgramAssumption ==
  \A p \in Programs :
    /\ p.active \in BOOLEAN /\ Len(p.nodes) \in Nat
    /\ \A i \in 1..Len(p.nodes) : p.nodes[i].up \in 0..(i - 1) /\ p.nodes[i].on \in BOOLEAN

VARIABLES
  program, options,   \* the source being inspected; what the caller asked for
  same,               \* facts: what the reduced program shares with the original
  phase, pc,          \* CompilationPhase; where the session is
  errors,             \* DiagnosticState: the errors of this inspection
  file, macro,        \* denied_file and denied_proc_macro
  resources,          \* denied_resources: whether each one has a span
  parsed, expanded,   \* main_start is known; expansion_complete
  coords,             \* the coordinates of what has been collected
  result,             \* result of the callbacks, then of the inspection
  outcome,            \* what reduce returns
  first               \* history: the first thing that went wrong

inspection == <<errors, file, macro, resources, parsed, expanded, coords, result, first>>
vars == <<program, options, same, phase, pc, inspection, outcome>>

Unsupported(reason, at) == [kind |-> "UnsupportedInput", reason |-> reason, range |-> at]
Error(kind) == [kind |-> kind]
Text == IF phase = "reduced" THEN "reduced" ELSE "original"    \* coordinates of spans

-----------------------------------------------------------------------------
(* Validation of the syntax tree before and after expansion                *)

\* The cfg state of a node is that of its ancestors and its own attributes.
\* Mutant: an attribute decides for its own node only.
ActiveAlone(p) == [i \in 0..Len(p.nodes) |-> IF i = 0 THEN p.active ELSE p.nodes[i].on]
Active(p) ==
  LET active[i \in 0..Len(p.nodes)] ==
        IF i = 0 THEN p.active ELSE p.nodes[i].on /\ active[p.nodes[i].up]
  IN  active

Supported(name) ==
  \/ options.mode = "invocation"
  \/ name \in {"plain", "unloaded", "std", "direct"}

CrateReason(name) == IF name = "proc_macro" THEN "ProcMacro" ELSE "ExternalDependency"

Rejection(reason, at) == [reason |-> reason, at |-> at]

UnexpandedRejections(p) ==
  LET items == {i \in 1..Len(p.nodes) : p.nodes[i].item /\ Active(p)[i]}
  IN  {Rejection(p.nodes[i].attr, p.nodes[i].at) : i \in {j \in items : p.nodes[j].attr # "none"}}
        \cup {Rejection("AdditionalSourceFile", p.nodes[i].at) :
                i \in {j \in items : p.nodes[j].is = "unloaded"}}
        \cup {Rejection(CrateReason(p.nodes[i].is), p.nodes[i].at) :
                i \in {j \in items : ~Supported(p.nodes[j].is)}}

\* An external macro may bring extern crate items of its own.
ExpandedRejections(p) ==
  {Rejection(n.attr, n.at) : n \in {m \in p.expanded : m.attr # "none"}}
    \cup {Rejection(CrateReason(n.is), n.at) :
            n \in {m \in p.expanded :
                     /\ ~Supported(m.is)
                     /\ ~(m.external /\ CrateReason(m.is) = "ExternalDependency")}}

\* The rejections that may be reported: those that start first.
Earliest(rejections) ==
  {r \in rejections : \A s \in rejections : r.at <= s.at}

\* unsupported: a rejection without a place is reported as incomplete.
Rejected(r) ==
  IF r.at = NoPlace THEN Error("InvalidSpan") ELSE Unsupported(r.reason, Text)

FeatureRejections(p) ==
  {Rejection("UnstableLanguageFeature", at) : at \in p.features}

ValidateUnexpanded(p) ==
  IF p.features # {} THEN {Rejected(r) : r \in Earliest(FeatureRejections(p))}
  ELSE {Rejected(r) : r \in Earliest(UnexpandedRejections(p))}

ValidateExpanded(p) == {Rejected(r) : r \in Earliest(ExpandedRejections(p))}

\* Builtin attribute macros under another name; here a rejection without a
\* place comes first.
ValidateAttributes(p) ==
  LET rejected == {r \in p.attributes : r.builtin}
  IN  {Rejected(r) : r \in {s \in rejected : s.at = NoPlace}
         \cup {s \in Earliest(rejected) : \A t \in rejected : t.at # NoPlace}}

StandardEntry(p) ==
  options.crate # "bin" \/ p.entry # "none"

TargetEntry(p) == options.crate # "bin" \/ p.entry # "no_main without entry"

-----------------------------------------------------------------------------
(* Entry points                                                            *)

\* A path is a sequence of names, the first that of the crate.  The children
\* of a module are its names with what they lead to: a module, a function or
\* static item, or something else, and whether every reexport on the way is
\* a definition of this crate.
EntryError(reason) == [kind |-> "InvalidEntryPoint", reason |-> reason]

ParsePath(path) ==
  IF Len(path) < 2 \/ "" \in {path[i] : i \in 1..Len(path)} THEN EntryError("InvalidPath")
  ELSE IF path[1] # "crate" THEN EntryError("WrongCrate")
  ELSE IF \E i \in 2..Len(path) : path[i] = "fn" THEN EntryError("InvalidPath")
  ELSE None

\* One step: to the only child of the wanted sort that the name leads to.
StepInto(p, module, name, last) ==
  LET named == {c \in p.children : c.in = module /\ c.name = name}
      wanted == {c \in named : c.sort = (IF last THEN "item" ELSE "mod")}
  IN  IF named = {} THEN EntryError("NotFound")
      ELSE IF Cardinality(wanted) # 1 THEN EntryError("UnsupportedItem")
      ELSE LET child == CHOOSE c \in wanted : TRUE
           IN  IF ~child.local THEN EntryError("UnsupportedItem")
               ELSE [kind |-> "found", to |-> child.to, reexports |-> child.via]

ResolveEntry(p, path) ==
  LET walk[i \in 1..Len(path)] ==
        IF i = 1 THEN [kind |-> "found", to |-> "root", reexports |-> {}]
        ELSE IF walk[i - 1].kind # "found" THEN walk[i - 1]
        ELSE LET next == StepInto(p, walk[i - 1].to, path[i], i = Len(path))
             IN  IF next.kind # "found" THEN next
                 ELSE [next EXCEPT !.reexports = @ \cup walk[i - 1].reexports]
  IN  IF ParsePath(path) # None THEN ParsePath(path) ELSE walk[Len(path)]

\* The errors of the entry points, of which the first in their order counts.
EntryErrors(p) ==
  {ResolveEntry(p, path) : path \in options.entries} \cap
    {EntryError(r) : r \in {"InvalidPath", "WrongCrate", "NotFound", "UnsupportedItem"}}

-----------------------------------------------------------------------------
(* The compiler between the callbacks                                      *)

Compiling == {"parsing", "expanding", "analyzing", "collecting"}

session == <<program, options, same, phase, outcome>>
Notice(what) == first' = IF first = "nothing" THEN what ELSE first
Stop == pc' = "stopped"

\* CapturingEmitter keeps errors only, in their order.  The queries of the
\* collection do not return when they have reported one.
Report ==
  /\ pc \in Compiling /\ Len(errors) < MaxErrors
  /\ \E d \in Diagnostic :
       /\ errors' = Append(errors, d)
       /\ Notice(IF d.bug THEN "bug" ELSE "error")
  /\ pc' = IF pc = "collecting" THEN "stopped" ELSE pc
  /\ UNCHANGED <<session, file, macro, resources, parsed, expanded, coords, result>>

\* The compiler stops, as it does after a fatal error.
GiveUp ==
  /\ pc \in Compiling /\ Stop
  /\ UNCHANGED <<session, inspection>>

\* Mutant: a denial that follows an error is taken for its cause.
UnexplainedAlways == TRUE
Unexplained == errors = <<>>

\* DenyExternalFiles: every access fails; the first one that nothing else
\* explains is remembered, unless expansion is over.
RequestFile ==
  /\ pc \in Compiling
  /\ \E reason \in {"AdditionalSourceFile", "ExternalCompileTimeResource"} :
       file' = IF ~expanded /\ Unexplained /\ file = "none" THEN reason ELSE file
  /\ IF expanded THEN UNCHANGED first ELSE Notice("denial")
  /\ UNCHANGED <<session, pc, errors, macro, resources, parsed, expanded, coords, result>>

\* ProcMacroLoadGuard: an artifact that was not allowed is not loaded.
LoadProcMacro ==
  /\ pc \in Compiling
  /\ macro' = (macro \/ Unexplained)
  /\ Notice("denial")
  /\ UNCHANGED <<session, pc, errors, file, resources, parsed, expanded, coords, result>>

\* ExternalResourceGuard: env! and option_env!; the compiler reports an error
\* for every use that it rejects.
RejectResource ==
  /\ pc \in Compiling /\ options.mode = "standalone" /\ Len(errors) < MaxErrors
  /\ \E spanned \in BOOLEAN :
       /\ resources' = resources \cup {spanned}
       /\ errors' = Append(errors, [code |-> "other", bug |-> FALSE, ranged |-> spanned])
  /\ Notice("denial")
  /\ pc' = IF pc = "collecting" THEN "stopped" ELSE pc
  /\ UNCHANGED <<session, file, macro, parsed, expanded, coords, result>>

-----------------------------------------------------------------------------
(* The callbacks                                                           *)

\* Mutant: a callback that has found an error lets the compiler go on.
FinishOn(new) == result' = new /\ UNCHANGED pc
Finish(new) == result' = new /\ Stop

\* after_crate_root_parsing.
AfterParsing ==
  /\ pc = "parsing"
  /\ IF errors # <<>> THEN Stop /\ UNCHANGED <<result, parsed>>
     ELSE /\ parsed' = TRUE
          /\ \/ Finish(Error("Source"))
             \/ \E e \in ValidateUnexpanded(program) : Finish(e)
             \/ /\ ValidateUnexpanded(program) = {}
                /\ pc' = "expanding" /\ UNCHANGED result
  /\ UNCHANGED <<session, errors, file, macro, resources, expanded, coords, first>>

\* after_expansion: attributes, expanded items, refinement of the inventory,
\* early lints (which may report errors), the standard entry.
AfterExpansion ==
  LET rejections == IF ValidateAttributes(program) # {} THEN ValidateAttributes(program)
                    ELSE ValidateExpanded(program)
  IN  /\ pc = "expanding"
      /\ IF errors # <<>> THEN Stop /\ UNCHANGED <<result, expanded>>
         ELSE /\ expanded' = TRUE
              /\ \/ \E e \in rejections : Finish(e)
                 \/ rejections = {} /\ Finish(Error("Source"))
                 \/ /\ rejections = {} /\ ~StandardEntry(program)
                    /\ Finish(Unsupported("MissingMain", "none"))
                 \/ /\ rejections = {} /\ StandardEntry(program)
                    /\ pc' = "analyzing" /\ UNCHANGED result
      /\ UNCHANGED <<session, errors, file, macro, resources, parsed, coords, first>>

\* after_analysis up to the collection: abort_if_errors, twice.
AfterAnalysis ==
  /\ pc = "analyzing"
  /\ IF errors # <<>> THEN Stop /\ UNCHANGED result
     ELSE IF ~TargetEntry(program) THEN Finish(Unsupported("MissingTargetEntry", "none"))
     ELSE \/ \E e \in EntryErrors(program) : Finish(e)
          \/ EntryErrors(program) = {} /\ pc' = "collecting" /\ UNCHANGED result
  /\ UNCHANGED <<session, errors, file, macro, resources, parsed, expanded, coords, first>>

\* collect_dependency_graph, step by step.  The graph of a rewritten program is
\* moved to the coordinates of the original: first the identities, by which the
\* original's definitions are found again, at the end all ranges.  Source
\* constraints look definitions up in the inventory of what is compiled.
\* Mutant: constraints are collected at the same place in both phases.
CollectionUniform ==
  IF phase = "original" THEN <<"definitions", "expansions", "mono", "constraints", "graph">>
  ELSE <<"definitions", "keys", "expansions", "mono", "constraints", "ranges", "graph">>
Collection ==
  IF phase = "original" THEN <<"definitions", "expansions", "mono", "constraints", "graph">>
  ELSE <<"definitions", "constraints", "keys", "expansions", "mono", "ranges", "graph">>

NoCoords == [done |-> 0, keys |-> "none", ranges |-> "none", constraints |-> "none"]

CollectStep(step) ==
  LET next == [coords EXCEPT !.done = @ + 1]
  IN  CASE step = "definitions" -> [next EXCEPT !.keys = Text, !.ranges = Text]
        [] step = "constraints" -> [next EXCEPT !.constraints = coords.keys]
        [] step = "keys" -> [next EXCEPT !.keys = "original"]
        [] step = "ranges" -> [next EXCEPT !.ranges = "original"]
        [] OTHER -> next

Collect ==
  /\ pc = "collecting"
  /\ \/ Finish(Error("Dependency")) /\ UNCHANGED coords
     \/ /\ coords' = CollectStep(Collection[coords.done + 1])
        /\ IF coords'.done = Len(Collection) THEN Finish(Error("inspected"))
           ELSE UNCHANGED <<pc, result>>
  /\ UNCHANGED <<session, errors, file, macro, resources, parsed, expanded, first>>

-----------------------------------------------------------------------------
(* run_inspection after the compiler has returned                          *)

\* map_input_error: ranges of a rewritten source go back to the original, or
\* the error is that they cannot.
\* Mutant: ranges are reported as the compiler gives them.
MapInputErrorNot(e) == {e}
MapInputError(e) ==
  IF phase = "original" \/ e.kind \notin {"UnsupportedInput", "CompilationFailed"}
       \/ e.range = "none"
    THEN {e}
    ELSE {[e EXCEPT !.range = "original"], Error("Rewrite")}

Ranged == \E i \in 1..Len(errors) : errors[i].ranged

\* The first error with one of these codes must have a range.
ByCode(code, reason) ==
  LET i == CHOOSE j \in 1..Len(errors) :
             errors[j].code = code /\ \A k \in 1..(j - 1) : errors[k].code # code
  IN  IF errors[i].ranged THEN MapInputError(Unsupported(reason, Text))
      ELSE {Error("InvalidSpan")}

HasCode(code) == \E i \in 1..Len(errors) : errors[i].code = code

\* Mutant: an ordinary error is enough to call the compilation failed.
FromErrorsFirst == errors # <<>> /\ result = None
FromErrors ==
  /\ resources = {} /\ ~macro /\ file = "none"
  /\ ~HasCode("E0554") /\ ~HasCode("E0463")

CompilationFailed ==
  IF \E i \in 1..Len(errors) : errors[i].bug THEN {Error("CompilerIce")}
  ELSE IF errors # <<>> THEN
    MapInputError([kind |-> "CompilationFailed", range |-> IF Ranged THEN Text ELSE "none"])
  ELSE {Error("CompilerProtocolFailure")}

Verdict ==
  IF result # None THEN MapInputError(result)
  ELSE IF FromErrors THEN CompilationFailed
  ELSE IF resources # {} THEN
    IF FALSE \in resources \/ ~parsed THEN {Error("InvalidSpan")}
    ELSE MapInputError(Unsupported("ExternalCompileTimeResource", Text))
  ELSE IF macro THEN
    MapInputError(Unsupported("ProcMacro", IF Ranged THEN Text ELSE "none"))
  ELSE IF HasCode("E0554") THEN ByCode("E0554", "UnstableLanguageFeature")
  ELSE IF HasCode("E0463") THEN ByCode("E0463", "ExternalDependency")
  ELSE IF Ranged THEN MapInputError(Unsupported(file, Text))
  ELSE {Error("InvalidSpan")}

-----------------------------------------------------------------------------
(* One reduction                                                           *)

Fresh ==
  /\ errors' = <<>> /\ file' = "none" /\ macro' = FALSE /\ resources' = {}
  /\ parsed' = FALSE /\ expanded' = FALSE /\ coords' = NoCoords
  /\ result' = None /\ first' = "nothing"

Init ==
  /\ program \in Programs /\ options \in Options
  /\ same = [external |-> FALSE, decisions |-> FALSE]
  /\ phase = "original" /\ pc = "prepare" /\ outcome = None
  /\ errors = <<>> /\ file = "none" /\ macro = FALSE /\ resources = {}
  /\ parsed = FALSE /\ expanded = FALSE /\ coords = NoCoords
  /\ result = None /\ first = "nothing"

\* analysis_error.
AnalysisError(e) ==
  CASE e.kind = "ExternalNativeLink" -> Unsupported("ExternalNativeLink", "none")
    [] e.kind \in {"InvalidCrateName", "MissingLibraryEntryPoint", "InvalidEntryPoint",
                   "UnsupportedInput"} -> e
    [] e.kind = "CompilationFailed" ->
         [e EXCEPT !.kind = IF phase = "original" THEN "OriginalCompilationFailed"
                                                   ELSE "ReducedCompilationFailed"]
    [] e.kind \in {"CompilerIce", "CompilerProtocolFailure"} -> Error("CompilerFailure")
    [] e.kind = "Rewrite" -> Error("SourceRewriteInvariantViolation")
    [] OTHER -> [kind |-> "IncompleteObservation", phase |-> phase]

Return(e) == outcome' = e /\ pc' = "returned"
ReturnError(e) == Return(AnalysisError(e))

\* Analyzer::new_with_options, CompilationContext::new: names, external crates,
\* the compiler's sysroot, the target's libraries.
Prepare ==
  /\ pc = "prepare"
  /\ \/ ~options.valid /\ Return(Error("InvalidOptions"))
     \/ options.valid /\ Return(Error("CompilerArtifactMismatch"))
     \/ /\ options.valid /\ options.crate = "lib" /\ options.entries = {}
        /\ ReturnError(Error("MissingLibraryEntryPoint"))
     \/ options.valid /\ ReturnError(Unsupported("UnsupportedTarget", "none"))
     \/ /\ options.valid /\ (options.crate = "lib" => options.entries # {})
        /\ pc' = "parsing" /\ UNCHANGED outcome
  /\ UNCHANGED <<program, options, same, phase, inspection>>

\* The end of an inspection: its error, or what has been collected.
Inspected ==
  /\ pc = "stopped"
  /\ \E v \in Verdict :
       IF v.kind # "inspected" THEN ReturnError(v)
       ELSE /\ pc' = IF phase = "original" THEN "planning" ELSE "comparing"
            /\ UNCHANGED outcome
  /\ UNCHANGED <<program, options, same, phase, inspection>>

\* plan_reduction, the snapshot of the original, and the start of the second
\* inspection under the options of the first.
Plan ==
  /\ pc = "planning"
  /\ \/ /\ \E kind \in {"Retention", "ExternalNativeLink", "Rewrite", "Snapshot"} :
             ReturnError(Error(kind))
        /\ UNCHANGED <<program, same, phase, inspection>>
     \/ /\ program' \in Programs
        /\ same' \in [external : BOOLEAN, decisions : BOOLEAN]
        /\ phase' = "reduced" /\ pc' = "parsing" /\ Fresh
        /\ UNCHANGED outcome
  /\ UNCHANGED options

\* Mutant: one difference is enough for a mismatch only if both are found.
DifferentBoth == ~same.external /\ ~same.decisions
Different == ~same.external \/ ~same.decisions

\* The comparison of the two observations: what external crates were used for,
\* then the decisions.
Compare ==
  /\ pc = "comparing"
  /\ \/ ReturnError(Error("Retention"))
     \/ Return([kind |-> "IncompleteObservation", phase |-> "snapshot"])
     \/ Return(IF Different THEN Error("DecisionMismatch") ELSE Error("reduction"))
  /\ UNCHANGED <<program, options, same, phase, inspection>>

Compiler == Report \/ RequestFile \/ LoadProcMacro \/ RejectResource
Session ==
  \/ Prepare \/ GiveUp \/ AfterParsing \/ AfterExpansion \/ AfterAnalysis \/ Collect
  \/ Inspected \/ Plan \/ Compare

Next == Compiler \/ Session

Spec == Init /\ [][Next]_vars

\* The compiler does not run forever between two callbacks.
FairSpec == Spec /\ WF_vars(Session)
=============================================================================
