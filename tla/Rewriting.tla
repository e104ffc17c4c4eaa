------------------------------- MODULE Rewriting -------------------------------
(***************************************************************************)
(* From a written crate with macros to its rewritten text: the inventory   *)
(* is refined by what the compiler saw, the retention grows as the         *)
(* compiler demands units (compute_retention of src/src/retention.rs, its  *)
(* source constraints and its index of macro repetitions), and once it is  *)
(* closed everything else is deleted (src/src/rewrite.rs).                 *)
(***************************************************************************)
EXTENDS DefinitionEdges

-----------------------------------------------------------------------------
(***************************************************************************)
(* What one session learns of a crate: the inventory is refined by what    *)
(* the compiler saw, the definitions get their identities, and what they   *)
(* need of each other becomes constraints of the inventory                 *)
(* (analyze_dependencies and collect_dependency_graph of src/src/input.rs).*)
(*                                                                         *)
(* A crate is [text, nodes, report, program]: its syntax tree, what the    *)
(* compiler reports of its derives, and its macros and expansions.         *)
(***************************************************************************)

-----------------------------------------------------------------------------
(* The inventory of a crate.                                               *)

InventoryOf(text, collected) ==
    [text |-> text, units |-> collected.units, deriveTargets |-> collected.deriveTargets,
     pieces |-> <<>>, macroRules |-> {}, templates |-> {}, captureSlots |-> {},
     repetitions |-> <<>>, requirements |-> {}, conditional |-> {}, disjunctions |-> {},
     produced |-> {}]

Written(crate) ==
    WithPieces(InventoryOf(crate.text,
        RefineDeriveTargets(crate.nodes, crate.report, CollectUnits(crate.text, crate.nodes))))

\* The text of an expansion's call, as the units see it: a call in a template
\* needs the innermost unit around it and all its parent needed.
RECURSIVE CallSite(_, _, _)
CallSite(inventory, program, e) ==
    LET expansion == program.expansions[e]
        around == {u \in Units(inventory) :
                      RangeContains(Full(inventory, u), expansion.call)}
        innermost == {CHOOSE u \in around : \A v \in around \ {u} : Inner(inventory, u, v)}
    IN IF expansion.discoveredIn = 0 THEN innermost
       ELSE innermost \cup CallSite(inventory, program, expansion.discoveredIn)

\* A call that remains needs the rule it selected.
RuleSelections(inventory, program) ==
    UNION {{[when |-> CallSite(inventory, program, e), required |-> rule] :
                rule \in SelectedWrittenRule(inventory, program, e)} :
              e \in DOMAIN program.expansions}

\* The written tokens of an output.
WrittenTokens(output) ==
    {output[k].range : k \in {j \in DOMAIN output : output[j].tag # "repetition"}}

\* An inventory with the constraints that follow from its units and facts.
Constrained(inventory, program) ==
    [inventory EXCEPT
        !.requirements = Requirements(inventory),
        !.conditional = MatcherRequirements(inventory) \cup RuleSelections(inventory, program),
        !.disjunctions = Disjunctions(inventory),
        !.produced = UNION {WrittenTokens(Seen(inventory, program, e).output) :
                               e \in EligibleDeclarativeExpansions(inventory, program)}]

\* The refined inventory of a crate.
Refine(inventory, program) ==
    Constrained(Commit(inventory,
                       RefinementDraft(inventory, program, RewriteGuard(inventory.text))),
                program)

Refined(crate) == Refine(RefineMacroRules(Written(crate), crate.program), crate.program)

-----------------------------------------------------------------------------
(* A session.                                                              *)

NoSession(inventory) ==
    [ok |-> FALSE, inventory |-> inventory, definitions |-> NoDefinitions, edges |-> {}]

SessionWithEdges(crate, inventory, definitions, edges) ==
    LET unitOf == [n \in {k \in DOMAIN crate.nodes : Defines(crate.nodes, k)} |->
                     SourceUnitOf(definitions, CHOOSE d \in DOMAIN definitions.hir :
                        definitions.hir[d].node = n /\ definitions.hir[d].made # "Derived")]
    IN [ok |-> TRUE, definitions |-> definitions, edges |-> edges,
        inventory |-> [inventory EXCEPT
           !.conditional = @ \cup EdgeRequirements(inventory, definitions, edges)
                             \cup MemberRequirements(crate.nodes, unitOf)]]

SessionWith(crate, inventory, definitions) ==
    IF HasError(crate.nodes) \/ ~definitions.ok THEN NoSession(inventory)
    ELSE SessionWithEdges(crate, inventory, definitions,
             CollectEdges(inventory, crate.nodes, crate.program, definitions))

\* A session of a refined crate. coordinates is the rewrite that led to the
\* crate's text, none for the original, expected the
\* identities that the first session of the reduction found.
Session(crate, inventory, coordinates, expected) ==
    SessionWith(crate, inventory,
        CollectDefinitions(inventory, crate.nodes, crate.program, coordinates, expected))

-----------------------------------------------------------------------------
(* The pipeline.                                                           *)

CONSTANTS Crates,    \* the crates, a sequence of records
          Demanded   \* the kinds of units that the compiler demands; not a rule
                     \* but for a call, nor a tree of uses but for a leaf

\* The first session of a crate.
Original(written) == Session(written, Refined(written), {}, {})

-----------------------------------------------------------------------------
VARIABLES
    crate,      \* the crate being reduced
    original,   \* what the first session learned of it
    guard,      \* its text and parser tokens
    phase,      \* "open", "closed", "rewritten" or "failed"
    retained,   \* the retained units
    index,      \* the index of the active repetition deletions
    rewrite     \* the rewritten source

vars == <<crate, original, guard, phase, retained, index, rewrite>>

Program == crate.program
inventory == original.inventory

Root == CHOOSE u \in Units(inventory) : Parent(inventory, u) = 0

Init ==
    /\ \E c \in DOMAIN Crates : crate = Crates[c]
    /\ original = Original(crate)
    /\ guard = RewriteGuard(crate.text)
    /\ phase = "open"
    /\ retained = ClosedUnits(inventory, {Root})
    /\ index = InitialRequirements(inventory)
    /\ rewrite = NoRewrite

\* A part of a template is needed for a token of the output that it owns, and a
\* derive's attribute for a name that it lists.
NeededForItself(u) ==
    /\ u \in TemplateUnits(inventory) =>
          \E k \in DOMAIN inventory.pieces :
              /\ inventory.pieces[k].owner = u
              /\ inventory.pieces[k].range \in inventory.produced
    /\ \A a \in CompleteAttributes(inventory) : a.attribute # u

\* The compiler needs a unit, for one of its definitions or expansions.
Demand(u) ==
    /\ phase = "open"
    /\ u \in Units(inventory) \ retained
    /\ ActiveOf(inventory, u, Demanded)
    /\ NeededForItself(u)
    /\ retained' = ClosedUnits(inventory, retained \cup {u})
    /\ UNCHANGED <<crate, original, guard, phase, index, rewrite>>

\* Nothing is left to deduce: one choice of an unsatisfied disjunction is made.
Select(d, u) ==
    /\ phase = "open"
    /\ d \in Unsatisfied(inventory, retained)
    /\ u \in d.choices
    /\ retained' = ClosedUnits(inventory, retained \cup {u})
    /\ UNCHANGED <<crate, original, guard, phase, index, rewrite>>

\* Nothing is left to choose: the deletions so far are judged, and the elements
\* whose deletion would change other tokens are retained.
Judge(forced) ==
    /\ phase' = CASE index'.failed -> "failed"
                  [] ~index'.failed /\ forced = {} -> "closed"
                  [] OTHER -> "open"
    /\ retained' = ClosedUnits(inventory, retained \cup forced)

CloseTokens ==
    /\ phase = "open"
    /\ Unsatisfied(inventory, retained) = {}
    /\ IF inventory.repetitions = <<>>
       THEN phase' = "closed" /\ UNCHANGED <<retained, index>>
       ELSE /\ index' = Absorb(inventory, guard, index, retained \ index.known)
            /\ Judge(ForcedUnits(inventory, guard, index') \ retained)
    /\ UNCHANGED <<crate, original, guard, rewrite>>

Rewrite ==
    /\ phase = "closed"
    /\ rewrite' = RewriteSource(inventory, guard, retained)
    /\ phase' = IF rewrite'.ok THEN "rewritten" ELSE "failed"
    /\ UNCHANGED <<crate, original, guard, retained, index>>

Next ==
    \/ \E u \in Units(inventory) : Demand(u)
    \/ \E d \in inventory.disjunctions : \E u \in d.choices : Select(d, u)
    \/ CloseTokens
    \/ Rewrite

Spec == Init /\ [][Next]_vars

-----------------------------------------------------------------------------
(* What is left of the original. *)

Survives(range) ==
    \E k \in DOMAIN rewrite.pieces : RangeContains(rewrite.pieces[k].original, range)

\* The text that is left of a range of the original.
Remains(range) ==
    LET Common(k) ==
            ByteRange(Max({range.start, rewrite.pieces[k].original.start}),
                      Min({range.end, rewrite.pieces[k].original.end}))
    IN FlattenSeq([k \in DOMAIN rewrite.pieces |->
          IF Common(k).start < Common(k).end THEN Slice(inventory.text, Common(k))
          ELSE <<>>])

\* The rules of an expansion's definition that are left, in order.
RemainingRules(expansion) ==
    SelectSeq(Program.definitions[expansion.definition].rules,
              LAMBDA r : ParserTokens(Remains(r)) # <<>>)

\* An output token that every part it comes from keeps.
StillProduced(seen, token) ==
    /\ Survives(token.range)
    /\ \A iteration \in token.iterations :
          \E k \in iteration[1] .. iteration[2] - 1 : Survives(seen.input[k].range)

\* The output that the rewrite leaves, without the separators of repetitions.
TextsOf(output) ==
    LET written == SelectSeq(output, LAMBDA t : t.tag # "repetition")
    IN [k \in DOMAIN written |-> written[k].text]

KeptOutput(seen) == SelectSeq(seen.output, LAMBDA t : StillProduced(seen, t))

OriginalOutput(e) == TextsOf(KeptOutput(Seen(inventory, Program, e)))

\* What the compiler makes of the call in the rewritten text: the rules it may
\* select, and for each the output.
MeaningUnder(ranges, rules, input) ==
    {[rule |-> ranges[k], bound |-> Bound(rules[k].template, rules[k].matcher),
      output |-> IF Bound(rules[k].template, rules[k].matcher)
                 THEN TextsOf(Transcription(rules[k], input)) ELSE <<>>] :
        k \in FirstRule(rules, input)}

ParsedRules(ranges) ==
    [k \in DOMAIN ranges |-> ParsedRule(ParserTokens(Remains(ranges[k])))]

MeaningAmong(ranges, call) ==
    MeaningUnder(ranges, ParsedRules(ranges), InputTokens(ParserTokens(Remains(call))))

NewMeaning(e) ==
    MeaningAmong(RemainingRules(Program.expansions[e]), Program.expansions[e].call)

OldMeaning(e) ==
    {[rule |-> Program.definitions[Program.expansions[e].definition].rules
                    [Program.expansions[e].rule],
      bound |-> TRUE, output |-> OriginalOutput(e)]}

\* The calls that the rewritten text still makes.
RemainingCalls ==
    {e \in DOMAIN Program.expansions :
        CallSite(inventory, Program, e) \subseteq retained}

-----------------------------------------------------------------------------
(* Properties. *)

\* Every macro call that is left selects in the rewritten text the rule it
\* selected before, whichever other rules, captures and elements of its input
\* are gone, and produces from it the tokens that the rewrite kept, no more and
\* no fewer and in their order (source_macro_matcher_requirements, the token
\* guard and the separators of macro_repetition.rs).
MeaningKept ==
    phase = "rewritten" =>
        \A e \in RemainingCalls : NewMeaning(e) = OldMeaning(e)

\* The tokens of the rewritten text are original tokens that were kept whole,
\* and each goes back to its own place: no two were joined by what was deleted
\* between them (ParserTokenRewriteGuard and OriginalRange of rewrite.rs).
TokensReturn ==
    phase = "rewritten" =>
        LET tokens == ParserTokens(rewrite.source)
            kept == SelectSeq(guard.tokens, LAMBDA t : Survives(t.range))
        IN /\ Identities(tokens) = Identities(kept)
           /\ \A k \in DOMAIN tokens :
                 OriginalRange(rewrite, tokens[k].range) = {kept[k].range}

\* A unit is in the rewritten text exactly when it was retained, and a token of
\* a retained unit that is gone is a separator or the input of a capture that
\* is gone (frontier_deletions and the list rewrites of rewrite.rs).
OnlyUnretainedGoes ==
    phase = "rewritten" =>
        /\ \A u \in Units(inventory) \ {Root} :
              u \in retained <=> \E k \in DOMAIN guard.tokens :
                  /\ RangeContains(Full(inventory, u), guard.tokens[k].range)
                  /\ Survives(guard.tokens[k].range)
        /\ \A k \in DOMAIN inventory.pieces :
              LET piece == inventory.pieces[k]
                  inputs == UNION {{i.deletion : i \in s.inputs} :
                                      s \in {x \in inventory.captureSlots :
                                                x.unit \notin retained}}
              IN \/ piece.kind = "Trivia"
                 \/ piece.owner \notin retained
                 \/ Survives(piece.range)
                 \/ Slice(inventory.text, piece.range) \in {<<",">>, <<";">>, <<"=">>, <<">">>}
                 \/ \E i \in inputs : RangeContains(i, piece.range)

\* A closed retention can always be rewritten: the index that was kept up to
\* date while it grew agrees with the final check of the whole text, and the
\* elements kept by choice satisfy every repetition
\* (MacroRepetitionTokenRequirements::close and macro_repetition_deletions).
NeverFails == phase # "failed"

\* After every wave the index holds exactly the deletions that the retention
\* implies, those that touch in one component and those of a window in one
\* cohort, as if it had been built anew (component_index_is_consistent).
IndexIsCurrent ==
    phase \in {"closed", "rewritten"} =>
        LET facts == {inventory.repetitions[r] : r \in DOMAIN inventory.repetitions}
            planned == UNION {PlannedDeletions(inventory, f, retained) : f \in facts}
            Meet(d) == {o \in index.deletions : o.range.end = d.range.start
                                                \/ o.range.start = d.range.end}
        IN /\ RangesOf(index.deletions) = planned
           /\ \A d \in index.deletions :
                 /\ index.components[d.component] =
                        RangesOf({o \in index.deletions : o.component = d.component})
                 /\ \A o \in Meet(d) : o.component = d.component
                 /\ Merged(index.components[d.component])
                        = {ComponentRange(index.components[d.component])}
           /\ index.cohorts = {<<DependencyWindow(guard, r), r>> : r \in planned}

\* What the refinement makes of a crate satisfies every rule that its own
\* validation, and that of the inventory, puts on it
\* (validate_declarative_macro_source_facts).
RefinementIsValid ==
    index.known = {} =>
        /\ ValidUnits(inventory)
        /\ ValidPieces(inventory)
        /\ ValidDeriveTargets(inventory)
        /\ ValidDeclarativeMacroSourceFacts(inventory, guard)
=============================================================================
