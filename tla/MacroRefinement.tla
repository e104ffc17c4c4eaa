--------------------------- MODULE MacroRefinement ---------------------------
(***************************************************************************)
(* Splitting written macros into units of their own, from what the         *)
(* compiler saw (src/src/source.rs 250-360, 1598-1911, 2181-2249 and       *)
(* src/src/source/declarative_macro): a rule of a definition, a part of a  *)
(* rule's template, a capture of its matcher, and an element of a          *)
(* repetition of an invocation's input.                                    *)
(*                                                                         *)
(* A definition is [range, rules, generated, exported], an expansion       *)
(* [kind, definition, rule, call, discoveredIn, sourceCall, written,       *)
(* complete, children]; numbers of 0 are none.                             *)
(***************************************************************************)
EXTENDS MacroTemplates, SourceConstraints

-----------------------------------------------------------------------------
(* Rules.                                                                  *)

\* The written definitions, apart from those that must stay whole: in the
\* text of a procedural macro, or exported to other crates.
ObservedMacroRules(program) ==
    {d \in DOMAIN program.definitions :
        /\ ~program.definitions[d].generated
        /\ ~program.definitions[d].exported
        /\ ~\E anchor \in program.opaque :
                RangeContains(anchor, program.definitions[d].range)}

\* The rules that expansions selected, once for each expansion.
SelectedRules(program, d) ==
    [e \in {x \in DOMAIN program.expansions : /\ program.expansions[x].definition = d
                                              /\ program.expansions[x].kind = "Declarative"} |->
        program.expansions[e].rule]

DefinitionUnit(inventory, range) ==
    {u \in Units(inventory) : /\ KindOf(inventory, u) = "MacroDefinition"
                              /\ inventory.units[u].active
                              /\ RangeContains(Full(inventory, u), range)}

\* The facts about derives, with the units' new numbers.
Renumbered(targets, id) ==
    {[t EXCEPT !.target = id[@],
               !.attributes = {[attribute |-> id[a.attribute], direct |-> a.direct,
                                elements |-> [k \in DOMAIN a.elements |-> id[a.elements[k]]]] :
                                  a \in @},
               !.influences = {<<id[r[1]], id[r[2]]>> : r \in @},
               !.helpers = {<<id[r[1]], id[r[2]]>> : r \in @}] : t \in targets}

\* The observed definitions in order, and their rules, each with its definition.
ObservedInOrder(program) ==
    SortedBy(ObservedMacroRules(program),
             LAMBDA a, b : Before(program.definitions[a].range, program.definitions[b].range))
RuleLinks(program) ==
    FlattenSeq([k \in DOMAIN ObservedInOrder(program) |->
        [r \in DOMAIN program.definitions[ObservedInOrder(program)[k]].rules |->
            <<ObservedInOrder(program)[k], r>>]])

UnitOfDefinition(inventory, program, d) ==
    CHOOSE u \in DefinitionUnit(inventory, program.definitions[d].range) : TRUE

\* The units with one for each rule of an observed definition.
PendingRules(inventory, program, base, links) ==
    base \o
    [k \in DOMAIN links |->
       Pending("MacroRule", program.definitions[links[k][1]].rules[links[k][2]],
               UnitOfDefinition(inventory, program, links[k][1]), Len(base) + k)]

\* The facts about the rules; a definition that is not observed stays whole.
WithRules(inventory, program, links, finished) ==
    LET RuleUnit(d, r) == finished.idMap[Len(inventory.units) +
                             CHOOSE k \in DOMAIN links : links[k] = <<d, r>>]
        observed == ObservedMacroRules(program)
        DefinitionOf(d) == UnitOfDefinition(inventory, program, d)
        whole == {u \in Units(inventory) : /\ KindOf(inventory, u) = "MacroDefinition"
                                           /\ \A d \in observed : DefinitionOf(d) # u}
    IN [inventory EXCEPT !.units = finished.units,
            !.deriveTargets = Renumbered(@, finished.idMap),
            !.macroRules =
                {[definition |-> finished.idMap[DefinitionOf(d)],
                  rules |-> [r \in DOMAIN program.definitions[d].rules |-> RuleUnit(d, r)],
                  observed |-> [e \in DOMAIN SelectedRules(program, d) |->
                                   RuleUnit(d, SelectedRules(program, d)[e])]] : d \in observed}
                \cup {[definition |-> finished.idMap[u], rules |-> <<>>, observed |-> <<>>] :
                        u \in whole}]

WithPieces(inventory) == [inventory EXCEPT !.pieces = OwnLexicalPieces(inventory)]

\* Each rule of an observed definition becomes a unit.
RefineRules(inventory, program, links) ==
    WithPieces(WithRules(inventory, program, links,
        FinishPendingUnits(PendingRules(inventory, program, PendingUnits(inventory), links))))

RefineMacroRules(inventory, program) ==
    RefineRules(inventory, program, RuleLinks(program))

\* The unit of a rule's range; a range inside a whole definition has none.
SelectedRule(inventory, range) ==
    {u \in Units(inventory) : /\ KindOf(inventory, u) = "MacroRule"
                              /\ inventory.units[u].active
                              /\ Full(inventory, u) = range}

SelectedWrittenRule(inventory, program, e) ==
    LET expansion == program.expansions[e]
        definition == program.definitions[expansion.definition]
    IN IF \/ expansion.kind # "Declarative"
          \/ expansion.definition = 0
          \/ definition.generated
       THEN {}
       ELSE SelectedRule(inventory, definition.rules[expansion.rule])

-----------------------------------------------------------------------------
(* Which expansions can be refined.                                        *)

\* All the expansions up to the root are declarative ones.
RECURSIVE DeclarativeDiscoveryAnchor(_, _)
DeclarativeDiscoveryAnchor(program, e) ==
    \/ e = 0
    \/ /\ program.expansions[e].kind = "Declarative"
       /\ DeclarativeDiscoveryAnchor(program, program.expansions[e].discoveredIn)

\* The smallest written invocation around a call.
ResolveWrittenBangMacroSource(inventory, call) ==
    LET around == {u \in Units(inventory) : /\ KindOf(inventory, u) = "MacroInvocation"
                                            /\ inventory.units[u].active
                                            /\ RangeContains(Full(inventory, u), call)}
        length(u) == Full(inventory, u).end - Full(inventory, u).start
        smallest == {u \in around : \A v \in around : length(u) <= length(v)}
    IN IF Cardinality(smallest) = 1 THEN smallest ELSE {}

\* The written unit that a call can be edited through, and whether it is the
\* invocation itself.
Resolve(inventory, program, e) ==
    LET expansion == program.expansions[e]
        direct == expansion.discoveredIn = 0
    IN IF \/ ~expansion.written
          \/ ~direct /\ ~DeclarativeDiscoveryAnchor(program, expansion.discoveredIn)
       THEN {}
       ELSE {[unit |-> u, exact |-> IF direct \/ Full(inventory, u) = expansion.call
                                    THEN {u} ELSE {}] :
                u \in ResolveWrittenBangMacroSource(inventory, expansion.call)}

DeclarativeGenerationParent(expansion) ==
    IF expansion.discoveredIn # 0 THEN expansion.discoveredIn ELSE expansion.sourceCall

\* What the expansion that made a call says of it.
GenerationParentState(inventory, program, e, parent) ==
    LET links == {k \in DOMAIN program.expansions[parent].children :
                    program.expansions[parent].children[k] = e}
    IN CASE \/ program.expansions[parent].kind # "Declarative"
            \/ program.expansions[parent].definition = 0 -> "Opaque"
         [] SelectedWrittenRule(inventory, program, parent) # {} ->
                IF program.expansions[parent].complete /\ Cardinality(links) = 1
                THEN "Linked" ELSE "Unlinked"
         [] OTHER -> "LocalIncomplete"

\* Its parent expansion, 0 for a root, or nothing when that is not known.
ContributorParent(inventory, program, e) ==
    LET parent == DeclarativeGenerationParent(program.expansions[e])
        state == GenerationParentState(inventory, program, e, parent)
        anchored == Resolve(inventory, program, e) # {}
    IN CASE parent = 0 -> IF anchored THEN {0} ELSE {}
         [] parent # 0 /\ state = "Linked" -> {parent}
         [] parent # 0 /\ state = "Opaque" /\ anchored -> {0}
         [] OTHER -> {}

\* The expansions that complete ones lead to from the written text.
RECURSIVE ReachedFrom(_, _, _)
ReachedFrom(inventory, program, reached) ==
    LET able == {e \in DOMAIN program.expansions :
                    /\ program.expansions[e].kind = "Declarative"
                    /\ SelectedWrittenRule(inventory, program, e) # {}
                    /\ program.expansions[e].complete}
        more == reached \cup {e \in able :
                    ContributorParent(inventory, program, e) \cap (reached \cup {0}) # {}}
    IN IF more = reached THEN reached ELSE ReachedFrom(inventory, program, more)

EligibleDeclarativeExpansions(inventory, program) == ReachedFrom(inventory, program, {})

\* What the compiler reports of one expansion of a written rule.
SeenMatch(expansion, rule, input, nodes, output) ==
    [written |-> expansion.written, input |-> input, nodes |-> nodes,
     components |-> Components(rule.template, {}), output |-> output,
     products |-> Products(output)]

SeenCall(expansion, rule, input) ==
    SeenMatch(expansion, rule, input, CHOOSE m \in WholeMatches(rule, input) : TRUE,
              Transcription(rule, input))

Seen(inventory, program, e) ==
    LET expansion == program.expansions[e]
        ruleRange == program.definitions[expansion.definition].rules[expansion.rule]
    IN SeenCall(expansion, ParsedRule(TokensIn(inventory.text, ruleRange)),
                InputTokens(TokensIn(inventory.text, expansion.call)))

\* The rule of each expansion that selected a written one, and what the compiler
\* reports of those that are eligible.
SelectedAndSeen(inventory, program, eligible) ==
    LET selected == {e \in DOMAIN program.expansions :
                        SelectedWrittenRule(inventory, program, e) # {}}
    IN [selected |-> selected,
        ruleOf |-> [e \in selected |->
                      CHOOSE r \in SelectedWrittenRule(inventory, program, e) : TRUE],
        eligible |-> eligible,
        seen |-> [e \in eligible |-> Seen(inventory, program, e)]]

\* Template candidates of the rules that every one of their expansions shows
\* completely; found holds those of each eligible expansion.
CompleteObservations(shown, found) ==
    LET incomplete == {e \in shown.selected : e \notin shown.eligible \/ found[e] = {}}
        completeRules == {shown.ruleOf[e] : e \in shown.selected}
                         \ {shown.ruleOf[e] : e \in incomplete}
        blocked == UNION {{<<shown.ruleOf[e], b>> : b \in UNION {f.blocked : f \in found[e]}} :
                             e \in shown.eligible}
        candidates == UNION {UNION {f.candidates : f \in found[e]} : e \in shown.eligible}
    IN [selected |-> shown.selected, ruleOf |-> shown.ruleOf, eligible |-> shown.eligible,
        seen |-> shown.seen, completeRules |-> completeRules,
        candidates |-> {c \in candidates :
                          /\ c.rule \in completeRules
                          /\ ~RangeIndexContains(blocked, c.rule, c.range)}]

ObservationsOf(guard, shown) ==
    CompleteObservations(shown,
        Listed([e \in shown.eligible |->
            TemplateCandidatesForExpansion(guard, shown.ruleOf[e], shown.seen[e])]))

CompilerObservations(inventory, program, guard) ==
    ObservationsOf(guard,
        SelectedAndSeen(inventory, program, EligibleDeclarativeExpansions(inventory, program)))

-----------------------------------------------------------------------------
(* Repetitions of an invocation's input.                                   *)

MinimumOf(op) == IF op = "+" THEN 1 ELSE 0
NoBound == 99
MaximumOf(op) == IF op = "?" THEN 1 ELSE NoBound

\* The instances of the repetitions among some nodes: each with the element it
\* is in, known by its repetition and its input, and its matcher path.
RECURSIVE Instances(_, _, _)
Instances(nodes, parent, path) ==
    UNION {LET node == nodes[k]
               here == Append(path, node.part.range)
           IN {[parent |-> parent, path |-> here, node |-> node]}
              \cup UNION {Instances(node.iterations[i].nodes,
                                    {<<node.part.range, node.iterations[i].input>>}, here) :
                             i \in DOMAIN node.iterations}
           : k \in {j \in DOMAIN nodes : nodes[j].part.tag = "repetition"}}

\* Outer repetitions before inner ones.
OrderedInstances(seen) ==
    LET Key(i) == <<Len(i.path), i.node.part.range.start, i.node.input[1], i.node.input[2]>>
        Earlier(a, b) == \E k \in 1 .. 4 : /\ Key(a)[k] < Key(b)[k]
                                           /\ \A j \in 1 .. k - 1 : Key(a)[j] = Key(b)[j]
    IN SortedBy(Instances(seen.nodes, {}, <<>>), Earlier)

\* The units and facts that the repetitions in the match of an invocation add,
\* with temporary identifiers from next on.
RepetitionsAmong(invocation, rule, seen, next, instances) ==
    LET keys == FlattenSeq([k \in DOMAIN instances |->
                   [i \in DOMAIN instances[k].node.iterations |->
                      <<instances[k].node.part.range, instances[k].node.iterations[i].input>>]])
        IdOf(key) == next - 1 + CHOOSE k \in DOMAIN keys : keys[k] = key
        ParentOf(instance) == IF instance.parent = {} THEN invocation
                              ELSE IdOf(CHOOSE key \in instance.parent : TRUE)
        Text(tokens) == CHOOSE r \in MatcherInputSourceRange(seen, tokens) : TRUE
        InstanceOf(key) == CHOOSE i \in ToSet(instances) :
                              \E k \in DOMAIN i.node.iterations :
                                  key = <<i.node.part.range, i.node.iterations[k].input>>
    IN [units |-> [k \in DOMAIN keys |->
                     Pending("NestedItem", Text(keys[k][2]),
                             ParentOf(InstanceOf(keys[k])), next - 1 + k)],
        facts |-> {[invocation |-> invocation, rule |-> rule,
                    matcherRange |-> i.node.part.range, parent |-> ParentOf(i),
                    path |-> i.path, inputRange |-> Text(i.node.input),
                    elements |->
                      [k \in DOMAIN i.node.iterations |->
                         [unit |-> IdOf(<<i.node.part.range, i.node.iterations[k].input>>),
                          separatorAfter |-> {Text(s) :
                                s \in i.node.iterations[k].separatorAfter}]],
                    minimum |-> MinimumOf(i.node.part.op),
                    maximum |-> MaximumOf(i.node.part.op)] : i \in ToSet(instances)}]

MatcherRepetitions(invocation, rule, seen, next) ==
    RepetitionsAmong(invocation, rule, seen, next, OrderedInstances(seen))

-----------------------------------------------------------------------------
(* The draft and its commit.                                               *)

ExactInvocation(inventory, program, e) ==
    UNION {r.exact : r \in Resolve(inventory, program, e)}

DraftedWith(drafted, new) ==
    [pending |-> drafted.pending \o new.units, facts |-> drafted.facts \cup new.facts]

\* The repetitions of every eligible, written invocation, one after the other.
RECURSIVE DraftRepetitions(_, _, _, _, _)
DraftRepetitions(inventory, program, observations, e, drafted) ==
    IF e > Len(program.expansions) THEN drafted
    ELSE LET able == /\ e \in observations.eligible
                     /\ ExactInvocation(inventory, program, e) # {}
                     /\ observations.seen[e].written
                     /\ observations.seen[e].input # <<>>
         IN DraftRepetitions(inventory, program, observations, e + 1,
                IF able
                THEN DraftedWith(drafted, MatcherRepetitions(
                        CHOOSE u \in ExactInvocation(inventory, program, e) : TRUE,
                        observations.ruleOf[e], observations.seen[e],
                        Len(drafted.pending) + 1))
                ELSE drafted)

\* The units of the template candidates of a layout, outer ones first, after
\* some others; an inner one is in the one around it.
TemplateIdOf(layout, before, rule, range) ==
    before + CHOOSE k \in DOMAIN layout : /\ layout[k].candidate.rule = rule
                                          /\ layout[k].candidate.range = range

PendingTemplates(layout, before) ==
    [k \in DOMAIN layout |->
       Pending(layout[k].kind, layout[k].candidate.range,
               IF layout[k].parentRange = {} THEN layout[k].candidate.rule
               ELSE TemplateIdOf(layout, before, layout[k].candidate.rule,
                                 CHOOSE r \in layout[k].parentRange : TRUE),
               before + k)]

\* The capture slots of the completely observed rules, each with its rule.
SlotsOf(inventory, program, guard, observations, layout) ==
    LET before == Len(inventory.units)
        UnitsOf(rule) == {[range |-> layout[k].candidate.range, unit |-> before + k] :
                             k \in {j \in DOMAIN layout : layout[j].candidate.rule = rule}}
        Observed(rule) ==
            {[expansion |-> e,
              invocation |-> ExactInvocation(inventory, program, e),
              captures |-> CaptureObservationForExpansion(inventory, guard,
                              Full(inventory, rule), observations.seen[e])] :
                e \in {x \in observations.eligible : observations.ruleOf[x] = rule}}
        Expected(rule) == Cardinality({e \in observations.selected :
                                          observations.ruleOf[e] = rule})
    IN UNION {{<<rule, d>> : d \in CaptureSlotDraftsForRule(
                  Observed(rule), UnitsOf(rule), Expected(rule))} :
                 rule \in observations.completeRules}

PendingSlots(slots, before) ==
    [k \in DOMAIN slots |->
       Pending("NestedItem", slots[k][2].matcherDeletion, slots[k][1], before + k)]

\* The draft: the units of templates, of slots and of repetitions after those
\* that there are, and the facts about them.
DraftFacts(before, layout, slots, drafted) ==
    [pending |-> drafted.pending,
     templates |-> {[unit |-> before + k, rule |-> layout[k].candidate.rule] :
                       k \in DOMAIN layout},
     captureSlots |->
         {[unit |-> before + Len(layout) + k, rule |-> slots[k][1],
           matcherCapture |-> slots[k][2].matcherCapture,
           triggers |-> slots[k][2].triggers, inputs |-> slots[k][2].inputs] :
               k \in DOMAIN slots},
     repetitions |-> drafted.facts]

DraftOf(inventory, program, observations, layout, slots) ==
    LET before == Len(inventory.units)
    IN DraftFacts(before, layout, slots,
          DraftRepetitions(inventory, program, observations, 1,
             [pending |-> PendingUnits(inventory) \o PendingTemplates(layout, before)
                          \o PendingSlots(slots, before + Len(layout)),
              facts |-> {}]))

DraftWithLayout(inventory, program, guard, observations, layout) ==
    DraftOf(inventory, program, observations, layout,
            SortedBy(SlotsOf(inventory, program, guard, observations, layout),
                     LAMBDA a, b : Before(a[2].matcherCapture, b[2].matcherCapture)))

DraftOfObservations(inventory, program, guard, observations) ==
    DraftWithLayout(inventory, program, guard, observations,
                    ClassifyTemplateCandidates(observations.candidates))

RefinementDraft(inventory, program, guard) ==
    DraftOfObservations(inventory, program, guard,
                        CompilerObservations(inventory, program, guard))

\* The facts of a draft under the units' new numbers.
InOrderOfParents(repetitions) ==
    LET Key(f) == <<f.invocation, f.parent, Len(f.path), Last(f.path).start>>
        Earlier(a, b) == \E k \in 1 .. 4 : /\ Key(a)[k] < Key(b)[k]
                                           /\ \A j \in 1 .. k - 1 : Key(a)[j] = Key(b)[j]
    IN SortedBy(repetitions, Earlier)

RenumberedRepetitions(facts, id) ==
    {[f EXCEPT !.invocation = id[@], !.rule = id[@], !.parent = id[@],
               !.elements = [k \in DOMAIN @ |-> [@[k] EXCEPT !.unit = id[@]]]] : f \in facts}

CommitFinished(inventory, draft, finished) ==
    LET id == finished.idMap
    IN [inventory EXCEPT
            !.units = finished.units,
            !.deriveTargets = Renumbered(@, id),
            !.macroRules = {[definition |-> id[m.definition],
                             rules |-> [k \in DOMAIN m.rules |-> id[m.rules[k]]],
                             observed |-> [k \in DOMAIN m.observed |-> id[m.observed[k]]]] :
                               m \in inventory.macroRules},
            !.templates = {[unit |-> id[t.unit], rule |-> id[t.rule]] : t \in draft.templates},
            !.captureSlots =
                {[unit |-> id[s.unit], rule |-> id[s.rule],
                  matcherCapture |-> s.matcherCapture,
                  triggers |-> {id[t] : t \in s.triggers},
                  inputs |-> {[i EXCEPT !.invocation = id[@]] : i \in s.inputs}] :
                    s \in draft.captureSlots},
            !.repetitions = InOrderOfParents(RenumberedRepetitions(draft.repetitions, id))]

\* The inventory with the drafted units.
Commit(inventory, draft) ==
    WithPieces(CommitFinished(inventory, draft, FinishPendingUnits(draft.pending)))

=============================================================================
