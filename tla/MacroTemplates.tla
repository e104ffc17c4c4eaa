--------------------------- MODULE MacroTemplates ---------------------------
(***************************************************************************)
(* What one observed expansion of a written rule says about the rule's     *)
(* text (src/src/source/declarative_macro/template.rs and capture.rs):     *)
(* which parts of the template can be deleted on their own, and which      *)
(* captures can be deleted from the matcher together with the input that   *)
(* fills them in every invocation.                                         *)
(*                                                                         *)
(* An observation holds the input tokens, the nodes of the match, the      *)
(* template's components, the output tokens and the products, and says     *)
(* whether the input is written text or the output of another expansion.   *)
(* A result that is absent is the empty set.                               *)
(***************************************************************************)
EXTENDS SourceInventory, MacroExpander

\* The place before input token k: where it begins, or the end of the last.
Boundary(input, k) ==
    IF k <= Len(input) THEN input[k].range.start ELSE input[Len(input)].range.end

\* The written text of some input tokens.
MatcherInputSourceRange(seen, tokens) ==
    IF ~seen.written \/ seen.input = <<>> THEN {}
    ELSE {ByteRange(Boundary(seen.input, tokens[1]), Boundary(seen.input, tokens[2]))}

-----------------------------------------------------------------------------
(* Templates.                                                              *)

\* A component below a flagged one, or flagged; and one above, or flagged.
WithAncestors(components, flagged) ==
    {c \in components : \E f \in flagged : RangeContains(f.range, c.range)}
WithDescendants(components, flagged) ==
    {c \in components : \E f \in flagged : RangeContains(c.range, f.range)}

ComponentOfToken(seen, k) ==
    CHOOSE c \in seen.components : c.range = seen.output[k].range

\* The repetitions that put tokens, their separators, directly in the output.
DirectRepetitions(seen) ==
    {c \in seen.components : /\ c.tag = "repetition"
                             /\ \E k \in DOMAIN seen.output : ComponentOfToken(seen, k) = c}

\* Where the tokens of a product are in the template, if each has a place that
\* is its own.
TemplateSourceRange(seen, product) ==
    LET shared == WithAncestors(seen.components, DirectRepetitions(seen))
        tokens == product.start .. product.end
        ranges == {seen.output[k].range : k \in tokens}
    IN IF \E k \in tokens : ComponentOfToken(seen, k) \in shared THEN {}
       ELSE {ByteRange(CHOOSE s \in {r.start : r \in ranges} : \A r \in ranges : s <= r.start,
                       CHOOSE e \in {r.end : r \in ranges} : \A r \in ranges : e >= r.end)}

RepetitionComponents(seen) == {c \in seen.components : c.tag = "repetition"}

\* Repetitions of the template that must stay as they are.
BlockedRepetitions(guard, seen) ==
    {c.range : c \in
        {x \in RepetitionComponents(seen) :
            \/ x \in WithDescendants(seen.components, DirectRepetitions(seen))
            \/ ~DeletionPreservesIdentity(guard, x.range)}}

\* The parts of the template that an expansion shows to be separate: those of
\* its products and whole repetitions.  One part cannot be two things.
TemplateCandidates(rule, seen, blocked) ==
    LET ofProducts ==
            UNION {{[rule |-> rule, range |-> r, isUse |-> p.isUse] :
                        r \in TemplateSourceRange(seen, p)} : p \in seen.products}
        ofRepetitions ==
            {[rule |-> rule, range |-> c.range, isUse |-> FALSE] :
                c \in {x \in RepetitionComponents(seen) : x.range \notin blocked}}
        candidates == ofProducts \cup ofRepetitions
    IN IF \E a, b \in candidates : a.range = b.range /\ a.isUse # b.isUse THEN {}
       ELSE {[candidates |-> candidates, blocked |-> blocked]}

TemplateCandidatesForExpansion(guard, rule, seen) ==
    TemplateCandidates(rule, seen, BlockedRepetitions(guard, seen))

\* Only the outermost blocked ranges of a rule count.
RangeIndexContains(blocked, rule, range) ==
    \E b \in blocked : b[1] = rule /\ RangeContains(b[2], range)

StrictlyInside(a, b) == a.rule = b.rule /\ a.range # b.range /\ RangeContains(b.range, a.range)

\* Candidates of a rule nest or are apart.
Laminar(candidates) ==
    \A a, b \in candidates :
        \/ a = b \/ a.rule # b.rule
        \/ StrictlyInside(a, b) \/ StrictlyInside(b, a)
        \/ a.range.end <= b.range.start \/ b.range.end <= a.range.start

\* A tree of uses becomes an item with its leaves, without what is between.
TemplateKind(candidates, c) ==
    LET usesInside == {d \in candidates : StrictlyInside(d, c) /\ d.isUse}
        usesAround == {d \in candidates : StrictlyInside(c, d) /\ d.isUse}
    IN CASE c.isUse /\ usesInside # {} /\ usesAround = {} -> "UseItem"
         [] c.isUse /\ usesInside = {} /\ usesAround # {} -> "UseLeaf"
         [] c.isUse /\ usesInside # {} /\ usesAround # {} -> "none"
         [] OTHER -> "NestedItem"

\* The units to be made of the candidates, outer ones first, each with the
\* range of the one around it.
ClassifyTemplateCandidates(candidates) ==
    LET emitted == {c \in candidates : TemplateKind(candidates, c) # "none"}
        Around(c) == {d \in emitted : StrictlyInside(c, d)}
        Innermost(S) == {d \in S : \A other \in S : RangeContains(other.range, d.range)}
        layout == {[candidate |-> c, kind |-> TemplateKind(candidates, c),
                    parentRange |-> {d.range : d \in Innermost(Around(c))}] : c \in emitted}
        Key(t) == <<t.candidate.rule, t.candidate.range.start, -t.candidate.range.end>>
        Earlier(a, b) == \E k \in 1 .. 3 : /\ Key(a)[k] < Key(b)[k]
                                           /\ \A j \in 1 .. k - 1 : Key(a)[j] = Key(b)[j]
    IN SortedBy(layout, Earlier)

-----------------------------------------------------------------------------
(* Captures.                                                               *)

\* What goes with a capture of a matcher: the separator after it, or nothing
\* before a closing delimiter.
CaptureDeletionLayout(tokens, capture) ==
    LET inside == {k \in DOMAIN tokens : /\ tokens[k].range.end > capture.start
                                         /\ tokens[k].range.start < capture.end}
        first == CHOOSE k \in inside : \A j \in inside : k <= j
        last == CHOOSE k \in inside : \A j \in inside : k >= j
        exact == /\ inside # {}
                 /\ tokens[first].range.start = capture.start
                 /\ tokens[last].range.end = capture.end
                 /\ first > 1 /\ last < Len(tokens)
                 /\ tokens[first - 1].text \in {<<"(">>, <<"{">>, <<"[">>, <<",">>, <<";">>}
        next == tokens[last + 1]
    IN IF ~exact THEN {}
       ELSE CASE next.text \in {<<",">>, <<";">>} ->
                    {[deletion |-> ByteRange(capture.start, next.range.end),
                      separator |-> {next.range}]}
              [] next.text \in {<<")">>, <<"}">>, <<"]">>} ->
                    {[deletion |-> capture, separator |-> {}]}
              [] OTHER -> {}

SameSingleParserToken(text, left, right) ==
    LET l == ParserTokens(Slice(text, left))
        r == ParserTokens(Slice(text, right))
    IN Len(l) = 1 /\ Len(r) = 1 /\ SameIdentity(l[1], r[1])

\* The captures outside all repetitions.
OuterCaptures(seen) ==
    {seen.nodes[k] : k \in {j \in DOMAIN seen.nodes : seen.nodes[j].part.tag = "variable"}}

\* A capture whose text, in the matcher and in this invocation, can go together
\* with the same separator.
ObservedSlots(inventory, guard, ruleRange, seen) ==
    LET Slot(node) ==
            {[matcherCapture |-> node.part.range, matcherDeletion |-> layout.deletion,
              inputCapture |-> input,
              inputDeletion |-> IF layout.separator = {} THEN input
                                ELSE ByteRange(input.start, seen.input[node.input[2]].range.end)]
             : layout \in {l \in CaptureDeletionLayout(guard.tokens, node.part.range) :
                            /\ RangeContains(ruleRange, l.deletion)
                            /\ DeletionPreservesIdentity(guard, l.deletion)
                            /\ l.separator = {} <=> node.input[2] = Len(seen.input) + 1},
               input \in MatcherInputSourceRange(seen, node.input)}
        Separated(node, slot) ==
            \A l \in CaptureDeletionLayout(guard.tokens, node.part.range) :
               \A separator \in l.separator :
                  SameSingleParserToken(inventory.text, separator,
                                        seen.input[node.input[2]].range)
    IN [node \in OuterCaptures(seen) |->
          {slot \in Slot(node) : /\ Separated(node, slot)
                                 /\ DeletionPreservesIdentity(guard, slot.inputDeletion)}]

\* The variables of a template, and the captures that this output shows they
\* stand for; a variable inside a repetition stands for none.
VariableComponents(seen) == {c.range : c \in {x \in seen.components : x.tag = "variable"}}

OutputVariables(seen) == {k \in DOMAIN seen.output : seen.output[k].tag = "variable"}

CaptureOfToken(seen, k) ==
    {node.part.range : node \in {n \in OuterCaptures(seen) :
                                    n.input \in seen.output[k].sources}}

ComponentCaptures(seen) ==
    UNION {{<<seen.output[k].range, c>> : c \in CaptureOfToken(seen, k)} :
              k \in OutputVariables(seen)}

\* All captures of an expansion can be told apart, or none can be deleted.
CaptureObservation(seen, slots) ==
    LET covered(k) == \E p \in seen.products : p.start <= k /\ k <= p.end
        deletions == {s.matcherDeletion : s \in UNION {slots[n] : n \in DOMAIN slots}}
        complete ==
            /\ \A n \in DOMAIN slots : slots[n] # {}
            /\ Cardinality(deletions) = Cardinality(DOMAIN slots)
            /\ \A k \in OutputVariables(seen) :
                  covered(k) /\ Cardinality(CaptureOfToken(seen, k)) = 1
            /\ \A a, b \in ComponentCaptures(seen) : a[1] = b[1] => a = b
    IN IF ~complete THEN {}
       ELSE {[components |-> VariableComponents(seen),
              componentCaptures |-> ComponentCaptures(seen),
              slots |-> UNION {slots[n] : n \in DOMAIN slots}]}

CaptureObservationForExpansion(inventory, guard, ruleRange, seen) ==
    CaptureObservation(seen, ObservedSlots(inventory, guard, ruleRange, seen))

\* The innermost template unit around each component.
TemplateComponentUnits(components, units) ==
    LET Around(c) == {u \in units : RangeContains(u.range, c)}
        Innermost(c) == {u \in Around(c) : \A other \in Around(c) :
                                              RangeContains(other.range, u.range)}
    IN IF Disjoint(components) /\ \A c \in components : Around(c) # {}
       THEN {[c \in components |-> (CHOOSE u \in Innermost(c) : TRUE).unit]} ELSE {}

\* Mutant: the slots of one invocation are those of all.
SlotDraftsOfAny(observations, units, expectedSelections) ==
    LET captures == UNION {o.captures : o \in observations}
        links == UNION {c.componentCaptures : c \in captures}
        components == UNION {c.components : c \in captures}
        layouts == UNION {{<<s.matcherCapture, s.matcherDeletion>> : s \in c.slots} :
                             c \in captures}
        Inputs(capture) ==
            UNION {{[invocation |-> i, capture |-> s.inputCapture,
                     deletion |-> s.inputDeletion] :
                        i \in o.invocation,
                        s \in {x \in UNION {c.slots : c \in o.captures} :
                                  x.matcherCapture = capture}} : o \in observations}
        Draft(unitOf) ==
            {[matcherCapture |-> l[1], matcherDeletion |-> l[2],
              triggers |-> {unitOf[x[1]] : x \in {y \in links : y[2] = l[1]}},
              inputs |-> Inputs(l[1])] : l \in layouts}
    IN UNION {Draft(unitOf) : unitOf \in TemplateComponentUnits(components, units)}

\* The slots of a rule, when each of its invocations shows the same ones: with
\* the template units that use the capture and the input of each invocation.
\* An observation is [invocation, captures].
CaptureSlotDraftsForRule(observations, units, expectedSelections) ==
    LET captures == UNION {o.captures : o \in observations}
        links == UNION {c.componentCaptures : c \in captures}
        components == UNION {c.components : c \in captures}
        layouts == UNION {{<<s.matcherCapture, s.matcherDeletion>> : s \in c.slots} :
                             c \in captures}
        agree ==
            /\ observations # {}
            /\ Cardinality(observations) = expectedSelections
            /\ \A o \in observations : o.captures # {} /\ o.invocation # {}
            /\ \A a, b \in observations : a # b => a.invocation # b.invocation
            /\ \A a, b \in captures :
                  /\ a.components = b.components
                  /\ {s.matcherCapture : s \in a.slots} = {s.matcherCapture : s \in b.slots}
            /\ \A a, b \in links : a[1] = b[1] => a = b
            /\ \A a, b \in layouts : a[1] = b[1] => a = b
            /\ {l[1] : l \in links} = components
        Inputs(capture) ==
            UNION {{[invocation |-> i, capture |-> s.inputCapture,
                     deletion |-> s.inputDeletion] :
                        i \in o.invocation,
                        s \in {x \in UNION {c.slots : c \in o.captures} :
                                  x.matcherCapture = capture}} : o \in observations}
        Draft(unitOf) ==
            {[matcherCapture |-> l[1], matcherDeletion |-> l[2],
              triggers |-> {unitOf[x[1]] : x \in {y \in links : y[2] = l[1]}},
              inputs |-> Inputs(l[1])] : l \in layouts}
    IN IF ~agree THEN {}
       ELSE UNION {Draft(unitOf) : unitOf \in TemplateComponentUnits(components, units)}

=============================================================================
