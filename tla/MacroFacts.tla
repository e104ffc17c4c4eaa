------------------------------ MODULE MacroFacts ------------------------------
(***************************************************************************)
(* What the facts about written macros must satisfy before anything is     *)
(* built on them (src/src/source/declarative_macro/validation.rs and       *)
(* validate_macro_rule_facts of src/src/source.rs).                        *)
(***************************************************************************)
EXTENDS MacroTemplates, SourceConstraints

ActiveOf(inventory, u, kinds) ==
    /\ u \in Units(inventory)
    /\ inventory.units[u].active
    /\ KindOf(inventory, u) \in kinds

\* The nearest rule or invocation from a unit on upwards.
RECURSIVE DeclarativeBoundary(_, _)
DeclarativeBoundary(inventory, u) ==
    IF u = 0 \/ KindOf(inventory, u) \in {"MacroRule", "MacroInvocation"} THEN u
    ELSE DeclarativeBoundary(inventory, Parent(inventory, u))

BoundaryKind(inventory, u) ==
    LET boundary == DeclarativeBoundary(inventory, Parent(inventory, u))
    IN IF Parent(inventory, u) = 0 \/ boundary = 0 THEN "none"
       ELSE KindOf(inventory, boundary)

\* The units inside rules and inside invocations.
TemplateUnits(inventory) ==
    {u \in Units(inventory) : /\ ActiveOf(inventory, u, {"NestedItem", "UseItem", "UseLeaf"})
                              /\ BoundaryKind(inventory, u) = "MacroRule"}
MatcherUnits(inventory) ==
    {u \in Units(inventory) : /\ ActiveOf(inventory, u, {"NestedItem"})
                              /\ BoundaryKind(inventory, u) = "MacroInvocation"}

\* Every definition is classified once and every rule is one definition's.
ValidMacroRules(inventory) ==
    /\ {m.definition : m \in inventory.macroRules}
       = {u \in Units(inventory) : ActiveOf(inventory, u, {"MacroDefinition"})}
    /\ \A m, n \in inventory.macroRules : m.definition = n.definition => m = n
    /\ \A m \in inventory.macroRules :
          /\ IsInjective(m.rules)
          /\ \A e \in DOMAIN m.observed : m.observed[e] \in ToSet(m.rules)
          /\ \A rule \in ToSet(m.rules) :
                /\ ActiveOf(inventory, rule, {"MacroRule"})
                /\ Parent(inventory, rule) = m.definition
    /\ UNION {ToSet(m.rules) : m \in inventory.macroRules}
       = {u \in Units(inventory) : KindOf(inventory, u) = "MacroRule"}

Selections(inventory, rule) ==
    LET m == CHOOSE x \in inventory.macroRules : rule \in ToSet(x.rules)
    IN Cardinality({e \in DOMAIN m.observed : m.observed[e] = rule})

\* Rules are in source order, and only a selected rule is split.
ValidRuleLinks(inventory) ==
    LET split == {t.rule : t \in inventory.templates}
                 \cup {s.rule : s \in inventory.captureSlots}
                 \cup {inventory.repetitions[k].rule : k \in DOMAIN inventory.repetitions}
        refined == UNION {ToSet(m.rules) : m \in inventory.macroRules}
    IN /\ \A m \in inventory.macroRules : \A j, k \in DOMAIN m.rules :
             j < k => Full(inventory, m.rules[j]).start < Full(inventory, m.rules[k]).start
       /\ split \subseteq refined
       /\ \A rule \in split : Selections(inventory, rule) > 0

\* Every unit inside a rule is a part of its template or one of its slots.
ValidTemplates(inventory) ==
    LET parts == {t.unit : t \in inventory.templates}
        slots == {s.unit : s \in inventory.captureSlots}
    IN /\ \A t \in inventory.templates :
             /\ ActiveOf(inventory, t.unit, {"NestedItem", "UseItem", "UseLeaf"})
             /\ ActiveOf(inventory, t.rule, {"MacroRule"})
             /\ ~IsEmptyRange(Full(inventory, t.unit))
             /\ DeclarativeBoundary(inventory, t.unit) = t.rule
       /\ Cardinality(parts) = Cardinality(inventory.templates)
       /\ Cardinality(slots) = Cardinality(inventory.captureSlots)
       /\ parts \cap slots = {}
       /\ parts \cup slots = TemplateUnits(inventory)

\* A slot is `$name:fragment`, perhaps with its separator.
CaptureSlotUnitShape(text, range) ==
    LET tokens == ParserTokens(Slice(text, range))
        body == IF tokens # <<>> /\ Last(tokens).text \in {<<",">>, <<";">>}
                THEN Front(tokens) ELSE tokens
    IN Len(body) = 4 /\ body[1].text = <<"$">> /\ body[3].text = <<":">>

ValidSlotInput(inventory, guard, layout, input) ==
    /\ ActiveOf(inventory, input.invocation, {"MacroInvocation"})
    /\ ~IsEmptyRange(input.capture)
    /\ input.deletion.start = input.capture.start
    /\ RangeContains(input.deletion, input.capture)
    /\ RangeContains(Full(inventory, input.invocation), input.deletion)
    /\ DeletionPreservesIdentity(guard, input.deletion)
    /\ layout.separator = {} <=> input.deletion = input.capture
    /\ \A separator \in layout.separator :
          SameSingleParserToken(inventory.text, separator,
                                ByteRange(input.capture.end, input.deletion.end))

\* Slots of a rule have an input in each of its invocations, in the same order
\* as in the matcher and apart from each other.
ValidCaptureSlots(inventory, guard) ==
    LET slots == inventory.captureSlots
        Ofs(rule) == {s \in slots : s.rule = rule}
        Callers(s) == {i.invocation : i \in s.inputs}
    IN /\ \A s \in slots :
             LET layouts == CaptureDeletionLayout(guard.tokens, s.matcherCapture)
             IN /\ ActiveOf(inventory, s.unit, {"NestedItem"})
                /\ Parent(inventory, s.unit) = s.rule
                /\ CaptureSlotUnitShape(inventory.text, Full(inventory, s.unit))
                /\ {l.deletion : l \in layouts} = {Full(inventory, s.unit)}
                /\ DeletionPreservesIdentity(guard, Full(inventory, s.unit))
                /\ s.triggers \subseteq {t.unit : t \in {x \in inventory.templates :
                                                            x.rule = s.rule}}
                /\ Cardinality(s.inputs) = Selections(inventory, s.rule)
                /\ Cardinality(Callers(s)) = Cardinality(s.inputs)
                /\ \A layout \in layouts : \A input \in s.inputs :
                        ValidSlotInput(inventory, guard, layout, input)
                /\ \A other \in Ofs(s.rule) : Callers(other) = Callers(s)
       /\ \A a, b \in slots : a.rule = b.rule =>
             \A i \in a.inputs, j \in b.inputs :
                i.invocation = j.invocation =>
                    (Before(a.matcherCapture, b.matcherCapture)
                        => Before(i.capture, j.capture))
       /\ Disjoint({Full(inventory, s.unit) : s \in slots})
       /\ Disjoint(UNION {{i.deletion : i \in s.inputs} : s \in slots})

RangeIsTrivia(text, range) ==
    \A k \in DOMAIN Lexemes(Slice(text, range)) :
        IsTrivia(Lexemes(Slice(text, range))[k].kind)

\* The text from one element to the next: the same separator each time, or none.
ValidSeparator(inventory, facts, k) ==
    LET element == Full(inventory, facts.elements[k].unit)
        next == Full(inventory, facts.elements[k + 1].unit)
        separators == facts.elements[k].separatorAfter
    IN IF separators = {} THEN RangeIsTrivia(inventory.text, ByteRange(element.end, next.start))
       ELSE \A s \in separators :
              /\ element.end <= s.start /\ s.start < s.end /\ s.end <= next.start
              /\ RangeIsTrivia(inventory.text, ByteRange(element.end, s.start))
              /\ RangeIsTrivia(inventory.text, ByteRange(s.end, next.start))
              /\ Len(ParserTokens(Slice(inventory.text, s))) = 1
              /\ \A first \in facts.elements[1].separatorAfter :
                    SameSingleParserToken(inventory.text, first, s)

\* A repetition: its elements fill its input and follow its matcher's bounds.
ValidRepetition(inventory, facts) ==
    LET elements == [k \in DOMAIN facts.elements |->
                        Full(inventory, facts.elements[k].unit)]
        count == Len(elements)
    IN /\ ActiveOf(inventory, facts.invocation, {"MacroInvocation"})
       /\ ActiveOf(inventory, facts.rule, {"MacroRule"})
       /\ facts.path # <<>>
       /\ facts.minimum \in {0, 1}
       /\ facts.minimum = 1 => facts.maximum > 1
       /\ facts.minimum <= count /\ count <= facts.maximum
       /\ RangeContains(Full(inventory, facts.rule), facts.matcherRange)
       /\ RangeContains(Full(inventory, facts.parent), facts.inputRange)
       /\ count = 0 => IsEmptyRange(facts.inputRange)
       /\ count > 0 => facts.inputRange = ByteRange(elements[1].start, elements[count].end)
       /\ \A k \in 1 .. count :
             /\ ActiveOf(inventory, facts.elements[k].unit, {"NestedItem"})
             /\ Parent(inventory, facts.elements[k].unit) = facts.parent
             /\ ~IsEmptyRange(elements[k])
             /\ k = count => facts.elements[k].separatorAfter = {}
             /\ k < count =>
                   /\ elements[k].end <= elements[k + 1].start
                   /\ facts.elements[k].separatorAfter = {}
                         <=> facts.elements[1].separatorAfter = {}
                   /\ ValidSeparator(inventory, facts, k)

ValidRepetitions(inventory) ==
    LET all == ToSet(inventory.repetitions)
        ElementsOf(f) == {f.elements[k].unit : k \in DOMAIN f.elements}
        OwnersOf(u) == {f \in all : u \in ElementsOf(f)}
    IN /\ Cardinality(all) = Len(inventory.repetitions)
       /\ \A f \in all : ValidRepetition(inventory, f)
       /\ UNION {ElementsOf(f) : f \in all} = MatcherUnits(inventory)
       /\ \A f \in all : \A u \in ElementsOf(f) : OwnersOf(u) = {f}
       /\ \A f \in all : f.parent # f.invocation =>
             /\ OwnersOf(f.parent) # {}
             /\ \A owner \in OwnersOf(f.parent) :
                   /\ owner.invocation = f.invocation
                   /\ owner.rule = f.rule
                   /\ owner.path = Front(f.path)
       /\ \A f, g \in all : f.invocation = g.invocation =>
             /\ f.rule = g.rule
             /\ f # g /\ f.parent = g.parent => Disjoint({f.inputRange, g.inputRange})
       /\ \A f, g \in all : f.rule = g.rule =>
             /\ f.path = g.path => f.matcherRange = g.matcherRange
             /\ f.path # g.path /\ Front(f.path) = Front(g.path) =>
                   Disjoint({f.matcherRange, g.matcherRange})
             /\ Len(f.path) > 1 /\ g.path = Front(f.path) =>
                   /\ RangeContains(g.matcherRange, f.matcherRange)
                   /\ g.matcherRange # f.matcherRange

ValidDeclarativeMacroSourceFacts(inventory, guard) ==
    /\ ValidMacroRules(inventory)
    /\ ValidRuleLinks(inventory)
    /\ ValidTemplates(inventory)
    /\ ValidCaptureSlots(inventory, guard)
    /\ ValidRepetitions(inventory)

=============================================================================
