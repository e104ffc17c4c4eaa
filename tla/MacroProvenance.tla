--------------------------- MODULE MacroProvenance ---------------------------
(***************************************************************************)
(* Which written units each token of a macro's output comes from, and so   *)
(* the basis by which a definition that the macro makes is told from its   *)
(* siblings (src/src/expansions/provenance.rs: ProvenanceCollector).       *)
(* A basis is a set of [kind, range]; one that is not known is no set.     *)
(***************************************************************************)
EXTENDS MacroRefinement, MacroFacts

\* A unit and the units around it.
RECURSIVE Enclosing(_, _)
Enclosing(inventory, u) ==
    IF u = 0 THEN {} ELSE {u} \cup Enclosing(inventory, Parent(inventory, u))

\* The units of a set with none of the set inside them.
Deepest(inventory, units) ==
    {u \in units : \A v \in units \ {u} : u \notin Enclosing(inventory, v)}

\* The nearest expansion, up the calls, whose call can be edited.
RECURSIVE NearestEditable(_, _, _)
NearestEditable(inventory, program, e) ==
    IF e = 0 THEN {}
    ELSE IF Resolve(inventory, program, e) # {} THEN {e}
    ELSE NearestEditable(inventory, program, program.expansions[e].discoveredIn)

WrittenInvocation(inventory, program, e) ==
    {r.unit : r \in Resolve(inventory, program, e)}

-----------------------------------------------------------------------------
(* The contributors of the output tokens.                                  *)

\* The template unit of a component: the one over exactly it, or the innermost.
TemplateContributor(inventory, rule, component) ==
    LET around == {t.unit : t \in {x \in inventory.templates :
                      x.rule = rule /\ RangeContains(Full(inventory, x.unit), component)}}
        exact == {u \in around : Full(inventory, u) = component}
    IN IF exact # {} THEN {u \in exact : Parent(inventory, u) \notin exact}
       ELSE Deepest(inventory, around)

\* The elements of the invocation's repetitions around some of its input; what
\* is inside an element that is all of that input is not around it.
RepetitionContributors(inventory, invocation, rule, input) ==
    LET facts == {f \in ToSet(inventory.repetitions) :
                     f.invocation = invocation /\ f.rule = rule}
        elements == UNION {{f.elements[k].unit : k \in DOMAIN f.elements} : f \in facts}
        around == {u \in elements : RangeContains(Full(inventory, u), input)}
        exact == {u \in around : Full(inventory, u) = input}
    IN {u \in around : Enclosing(inventory, Parent(inventory, u)) \cap exact = {}}

\* What made some text: made holds the ranges of the output, each with what it
\* comes from.
MadeIn(made, range) == UNION {m[2] : m \in {x \in made : RangeContains(range, x[1])}}

\* What an invocation hands to all it makes: the call and its rule, and what the
\* call itself comes from.
BaseContributors(inventory, program, e, made) ==
    WrittenInvocation(inventory, program, e)
    \cup SelectedWrittenRule(inventory, program, e)
    \cup MadeIn(made, program.expansions[e].call)

\* The units that some input comes from: what made it, if the call is not
\* written, or the repetition elements around its text.
InputContributors(inventory, program, e, seen, made, tokens) ==
    IF ~seen.written
    THEN UNION {MadeIn(made, seen.input[k].range) : k \in tokens[1] .. tokens[2] - 1}
    ELSE UNION {RepetitionContributors(inventory, i, r, text) :
                   i \in WrittenInvocation(inventory, program, e),
                   r \in SelectedWrittenRule(inventory, program, e),
                   text \in MatcherInputSourceRange(seen, tokens)}

\* For each output token of a call the units it comes from: the base, the part
\* of the template and the captured input.
ContributorsOf(inventory, program, e, seen, made) ==
    LET Template(token) == UNION {TemplateContributor(inventory, r, token.range) :
                                     r \in SelectedWrittenRule(inventory, program, e)}
        Inputs(token) == UNION {InputContributors(inventory, program, e, seen, made, i) :
                                   i \in token.sources \cup token.iterations}
    IN Listed([k \in DOMAIN seen.output |->
          BaseContributors(inventory, program, e, made)
          \cup Template(seen.output[k]) \cup Inputs(seen.output[k])])

\* The ranges of an output, each with what it comes from.
MadeFrom(output, contributors) ==
    {<<output[k].range, contributors[k]>> : k \in DOMAIN output}

RECURSIVE TokenContributors(_, _, _)
TokenContributors(inventory, program, e) ==
    ContributorsOf(inventory, program, e, Seen(inventory, program, e),
        UNION {MadeFrom(Seen(inventory, program, p).output,
                        TokenContributors(inventory, program, p)) :
                  p \in ContributorParent(inventory, program, e) \ {0}})

-----------------------------------------------------------------------------
(* The basis of a definition.                                              *)

Above(inventory, units) == UNION {Enclosing(inventory, u) : u \in units}

\* The units around, or among, the contributors of every token.
CommonUnits(inventory, contributors) ==
    {u \in Units(inventory) : \A units \in contributors : u \in Above(inventory, units)}

\* What the tokens of a product have in common, without what all the products
\* of the call share.
Basis(inventory, contributors, excluded) ==
    Deepest(inventory, CommonUnits(inventory, contributors) \ Above(inventory, excluded))

\* The tokens of a range, without the trivia at its ends.
IdentityRange(inventory, range) ==
    LET tokens == {inventory.pieces[k].range : k \in {j \in DOMAIN inventory.pieces :
                      /\ inventory.pieces[j].kind = "Token"
                      /\ RangeContains(range, inventory.pieces[j].range)}}
    IN ByteRange(Min({t.start : t \in tokens}), Max({t.end : t \in tokens}))

\* What a unit that was refined out of a macro is called.
DeclarativeUnitKind(inventory, u) ==
    CASE KindOf(inventory, u) = "NestedItem" /\ BoundaryKind(inventory, u) = "MacroRule" ->
            "TemplateComponent"
      [] KindOf(inventory, u) = "NestedItem" /\ BoundaryKind(inventory, u) = "MacroInvocation" ->
            "MatcherElement"
      [] OTHER -> KindOf(inventory, u)

IdentitySource(inventory, u) ==
    [kind |-> DeclarativeUnitKind(inventory, u),
     range |-> IdentityRange(inventory, Full(inventory, u))]

\* The expansions whose definitions get a basis: those that were reported
\* completely, as all up to the written call were.
IdentityProducers(inventory, program) == EligibleDeclarativeExpansions(inventory, program)

ContributorsOfAll(inventory, program, producers) ==
    Listed([e \in DOMAIN program.expansions |->
        IF e \in producers THEN TokenContributors(inventory, program, e) ELSE <<>>])

BasesFrom(inventory, program, hir, producers, contributors) ==
    LET Excluded(e) == WrittenInvocation(inventory, program, e)
                       \cup SelectedWrittenRule(inventory, program, e)
        BasisOf(e, product) ==
            Basis(inventory, {contributors[e][k] : k \in product.start .. product.end},
                  Excluded(e))
    IN Listed([d \in DOMAIN hir |->
          IF hir[d].expansion \notin producers THEN {}
          ELSE {{IdentitySource(inventory, u) : u \in BasisOf(hir[d].expansion, hir[d].product)}}])

DefinitionBases(inventory, program, hir) ==
    LET producers == IdentityProducers(inventory, program)
    IN BasesFrom(inventory, program, hir, producers,
                 ContributorsOfAll(inventory, program, producers))

=============================================================================
