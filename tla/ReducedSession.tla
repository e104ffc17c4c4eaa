---------------------------- MODULE ReducedSession ----------------------------
(***************************************************************************)
(* The session that compiles the rewritten text again (verify_rewrite and  *)
(* collect_dependency_graph of src/src/input.rs): what the compiler sees   *)
(* there, and how the definitions it finds answer to those of the original *)
(* by which the two are compared.                                          *)
(***************************************************************************)
EXTENDS Rewriting

-----------------------------------------------------------------------------
(* The crate that the compiler sees.                                       *)

IsLeft(range) ==
    \E k \in DOMAIN guard.tokens :
        RangeContains(range, guard.tokens[k].range) /\ Survives(guard.tokens[k].range)

\* The place of what is left of a range in the rewritten text.
MovedRange(range) ==
    LET left == {k \in DOMAIN guard.tokens : /\ RangeContains(range, guard.tokens[k].range)
                                             /\ Survives(guard.tokens[k].range)}
        Offset(o, piece) == piece.output.start + o - piece.original.start
        PieceAround(r) == CHOOSE p \in Range(rewrite.pieces) : RangeContains(p.original, r)
        first == guard.tokens[Min(left)].range
        last == guard.tokens[Max(left)].range
    IN ByteRange(Offset(first.start, PieceAround(first)), Offset(last.end, PieceAround(last)))

Nodes == crate.nodes
LeftNodes == SortedBy({n \in DOMAIN Nodes : n = 1 \/ IsLeft(Nodes[n].range)}, <)

\* The place in a sequence of what a reference named.
NumberIn(left, k) ==
    CASE k = 0 -> 0
      [] k # 0 /\ k \in Range(left) -> CHOOSE j \in DOMAIN left : left[j] = k
      [] OTHER -> Unresolved

ReducedNodes ==
    LET left == LeftNodes
        Place(range) == IF range = Nodes[1].range THEN ByteRange(0, Len(rewrite.source))
                        ELSE MovedRange(range)
    IN [k \in DOMAIN left |->
          LET node == Nodes[left[k]]
          IN [node EXCEPT !.range = Place(@), !.anchor = Place(@),
                          !.parent = NumberIn(left, @), !.to = NumberIn(left, @),
                          !.via = NumberIn(left, @), !.impl = NumberIn(left, @)]]

ReducedReport ==
    LET left == LeftNodes
        New(n) == NumberIn(left, n)
        Both(pairs) == {<<New(p[1]), New(p[2])>> :
                           p \in {q \in pairs : {q[1], q[2]} \subseteq Range(left)}}
        report == crate.report
    IN [names |-> {New(n) : n \in report.names \cap Range(left)},
        influences |-> Both(report.influences), helpers |-> Both(report.helpers)]

\* The macros and calls that are left; each call selects what NewMeaning says.
ReducedProgram ==
    LET macros == SortedBy({d \in DOMAIN Program.definitions :
                                IsLeft(Program.definitions[d].range)}, <)
        calls == SortedBy(RemainingCalls, <)
        Rules(d) == RemainingRules([definition |-> d])
    IN [definitions |-> [k \in DOMAIN macros |->
            LET rules == Rules(macros[k])
            IN [Program.definitions[macros[k]] EXCEPT
                  !.range = MovedRange(@),
                  !.rules = [r \in DOMAIN rules |-> MovedRange(rules[r])]]],
        expansions |-> [k \in DOMAIN calls |->
            LET expansion == Program.expansions[calls[k]]
                rules == Rules(expansion.definition)
            IN [expansion EXCEPT
                  !.definition = NumberIn(macros, @),
                  !.rule = CHOOSE r \in DOMAIN rules :
                              \E m \in NewMeaning(calls[k]) : m.rule = rules[r],
                  !.call = MovedRange(@),
                  !.discoveredIn = NumberIn(calls, @),
                  !.sourceCall = NumberIn(calls, @),
                  !.children = [c \in DOMAIN SelectSeq(@, LAMBDA x : x \in RemainingCalls) |->
                      NumberIn(calls, SelectSeq(@, LAMBDA x : x \in RemainingCalls)[c])]]],
        opaque |-> {MovedRange(a) : a \in {o \in Program.opaque : IsLeft(o)}}]

ReducedCrate ==
    [text |-> rewrite.source, nodes |-> ReducedNodes, report |-> ReducedReport,
     program |-> ReducedProgram]

-----------------------------------------------------------------------------
(* What the original promises of it.                                       *)

SomeIsProduced(seen, product) ==
    \E k \in product.start .. product.end : StillProduced(seen, seen.output[k])

\* The definitions of the original that are left: what is written where its
\* text is, what a macro made where some of its output is still made, what was
\* generated where its parent is, and what is injected.
LeftDefinitions ==
    LET hir == original.definitions.hir
        MadeStill(d) ==
            /\ hir[d].expansion \in RemainingCalls
            /\ SomeIsProduced(Seen(inventory, Program, hir[d].expansion), hir[d].product)
    IN SelectSeq([d \in DOMAIN hir |-> d],
                 LAMBDA d : CASE hir[d].made = "Expanded" -> MadeStill(d)
                              [] hir[d].made = "Injected" -> TRUE
                              [] OTHER -> hir[d].node \in Range(LeftNodes))

\* A site of an edge is left with its text; that of a call to a macro while some
\* call that is known by that text still calls the macro.
SiteIsLeft(edge, site) ==
    LET Known(e) == \E n \in NearestEditable(inventory, Program, e) :
                        Program.expansions[n].call = site
        Macro(e) == Program.definitions[Program.expansions[e].definition].range
        calls == {e \in DOMAIN Program.expansions :
                    /\ edge.kind = "MacroPath"
                    /\ Known(e)
                    /\ Macro(e) = Nodes[original.definitions.hir[edge.to].node].range}
    IN IsLeft(site) /\ (calls = {} \/ calls \cap RemainingCalls # {})

\* The edges among them, with the sites that are left.
EdgesAmong(left) ==
    LET SitesLeft(e) == {s \in e.sites : SiteIsLeft(e, s)}
    IN {[e EXCEPT !.from = NumberIn(left, @), !.to = NumberIn(left, @),
                  !.sites = SitesLeft(e)] :
           e \in {x \in original.edges : /\ x.from \in Range(left)
                                         /\ x.sites = {} \/ SitesLeft(x) # {}}}

LeftEdges == EdgesAmong(LeftDefinitions)

\* Every call was reported in full: a call that was not keeps its macro whole
\* while it is there, and no longer once it is gone.
FullyObserved == \A e \in DOMAIN Program.expansions : Program.expansions[e].complete

-----------------------------------------------------------------------------
(* The second session, a step at a time.                                   *)

VARIABLES
    reduced,    \* the crate of the second session, <<>> before
    refined,    \* its refined inventory, <<>> before
    session     \* what it learns, <<>> before

secondVars == <<reduced, refined, session>>

SecondInit == Init /\ reduced = <<>> /\ refined = <<>> /\ session = <<>>

\* The compiler compiles the rewritten text.
Recompile ==
    /\ phase = "rewritten"
    /\ phase' = "compiled"
    /\ reduced' = ReducedCrate
    /\ UNCHANGED <<crate, original, guard, retained, index, rewrite, refined, session>>

\* What it saw refines the new inventory.
RefineAgain ==
    /\ phase = "compiled"
    /\ phase' = "refined"
    /\ refined' = Refined(reduced)
    /\ UNCHANGED <<crate, original, guard, retained, index, rewrite, reduced, session>>

\* The definitions are looked up among those of the original.
CollectAgain ==
    /\ phase = "refined"
    /\ phase' = "verified"
    /\ session' = Session(reduced, refined, {rewrite}, {original.definitions.universe})
    /\ UNCHANGED <<crate, original, guard, retained, index, rewrite, reduced, refined>>

SecondNext ==
    \/ Next /\ UNCHANGED secondVars
    \/ Recompile
    \/ RefineAgain
    \/ CollectAgain

SecondSpec == SecondInit /\ [][SecondNext]_<<vars, secondVars>>

-----------------------------------------------------------------------------
(* Properties.                                                             *)

KeysReturn(left) ==
    /\ Len(session.definitions.keys) = Len(left)
    /\ \A d \in DOMAIN left :
          NormalizedKey({rewrite}, session.definitions.keys[d])
              = {original.definitions.keys[left[d]]}

\* The second session finds every definition that is left, and gives each the
\* key it had: whichever siblings of it are gone, whatever macro made it and
\* whichever part of its parent's text was deleted (assign_structural_ordinals
\* and normalize_definition_key of definitions.rs).
IdentitiesSurvive ==
    phase = "verified" /\ FullyObserved => session.ok /\ KeysReturn(LeftDefinitions)

\* The rewritten program still means what it meant: its definitions need each
\* other as they did, no reference of it has lost its target, the import that
\* it came through or its impl, an impl of a trait has just the items that the
\* trait still asks for, and a tuple is still one
\* (collect_source_constraints of retention.rs, tuple_layout of source.rs).
ReferencesSurvive ==
    phase = "verified" =>
        LET nodes == reduced.nodes
        IN /\ ~HasError(nodes)
           /\ FullyObserved =>
                {[e EXCEPT !.sites = UNION {OriginalRange(rewrite, s) : s \in @}] :
                    e \in session.edges} = LeftEdges
           /\ \A i \in ImplItems(nodes) :
                 HeaderTraits(nodes, nodes[i].parent) # {} => TraitItems(nodes, i) # {}
           /\ \A i \in ActiveNodes(nodes, {"Impl"}) : \A t \in HeaderTraits(nodes, i) :
                 \A k \in ChildrenOf(nodes, t) :
                    Tag(nodes, k) \in AssociatedTags /\ ~HasDefault(nodes, k) =>
                        \E j \in ChildrenOf(nodes, i) : k \in TraitItems(nodes, j)
           /\ \A n \in ActiveNodes(nodes, {"Tuple"}) :
                 \E x \in ToSet(LexemesIn(reduced.text, nodes[n].range)) : x.kind = ","

=============================================================================
