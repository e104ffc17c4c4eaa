------------------------ MODULE MCDecisionSnapshot ------------------------
(* An expansion 1 with siblings 2 and 3 below it and a fourth expansion that *)
(* is a third sibling, a child of one of them, or written elsewhere; 11 is   *)
(* the entry, 12 and 13 are definitions the macros may generate.             *)
EXTENDS DecisionSnapshot

MCDefinition == 11..13
MCExpansion == 1..4
MCOther == 21..22
MCUnit == 1..2
MCSetCode(S) == MapThenSumSet(LAMBDA d : 2^d, S)

E(name, collection, from, to, sites) ==
  [name |-> name, collection |-> collection, ordinal |-> 0, from |-> from, to |-> to,
   sites |-> sites]
At(u) == {<<"source", u>>}
Made == {<<"generated", 0>>}
Uses(pairs) == {E("ExpansionUse", "neither", p[1], p[2], Made) : p \in pairs}
Generates(pairs) == {E("GeneratedBy", "neither", p[1], p[2], {}) : p \in pairs}

Common ==
  {E("ExpansionUse", "neither", 11, 1, At(1)), E("Definition", "neither", 11, 12, At(2)),
   E("Materializes", "neither", 21, 11, {}), E("Mono", "used", 21, 22, At(1)),
   E("Mono", "mentioned", 21, 22, At(1) \cup {<<"allocation", 1>>}),
   E("SourceAssociatedItem", "mentioned", 21, 22, At(1) \cup Made),
   [E("Trace", "neither", 21, 22, {}) EXCEPT !.ordinal = 1]}

Number(order, parent, role, present) ==
  [x \in MCExpansion |-> Cardinality({y \in present : /\ parent[y] = parent[x]
                                                      /\ role[y] = role[x]
                                                      /\ order[y] < order[x]})]

Programs ==
  {[definitions |-> MCDefinition, expansions |-> MCExpansion, others |-> MCOther,
    parent |-> <<None, 1, 1, last>>, role |-> <<1, 1, 1, kind>>,
    ordinal |-> Number(<<1, 2, 3, 4>>, <<None, 1, 1, last>>, <<1, 1, 1, kind>>, MCExpansion),
    written |-> <<1, None, None, IF last = None THEN 2 ELSE None>>,
    decision |-> [n \in MCOther |-> 0], edges |-> Common \cup Uses(use) \cup Generates(gen),
    roots |-> {21}, outputless |-> {}] :
     last \in {None, 1, 2}, kind \in {1, 2},
     use \in {{}, {<<11, 2>>, <<11, 3>>, <<11, 4>>}, {<<12, 2>>, <<13, 3>>, <<11, 4>>},
              {<<11, 2>>, <<11, 3>>}},
     gen \in {{}, {<<12, 2>>, <<13, 3>>}, {<<11, 2>>, <<11, 3>>}, {<<11, 2>>, <<13, 3>>},
              {<<12, 4>>, <<11, 3>>}, {<<11, 2>>, <<12, 3>>, <<13, 4>>}}}

\* Retention keeps what the kept definitions reach; an expansion may be outputless
\* when no kept definition comes out of it or of anything below it.
PlansFor(p, D, U) ==
  LET compile == Reach({e \in AllEdges(p) : Visible(e, U)}, D \cup {11, 21})
      loud    == {e.to : e \in {f \in p.edges : f.name = "GeneratedBy" /\ f.from \in compile}}
      silent  == {x \in 2..4 : \A y \in loud : x \notin Lineage(p, y)}
  IN  {[program |-> [p EXCEPT !.outputless = O], compile |-> compile, retained |-> U,
        dropped |-> cut \cap compile] :
         cut \in {{}, {13}},
         O \in {S \in {{}, {2}, silent} : /\ S \subseteq silent
                                         /\ \A x \in S : Children(p, x) \subseteq S}}

MCPlans == UNION {PlansFor(p, D, U) :
                    p \in Programs, D \in {{}, {13}, {12, 13}}, U \in {{1}, {1, 2}}}

Present(pl, extra) ==
  {x \in MCExpansion : /\ \A y \in Lineage(pl.program, x) :
                            pl.program.written[y] \in pl.retained \cup {None}
                       /\ \E z \in KeptExpansions(pl) \cup extra : x \in Lineage(pl.program, z)}

Rewritten(pl, extra, order) ==
  LET p    == pl.program
      here == Present(pl, extra)
      defs == (pl.compile \cap MCDefinition) \ pl.dropped
  IN  [p EXCEPT !.definitions = defs, !.expansions = here,
                !.ordinal = Number(order, p.parent, p.role, here),
                !.outputless = @ \cap here,
                !.edges = {[e EXCEPT !.sites = Sites(e, pl.retained)] :
                             e \in {f \in @ : /\ {f.from, f.to} \subseteq defs \cup here \cup MCOther
                                              /\ Visible(f, pl.retained)}}]

\* What a compiler that decides otherwise may report.
Changed(q) ==
  {q, [q EXCEPT !.definitions = @ \cup {13}], [q EXCEPT !.decision[22] = 1],
   [q EXCEPT !.edges = @ \cup Uses({<<11, x>> : x \in {y \in q.expansions : Owner(q, y) = None}})],
   [q EXCEPT !.edges = {[e EXCEPT !.from = IF e.to \in {2, 3} THEN 11 ELSE @] : e \in @}],
   [q EXCEPT !.edges = {[e EXCEPT !.from = IF @ = 12 THEN 11 ELSE @] : e \in @}],
   [q EXCEPT !.edges = {[e EXCEPT !.ordinal = IF e.name = "Trace" THEN 2 ELSE @] : e \in @}],
   [q EXCEPT !.edges = {e \in @ : ~(e.name = "Mono" /\ e.collection = "used")}]}

MCCandidates(pl) ==
  UNION {Changed(Rewritten(pl, extra, order)) :
           extra \in {{}, pl.program.outputless, MCExpansion},
           order \in {<<1, 2, 3, 4>>, <<1, 4, 3, 2>>, <<1, 3, 4, 2>>, <<1, 2, 4, 3>>}}
=============================================================================
