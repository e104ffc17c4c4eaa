-------------------------- MODULE DecisionSnapshot --------------------------
(***************************************************************************)
(* snapshot.rs: what the compiler decided about the original program,      *)
(* restricted to what retention kept, against what it decided about the    *)
(* reduced one.  Both are written with keys that do not depend on numbers  *)
(* a session hands out.  The difficult key is that of a macro expansion:   *)
(* siblings of one role differ only by an ordinal, and ordinals move when  *)
(* a sibling is removed or discovered in another order.                    *)
(*                                                                         *)
(* Nodes are numbers; definitions and other nodes (monomorphizations,      *)
(* proofs, external definitions) are their own keys.  The three parent     *)
(* relations of an expansion are the one that forms its key.               *)
(***************************************************************************)
EXTENDS Integers, Sequences, FiniteSets, FiniteSetsExt, Functions

CONSTANTS
  Definition, Expansion, Other,   \* disjoint sets of numbers
  Unit,                           \* source units
  SetCode(_),                     \* a fixed order of sets of definitions
  Plans,                          \* originals with what retention made of them
  Candidates(_)                   \* how the compiler may see the rewritten source

None == 0
Node == Definition \cup Expansion \cup Other
Site == ({"source"} \X Unit) \cup ({"allocation"} \X (0..2)) \cup {<<"generated", 0>>}
\* "Parent" is the one parent that forms the key; Trace are the relations of one
\* query, SourceAssociatedItem the selection proofs of that relation.
DependencyKind == {"Definition", "Parent", "MacroDefinition", "ExpansionUse", "GeneratedBy",
                   "SourceAssociatedItem", "SelectionProof", "Trace", "ProofRelation",
                   "Materializes", "Mono"}
Edge == [name : DependencyKind, collection : {"used", "mentioned", "neither"}, ordinal : Nat,
         from : Node, to : Node, sites : SUBSET Site]

\* A dependency graph; parent edges are not listed in `edges`.
Program ==
  [definitions : SUBSET Definition, expansions : SUBSET Expansion, others : SUBSET Other,
   parent : [Expansion -> Expansion \cup {None}], role : [Expansion -> 1..2],
   ordinal : [Expansion -> Nat], written : [Expansion -> Unit \cup {None}],
   decision : [Other -> Nat], edges : SUBSET Edge, roots : SUBSET Node,
   outputless : SUBSET Expansion]

\* compile_required, retained_units, and the use items that the rewrite cut off
\* before their last byte.
Plan == [program : Program, compile : SUBSET Node, retained : SUBSET Unit,
         dropped : SUBSET Definition]

ASSUME NodeAssumption ==
  /\ IsFiniteSet(Node) /\ Node \subseteq Nat \ {None}
  /\ Definition \cap Expansion = {} /\ Definition \cap Other = {} /\ Expansion \cap Other = {}

ASSUME OrderAssumption ==
  /\ \A S \in SUBSET Definition : SetCode(S) \in Nat /\ (SetCode(S) = 0 <=> S = {})
  /\ \A S, T \in SUBSET Definition : SetCode(S) = SetCode(T) => S = T

\* Expansions of one role under one parent.
Siblings(p, x) ==
  {y \in p.expansions : p.parent[y] = p.parent[x] /\ p.role[y] = p.role[x]}

\* DependencyGraph::new: edges join nodes of the graph, only definitions use and
\* generate expansions, the sites of a relation are on one edge, the parents of
\* an expansion come to an end, and no two expansions have the same key.
WellFormed(p) ==
  /\ p \in Program
  /\ p.roots \subseteq p.definitions \cup p.others
  /\ \A e \in p.edges :
       /\ {e.from, e.to} \subseteq p.definitions \cup p.expansions \cup p.others
       /\ e.to \in Expansion => e.name \in {"ExpansionUse", "GeneratedBy"}
                                 /\ e.from \in Definition
       /\ e.name = "SourceAssociatedItem" => e.from \in Other
       /\ \A d \in p.edges : e = [d EXCEPT !.sites = e.sites] => d = e
  /\ \A x \in p.expansions : p.parent[x] \in p.expansions \cup {None}
  /\ \A S \in SUBSET p.expansions : S # {} => \E x \in S : p.parent[x] \notin S
  /\ \A x \in p.expansions : \A y \in Siblings(p, x) : p.ordinal[x] = p.ordinal[y] => x = y

\* What the collectors hand to it: siblings are numbered from zero, and the edges
\* from generated code to its expansion and within a trace have no sites.
Collected(p) ==
  /\ \A x \in p.expansions :
       p.ordinal[x] = Cardinality({y \in Siblings(p, x) : p.ordinal[y] < p.ordinal[x]})
  /\ \A e \in p.edges : e.name \in {"GeneratedBy", "Trace"} => e.sites = {}

\* An expansion has output if one of `nodes` below it has.
OutputAbove(p, nodes) ==
  \A x \in (nodes \cap p.expansions) \ p.outputless : p.parent[x] \notin p.outputless

\* What compute_retention and the rewrite make of a plan: required nodes include
\* the roots and the parents of expansions, and no root is cut off.
RetentionClosed(pl) ==
  LET p == pl.program
  IN  /\ pl.compile \subseteq p.definitions \cup p.expansions \cup p.others
      /\ p.roots \subseteq pl.compile \ pl.dropped
      /\ \A x \in pl.compile \cap Expansion : p.parent[x] \in pl.compile \cup {None}
      /\ OutputAbove(p, pl.compile)

ASSUME PlanAssumption ==
  \A pl \in Plans :
    /\ pl \in Plan /\ WellFormed(pl.program) /\ Collected(pl.program) /\ RetentionClosed(pl)
    /\ \A q \in Candidates(pl) :
         WellFormed(q) /\ Collected(q) /\ OutputAbove(q, q.expansions)

VARIABLES pc, plan, reduced, expected, observed, outcome
vars == <<pc, plan, reduced, expected, observed, outcome>>

-----------------------------------------------------------------------------
\* The expansions from x up to the outermost one, x included.
Lineage(p, x) ==
  LET up[y \in Expansion] ==
        {y} \cup IF p.parent[y] = None THEN {} ELSE up[p.parent[y]]
  IN  up[x]

Depth(p, x) == Cardinality(Lineage(p, x))
Children(p, x) == {y \in p.expansions : p.parent[y] = x}

\* valid_expansion_edges: one edge for the parent of an expansion.
AllEdges(p) ==
  p.edges \cup
    {[name |-> "Parent", collection |-> "neither", ordinal |-> 0, from |-> x,
      to |-> p.parent[x], sites |-> {}] : x \in {y \in p.expansions : p.parent[y] # None}}

\* source_owner, the definition of the one ExpansionUse edge
Owner(p, x) ==
  LET uses == {e \in p.edges : e.name = "ExpansionUse" /\ e.to = x}
  IN  IF uses = {} THEN None ELSE (CHOOSE e \in uses : TRUE).from

\* surviving_expansions, selected_node_survives_rewrite
Survives(pl, n) ==
  /\ n \in Expansion =>
       \A y \in Lineage(pl.program, n) : pl.program.written[y] \in pl.retained \cup {None}
  /\ n \notin pl.dropped

Permitted(pl) == {n \in pl.compile \ pl.program.outputless : Survives(pl, n)}

\* snapshot_observation_site: where in an allocation is not part of the key.
SnapshotSite(s) == IF s[1] = "allocation" THEN <<"allocation", 0>> ELSE s

\* snapshot_observation_sites; all units are retained in the reduced program.
Sites(e, retained) ==
  {SnapshotSite(s) : s \in {t \in e.sites : t[1] = "source" => t[2] \in retained}}

Visible(e, retained) == e.sites = {} \/ Sites(e, retained) # {}

\* The nodes that the edges reach from a set.
Reach(edges, from) ==
  LET step[n \in 0..Cardinality(Node)] ==
        IF n = 0 THEN from
        ELSE LET before == step[n - 1]
             IN  before \cup {e.to : e \in {f \in edges : f.from \in before}}
  IN  step[Cardinality(Node)]

-----------------------------------------------------------------------------
\* Mutant: ordinals count the siblings that are gone.
RawOrdinal(p, x) == p.ordinal[x]

\* Mutant: all outputless siblings are subtracted, the later ones too.
OrdinalLessAll(p, x) == p.ordinal[x] - Cardinality(Siblings(p, x) \cap p.outputless)

\* outputless_filtered_expansion_ordinals
FilteredOrdinal(p, x) ==
  p.ordinal[x] -
    Cardinality({y \in Siblings(p, x) \cap p.outputless : p.ordinal[y] < p.ordinal[x]})

UsersOf(p, name, selected, retained, x) ==
  {e.from : e \in {f \in p.edges : /\ f.name = name /\ f.to = x /\ f.from \in selected
                                   /\ Visible(f, retained)}}

\* generated_by_witness, generated_by_subtree_witness, expansion_use_witness
GeneratedBy(p, selected, x) == UsersOf(p, "GeneratedBy", selected, Unit, x)
GeneratedBySubtree(p, selected, x) ==
  UNION {GeneratedBy(p, selected, y) :
           y \in {z \in selected \cap Expansion : x \in Lineage(p, z)}}
ExpansionUse(p, selected, retained, x) == UsersOf(p, "ExpansionUse", selected, retained, x)

\* expansion_subtree_ranks: equal ranks for equal shapes, level by level from
\* the deepest.
RanksOf(shape) ==
  LET deepest  == Cardinality(Expansion) + 1
      level(d) == {x \in DOMAIN shape : shape[x].depth = d}
      rank(code, d, x) ==
        Cardinality({code[y] : y \in {z \in level(d) : code[z] < code[x]}})
      code[d \in 1..deepest] ==
        [x \in level(d) |->
           shape[x].role
             + 4 * MapThenSumSet(LAMBDA y : 5^rank(code[d + 1], d + 1, y), shape[x].children)]
  IN  [x \in DOMAIN shape |-> rank(code[shape[x].depth], shape[x].depth, x)]

SubtreeRanks(p, selected) ==
  RanksOf([x \in selected \cap Expansion |->
             [depth |-> Depth(p, x), role |-> p.role[x],
              children |-> Children(p, x) \cap selected]])

Full(f) == \A x \in DOMAIN f : f[x] # 0
Empty(f) == \A x \in DOMAIN f : f[x] = 0

\* Mutant: siblings keep the order in which they were discovered.
EvidenceNone(p, selected, retained, group) == [x \in {} |-> 0]

\* Mutant: siblings are ordered by what they generated, the same or not.
EvidenceAmbiguous(p, selected, retained, group) ==
  [x \in group |-> SetCode(GeneratedBy(p, selected, x))]

\* What puts the siblings in an order that any session finds again, as a
\* function on the group; the empty function if nothing does.
Evidence(p, selected, retained, group) ==
  LET direct  == [x \in group |-> SetCode(GeneratedBy(p, selected, x))]
      subtree == [x \in group |-> SetCode(GeneratedBySubtree(p, selected, x))]
      use     == [x \in group |-> SetCode(ExpansionUse(p, selected, retained, x))]
      ranks   == Restrict(SubtreeRanks(p, selected), group)
      canonical(f) == Full(f) /\ IsInjective(f)
  IN  CASE Cardinality(group) = 1 \/ canonical(direct) -> direct
        [] Empty(direct) /\ canonical(subtree) -> subtree
        [] Empty(direct) /\ Empty(subtree) /\ canonical(use) -> use
        [] /\ Empty(direct) /\ Empty(subtree) /\ ~canonical(use)
           /\ Empty(use) \/ Full(use)
           /\ IsInjective(ranks) -> ranks
        [] OTHER -> [x \in {} |-> 0]

\* The place of an expansion among its siblings.
SnapshotOrdinal(p, selected, retained, x) ==
  LET group    == Siblings(p, x) \cap selected
      evidence == Evidence(p, selected, retained, group)
  IN  IF DOMAIN evidence = group
        THEN Cardinality({y \in group : evidence[y] < evidence[x]})
        ELSE FilteredOrdinal(p, x)

\* A key is that of the parent with the leaf of the expansion itself.
KeysOf(parent, leaf) ==
  LET key[x \in DOMAIN leaf] ==
        Append(IF parent[x] = None THEN <<>> ELSE key[parent[x]], leaf[x])
  IN  key

\* snapshot_expansion_keys, for expansions whose parents are selected
ExpansionKeys(p, selected, retained) ==
  LET here == selected \cap Expansion
  IN  KeysOf([x \in here |-> p.parent[x]],
             [x \in here |-> <<p.role[x], SnapshotOrdinal(p, selected, retained, x)>>])

-----------------------------------------------------------------------------
\* canonicalize_collection_edges: a Used observation subsumes the Mentioned one
\* of the same relation, endpoints and site.
Subsumed(edges, e) ==
  LET used  == {f \in edges : f = [e EXCEPT !.collection = "used", !.sites = f.sites]}
      sites == e.sites \ UNION {f.sites : f \in used}
  IN  IF e.collection # "mentioned" THEN {e}
      ELSE IF e.sites = {} THEN {f \in {e} : \A g \in used : g.sites # {}}
      ELSE {f \in {[e EXCEPT !.sites = sites]} : sites # {}}

\* project_source_associated_item: an item selected in the source belongs to
\* its site, not to the instance that the site was inlined into.
Projected(e) ==
  LET source == {s \in e.sites : s[1] = "source"}
  IN  IF ~(e.name = "SourceAssociatedItem" /\ e.collection = "mentioned") \/ source = {}
        THEN {e}
        ELSE {f \in {[e EXCEPT !.sites = @ \ source]} : f.sites # {}} \cup
             {[e EXCEPT !.from = <<>>, !.sites = {s}] : s \in source}

\* snapshot_dependency_kind: ordinals of trace relations are query-local.
DependencyOrdinal(e) == IF e.name = "Trace" THEN 0 ELSE e.ordinal

\* node_key
NodeKey(keys, n) == IF n \in Expansion THEN keys[n] ELSE <<<<0, n>>>>

\* snapshot_node, snapshot_proof_decision: what was decided at a node
NodeDecision(p, keys, n) ==
  IF n \in Expansion
    THEN <<p.role[n], Owner(p, n),
           IF p.parent[n] = None THEN <<>> ELSE <<keys[p.parent[n]]>> >>
    ELSE <<IF n \in Other THEN p.decision[n] ELSE 0>>

\* An edge between selected nodes in terms of keys.
SnapshotEdge(keys, e, retained) ==
  [name |-> e.name, collection |-> e.collection, ordinal |-> DependencyOrdinal(e),
   from |-> NodeKey(keys, e.from), to |-> NodeKey(keys, e.to), sites |-> Sites(e, retained)]

Failed == [ok |-> FALSE, roots |-> {}, nodes |-> {}, edges |-> {}]

\* CompilerDecisionSnapshot::build
Build(p, selected, retained) ==
  LET orphan == \E x \in selected \cap Expansion :
                  p.parent[x] # None /\ p.parent[x] \notin selected
      keys   == ExpansionKeys(p, selected, retained)
      key(n) == NodeKey(keys, n)
      seen   == {e \in AllEdges(p) : {e.from, e.to} \subseteq selected /\ Visible(e, retained)}
      edges  == UNION {Projected(SnapshotEdge(keys, e, retained)) : e \in seen}
  IN  IF orphan \/ ~(p.roots \subseteq selected)
         \/ Cardinality({key(n) : n \in selected}) # Cardinality(selected)
        THEN Failed
        ELSE [ok |-> TRUE,
              roots |-> {key(n) : n \in p.roots},
              nodes |-> {<<key(n), NodeDecision(p, keys, n)>> : n \in selected},
              edges |-> UNION {Subsumed(edges, e) : e \in edges}]

\* CompilerDecisionSnapshot::original
OriginalSelected(pl) ==
  LET permitted == Permitted(pl)
      seeds     == (permitted \cap Definition) \cup pl.program.roots
      followed  == {e \in AllEdges(pl.program) :
                      e.to \in permitted /\ Visible(e, pl.retained)}
  IN  Reach(followed, seeds)

OriginalSnapshot(pl) ==
  IF pl.program.roots \subseteq Permitted(pl)
    THEN Build(pl.program, OriginalSelected(pl), pl.retained)
    ELSE Failed

\* Mutant: only what the roots reach is looked at in the reduced program.
ReducedSeedsRoots(p) == p.roots

\* Every definition, so that a new one cannot hide.
ReducedSeeds(p) == p.definitions \cup p.roots

\* CompilerDecisionSnapshot::reduced_excluding
ReducedSelected(p) ==
  Reach({e \in AllEdges(p) : e.to \notin p.outputless}, ReducedSeeds(p))

ReducedSnapshot(p) == Build(p, ReducedSelected(p), Unit)

\* first_difference, as api.rs reports it
Difference(a, b) ==
  CASE a.roots # b.roots -> "root"
    [] a.roots = b.roots /\ a.nodes # b.nodes -> "node"
    [] a.roots = b.roots /\ a.nodes = b.nodes /\ a.edges # b.edges -> "edge"
    [] OTHER -> "accepted"

-----------------------------------------------------------------------------
\* reduce_in_context, from the finished plan on
Init ==
  /\ plan \in Plans
  /\ pc = "original"
  /\ reduced = plan.program
  /\ expected = Failed /\ observed = Failed
  /\ outcome = "none"

End(how) == pc' = "done" /\ outcome' = how

Original ==
  /\ pc = "original"
  /\ expected' = OriginalSnapshot(plan)
  /\ \/ expected'.ok /\ pc' = "inspect" /\ UNCHANGED outcome
     \/ ~expected'.ok /\ End("error")
  /\ UNCHANGED <<plan, reduced, observed>>

\* The compiler runs on the rewritten source.
Inspect ==
  /\ pc = "inspect"
  /\ reduced' \in Candidates(plan)
  /\ pc' = "reduced"
  /\ UNCHANGED <<plan, expected, observed, outcome>>

Reduced ==
  /\ pc = "reduced"
  /\ observed' = ReducedSnapshot(reduced)
  /\ \/ observed'.ok /\ pc' = "compare" /\ UNCHANGED outcome
     \/ ~observed'.ok /\ End("error")
  /\ UNCHANGED <<plan, reduced, expected>>

Compare ==
  /\ pc = "compare"
  /\ End(Difference(expected, observed))
  /\ UNCHANGED <<plan, reduced, expected, observed>>

Next == Original \/ Inspect \/ Reduced \/ Compare

Spec == Init /\ [][Next]_vars

-----------------------------------------------------------------------------
\* The state's types.
TypeOK ==
  /\ pc \in {"original", "inspect", "reduced", "compare", "done"}
  /\ plan \in Plan /\ reduced \in Program
  /\ outcome \in {"none", "root", "node", "edge", "error", "accepted"}

\* The expansions that take part: with output, and above one that a
\* definition was written with or generated by.
Participants(p, definitions) ==
  {x \in p.expansions \ p.outputless :
     \E e \in p.edges : /\ e.name \in {"ExpansionUse", "GeneratedBy"}
                        /\ e.from \in definitions
                        /\ e.to \in Expansion \ p.outputless
                        /\ x \in Lineage(p, e.to)}

\* One observation per edge and site; no site counts as a site of its own.
Observations(p, nodes, retained) ==
  UNION {{<<e, s>> : s \in IF e.sites = {} THEN {<<"none", 0>>} ELSE Sites(e, retained)} :
           e \in {f \in AllEdges(p) : {f.from, f.to} \subseteq nodes}}

\* What an observation says once f has renamed the expansions.
Said(f, o) ==
  LET name(n) == IF n \in Expansion THEN f[n] ELSE n
      loose   == o[1].name = "SourceAssociatedItem" /\ o[1].collection = "mentioned"
                   /\ o[2][1] = "source"
  IN  <<IF loose THEN None ELSE name(o[1].from), name(o[1].to), o[1].name,
        o[1].collection, DependencyOrdinal(o[1]), o[2]>>

\* Without the mentions that a use of the same thing at the same site makes.
Obligations(said) ==
  {o \in said : ~(o[4] = "mentioned" /\ [o EXCEPT ![4] = "used"] \in said)}

\* f, from the expansions kept of the original to those of the reduced program,
\* respects all that the compiler decided.
Same(f, pl, q) ==
  LET p     == pl.program
      defs  == {n \in pl.compile \cap Definition : n \notin pl.dropped}
      kept  == DOMAIN f \cup (OriginalSelected(pl) \ Expansion)
      found == Participants(q, q.definitions) \cup q.definitions \cup
               (ReducedSelected(q) \cap Other)
      id    == [x \in Expansion |-> x]
  IN  /\ defs = q.definitions /\ p.roots = q.roots
      /\ kept \cap Other = found \cap Other
      /\ \A n \in kept \cap Other : p.decision[n] = q.decision[n]
      /\ \A x \in DOMAIN f :
           /\ p.role[x] = q.role[f[x]]
           /\ Owner(p, x) = Owner(q, f[x])
           /\ IF p.parent[x] = None THEN q.parent[f[x]] = None
              ELSE q.parent[f[x]] = f[p.parent[x]]
      /\ Obligations({Said(f, o) : o \in Observations(p, kept, pl.retained)})
           = Obligations({Said(id, o) : o \in Observations(q, found, Unit)})

KeptExpansions(pl) == OriginalSelected(pl) \cap Expansion
FoundExpansions(q) == Participants(q, q.definitions)

\* An accepted reduction is one about which the compiler decided the same: some
\* renaming of the kept expansions matches all definitions, owners, parents and
\* dependencies of the reduced program, none left over on either side.
AcceptedIsSame ==
  outcome = "accepted" =>
    \E f \in Bijection(KeptExpansions(plan), FoundExpansions(reduced)) :
      Same(f, plan, reduced)

Identity(S) == [x \in S |-> x]
Unchanged ==
  /\ KeptExpansions(plan) = FoundExpansions(reduced)
  /\ Same(Identity(KeptExpansions(plan)), plan, reduced)

\* The siblings of a kept expansion are those of the original without outputless
\* ones, in the same order.
OrderKept ==
  \A x \in KeptExpansions(plan) :
    LET full(p) == Siblings(p, x) \ p.outputless
    IN  /\ full(plan.program) = full(reduced)
        /\ \A y \in full(reduced) : (plan.program.ordinal[y] < plan.program.ordinal[x])
                                      <=> (reduced.ordinal[y] < reduced.ordinal[x])

\* The siblings of a kept expansion have each generated definitions of their own.
Witnessed ==
  \A x, y \in KeptExpansions(plan) :
    x # y /\ y \in Siblings(plan.program, x) =>
      /\ GeneratedBy(plan.program, OriginalSelected(plan), x) # {}
      /\ GeneratedBy(plan.program, OriginalSelected(plan), x) #
           GeneratedBy(plan.program, OriginalSelected(plan), y)

\* Removing outputless siblings never makes the comparison reject a program
\* about which the compiler decided the same; and where generated definitions
\* tell siblings apart, neither does the removal of other siblings or another
\* order of discovery.  On graphs that DependencyGraph::new accepts, and a
\* retention that is closed under them, neither snapshot fails: no two expansions
\* get the same key, and no ordinal is reduced by more siblings than there are
\* before it.
SameIsAccepted ==
  /\ outcome # "error"
  /\ \A n \in expected.nodes \cup observed.nodes : n[1] \in Seq(Nat \X Nat)
  /\ pc = "done" /\ Unchanged /\ (OrderKept \/ Witnessed) => outcome = "accepted"
=============================================================================
