---------------------------- MODULE Reachability ----------------------------
(***************************************************************************)
(* retention/reachability.rs: the incremental closure of a demand lane     *)
(* (nodes of the compiler's dependency graph) along compiler edges whose   *)
(* observation sites and target expansion are written in retained source.  *)
(*                                                                         *)
(* compute_retention runs one instance per lane: it hands over new nodes   *)
(* and new source units and calls close, in any number of rounds.  The     *)
(* queues are FIFO in the code and drained in phases; here any waiting     *)
(* element may be next.                                                    *)
(***************************************************************************)
EXTENDS Naturals, FiniteSets

CONSTANTS
  Unit,         \* source units
  Definition,   \* graph nodes that are definitions
  Expansion,    \* graph nodes that are macro expansions
  Other,        \* graph nodes of the other kinds (proofs, instances)
  Site,         \* source ranges at which the compiler observed an edge
  NonSource,    \* an observation site outside the source
  NoUnit,       \* no written invocation
  Graphs,       \* the dependency graphs to consider
  NodeDeltas,   \* the sets of nodes a caller hands over
  UnitDeltas    \* the sets of source units a caller hands over

Node == Definition \cup Expansion \cup Other

\* Edges of another kind than these two have no target component.
UseKinds == {"ExpansionUse", "GeneratedBy"}

Edges ==
  [kind : UseKinds \cup {"Other"}, from : Node, to : Node,
   sites : SUBSET (Site \cup {NonSource})]

(***************************************************************************)
(* parents: discovered_in, semantic_parent and source_call_parent;         *)
(* owners: what SourceSiteOwnerIndex answers; delegated: expansions that   *)
(* are reached through macro products instead of ExpansionUse.             *)
(***************************************************************************)
GraphSet ==
  [edges : SUBSET Edges,
   parents : [Expansion -> SUBSET Expansion],
   written : [Expansion -> Unit \cup {NoUnit}],
   owners : [Site -> (SUBSET Unit) \ {{}}],
   delegated : SUBSET Expansion]

ASSUME GraphAssumption ==
  /\ Graphs \subseteq GraphSet
  /\ \A g \in Graphs : \A x \in Expansion : x \notin g.parents[x]
  /\ NonSource \notin Site
  /\ NodeDeltas \subseteq SUBSET Node /\ UnitDeltas \subseteq SUBSET Unit
  /\ NoUnit \notin Unit
  /\ IsFiniteSet(Unit) /\ IsFiniteSet(Expansion) /\ IsFiniteSet(Site)
  /\ Definition \cap Expansion = {}

-----------------------------------------------------------------------------
(* The index.                                                              *)

IndexedEdges(g) ==
  {e \in g.edges : ~(e.kind = "ExpansionUse" /\ e.to \in g.delegated)}

Unconditional(e) ==
  e.sites = {} \/ e.from \notin Definition \/ NonSource \in e.sites

SitesOf(e) == IF Unconditional(e) THEN {} ELSE e.sites

\* The expansions that x depends on through any number of parents, and x.
Ancestors(g, x) ==
  {y \in Expansion :
     \A S \in SUBSET Expansion :
       x \in S /\ (\A z \in S : g.parents[z] \subseteq S) => y \in S}

\* Mutant: every expansion is a component of its own.
ComponentOfSingleton(g, x) == {x}

\* expansion_components: a strongly connected component is the set of its
\* expansions.
ComponentOf(g, x) ==
  {y \in Ancestors(g, x) : x \in Ancestors(g, y)}

NoComponent == {}

TargetComponent(g, e) ==
  IF e.kind \in UseKinds /\ e.to \in Expansion THEN ComponentOf(g, e.to) ELSE NoComponent

IndexOf(g) ==
  LET components == {ComponentOf(g, x) : x \in Expansion}
  IN  [edges      |-> IndexedEdges(g),
       sites      |-> [e \in IndexedEdges(g) |-> SitesOf(e)],
       target     |-> [e \in IndexedEdges(g) |-> TargetComponent(g, e)],
       owners     |-> g.owners,
       components |-> components,
       sources    |-> [c \in components |-> {g.written[x] : x \in c} \ {NoUnit}],
       parents    |-> [c \in components |->
                         {ComponentOf(g, y) : y \in UNION {g.parents[x] : x \in c}} \ {c}]]

-----------------------------------------------------------------------------
VARIABLES
  graph, index,        \* fixed at the start
  status,              \* "idle", "closing", or "error" once a call returned Err
  required,            \* the caller's demand lane
  known,               \* reachable_nodes
  retained,            \* retained_sources
  siteRetained,        \* site_retained_owners
  siteState,           \* site_states: "none", "partial", "all"
  dirty,               \* dirty_sites
  missingSources, missingParents, survives,    \* per component
  siteOpen, partialSites, fired,               \* per edge
  pendingNodes, pendingComponents, pendingEdges,
  inputs               \* history: nodes required by the caller itself

siteVars == <<siteRetained, siteState, dirty>>
componentVars == <<missingSources, missingParents, survives>>
edgeVars == <<siteOpen, partialSites, fired>>
fixedVars == <<graph, index>>
vars == <<graph, index, status, required, known, retained, siteRetained,
          siteState, dirty, missingSources, missingParents, survives, siteOpen,
          partialSites, fired, pendingNodes, pendingComponents, pendingEdges,
          inputs>>

SitesOfUnit(u) == {s \in Site : u \in index.owners[s]}
EdgesAt(s) == {e \in index.edges : s \in index.sites[e]}
ComponentsOfUnit(u) == {c \in index.components : u \in index.sources[c]}
Children(c) == {d \in index.components : c \in index.parents[d]}

\* queue_component_if_ready, with the counters the caller has just written.
Ready(missingS, missingP) ==
  {c \in index.components \ survives : missingS[c] = 0 /\ missingP[c] = 0}

Init ==
  /\ graph \in Graphs
  /\ index = IndexOf(graph)
  /\ status = "idle"
  /\ required = {} /\ known = {} /\ retained = {} /\ inputs = {}
  /\ siteRetained = [s \in Site |-> 0]
  /\ siteState = [s \in Site |-> "none"]
  /\ dirty = {}
  /\ missingSources = [c \in index.components |-> Cardinality(index.sources[c])]
  /\ missingParents = [c \in index.components |-> Cardinality(index.parents[c])]
  /\ survives = {}
  /\ siteOpen = {e \in index.edges : Unconditional(e)}
  /\ partialSites = [e \in index.edges |-> 0]
  /\ fired = {}
  /\ pendingNodes = {} /\ pendingEdges = {}
  /\ pendingComponents = Ready(missingSources, missingParents)

\* The caller requires nodes and hands over the new ones.
AddReachable(nodes) ==
  /\ status = "idle" /\ ~(nodes \subseteq required)
  /\ required' = required \cup nodes
  /\ known' = known \cup nodes
  /\ pendingNodes' = pendingNodes \cup (nodes \ known)
  /\ inputs' = inputs \cup nodes
  /\ UNCHANGED <<fixedVars, status, retained, siteVars, componentVars, edgeVars,
                 pendingComponents, pendingEdges>>

\* add_sources skips a unit it already holds.
NewSources(units) == units \ retained

\* affected_components
Affected(units) == UNION {ComponentsOfUnit(u) : u \in units}

\* The caller hands over retained source units, some of them again.
AddSources(units) ==
  LET new == NewSources(units)
      missing(c) == Cardinality({u \in new : c \in ComponentsOfUnit(u)})
  IN
  /\ status = "idle" /\ ~(units \subseteq retained)
  /\ retained' = retained \cup units
  /\ siteRetained' = [s \in Site |->
       siteRetained[s] + Cardinality({u \in new : s \in SitesOfUnit(u)})]
  /\ dirty' = dirty \cup UNION {SitesOfUnit(u) : u \in new}
  /\ IF \E c \in index.components : missing(c) > missingSources[c]
       THEN /\ status' = "error"
            /\ UNCHANGED <<missingSources, pendingComponents>>
       ELSE /\ missingSources' =
                 [c \in index.components |-> missingSources[c] - missing(c)]
            /\ pendingComponents' = pendingComponents \cup
                 (Affected(new) \cap Ready(missingSources', missingParents))
            /\ UNCHANGED status
  /\ UNCHANGED <<fixedVars, required, known, siteState, missingParents, survives,
                 edgeVars, pendingNodes, pendingEdges, inputs>>

-----------------------------------------------------------------------------
(* close                                                                   *)

HasWork ==
  dirty # {} \/ pendingNodes # {} \/ pendingComponents # {} \/ pendingEdges # {}

StateNow(s) ==
  CASE siteRetained[s] = 0 -> "none"
    [] siteRetained[s] = Cardinality(index.owners[s]) -> "all"
    [] OTHER -> "partial"

\* The first loop of close: the sites whose owners changed.
BeginClose ==
  LET changed    == {s \in dirty : StateNow(s) # siteState[s]}
      leaving(e) == {s \in changed : e \in EdgesAt(s) /\ siteState[s] = "partial"}
      joining(e) == {s \in changed : e \in EdgesAt(s) /\ StateNow(s) = "partial"}
  IN
  /\ status = "idle" /\ HasWork
  /\ dirty' = {}
  /\ IF \/ \E s \in dirty : siteRetained[s] > Cardinality(index.owners[s])
        \/ \E e \in index.edges : Cardinality(leaving(e)) > partialSites[e]
       THEN /\ status' = "error"
            /\ UNCHANGED <<siteState, partialSites, siteOpen, pendingEdges>>
       ELSE /\ status' = "closing"
            /\ siteState' = [s \in Site |-> IF s \in dirty THEN StateNow(s) ELSE siteState[s]]
            /\ partialSites' = [e \in index.edges |->
                 (partialSites[e] - Cardinality(leaving(e))) + Cardinality(joining(e))]
            /\ siteOpen' = siteOpen \cup
                 UNION {EdgesAt(s) : s \in {t \in changed : StateNow(t) = "all"}}
            /\ pendingEdges' = pendingEdges \cup ((UNION {EdgesAt(s) : s \in changed}) \ fired)
  /\ UNCHANGED <<fixedVars, required, known, retained, siteRetained,
                 componentVars, fired, pendingNodes, pendingComponents, inputs>>

\* Mutant: a surviving component forgets the edges that wait for it.
TargetEdgesNone(c) == {}

\* target_edges
TargetEdges(c) == {e \in index.edges : index.target[e] = c}

\* A component whose sources and parents are all there survives.
VisitComponent(c) ==
  /\ status = "closing" /\ c \in pendingComponents
  /\ IF c \in survives \/ missingSources[c] # 0 \/ missingParents[c] # 0
       THEN /\ pendingComponents' = pendingComponents \ {c}
            /\ UNCHANGED <<survives, missingParents, pendingEdges>>
       ELSE /\ survives' = survives \cup {c}
            /\ missingParents' = [d \in index.components |->
                 IF d \in Children(c) /\ missingParents[d] # 0
                   THEN missingParents[d] - 1 ELSE missingParents[d]]
            /\ pendingComponents' = (pendingComponents \ {c}) \cup
                 (Children(c) \cap Ready(missingSources, missingParents'))
            /\ pendingEdges' = pendingEdges \cup (TargetEdges(c) \ fired)
  /\ UNCHANGED <<fixedVars, status, required, known, retained, siteVars,
                 missingSources, edgeVars, pendingNodes, inputs>>

VisitNode(n) ==
  /\ status = "closing" /\ n \in pendingNodes
  /\ pendingNodes' = pendingNodes \ {n}
  /\ pendingEdges' = pendingEdges \cup ({e \in index.edges : e.from = n} \ fired)
  /\ UNCHANGED <<fixedVars, status, required, known, retained, siteVars,
                 componentVars, edgeVars, pendingComponents, inputs>>

\* Mutant: a partly retained site closes the edge instead of failing.
PartialIgnored(e) == FALSE

\* No site of the edge is wholly retained and one is partly retained.
Partial(e) == e \notin siteOpen /\ partialSites[e] # 0

\* Mutant: an edge fires into an expansion whose source is not retained.
GatesOpenUngated(e) == e.from \in known

GatesOpen(e) ==
  e.from \in known /\ (index.target[e] # NoComponent => index.target[e] \in survives)

VisitEdge(e) ==
  /\ status = "closing" /\ e \in pendingEdges
  /\ pendingEdges' = pendingEdges \ {e}
  /\ IF GatesOpen(e) /\ Partial(e)
       THEN /\ status' = "error"
            /\ UNCHANGED <<fired, required, known, pendingNodes>>
       ELSE /\ UNCHANGED status
            /\ IF e \notin fired /\ GatesOpen(e) /\ e \in siteOpen
                 THEN /\ fired' = fired \cup {e}
                      /\ required' = required \cup {e.to}
                      /\ known' = known \cup {e.to}
                      /\ pendingNodes' = pendingNodes \cup ({e.to} \ known)
                 ELSE UNCHANGED <<fired, required, known, pendingNodes>>
  /\ UNCHANGED <<fixedVars, retained, siteVars, componentVars, siteOpen,
                 partialSites, pendingComponents, inputs>>

Return ==
  /\ status = "closing"
  /\ pendingNodes = {} /\ pendingComponents = {} /\ pendingEdges = {}
  /\ status' = "idle"
  /\ UNCHANGED <<fixedVars, required, known, retained, siteVars, componentVars,
                 edgeVars, pendingNodes, pendingComponents, pendingEdges, inputs>>

Close ==
  \/ \E c \in index.components : VisitComponent(c)
  \/ \E n \in Node : VisitNode(n)
  \/ \E e \in index.edges : VisitEdge(e)
  \/ Return

Next ==
  \/ \E nodes \in NodeDeltas : AddReachable(nodes)
  \/ \E units \in UnitDeltas : AddSources(units)
  \/ BeginClose
  \/ Close

Spec == Init /\ [][Next]_vars

-----------------------------------------------------------------------------
\* The state's types.  The counters equal the sizes of the sets they stand for,
\* so neither the underflow nor the overflow tests of the code can trigger.
TypeOK ==
  /\ graph \in Graphs /\ index = IndexOf(graph)
  /\ status \in {"idle", "closing", "error"}
  /\ required \in SUBSET Node /\ known \in SUBSET Node /\ inputs \in SUBSET required
  /\ retained \in SUBSET Unit
  /\ siteState \in [Site -> {"none", "partial", "all"}]
  /\ dirty \in SUBSET Site
  /\ survives \in SUBSET index.components
  /\ siteOpen \in SUBSET index.edges /\ fired \in SUBSET index.edges
  /\ pendingNodes \in SUBSET known
  /\ pendingComponents \in SUBSET index.components
  /\ pendingEdges \in SUBSET index.edges
  /\ siteRetained = [s \in Site |-> Cardinality(index.owners[s] \cap retained)]
  /\ missingSources = [c \in index.components |-> Cardinality(index.sources[c] \ retained)]
  /\ missingParents = [c \in index.components |-> Cardinality(index.parents[c] \ survives)]
  /\ partialSites = [e \in index.edges |->
       Cardinality({s \in index.sites[e] : siteState[s] = "partial"})]

\* dependency_graph.rs expansion_source_survival: the greatest set of
\* expansions that are written in retained source and whose parents are in it.
ExpansionSourceSurvival ==
  UNION {S \in SUBSET Expansion :
           \A x \in S : /\ graph.written[x] \in retained \cup {NoUnit}
                        /\ graph.parents[x] \subseteq S}

AtRest == status = "idle" /\ ~HasWork

\* The component counters arrive at the greatest fixed point that the snapshot
\* comparison computes from scratch, parent cycles included.
SurvivalAgrees == AtRest => UNION survives = ExpansionSourceSurvival

\* What the closure has to decide about an edge, straight from the graph.
WhollyRetained(e) == Unconditional(e) \/ \E s \in e.sites : graph.owners[s] \subseteq retained
PartlyRetained(e) ==
  ~Unconditional(e) /\ \E s \in e.sites : graph.owners[s] \cap retained # {}
TargetSurvives(e) ==
  e.kind \in UseKinds /\ e.to \in Expansion => e.to \in ExpansionSourceSurvival
DelegatedUse(e) == e.kind = "ExpansionUse" /\ e.to \in graph.delegated
Usable(e) == ~DelegatedUse(e) /\ TargetSurvives(e)

ClosedLane(S) ==
  \A e \in graph.edges : e.from \in S /\ Usable(e) /\ WhollyRetained(e) => e.to \in S

\* When close has returned, every edge that retained source justifies was
\* followed, in whatever order nodes, source units and components arrived;
\* and a node is never required but along such edges.  close fails on an edge
\* observed at a half retained site and on nothing else: it neither follows nor
\* drops such an edge silently.
LaneExact ==
  LET Ambiguous(e) == /\ e.from \in required /\ Usable(e)
                      /\ ~WhollyRetained(e) /\ PartlyRetained(e)
  IN  /\ AtRest => ClosedLane(required) /\ ~\E e \in graph.edges : Ambiguous(e)
      /\ status = "error" => \E e \in graph.edges : Ambiguous(e)
      /\ \A S \in SUBSET Node : inputs \subseteq S /\ ClosedLane(S) => required \subseteq S
=============================================================================
