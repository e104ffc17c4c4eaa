------------------------ MODULE Reachability_proofs ------------------------
(***************************************************************************)
(* The safety properties of Reachability, for every dependency graph and   *)
(* every sequence of nodes and source units that a caller hands over.      *)
(*                                                                         *)
(* The counters are read as the sets they stand for.  What is not dirty is *)
(* up to date (SiteInv); a component survives only when its sources and    *)
(* parents are there, and one that may survive is waiting (SurviveInv); an *)
(* edge that may fire, or has to be refused, is waiting unless its node is *)
(* (EdgeInv); nothing is required but what every closed lane holds         *)
(* (LeastInv).                                                             *)
(***************************************************************************)
EXTENDS Reachability, FiniteSetTheorems, WellFoundedInduction, TLAPS

\* site_states, and the edges that a wholly retained site has opened.
SiteInv ==
  /\ \A s \in Site \ dirty : siteState[s] = StateNow(s)
  /\ status = "closing" => dirty = {}
  /\ \A e \in index.edges :
       /\ Unconditional(e) => e \in siteOpen
       /\ e \in siteOpen => WhollyRetained(e)
       /\ \A s \in index.sites[e] : siteState[s] = "all" => e \in siteOpen

\* Everything is there that a component needs to survive.
MaySurvive(c) == index.sources[c] \subseteq retained /\ index.parents[c] \subseteq survives

SurviveInv ==
  /\ \A c \in survives : MaySurvive(c)
  /\ \A c \in index.components \ survives : MaySurvive(c) => c \in pendingComponents

\* The edge fires or is refused when it is visited.
Decidable(e) ==
  GatesOpen(e) /\ (e \in siteOpen \/ \E s \in index.sites[e] : siteState[s] = "partial")

EdgeInv ==
  /\ known = required
  /\ \A e \in fired : e \in siteOpen /\ e.to \in known
  /\ status # "error" =>
       \A e \in index.edges \ fired :
         e.from \notin pendingNodes /\ Decidable(e) => e \in pendingEdges

Ambiguous(e) ==
  e.from \in required /\ Usable(e) /\ ~WhollyRetained(e) /\ PartlyRetained(e)

ErrorInv == status = "error" => \E e \in graph.edges : Ambiguous(e)

LeastInv == \A S \in SUBSET Node : inputs \subseteq S /\ ClosedLane(S) => required \subseteq S

\* The inductive invariant.
IInv == TypeOK /\ SiteInv /\ SurviveInv /\ EdgeInv /\ ErrorInv /\ LeastInv

-----------------------------------------------------------------------------
(* Sizes of sets                                                           *)

LEMMA SizeOfCommon ==
  ASSUME NEW S, IsFiniteSet(S), NEW R
  PROVE  /\ Cardinality(S \cap R) \in Nat /\ Cardinality(S) \in Nat
         /\ Cardinality(S \cap R) <= Cardinality(S)
         /\ (Cardinality(S \cap R) = 0 <=> S \cap R = {})
         /\ (Cardinality(S \cap R) = Cardinality(S) <=> S \subseteq R)
<1>1. IsFiniteSet(S \cap R)
  BY FS_Subset, S \cap R \in SUBSET S
<1>2. /\ Cardinality(S \cap R) <= Cardinality(S)
      /\ (Cardinality(S) = Cardinality(S \cap R) => S = S \cap R)
  BY FS_Subset, S \cap R \in SUBSET S
<1>3. Cardinality(S \cap R) \in Nat /\ Cardinality(S) \in Nat
  BY <1>1, FS_CardinalityType
<1>4. Cardinality(S \cap R) = 0 <=> S \cap R = {}
  BY <1>1, FS_EmptySet
<1>5. S \subseteq R => S \cap R = S
  OBVIOUS
<1> QED BY <1>2, <1>3, <1>4, <1>5

LEMMA SizeOfRest ==
  ASSUME NEW S, IsFiniteSet(S), NEW R
  PROVE  Cardinality(S \ R) \in Nat /\ (Cardinality(S \ R) = 0 <=> S \subseteq R)
<1>1. IsFiniteSet(S \ R)
  BY FS_Subset, S \ R \in SUBSET S
<1>2. Cardinality(S \ R) \in Nat /\ (Cardinality(S \ R) = 0 <=> S \ R = {})
  BY <1>1, FS_CardinalityType, FS_EmptySet
<1> QED BY <1>2

\* Newcomers are counted once.
LEMMA SizeOfMore ==
  ASSUME NEW S, IsFiniteSet(S), NEW R, NEW N, N \cap R = {}
  PROVE  Cardinality(S \cap (R \cup N)) = Cardinality(S \cap R) + Cardinality(S \cap N)
<1>1. IsFiniteSet(S \cap R) /\ IsFiniteSet(S \cap N)
  BY FS_Subset, S \cap R \in SUBSET S, S \cap N \in SUBSET S
<1>2. (S \cap R) \cap (S \cap N) = {} /\ S \cap (R \cup N) = (S \cap R) \cup (S \cap N)
  OBVIOUS
<1>3. Cardinality((S \cap R) \cup (S \cap N)) = Cardinality(S \cap R) + Cardinality(S \cap N) - 0
  BY <1>1, <1>2, FS_Union, FS_EmptySet
<1>4. Cardinality(S \cap R) \in Nat /\ Cardinality(S \cap N) \in Nat
  BY <1>1, FS_CardinalityType
<1> QED BY <1>2, <1>3, <1>4

LEMMA SizeOfFewer ==
  ASSUME NEW S, IsFiniteSet(S), NEW R, NEW N, N \cap R = {}
  PROVE  /\ Cardinality(S \ (R \cup N)) = Cardinality(S \ R) - Cardinality(S \cap N)
         /\ Cardinality(S \cap N) <= Cardinality(S \ R)
<1>1. IsFiniteSet(S \cap N) /\ IsFiniteSet(S \ (R \cup N))
  BY FS_Subset, S \cap N \in SUBSET S, S \ (R \cup N) \in SUBSET S
<1>2. (S \ (R \cup N)) \cap (S \cap N) = {} /\ S \ R = (S \ (R \cup N)) \cup (S \cap N)
  OBVIOUS
<1>3. Cardinality((S \ (R \cup N)) \cup (S \cap N))
        = Cardinality(S \ (R \cup N)) + Cardinality(S \cap N) - 0
  BY <1>1, <1>2, FS_Union, FS_EmptySet
<1>4. Cardinality(S \cap N) \in Nat /\ Cardinality(S \ (R \cup N)) \in Nat
  BY <1>1, FS_CardinalityType
<1>5. Cardinality(S \ R) = Cardinality((S \ (R \cup N)) \cup (S \cap N))
  BY <1>2
<1> QED BY <1>3, <1>4, <1>5

\* Some leave, others join.
LEMMA SizeOfExchange ==
  ASSUME NEW A, IsFiniteSet(A), NEW L, L \subseteq A, NEW J, IsFiniteSet(J), J \cap A = {}
  PROVE  /\ Cardinality((A \ L) \cup J) = (Cardinality(A) - Cardinality(L)) + Cardinality(J)
         /\ Cardinality(L) <= Cardinality(A)
<1>1. IsFiniteSet(L) /\ IsFiniteSet(A \ L) /\ Cardinality(L) <= Cardinality(A)
  BY FS_Subset, A \ L \in SUBSET A
<1>2. (A \ L) \cap J = {} /\ A \cap L = L
  OBVIOUS
<1>3. Cardinality((A \ L) \cup J) = Cardinality(A \ L) + Cardinality(J) - 0
  BY <1>1, <1>2, FS_Union, FS_EmptySet
<1>4. (A \ L) \cup L = A /\ (A \ L) \cap L = {}
  OBVIOUS
<1>5. Cardinality(A) = Cardinality(A \ L) + Cardinality(L) - 0
  BY <1>1, <1>4, FS_Union, FS_EmptySet
<1>6. /\ Cardinality(A) \in Nat /\ Cardinality(L) \in Nat /\ Cardinality(A \ L) \in Nat
      /\ Cardinality(J) \in Nat
  BY <1>1, FS_CardinalityType
<1> QED BY <1>1, <1>3, <1>5, <1>6

-----------------------------------------------------------------------------
(* The graph and its index                                                 *)

\* Ancestry is reflexive and transitive, so that components part the expansions.
LEMMA ComponentFacts ==
  ASSUME NEW g \in Graphs
  PROVE  /\ \A x \in Expansion :
              /\ x \in Ancestors(g, x) /\ Ancestors(g, x) \subseteq Expansion
              /\ \A z \in Ancestors(g, x) : g.parents[z] \subseteq Ancestors(g, x)
              /\ \A y \in Ancestors(g, x) : Ancestors(g, y) \subseteq Ancestors(g, x)
              /\ x \in ComponentOf(g, x) /\ ComponentOf(g, x) \subseteq Ancestors(g, x)
              /\ \A y \in ComponentOf(g, x) : ComponentOf(g, y) = ComponentOf(g, x)
<1>1. \A x \in Expansion : g.parents[x] \in SUBSET Expansion
  BY GraphAssumption DEF GraphSet
<1>2. ASSUME NEW x \in Expansion
      PROVE  /\ x \in Ancestors(g, x) /\ Ancestors(g, x) \subseteq Expansion
             /\ \A z \in Ancestors(g, x) : g.parents[z] \subseteq Ancestors(g, x)
  BY <1>1 DEF Ancestors
<1>3. ASSUME NEW x \in Expansion, NEW y \in Ancestors(g, x)
      PROVE  Ancestors(g, y) \subseteq Ancestors(g, x)
  BY <1>2 DEF Ancestors
<1>4. ASSUME NEW x \in Expansion
      PROVE  x \in ComponentOf(g, x) /\ ComponentOf(g, x) \subseteq Ancestors(g, x)
  BY <1>2 DEF ComponentOf
<1>5. ASSUME NEW x \in Expansion, NEW y \in ComponentOf(g, x)
      PROVE  ComponentOf(g, y) = ComponentOf(g, x)
  <2>1. y \in Expansion /\ y \in Ancestors(g, x) /\ x \in Ancestors(g, y)
    BY <1>2 DEF ComponentOf
  <2>2. Ancestors(g, y) = Ancestors(g, x)
    BY <1>3, <2>1
  <2>3. \A z \in Ancestors(g, x) : x \in Ancestors(g, z) <=> y \in Ancestors(g, z)
    BY <1>2, <1>3, <2>1
  <2> QED BY <2>2, <2>3 DEF ComponentOf
<1> QED BY <1>2, <1>3, <1>4, <1>5

LEMMA FiniteFacts ==
  /\ IsFiniteSet(Unit) /\ IsFiniteSet(Expansion) /\ IsFiniteSet(Site)
  /\ NoUnit \notin Unit /\ NonSource \notin Site /\ Definition \cap Expansion = {}
BY GraphAssumption

LEMMA EdgeFacts ==
  ASSUME graph \in Graphs, index = IndexOf(graph)
  PROVE  /\ index.edges = {e \in graph.edges : ~DelegatedUse(e)}
         /\ graph.edges \subseteq Edges
         /\ \A e \in index.edges :
              /\ e.from \in Node /\ e.to \in Node
              /\ index.sites[e] = SitesOf(e) /\ index.sites[e] \in SUBSET Site
              /\ index.target[e] = TargetComponent(graph, e)
         /\ index.owners = graph.owners
         /\ \A s \in Site : /\ index.owners[s] \in SUBSET Unit /\ index.owners[s] # {}
                            /\ IsFiniteSet(index.owners[s])
<1>1. graph \in GraphSet
  BY GraphAssumption
<1>2. /\ index.edges = IndexedEdges(graph) /\ index.owners = graph.owners
      /\ index.sites = [e \in IndexedEdges(graph) |-> SitesOf(e)]
      /\ index.target = [e \in IndexedEdges(graph) |-> TargetComponent(graph, e)]
  BY DEF IndexOf
<1>3. index.edges = {e \in graph.edges : ~DelegatedUse(e)} /\ graph.edges \subseteq Edges
  BY <1>1, <1>2 DEF IndexedEdges, DelegatedUse, GraphSet
<1>4. ASSUME NEW e \in index.edges
      PROVE  /\ e.from \in Node /\ e.to \in Node
             /\ index.sites[e] = SitesOf(e) /\ index.sites[e] \in SUBSET Site
             /\ index.target[e] = TargetComponent(graph, e)
  <2>1. e.from \in Node /\ e.to \in Node /\ e.sites \subseteq Site \cup {NonSource}
    BY <1>3 DEF Edges
  <2>2. SitesOf(e) \in SUBSET Site
    BY <2>1 DEF SitesOf, Unconditional
  <2> QED BY <1>2, <2>1, <2>2
<1>5. ASSUME NEW s \in Site
      PROVE  /\ index.owners[s] \in SUBSET Unit /\ index.owners[s] # {}
             /\ IsFiniteSet(index.owners[s])
  <2>1. graph.owners \in [Site -> (SUBSET Unit) \ {{}}]
    BY <1>1 DEF GraphSet
  <2>2. graph.owners[s] \in (SUBSET Unit) \ {{}}
    BY <2>1
  <2>3. index.owners[s] \in SUBSET Unit /\ index.owners[s] # {}
    BY <1>2, <2>2
  <2> QED BY <2>3, FiniteFacts, FS_Subset
<1> QED BY <1>2, <1>3, <1>4, <1>5

LEMMA IndexFacts ==
  ASSUME graph \in Graphs, index = IndexOf(graph)
  PROVE  /\ index.components = {ComponentOf(graph, x) : x \in Expansion}
         /\ \A x \in Expansion : /\ graph.parents[x] \in SUBSET Expansion
                                 /\ graph.written[x] \in Unit \cup {NoUnit}
         /\ \A c \in index.components :
              /\ c \in SUBSET Expansion /\ c # NoComponent
              /\ index.sources[c] = {graph.written[x] : x \in c} \ {NoUnit}
              /\ index.sources[c] \in SUBSET Unit /\ IsFiniteSet(index.sources[c])
              /\ index.parents[c] =
                   {ComponentOf(graph, y) : y \in UNION {graph.parents[x] : x \in c}} \ {c}
              /\ index.parents[c] \in SUBSET index.components /\ IsFiniteSet(index.parents[c])
<1>1. /\ \A x \in Expansion : /\ graph.parents[x] \in SUBSET Expansion
                              /\ graph.written[x] \in Unit \cup {NoUnit}
  BY GraphAssumption DEF GraphSet
<1>2. /\ index.components = {ComponentOf(graph, x) : x \in Expansion}
      /\ index.sources = [c \in index.components |-> {graph.written[x] : x \in c} \ {NoUnit}]
      /\ index.parents = [c \in index.components |->
           {ComponentOf(graph, y) : y \in UNION {graph.parents[x] : x \in c}} \ {c}]
  BY DEF IndexOf
<1>3. IsFiniteSet(SUBSET Expansion)
  BY FiniteFacts, FS_SUBSET
<1>4. \A c \in index.components : c \in SUBSET Expansion /\ c # {}
  BY <1>2, ComponentFacts
<1>5. ASSUME NEW c \in index.components
      PROVE  /\ index.sources[c] \in SUBSET Unit /\ IsFiniteSet(index.sources[c])
             /\ index.parents[c] \in SUBSET index.components /\ IsFiniteSet(index.parents[c])
  <2>1. index.sources[c] \in SUBSET Unit
    BY <1>1, <1>2, <1>4
  <2>2. index.parents[c] \in SUBSET index.components
    BY <1>1, <1>2, <1>4
  <2>3. index.parents[c] \in SUBSET SUBSET Expansion
    BY <1>4, <2>2
  <2> QED BY <1>3, <2>1, <2>2, <2>3, FiniteFacts, FS_Subset
<1> QED BY <1>1, <1>2, <1>4, <1>5 DEF NoComponent

-----------------------------------------------------------------------------
(* Survival                                                                *)

LEMMA SurvivalClosed ==
  ASSUME NEW x \in ExpansionSourceSurvival
  PROVE  /\ x \in Expansion /\ graph.written[x] \in retained \cup {NoUnit}
         /\ graph.parents[x] \subseteq ExpansionSourceSurvival
BY DEF ExpansionSourceSurvival

\* What survives is written in retained source, and so are its ancestors.
LEMMA SurvivesSound ==
  ASSUME graph \in Graphs, index = IndexOf(graph), survives \in SUBSET index.components,
         \A c \in survives : MaySurvive(c)
  PROVE  UNION survives \subseteq ExpansionSourceSurvival
<1> DEFINE S == UNION survives
<1>1. S \in SUBSET Expansion
  BY IndexFacts
<1>2. ASSUME NEW c \in survives, NEW x \in c
      PROVE  graph.written[x] \in retained \cup {NoUnit} /\ graph.parents[x] \subseteq S
  <2>1. graph.written[x] \in retained \cup {NoUnit}
    BY <1>2, IndexFacts DEF MaySurvive
  <2>2. ASSUME NEW y \in graph.parents[x]
        PROVE  y \in S
    <3>1. y \in Expansion /\ y \in ComponentOf(graph, y)
      BY <1>1, <1>2, <2>2, IndexFacts, ComponentFacts
    <3>2. ComponentOf(graph, y) \in index.parents[c] \cup {c}
      BY <1>2, <2>2, IndexFacts
    <3> QED BY <1>2, <3>1, <3>2 DEF MaySurvive
  <2> QED BY <2>1, <2>2
<1> QED BY <1>1, <1>2 DEF ExpansionSourceSurvival

\* No component is left behind: of those that could not survive one would have
\* the fewest ancestors, and its parents survive.
LEMMA SurvivesComplete ==
  ASSUME graph \in Graphs, index = IndexOf(graph), survives \in SUBSET index.components,
         \A c \in index.components : MaySurvive(c) => c \in survives
  PROVE  ExpansionSourceSurvival \subseteq UNION survives
<1> DEFINE E == ExpansionSourceSurvival
           Lost == {x \in E : ComponentOf(graph, x) \notin survives}
           Past == {Ancestors(graph, x) : x \in Lost}
<1>1. E \subseteq Expansion
  BY DEF ExpansionSourceSurvival
<1>2. ASSUME Lost # {}
      PROVE  FALSE
  <2>1. Past \in SUBSET SUBSET Expansion /\ Past # {}
    BY <1>1, <1>2, ComponentFacts
  <2>2. IsWellFoundedOn(StrictSubsetOrdering(Expansion), FiniteSubsetsOf(Expansion))
    BY FS_StrictSubsetOrderingWellFounded
  <2>3. Past \subseteq FiniteSubsetsOf(Expansion)
    BY <2>1, FiniteFacts, FS_FiniteSubsetsOfFinite
  <2>4. PICK P \in Past : \A Q \in Past : ~(<<Q, P>> \in StrictSubsetOrdering(Expansion))
    BY <2>1, <2>2, <2>3, WFMin
  <2>5. PICK x \in Lost : P = Ancestors(graph, x)
    BY <2>4
  <2>6. x \in E /\ x \in Expansion
    BY <1>1
  <2> DEFINE c == ComponentOf(graph, x)
  <2>7. c \in index.components /\ c \subseteq Ancestors(graph, x) /\ c \subseteq Expansion
    BY <2>6, IndexFacts, ComponentFacts
  <2>8. Ancestors(graph, x) \subseteq E
    <3>1. E \in SUBSET Expansion /\ \A z \in E : graph.parents[z] \subseteq E
      BY <1>1, SurvivalClosed
    <3> HIDE DEF E
    <3> QED BY <2>6, <3>1 DEF Ancestors
  <2>9. index.sources[c] \subseteq retained
    <3>1. \A z \in c : graph.written[z] \in retained \cup {NoUnit}
      BY <2>7, <2>8, SurvivalClosed
    <3> QED BY <2>7, <3>1, IndexFacts
  <2>10. PICK d \in index.parents[c] : d \notin survives
    BY <2>7, <2>9 DEF MaySurvive
  <2>11. PICK z \in c : \E y \in graph.parents[z] : d = ComponentOf(graph, y) /\ d # c
    BY <2>7, <2>10, IndexFacts
  <2>12. PICK y \in graph.parents[z] : d = ComponentOf(graph, y) /\ d # c
    BY <2>11
  <2>13. y \in Ancestors(graph, x) /\ y \in E /\ y \in Expansion
    BY <1>1, <2>6, <2>7, <2>8, <2>12, ComponentFacts
  <2>14. Ancestors(graph, y) \in Past
    BY <2>10, <2>12, <2>13
  <2>15. x \notin Ancestors(graph, y)
    <3>1. x \in Ancestors(graph, y) => y \in c
      BY <2>13 DEF ComponentOf
    <3> QED BY <2>6, <2>12, <3>1, ComponentFacts
  <2>16. Ancestors(graph, y) \subseteq P /\ Ancestors(graph, y) # P
    BY <2>5, <2>6, <2>13, <2>15, ComponentFacts
  <2> QED BY <2>1, <2>4, <2>14, <2>16 DEF StrictSubsetOrdering
<1>3. \A x \in E : x \in ComponentOf(graph, x)
  BY <1>1, ComponentFacts
<1> QED BY <1>2, <1>3

-----------------------------------------------------------------------------
(* The counters                                                            *)

LEMMA OwnerSizes ==
  ASSUME graph \in Graphs, index = IndexOf(graph), NEW s \in Site, NEW R
  PROVE  /\ Cardinality(index.owners[s] \cap R) \in Nat /\ Cardinality(index.owners[s]) \in Nat
         /\ Cardinality(index.owners[s] \cap R) <= Cardinality(index.owners[s])
         /\ (Cardinality(index.owners[s] \cap R) = 0 <=> index.owners[s] \cap R = {})
         /\ (Cardinality(index.owners[s] \cap R) = Cardinality(index.owners[s])
               <=> index.owners[s] \subseteq R)
<1>1. IsFiniteSet(index.owners[s])
  BY EdgeFacts
<1> QED BY <1>1, SizeOfCommon

LEMMA SourceSizes ==
  ASSUME graph \in Graphs, index = IndexOf(graph), NEW c \in index.components, NEW R
  PROVE  /\ Cardinality(index.sources[c] \ R) \in Nat
         /\ (Cardinality(index.sources[c] \ R) = 0 <=> index.sources[c] \subseteq R)
<1>1. IsFiniteSet(index.sources[c])
  BY IndexFacts
<1> QED BY <1>1, SizeOfRest

LEMMA ParentSizes ==
  ASSUME graph \in Graphs, index = IndexOf(graph), NEW c \in index.components, NEW V
  PROVE  /\ Cardinality(index.parents[c] \ V) \in Nat
         /\ (Cardinality(index.parents[c] \ V) = 0 <=> index.parents[c] \subseteq V)
<1>1. IsFiniteSet(index.parents[c])
  BY IndexFacts
<1> QED BY <1>1, SizeOfRest

LEMMA EdgeSizes ==
  ASSUME graph \in Graphs, index = IndexOf(graph), NEW e \in index.edges,
         NEW P \in SUBSET index.sites[e]
  PROVE  IsFiniteSet(P) /\ Cardinality(P) \in Nat /\ (Cardinality(P) = 0 <=> P = {})
<1>1. P \in SUBSET Site
  BY EdgeFacts
<1>2. IsFiniteSet(P)
  BY <1>1, FiniteFacts, FS_Subset
<1> QED BY <1>2, FS_CardinalityType, FS_EmptySet

\* What the tests of the code compute from the counters.
LEMMA CounterFacts ==
  ASSUME TypeOK
  PROVE  /\ \A s \in Site :
              /\ StateNow(s) \in {"none", "partial", "all"}
              /\ (StateNow(s) = "none" <=> index.owners[s] \cap retained = {})
              /\ (StateNow(s) = "all" <=> index.owners[s] \subseteq retained)
         /\ \A c \in index.components :
              MaySurvive(c) <=> missingSources[c] = 0 /\ missingParents[c] = 0
         /\ \A e \in index.edges :
              partialSites[e] # 0 <=> \E s \in index.sites[e] : siteState[s] = "partial"
<1>1. graph \in Graphs /\ index = IndexOf(graph)
  BY DEF TypeOK
<1>2. ASSUME NEW s \in Site
      PROVE  /\ StateNow(s) \in {"none", "partial", "all"}
             /\ (StateNow(s) = "none" <=> index.owners[s] \cap retained = {})
             /\ (StateNow(s) = "all" <=> index.owners[s] \subseteq retained)
  <2>1. siteRetained[s] = Cardinality(index.owners[s] \cap retained)
    BY DEF TypeOK
  <2>2. /\ (siteRetained[s] = 0 <=> index.owners[s] \cap retained = {})
        /\ (siteRetained[s] = Cardinality(index.owners[s]) <=> index.owners[s] \subseteq retained)
    BY <1>1, <2>1, OwnerSizes
  <2>3. index.owners[s] # {}
    BY <1>1, EdgeFacts
  <2> QED BY <2>2, <2>3 DEF StateNow
<1>3. ASSUME NEW c \in index.components
      PROVE  MaySurvive(c) <=> missingSources[c] = 0 /\ missingParents[c] = 0
  <2>1. /\ missingSources[c] = Cardinality(index.sources[c] \ retained)
        /\ missingParents[c] = Cardinality(index.parents[c] \ survives)
    BY DEF TypeOK
  <2> QED BY <1>1, <2>1, SourceSizes, ParentSizes DEF MaySurvive
<1>4. ASSUME NEW e \in index.edges
      PROVE  partialSites[e] # 0 <=> \E s \in index.sites[e] : siteState[s] = "partial"
  <2>1. partialSites[e] = Cardinality({s \in index.sites[e] : siteState[s] = "partial"})
    BY DEF TypeOK
  <2>2. {s \in index.sites[e] : siteState[s] = "partial"} \in SUBSET index.sites[e]
    OBVIOUS
  <2> QED BY <1>1, <2>1, <2>2, EdgeSizes
<1> QED BY <1>2, <1>3, <1>4

-----------------------------------------------------------------------------
(* The initial states                                                      *)

LEMMA InitHolds ==
  ASSUME Init
  PROVE  IInv
<1>1. graph \in Graphs /\ index = IndexOf(graph)
  BY DEF Init
<1>2. \A s \in Site : Cardinality(index.owners[s] \cap {}) = 0
  BY FS_EmptySet
<1>3. \A c \in index.components :
        /\ Cardinality(index.sources[c] \ {}) = Cardinality(index.sources[c])
        /\ Cardinality(index.parents[c] \ {}) = Cardinality(index.parents[c])
  <2>1. \A S : S \ {} = S
    OBVIOUS
  <2> QED BY <2>1
<1>4. \A e \in index.edges : Cardinality({s \in index.sites[e] : siteState[s] = "partial"}) = 0
  <2>1. \A e \in index.edges : {s \in index.sites[e] : siteState[s] = "partial"} = {}
    BY <1>1, EdgeFacts DEF Init
  <2> QED BY <2>1, FS_EmptySet
<1>5. siteRetained = [s \in Site |-> Cardinality(index.owners[s] \cap retained)]
  BY <1>2 DEF Init
<1>6. /\ missingSources = [c \in index.components |-> Cardinality(index.sources[c] \ retained)]
      /\ missingParents = [c \in index.components |-> Cardinality(index.parents[c] \ survives)]
  BY <1>3 DEF Init
<1>7. partialSites = [e \in index.edges |->
        Cardinality({s \in index.sites[e] : siteState[s] = "partial"})]
  BY <1>4 DEF Init
<1>8. TypeOK
  BY <1>1, <1>5, <1>6, <1>7 DEF Init, TypeOK, Ready
<1>9. SiteInv
  <2>1. \A s \in Site : siteState[s] = "none"
    BY DEF Init
  <2>2. \A e \in index.edges : \A s \in index.sites[e] : siteState[s] # "all"
    BY <1>1, <2>1, EdgeFacts
  <2>3. \A s \in Site : StateNow(s) = "none"
    BY <1>8, CounterFacts DEF Init
  <2>4. status = "idle" /\ siteOpen = {e \in index.edges : Unconditional(e)}
    BY DEF Init
  <2> QED BY <2>1, <2>2, <2>3, <2>4 DEF SiteInv, WhollyRetained
<1>10. SurviveInv
  BY <1>8, CounterFacts DEF Init, SurviveInv, Ready
<1>11. EdgeInv /\ ErrorInv /\ LeastInv
  BY DEF Init, EdgeInv, ErrorInv, LeastInv, Decidable, GatesOpen
<1> QED BY <1>8, <1>9, <1>10, <1>11 DEF IInv

-----------------------------------------------------------------------------
(* The types and the counters                                              *)

LEMMA AddReachableTypes ==
  ASSUME IInv, NEW nodes \in NodeDeltas, AddReachable(nodes)
  PROVE  TypeOK'
<1>1. TypeOK
  BY DEF IInv
<1>2. nodes \in SUBSET Node
  BY GraphAssumption
<1> QED BY <1>1, <1>2 DEF TypeOK, AddReachable, fixedVars, siteVars, componentVars, edgeVars

\* No counter of missing sources falls below zero.
LEMMA AddSourcesTypes ==
  ASSUME IInv, NEW units \in UnitDeltas, AddSources(units)
  PROVE  TypeOK' /\ status' = "idle" /\ retained' = retained \cup NewSources(units)
         /\ pendingComponents' = pendingComponents \cup
              (Affected(NewSources(units)) \cap Ready(missingSources', missingParents))
<1> DEFINE new == NewSources(units)
           missing(c) == Cardinality({u \in new : c \in ComponentsOfUnit(u)})
<1>1. TypeOK /\ graph \in Graphs /\ index = IndexOf(graph)
  BY DEF IInv, TypeOK
<1>2. /\ units \in SUBSET Unit /\ new \in SUBSET Unit /\ new \cap retained = {}
      /\ retained' = retained \cup new /\ retained' \in SUBSET Unit
  BY <1>1, GraphAssumption DEF AddSources, NewSources, TypeOK
<1> HIDE DEF new
<1>3. ASSUME NEW s \in Site
      PROVE  siteRetained[s] + Cardinality({u \in new : s \in SitesOfUnit(u)})
               = Cardinality(index.owners[s] \cap retained')
  <2>1. {u \in new : s \in SitesOfUnit(u)} = index.owners[s] \cap new
    BY DEF SitesOfUnit
  <2>2. siteRetained[s] = Cardinality(index.owners[s] \cap retained)
    BY <1>1 DEF TypeOK
  <2> DEFINE S == index.owners[s]
  <2>3. IsFiniteSet(S)
    BY <1>1, EdgeFacts
  <2>4. Cardinality(S \cap (retained \cup new))
          = Cardinality(S \cap retained) + Cardinality(S \cap new)
    <3>1. new \cap retained = {}
      BY <1>2
    <3> HIDE DEF S
    <3> QED BY <2>3, <3>1, SizeOfMore
  <2> QED BY <1>2, <2>1, <2>2, <2>4
<1>4. ASSUME NEW c \in index.components
      PROVE  /\ ~(missing(c) > missingSources[c])
             /\ missingSources[c] - missing(c) = Cardinality(index.sources[c] \ retained')
  <2>1. {u \in new : c \in ComponentsOfUnit(u)} = index.sources[c] \cap new
    BY DEF ComponentsOfUnit
  <2>2. missingSources[c] = Cardinality(index.sources[c] \ retained)
    BY <1>1 DEF TypeOK
  <2> DEFINE S == index.sources[c]
  <2>3. IsFiniteSet(S)
    BY <1>1, IndexFacts
  <2>4. /\ Cardinality(S \cap new) <= Cardinality(S \ retained)
        /\ Cardinality(S \ (retained \cup new))
             = Cardinality(S \ retained) - Cardinality(S \cap new)
    <3> HIDE DEF S
    <3> QED BY <1>2, <2>3, SizeOfFewer
  <2>5. Cardinality(S \ retained) \in Nat /\ Cardinality(S \cap new) \in Nat
    <3> HIDE DEF S
    <3> QED BY <2>3, SizeOfRest, SizeOfCommon
  <2>6. ~(Cardinality(S \cap new) > Cardinality(S \ retained))
    <3> HIDE DEF S
    <3> QED BY <2>4, <2>5
  <2> QED BY <1>2, <2>1, <2>2, <2>4, <2>6
<1>5. ~\E c \in index.components : missing(c) > missingSources[c]
  BY <1>4
<1>6. /\ status = "idle" /\ status' = status
      /\ missingSources' = [c \in index.components |-> missingSources[c] - missing(c)]
      /\ pendingComponents' = pendingComponents \cup
              (Affected(new) \cap Ready(missingSources', missingParents))
  BY <1>5 DEF AddSources, new
<1> HIDE DEF missing
<1>7. missingSources' = [c \in index.components |-> Cardinality(index.sources[c] \ retained')]
  BY <1>4, <1>6
<1>8. siteRetained' = [s \in Site |->
        siteRetained[s] + Cardinality({u \in new : s \in SitesOfUnit(u)})]
  BY DEF AddSources, new
<1>9. siteRetained' = [s \in Site |-> Cardinality(index.owners[s] \cap retained')]
  BY <1>3, <1>8
<1>10. dirty' \in SUBSET Site
  BY <1>1 DEF AddSources, TypeOK, SitesOfUnit
<1>11. pendingComponents' \in SUBSET index.components
  BY <1>1, <1>6 DEF TypeOK, Ready
<1>12. UNCHANGED <<fixedVars, required, known, siteState, missingParents, survives,
                   edgeVars, pendingNodes, pendingEdges, inputs>>
  BY DEF AddSources
<1>13. TypeOK'
  BY <1>1, <1>2, <1>6, <1>7, <1>9, <1>10, <1>11, <1>12 DEF TypeOK, fixedVars, edgeVars
<1> QED BY <1>2, <1>6, <1>13 DEF new

\* Neither test of the first loop of close can fail.
LEMMA BeginCloseTypes ==
  ASSUME IInv, BeginClose
  PROVE  /\ TypeOK' /\ status' = "closing"
         /\ siteState' = [s \in Site |-> IF s \in dirty THEN StateNow(s) ELSE siteState[s]]
         /\ siteOpen' = siteOpen \cup
              UNION {EdgesAt(s) :
                       s \in {t \in dirty : StateNow(t) # siteState[t] /\ StateNow(t) = "all"}}
         /\ pendingEdges' = pendingEdges \cup
              ((UNION {EdgesAt(s) : s \in {t \in dirty : StateNow(t) # siteState[t]}}) \ fired)
<1> DEFINE changed    == {s \in dirty : StateNow(s) # siteState[s]}
           leaving(e) == {s \in changed : e \in EdgesAt(s) /\ siteState[s] = "partial"}
           joining(e) == {s \in changed : e \in EdgesAt(s) /\ StateNow(s) = "partial"}
           now        == [s \in Site |-> IF s \in dirty THEN StateNow(s) ELSE siteState[s]]
<1>1. TypeOK /\ graph \in Graphs /\ index = IndexOf(graph) /\ dirty \in SUBSET Site
  BY DEF IInv, TypeOK
<1>2. ~\E s \in dirty : siteRetained[s] > Cardinality(index.owners[s])
  <2> SUFFICES ASSUME NEW s \in Site
               PROVE  ~(siteRetained[s] > Cardinality(index.owners[s]))
    BY <1>1
  <2>1. siteRetained[s] = Cardinality(index.owners[s] \cap retained)
    BY <1>1 DEF TypeOK
  <2> QED BY <1>1, <2>1, OwnerSizes
<1>3. ASSUME NEW e \in index.edges
      PROVE  /\ ~(Cardinality(leaving(e)) > partialSites[e])
             /\ (partialSites[e] - Cardinality(leaving(e))) + Cardinality(joining(e))
                  = Cardinality({s \in index.sites[e] : now[s] = "partial"})
  <2> DEFINE A == {s \in index.sites[e] : siteState[s] = "partial"}
             L == leaving(e)
             J == joining(e)
  <2>1. partialSites[e] = Cardinality(A)
    BY <1>1 DEF TypeOK
  <2>2. index.sites[e] \in SUBSET Site
    BY <1>1, EdgeFacts
  <2>3. /\ L \in SUBSET A /\ A \in SUBSET index.sites[e]
        /\ J \in SUBSET index.sites[e] /\ J \cap A = {}
    BY DEF EdgesAt
  <2>4. {s \in index.sites[e] : now[s] = "partial"} = (A \ L) \cup J
    BY <1>1, <2>2 DEF EdgesAt
  <2>5. /\ IsFiniteSet(A) /\ IsFiniteSet(J) /\ IsFiniteSet(L)
        /\ Cardinality(A) \in Nat /\ Cardinality(L) \in Nat
    <3>1. L \in SUBSET index.sites[e]
      BY <2>3
    <3> HIDE DEF A, L, J
    <3> QED BY <1>1, <2>3, <3>1, EdgeSizes
  <2>6. /\ Cardinality((A \ L) \cup J) = (Cardinality(A) - Cardinality(L)) + Cardinality(J)
        /\ Cardinality(L) <= Cardinality(A)
    <3> HIDE DEF A, L, J
    <3> QED BY <2>3, <2>5, SizeOfExchange
  <2>7. ~(Cardinality(L) > Cardinality(A))
    <3> HIDE DEF A, L, J
    <3> QED BY <2>5, <2>6
  <2> QED BY <2>1, <2>4, <2>6, <2>7
<1>4. /\ ~\E e \in index.edges : Cardinality(leaving(e)) > partialSites[e]
      /\ [e \in index.edges |->
            (partialSites[e] - Cardinality(leaving(e))) + Cardinality(joining(e))]
           = [e \in index.edges |-> Cardinality({s \in index.sites[e] : now[s] = "partial"})]
  BY <1>3
<1>5. /\ status' = "closing" /\ siteState' = now
      /\ partialSites' = [e \in index.edges |->
            (partialSites[e] - Cardinality(leaving(e))) + Cardinality(joining(e))]
      /\ siteOpen' = siteOpen \cup
              UNION {EdgesAt(s) : s \in {t \in changed : StateNow(t) = "all"}}
      /\ pendingEdges' = pendingEdges \cup ((UNION {EdgesAt(s) : s \in changed}) \ fired)
  BY <1>2, <1>4 DEF BeginClose
<1>6. partialSites' = [e \in index.edges |->
        Cardinality({s \in index.sites[e] : siteState'[s] = "partial"})]
  BY <1>4, <1>5
<1>7. siteState' \in [Site -> {"none", "partial", "all"}]
  BY <1>1, <1>5, CounterFacts DEF TypeOK
<1>8. siteOpen' \in SUBSET index.edges /\ pendingEdges' \in SUBSET index.edges
  BY <1>1, <1>5 DEF TypeOK, EdgesAt
<1>9. /\ dirty' = {}
      /\ UNCHANGED <<fixedVars, required, known, retained, siteRetained,
                     componentVars, fired, pendingNodes, pendingComponents, inputs>>
  BY DEF BeginClose
<1> HIDE DEF changed, leaving, joining, now
<1>10. TypeOK'
  BY <1>1, <1>5, <1>6, <1>7, <1>8, <1>9 DEF TypeOK, fixedVars, componentVars
<1>11. {t \in changed : StateNow(t) = "all"}
         = {t \in dirty : StateNow(t) # siteState[t] /\ StateNow(t) = "all"}
  BY DEF changed
<1> QED BY <1>5, <1>10, <1>11 DEF changed, now

LEMMA VisitComponentTypes ==
  ASSUME IInv, NEW c \in index.components, VisitComponent(c)
  PROVE  TypeOK'
<1>1. TypeOK /\ graph \in Graphs /\ index = IndexOf(graph)
  BY DEF IInv, TypeOK
<1>2. CASE c \in survives \/ missingSources[c] # 0 \/ missingParents[c] # 0
  BY <1>1, <1>2 DEF TypeOK, VisitComponent, fixedVars, siteVars, edgeVars
<1>3. CASE ~(c \in survives \/ missingSources[c] # 0 \/ missingParents[c] # 0)
  <2>1. /\ c \notin survives /\ survives' = survives \cup {c}
        /\ missingParents' = [d \in index.components |->
                 IF d \in Children(c) /\ missingParents[d] # 0
                   THEN missingParents[d] - 1 ELSE missingParents[d]]
        /\ pendingComponents' = (pendingComponents \ {c}) \cup
                 (Children(c) \cap Ready(missingSources, missingParents'))
        /\ pendingEdges' = pendingEdges \cup (TargetEdges(c) \ fired)
        /\ UNCHANGED <<fixedVars, status, required, known, retained, siteVars,
                       missingSources, edgeVars, pendingNodes, inputs>>
    BY <1>3 DEF VisitComponent
  <2>2. ASSUME NEW d \in index.components
        PROVE  (IF d \in Children(c) /\ missingParents[d] # 0
                  THEN missingParents[d] - 1 ELSE missingParents[d])
                 = Cardinality(index.parents[d] \ survives')
    <3> DEFINE S == index.parents[d]
    <3>1. missingParents[d] = Cardinality(S \ survives)
      BY <1>1 DEF TypeOK
    <3>2. IsFiniteSet(S)
      BY <1>1, IndexFacts
    <3>3. d \in Children(c) <=> c \in S
      BY DEF Children
    <3>4. CASE c \in S
      <4>1. S \cap {c} = {c} /\ ~(S \subseteq survives) /\ {c} \cap survives = {}
        BY <2>1, <3>4
      <4>2. Cardinality(S \cap {c}) = 1
        BY <4>1, FS_Singleton
      <4>3. /\ Cardinality(S \ (survives \cup {c}))
                 = Cardinality(S \ survives) - Cardinality(S \cap {c})
            /\ Cardinality(S \ survives) # 0
        <5> HIDE DEF S
        <5>1. Cardinality(S \ (survives \cup {c}))
                = Cardinality(S \ survives) - Cardinality(S \cap {c})
          BY <3>2, <4>1, SizeOfFewer
        <5>2. Cardinality(S \ survives) # 0
          BY <3>2, <4>1, SizeOfRest
        <5> QED BY <5>1, <5>2
      <4> QED BY <2>1, <3>1, <3>3, <3>4, <4>2, <4>3
    <3>5. CASE c \notin S
      <4>1. S \ survives' = S \ survives
        BY <2>1, <3>5
      <4> QED BY <3>1, <3>3, <3>5, <4>1
    <3> QED BY <3>4, <3>5
  <2>3. missingParents' = [d \in index.components |-> Cardinality(index.parents[d] \ survives')]
    BY <2>1, <2>2
  <2>4. /\ survives' \in SUBSET index.components /\ pendingComponents' \in SUBSET index.components
        /\ pendingEdges' \in SUBSET index.edges
    BY <1>1, <2>1 DEF TypeOK, Children, TargetEdges
  <2> QED BY <1>1, <2>1, <2>3, <2>4 DEF TypeOK, fixedVars, siteVars, edgeVars
<1> QED BY <1>2, <1>3

LEMMA VisitNodeTypes ==
  ASSUME IInv, NEW n \in Node, VisitNode(n)
  PROVE  TypeOK'
<1>1. TypeOK
  BY DEF IInv
<1> QED BY <1>1 DEF TypeOK, VisitNode, fixedVars, siteVars, componentVars, edgeVars

LEMMA VisitEdgeTypes ==
  ASSUME IInv, NEW e \in index.edges, VisitEdge(e)
  PROVE  TypeOK'
<1>1. TypeOK /\ graph \in Graphs /\ index = IndexOf(graph)
  BY DEF IInv, TypeOK
<1>2. e.to \in Node
  BY <1>1, EdgeFacts
<1>3. /\ status' \in {"idle", "closing", "error"}
      /\ required' \in SUBSET Node /\ known' \in SUBSET Node /\ required \subseteq required'
      /\ fired' \in SUBSET index.edges /\ pendingNodes' \in SUBSET known'
      /\ pendingEdges' \in SUBSET index.edges
  BY <1>1, <1>2 DEF TypeOK, VisitEdge
<1>4. UNCHANGED <<fixedVars, retained, siteVars, componentVars, siteOpen,
                  partialSites, pendingComponents, inputs>>
  BY DEF VisitEdge
<1> QED BY <1>1, <1>3, <1>4 DEF TypeOK, fixedVars, siteVars, componentVars

LEMMA ReturnTypes ==
  ASSUME IInv, Return
  PROVE  TypeOK'
<1>1. TypeOK
  BY DEF IInv
<1> QED BY <1>1 DEF TypeOK, Return, fixedVars, siteVars, componentVars, edgeVars

LEMMA TypesStep ==
  ASSUME IInv, [Next]_vars
  PROVE  TypeOK'
<1>1. CASE UNCHANGED vars
  BY <1>1 DEF IInv, TypeOK, vars, fixedVars, siteVars, componentVars, edgeVars
<1>2. CASE Next
  BY <1>2, AddReachableTypes, AddSourcesTypes, BeginCloseTypes, VisitComponentTypes,
     VisitNodeTypes, VisitEdgeTypes, ReturnTypes DEF Next, Close
<1> QED BY <1>1, <1>2

-----------------------------------------------------------------------------
(* The sites                                                               *)

\* The sites that a step may leave alone.
LEMMA SitesStay ==
  ASSUME SiteInv, UNCHANGED <<graph, index, siteRetained, siteState, dirty, siteOpen>>,
         retained \subseteq retained', status' = "closing" => dirty = {}
  PROVE  SiteInv'
BY DEF SiteInv, StateNow, WhollyRetained

LEMMA AddSourcesSites ==
  ASSUME IInv, NEW units \in UnitDeltas, AddSources(units)
  PROVE  SiteInv'
<1>1. TypeOK /\ SiteInv /\ graph \in Graphs /\ index = IndexOf(graph)
  BY DEF IInv, TypeOK
<1>2. /\ status' = "idle" /\ retained \subseteq retained'
      /\ UNCHANGED <<graph, index, siteState, siteOpen>>
  BY AddSourcesTypes DEF AddSources, fixedVars, edgeVars
<1>3. ASSUME NEW s \in Site, s \notin dirty'
      PROVE  siteState'[s] = StateNow(s)'
  <2>1. s \notin dirty /\ {u \in NewSources(units) : s \in SitesOfUnit(u)} = {}
    BY <1>3 DEF AddSources
  <2>2. siteRetained'[s] = siteRetained[s] + 0
    BY <2>1, FS_EmptySet DEF AddSources
  <2>3. siteRetained[s] \in Nat
    BY <1>1, OwnerSizes DEF TypeOK
  <2>4. siteRetained'[s] = siteRetained[s]
    BY <2>2, <2>3
  <2> QED BY <1>1, <1>2, <2>1, <2>4 DEF SiteInv, StateNow
<1> QED BY <1>1, <1>2, <1>3 DEF SiteInv, WhollyRetained

LEMMA BeginCloseSites ==
  ASSUME IInv, BeginClose
  PROVE  SiteInv'
<1>1. TypeOK /\ SiteInv /\ graph \in Graphs /\ index = IndexOf(graph) /\ dirty \in SUBSET Site
  BY DEF IInv, TypeOK
<1>2. dirty' = {} /\ UNCHANGED <<graph, index, retained, siteRetained>>
  BY DEF BeginClose, fixedVars
<1>3. /\ siteState' = [s \in Site |-> IF s \in dirty THEN StateNow(s) ELSE siteState[s]]
      /\ siteOpen' = siteOpen \cup
              UNION {EdgesAt(s) :
                       s \in {t \in dirty : StateNow(t) # siteState[t] /\ StateNow(t) = "all"}}
  BY BeginCloseTypes
<1>4. ASSUME NEW s \in Site
      PROVE  siteState'[s] = StateNow(s)'
  <2>1. StateNow(s)' = StateNow(s)
    BY <1>2 DEF StateNow
  <2> QED BY <1>1, <1>3, <2>1 DEF SiteInv
<1>5. ASSUME NEW e \in index.edges, e \in siteOpen'
      PROVE  WhollyRetained(e)
  <2>1. CASE e \in siteOpen
    BY <1>1, <2>1 DEF SiteInv
  <2>2. CASE e \notin siteOpen
    <3>1. PICK s \in Site : e \in EdgesAt(s) /\ StateNow(s) = "all"
      BY <1>1, <1>3, <1>5, <2>2
    <3>2. index.owners[s] \subseteq retained /\ index.owners[s] = graph.owners[s]
      BY <1>1, <3>1, CounterFacts, EdgeFacts
    <3>3. s \in SitesOf(e)
      BY <1>1, <3>1, EdgeFacts DEF EdgesAt
    <3> QED BY <3>2, <3>3 DEF WhollyRetained, SitesOf
  <2> QED BY <2>1, <2>2
<1>6. ASSUME NEW e \in index.edges, NEW s \in index.sites[e], siteState'[s] = "all"
      PROVE  e \in siteOpen'
  <2>1. s \in Site /\ e \in EdgesAt(s)
    BY <1>1, EdgeFacts DEF EdgesAt
  <2>2. CASE siteState[s] = "all"
    BY <1>1, <1>3, <2>2 DEF SiteInv
  <2>3. CASE siteState[s] # "all"
    BY <1>3, <1>6, <2>1, <2>3
  <2> QED BY <2>2, <2>3
<1> QED BY <1>1, <1>2, <1>3, <1>4, <1>5, <1>6 DEF SiteInv, WhollyRetained

LEMMA SitesStep ==
  ASSUME IInv, [Next]_vars
  PROVE  SiteInv'
<1>1. SiteInv
  BY DEF IInv
<1>2. CASE UNCHANGED vars
  BY <1>1, <1>2, SitesStay DEF vars, SiteInv
<1>3. ASSUME NEW nodes \in NodeDeltas, AddReachable(nodes)
      PROVE  SiteInv'
  BY <1>1, <1>3, SitesStay DEF AddReachable, fixedVars, siteVars, edgeVars
<1>4. ASSUME NEW units \in UnitDeltas, AddSources(units)
      PROVE  SiteInv'
  BY <1>4, AddSourcesSites
<1>5. ASSUME BeginClose
      PROVE  SiteInv'
  BY <1>5, BeginCloseSites
<1>6. ASSUME NEW c \in index.components, VisitComponent(c)
      PROVE  SiteInv'
  BY <1>1, <1>6, SitesStay DEF SiteInv, VisitComponent, fixedVars, siteVars, edgeVars
<1>7. ASSUME NEW n \in Node, VisitNode(n)
      PROVE  SiteInv'
  BY <1>1, <1>7, SitesStay DEF SiteInv, VisitNode, fixedVars, siteVars, edgeVars
<1>8. ASSUME NEW e \in index.edges, VisitEdge(e)
      PROVE  SiteInv'
  BY <1>1, <1>8, SitesStay DEF SiteInv, VisitEdge, fixedVars, siteVars
<1>9. ASSUME Return
      PROVE  SiteInv'
  BY <1>1, <1>9, SitesStay DEF Return, fixedVars, siteVars, edgeVars
<1> QED BY <1>2, <1>3, <1>4, <1>5, <1>6, <1>7, <1>8, <1>9 DEF Next, Close

-----------------------------------------------------------------------------
(* The components                                                          *)

\* The components that a step leaves alone.
LEMMA ComponentsStay ==
  ASSUME SurviveInv, UNCHANGED <<index, retained, survives, pendingComponents>>
  PROVE  SurviveInv'
BY DEF SurviveInv, MaySurvive

\* A component that lacked a source only is found when the source comes.
LEMMA AddSourcesComponents ==
  ASSUME IInv, NEW units \in UnitDeltas, AddSources(units)
  PROVE  SurviveInv'
<1>1. TypeOK /\ SurviveInv /\ graph \in Graphs /\ index = IndexOf(graph)
  BY DEF IInv, TypeOK
<1>2. /\ TypeOK' /\ retained' = retained \cup NewSources(units)
      /\ pendingComponents' = pendingComponents \cup
           (Affected(NewSources(units)) \cap Ready(missingSources', missingParents))
      /\ UNCHANGED <<graph, index, missingParents, survives>>
  BY AddSourcesTypes DEF AddSources, fixedVars
<1>3. \A c \in survives : MaySurvive(c)'
  BY <1>1, <1>2 DEF SurviveInv, MaySurvive
<1>4. ASSUME NEW c \in index.components, c \notin survives, MaySurvive(c)'
      PROVE  c \in pendingComponents'
  <2>1. CASE MaySurvive(c)
    BY <1>1, <1>2, <1>4, <2>1 DEF SurviveInv
  <2>2. CASE ~MaySurvive(c)
    <3>1. index.sources[c] \subseteq retained' /\ index.parents[c] \subseteq survives
      BY <1>2, <1>4 DEF MaySurvive
    <3>2. PICK u \in index.sources[c] : u \notin retained
      BY <2>2, <3>1 DEF MaySurvive
    <3>3. c \in Affected(NewSources(units))
      BY <1>2, <3>1, <3>2 DEF Affected, ComponentsOfUnit
    <3>4. missingSources'[c] = 0
      <4>1. missingSources'[c] = Cardinality(index.sources[c] \ retained')
        BY <1>2 DEF TypeOK
      <4> QED BY <1>1, <3>1, <4>1, SourceSizes
    <3>5. missingParents[c] = 0
      <4>1. missingParents[c] = Cardinality(index.parents[c] \ survives)
        BY <1>1 DEF TypeOK
      <4> QED BY <1>1, <3>1, <4>1, ParentSizes
    <3> QED BY <1>2, <1>4, <3>3, <3>4, <3>5 DEF Ready
  <2> QED BY <2>1, <2>2
<1> QED BY <1>2, <1>3, <1>4 DEF SurviveInv

\* A component that lacked a parent only is found when the parent survives.
LEMMA VisitComponentComponents ==
  ASSUME IInv, NEW c \in index.components, VisitComponent(c)
  PROVE  SurviveInv'
<1>1. TypeOK /\ SurviveInv /\ graph \in Graphs /\ index = IndexOf(graph)
  BY DEF IInv, TypeOK
<1>2. TypeOK' /\ UNCHANGED <<graph, index, retained, missingSources>>
  BY VisitComponentTypes DEF VisitComponent, fixedVars
<1>3. MaySurvive(c) <=> missingSources[c] = 0 /\ missingParents[c] = 0
  BY <1>1, CounterFacts
<1>4. CASE c \in survives \/ ~MaySurvive(c)
  <2>1. pendingComponents' = pendingComponents \ {c} /\ survives' = survives
    BY <1>3, <1>4 DEF VisitComponent
  <2> QED BY <1>1, <1>2, <1>4, <2>1 DEF SurviveInv, MaySurvive
<1>5. CASE c \notin survives /\ MaySurvive(c)
  <2>1. /\ survives' = survives \cup {c}
        /\ pendingComponents' = (pendingComponents \ {c}) \cup
                 (Children(c) \cap Ready(missingSources, missingParents'))
    BY <1>3, <1>5 DEF VisitComponent
  <2>2. \A d \in survives' : MaySurvive(d)'
    BY <1>1, <1>2, <1>5, <2>1 DEF SurviveInv, MaySurvive
  <2>3. ASSUME NEW d \in index.components, d \notin survives', MaySurvive(d)'
        PROVE  d \in pendingComponents'
    <3>1. CASE MaySurvive(d)
      BY <1>1, <2>1, <2>3, <3>1 DEF SurviveInv
    <3>2. CASE ~MaySurvive(d)
      <4>1. index.sources[d] \subseteq retained /\ index.parents[d] \subseteq survives'
        BY <1>2, <2>3 DEF MaySurvive
      <4>2. d \in Children(c)
        BY <2>1, <3>2, <4>1 DEF MaySurvive, Children
      <4>3. missingSources[d] = 0
        <5>1. missingSources[d] = Cardinality(index.sources[d] \ retained)
          BY <1>1 DEF TypeOK
        <5> QED BY <1>1, <4>1, <5>1, SourceSizes
      <4>4. missingParents'[d] = 0
        <5>1. missingParents'[d] = Cardinality(index.parents[d] \ survives')
          BY <1>2 DEF TypeOK
        <5> QED BY <1>1, <4>1, <5>1, ParentSizes
      <4> QED BY <2>1, <2>3, <4>2, <4>3, <4>4 DEF Ready
    <3> QED BY <3>1, <3>2
  <2> QED BY <1>2, <2>2, <2>3 DEF SurviveInv
<1> QED BY <1>4, <1>5

LEMMA ComponentsStep ==
  ASSUME IInv, [Next]_vars
  PROVE  SurviveInv'
<1>1. SurviveInv
  BY DEF IInv
<1>2. CASE UNCHANGED vars
  BY <1>1, <1>2, ComponentsStay DEF vars
<1>3. ASSUME NEW nodes \in NodeDeltas, AddReachable(nodes)
      PROVE  SurviveInv'
  BY <1>1, <1>3, ComponentsStay DEF AddReachable, fixedVars, componentVars
<1>4. ASSUME NEW units \in UnitDeltas, AddSources(units)
      PROVE  SurviveInv'
  BY <1>4, AddSourcesComponents
<1>5. ASSUME BeginClose
      PROVE  SurviveInv'
  BY <1>1, <1>5, ComponentsStay DEF BeginClose, fixedVars, componentVars
<1>6. ASSUME NEW c \in index.components, VisitComponent(c)
      PROVE  SurviveInv'
  BY <1>6, VisitComponentComponents
<1>7. ASSUME NEW n \in Node, VisitNode(n)
      PROVE  SurviveInv'
  BY <1>1, <1>7, ComponentsStay DEF VisitNode, fixedVars, componentVars
<1>8. ASSUME NEW e \in index.edges, VisitEdge(e)
      PROVE  SurviveInv'
  BY <1>1, <1>8, ComponentsStay DEF VisitEdge, fixedVars, componentVars
<1>9. ASSUME Return
      PROVE  SurviveInv'
  BY <1>1, <1>9, ComponentsStay DEF Return, fixedVars, componentVars
<1> QED BY <1>2, <1>3, <1>4, <1>5, <1>6, <1>7, <1>8, <1>9 DEF Next, Close

-----------------------------------------------------------------------------
(* The edges                                                               *)

LEMMA AddReachableEdges ==
  ASSUME IInv, NEW nodes \in NodeDeltas, AddReachable(nodes)
  PROVE  EdgeInv'
<1>1. EdgeInv
  BY DEF IInv
<1>2. UNCHANGED <<graph, index, status, siteState, survives, siteOpen, fired, pendingEdges>>
  BY DEF AddReachable, fixedVars, siteVars, componentVars, edgeVars
<1>3. /\ known' = known \cup nodes /\ required' = required \cup nodes
      /\ pendingNodes' = pendingNodes \cup (nodes \ known)
  BY DEF AddReachable
<1> QED BY <1>1, <1>2, <1>3 DEF EdgeInv, Decidable, GatesOpen

LEMMA AddSourcesEdges ==
  ASSUME IInv, NEW units \in UnitDeltas, AddSources(units)
  PROVE  EdgeInv'
<1>1. EdgeInv /\ status = "idle"
  BY DEF IInv, AddSources
<1>2. UNCHANGED <<graph, index, required, known, siteState, survives, siteOpen, fired,
                  pendingNodes, pendingEdges>>
  BY DEF AddSources, fixedVars, edgeVars
<1> QED BY <1>1, <1>2 DEF EdgeInv, Decidable, GatesOpen

\* The edges observed at a changed site are visited again.
LEMMA BeginCloseEdges ==
  ASSUME IInv, BeginClose
  PROVE  EdgeInv'
<1> DEFINE changed == {t \in dirty : StateNow(t) # siteState[t]}
<1>1. TypeOK /\ EdgeInv /\ graph \in Graphs /\ index = IndexOf(graph) /\ dirty \in SUBSET Site
  BY DEF IInv, TypeOK
<1>2. status = "idle" /\ UNCHANGED <<graph, index, required, known, survives, fired, pendingNodes>>
  BY DEF BeginClose, fixedVars, componentVars
<1>3. /\ siteState' = [s \in Site |-> IF s \in dirty THEN StateNow(s) ELSE siteState[s]]
      /\ siteOpen' = siteOpen \cup
              UNION {EdgesAt(s) :
                       s \in {t \in dirty : StateNow(t) # siteState[t] /\ StateNow(t) = "all"}}
      /\ pendingEdges' = pendingEdges \cup ((UNION {EdgesAt(s) : s \in changed}) \ fired)
  BY BeginCloseTypes
<1>4. ASSUME NEW e \in index.edges, e \notin fired,
             e.from \notin pendingNodes, Decidable(e)'
      PROVE  e \in pendingEdges'
  <2>1. GatesOpen(e)
    BY <1>2, <1>4 DEF Decidable, GatesOpen
  <2>2. CASE Decidable(e)
    BY <1>1, <1>2, <1>3, <1>4, <2>2 DEF EdgeInv
  <2>3. CASE ~Decidable(e)
    <3>1. \E s \in changed : e \in EdgesAt(s)
      <4>1. CASE e \in siteOpen'
        BY <1>3, <2>1, <2>3, <4>1 DEF Decidable
      <4>2. CASE \E s \in index.sites[e] : siteState'[s] = "partial"
        <5>1. PICK s \in index.sites[e] : siteState'[s] = "partial"
          BY <4>2
        <5>2. s \in Site /\ e \in EdgesAt(s) /\ siteState[s] # "partial"
          BY <1>1, <2>1, <2>3, EdgeFacts DEF Decidable, EdgesAt
        <5> QED BY <1>3, <5>1, <5>2
      <4> QED BY <1>2, <1>4, <4>1, <4>2 DEF Decidable
    <3> HIDE DEF changed
    <3>2. e \in UNION {EdgesAt(s) : s \in changed}
      BY <3>1
    <3> QED BY <1>3, <1>4, <3>2
  <2> QED BY <2>2, <2>3
<1>5. \A e \in fired : e \in siteOpen' /\ e.to \in known
  BY <1>1, <1>3 DEF EdgeInv
<1>6. known = required
  BY <1>1 DEF EdgeInv
<1> QED BY <1>2, <1>4, <1>5, <1>6 DEF EdgeInv

\* A surviving component lets the edges into it be visited again.
LEMMA VisitComponentEdges ==
  ASSUME IInv, NEW c \in index.components, VisitComponent(c)
  PROVE  EdgeInv'
<1>1. EdgeInv /\ status = "closing"
  BY DEF IInv, VisitComponent
<1>2. UNCHANGED <<graph, index, status, required, known, siteState, siteOpen, fired, pendingNodes>>
  BY DEF VisitComponent, fixedVars, siteVars, edgeVars
<1>3. \/ survives' = survives /\ pendingEdges' = pendingEdges
      \/ survives' = survives \cup {c} /\ pendingEdges' = pendingEdges \cup (TargetEdges(c) \ fired)
  BY DEF VisitComponent
<1>4. ASSUME NEW e \in index.edges, e \notin fired, e.from \notin pendingNodes, Decidable(e)'
      PROVE  e \in pendingEdges'
  <2>1. CASE Decidable(e)
    BY <1>1, <1>3, <1>4, <2>1 DEF EdgeInv
  <2>2. CASE ~Decidable(e)
    <3>1. index.target[e] = c /\ survives' # survives
      BY <1>2, <1>3, <1>4, <2>2 DEF Decidable, GatesOpen
    <3> QED BY <1>3, <1>4, <3>1 DEF TargetEdges
  <2> QED BY <2>1, <2>2
<1> QED BY <1>1, <1>2, <1>4 DEF EdgeInv

LEMMA VisitNodeEdges ==
  ASSUME IInv, NEW n \in Node, VisitNode(n)
  PROVE  EdgeInv'
<1>1. EdgeInv /\ status = "closing"
  BY DEF IInv, VisitNode
<1>2. UNCHANGED <<graph, index, status, required, known, siteState, survives, siteOpen, fired>>
  BY DEF VisitNode, fixedVars, siteVars, componentVars, edgeVars
<1>3. /\ pendingNodes' = pendingNodes \ {n}
      /\ pendingEdges' = pendingEdges \cup ({e \in index.edges : e.from = n} \ fired)
  BY DEF VisitNode
<1> QED BY <1>1, <1>2, <1>3 DEF EdgeInv, Decidable, GatesOpen

\* A visited edge fires or cannot fire yet; the node it reaches is new or known.
LEMMA VisitEdgeEdges ==
  ASSUME IInv, NEW e \in index.edges, VisitEdge(e)
  PROVE  EdgeInv'
<1>1. TypeOK /\ EdgeInv /\ status = "closing"
  BY DEF IInv, VisitEdge
<1>2. /\ UNCHANGED <<graph, index, siteState, survives, siteOpen>>
      /\ pendingEdges' = pendingEdges \ {e}
  BY DEF VisitEdge, fixedVars, siteVars, componentVars
<1>3. CASE GatesOpen(e) /\ Partial(e)
  <2>1. status' = "error" /\ UNCHANGED <<fired, required, known, pendingNodes>>
    BY <1>3 DEF VisitEdge
  <2> QED BY <1>1, <1>2, <2>1 DEF EdgeInv
<1>4. CASE ~(GatesOpen(e) /\ Partial(e)) /\ e \notin fired /\ GatesOpen(e) /\ e \in siteOpen
  <2>1. /\ fired' = fired \cup {e} /\ required' = required \cup {e.to}
        /\ known' = known \cup {e.to} /\ pendingNodes' = pendingNodes \cup ({e.to} \ known)
    BY <1>4 DEF VisitEdge
  <2> QED BY <1>1, <1>2, <1>4, <2>1 DEF EdgeInv, Decidable, GatesOpen
<1>5. CASE ~(GatesOpen(e) /\ Partial(e)) /\ ~(e \notin fired /\ GatesOpen(e) /\ e \in siteOpen)
  <2>1. UNCHANGED <<fired, required, known, pendingNodes>>
    BY <1>5 DEF VisitEdge
  <2>2. e \notin fired => ~Decidable(e)
    BY <1>1, <1>5, CounterFacts DEF Decidable, Partial
  <2> QED BY <1>1, <1>2, <2>1, <2>2 DEF EdgeInv, Decidable, GatesOpen
<1> QED BY <1>3, <1>4, <1>5

LEMMA EdgesStep ==
  ASSUME IInv, [Next]_vars
  PROVE  EdgeInv'
<1>1. CASE UNCHANGED vars
  BY <1>1 DEF IInv, EdgeInv, Decidable, GatesOpen, vars
<1>2. CASE Return
  BY <1>2 DEF IInv, EdgeInv, Decidable, GatesOpen, Return, fixedVars, siteVars,
              componentVars, edgeVars
<1> QED BY <1>1, <1>2, AddReachableEdges, AddSourcesEdges, BeginCloseEdges,
           VisitComponentEdges, VisitNodeEdges, VisitEdgeEdges DEF Next, Close

-----------------------------------------------------------------------------
(* What is followed and what is refused                                    *)

\* The component of an expansion that survives leads to the expansion itself.
LEMMA TargetFacts ==
  ASSUME graph \in Graphs, index = IndexOf(graph), NEW e \in index.edges
  PROVE  /\ e \in graph.edges /\ ~DelegatedUse(e)
         /\ (index.target[e] # NoComponent <=> e.kind \in UseKinds /\ e.to \in Expansion)
         /\ (index.target[e] # NoComponent =>
               e.to \in index.target[e] /\ index.target[e] \in index.components)
<1>1. e \in graph.edges /\ ~DelegatedUse(e) /\ index.target[e] = TargetComponent(graph, e)
  BY EdgeFacts
<1>2. e.to \in Expansion =>
        /\ e.to \in ComponentOf(graph, e.to)
        /\ ComponentOf(graph, e.to) \in index.components
        /\ ComponentOf(graph, e.to) # NoComponent
  BY ComponentFacts, IndexFacts
<1> QED BY <1>1, <1>2 DEF TargetComponent

\* A gate that is open is open for a reason in the graph.
LEMMA GatesSound ==
  ASSUME IInv, NEW e \in index.edges, GatesOpen(e)
  PROVE  e \in graph.edges /\ e.from \in required /\ Usable(e)
<1>1. graph \in Graphs /\ index = IndexOf(graph) /\ survives \in SUBSET index.components
  BY DEF IInv, TypeOK
<1>2. UNION survives \subseteq ExpansionSourceSurvival
  BY <1>1, SurvivesSound DEF IInv, SurviveInv
<1>3. TargetSurvives(e)
  BY <1>1, <1>2, TargetFacts DEF GatesOpen, TargetSurvives
<1> QED BY <1>1, <1>3, TargetFacts DEF IInv, EdgeInv, GatesOpen, Usable

\* The state of the sites, once no site is dirty.
LEMMA SitesSettled ==
  ASSUME IInv, dirty = {}, NEW e \in index.edges
  PROVE  /\ (e \in siteOpen <=> WhollyRetained(e))
         /\ (e \in siteOpen \/ \E s \in index.sites[e] : siteState[s] = "partial")
              <=> WhollyRetained(e) \/ PartlyRetained(e)
<1>1. TypeOK /\ SiteInv /\ graph \in Graphs /\ index = IndexOf(graph)
  BY DEF IInv, TypeOK
<1>2. ASSUME NEW s \in Site
      PROVE  /\ siteState[s] \in {"none", "partial", "all"}
             /\ (siteState[s] = "none" <=> graph.owners[s] \cap retained = {})
             /\ (siteState[s] = "all" <=> graph.owners[s] \subseteq retained)
  BY <1>1, CounterFacts, EdgeFacts DEF SiteInv
<1>3. index.sites[e] = SitesOf(e) /\ SitesOf(e) \in SUBSET Site
  BY <1>1, EdgeFacts
<1>4. CASE Unconditional(e)
  BY <1>1, <1>4 DEF SiteInv, WhollyRetained
<1>5. CASE ~Unconditional(e)
  <2>1. index.sites[e] = e.sites /\ e.sites \in SUBSET Site
    BY <1>3, <1>5 DEF SitesOf
  <2>2. e \in siteOpen <=> \E s \in e.sites : graph.owners[s] \subseteq retained
    BY <1>1, <1>2, <1>5, <2>1 DEF SiteInv, WhollyRetained
  <2> QED BY <1>2, <1>5, <2>1, <2>2 DEF WhollyRetained, PartlyRetained
<1> QED BY <1>4, <1>5

LEMMA ErrorStep ==
  ASSUME IInv, [Next]_vars
  PROVE  ErrorInv'
<1>1. CASE UNCHANGED vars
  BY <1>1 DEF IInv, ErrorInv, Ambiguous, Usable, DelegatedUse, TargetSurvives,
              ExpansionSourceSurvival, WhollyRetained, PartlyRetained, vars
<1>2. ASSUME NEW e \in index.edges, VisitEdge(e)
      PROVE  ErrorInv'
  <2>1. CASE GatesOpen(e) /\ Partial(e)
    <3>1. TypeOK /\ SiteInv /\ dirty = {}
      BY <1>2 DEF IInv, SiteInv, VisitEdge
    <3>2. ~WhollyRetained(e) /\ PartlyRetained(e)
      BY <2>1, <3>1, SitesSettled, CounterFacts DEF Partial
    <3>3. Ambiguous(e) /\ e \in graph.edges
      BY <2>1, <3>2, GatesSound DEF Ambiguous
    <3>4. UNCHANGED <<graph, retained, required>>
      BY <1>2, <2>1 DEF VisitEdge, fixedVars
    <3> QED BY <3>3, <3>4 DEF ErrorInv, Ambiguous, Usable, DelegatedUse, TargetSurvives,
              ExpansionSourceSurvival, WhollyRetained, PartlyRetained
  <2>2. CASE ~(GatesOpen(e) /\ Partial(e))
    BY <1>2, <2>2 DEF VisitEdge, ErrorInv
  <2> QED BY <2>1, <2>2
<1>3. ASSUME Next, \A e \in index.edges : ~VisitEdge(e)
      PROVE  status' # "error"
  <2>1. \A nodes \in NodeDeltas : AddReachable(nodes) => status' = "idle"
    BY DEF AddReachable
  <2>2. \A c \in index.components : VisitComponent(c) => status' = "closing"
    BY DEF VisitComponent
  <2>3. \A n \in Node : VisitNode(n) => status' = "closing"
    BY DEF VisitNode
  <2>4. Return => status' = "idle"
    BY DEF Return
  <2> QED BY <1>3, <2>1, <2>2, <2>3, <2>4, AddSourcesTypes, BeginCloseTypes DEF Next, Close
<1> QED BY <1>1, <1>2, <1>3 DEF ErrorInv

\* A lane that is closed after more source is retained was closed before.
LEMMA ClosedBefore ==
  ASSUME retained \subseteq retained', UNCHANGED graph, NEW S, ClosedLane(S)'
  PROVE  ClosedLane(S)
<1>1. ExpansionSourceSurvival \subseteq ExpansionSourceSurvival'
  BY DEF ExpansionSourceSurvival
<1>2. \A e \in graph.edges : Usable(e) => Usable(e)'
  BY <1>1 DEF Usable, DelegatedUse, TargetSurvives
<1>3. \A e \in graph.edges : WhollyRetained(e) => WhollyRetained(e)'
  BY DEF WhollyRetained
<1> QED BY <1>2, <1>3 DEF ClosedLane

LEMMA LeastStep ==
  ASSUME IInv, [Next]_vars
  PROVE  LeastInv'
<1>1. LeastInv /\ graph \in Graphs /\ index = IndexOf(graph)
  BY DEF IInv, TypeOK
<1>2. UNCHANGED graph /\ retained \subseteq retained' /\ inputs \subseteq inputs'
  BY DEF vars, fixedVars, Next, Close, AddReachable, AddSources, BeginClose, VisitComponent,
         VisitNode, VisitEdge, Return
<1>3. SUFFICES ASSUME NEW S \in SUBSET Node, inputs' \subseteq S, ClosedLane(S)'
               PROVE  required' \subseteq S
  BY DEF LeastInv
<1>4. ClosedLane(S) /\ required \subseteq S
  BY <1>1, <1>2, <1>3, ClosedBefore DEF LeastInv
<1>5. ASSUME NEW nodes \in NodeDeltas, AddReachable(nodes)
      PROVE  required' \subseteq S
  BY <1>3, <1>4, <1>5 DEF AddReachable
<1>6. ASSUME NEW e \in index.edges, VisitEdge(e), required' # required
      PROVE  required' \subseteq S
  <2>1. GatesOpen(e) /\ e \in siteOpen /\ required' = required \cup {e.to}
    BY <1>6 DEF VisitEdge
  <2>2. WhollyRetained(e)
    BY <2>1 DEF IInv, SiteInv
  <2> QED BY <1>4, <2>1, <2>2, GatesSound DEF ClosedLane
<1>7. \/ required' = required \/ \E nodes \in NodeDeltas : AddReachable(nodes)
      \/ \E e \in index.edges : VisitEdge(e)
  BY DEF vars, Next, Close, AddSources, BeginClose, VisitComponent, VisitNode, Return
<1> QED BY <1>4, <1>5, <1>6, <1>7

-----------------------------------------------------------------------------
(* The theorems                                                            *)

LEMMA Invariance == Spec => []IInv
<1>1. IInv /\ [Next]_vars => IInv'
  BY TypesStep, SitesStep, ComponentsStep, EdgesStep, ErrorStep, LeastStep DEF IInv
<1> QED BY InitHolds, <1>1, PTL DEF Spec

\* The state keeps its types and every counter is the size of the set it
\* stands for: neither add_sources nor close can fail on a counter.
THEOREM TypeCorrect == Spec => []TypeOK
<1>1. IInv => TypeOK
  BY DEF IInv
<1> QED BY <1>1, Invariance, PTL

\* When close has returned, the surviving components are the greatest set of
\* expansions whose sources are retained and whose parents are in it.
THEOREM SurvivalIsGreatest == Spec => []SurvivalAgrees
<1>1. IInv => SurvivalAgrees
  <2> SUFFICES ASSUME IInv, AtRest
               PROVE  UNION survives = ExpansionSourceSurvival
    BY DEF SurvivalAgrees
  <2>1. /\ graph \in Graphs /\ index = IndexOf(graph) /\ survives \in SUBSET index.components
        /\ pendingComponents = {}
    BY DEF IInv, TypeOK, AtRest, HasWork
  <2>2. /\ \A c \in survives : MaySurvive(c)
        /\ \A c \in index.components : MaySurvive(c) => c \in survives
    BY <2>1 DEF IInv, SurviveInv
  <2> QED BY <2>1, <2>2, SurvivesSound, SurvivesComplete
<1> QED BY <1>1, Invariance, PTL

\* What is required at rest is the least lane that holds the caller's nodes and
\* is closed along the usable edges written in retained source; close fails on
\* an edge observed at a half retained site and on nothing else.
THEOREM LaneIsLeast == Spec => []LaneExact
<1>1. ASSUME IInv, AtRest
      PROVE  /\ ClosedLane(required)
             /\ \A e \in graph.edges : ~Ambiguous(e)
  <2>1. /\ graph \in Graphs /\ index = IndexOf(graph) /\ survives \in SUBSET index.components
        /\ status = "idle" /\ dirty = {} /\ pendingNodes = {} /\ pendingEdges = {}
        /\ pendingComponents = {}
    BY <1>1 DEF IInv, TypeOK, AtRest, HasWork
  <2>2. ExpansionSourceSurvival \subseteq UNION survives
    <3>1. \A c \in index.components : MaySurvive(c) => c \in survives
      BY <1>1, <2>1 DEF IInv, SurviveInv
    <3> QED BY <2>1, <3>1, SurvivesComplete
  <2>3. ASSUME NEW e \in graph.edges, e.from \in required, Usable(e)
        PROVE  e \in index.edges /\ GatesOpen(e)
    <3>1. e \in index.edges
      BY <2>1, <2>3, EdgeFacts DEF Usable
    <3>2. ASSUME index.target[e] # NoComponent
          PROVE  index.target[e] \in survives
      <4>1. /\ e.to \in Expansion /\ e.to \in UNION survives
            /\ index.target[e] = ComponentOf(graph, e.to)
        BY <2>1, <2>2, <2>3, <3>1, <3>2, TargetFacts, EdgeFacts
           DEF Usable, TargetSurvives, TargetComponent
      <4>2. PICK c \in survives : e.to \in c
        BY <4>1
      <4>3. PICK x \in Expansion : c = ComponentOf(graph, x)
        BY <2>1, IndexFacts
      <4> QED BY <2>1, <4>1, <4>2, <4>3, ComponentFacts
    <3> QED BY <1>1, <2>3, <3>1, <3>2 DEF GatesOpen, IInv, EdgeInv
  <2>4. ASSUME NEW e \in graph.edges, e.from \in required, Usable(e),
               WhollyRetained(e) \/ PartlyRetained(e)
        PROVE  e \in fired
    <3>1. Decidable(e)
      BY <1>1, <2>1, <2>3, <2>4, SitesSettled DEF Decidable
    <3> QED BY <1>1, <2>1, <2>3, <2>4, <3>1 DEF IInv, EdgeInv
  <2>5. \A e \in fired : e.to \in required /\ WhollyRetained(e)
    BY <1>1 DEF IInv, TypeOK, EdgeInv, SiteInv
  <2> QED BY <2>4, <2>5 DEF ClosedLane, Ambiguous
<1>2. IInv => LaneExact
  BY <1>1 DEF IInv, ErrorInv, LeastInv, LaneExact, Ambiguous
<1> QED BY <1>2, Invariance, PTL
=============================================================================
