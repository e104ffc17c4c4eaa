----------------------- MODULE DecisionSnapshot_proofs -----------------------
(***************************************************************************)
(* That DecisionSnapshot's comparison is sound and, where the order of     *)
(* siblings can be told, complete: an accepted reduction is one about      *)
(* which the compiler decided the same, and such a reduction is accepted;  *)
(* for all programs, plans and candidates that the dependency graph and    *)
(* the collectors hand over, of any size.                                  *)
(*                                                                         *)
(* Soundness.  Snapshots are flattened to observations in terms of keys,   *)
(* so that the subsumption of mentions by uses becomes Obligations         *)
(* (Built); as many keys as nodes make the naming injective                *)
(* (KeysDistinct), so that equal snapshots give a renaming of expansions   *)
(* (Renaming), under which equal edges are equal observations              *)
(* (SameSayings).                                                          *)
(*                                                                         *)
(* Completeness.  Keys are defined along lineages (KeysEquation), and      *)
(* siblings have different ordinals (SnapshotOrdinals), so that no         *)
(* snapshot fails (SnapshotsBuilt).  Equal decisions make equal lineages,  *)
(* users and evidence, hence equal keys (KeysAgreeInBoth); and flattening  *)
(* loses nothing, because a snapshot has one edge for a relation           *)
(* (FlatTidy).                                                             *)
(***************************************************************************)
EXTENDS DecisionSnapshot, FiniteSetTheorems, SequenceTheorems, WellFoundedInduction, TLAPS

\* Nothing up to n fails, if 0 does not and nothing fails first.
LEMMA UpTo ==
  ASSUME NEW n \in Nat, NEW F \in SUBSET (0..n), 0 \notin F,
         \A k \in 0..n : k + 1 \in F => k \in F
  PROVE  F = {}
<1> SUFFICES ASSUME F # {} PROVE FALSE
  OBVIOUS
<1> DEFINE Below == {(1..k) : k \in F}
<1>1. IsWellFoundedOn(StrictSubsetOrdering(1..n), FiniteSubsetsOf(1..n))
  BY FS_StrictSubsetOrderingWellFounded
<1>2. Below # {} /\ Below \subseteq FiniteSubsetsOf(1..n)
  <2>1. ASSUME NEW k \in F
        PROVE  IsFiniteSet(1..k) /\ 1..k \subseteq 1..n
    <3>1. k \in Int /\ 1 \in Int /\ k <= n
      OBVIOUS
    <3>2. IsFiniteSet(1..k)
      BY <3>1, FS_Interval
    <3> QED BY <3>1, <3>2
  <2> QED BY <2>1 DEF FiniteSubsetsOf
<1>3. PICK B \in Below : \A C \in Below : ~(<<C, B>> \in StrictSubsetOrdering(1..n))
  BY <1>1, <1>2, WFMin
<1>4. PICK k \in F : B = 1..k
  OBVIOUS
<1>5. k \in 1..n /\ k - 1 \in 0..n /\ (k - 1) + 1 = k
  OBVIOUS
<1>6. k - 1 \in F
  BY <1>5
<1>7. 1..(k - 1) \in Below
  BY <1>6
<1>8. 1..(k - 1) \subseteq 1..n /\ B \subseteq 1..n /\ 1..(k - 1) \subseteq B
  BY <1>4, <1>5
<1>9. k \in B /\ k \notin 1..(k - 1)
  BY <1>4, <1>5
<1> QED BY <1>3, <1>7, <1>8, <1>9 DEF StrictSubsetOrdering

-----------------------------------------------------------------------------
Grow(edges, B) == B \cup {e.to : e \in {f \in edges : f.from \in B}}

\* The rounds of Reach, from the first on.
Rounds(edges, from, step, n) ==
  \A i \in 0..n : step[i] = IF i = 0 THEN from ELSE Grow(edges, step[i - 1])

\* Rounds are counted with numbers.
LEMMA NodesCount == Cardinality(Node) \in Nat
BY NodeAssumption, FS_CardinalityType

\* Reach ends with the last of its rounds: there is a sequence of rounds to choose.
LEMMA ReachRounds ==
  ASSUME NEW edges, NEW from
  PROVE  \E step : /\ Rounds(edges, from, step, Cardinality(Node))
                   /\ Reach(edges, from) = step[Cardinality(Node)]
<1> DEFINE N == Cardinality(Node)
           once(f) == [n \in 0..N |->
                         IF n = 0 THEN from
                         ELSE LET before == f[n - 1]
                              IN  before \cup {e.to : e \in {g \in edges : g.from \in before}}]
           step == CHOOSE f : f = once(f)
           F == {k \in 0..N : ~\E g : Rounds(edges, from, g, k)}
<1>1. N \in Nat
  BY NodesCount
<1>2. Reach(edges, from) = step[N]
  BY DEF Reach
<1> HIDE DEF N
<1>3. 0 \notin F
  <2>1. Rounds(edges, from, [i \in 0..0 |-> from], 0)
    BY DEF Rounds
  <2> QED BY <2>1
<1>4. ASSUME NEW k \in 0..N, k + 1 \in F
      PROVE  k \in F
  <2> SUFFICES ASSUME NEW g, Rounds(edges, from, g, k) PROVE FALSE
    BY <1>4
  <2> DEFINE h == [i \in 0..(k + 1) |-> IF i = k + 1 THEN Grow(edges, g[k]) ELSE g[i]]
  <2>1. ASSUME NEW i \in 0..(k + 1)
        PROVE  h[i] = IF i = 0 THEN from ELSE Grow(edges, h[i - 1])
    <3>1. CASE i = k + 1
      <4>1. i # 0 /\ i - 1 = k /\ h[i] = Grow(edges, g[k]) /\ h[k] = g[k]
        BY <3>1
      <4> QED BY <4>1
    <3>2. CASE i # k + 1
      <4>1. i \in 0..k /\ h[i] = g[i]
        BY <3>2
      <4>2. i # 0 => i - 1 \in 0..k /\ h[i - 1] = g[i - 1]
        BY <4>1
      <4> HIDE DEF h
      <4> QED BY <4>1, <4>2 DEF Rounds
    <3> QED BY <3>1, <3>2
  <2>2. Rounds(edges, from, h, k + 1)
    <3> HIDE DEF h
    <3> QED BY <2>1 DEF Rounds
  <2> HIDE DEF h
  <2> QED BY <1>4, <2>2
<1>5. F = {}
  <2> F \in SUBSET (0..N)
    OBVIOUS
  <2> HIDE DEF F
  <2> QED BY <1>1, <1>3, <1>4, UpTo
<1>6. PICK g : Rounds(edges, from, g, N)
  BY <1>1, <1>5
<1> DEFINE G == [i \in 0..N |-> g[i]]
<1>7. G = once(G)
  <2>1. ASSUME NEW i \in 0..N
        PROVE  G[i] = once(G)[i]
    <3>1. i # 0 => i - 1 \in 0..N
      BY <1>1
    <3>2. g[i] = IF i = 0 THEN from ELSE Grow(edges, g[i - 1])
      BY <1>6 DEF Rounds
    <3> QED BY <3>1, <3>2 DEF Grow
  <2> QED BY <2>1
<1>8. step = once(step)
  <2> HIDE DEF once, G
  <2> QED BY <1>7
<1>9. Rounds(edges, from, step, N)
  <2>1. ASSUME NEW i \in 0..N
        PROVE  step[i] = IF i = 0 THEN from ELSE Grow(edges, step[i - 1])
    <3> HIDE DEF step
    <3>1. step[i] = once(step)[i]
      BY <1>8
    <3> QED BY <3>1 DEF Grow
  <2> QED BY <2>1 DEF Rounds
<1> QED BY <1>2, <1>9 DEF N

\* What the edges reach from a set stays in every set that they do not leave.
LEMMA ReachWithin ==
  ASSUME NEW edges, NEW from, NEW S, from \subseteq S,
         \A e \in edges : e.from \in S => e.to \in S
  PROVE  Reach(edges, from) \subseteq S
<1> DEFINE N == Cardinality(Node)
<1>1. PICK step : Rounds(edges, from, step, N) /\ Reach(edges, from) = step[N]
  BY ReachRounds
<1> DEFINE F == {k \in 0..N : ~(step[k] \subseteq S)}
<1>2. N \in Nat
  BY NodesCount
<1> HIDE DEF N
<1>3. 0 \notin F
  BY <1>1, <1>2 DEF Rounds
<1>4. ASSUME NEW k \in 0..N, k + 1 \in F
      PROVE  k \in F
  <2>1. step[k + 1] = Grow(edges, step[k])
    <3>1. k + 1 \in 0..N /\ k + 1 # 0 /\ (k + 1) - 1 = k
      BY <1>2, <1>4
    <3> QED BY <1>1, <3>1 DEF Rounds
  <2>2. step[k] \subseteq S => Grow(edges, step[k]) \subseteq S
    BY DEF Grow
  <2> QED BY <1>4, <2>1, <2>2
<1>5. F = {}
  <2> F \in SUBSET (0..N)
    OBVIOUS
  <2> HIDE DEF F
  <2> QED BY <1>2, <1>3, <1>4, UpTo
<1> QED BY <1>1, <1>2, <1>5

\* ... and it is such a set itself: there are no more rounds to make than nodes.
LEMMA ReachClosed ==
  ASSUME NEW edges, NEW from \in SUBSET Node, \A e \in edges : e.to \in Node
  PROVE  /\ from \subseteq Reach(edges, from)
         /\ \A e \in edges : e.from \in Reach(edges, from) => e.to \in Reach(edges, from)
<1> DEFINE N == Cardinality(Node)
<1>1. PICK step : Rounds(edges, from, step, N) /\ Reach(edges, from) = step[N]
  BY ReachRounds
<1>2. N \in Nat /\ IsFiniteSet(Node)
  BY NodesCount, NodeAssumption
<1> DEFINE Done(k) == Grow(edges, step[k]) = step[k] \/ Cardinality(step[k]) >= k
           F == {k \in 0..N : ~(/\ from \subseteq step[k] /\ step[k] \subseteq Node
                               /\ Done(k))}
<1> HIDE DEF N
<1>3. 0 \notin F
  <2>1. step[0] = from
    BY <1>1, <1>2 DEF Rounds
  <2>2. Cardinality(from) \in Nat
    BY <1>2, FS_Subset, FS_CardinalityType
  <2>3. Cardinality(step[0]) >= 0
    BY <2>1, <2>2
  <2> QED BY <2>1, <2>3
<1>4. ASSUME NEW k \in 0..N, k + 1 \in F
      PROVE  k \in F
  <2> SUFFICES ASSUME from \subseteq step[k], step[k] \subseteq Node, Done(k)
               PROVE  FALSE
    BY <1>4
  <2>1. step[k + 1] = Grow(edges, step[k])
    <3>1. k + 1 \in 0..N /\ k + 1 # 0 /\ (k + 1) - 1 = k
      BY <1>2, <1>4
    <3> QED BY <1>1, <3>1 DEF Rounds
  <2>2. step[k] \subseteq step[k + 1] /\ step[k + 1] \subseteq Node
    BY <2>1 DEF Grow
  <2>3. Done(k + 1)
    <3>1. CASE Grow(edges, step[k]) = step[k]
      BY <2>1, <3>1
    <3>2. CASE Grow(edges, step[k]) # step[k]
      <4>1. IsFiniteSet(step[k + 1]) /\ IsFiniteSet(step[k])
        BY <1>2, <2>2, FS_Subset
      <4>2. Cardinality(step[k]) <= Cardinality(step[k + 1])
            /\ Cardinality(step[k]) # Cardinality(step[k + 1])
        BY <2>1, <2>2, <3>2, <4>1, FS_Subset
      <4>3. Cardinality(step[k]) \in Nat /\ Cardinality(step[k + 1]) \in Nat
        BY <4>1, FS_CardinalityType
      <4>4. Cardinality(step[k]) >= k
        BY <3>2
      <4> QED BY <4>2, <4>3, <4>4
    <3> QED BY <3>1, <3>2
  <2>4. from \subseteq step[k + 1]
    BY <2>2
  <2> HIDE DEF Done
  <2> QED BY <1>4, <2>2, <2>3, <2>4
<1>5. F = {}
  <2> F \in SUBSET (0..N)
    OBVIOUS
  <2> HIDE DEF F
  <2> QED BY <1>2, <1>3, <1>4, UpTo
<1>6. from \subseteq step[N] /\ step[N] \subseteq Node /\ Done(N)
  <2>1. N \in 0..N
    BY <1>2
  <2> HIDE DEF Done
  <2> QED BY <1>5, <2>1
<1>7. Grow(edges, step[N]) = step[N]
  <2>1. CASE Cardinality(step[N]) >= N
    <3>1. IsFiniteSet(step[N]) /\ Cardinality(step[N]) <= N
      BY <1>2, <1>6, FS_Subset DEF N
    <3>2. Cardinality(step[N]) \in Nat
      BY <3>1, FS_CardinalityType
    <3>3. Cardinality(Node) = Cardinality(step[N])
      BY <1>2, <2>1, <3>1, <3>2 DEF N
    <3>4. step[N] = Node
      BY <1>2, <1>6, <3>3, FS_Subset
    <3> QED BY <3>4 DEF Grow
  <2> QED BY <1>6, <2>1
<1> QED BY <1>1, <1>6, <1>7 DEF Grow

-----------------------------------------------------------------------------
\* The parents of an expansion come before it.
LEMMA LineageEquation ==
  ASSUME NEW p, p.parent \in [Expansion -> Expansion \cup {None}], NEW x \in Expansion
  PROVE  Lineage(p, x) =
           {x} \cup IF p.parent[x] = None THEN {} ELSE Lineage(p, p.parent[x])
<1> DEFINE once(f) ==
             [y \in Expansion |-> {y} \cup IF p.parent[y] = None THEN {} ELSE f[p.parent[y]]]
           up == CHOOSE f : f = once(f)
           Upward(S) == \A w \in S : p.parent[w] # None => p.parent[w] \in S
           G == [y \in Expansion |->
                  {z \in Expansion : \A S \in SUBSET Expansion : y \in S /\ Upward(S) => z \in S}]
<1>1. \A y : Lineage(p, y) = up[y]
  BY DEF Lineage
<1>2. G = once(G)
  <2>1. ASSUME NEW y \in Expansion
        PROVE  G[y] = once(G)[y]
    <3>1. y \in G[y] /\ Upward(G[y]) /\ G[y] \subseteq Expansion
      OBVIOUS
    <3>2. CASE p.parent[y] = None
      <4>1. Upward({y})
        BY <3>2
      <4>2. G[y] \subseteq {y}
        BY <4>1
      <4> QED BY <3>1, <3>2, <4>2
    <3>3. CASE p.parent[y] # None
      <4>1. p.parent[y] \in Expansion /\ p.parent[y] \in G[y]
        BY <3>1, <3>3
      <4>2. G[p.parent[y]] \subseteq G[y]
        BY <3>1, <4>1
      <4>3. Upward({y} \cup G[p.parent[y]])
        BY <4>1
      <4>4. G[y] \subseteq {y} \cup G[p.parent[y]]
        <5> DEFINE T == {y} \cup G[p.parent[y]]
        <5>1. T \in SUBSET Expansion /\ y \in T
          BY <4>1
        <5>2. \A z \in G[y] : \A S \in SUBSET Expansion : y \in S /\ Upward(S) => z \in S
          OBVIOUS
        <5>3. Upward(T)
          BY <4>3
        <5> HIDE DEF G, Upward, T
        <5>4. G[y] \subseteq T
          BY <5>1, <5>2, <5>3
        <5> QED BY <5>4 DEF T
      <4>5. once(G)[y] = {y} \cup G[p.parent[y]]
        BY <3>3
      <4> HIDE DEF G, once
      <4> QED BY <3>1, <4>2, <4>4, <4>5
    <3> QED BY <3>2, <3>3
  <2> QED BY <2>1
<1>3. up = once(up)
  <2> HIDE DEF once, G
  <2> QED BY <1>2
<1>4. up[x] = {x} \cup IF p.parent[x] = None THEN {} ELSE up[p.parent[x]]
  <2> HIDE DEF up
  <2> QED BY <1>3
<1> HIDE DEF up
<1> QED BY <1>1, <1>4

\* A lineage stays in every set of expansions that parents do not leave.
LEMMA LineageWithin ==
  ASSUME NEW p, WellFormed(p), NEW S \in SUBSET p.expansions, NEW x \in S,
         \A y \in S : p.parent[y] # None => p.parent[y] \in S
  PROVE  Lineage(p, x) \subseteq S
<1> DEFINE F == {y \in S : ~(Lineage(p, y) \subseteq S)}
<1>1. /\ p.parent \in [Expansion -> Expansion \cup {None}] /\ p.expansions \subseteq Expansion
      /\ \A T \in SUBSET p.expansions : T # {} => \E y \in T : p.parent[y] \notin T
  BY DEF WellFormed, Program
<1>2. F = {}
  <2> SUFFICES ASSUME F # {} PROVE FALSE
    OBVIOUS
  <2>1. PICK y \in F : p.parent[y] \notin F
    BY <1>1
  <2>2. Lineage(p, y) = {y} \cup IF p.parent[y] = None THEN {} ELSE Lineage(p, p.parent[y])
    BY <1>1, LineageEquation
  <2> QED BY <2>1, <2>2
<1> QED BY <1>2

\* ... and it is such a set itself.
LEMMA LineageUpward ==
  ASSUME NEW p, WellFormed(p), NEW x \in p.expansions
  PROVE  /\ x \in Lineage(p, x) /\ Lineage(p, x) \subseteq p.expansions
         /\ \A y \in Lineage(p, x) : p.parent[y] # None => p.parent[y] \in Lineage(p, x)
<1> DEFINE Good(z) == \A y \in Lineage(p, z) : p.parent[y] # None => p.parent[y] \in Lineage(p, z)
           F == {z \in p.expansions : ~Good(z)}
<1>1. /\ p.parent \in [Expansion -> Expansion \cup {None}] /\ p.expansions \subseteq Expansion
      /\ \A T \in SUBSET p.expansions : T # {} => \E y \in T : p.parent[y] \notin T
      /\ \A y \in p.expansions : p.parent[y] \in p.expansions \cup {None}
  BY DEF WellFormed, Program
<1>2. \A z \in p.expansions :
        Lineage(p, z) = {z} \cup IF p.parent[z] = None THEN {} ELSE Lineage(p, p.parent[z])
  BY <1>1, LineageEquation
<1>3. F = {}
  <2> SUFFICES ASSUME F # {} PROVE FALSE
    OBVIOUS
  <2>1. PICK z \in F : p.parent[z] \notin F
    BY <1>1
  <2>2. CASE p.parent[z] = None
    BY <1>2, <2>1, <2>2
  <2>3. CASE p.parent[z] # None
    <3>1. p.parent[z] \in p.expansions /\ Good(p.parent[z])
      BY <1>1, <2>1, <2>3
    <3>2. p.parent[z] \in Lineage(p, p.parent[z])
      BY <1>2, <3>1
    <3> QED BY <1>2, <2>1, <2>3, <3>1, <3>2
  <2> QED BY <2>2, <2>3
<1>4. Lineage(p, x) \subseteq p.expansions
  BY <1>1, LineageWithin
<1> QED BY <1>2, <1>3, <1>4

-----------------------------------------------------------------------------
\* What DependencyGraph::new says of its edges holds for the parent edges as well.
LEMMA GraphEdges ==
  ASSUME NEW p, WellFormed(p), NEW e \in AllEdges(p)
  PROVE  /\ e \in Edge
         /\ {e.from, e.to} \subseteq p.definitions \cup p.expansions \cup p.others
         /\ e.name = "SourceAssociatedItem" => e.from \in Other
         /\ e.to \in Expansion =>
              \/ e \in p.edges /\ e.name \in {"ExpansionUse", "GeneratedBy"} /\ e.from \in Definition
              \/ e.from \in p.expansions /\ e.to = p.parent[e.from] /\ e.to # None
<1>1. /\ p.edges \subseteq Edge /\ p.expansions \subseteq Expansion
      /\ \A x \in p.expansions : p.parent[x] \in p.expansions \cup {None}
  BY DEF WellFormed, Program
<1>2. CASE e \in p.edges
  BY <1>1, <1>2 DEF WellFormed
<1>3. CASE \E x \in p.expansions :
             /\ p.parent[x] # None
             /\ e = [name |-> "Parent", collection |-> "neither", ordinal |-> 0, from |-> x,
                     to |-> p.parent[x], sites |-> {}]
  <2>1. PICK x \in p.expansions :
               /\ p.parent[x] # None
               /\ e = [name |-> "Parent", collection |-> "neither", ordinal |-> 0, from |-> x,
                       to |-> p.parent[x], sites |-> {}]
    BY <1>3
  <2>2. x \in p.expansions /\ p.parent[x] \in p.expansions /\ x \in Node /\ p.parent[x] \in Node
    BY <1>1, <2>1 DEF Node
  <2>3. e.from = x /\ e.to = p.parent[x] /\ e.name = "Parent"
    BY <2>1
  <2>4. e \in Edge
    <3>1. "Parent" \in DependencyKind /\ 0 \in Nat /\ {} \in SUBSET Site
      BY DEF DependencyKind
    <3>2. "neither" \in {"used", "mentioned", "neither"}
      OBVIOUS
    <3> DEFINE from == x
               to == p.parent[x]
    <3>3. from \in Node /\ to \in Node
      BY <2>2
    <3> HIDE DEF from, to
    <3>4. [name |-> "Parent", collection |-> "neither", ordinal |-> 0, from |-> from,
           to |-> to, sites |-> {}] \in Edge
      BY <3>1, <3>2, <3>3 DEF Edge
    <3> QED BY <2>1, <3>4 DEF from, to
  <2> QED BY <2>1, <2>2, <2>3, <2>4
<1> QED BY <1>2, <1>3 DEF AllEdges

\* The definitions that are looked at in the original are those that the rewrite
\* leaves.
LEMMA OriginalNodes ==
  ASSUME NEW pl \in Plans, pl.program.roots \subseteq Permitted(pl)
  PROVE  /\ OriginalSelected(pl) \subseteq Node
         /\ pl.program.roots \subseteq OriginalSelected(pl)
         /\ OriginalSelected(pl) \cap Definition =
              {n \in pl.compile \cap Definition : n \notin pl.dropped}
<1> DEFINE permitted == Permitted(pl)
           seeds     == (permitted \cap Definition) \cup pl.program.roots
           followed  == {e \in AllEdges(pl.program) : e.to \in permitted /\ Visible(e, pl.retained)}
<1>1. pl \in Plan /\ WellFormed(pl.program)
  BY PlanAssumption
<1>2. permitted \subseteq Node /\ seeds \subseteq permitted
  BY <1>1 DEF Permitted, Plan
<1>3. OriginalSelected(pl) = Reach(followed, seeds)
  BY DEF OriginalSelected
<1>4. permitted \cap Definition = {n \in pl.compile \cap Definition : n \notin pl.dropped}
  BY <1>1, NodeAssumption DEF Permitted, Survives, Plan, WellFormed, Program
<1> HIDE DEF permitted
<1>5. Reach(followed, seeds) \subseteq permitted
  <2>1. \A e \in followed : e.from \in permitted => e.to \in permitted
    OBVIOUS
  <2> HIDE DEF followed, seeds
  <2> QED BY <1>2, <2>1, ReachWithin
<1>6. seeds \subseteq Reach(followed, seeds)
  <2>1. seeds \in SUBSET Node /\ \A e \in followed : e.to \in Node
    BY <1>2
  <2> HIDE DEF followed, seeds
  <2> QED BY <2>1, ReachClosed
<1> QED BY <1>2, <1>3, <1>4, <1>5, <1>6

\* The roots and nodes of a snapshot, and its edges as observations.
RootKeys(p, keys) == {NodeKey(keys, n) : n \in p.roots}
Decided(p, keys, selected) == {<<NodeKey(keys, n), NodeDecision(p, keys, n)>> : n \in selected}

Orphan(p, selected) ==
  \E x \in selected \cap Expansion : p.parent[x] # None /\ p.parent[x] \notin selected

\* What is looked at in the reduced program is what it consists of.
LEMMA ReducedNodes ==
  ASSUME NEW q, WellFormed(q), ~Orphan(q, ReducedSelected(q))
  PROVE  /\ ReducedSelected(q) \subseteq Node
         /\ q.roots \subseteq ReducedSelected(q)
         /\ ReducedSelected(q) \cap Definition = q.definitions
         /\ ReducedSelected(q) \cap Expansion = Participants(q, q.definitions)
         /\ ReducedSelected(q) \cap Other \subseteq q.others
         /\ Participants(q, q.definitions) \subseteq q.expansions
<1> DEFINE followed == {e \in AllEdges(q) : e.to \notin q.outputless}
           seeds    == q.definitions \cup q.roots
           found    == Participants(q, q.definitions)
           all      == q.definitions \cup found \cup q.others
           SR       == Reach(followed, seeds)
<1>1. /\ q.definitions \subseteq Definition /\ q.expansions \subseteq Expansion
      /\ q.others \subseteq Other /\ q.roots \subseteq q.definitions \cup q.others
      /\ q.outputless \subseteq Expansion
      /\ \A x \in q.expansions : q.parent[x] \in q.expansions \cup {None}
  BY DEF WellFormed, Program
<1>2. found \subseteq q.expansions \ q.outputless
  BY DEF Participants
<1>3. ReducedSelected(q) = SR
  BY DEF ReducedSelected, ReducedSeeds
<1>4. \A e \in followed : e.from \in all => e.to \in all
  <2> SUFFICES ASSUME NEW e \in AllEdges(q), e.to \notin q.outputless, e.from \in all,
                      e.to \in Expansion
               PROVE  e.to \in found
    BY <1>1, GraphEdges, NodeAssumption
  <2>1. e.to \in q.expansions
    BY <1>1, GraphEdges, NodeAssumption
  <2>2. CASE /\ e \in q.edges /\ e.name \in {"ExpansionUse", "GeneratedBy"}
             /\ e.from \in Definition
    <3>1. e.from \in q.definitions
      BY <1>1, <1>2, <2>2, NodeAssumption
    <3>2. e.to \in Lineage(q, e.to)
      BY <2>1, LineageUpward
    <3> QED BY <2>1, <2>2, <3>1, <3>2 DEF Participants
  <2>3. CASE e.from \in q.expansions /\ e.to = q.parent[e.from] /\ e.to # None
    <3>1. e.from \in found
      BY <1>1, <2>3, NodeAssumption
    <3>2. PICK d \in q.edges : /\ d.name \in {"ExpansionUse", "GeneratedBy"}
                               /\ d.from \in q.definitions
                               /\ d.to \in Expansion \ q.outputless
                               /\ e.from \in Lineage(q, d.to)
      BY <3>1 DEF Participants
    <3>3. d \in AllEdges(q)
      BY DEF AllEdges
    <3>4. d.to \in q.expansions
      BY <1>1, <3>2, <3>3, GraphEdges, NodeAssumption
    <3>5. e.to \in Lineage(q, d.to)
      BY <2>3, <3>2, <3>4, LineageUpward
    <3> QED BY <2>1, <3>2, <3>5 DEF Participants
  <2> QED BY <2>2, <2>3, GraphEdges
<1>5. SR \subseteq all
  <2>1. seeds \subseteq all
    BY <1>1
  <2> HIDE DEF followed, seeds, all
  <2> QED BY <1>4, <2>1, ReachWithin
<1>6. seeds \subseteq SR /\ \A e \in followed : e.from \in SR => e.to \in SR
  <2>1. seeds \in SUBSET Node
    BY <1>1 DEF Node
  <2>2. \A e \in followed : e.to \in Node
    BY GraphEdges DEF Edge
  <2> HIDE DEF followed, seeds
  <2> QED BY <2>1, <2>2, ReachClosed
<1> HIDE DEF SR
<1>7. found \subseteq SR
  <2> SUFFICES ASSUME NEW x \in found PROVE x \in SR
    OBVIOUS
  <2>1. PICK e \in q.edges : /\ e.name \in {"ExpansionUse", "GeneratedBy"}
                             /\ e.from \in q.definitions
                             /\ e.to \in Expansion \ q.outputless
                             /\ x \in Lineage(q, e.to)
    BY DEF Participants
  <2>2. e \in AllEdges(q)
    BY DEF AllEdges
  <2>3. e.to \in q.expansions /\ e.to \in SR
    BY <1>1, <1>6, <2>1, <2>2, GraphEdges, NodeAssumption
  <2>4. \A y \in SR \cap q.expansions :
          q.parent[y] # None => q.parent[y] \in SR \cap q.expansions
    BY <1>1, <1>3 DEF Orphan
  <2>5. Lineage(q, e.to) \subseteq SR \cap q.expansions
    BY <2>3, <2>4, LineageWithin
  <2> QED BY <2>1, <2>5
<1>8. all \subseteq Node
  BY <1>1, <1>2 DEF Node
<1>9. SR \cap Definition = q.definitions /\ SR \cap Expansion = found /\ SR \cap Other \subseteq q.others
  BY <1>1, <1>2, <1>5, <1>6, <1>7, NodeAssumption
<1> QED BY <1>2, <1>3, <1>5, <1>6, <1>8, <1>9

-----------------------------------------------------------------------------
NoSite == <<"none", 0>>

\* What one edge in terms of keys says, a site at a time.
Places(d) == IF d.sites = {} THEN {NoSite} ELSE d.sites
Told(d, s) == <<d.from, d.to, d.name, d.collection, d.ordinal, s>>
Flat(edges) == UNION {{Told(d, s) : s \in Places(d)} : d \in edges}

IsSnapshotEdge(d) ==
  /\ d = [name |-> d.name, collection |-> d.collection, ordinal |-> d.ordinal, from |-> d.from,
          to |-> d.to, sites |-> d.sites]
  /\ NoSite \notin d.sites

\* A mention told as a use.
LEMMA Retold ==
  \A d, s : [Told(d, s) EXCEPT ![4] = "used"] =
              <<d.from, d.to, d.name, "used", d.ordinal, s>>
BY DEF Told

Twin(d, g) ==
  /\ g.from = d.from /\ g.to = d.to /\ g.name = d.name /\ g.ordinal = d.ordinal
  /\ g.collection = "used"

\* The twin that Subsumed looks for.
LEMMA UsedTwin ==
  ASSUME NEW d, NEW g, IsSnapshotEdge(d), IsSnapshotEdge(g)
  PROVE  g = [d EXCEPT !.collection = "used", !.sites = g.sites] <=> Twin(d, g)
BY DEF IsSnapshotEdge, Twin

\* Subsumption takes away what Obligations takes away.
LEMMA FlatSubsumed ==
  ASSUME NEW edges, \A d \in edges : IsSnapshotEdge(d)
  PROVE  Flat(UNION {Subsumed(edges, d) : d \in edges}) = Obligations(Flat(edges))
<1> DEFINE used(d) == {g \in edges : g = [d EXCEPT !.collection = "used", !.sites = g.sites]}
           left(d) == d.sites \ UNION {g.sites : g \in used(d)}
           cut(d) == [d EXCEPT !.sites = left(d)]
           canonical == UNION {Subsumed(edges, d) : d \in edges}
<1>1. ASSUME NEW d \in edges
      PROVE  Subsumed(edges, d) =
               IF d.collection # "mentioned" THEN {d}
               ELSE IF d.sites = {} THEN {e \in {d} : \A g \in used(d) : g.sites # {}}
               ELSE {e \in {cut(d)} : left(d) # {}}
  BY DEF Subsumed
<1>2. \A d \in edges : used(d) = {g \in edges : Twin(d, g)}
  BY UsedTwin
<1>3. \A d \in edges : /\ cut(d).sites = left(d)
                       /\ \A s : Told(cut(d), s) = Told(d, s)
  BY DEF IsSnapshotEdge, Told
<1> HIDE DEF used, left, cut
\* A mention is also a use exactly if a twin of its edge has the site.
<1>4. ASSUME NEW d \in edges, NEW s \in Places(d)
      PROVE  [Told(d, s) EXCEPT ![4] = "used"] \in Flat(edges)
               <=> \E g \in used(d) : s \in Places(g)
  <2>1. ASSUME NEW g \in edges, s \in Places(g), Told(g, s) = [Told(d, s) EXCEPT ![4] = "used"]
        PROVE  Twin(d, g)
    BY <2>1, Retold DEF Told, Twin
  <2>2. ASSUME NEW g \in edges, s \in Places(g), Twin(d, g)
        PROVE  Told(g, s) = [Told(d, s) EXCEPT ![4] = "used"]
    BY <2>2, Retold DEF Told, Twin
  <2>3. \A g \in edges : \A r \in Places(g) :
          Told(g, r) = [Told(d, s) EXCEPT ![4] = "used"] => r = s
    BY Retold DEF Told
  <2> QED BY <1>2, <2>1, <2>2, <2>3 DEF Flat
<1>5. ASSUME NEW d \in edges, NEW s
      PROVE  Told(d, s)[4] = d.collection
  BY DEF Told
<1>6. ASSUME NEW t \in Flat(canonical)
      PROVE  t \in Obligations(Flat(edges))
  <2> PICK d \in edges : \E e \in Subsumed(edges, d) : \E s \in Places(e) : t = Told(e, s)
    BY <1>6 DEF Flat
  <2> PICK e \in Subsumed(edges, d) : \E s \in Places(e) : t = Told(e, s)
    OBVIOUS
  <2>1. PICK s \in Places(e) : t = Told(e, s)
    OBVIOUS
  <2>2. CASE d.collection # "mentioned"
    BY <1>1, <1>5, <2>1, <2>2 DEF Flat, Obligations
  <2>3. CASE d.collection = "mentioned" /\ d.sites = {}
    <3>1. e = d /\ s = NoSite /\ \A g \in used(d) : g.sites # {}
      BY <1>1, <2>1, <2>3 DEF Places
    <3>2. \A g \in used(d) : NoSite \notin Places(g)
      BY <1>2, <3>1 DEF Places, IsSnapshotEdge
    <3> QED BY <1>4, <2>1, <3>1, <3>2 DEF Flat, Obligations
  <2>4. CASE d.collection = "mentioned" /\ d.sites # {}
    <3>1. e = cut(d) /\ left(d) # {}
      BY <1>1, <2>1, <2>4
    <3>2. s \in left(d) /\ t = Told(d, s)
      BY <1>3, <2>1, <3>1 DEF Places
    <3>3. s \in Places(d) /\ s # NoSite
      BY <3>2 DEF left, Places, IsSnapshotEdge
    <3>4. \A g \in used(d) : s \notin Places(g)
      BY <3>2, <3>3 DEF left, Places
    <3> QED BY <1>4, <3>2, <3>3, <3>4 DEF Flat, Obligations
  <2> QED BY <2>2, <2>3, <2>4
<1>7. ASSUME NEW t \in Obligations(Flat(edges))
      PROVE  t \in Flat(canonical)
  <2> PICK d \in edges : \E s \in Places(d) : t = Told(d, s)
    BY <1>7 DEF Flat, Obligations
  <2>1. PICK s \in Places(d) : t = Told(d, s)
    OBVIOUS
  <2> SUFFICES \E e \in Subsumed(edges, d) : s \in Places(e) /\ t = Told(e, s)
    BY DEF Flat
  <2>3. CASE d.collection # "mentioned"
    BY <1>1, <2>1, <2>3
  <2>4. CASE d.collection = "mentioned"
    <3>1. \A g \in used(d) : s \notin Places(g)
      BY <1>4, <1>5, <1>7, <2>1, <2>4 DEF Obligations
    <3>2. CASE d.sites = {}
      <4>1. s = NoSite
        BY <2>1, <3>2 DEF Places
      <4>2. \A g \in used(d) : g.sites # {}
        BY <3>1, <4>1 DEF Places
      <4> QED BY <1>1, <2>1, <2>4, <3>2, <4>2
    <3>3. CASE d.sites # {}
      <4>1. s \in d.sites
        BY <2>1, <3>3 DEF Places
      <4>2. s \in left(d)
        BY <3>1, <4>1 DEF left, Places
      <4>3. cut(d) \in Subsumed(edges, d)
        BY <1>1, <2>4, <3>3, <4>2
      <4>4. s \in Places(cut(d)) /\ t = Told(cut(d), s)
        BY <1>3, <2>1, <4>2 DEF Places
      <4> QED BY <4>3, <4>4
    <3> QED BY <3>2, <3>3
  <2> QED BY <2>3, <2>4
<1> QED BY <1>6, <1>7

-----------------------------------------------------------------------------
\* Where an edge is observed, one place if its kind has no sites.
ObservedAt(e, retained) == IF e.sites = {} THEN {NoSite} ELSE Sites(e, retained)

Loose(e, s) ==
  e.name = "SourceAssociatedItem" /\ e.collection = "mentioned" /\ s[1] = "source"

\* An observation in terms of keys.
KeySaid(keys, e, s) ==
  <<IF Loose(e, s) THEN <<>> ELSE NodeKey(keys, e.from), NodeKey(keys, e.to), e.name,
    e.collection, DependencyOrdinal(e), s>>

AllSaid(p, keys, selected, retained) ==
  {KeySaid(keys, o[1], o[2]) : o \in Observations(p, selected, retained)}

\* A place is never the one that stands for none.
LEMMA SomeSite == \A t \in Site : SnapshotSite(t) # NoSite
BY DEF Site, SnapshotSite, NoSite

\* Nor is it among the places of an edge.
LEMMA SomeSites ==
  ASSUME NEW e \in Edge, NEW retained
  PROVE  NoSite \notin Sites(e, retained)
BY SomeSite DEF Edge, Sites

\* One edge, split or not, says what is observed of it.
LEMMA FlatProjected ==
  ASSUME NEW keys, NEW retained, NEW e \in Edge, Visible(e, retained)
  PROVE  LET projected == Projected(SnapshotEdge(keys, e, retained))
         IN  /\ \A d \in projected : IsSnapshotEdge(d)
             /\ Flat(projected) = {KeySaid(keys, e, s) : s \in ObservedAt(e, retained)}
<1> DEFINE x         == SnapshotEdge(keys, e, retained)
           projected == Projected(x)
           source    == {s \in x.sites : s[1] = "source"}
           placed    == [x EXCEPT !.sites = @ \ source]
           freed(s)  == [x EXCEPT !.from = <<>>, !.sites = {s}]
           item      == e.name = "SourceAssociatedItem" /\ e.collection = "mentioned"
           told(s)   == KeySaid(keys, e, s)
<1>1. x = [name |-> e.name, collection |-> e.collection, ordinal |-> DependencyOrdinal(e),
           from |-> NodeKey(keys, e.from), to |-> NodeKey(keys, e.to),
           sites |-> Sites(e, retained)]
  BY DEF SnapshotEdge
<1>2. NoSite \notin x.sites /\ (x.sites = {} <=> e.sites = {}) /\ x.sites = Sites(e, retained)
  <2>1. e.sites = {} => Sites(e, retained) = {}
    BY DEF Sites
  <2> QED BY <1>1, <2>1, SomeSites DEF Visible
<1> HIDE DEF x
<1>3. projected = IF ~item \/ source = {} THEN {x}
                  ELSE {d \in {placed} : d.sites # {}} \cup {freed(s) : s \in source}
  BY <1>1 DEF Projected
<1>4. Places(x) = ObservedAt(e, retained)
  BY <1>2 DEF Places, ObservedAt
<1>5. /\ placed.sites = x.sites \ source /\ \A s : Told(placed, s) = Told(x, s)
      /\ IsSnapshotEdge(placed)
  BY <1>1, <1>2 DEF Told, IsSnapshotEdge
<1>6. ASSUME NEW s
      PROVE  /\ freed(s).sites = {s}
             /\ \A r : Told(freed(s), r) = <<<<>>, NodeKey(keys, e.to), e.name, e.collection,
                                            DependencyOrdinal(e), r>>
             /\ s # NoSite => IsSnapshotEdge(freed(s))
  <2>1. freed(s) = [name |-> e.name, collection |-> e.collection, ordinal |-> DependencyOrdinal(e),
                    from |-> <<>>, to |-> NodeKey(keys, e.to), sites |-> {s}]
    <3> DEFINE y == [x EXCEPT !.from = <<>>]
    <3>1. freed(s) = [y EXCEPT !.sites = {s}]
      BY <1>1
    <3>2. y = [name |-> e.name, collection |-> e.collection, ordinal |-> DependencyOrdinal(e),
               from |-> <<>>, to |-> NodeKey(keys, e.to), sites |-> Sites(e, retained)]
      BY <1>1
    <3> HIDE DEF y, freed
    <3> QED BY <3>1, <3>2
  <2> HIDE DEF freed
  <2> QED BY <2>1 DEF Told, IsSnapshotEdge
<1>7. IsSnapshotEdge(x)
  BY <1>1, <1>2 DEF IsSnapshotEdge
<1>8. \A d \in projected : IsSnapshotEdge(d)
  <2> HIDE DEF placed, freed, item
  <2> QED BY <1>2, <1>3, <1>5, <1>6, <1>7
<1>9. \A s : /\ Loose(e, s) => told(s) = <<<<>>, NodeKey(keys, e.to), e.name, e.collection,
                                         DependencyOrdinal(e), s>>
            /\ ~Loose(e, s) => told(s) = Told(x, s)
  BY <1>1 DEF KeySaid, Told
<1>12. ASSUME NEW s, Loose(e, s)
       PROVE  told(s) = Told(freed(s), s)
  <2>1. told(s) = <<<<>>, NodeKey(keys, e.to), e.name, e.collection, DependencyOrdinal(e), s>>
    BY <1>12 DEF KeySaid
  <2> HIDE DEF told, freed
  <2>2. Told(freed(s), s) = <<<<>>, NodeKey(keys, e.to), e.name, e.collection,
                              DependencyOrdinal(e), s>>
    BY <1>6
  <2> QED BY <2>1, <2>2, Zenon
<1>10. NoSite[1] # "source"
  BY DEF NoSite
<1>11. Flat(projected) = {told(s) : s \in ObservedAt(e, retained)}
  <2> HIDE DEF told
  <2>1. CASE ~item \/ source = {}
    <3>1. \A s \in ObservedAt(e, retained) : ~Loose(e, s)
      BY <1>2, <1>10, <2>1 DEF Loose, ObservedAt
    <3>2. Flat({x}) = {Told(x, s) : s \in Places(x)}
      BY DEF Flat
    <3>3. \A s \in ObservedAt(e, retained) : told(s) = Told(x, s)
      BY <1>9, <3>1
    <3>4. projected = {x}
      BY <1>3, <2>1
    <3> HIDE DEF projected
    <3> QED BY <1>4, <3>2, <3>3, <3>4
  <2>2. CASE item /\ source # {}
    <3>1. ObservedAt(e, retained) = x.sites /\ x.sites # {}
      BY <1>2, <2>2 DEF ObservedAt
    <3>2. \A s \in x.sites : Loose(e, s) <=> s \in source
      BY <2>2 DEF Loose
    <3>3. projected = {d \in {placed} : d.sites # {}} \cup {freed(s) : s \in source}
      BY <1>3, <2>2
    <3> HIDE DEF projected, placed, freed, item, source
    <3>4. Places(placed) = x.sites \ source \/ x.sites \ source = {}
      BY <1>5 DEF Places
    <3>5. \A s \in source : Places(freed(s)) = {s}
      BY <1>6 DEF Places
    <3>6. ASSUME NEW t \in Flat(projected)
          PROVE  t \in {told(s) : s \in x.sites}
      <4>1. PICK d \in projected : \E s \in Places(d) : t = Told(d, s)
        BY <3>6 DEF Flat
      <4>2. CASE d = placed /\ d.sites # {}
        <5>1. PICK s \in x.sites \ source : t = Told(placed, s)
          BY <1>5, <3>4, <4>1, <4>2
        <5> QED BY <1>5, <1>9, <3>2, <5>1
      <4>3. CASE \E s \in source : d = freed(s)
        <5>1. PICK s \in source : d = freed(s)
          BY <4>3
        <5>2. t = Told(freed(s), s) /\ s \in x.sites
          BY <3>5, <4>1, <5>1 DEF source
        <5> QED BY <1>12, <3>2, <5>1, <5>2
      <4> QED BY <3>3, <4>1, <4>2, <4>3
    <3>7. ASSUME NEW s \in x.sites
          PROVE  told(s) \in Flat(projected)
      <4>1. CASE s \in source
        <5>1. freed(s) \in projected /\ told(s) = Told(freed(s), s)
          BY <1>12, <3>2, <3>3, <4>1
        <5> QED BY <3>5, <4>1, <5>1 DEF Flat
      <4>2. CASE s \notin source
        <5>1. placed \in projected /\ told(s) = Told(placed, s) /\ s \in Places(placed)
          BY <1>5, <1>9, <3>2, <3>3, <3>4, <4>2
        <5> QED BY <5>1 DEF Flat
      <4> QED BY <4>1, <4>2
    <3> QED BY <3>1, <3>6, <3>7
  <2> QED BY <2>1, <2>2
<1> QED BY <1>8, <1>11 DEF x

\* What a snapshot without an error consists of.
Describes(snapshot, p, keys, selected, retained) ==
  /\ ~Orphan(p, selected) /\ p.roots \subseteq selected
  /\ Cardinality({NodeKey(keys, n) : n \in selected}) = Cardinality(selected)
  /\ snapshot.roots = RootKeys(p, keys)
  /\ snapshot.nodes = Decided(p, keys, selected)
  /\ Flat(snapshot.edges) = Obligations(AllSaid(p, keys, selected, retained))

\* snapshot, when it returns no error, describes what is looked at in terms of keys.
LEMMA Built ==
  ASSUME NEW p, WellFormed(p), NEW selected, NEW retained, Build(p, selected, retained).ok
  PROVE  Describes(Build(p, selected, retained), p, ExpansionKeys(p, selected, retained),
                   selected, retained)
<1> DEFINE snapshot == Build(p, selected, retained)
           keys     == ExpansionKeys(p, selected, retained)
           seen     == {e \in AllEdges(p) : {e.from, e.to} \subseteq selected /\ Visible(e, retained)}
           part(e)  == Projected(SnapshotEdge(keys, e, retained))
           edges    == UNION {part(e) : e \in seen}
           heard == Observations(p, selected, retained)
           said     == {KeySaid(keys, o[1], o[2]) : o \in heard}
<1> HIDE DEF keys
<1>1. snapshot = IF \/ Orphan(p, selected) \/ ~(p.roots \subseteq selected)
                    \/ Cardinality({NodeKey(keys, n) : n \in selected}) # Cardinality(selected)
                   THEN Failed
                   ELSE [ok |-> TRUE,
                         roots |-> {NodeKey(keys, n) : n \in p.roots},
                         nodes |-> {<<NodeKey(keys, n), NodeDecision(p, keys, n)>> : n \in selected},
                         edges |-> UNION {Subsumed(edges, e) : e \in edges}]
  BY DEF Build, Orphan, keys
<1>2. ~Failed.ok
  BY DEF Failed
<1>3. /\ ~Orphan(p, selected) /\ p.roots \subseteq selected
      /\ Cardinality({NodeKey(keys, n) : n \in selected}) = Cardinality(selected)
      /\ snapshot.roots = {NodeKey(keys, n) : n \in p.roots}
      /\ snapshot.nodes = {<<NodeKey(keys, n), NodeDecision(p, keys, n)>> : n \in selected}
      /\ snapshot.edges = UNION {Subsumed(edges, e) : e \in edges}
  <2> DEFINE roots == {NodeKey(keys, n) : n \in p.roots}
             nodes == {<<NodeKey(keys, n), NodeDecision(p, keys, n)>> : n \in selected}
             left  == UNION {Subsumed(edges, e) : e \in edges}
             names == {NodeKey(keys, n) : n \in selected}
  <2> HIDE DEF edges, roots, nodes, left, names
  <2>1. snapshot = IF \/ Orphan(p, selected) \/ ~(p.roots \subseteq selected)
                      \/ Cardinality(names) # Cardinality(selected)
                     THEN Failed
                     ELSE [ok |-> TRUE, roots |-> roots, nodes |-> nodes, edges |-> left]
    BY <1>1 DEF roots, nodes, left, names
  <2> HIDE DEF snapshot
  <2>2. /\ ~Orphan(p, selected) /\ p.roots \subseteq selected
        /\ Cardinality(names) = Cardinality(selected)
    BY <1>2, <2>1 DEF snapshot
  <2>3. snapshot.roots = roots /\ snapshot.nodes = nodes /\ snapshot.edges = left
    BY <2>1, <2>2
  <2> QED BY <2>2, <2>3 DEF roots, nodes, left, names
<1>4. ASSUME NEW e \in seen
      PROVE  /\ \A d \in part(e) : IsSnapshotEdge(d)
             /\ Flat(part(e)) = {KeySaid(keys, e, s) : s \in ObservedAt(e, retained)}
  BY FlatProjected, GraphEdges
<1>5. Flat(edges) = said
  <2>1. Flat(edges) = UNION {Flat(part(e)) : e \in seen}
    BY DEF Flat
  <2>2. UNION {Flat(part(e)) : e \in seen} =
          UNION {{KeySaid(keys, e, s) : s \in ObservedAt(e, retained)} : e \in seen}
    BY <1>4
  <2>3. \A e \in AllEdges(p) : ~Visible(e, retained) => ObservedAt(e, retained) = {}
    BY DEF Visible, ObservedAt
  <2>4. heard = UNION {{<<e, s>> : s \in ObservedAt(e, retained)} : e \in seen}
    BY <2>3 DEF Observations, ObservedAt, NoSite
  <2> HIDE DEF seen, heard
  <2>5. said = UNION {{KeySaid(keys, e, s) : s \in ObservedAt(e, retained)} : e \in seen}
    <3>1. \A e \in seen : \A s \in ObservedAt(e, retained) : <<e, s>> \in heard
      BY <2>4
    <3>2. \A o \in heard :
            \E e \in seen : \E s \in ObservedAt(e, retained) : o = <<e, s>>
      BY <2>4
    <3> DEFINE K(e, s) == KeySaid(keys, e, s)
               spread  == UNION {{K(e, s) : s \in ObservedAt(e, retained)} : e \in seen}
    <3>3. said = {K(o[1], o[2]) : o \in heard}
      OBVIOUS
    <3> HIDE DEF K, said
    <3>4. ASSUME NEW t \in said
          PROVE  t \in spread
      <4>1. PICK o \in heard : t = K(o[1], o[2])
        BY <3>3
      <4>2. PICK e \in seen : \E s \in ObservedAt(e, retained) : o = <<e, s>>
        BY <3>2
      <4>3. PICK s \in ObservedAt(e, retained) : o = <<e, s>>
        BY <4>2
      <4>4. t = K(e, s)
        BY <4>1, <4>3
      <4> QED BY <4>4
    <3>5. ASSUME NEW e \in seen, NEW s \in ObservedAt(e, retained)
          PROVE  K(e, s) \in said
      <4>1. <<e, s>> \in heard /\ <<e, s>>[1] = e /\ <<e, s>>[2] = s
        BY <3>1
      <4> QED BY <3>3, <4>1
    <3>6. said = spread
      BY <3>4, <3>5
    <3> QED BY <3>6 DEF K
  <2> QED BY <2>1, <2>2, <2>5
<1>6. \A d \in edges : IsSnapshotEdge(d)
  <2> HIDE DEF seen, part
  <2> QED BY <1>4
<1>7. Flat(snapshot.edges) = Obligations(said)
  <2> HIDE DEF edges, said, snapshot
  <2> QED BY <1>3, <1>5, <1>6, FlatSubsumed
<1> HIDE DEF snapshot, said
<1> QED BY <1>3, <1>7 DEF keys, snapshot, said, AllSaid, Decided, RootKeys,
                          Describes

-----------------------------------------------------------------------------
Distinct(T, keys) == \A m, n \in T : NodeKey(keys, m) = NodeKey(keys, n) => m = n

\* As many keys as nodes: DuplicateKey is not returned only if no key is shared.
LEMMA KeysDistinct ==
  ASSUME NEW S \in SUBSET Node, NEW keys,
         Cardinality({NodeKey(keys, n) : n \in S}) = Cardinality(S)
  PROVE  Distinct(S, keys)
<1> DEFINE T == {NodeKey(keys, n) : n \in S}
           g == [n \in S |-> NodeKey(keys, n)]
<1>1. IsFiniteSet(S)
  BY NodeAssumption, FS_Subset
<1>2. g \in Surjection(S, T)
  BY DEF Surjection
<1>3. g \in Injection(S, T)
  <2> HIDE DEF g
  <2> QED BY <1>1, <1>2, FS_Surjection
<1> QED BY <1>3 DEF Injection, IsInjective, Distinct

\* m gives the things of W other names.
Renames(m, W) ==
  \A t \in W : /\ [t EXCEPT ![4] = "used"] \in W
              /\ m[t][4] = t[4]
              /\ m[[t EXCEPT ![4] = "used"]] = [m[t] EXCEPT ![4] = "used"]
              /\ \A u \in W : m[t] = m[u] => t = u

\* Obligations that are the same under other names are the same, if the names
\* tell the things apart and do not depend on the collection.
LEMMA ObligationsRenamed ==
  ASSUME NEW W, NEW m, NEW A \in SUBSET W, NEW B \in SUBSET W,
         Renames(m, W),
         Obligations({m[t] : t \in A}) = Obligations({m[t] : t \in B})
  PROVE  Obligations(A) \subseteq Obligations(B)
<1> DEFINE use(t) == [t EXCEPT ![4] = "used"]
           MA == {m[t] : t \in A}
           MB == {m[t] : t \in B}
<1>0. \A S : Obligations(S) = {o \in S : ~(o[4] = "mentioned" /\ use(o) \in S)}
  BY DEF Obligations
<1>1. \A t \in W : /\ use(t) \in W /\ m[t][4] = t[4] /\ m[use(t)] = use(m[t])
                  /\ \A u \in W : m[t] = m[u] => t = u
  BY DEF Renames
<1> HIDE DEF use
<1> SUFFICES ASSUME NEW o \in Obligations(A)
             PROVE  o \in Obligations(B)
  OBVIOUS
<1>2. o \in A /\ o \in W /\ ~(o[4] = "mentioned" /\ use(o) \in A)
  BY <1>0
<1>3. m[o] \in MA /\ ~(m[o][4] = "mentioned" /\ use(m[o]) \in MA)
  <2> SUFFICES ASSUME m[o][4] = "mentioned", use(m[o]) \in MA PROVE FALSE
    BY <1>2
  <2>1. PICK u \in A : use(m[o]) = m[u]
    OBVIOUS
  <2>2. use(o) = u
    BY <1>1, <1>2, <2>1
  <2> QED BY <1>1, <1>2, <2>1, <2>2
<1>4. m[o] \in MB /\ ~(m[o][4] = "mentioned" /\ use(m[o]) \in MB)
  <2> HIDE DEF MA, MB
  <2>1. m[o] \in Obligations(MA)
    BY <1>0, <1>3
  <2>2. Obligations(MA) = Obligations(MB)
    BY DEF MA, MB
  <2> QED BY <1>0, <2>1, <2>2
<1>5. PICK b \in B : m[o] = m[b]
  BY <1>4
<1>6. o = b
  BY <1>1, <1>2, <1>5
<1>7. ~(o[4] = "mentioned" /\ use(o) \in B)
  BY <1>1, <1>2, <1>4
<1> QED BY <1>0, <1>6, <1>7

\* Two nodes with equal decisions are of one kind; a node that is not an
\* expansion is named by its key.
LEMMA DecisionsOfOneKind ==
  ASSUME NEW p, NEW q, NEW k, NEW l, NEW n, NEW m,
         NodeKey(k, n) = NodeKey(l, m), NodeDecision(p, k, n) = NodeDecision(q, l, m)
  PROVE  /\ n \in Expansion <=> m \in Expansion
         /\ n \notin Expansion => n = m
         /\ n \in Other => p.decision[n] = q.decision[n]
         /\ n \in Expansion =>
              /\ p.role[n] = q.role[m] /\ Owner(p, n) = Owner(q, m)
              /\ p.parent[n] = None <=> q.parent[m] = None
              /\ p.parent[n] # None => k[p.parent[n]] = l[q.parent[m]]
<1>1. n \in Expansion <=> m \in Expansion
  BY DEF NodeDecision
<1>2. CASE n \notin Expansion
  <2>1. <<<<0, n>>>> = <<<<0, m>>>>
    BY <1>1, <1>2 DEF NodeKey
  <2>2. n = m
    BY <2>1
  <2>3. n \in Other => p.decision[n] = q.decision[n]
    BY <1>1, <1>2, <2>2 DEF NodeDecision
  <2> QED BY <1>1, <1>2, <2>2, <2>3
<1>3. CASE n \in Expansion
  <2> DEFINE up == IF p.parent[n] = None THEN <<>> ELSE <<k[p.parent[n]]>>
             vp == IF q.parent[m] = None THEN <<>> ELSE <<l[q.parent[m]]>>
  <2>1. <<p.role[n], Owner(p, n), up>> = <<q.role[m], Owner(q, m), vp>>
    BY <1>1, <1>3 DEF NodeDecision
  <2>2. up = vp
    BY <2>1
  <2>3. n \notin Other
    BY <1>3, NodeAssumption
  <2> QED BY <1>1, <1>3, <2>1, <2>2, <2>3
<1> QED BY <1>2, <1>3

\* f gives the expansions of S names of T and respects what is known of them.
Respects(f, p, q, k, l, S) ==
  \A x \in S \cap Expansion :
    /\ NodeKey(k, x) = NodeKey(l, f[x])
    /\ p.role[x] = q.role[f[x]]
    /\ Owner(p, x) = Owner(q, f[x])
    /\ IF p.parent[x] = None THEN q.parent[f[x]] = None
       ELSE q.parent[f[x]] = f[p.parent[x]]

\* Equal decisions under distinct keys pair the expansions off, parent with parent.
LEMMA Renaming ==
  ASSUME NEW p, NEW q, NEW k, NEW l, NEW S \in SUBSET Node, NEW T \in SUBSET Node,
         p.parent \in [Expansion -> Expansion \cup {None}],
         q.parent \in [Expansion -> Expansion \cup {None}],
         ~Orphan(p, S), ~Orphan(q, T),
         Distinct(S, k), Distinct(T, l),
         Decided(p, k, S) = Decided(q, l, T)
  PROVE  /\ S \ Expansion = T \ Expansion
         /\ \A n \in S \cap Other : p.decision[n] = q.decision[n]
         /\ \E f \in Bijection(S \cap Expansion, T \cap Expansion) : Respects(f, p, q, k, l, S)
<1> USE DEF Distinct
<1> DEFINE match(n, m) == NodeKey(k, n) = NodeKey(l, m) /\ NodeDecision(p, k, n) = NodeDecision(q, l, m)
           f == [x \in S \cap Expansion |-> CHOOSE m \in T : match(x, m)]
<1>1. (\A n \in S : \E m \in T : match(n, m)) /\ \A m \in T : \E n \in S : match(n, m)
  <2> DEFINE tell(n) == <<NodeKey(k, n), NodeDecision(p, k, n)>>
             told(n) == <<NodeKey(l, n), NodeDecision(q, l, n)>>
  <2>1. \A n, m : tell(n) = told(m) => match(n, m)
    OBVIOUS
  <2>2. {tell(n) : n \in S} = {told(n) : n \in T}
    BY DEF Decided
  <2> HIDE DEF tell, told, match
  <2>3. \A n \in S : \E m \in T : tell(n) = told(m)
    BY <2>2
  <2>4. \A m \in T : \E n \in S : tell(n) = told(m)
    BY <2>2
  <2> QED BY <2>1, <2>3, <2>4
<1>2. ASSUME NEW n \in S, NEW m \in T, match(n, m)
      PROVE  /\ n \in Expansion <=> m \in Expansion
             /\ n \notin Expansion => n = m
             /\ n \in Other => p.decision[n] = q.decision[n]
             /\ n \in Expansion =>
                  /\ p.role[n] = q.role[m] /\ Owner(p, n) = Owner(q, m)
                  /\ p.parent[n] = None <=> q.parent[m] = None
                  /\ p.parent[n] # None => k[p.parent[n]] = l[q.parent[m]]
  BY <1>2, DecisionsOfOneKind
<1>3. \A n, m : match(n, m) => NodeKey(k, n) = NodeKey(l, m)
  OBVIOUS
<1> HIDE DEF match
<1>4. S \ Expansion = T \ Expansion
  <2>1. ASSUME NEW n \in S, n \notin Expansion
        PROVE  n \in T
    <3>1. PICK m \in T : match(n, m)
      BY <1>1
    <3> QED BY <1>2, <2>1, <3>1
  <2>2. ASSUME NEW m \in T, m \notin Expansion
        PROVE  m \in S
    BY <1>1, <1>2, <2>2
  <2> QED BY <2>1, <2>2
<1>5. \A n \in S \cap Other : p.decision[n] = q.decision[n]
  BY <1>1, <1>2
<1>6. \A x \in S \cap Expansion : f[x] \in T \cap Expansion /\ match(x, f[x])
  BY <1>1, <1>2
<1> HIDE DEF f
<1>7. f \in Bijection(S \cap Expansion, T \cap Expansion)
  <2>1. f \in [S \cap Expansion -> T \cap Expansion]
    BY <1>6 DEF f
  <2>2. \A x, y \in S \cap Expansion : f[x] = f[y] => x = y
    <3> SUFFICES ASSUME NEW x \in S \cap Expansion, NEW y \in S \cap Expansion, f[x] = f[y]
                 PROVE  x = y
      OBVIOUS
    <3>1. NodeKey(k, x) = NodeKey(k, y)
      BY <1>3, <1>6
    <3> QED BY <3>1
  <2>3. ASSUME NEW m \in T \cap Expansion
        PROVE  \E x \in S \cap Expansion : f[x] = m
    <3>1. PICK x \in S : match(x, m)
      BY <1>1
    <3>2. x \in S \cap Expansion
      BY <1>2, <3>1
    <3>3. NodeKey(l, f[x]) = NodeKey(l, m) /\ f[x] \in T
      BY <1>3, <1>6, <3>1, <3>2
    <3>4. f[x] = m
      BY <3>3
    <3> QED BY <3>2, <3>4
  <2> QED BY <2>1, <2>2, <2>3 DEF Bijection, Injection, Surjection, IsInjective
<1>8. ASSUME NEW x \in S \cap Expansion
      PROVE  /\ NodeKey(k, x) = NodeKey(l, f[x])
             /\ p.role[x] = q.role[f[x]]
             /\ Owner(p, x) = Owner(q, f[x])
             /\ IF p.parent[x] = None THEN q.parent[f[x]] = None
                ELSE q.parent[f[x]] = f[p.parent[x]]
  <2>1. /\ p.role[x] = q.role[f[x]] /\ Owner(p, x) = Owner(q, f[x])
        /\ p.parent[x] = None <=> q.parent[f[x]] = None
        /\ p.parent[x] # None => k[p.parent[x]] = l[q.parent[f[x]]]
    BY <1>2, <1>6
  <2>2. CASE p.parent[x] # None
    <3>1. p.parent[x] \in S /\ q.parent[f[x]] \in T
      BY <1>6, <2>1, <2>2 DEF Orphan
    <3>2. p.parent[x] \in S \cap Expansion /\ q.parent[f[x]] \in T \cap Expansion
      BY <1>6, <2>1, <2>2, <3>1
    <3>3. f[p.parent[x]] \in T \cap Expansion /\ match(p.parent[x], f[p.parent[x]])
      BY <1>6, <3>2
    <3>4. k[p.parent[x]] = l[f[p.parent[x]]]
      <4>1. NodeKey(k, p.parent[x]) = NodeKey(l, f[p.parent[x]])
        BY <1>3, <3>3
      <4> QED BY <3>2, <3>3, <4>1 DEF NodeKey
    <3>5. NodeKey(l, q.parent[f[x]]) = NodeKey(l, f[p.parent[x]])
      BY <2>1, <2>2, <3>2, <3>3, <3>4 DEF NodeKey
    <3>6. q.parent[f[x]] = f[p.parent[x]]
      BY <3>2, <3>3, <3>5
    <3> QED BY <1>3, <1>6, <2>1, <2>2, <3>6
  <2> QED BY <1>3, <1>6, <2>1, <2>2
<1> QED BY <1>4, <1>5, <1>7, <1>8 DEF Respects

-----------------------------------------------------------------------------
AllNamed(f, p, selected, retained) == {Said(f, o) : o \in Observations(p, selected, retained)}

\* What can be said about nodes T; only an item selected in the source belongs
\* to no node.
Sayings(T) ==
  {t \in (T \cup {None}) \X T \X DependencyKind \X {"used", "mentioned", "neither"} \X Nat
            \X (Site \cup {NoSite}) :
     /\ t[1] = None => t[3] = "SourceAssociatedItem"
     /\ t[3] = "SourceAssociatedItem" => t[1] \in Other \cup {None}}

InKeys(T, keys) ==
  [t \in Sayings(T) |->
    <<IF t[1] = None THEN <<>> ELSE NodeKey(keys, t[1]), NodeKey(keys, t[2]), t[3], t[4], t[5],
      t[6]>>]

\* A saying about T, told as a use, is one.
LEMMA UsedSaying ==
  ASSUME NEW T, NEW t \in Sayings(T)
  PROVE  /\ [t EXCEPT ![4] = "used"] = <<t[1], t[2], t[3], "used", t[5], t[6]>>
         /\ [t EXCEPT ![4] = "used"] \in Sayings(T)
         /\ t = <<t[1], t[2], t[3], t[4], t[5], t[6]>>
<1>1. t = <<t[1], t[2], t[3], t[4], t[5], t[6]>>
  BY DEF Sayings
<1>2. [t EXCEPT ![4] = "used"] = <<t[1], t[2], t[3], "used", t[5], t[6]>>
  BY <1>1
<1>3. <<t[1], t[2], t[3], "used", t[5], t[6]>> \in Sayings(T)
  BY DEF Sayings
<1> QED BY <1>1, <1>2, <1>3

\* Keys do not depend on the collection.
LEMMA UsedInKeys ==
  ASSUME NEW T, NEW keys, NEW t \in Sayings(T)
  PROVE  /\ InKeys(T, keys)[t][4] = t[4]
         /\ InKeys(T, keys)[[t EXCEPT ![4] = "used"]] = [InKeys(T, keys)[t] EXCEPT ![4] = "used"]
<1> DEFINE m == InKeys(T, keys)
           from(a) == IF a = None THEN <<>> ELSE NodeKey(keys, a)
           v == <<t[1], t[2], t[3], "used", t[5], t[6]>>
<1>1. \A x \in Sayings(T) :
        m[x] = <<from(x[1]), NodeKey(keys, x[2]), x[3], x[4], x[5], x[6]>>
  BY DEF InKeys
<1> HIDE DEF m
<1>2. v = [t EXCEPT ![4] = "used"] /\ v \in Sayings(T)
  BY UsedSaying
<1>3. m[v] = <<from(t[1]), NodeKey(keys, t[2]), t[3], "used", t[5], t[6]>>
  BY <1>1, <1>2
<1>4. m[t] = <<from(t[1]), NodeKey(keys, t[2]), t[3], t[4], t[5], t[6]>>
  BY <1>1
<1> HIDE DEF from, v
<1>5. [m[t] EXCEPT ![4] = "used"] = <<from(t[1]), NodeKey(keys, t[2]), t[3], "used", t[5], t[6]>>
  BY <1>4
<1>6. m[t][4] = t[4]
  BY <1>4
<1> QED BY <1>2, <1>3, <1>5, <1>6 DEF m

\* Keys tell the sayings about T apart.
LEMMA DistinctInKeys ==
  ASSUME NEW T, NEW keys, None \notin T, Distinct(T, keys), NEW t \in Sayings(T),
         NEW u \in Sayings(T), InKeys(T, keys)[t] = InKeys(T, keys)[u]
  PROVE  t = u
<1> DEFINE m == InKeys(T, keys)
           from(a) == IF a = None THEN <<>> ELSE NodeKey(keys, a)
<1>1. \A x \in Sayings(T) :
        m[x] = <<from(x[1]), NodeKey(keys, x[2]), x[3], x[4], x[5], x[6]>>
  BY DEF InKeys
<1>2. \A x \in Sayings(T) : /\ x[1] \in T \cup {None} /\ x[2] \in T
                            /\ x[1] = None => x[3] = "SourceAssociatedItem"
                            /\ x[3] = "SourceAssociatedItem" => x[1] \in Other \cup {None}
  BY DEF Sayings
<1>3. \A n \in Other : NodeKey(keys, n) # <<>>
  BY NodeAssumption DEF NodeKey
<1>4. m[t] = m[u]
  OBVIOUS
<1> HIDE DEF m
<1>5. /\ from(t[1]) = from(u[1]) /\ NodeKey(keys, t[2]) = NodeKey(keys, u[2]) /\ t[3] = u[3]
      /\ t[4] = u[4] /\ t[5] = u[5] /\ t[6] = u[6]
  <2> HIDE DEF from
  <2> QED BY <1>1, <1>4
<1>6. t[2] = u[2]
  BY <1>2, <1>5 DEF Distinct
<1>7. t[1] = u[1]
  <2>1. CASE t[1] = None \/ u[1] = None
    BY <1>2, <1>3, <1>5, <2>1
  <2>2. CASE t[1] # None /\ u[1] # None
    BY <1>2, <1>5, <2>2 DEF Distinct
  <2> QED BY <2>1, <2>2
<1>8. /\ t = <<t[1], t[2], t[3], t[4], t[5], t[6]>>
      /\ u = <<u[1], u[2], u[3], u[4], u[5], u[6]>>
  BY UsedSaying
<1> QED BY <1>5, <1>6, <1>7, <1>8

\* f takes the nodes of S to nodes of T with the same keys.
Matches(f, S, T, k, l) ==
  /\ S \ Expansion \subseteq T
  /\ \A x \in S \cap Expansion : f[x] \in T \cap Expansion /\ NodeKey(k, x) = NodeKey(l, f[x])

\* An observation, said with the names that f gives, is in keys what the
\* snapshot says.
LEMMA SaidInKeys ==
  ASSUME NEW p, WellFormed(p), NEW S \in SUBSET Node, NEW T \in SUBSET Node, NEW k, NEW l, NEW f,
         NEW retained,
         Matches(f, S, T, k, l),
         NEW o \in Observations(p, S, retained)
  PROVE  /\ Said(f, o) \in Sayings(T)
         /\ InKeys(T, l)[Said(f, o)] = KeySaid(k, o[1], o[2])
<1>1. PICK e \in AllEdges(p) : /\ {e.from, e.to} \subseteq S
                               /\ \E s \in ObservedAt(e, retained) : o = <<e, s>>
  BY DEF Observations, ObservedAt, NoSite
<1>2. PICK s \in ObservedAt(e, retained) : o = <<e, s>>
  BY <1>1
<1>3. o[1] = e /\ o[2] = s
  BY <1>2
<1>4. e \in Edge /\ (e.name = "SourceAssociatedItem" => e.from \in Other)
  BY GraphEdges
<1>5. s \in Site \cup {NoSite}
  <2>1. \A t \in Site : SnapshotSite(t) \in Site
    BY DEF Site, SnapshotSite
  <2> QED BY <1>4, <2>1 DEF ObservedAt, Sites, Edge
<1>6. /\ e.name \in DependencyKind /\ e.collection \in {"used", "mentioned", "neither"}
      /\ DependencyOrdinal(e) \in Nat
  BY <1>4 DEF Edge, DependencyOrdinal
<1> DEFINE name(n) == IF n \in Expansion THEN f[n] ELSE n
           from == IF Loose(e, s) THEN None ELSE name(e.from)
           t == <<from, name(e.to), e.name, e.collection, DependencyOrdinal(e), s>>
<1>7. \A n \in S : name(n) \in T /\ NodeKey(k, n) = NodeKey(l, name(n))
                 /\ (n \in Other => name(n) \in Other) /\ name(n) # None
  <2>1. None \notin T /\ Expansion \cap Other = {}
    BY NodeAssumption
  <2> QED BY <2>1 DEF NodeKey, Matches
<1>8. Said(f, o) = t
  BY <1>3 DEF Said, Loose
<1> HIDE DEF name
<1>9. t \in Sayings(T)
  <2>1. from \in T \cup {None} /\ name(e.to) \in T
    BY <1>1, <1>7
  <2>2. from = None => e.name = "SourceAssociatedItem"
    BY <1>1, <1>7 DEF Loose
  <2>3. e.name = "SourceAssociatedItem" => from \in Other \cup {None}
    BY <1>1, <1>4, <1>7
  <2> HIDE DEF from
  <2> QED BY <1>5, <1>6, <2>1, <2>2, <2>3 DEF Sayings
<1>10. InKeys(T, l)[t] = KeySaid(k, e, s)
  <2>1. (IF from = None THEN <<>> ELSE NodeKey(l, from)) =
          IF Loose(e, s) THEN <<>> ELSE NodeKey(k, e.from)
    BY <1>1, <1>7
  <2>2. NodeKey(l, name(e.to)) = NodeKey(k, e.to)
    BY <1>1, <1>7
  <2> HIDE DEF from
  <2>3. InKeys(T, l)[t] = <<IF from = None THEN <<>> ELSE NodeKey(l, from), NodeKey(l, name(e.to)),
                            e.name, e.collection, DependencyOrdinal(e), s>>
    BY <1>9 DEF InKeys
  <2> QED BY <2>1, <2>2, <2>3 DEF KeySaid
<1> QED BY <1>3, <1>8, <1>9, <1>10

\* Under distinct keys, keys are other names for sayings.
LEMMA KeysRename ==
  ASSUME NEW S \in SUBSET Node, NEW keys, Distinct(S, keys)
  PROVE  Renames(InKeys(S, keys), Sayings(S))
<1> DEFINE m == InKeys(S, keys)
           W == Sayings(S)
<1>1. None \notin S
  BY NodeAssumption
<1>2. ASSUME NEW t \in W
      PROVE  /\ [t EXCEPT ![4] = "used"] \in W
             /\ m[t][4] = t[4]
             /\ m[[t EXCEPT ![4] = "used"]] = [m[t] EXCEPT ![4] = "used"]
  BY UsedSaying, UsedInKeys
<1>3. ASSUME NEW t \in W, NEW u \in W
      PROVE  m[t] = m[u] => t = u
  BY <1>1, DistinctInKeys
<1> HIDE DEF m, W
<1>4. Renames(m, W)
  BY <1>2, <1>3 DEF Renames
<1> QED BY <1>4 DEF m, W

\* What is said under equal keys is said under the renaming that they give.
LEMMA SameSayings ==
  ASSUME NEW p, WellFormed(p), NEW q, WellFormed(q), NEW S \in SUBSET Node, NEW T \in SUBSET Node,
         NEW k, NEW l, NEW f, NEW retained, NEW units,
         Matches(f, S, T, k, l),
         Distinct(T, l),
         Obligations(AllSaid(p, k, S, retained)) = Obligations(AllSaid(q, l, T, units))
  PROVE  Obligations(AllNamed(f, p, S, retained))
           = Obligations(AllNamed([x \in Expansion |-> x], q, T, units))
<1> DEFINE id == [x \in Expansion |-> x]
           here == Observations(p, S, retained)
           there == Observations(q, T, units)
           A == {Said(f, o) : o \in here}
           B == {Said(id, o) : o \in there}
           W == Sayings(T)
           m == InKeys(T, l)
<1>1. \A o \in here : Said(f, o) \in W /\ m[Said(f, o)] = KeySaid(k, o[1], o[2])
  BY SaidInKeys
<1>2. \A o \in there : Said(id, o) \in W /\ m[Said(id, o)] = KeySaid(l, o[1], o[2])
  <2>1. Matches(id, T, T, l, l)
    BY DEF Matches
  <2> HIDE DEF id
  <2>2. ASSUME NEW o \in Observations(q, T, units)
        PROVE  Said(id, o) \in Sayings(T) /\ InKeys(T, l)[Said(id, o)] = KeySaid(l, o[1], o[2])
    BY <2>1, SaidInKeys
  <2> QED BY <2>2
<1>3. Renames(m, W)
  BY KeysRename
<1> HIDE DEF id, here, there, W, m
<1>4. {m[t] : t \in A} = {KeySaid(k, o[1], o[2]) : o \in here}
  BY <1>1
<1>5. {m[t] : t \in B} = {KeySaid(l, o[1], o[2]) : o \in there}
  BY <1>2
<1>6. Obligations({m[t] : t \in A}) = Obligations({m[t] : t \in B})
  BY <1>4, <1>5 DEF here, there, AllSaid
<1>7. A \in SUBSET W /\ B \in SUBSET W
  BY <1>1, <1>2
<1> HIDE DEF A, B
<1>8. Obligations(A) \subseteq Obligations(B)
  BY <1>3, <1>6, <1>7, ObligationsRenamed
<1>9. Obligations(B) \subseteq Obligations(A)
  BY <1>3, <1>6, <1>7, ObligationsRenamed
<1> QED BY <1>8, <1>9 DEF A, B, id, here, there, AllNamed

-----------------------------------------------------------------------------
\* Roots are no expansions, so that their keys name them.
LEMMA SameRoots ==
  ASSUME NEW p, NEW q, WellFormed(p), WellFormed(q), NEW k, NEW l,
         RootKeys(p, k) = RootKeys(q, l)
  PROVE  p.roots = q.roots
<1>1. \A n \in p.roots \cup q.roots : n \notin Expansion
  BY NodeAssumption DEF WellFormed, Program
<1>2. \A n \in p.roots \cup q.roots : NodeKey(k, n) = <<<<0, n>>>> /\ NodeKey(l, n) = <<<<0, n>>>>
  BY <1>1 DEF NodeKey
<1>3. \A n \in p.roots : \E m \in q.roots : NodeKey(k, n) = NodeKey(l, m)
  BY DEF RootKeys
<1>4. \A m \in q.roots : \E n \in p.roots : NodeKey(k, n) = NodeKey(l, m)
  BY DEF RootKeys
<1>5. \A n \in p.roots : \A m \in q.roots : NodeKey(k, n) = NodeKey(l, m) => n = m
  BY <1>2
<1> QED BY <1>3, <1>4, <1>5

\* Equal snapshots are about programs of which the compiler decided the same.
LEMMA EqualIsSame ==
  ASSUME NEW pl \in Plans, NEW q \in Candidates(pl),
         OriginalSnapshot(pl).ok, ReducedSnapshot(q).ok,
         OriginalSnapshot(pl).roots = ReducedSnapshot(q).roots,
         OriginalSnapshot(pl).nodes = ReducedSnapshot(q).nodes,
         OriginalSnapshot(pl).edges = ReducedSnapshot(q).edges
  PROVE  \E f \in Bijection(KeptExpansions(pl), FoundExpansions(q)) : Same(f, pl, q)
<1> DEFINE p == pl.program
           S == OriginalSelected(pl)
           T == ReducedSelected(q)
           k == ExpansionKeys(p, S, pl.retained)
           l == ExpansionKeys(q, T, Unit)
           before == Build(p, S, pl.retained)
           after  == Build(q, T, Unit)
<1>1. WellFormed(p) /\ WellFormed(q)
  BY PlanAssumption
<1>2. p.roots \subseteq Permitted(pl) /\ OriginalSnapshot(pl) = before /\ ReducedSnapshot(q) = after
  BY DEF OriginalSnapshot, ReducedSnapshot, Failed
<1>3. Describes(before, p, k, S, pl.retained)
  BY <1>1, <1>2, Built
<1>4. Describes(after, q, l, T, Unit)
  BY <1>1, <1>2, Built
<1>5. /\ S \subseteq Node
      /\ S \cap Definition = {n \in pl.compile \cap Definition : n \notin pl.dropped}
  BY <1>2, OriginalNodes
<1>6. /\ T \subseteq Node /\ T \cap Definition = q.definitions
      /\ T \cap Expansion = Participants(q, q.definitions) /\ T \cap Other \subseteq q.others
  BY <1>1, <1>4, ReducedNodes DEF Describes
<1>7. before.roots = after.roots /\ before.nodes = after.nodes /\ before.edges = after.edges
  BY <1>2
<1>8. /\ p.parent \in [Expansion -> Expansion \cup {None}]
      /\ q.parent \in [Expansion -> Expansion \cup {None}]
      /\ q.definitions \subseteq Definition /\ q.others \subseteq Other
  BY <1>1 DEF WellFormed, Program
<1> HIDE DEF p, S, T, k, l, before, after
<1>9. p.roots = q.roots
  BY <1>1, <1>3, <1>4, <1>7, SameRoots DEF Describes
<1>10. Distinct(S, k) /\ Distinct(T, l)
  BY <1>3, <1>4, <1>5, <1>6, KeysDistinct DEF Describes
<1>11. Decided(p, k, S) = Decided(q, l, T)
  BY <1>3, <1>4, <1>7 DEF Describes
<1>12. /\ S \ Expansion = T \ Expansion
       /\ \A n \in S \cap Other : p.decision[n] = q.decision[n]
       /\ \E f \in Bijection(S \cap Expansion, T \cap Expansion) : Respects(f, p, q, k, l, S)
  <2>1. S \in SUBSET Node /\ T \in SUBSET Node
    BY <1>5, <1>6
  <2>2. ~Orphan(p, S) /\ ~Orphan(q, T)
    BY <1>3, <1>4 DEF Describes
  <2> QED BY <1>8, <1>10, <1>11, <2>1, <2>2, Renaming
<1>13. PICK f \in Bijection(S \cap Expansion, T \cap Expansion) : Respects(f, p, q, k, l, S)
  BY <1>12
<1>14. f \in [S \cap Expansion -> T \cap Expansion]
  BY DEF Bijection, Injection
<1>15. Matches(f, S, T, k, l)
  BY <1>12, <1>13, <1>14 DEF Matches, Respects
<1>16. Obligations(AllNamed(f, p, S, pl.retained))
         = Obligations(AllNamed([x \in Expansion |-> x], q, T, Unit))
  <2>1. Obligations(AllSaid(p, k, S, pl.retained)) = Obligations(AllSaid(q, l, T, Unit))
    BY <1>3, <1>4, <1>7 DEF Describes
  <2> QED BY <1>1, <1>5, <1>6, <1>10, <1>15, <2>1, SameSayings
<1> DEFINE defs  == {n \in pl.compile \cap Definition : n \notin pl.dropped}
           kept  == DOMAIN f \cup (S \ Expansion)
           found == Participants(q, q.definitions) \cup q.definitions \cup (T \cap Other)
<1>17. kept = S
  BY <1>14
<1>18. found = T
  <2>1. T = (T \cap Definition) \cup (T \cap Expansion) \cup (T \cap Other)
    BY <1>6 DEF Node
  <2> QED BY <1>6, <2>1
<1>19. defs = q.definitions
  BY <1>5, <1>6, <1>12, NodeAssumption
<1>20. kept \cap Other = found \cap Other /\ \A n \in kept \cap Other : p.decision[n] = q.decision[n]
  BY <1>12, <1>17, <1>18, NodeAssumption
<1>21. Same(f, pl, q)
  <2>1. Obligations({Said(f, o) : o \in Observations(p, kept, pl.retained)})
          = Obligations({Said([x \in Expansion |-> x], o) : o \in Observations(q, found, Unit)})
    BY <1>16, <1>17, <1>18 DEF AllNamed
  <2>2. DOMAIN f = S \cap Expansion
    BY <1>14
  <2> HIDE DEF defs
  <2> QED BY <1>9, <1>13, <1>19, <1>20, <2>1, <2>2 DEF Same, Respects, p, S, T, defs
<1>22. f \in Bijection(KeptExpansions(pl), FoundExpansions(q))
  BY <1>6, <1>13 DEF KeptExpansions, FoundExpansions, S
<1> QED BY <1>21, <1>22

-----------------------------------------------------------------------------
\* Retention keeps the parents of what it keeps, so that no key misses its parent.
LEMMA OriginalKept ==
  ASSUME NEW pl \in Plans
  PROVE  /\ pl.program.roots \subseteq Permitted(pl)
         /\ ~Orphan(pl.program, OriginalSelected(pl))
         /\ OriginalSelected(pl) \cap Expansion
              \subseteq pl.program.expansions \ pl.program.outputless
<1> DEFINE p         == pl.program
           permitted == Permitted(pl)
           seeds     == (permitted \cap Definition) \cup p.roots
           followed  == {e \in AllEdges(p) : e.to \in permitted /\ Visible(e, pl.retained)}
           S         == OriginalSelected(pl)
<1>1. pl \in Plan /\ WellFormed(p) /\ RetentionClosed(pl)
  BY PlanAssumption
<1>2. /\ p.definitions \subseteq Definition /\ p.expansions \subseteq Expansion
      /\ p.others \subseteq Other /\ p.roots \subseteq p.definitions \cup p.others
      /\ p.outputless \subseteq Expansion /\ pl.dropped \subseteq Definition
      /\ \A x \in p.expansions : p.parent[x] \in p.expansions \cup {None}
  BY <1>1 DEF WellFormed, Program, Plan
<1>3. /\ pl.compile \subseteq p.definitions \cup p.expansions \cup p.others
      /\ p.roots \subseteq pl.compile \ pl.dropped
      /\ \A x \in pl.compile \cap Expansion : p.parent[x] \in pl.compile \cup {None}
      /\ \A x \in (pl.compile \cap p.expansions) \ p.outputless : p.parent[x] \notin p.outputless
  BY <1>1 DEF RetentionClosed, OutputAbove
<1>4. \A n : n \in permitted <=>
               /\ n \in pl.compile \ p.outputless
               /\ n \in Expansion =>
                    \A y \in Lineage(p, n) : p.written[y] \in pl.retained \cup {None}
               /\ n \notin pl.dropped
  BY DEF Permitted, Survives
<1>5. p.roots \subseteq permitted
  BY <1>2, <1>3, <1>4, NodeAssumption
<1> HIDE DEF permitted
<1>6. S = Reach(followed, seeds)
  BY DEF OriginalSelected, permitted
<1>7. S \subseteq permitted /\ seeds \subseteq permitted
  <2>1. \A e \in followed : e.from \in permitted => e.to \in permitted
    OBVIOUS
  <2>2. seeds \subseteq permitted
    BY <1>5
  <2> HIDE DEF followed, seeds, S
  <2> QED BY <1>6, <2>1, <2>2, ReachWithin
<1>8. \A e \in followed : e.from \in S => e.to \in S
  <2>1. seeds \in SUBSET Node /\ \A e \in followed : e.to \in Node
    BY <1>1, <1>4, <1>7 DEF Plan
  <2> HIDE DEF followed, seeds, S
  <2> QED BY <1>6, <2>1, ReachClosed
<1> HIDE DEF S, p
<1>9. S \cap Expansion \subseteq p.expansions \ p.outputless
  BY <1>2, <1>3, <1>4, <1>7, NodeAssumption
<1>10. ASSUME NEW x \in S \cap Expansion, p.parent[x] # None
       PROVE  p.parent[x] \in S
  <2>1. /\ x \in p.expansions \ p.outputless /\ x \in pl.compile
        /\ \A y \in Lineage(p, x) : p.written[y] \in pl.retained \cup {None}
    BY <1>4, <1>7, <1>9
  <2>2. p.parent[x] \in p.expansions /\ p.parent[x] \in pl.compile \ p.outputless
    BY <1>2, <1>3, <1>10, <2>1
  <2>3. Lineage(p, p.parent[x]) \subseteq Lineage(p, x)
    <3>1. p.parent \in [Expansion -> Expansion \cup {None}]
      BY <1>1 DEF WellFormed, Program, p
    <3> QED BY <1>10, <3>1, LineageEquation
  <2>4. p.parent[x] \notin pl.dropped
    BY <1>2, <2>2, NodeAssumption
  <2>5. p.parent[x] \in permitted
    BY <1>4, <2>1, <2>2, <2>3, <2>4
  <2> DEFINE e == [name |-> "Parent", collection |-> "neither", ordinal |-> 0, from |-> x,
                   to |-> p.parent[x], sites |-> {}]
  <2>6. e \in AllEdges(p) /\ Visible(e, pl.retained)
    BY <1>10, <2>1 DEF AllEdges, Visible
  <2>7. e \in followed
    BY <2>5, <2>6 DEF p
  <2> QED BY <1>8, <2>7
<1> QED BY <1>5, <1>9, <1>10 DEF Orphan, S, p, permitted

\* So does the compiler's view of the rewritten source.
LEMMA ReducedKept ==
  ASSUME NEW q, WellFormed(q), OutputAbove(q, q.expansions)
  PROVE  /\ ~Orphan(q, ReducedSelected(q))
         /\ ReducedSelected(q) \cap Expansion \subseteq q.expansions \ q.outputless
<1> DEFINE followed == {e \in AllEdges(q) : e.to \notin q.outputless}
           seeds    == q.definitions \cup q.roots
           all      == (q.definitions \cup q.expansions \cup q.others) \ q.outputless
           T        == Reach(followed, seeds)
<1>1. /\ q.definitions \subseteq Definition /\ q.expansions \subseteq Expansion
      /\ q.others \subseteq Other /\ q.roots \subseteq q.definitions \cup q.others
      /\ q.outputless \subseteq Expansion
      /\ \A x \in q.expansions : q.parent[x] \in q.expansions \cup {None}
  BY DEF WellFormed, Program
<1>2. ReducedSelected(q) = T
  BY DEF ReducedSelected, ReducedSeeds
<1>3. \A e \in followed : e.to \in all /\ e.to \in Node
  BY GraphEdges DEF Edge
<1>4. seeds \subseteq all /\ seeds \in SUBSET Node
  BY <1>1, NodeAssumption DEF Node
<1>5. T \subseteq all
  <2> HIDE DEF followed, seeds, all
  <2> QED BY <1>3, <1>4, ReachWithin
<1>6. \A e \in followed : e.from \in T => e.to \in T
  <2> HIDE DEF followed, seeds
  <2> QED BY <1>3, <1>4, ReachClosed
<1> HIDE DEF T
<1>7. ASSUME NEW x \in T \cap Expansion, q.parent[x] # None
      PROVE  q.parent[x] \in T
  <2>1. x \in q.expansions /\ x \notin q.outputless
    BY <1>1, <1>5, NodeAssumption
  <2>2. q.parent[x] \notin q.outputless
    BY <2>1 DEF OutputAbove
  <2> DEFINE e == [name |-> "Parent", collection |-> "neither", ordinal |-> 0, from |-> x,
                   to |-> q.parent[x], sites |-> {}]
  <2>3. e \in AllEdges(q)
    BY <1>7, <2>1 DEF AllEdges
  <2>4. e \in followed
    BY <2>2, <2>3
  <2> QED BY <1>6, <2>4
<1> QED BY <1>1, <1>2, <1>5, <1>7, NodeAssumption DEF Orphan

-----------------------------------------------------------------------------
\* Parents within H that come to an end.
Forest(parent, H) ==
  /\ \A x \in H : parent[x] \in H \cup {None}
  /\ \A S \in SUBSET H : S # {} => \E x \in S : parent[x] \notin S

Step(parent, leaf, f, x) == Append(IF parent[x] = None THEN <<>> ELSE f[parent[x]], leaf[x])

\* f is the keys on U, a set that parents do not leave.
KeysOn(parent, leaf, f, U) ==
  \A x \in U : /\ parent[x] # None => parent[x] \in U
              /\ f[x] = Step(parent, leaf, f, x)

\* Two sets of keys agree where both are defined.
LEMMA KeysAgree ==
  ASSUME NEW parent, NEW leaf, NEW H, Forest(parent, H), NEW U \in SUBSET H, NEW V \in SUBSET H,
         NEW f, NEW g, KeysOn(parent, leaf, f, U), KeysOn(parent, leaf, g, V)
  PROVE  \A x \in U \cap V : f[x] = g[x]
<1> DEFINE F == {x \in U \cap V : f[x] # g[x]}
<1> SUFFICES ASSUME F # {} PROVE FALSE
  OBVIOUS
<1>1. PICK x \in F : parent[x] \notin F
  BY DEF Forest
<1>2. /\ parent[x] # None => parent[x] \in U \cap V
      /\ f[x] = Step(parent, leaf, f, x) /\ g[x] = Step(parent, leaf, g, x)
  BY DEF KeysOn
<1>3. CASE parent[x] = None
  BY <1>1, <1>2, <1>3 DEF Step
<1>4. CASE parent[x] # None
  BY <1>1, <1>2, <1>4 DEF Step
<1> QED BY <1>3, <1>4

\* Every expansion has keys on a set around it.
LEMMA KeysSomewhere ==
  ASSUME NEW parent, NEW leaf, NEW H, Forest(parent, H), NEW x \in H
  PROVE  \E U \in SUBSET H : x \in U /\ \E f : KeysOn(parent, leaf, f, U)
<1> DEFINE Good(y) == \E U \in SUBSET H : y \in U /\ \E f : KeysOn(parent, leaf, f, U)
           F == {y \in H : ~Good(y)}
<1> SUFFICES ASSUME F # {} PROVE FALSE
  OBVIOUS
<1>1. PICK y \in F : parent[y] \notin F
  BY DEF Forest
<1>2. \E U \in SUBSET H : /\ parent[y] # None => parent[y] \in U
                         /\ \E f : KeysOn(parent, leaf, f, U)
  <2>1. CASE parent[y] = None
    <3>1. KeysOn(parent, leaf, <<>>, {})
      BY DEF KeysOn
    <3> QED BY <2>1, <3>1
  <2>2. CASE parent[y] # None
    <3>1. Good(parent[y])
      BY <1>1, <2>2 DEF Forest
    <3> QED BY <3>1
  <2> QED BY <2>1, <2>2
<1>3. PICK U \in SUBSET H : /\ parent[y] # None => parent[y] \in U
                            /\ \E f : KeysOn(parent, leaf, f, U)
  BY <1>2
<1>4. PICK f : KeysOn(parent, leaf, f, U)
  BY <1>3
<1>5. y \notin U
  BY <1>4
<1> DEFINE W == U \cup {y}
           g == [z \in W |-> IF z = y THEN Step(parent, leaf, f, y) ELSE f[z]]
<1>6. ASSUME NEW z \in W
      PROVE  /\ parent[z] # None => parent[z] \in W /\ g[parent[z]] = f[parent[z]]
             /\ g[z] = Step(parent, leaf, f, z)
  <2>1. CASE z = y
    BY <1>3, <1>5, <2>1
  <2>2. CASE z # y
    BY <1>4, <1>5, <2>2 DEF KeysOn
  <2> QED BY <2>1, <2>2
<1> HIDE DEF g
<1>7. \A z \in W : g[z] = Step(parent, leaf, g, z)
  BY <1>6 DEF Step
<1>8. KeysOn(parent, leaf, g, W)
  BY <1>6, <1>7 DEF KeysOn
<1>9. W \in SUBSET H /\ y \in W
  OBVIOUS
<1> HIDE DEF W
<1> QED BY <1>8, <1>9

\* A key is that of the parent with the leaf of the expansion itself.
LEMMA KeysEquation ==
  ASSUME NEW parent, NEW leaf, Forest(parent, DOMAIN leaf), NEW x \in DOMAIN leaf
  PROVE  KeysOf(parent, leaf)[x] =
           Append(IF parent[x] = None THEN <<>> ELSE KeysOf(parent, leaf)[parent[x]], leaf[x])
<1> DEFINE H == DOMAIN leaf
           once(f) == [y \in H |-> Step(parent, leaf, f, y)]
           key == CHOOSE f : f = once(f)
           place(y) == CHOOSE U \in SUBSET H : y \in U /\ \E f : KeysOn(parent, leaf, f, U)
           part(y) == CHOOSE f : KeysOn(parent, leaf, f, place(y))
           G == [y \in H |-> part(y)[y]]
<1>1. KeysOf(parent, leaf) = key
  BY DEF KeysOf, Step
<1>2. \A y \in H : place(y) \in SUBSET H /\ y \in place(y) /\ KeysOn(parent, leaf, part(y), place(y))
  <2>1. ASSUME NEW y \in H
        PROVE  /\ place(y) \in SUBSET H /\ y \in place(y)
               /\ \E f : KeysOn(parent, leaf, f, place(y))
    <3>1. \E U \in SUBSET H : y \in U /\ \E f : KeysOn(parent, leaf, f, U)
      BY KeysSomewhere
    <3> QED BY <3>1
  <2> HIDE DEF place
  <2> QED BY <2>1
<1> HIDE DEF place, part
<1>3. G = once(G)
  <2>1. ASSUME NEW y \in H
        PROVE  G[y] = Step(parent, leaf, G, y)
    <3>1. /\ parent[y] # None => parent[y] \in place(y)
          /\ part(y)[y] = Step(parent, leaf, part(y), y)
      BY <1>2 DEF KeysOn
    <3>2. CASE parent[y] = None
      BY <3>1, <3>2 DEF Step
    <3>3. CASE parent[y] # None
      <4>1. parent[y] \in place(y) /\ parent[y] \in H
        BY <1>2, <3>1, <3>3
      <4>2. parent[y] \in place(y) \cap place(parent[y])
        BY <1>2, <4>1
      <4>3. part(y)[parent[y]] = part(parent[y])[parent[y]]
        <5>1. /\ KeysOn(parent, leaf, part(y), place(y))
              /\ KeysOn(parent, leaf, part(parent[y]), place(parent[y]))
              /\ place(y) \in SUBSET H /\ place(parent[y]) \in SUBSET H
          BY <1>2, <4>1
        <5> HIDE DEF H
        <5> QED BY <4>2, <5>1, KeysAgree DEF H
      <4> QED BY <3>1, <4>1, <4>3 DEF Step
    <3> QED BY <3>2, <3>3
  <2> QED BY <2>1
<1>4. key = once(key)
  <2> HIDE DEF once, G
  <2> QED BY <1>3
<1>5. key[x] = Step(parent, leaf, key, x)
  <2> HIDE DEF key
  <2> QED BY <1>4
<1> HIDE DEF key
<1> QED BY <1>1, <1>5 DEF Step

-----------------------------------------------------------------------------
\* A larger value has more values below it.
LEMMA MoreBelow ==
  ASSUME NEW G, IsFiniteSet(G), NEW f, \A z \in G : f[z] \in Nat, NEW x \in G
  PROVE  /\ Cardinality({z \in G : f[z] < f[x]}) \in Nat
         /\ \A y \in G : f[y] < f[x] =>
              Cardinality({z \in G : f[z] < f[y]}) < Cardinality({z \in G : f[z] < f[x]})
<1> DEFINE B(y) == {z \in G : f[z] < f[y]}
<1>1. \A y \in G : IsFiniteSet(B(y)) /\ Cardinality(B(y)) \in Nat
  BY FS_Subset, FS_CardinalityType
<1>2. ASSUME NEW y \in G, f[y] < f[x]
      PROVE  Cardinality(B(y)) < Cardinality(B(x))
  <2>1. B(y) \in SUBSET B(x) /\ y \in B(x) /\ y \notin B(y)
    BY <1>2
  <2> HIDE DEF B
  <2>2. Cardinality(B(y)) <= Cardinality(B(x)) /\ Cardinality(B(y)) # Cardinality(B(x))
    BY <1>1, <2>1, FS_Subset
  <2> QED BY <1>1, <2>2
<1> QED BY <1>1, <1>2

\* So that distinct values are told apart by how many are below them.
LEMMA CountsDiffer ==
  ASSUME NEW G, IsFiniteSet(G), NEW f, \A z \in G : f[z] \in Nat, NEW x \in G, NEW y \in G,
         Cardinality({z \in G : f[z] < f[x]}) = Cardinality({z \in G : f[z] < f[y]})
  PROVE  f[x] = f[y]
<1> DEFINE n(w) == Cardinality({z \in G : f[z] < f[w]})
<1>1. \A w \in G : n(w) \in Nat /\ \A v \in G : f[v] < f[w] => n(v) < n(w)
  BY MoreBelow
<1>2. n(x) = n(y)
  OBVIOUS
<1> HIDE DEF n
<1> QED BY <1>1, <1>2

Canonical(f) == Full(f) /\ IsInjective(f)

\* Which evidence is taken.
Chosen(group, direct, subtree, use, ranks) ==
  CASE Cardinality(group) = 1 \/ Canonical(direct) -> direct
    [] Empty(direct) /\ Canonical(subtree) -> subtree
    [] Empty(direct) /\ Empty(subtree) /\ Canonical(use) -> use
    [] /\ Empty(direct) /\ Empty(subtree) /\ ~Canonical(use)
       /\ Empty(use) \/ Full(use)
       /\ IsInjective(ranks) -> ranks
    [] OTHER -> [x \in {} |-> 0]

Direct(p, selected, group) == [x \in group |-> SetCode(GeneratedBy(p, selected, x))]
Subtree(p, selected, group) == [x \in group |-> SetCode(GeneratedBySubtree(p, selected, x))]
Use(p, selected, retained, group) == [x \in group |-> SetCode(ExpansionUse(p, selected, retained, x))]
Ranks(p, selected, group) == Restrict(SubtreeRanks(p, selected), group)

\* Evidence is one of the four that are collected, or none.
LEMMA EvidenceChosen ==
  ASSUME NEW p, NEW selected, NEW retained, NEW group
  PROVE  Evidence(p, selected, retained, group) =
           Chosen(group, Direct(p, selected, group), Subtree(p, selected, group),
                  Use(p, selected, retained, group), Ranks(p, selected, group))
BY DEF Evidence, Chosen, Canonical, Direct, Subtree, Use, Ranks

\* What is chosen is one of them if anything is.
LEMMA ChosenOne ==
  ASSUME NEW group, NEW direct, NEW subtree, NEW use, NEW ranks
  PROVE  LET e == Chosen(group, direct, subtree, use, ranks)
         IN  \/ e = direct /\ (Cardinality(group) = 1 \/ IsInjective(direct))
             \/ e = subtree /\ IsInjective(subtree)
             \/ e = use /\ IsInjective(use)
             \/ e = ranks /\ IsInjective(ranks)
             \/ /\ e = [x \in {} |-> 0]
                /\ ~(Cardinality(group) = 1 \/ Canonical(direct))
BY DEF Chosen, Canonical

\* Ranks are numbers: how many codes of the same level are smaller.
LEMMA RanksAreNumbers ==
  ASSUME NEW shape, IsFiniteSet(DOMAIN shape), NEW x \in DOMAIN shape
  PROVE  RanksOf(shape)[x] \in Nat
<1> DEFINE level(d) == {y \in DOMAIN shape : shape[y].depth = d}
           rank(code, d, w) == Cardinality({code[y] : y \in {z \in level(d) : code[z] < code[w]}})
<1>1. ASSUME NEW code, NEW d, NEW w
      PROVE  rank(code, d, w) \in Nat
  <2> DEFINE Z == {z \in level(d) : code[z] < code[w]}
             f == [y \in Z |-> code[y]]
             I == {code[y] : y \in Z}
  <2>1. IsFiniteSet(Z)
    BY FS_Subset
  <2>2. f \in Surjection(Z, I)
    BY DEF Surjection
  <2> HIDE DEF Z, I, f
  <2>3. IsFiniteSet(I)
    BY <2>1, <2>2, FS_Surjection
  <2> QED BY <2>3, FS_CardinalityType DEF I, Z
<1> HIDE DEF rank
<1>2. \E code : RanksOf(shape) = [w \in DOMAIN shape |-> rank(code[w], shape[w].depth, w)]
  <2> DEFINE all[d \in 1..(Cardinality(Expansion) + 1)] ==
               [w \in level(d) |->
                  shape[w].role
                    + 4 * MapThenSumSet(LAMBDA y : 5^rank(all[d + 1], d + 1, y), shape[w].children)]
  <2>1. RanksOf(shape) = [w \in DOMAIN shape |-> rank(all[shape[w].depth], shape[w].depth, w)]
    BY DEF RanksOf, rank
  <2> HIDE DEF all
  <2> DEFINE code == [w \in DOMAIN shape |-> all[shape[w].depth]]
  <2>2. RanksOf(shape) = [w \in DOMAIN shape |-> rank(code[w], shape[w].depth, w)]
    BY <2>1
  <2> QED BY <2>2
<1>3. PICK code : RanksOf(shape) = [w \in DOMAIN shape |-> rank(code[w], shape[w].depth, w)]
  BY <1>2
<1> QED BY <1>1, <1>3

\* Only definitions use and generate expansions.
LEMMA UsersAreDefinitions ==
  ASSUME NEW p, WellFormed(p), NEW selected, NEW retained
  PROVE  /\ \A name : \A x \in Expansion :
              UsersOf(p, name, selected, retained, x) \in SUBSET Definition
         /\ \A x \in Expansion : /\ GeneratedBy(p, selected, x) \in SUBSET Definition
                                 /\ GeneratedBySubtree(p, selected, x) \in SUBSET Definition
                                 /\ ExpansionUse(p, selected, retained, x) \in SUBSET Definition
<1>1. ASSUME NEW name, NEW x \in Expansion, NEW units
      PROVE  UsersOf(p, name, selected, units, x) \in SUBSET Definition
  BY DEF UsersOf, WellFormed
<1>2. \A x \in Expansion : GeneratedBy(p, selected, x) \in SUBSET Definition
  BY <1>1 DEF GeneratedBy
<1>3. \A x \in Expansion : GeneratedBySubtree(p, selected, x) \in SUBSET Definition
  BY <1>2 DEF GeneratedBySubtree
<1>4. \A x \in Expansion : ExpansionUse(p, selected, retained, x) \in SUBSET Definition
  BY <1>1 DEF ExpansionUse
<1> QED BY <1>1, <1>2, <1>3, <1>4

\* Evidence that covers a group tells its members apart.
LEMMA EvidenceOrders ==
  ASSUME NEW p, WellFormed(p), NEW selected \in SUBSET Node, NEW retained,
         NEW group \in SUBSET (selected \cap Expansion), group # {},
         DOMAIN Evidence(p, selected, retained, group) = group
  PROVE  LET e == Evidence(p, selected, retained, group)
         IN  /\ \A x \in group : e[x] \in Nat
             /\ \A x, y \in group : e[x] = e[y] => x = y
<1> DEFINE e       == Evidence(p, selected, retained, group)
           direct  == Direct(p, selected, group)
           subtree == Subtree(p, selected, group)
           use     == Use(p, selected, retained, group)
           ranks   == Ranks(p, selected, group)
<1>1. IsFiniteSet(selected \cap Expansion) /\ IsFiniteSet(group)
  BY NodeAssumption, FS_Subset
<1>2. direct \in [group -> Nat] /\ subtree \in [group -> Nat] /\ use \in [group -> Nat]
  BY UsersAreDefinitions, OrderAssumption DEF Direct, Subtree, Use
<1>3. ranks \in [group -> Nat]
  <2> DEFINE shape == [x \in selected \cap Expansion |->
                         [depth |-> Depth(p, x), role |-> p.role[x],
                          children |-> Children(p, x) \cap selected]]
  <2>1. DOMAIN shape = selected \cap Expansion /\ SubtreeRanks(p, selected) = RanksOf(shape)
    BY DEF SubtreeRanks
  <2> HIDE DEF shape
  <2>2. \A x \in group : SubtreeRanks(p, selected)[x] \in Nat
    BY <1>1, <2>1, RanksAreNumbers
  <2> QED BY <2>2 DEF Ranks, Restrict
<1>4. e = Chosen(group, direct, subtree, use, ranks)
  BY EvidenceChosen
<1> HIDE DEF e, direct, subtree, use, ranks
<1>5. \/ e = direct /\ (Cardinality(group) = 1 \/ IsInjective(direct))
      \/ e = subtree /\ IsInjective(subtree)
      \/ e = use /\ IsInjective(use)
      \/ e = ranks /\ IsInjective(ranks)
      \/ e = [x \in {} |-> 0]
  BY <1>4, ChosenOne
<1>6. e \in [group -> Nat] /\ (Cardinality(group) = 1 \/ IsInjective(e))
  <2>1. DOMAIN e = group
    BY DEF e
  <2>2. e # [x \in {} |-> 0]
    BY <2>1
  <2> QED BY <1>2, <1>3, <1>5, <2>2
<1>7. CASE IsInjective(e)
  BY <1>6, <1>7 DEF IsInjective, e
<1>8. CASE Cardinality(group) = 1
  <2>1. \E w : group = {w}
    BY <1>1, <1>8, FS_Singleton
  <2> QED BY <1>6, <2>1 DEF e
<1> QED BY <1>6, <1>7, <1>8

\* What is appended, and to what, can be read off the result.
LEMMA AppendsDiffer ==
  ASSUME NEW R, NEW s \in Seq(R), NEW t \in Seq(R), NEW a \in R, NEW b \in R,
         Append(s, a) = Append(t, b)
  PROVE  s = t /\ a = b
<1>1. Len(s) \in Nat /\ Len(t) \in Nat /\ Len(s) + 1 = Len(t) + 1
  BY LenProperties, AppendProperties
<1>2. Len(s) = Len(t)
  BY <1>1
<1>3. \A i \in 1..Len(s) : s[i] = t[i]
  BY <1>1, <1>2, AppendProperties
<1>4. s = t
  BY <1>2, <1>3, SeqEqual
<1>5. a = b
  BY <1>1, <1>2, AppendProperties
<1> QED BY <1>4, <1>5

\* The ordinal without outputless siblings counts the siblings with output before
\* it; it is never reduced by more than there are.
LEMMA FilteredCount ==
  ASSUME NEW p, WellFormed(p), Collected(p), NEW x \in p.expansions
  PROVE  FilteredOrdinal(p, x) =
           Cardinality({y \in Siblings(p, x) \ p.outputless : p.ordinal[y] < p.ordinal[x]})
<1> DEFINE before == {y \in Siblings(p, x) : p.ordinal[y] < p.ordinal[x]}
           silent == {y \in Siblings(p, x) \cap p.outputless : p.ordinal[y] < p.ordinal[x]}
           loud   == {y \in Siblings(p, x) \ p.outputless : p.ordinal[y] < p.ordinal[x]}
<1>1. IsFiniteSet(before)
  <2>1. before \subseteq Node
    BY DEF Siblings, WellFormed, Program, Node
  <2> QED BY <2>1, NodeAssumption, FS_Subset
<1>2. p.ordinal[x] = Cardinality(before)
  BY DEF Collected
<1>3. before \ p.outputless = loud /\ before \cap p.outputless = silent
  OBVIOUS
<1>4. Cardinality(loud) = Cardinality(before) - Cardinality(silent)
  BY <1>1, <1>3, FS_Difference
<1>5. FilteredOrdinal(p, x) = p.ordinal[x] - Cardinality(silent)
  BY DEF FilteredOrdinal
<1> QED BY <1>2, <1>4, <1>5

\* Snapshot ordinals tell siblings apart.
LEMMA SnapshotOrdinals ==
  ASSUME NEW p, WellFormed(p), Collected(p), NEW S \in SUBSET Node, NEW retained,
         S \cap Expansion \subseteq p.expansions \ p.outputless, NEW x \in S \cap Expansion
  PROVE  /\ SnapshotOrdinal(p, S, retained, x) \in Nat
         /\ \A y \in Siblings(p, x) \cap S :
              SnapshotOrdinal(p, S, retained, y) = SnapshotOrdinal(p, S, retained, x) => x = y
<1> DEFINE group    == Siblings(p, x) \cap S
           evidence == Evidence(p, S, retained, group)
           full     == Siblings(p, x) \ p.outputless
           o        == p.ordinal
           n(w)     == SnapshotOrdinal(p, S, retained, w)
<1>1. /\ p.expansions \subseteq Expansion /\ \A y \in p.expansions : o[y] \in Nat
      /\ \A w \in p.expansions : \A y \in Siblings(p, w) : o[w] = o[y] => w = y
  BY DEF WellFormed, Program
<1>2. x \in group /\ group \subseteq full /\ group \subseteq S \cap Expansion /\ full \subseteq p.expansions
  BY <1>1 DEF Siblings
<1>3. \A y \in full : Siblings(p, y) = Siblings(p, x)
  BY DEF Siblings
<1>4. \A y \in group : n(y) = IF DOMAIN evidence = group
                              THEN Cardinality({z \in group : evidence[z] < evidence[y]})
                              ELSE FilteredOrdinal(p, y)
  BY <1>2, <1>3 DEF SnapshotOrdinal
<1>5. IsFiniteSet(group) /\ IsFiniteSet(full)
  <2>1. p.expansions \subseteq Node
    BY <1>1 DEF Node
  <2> QED BY <1>2, <2>1, NodeAssumption, FS_Subset
<1> HIDE DEF n
<1>6. CASE DOMAIN evidence = group
  <2>1. (\A y \in group : evidence[y] \in Nat) /\ \A y, z \in group : evidence[y] = evidence[z] => y = z
    BY <1>2, <1>6, EvidenceOrders
  <2> HIDE DEF evidence, group
  <2>2. n(x) \in Nat
    <3>1. Cardinality({z \in group : evidence[z] < evidence[x]}) \in Nat
      BY <1>2, <1>5, <2>1, MoreBelow
    <3> QED BY <1>2, <1>4, <1>6, <3>1
  <2>3. ASSUME NEW y \in group, n(y) = n(x)
        PROVE  x = y
    <3>1. Cardinality({z \in group : evidence[z] < evidence[y]})
            = Cardinality({z \in group : evidence[z] < evidence[x]})
      BY <1>2, <1>4, <1>6, <2>3
    <3>2. evidence[y] = evidence[x]
      BY <1>2, <1>5, <2>1, <3>1, CountsDiffer
    <3> QED BY <1>2, <2>1, <3>2
  <2> QED BY <2>2, <2>3 DEF n, group
<1>7. CASE DOMAIN evidence # group
  <2>1. \A y \in group : n(y) = Cardinality({z \in full : o[z] < o[y]})
    BY <1>2, <1>3, <1>4, <1>7, FilteredCount
  <2>2. \A y \in full : o[y] \in Nat
    BY <1>1, <1>2
  <2>3. \A y \in full : o[x] = o[y] => x = y
    BY <1>1, <1>2, <1>3
  <2> HIDE DEF group, full, o
  <2>4. n(x) \in Nat
    <3>1. Cardinality({z \in full : o[z] < o[x]}) \in Nat
      BY <1>2, <1>5, <2>2, MoreBelow
    <3> QED BY <1>2, <2>1, <3>1
  <2>5. ASSUME NEW y \in group, n(y) = n(x)
        PROVE  x = y
    <3>1. Cardinality({z \in full : o[z] < o[y]}) = Cardinality({z \in full : o[z] < o[x]})
      BY <1>2, <2>1, <2>5
    <3>2. o[y] = o[x]
      BY <1>2, <1>5, <2>2, <3>1, CountsDiffer
    <3> QED BY <1>2, <2>3, <3>2
  <2> QED BY <2>4, <2>5 DEF n, group
<1> QED BY <1>6, <1>7

\* Keys are sequences of roles and ordinals, and no two expansions have the same.
LEMMA ExpansionKeysDiffer ==
  ASSUME NEW p, WellFormed(p), Collected(p), NEW S \in SUBSET Node, NEW retained,
         ~Orphan(p, S), S \cap Expansion \subseteq p.expansions \ p.outputless
  PROVE  LET keys == ExpansionKeys(p, S, retained)
         IN  /\ \A x \in S \cap Expansion :
                  keys[x] \in Seq(Nat \X Nat) /\ keys[x] # <<>>
                    /\ \A n : keys[x] # <<<<0, n>>>>
             /\ \A x, y \in S \cap Expansion : keys[x] = keys[y] => x = y
<1> DEFINE X      == S \cap Expansion
           ord(x) == SnapshotOrdinal(p, S, retained, x)
           parent == [x \in X |-> p.parent[x]]
           leaf   == [x \in X |-> <<p.role[x], ord(x)>>]
           keys   == KeysOf(parent, leaf)
           above(x) == IF p.parent[x] = None THEN <<>> ELSE keys[p.parent[x]]
           Good(x) == keys[x] \in Seq(Nat \X Nat)
<1>1. ExpansionKeys(p, S, retained) = keys
  BY DEF ExpansionKeys
<1>2. /\ X \subseteq p.expansions
      /\ \A T \in SUBSET p.expansions : T # {} => \E x \in T : p.parent[x] \notin T
      /\ \A x \in p.expansions : p.parent[x] \in Expansion \cup {None}
      /\ \A x \in p.expansions : p.role[x] \in 1..2
  BY DEF WellFormed, Program
<1>3. \A x \in X : p.parent[x] \in X \cup {None}
  BY <1>2 DEF Orphan
<1>4. /\ \A x \in X : ord(x) \in Nat
      /\ \A x \in X : \A y \in Siblings(p, x) \cap S : ord(y) = ord(x) => x = y
  BY SnapshotOrdinals
<1>5. \A x \in X : leaf[x] \in Nat \X Nat /\ leaf[x][1] # 0
  BY <1>2, <1>4
<1> HIDE DEF ord
<1>6. \A x \in X : keys[x] = Append(above(x), leaf[x])
  <2>1. DOMAIN leaf = X /\ \A x \in X : parent[x] = p.parent[x]
    OBVIOUS
  <2>2. Forest(parent, X)
    BY <1>2, <1>3 DEF Forest
  <2> HIDE DEF parent, leaf, X
  <2> QED BY <2>1, <2>2, KeysEquation
<1> HIDE DEF keys, X, leaf
<1>7. \A x \in X : Good(x)
  <2> DEFINE F == {x \in X : ~Good(x)}
  <2> SUFFICES ASSUME F # {} PROVE FALSE
    OBVIOUS
  <2>1. PICK x \in F : p.parent[x] \notin F
    BY <1>2
  <2>2. above(x) \in Seq(Nat \X Nat)
    BY <1>3, <2>1
  <2>3. keys[x] = Append(above(x), leaf[x]) /\ leaf[x] \in Nat \X Nat
    BY <1>5, <1>6
  <2> HIDE DEF above
  <2>4. keys[x] \in Seq(Nat \X Nat)
    BY <2>2, <2>3
  <2> QED BY <2>4
<1>8. \A x \in X : above(x) \in Seq(Nat \X Nat)
  BY <1>3, <1>7
<1> HIDE DEF above
<1>9. ASSUME NEW x \in X
      PROVE  keys[x] # <<>> /\ \A n : keys[x] # <<<<0, n>>>>
  <2>1. keys[x] = Append(above(x), leaf[x]) /\ above(x) \in Seq(Nat \X Nat)
        /\ leaf[x] \in Nat \X Nat /\ leaf[x][1] # 0
    BY <1>5, <1>6, <1>8
  <2>2. Len(keys[x]) = Len(above(x)) + 1 /\ keys[x][Len(above(x)) + 1] = leaf[x] /\ Len(above(x)) \in Nat
    BY <2>1
  <2>3. keys[x] # <<>>
    BY <2>2
  <2>4. ASSUME NEW n, keys[x] = <<<<0, n>>>>
        PROVE  FALSE
    <3>1. Len(<<<<0, n>>>>) = 1 /\ <<<<0, n>>>>[1] = <<0, n>>
      OBVIOUS
    <3>2. Len(above(x)) = 0
      BY <2>2, <2>4, <3>1
    <3>3. leaf[x] = <<0, n>>
      BY <2>2, <2>4, <3>1, <3>2
    <3> QED BY <2>1, <3>3
  <2> QED BY <2>3, <2>4
<1>10. ASSUME NEW x \in X, NEW y \in X, keys[x] = keys[y]
       PROVE  above(x) = above(y) /\ leaf[x] = leaf[y]
  <2>1. /\ keys[x] = Append(above(x), leaf[x]) /\ above(x) \in Seq(Nat \X Nat) /\ leaf[x] \in Nat \X Nat
        /\ keys[y] = Append(above(y), leaf[y]) /\ above(y) \in Seq(Nat \X Nat) /\ leaf[y] \in Nat \X Nat
    BY <1>5, <1>6, <1>8
  <2>2. Append(above(x), leaf[x]) = Append(above(y), leaf[y])
    BY <1>10, <2>1
  <2> DEFINE R == Nat \X Nat
  <2>3. above(x) \in Seq(R) /\ above(y) \in Seq(R) /\ leaf[x] \in R /\ leaf[y] \in R
    BY <2>1
  <2> HIDE DEF R
  <2> QED BY <2>2, <2>3, AppendsDiffer
<1>11. \A x, y \in X : keys[x] = keys[y] => x = y
  <2> DEFINE F == {x \in X : \E y \in X : keys[x] = keys[y] /\ x # y}
  <2> SUFFICES ASSUME F # {} PROVE FALSE
    OBVIOUS
  <2>1. PICK x \in F : p.parent[x] \notin F
    BY <1>2
  <2>2. PICK y \in X : keys[x] = keys[y] /\ x # y
    OBVIOUS
  <2>3. above(x) = above(y) /\ leaf[x] = leaf[y]
    BY <1>10, <2>2
  <2>4. p.parent[x] = p.parent[y]
    <3>1. CASE p.parent[x] = None \/ p.parent[y] = None
      BY <1>3, <1>9, <2>3, <3>1 DEF above
    <3>2. CASE p.parent[x] # None /\ p.parent[y] # None
      <4>1. keys[p.parent[x]] = keys[p.parent[y]]
        BY <2>3, <3>2 DEF above
      <4> QED BY <1>3, <2>1, <3>2, <4>1
    <3> QED BY <3>1, <3>2
  <2>5. <<p.role[x], ord(x)>> = <<p.role[y], ord(y)>>
    BY <2>3 DEF leaf
  <2>6. p.role[x] = p.role[y] /\ ord(x) = ord(y)
    BY <2>5
  <2>7. y \in Siblings(p, x) \cap S
    BY <1>2, <2>4, <2>6 DEF Siblings, X
  <2> QED BY <1>4, <2>2, <2>6, <2>7
<1> HIDE DEF Good
<1> QED BY <1>1, <1>7, <1>9, <1>11 DEF Good, X

\* snapshot returns no error: its keys are distinct sequences of numbers.
LEMMA Builds ==
  ASSUME NEW p, WellFormed(p), Collected(p), NEW S \in SUBSET Node, NEW retained,
         ~Orphan(p, S), p.roots \subseteq S,
         S \cap Expansion \subseteq p.expansions \ p.outputless
  PROVE  /\ Build(p, S, retained).ok
         /\ \A n \in Build(p, S, retained).nodes : n[1] \in Seq(Nat \X Nat)
<1> DEFINE keys == ExpansionKeys(p, S, retained)
           names == {NodeKey(keys, n) : n \in S}
           f == [n \in S |-> NodeKey(keys, n)]
<1>1. /\ \A x \in S \cap Expansion : keys[x] \in Seq(Nat \X Nat) /\ \A n : keys[x] # <<<<0, n>>>>
      /\ \A x, y \in S \cap Expansion : keys[x] = keys[y] => x = y
  BY ExpansionKeysDiffer
<1> HIDE DEF keys
<1>2. \A n \in S : /\ n \in Expansion => NodeKey(keys, n) = keys[n]
                   /\ n \notin Expansion => NodeKey(keys, n) = <<<<0, n>>>>
  BY DEF NodeKey
<1>3. \A m, n \in S : NodeKey(keys, m) = NodeKey(keys, n) => m = n
  <2> SUFFICES ASSUME NEW m \in S, NEW n \in S, NodeKey(keys, m) = NodeKey(keys, n)
               PROVE  m = n
    OBVIOUS
  <2>1. CASE m \in Expansion /\ n \in Expansion
    BY <1>1, <1>2, <2>1
  <2>2. CASE m \notin Expansion /\ n \notin Expansion
    <3>1. <<<<0, m>>>> = <<<<0, n>>>>
      BY <1>2, <2>2
    <3> QED BY <3>1
  <2>3. CASE m \in Expansion /\ n \notin Expansion
    BY <1>1, <1>2, <2>3
  <2>4. CASE m \notin Expansion /\ n \in Expansion
    BY <1>1, <1>2, <2>4
  <2> QED BY <2>1, <2>2, <2>3, <2>4
<1>4. Cardinality(names) = Cardinality(S)
  <2>1. IsFiniteSet(S)
    BY NodeAssumption, FS_Subset
  <2>2. f \in Surjection(S, names)
    BY DEF Surjection
  <2>3. f \in Injection(S, names)
    BY <1>3 DEF Injection, IsInjective
  <2> HIDE DEF f, names
  <2> QED BY <2>1, <2>2, <2>3, FS_Surjection
<1>5. \A n \in S : NodeKey(keys, n) \in Seq(Nat \X Nat)
  <2> SUFFICES ASSUME NEW n \in S PROVE NodeKey(keys, n) \in Seq(Nat \X Nat)
    OBVIOUS
  <2>1. CASE n \in Expansion
    BY <1>1, <1>2, <2>1
  <2>2. CASE n \notin Expansion
    <3>1. <<0, n>> \in Nat \X Nat
      BY NodeAssumption
    <3> QED BY <1>2, <2>2, <3>1
  <2> QED BY <2>1, <2>2
<1> DEFINE roots == {NodeKey(keys, n) : n \in p.roots}
           nodes == {<<NodeKey(keys, n), NodeDecision(p, keys, n)>> : n \in S}
           seen  == {e \in AllEdges(p) : {e.from, e.to} \subseteq S /\ Visible(e, retained)}
           edges == UNION {Projected(SnapshotEdge(keys, e, retained)) : e \in seen}
           left  == UNION {Subsumed(edges, e) : e \in edges}
<1>6. Build(p, S, retained) =
        IF \/ Orphan(p, S) \/ ~(p.roots \subseteq S) \/ Cardinality(names) # Cardinality(S)
          THEN Failed
          ELSE [ok |-> TRUE, roots |-> roots, nodes |-> nodes, edges |-> left]
  BY DEF Build, Orphan, keys
<1>7. \A n \in nodes : n[1] \in Seq(Nat \X Nat)
  BY <1>5
<1> HIDE DEF names, roots, nodes, left
<1>8. Build(p, S, retained) = [ok |-> TRUE, roots |-> roots, nodes |-> nodes, edges |-> left]
  BY <1>4, <1>6
<1> QED BY <1>7, <1>8

\* original and reduced_excluding return no error.
LEMMA SnapshotsBuilt ==
  ASSUME NEW pl \in Plans
  PROVE  /\ OriginalSnapshot(pl) = Build(pl.program, OriginalSelected(pl), pl.retained)
         /\ OriginalSnapshot(pl).ok
         /\ \A n \in OriginalSnapshot(pl).nodes : n[1] \in Seq(Nat \X Nat)
         /\ \A q \in Candidates(pl) :
              /\ ReducedSnapshot(q).ok
              /\ \A n \in ReducedSnapshot(q).nodes : n[1] \in Seq(Nat \X Nat)
<1>1. WellFormed(pl.program) /\ Collected(pl.program)
  BY PlanAssumption
<1>2. /\ pl.program.roots \subseteq Permitted(pl)
      /\ ~Orphan(pl.program, OriginalSelected(pl))
      /\ OriginalSelected(pl) \cap Expansion \subseteq pl.program.expansions \ pl.program.outputless
  BY OriginalKept
<1>3. OriginalSelected(pl) \in SUBSET Node /\ pl.program.roots \subseteq OriginalSelected(pl)
  BY <1>2, OriginalNodes
<1>4. OriginalSnapshot(pl) = Build(pl.program, OriginalSelected(pl), pl.retained)
  BY <1>2 DEF OriginalSnapshot
<1>5. /\ Build(pl.program, OriginalSelected(pl), pl.retained).ok
      /\ \A n \in Build(pl.program, OriginalSelected(pl), pl.retained).nodes :
           n[1] \in Seq(Nat \X Nat)
  BY <1>1, <1>2, <1>3, Builds
<1>6. ASSUME NEW q \in Candidates(pl)
      PROVE  ReducedSnapshot(q).ok /\ \A n \in ReducedSnapshot(q).nodes : n[1] \in Seq(Nat \X Nat)
  <2>1. WellFormed(q) /\ Collected(q) /\ OutputAbove(q, q.expansions)
    BY PlanAssumption
  <2>2. /\ ~Orphan(q, ReducedSelected(q))
        /\ ReducedSelected(q) \cap Expansion \subseteq q.expansions \ q.outputless
    BY <2>1, ReducedKept
  <2>3. ReducedSelected(q) \in SUBSET Node /\ q.roots \subseteq ReducedSelected(q)
    BY <2>1, <2>2, ReducedNodes
  <2>4. /\ Build(q, ReducedSelected(q), Unit).ok
        /\ \A n \in Build(q, ReducedSelected(q), Unit).nodes : n[1] \in Seq(Nat \X Nat)
    BY <2>1, <2>2, <2>3, Builds
  <2> QED BY <2>4 DEF ReducedSnapshot
<1> QED BY <1>4, <1>5, <1>6

-----------------------------------------------------------------------------
Heard(p, S, retained) == AllNamed([x \in Expansion |-> x], p, S, retained)

\* The compiler decided the same about S in p and in q.
Agree(p, q, S, retained) ==
  /\ WellFormed(p) /\ Collected(p) /\ WellFormed(q) /\ Collected(q) /\ S \in SUBSET Node
  /\ S \cap Expansion \subseteq p.expansions \ p.outputless
  /\ S \cap Expansion \subseteq q.expansions \ q.outputless
  /\ ~Orphan(p, S) /\ ~Orphan(q, S)
  /\ \A x \in S \cap Expansion :
       p.role[x] = q.role[x] /\ Owner(p, x) = Owner(q, x) /\ p.parent[x] = q.parent[x]
  /\ \A n \in S \cap Other : p.decision[n] = q.decision[n]
  /\ Obligations(Heard(p, S, retained)) = Obligations(Heard(q, S, Unit))

\* Equal parents make equal lineages.
LEMMA LineagesAgree ==
  ASSUME NEW p, NEW q, NEW S, NEW retained, Agree(p, q, S, retained), NEW x \in S \cap Expansion
  PROVE  Lineage(p, x) = Lineage(q, x)
<1> DEFINE X == S \cap Expansion
<1>1. /\ WellFormed(p) /\ WellFormed(q) /\ X \subseteq p.expansions /\ X \subseteq q.expansions
      /\ \A y \in X : p.parent[y] = q.parent[y]
  BY DEF Agree
<1>2. \A y \in X : p.parent[y] # None => p.parent[y] \in X
  <2>1. \A y \in p.expansions : p.parent[y] \in Expansion \cup {None}
    BY <1>1 DEF WellFormed, Program
  <2> QED BY <1>1, <2>1 DEF Agree, Orphan
<1>3. Lineage(p, x) \subseteq X /\ Lineage(q, x) \subseteq X
  <2>1. Lineage(p, x) \subseteq X
    BY <1>1, <1>2, LineageWithin
  <2>2. \A y \in X : q.parent[y] # None => q.parent[y] \in X
    BY <1>1, <1>2
  <2>3. Lineage(q, x) \subseteq X
    BY <1>1, <2>2, LineageWithin
  <2> QED BY <2>1, <2>3
<1>4. x \in Lineage(p, x) /\ \A y \in Lineage(p, x) : p.parent[y] # None => p.parent[y] \in Lineage(p, x)
  BY <1>1, LineageUpward
<1>5. x \in Lineage(q, x) /\ \A y \in Lineage(q, x) : q.parent[y] # None => q.parent[y] \in Lineage(q, x)
  BY <1>1, LineageUpward
<1>6. Lineage(q, x) \subseteq Lineage(p, x)
  <2> DEFINE L == Lineage(p, x)
  <2>1. L \in SUBSET q.expansions /\ \A y \in L : q.parent[y] # None => q.parent[y] \in L
    BY <1>1, <1>3, <1>4
  <2>2. x \in L
    BY <1>4
  <2> HIDE DEF L
  <2>3. Lineage(q, x) \subseteq L
    BY <1>1, <2>1, <2>2, LineageWithin
  <2> QED BY <2>3 DEF L
<1>7. Lineage(p, x) \subseteq Lineage(q, x)
  <2> DEFINE L == Lineage(q, x)
  <2>1. L \in SUBSET p.expansions /\ \A y \in L : p.parent[y] # None => p.parent[y] \in L
    BY <1>1, <1>3, <1>5
  <2>2. x \in L
    BY <1>5
  <2> HIDE DEF L
  <2>3. Lineage(p, x) \subseteq L
    BY <1>1, <2>1, <2>2, LineageWithin
  <2> QED BY <2>3 DEF L
<1> QED BY <1>6, <1>7

\* Equal shapes have equal ranks.
LEMMA RanksAgree ==
  ASSUME NEW p, NEW q, NEW S, NEW retained, Agree(p, q, S, retained)
  PROVE  SubtreeRanks(p, S) = SubtreeRanks(q, S)
<1> DEFINE X == S \cap Expansion
           shape(r) == [x \in X |-> [depth |-> Depth(r, x), role |-> r.role[x],
                                     children |-> Children(r, x) \cap S]]
<1>1. \A x \in X : Depth(p, x) = Depth(q, x) /\ p.role[x] = q.role[x]
  BY LineagesAgree DEF Depth, Agree
<1>2. \A x \in X : Children(p, x) \cap S = Children(q, x) \cap S
  <2>1. /\ p.expansions \subseteq Expansion /\ q.expansions \subseteq Expansion
        /\ X \subseteq p.expansions /\ X \subseteq q.expansions
        /\ \A y \in X : p.parent[y] = q.parent[y]
    BY DEF Agree, WellFormed, Program
  <2> QED BY <2>1 DEF Children
<1>3. shape(p) = shape(q)
  BY <1>1, <1>2
<1>4. SubtreeRanks(p, S) = RanksOf(shape(p)) /\ SubtreeRanks(q, S) = RanksOf(shape(q))
  BY DEF SubtreeRanks
<1> HIDE DEF shape
<1> QED BY <1>3, <1>4

\* Expansions of one place under one parent are siblings on both sides.
LEMMA SiblingsAgree ==
  ASSUME NEW p, NEW q, NEW S, NEW retained, Agree(p, q, S, retained), NEW x \in S \cap Expansion
  PROVE  Siblings(p, x) \cap S = Siblings(q, x) \cap S
<1>1. /\ p.expansions \subseteq Expansion /\ q.expansions \subseteq Expansion
      /\ S \cap Expansion \subseteq p.expansions /\ S \cap Expansion \subseteq q.expansions
      /\ \A y \in S \cap Expansion : p.parent[y] = q.parent[y] /\ p.role[y] = q.role[y]
  BY DEF Agree, WellFormed, Program
<1> QED BY <1>1 DEF Siblings

\* Who uses or generates an expansion can be read off what is heard: a mention
\* hides behind a use by the same definition.
LEMMA UsersHeard ==
  ASSUME NEW p, WellFormed(p), NEW S \in SUBSET Node, NEW retained, NEW x \in S \cap Expansion,
         NEW name \in {"GeneratedBy", "ExpansionUse"}
  PROVE  UsersOf(p, name, S, retained, x) =
           {t[1] : t \in {u \in Obligations(Heard(p, S, retained)) : u[2] = x /\ u[3] = name}}
<1> DEFINE id    == [y \in Expansion |-> y]
           heard == Heard(p, S, retained)
           told(e, s) == <<e.from, e.to, e.name, e.collection, DependencyOrdinal(e), s>>
<1>1. ASSUME NEW e \in AllEdges(p), NEW s, e.name = name
      PROVE  Said(id, <<e, s>>) = told(e, s)
  <2>1. \A n : (IF n \in Expansion THEN id[n] ELSE n) = n
    OBVIOUS
  <2> HIDE DEF id
  <2> QED BY <1>1, <2>1 DEF Said
<1>2. \A t : t \in heard <=> \E e \in AllEdges(p) : /\ {e.from, e.to} \subseteq S
                                                   /\ \E s \in ObservedAt(e, retained) :
                                                        t = Said(id, <<e, s>>)
  <2>1. \A o : o \in Observations(p, S, retained) <=>
                 \E e \in AllEdges(p) : /\ {e.from, e.to} \subseteq S
                                        /\ \E s \in ObservedAt(e, retained) : o = <<e, s>>
    BY DEF Observations, ObservedAt, NoSite
  <2> HIDE DEF id
  <2>2. heard = {Said(id, o) : o \in Observations(p, S, retained)}
    BY DEF Heard, AllNamed, id
  <2> HIDE DEF heard
  <2> QED BY <2>1, <2>2
<1>3. \A e, s : (Said(id, <<e, s>>)[2] = (IF e.to \in Expansion THEN id[e.to] ELSE e.to))
                 /\ Said(id, <<e, s>>)[3] = e.name
  BY DEF Said
<1> HIDE DEF id, heard
<1>4. ASSUME NEW d \in UsersOf(p, name, S, retained, x)
      PROVE  \E t \in Obligations(heard) : t[1] = d /\ t[2] = x /\ t[3] = name
  <2>1. PICK e \in p.edges : /\ e.name = name /\ e.to = x /\ e.from \in S /\ Visible(e, retained)
                             /\ d = e.from
    BY DEF UsersOf
  <2>2. e \in AllEdges(p)
    BY DEF AllEdges
  <2>3. PICK s : s \in ObservedAt(e, retained)
    BY <2>1 DEF Visible, ObservedAt
  <2>4. told(e, s) \in heard
    BY <1>1, <1>2, <2>1, <2>2, <2>3
  <2> DEFINE u == <<e.from, e.to, e.name, "used", DependencyOrdinal(e), s>>
  <2>5. [told(e, s) EXCEPT ![4] = "used"] = u
    OBVIOUS
  <2>6. CASE told(e, s) \in Obligations(heard)
    BY <2>1, <2>6
  <2>7. CASE told(e, s) \notin Obligations(heard)
    <3>1. u \in heard
      BY <2>4, <2>5, <2>7 DEF Obligations
    <3>2. u \in Obligations(heard)
      BY <3>1 DEF Obligations
    <3> QED BY <2>1, <3>2
  <2> QED BY <2>6, <2>7
<1>5. ASSUME NEW t \in Obligations(heard), t[2] = x, t[3] = name
      PROVE  t[1] \in UsersOf(p, name, S, retained, x)
  <2>1. t \in heard
    BY DEF Obligations
  <2>2. PICK e \in AllEdges(p) : /\ {e.from, e.to} \subseteq S
                                 /\ \E s \in ObservedAt(e, retained) : t = Said(id, <<e, s>>)
    BY <1>2, <2>1
  <2>3. PICK s \in ObservedAt(e, retained) : t = Said(id, <<e, s>>)
    BY <2>2
  <2>4. e.name = name
    BY <1>3, <1>5, <2>3
  <2>5. t[1] = e.from /\ e.to = x
    BY <1>1, <1>5, <2>3, <2>4
  <2>6. e \in p.edges
    BY <2>4 DEF AllEdges
  <2>7. Visible(e, retained)
    BY <2>3 DEF Visible, ObservedAt
  <2> QED BY <2>2, <2>4, <2>5, <2>6, <2>7 DEF UsersOf
<1> QED BY <1>4, <1>5 DEF heard

\* Equal obligations leave nobody out.
LEMMA UsersAgree ==
  ASSUME NEW p, NEW q, NEW S, NEW retained, Agree(p, q, S, retained), NEW x \in S \cap Expansion
  PROVE  /\ GeneratedBy(p, S, x) = GeneratedBy(q, S, x)
         /\ GeneratedBySubtree(p, S, x) = GeneratedBySubtree(q, S, x)
         /\ ExpansionUse(p, S, retained, x) = ExpansionUse(q, S, Unit, x)
<1>1. /\ WellFormed(p) /\ Collected(p) /\ WellFormed(q) /\ S \in SUBSET Node
      /\ Obligations(Heard(p, S, retained)) = Obligations(Heard(q, S, Unit))
  BY DEF Agree
<1>2. ASSUME NEW y \in S \cap Expansion, NEW name \in {"GeneratedBy", "ExpansionUse"}
      PROVE  UsersOf(p, name, S, retained, y) = UsersOf(q, name, S, Unit, y)
  <2>1. UsersOf(p, name, S, retained, y) =
          {t[1] : t \in {u \in Obligations(Heard(p, S, retained)) : u[2] = y /\ u[3] = name}}
    BY <1>1, UsersHeard
  <2>2. UsersOf(q, name, S, Unit, y) =
          {t[1] : t \in {u \in Obligations(Heard(q, S, Unit)) : u[2] = y /\ u[3] = name}}
    BY <1>1, UsersHeard
  <2> QED BY <1>1, <2>1, <2>2
<1>3. \A y : UsersOf(p, "GeneratedBy", S, Unit, y) = UsersOf(p, "GeneratedBy", S, retained, y)
  BY <1>1 DEF UsersOf, Collected, Visible
<1>4. \A y \in S \cap Expansion : GeneratedBy(p, S, y) = GeneratedBy(q, S, y)
  BY <1>2, <1>3 DEF GeneratedBy
<1>5. \A y \in S \cap Expansion : Lineage(p, y) = Lineage(q, y)
  BY LineagesAgree
<1> QED BY <1>2, <1>4, <1>5 DEF GeneratedBySubtree, ExpansionUse

\* OrderKept and Witnessed, of any two programs.
OrderAgrees(p, q, X) ==
  \A x \in X :
    /\ Siblings(p, x) \ p.outputless = Siblings(q, x) \ q.outputless
    /\ \A y \in Siblings(q, x) \ q.outputless :
         (p.ordinal[y] < p.ordinal[x]) <=> (q.ordinal[y] < q.ordinal[x])

ToldApart(p, S) ==
  \A x, y \in S \cap Expansion :
    x # y /\ y \in Siblings(p, x) =>
      GeneratedBy(p, S, x) # {} /\ GeneratedBy(p, S, x) # GeneratedBy(p, S, y)

\* Enough for the same ordinals.
Placed(p, q, S) == OrderAgrees(p, q, S \cap Expansion) \/ ToldApart(p, S)

\* The same evidence about the siblings of an expansion.
LEMMA EvidenceAgrees ==
  ASSUME NEW p, NEW q, NEW S, NEW retained, Agree(p, q, S, retained),
         NEW group \in SUBSET (S \cap Expansion)
  PROVE  Evidence(p, S, retained, group) = Evidence(q, S, Unit, group)
<1>1. Direct(p, S, group) = Direct(q, S, group)
  BY UsersAgree DEF Direct
<1>2. Subtree(p, S, group) = Subtree(q, S, group)
  BY UsersAgree DEF Subtree
<1>3. Use(p, S, retained, group) = Use(q, S, Unit, group)
  BY UsersAgree DEF Use
<1>4. Ranks(p, S, group) = Ranks(q, S, group)
  <2>1. SubtreeRanks(p, S) = SubtreeRanks(q, S)
    BY RanksAgree
  <2> QED BY <2>1 DEF Ranks
<1>5. Evidence(p, S, retained, group) =
        Chosen(group, Direct(p, S, group), Subtree(p, S, group), Use(p, S, retained, group),
               Ranks(p, S, group))
  BY EvidenceChosen
<1>6. Evidence(q, S, Unit, group) =
        Chosen(group, Direct(q, S, group), Subtree(q, S, group), Use(q, S, Unit, group),
               Ranks(q, S, group))
  BY EvidenceChosen
<1> QED BY <1>1, <1>2, <1>3, <1>4, <1>5, <1>6

\* Definitions of their own are evidence enough.
LEMMA EvidenceEnough ==
  ASSUME NEW p, WellFormed(p), NEW S \in SUBSET Node, NEW retained, ToldApart(p, S),
         NEW x \in S \cap Expansion, x \in p.expansions
  PROVE  LET group == Siblings(p, x) \cap S
         IN  DOMAIN Evidence(p, S, retained, group) = group
<1> DEFINE group   == Siblings(p, x) \cap S
           direct  == Direct(p, S, group)
           subtree == Subtree(p, S, group)
           use     == Use(p, S, retained, group)
           ranks   == Ranks(p, S, group)
           e       == Evidence(p, S, retained, group)
<1>1. group \subseteq S \cap Expansion /\ x \in group /\ IsFiniteSet(group)
  <2>1. group \subseteq S \cap Expansion /\ x \in group /\ group \subseteq Node
    BY DEF Siblings, WellFormed, Program
  <2> QED BY <2>1, NodeAssumption, FS_Subset
<1>2. \A y, z \in group : z \in Siblings(p, y)
  BY DEF Siblings
<1>3. DOMAIN direct = group /\ DOMAIN subtree = group /\ DOMAIN use = group /\ DOMAIN ranks = group
  BY DEF Direct, Subtree, Use, Ranks, Restrict
<1>4. \A y \in group : direct[y] = SetCode(GeneratedBy(p, S, y)) /\ GeneratedBy(p, S, y) \in SUBSET Definition
  BY <1>1, UsersAreDefinitions DEF Direct
<1>5. e = Chosen(group, direct, subtree, use, ranks)
  BY EvidenceChosen
<1> HIDE DEF group, direct, subtree, use, ranks, e
<1>6. Cardinality(group) = 1 \/ Canonical(direct)
  <2>1. CASE group = {x}
    BY <2>1, FS_Singleton
  <2>2. CASE group # {x}
    <3>1. ASSUME NEW y \in group
          PROVE  direct[y] # 0 /\ \A z \in group : direct[y] = direct[z] => y = z
      <4>1. PICK z \in group : y # z
        BY <1>1, <2>2
      <4>2. GeneratedBy(p, S, y) # {}
        BY <1>1, <1>2, <4>1 DEF ToldApart
      <4>3. \A w \in group : y # w => GeneratedBy(p, S, y) # GeneratedBy(p, S, w)
        BY <1>1, <1>2 DEF ToldApart
      <4> QED BY <1>4, <4>2, <4>3, OrderAssumption
    <3> QED BY <1>3, <3>1 DEF Canonical, Full, IsInjective
  <2> QED BY <2>1, <2>2
<1>7. \/ e = direct \/ e = subtree \/ e = use \/ e = ranks
  BY <1>5, <1>6, ChosenOne
<1>8. DOMAIN e = group
  BY <1>3, <1>7
<1> QED BY <1>8 DEF e, group

\* The same place among the siblings.
LEMMA OrdinalsAgree ==
  ASSUME NEW p, NEW q, NEW S, NEW retained, Agree(p, q, S, retained),
         Placed(p, q, S), NEW x \in S \cap Expansion
  PROVE  SnapshotOrdinal(p, S, retained, x) = SnapshotOrdinal(q, S, Unit, x)
<1> DEFINE group == Siblings(p, x) \cap S
           e     == Evidence(p, S, retained, group)
<1>1. /\ WellFormed(p) /\ Collected(p) /\ WellFormed(q) /\ Collected(q) /\ S \in SUBSET Node
      /\ x \in p.expansions /\ x \in q.expansions
  BY DEF Agree
<1>2. group = Siblings(q, x) \cap S /\ group \subseteq S \cap Expansion
  BY <1>1, SiblingsAgree DEF Siblings, WellFormed, Program
<1>3. e = Evidence(q, S, Unit, group)
  BY <1>2, EvidenceAgrees
<1>4. SnapshotOrdinal(p, S, retained, x) =
        IF DOMAIN e = group THEN Cardinality({y \in group : e[y] < e[x]}) ELSE FilteredOrdinal(p, x)
  BY DEF SnapshotOrdinal
<1>5. SnapshotOrdinal(q, S, Unit, x) =
        IF DOMAIN e = group THEN Cardinality({y \in group : e[y] < e[x]}) ELSE FilteredOrdinal(q, x)
  BY <1>2, <1>3 DEF SnapshotOrdinal
<1>6. CASE DOMAIN e = group
  BY <1>4, <1>5, <1>6
<1>7. CASE DOMAIN e # group
  <2>1. OrderAgrees(p, q, S \cap Expansion)
    BY <1>1, <1>7, EvidenceEnough DEF Placed
  <2>2. /\ FilteredOrdinal(p, x) =
             Cardinality({y \in Siblings(p, x) \ p.outputless : p.ordinal[y] < p.ordinal[x]})
        /\ FilteredOrdinal(q, x) =
             Cardinality({y \in Siblings(q, x) \ q.outputless : q.ordinal[y] < q.ordinal[x]})
    BY <1>1, FilteredCount
  <2>3. {y \in Siblings(p, x) \ p.outputless : p.ordinal[y] < p.ordinal[x]}
          = {y \in Siblings(q, x) \ q.outputless : q.ordinal[y] < q.ordinal[x]}
    BY <2>1 DEF OrderAgrees
  <2>4. FilteredOrdinal(p, x) = FilteredOrdinal(q, x)
    BY <2>2, <2>3
  <2> QED BY <1>4, <1>5, <1>7, <2>4
<1> QED BY <1>6, <1>7

\* The same keys.
LEMMA KeysAgreeInBoth ==
  ASSUME NEW p, NEW q, NEW S, NEW retained, Agree(p, q, S, retained),
         Placed(p, q, S)
  PROVE  ExpansionKeys(p, S, retained) = ExpansionKeys(q, S, Unit)
<1> DEFINE X == S \cap Expansion
           parent(r) == [x \in X |-> r.parent[x]]
           leaf(r, units) == [x \in X |-> <<r.role[x], SnapshotOrdinal(r, S, units, x)>>]
<1>1. parent(p) = parent(q)
  BY DEF Agree
<1>2. leaf(p, retained) = leaf(q, Unit)
  <2>1. ASSUME NEW x \in S \cap Expansion
        PROVE  SnapshotOrdinal(p, S, retained, x) = SnapshotOrdinal(q, S, Unit, x)
    BY OrdinalsAgree
  <2>2. \A x \in X : p.role[x] = q.role[x]
    BY DEF Agree
  <2> QED BY <2>1, <2>2
<1>3. /\ ExpansionKeys(p, S, retained) = KeysOf(parent(p), leaf(p, retained))
      /\ ExpansionKeys(q, S, Unit) = KeysOf(parent(q), leaf(q, Unit))
  BY DEF ExpansionKeys
<1> HIDE DEF parent, leaf
<1> QED BY <1>1, <1>2, <1>3

\* The same decisions at the nodes.
LEMMA DecisionsAgree ==
  ASSUME NEW p, NEW q, NEW S, NEW retained, Agree(p, q, S, retained), NEW keys
  PROVE  Decided(p, keys, S) = Decided(q, keys, S)
<1>1. ASSUME NEW n \in S
      PROVE  NodeDecision(p, keys, n) = NodeDecision(q, keys, n)
  BY DEF NodeDecision, Agree
<1> QED BY <1>1 DEF Decided

-----------------------------------------------------------------------------
\* Obligations under other names are the other names of the obligations.
LEMMA ObligationsOfNames ==
  ASSUME NEW W, NEW m, NEW A \in SUBSET W, Renames(m, W)
  PROVE  Obligations({m[t] : t \in A}) = {m[t] : t \in Obligations(A)}
<1> DEFINE use(t) == [t EXCEPT ![4] = "used"]
           MA == {m[t] : t \in A}
<1>1. \A S : Obligations(S) = {o \in S : ~(o[4] = "mentioned" /\ use(o) \in S)}
  BY DEF Obligations
<1>2. \A t \in W : /\ use(t) \in W /\ m[t][4] = t[4] /\ m[use(t)] = use(m[t])
                  /\ \A u \in W : m[t] = m[u] => t = u
  BY DEF Renames
<1> HIDE DEF use
<1>3. \A t \in A : use(m[t]) \in MA <=> use(t) \in A
  <2> SUFFICES ASSUME NEW t \in A PROVE use(m[t]) \in MA <=> use(t) \in A
    OBVIOUS
  <2>1. use(m[t]) = m[use(t)] /\ use(t) \in W
    BY <1>2
  <2>2. ASSUME use(m[t]) \in MA
        PROVE  use(t) \in A
    <3>1. PICK u \in A : m[use(t)] = m[u]
      BY <2>1, <2>2
    <3> QED BY <1>2, <2>1, <3>1
  <2> QED BY <2>1, <2>2
<1>4. \A t \in A : m[t] \in Obligations(MA) <=> t \in Obligations(A)
  BY <1>1, <1>2, <1>3
<1>5. Obligations(MA) \subseteq MA /\ Obligations(A) \subseteq A
  BY <1>1
<1> QED BY <1>4, <1>5

\* What is heard, in keys, is what the snapshot says.
LEMMA HeardInKeys ==
  ASSUME NEW p, WellFormed(p), NEW S \in SUBSET Node, NEW retained, NEW keys
  PROVE  /\ Heard(p, S, retained) \in SUBSET Sayings(S)
         /\ AllSaid(p, keys, S, retained) = {InKeys(S, keys)[t] : t \in Heard(p, S, retained)}
<1> DEFINE id == [x \in Expansion |-> x]
           here == Observations(p, S, retained)
<1>1. Matches(id, S, S, keys, keys)
  BY DEF Matches
<1> HIDE DEF id
<1>2. ASSUME NEW o \in here
      PROVE  Said(id, o) \in Sayings(S) /\ InKeys(S, keys)[Said(id, o)] = KeySaid(keys, o[1], o[2])
  BY <1>1, SaidInKeys
<1>3. Heard(p, S, retained) = {Said(id, o) : o \in here}
  BY DEF Heard, AllNamed, id
<1>4. AllSaid(p, keys, S, retained) = {KeySaid(keys, o[1], o[2]) : o \in here}
  BY DEF AllSaid
<1> HIDE DEF here
<1> QED BY <1>2, <1>3, <1>4

\* The same is said under the same keys.
LEMMA SayingsAgree ==
  ASSUME NEW p, NEW q, NEW S, NEW retained, Agree(p, q, S, retained), NEW keys, Distinct(S, keys)
  PROVE  Obligations(AllSaid(p, keys, S, retained)) = Obligations(AllSaid(q, keys, S, Unit))
<1> DEFINE m == InKeys(S, keys)
           A == Heard(p, S, retained)
           B == Heard(q, S, Unit)
<1>1. /\ WellFormed(p) /\ WellFormed(q) /\ S \in SUBSET Node
      /\ Obligations(A) = Obligations(B)
  BY DEF Agree
<1>2. Renames(m, Sayings(S))
  BY <1>1, KeysRename
<1>3. A \in SUBSET Sayings(S) /\ AllSaid(p, keys, S, retained) = {m[t] : t \in A}
  BY <1>1, HeardInKeys
<1>4. B \in SUBSET Sayings(S) /\ AllSaid(q, keys, S, Unit) = {m[t] : t \in B}
  BY <1>1, HeardInKeys
<1> HIDE DEF m, A, B
<1>5. Obligations({m[t] : t \in A}) = {m[t] : t \in Obligations(A)}
  BY <1>2, <1>3, ObligationsOfNames
<1>6. Obligations({m[t] : t \in B}) = {m[t] : t \in Obligations(B)}
  BY <1>2, <1>4, ObligationsOfNames
<1> QED BY <1>1, <1>3, <1>4, <1>5, <1>6

-----------------------------------------------------------------------------
SameHead(c, d) ==
  /\ c.from = d.from /\ c.to = d.to /\ c.name = d.name /\ c.collection = d.collection
  /\ c.ordinal = d.ordinal

\* One edge for all sites of a relation, but one per site for what belongs to a
\* site only.
Tidy(edges) ==
  \A d \in edges :
    /\ IsSnapshotEdge(d)
    /\ d.from = <<>> => \E s : d.sites = {s}
    /\ \A c \in edges : SameHead(c, d) /\ d.from # <<>> => c = d

\* An edge is its head and its sites.
LEMMA HeadAndSites ==
  ASSUME NEW c, NEW d, IsSnapshotEdge(c), IsSnapshotEdge(d), SameHead(c, d), c.sites = d.sites
  PROVE  c = d
BY DEF IsSnapshotEdge, SameHead

\* Tidy edges are determined by what they say.
LEMMA FlatTidy ==
  ASSUME NEW E, NEW F, Tidy(E), Tidy(F), Flat(E) = Flat(F)
  PROVE  E \subseteq F
<1> SUFFICES ASSUME NEW d \in E PROVE d \in F
  OBVIOUS
<1>1. \A b, c : \A r, s : Told(b, r) = Told(c, s) => SameHead(b, c) /\ r = s
  BY DEF Told, SameHead
<1>2. \A b \in E : \A s \in Places(b) : \E c \in F : SameHead(c, b) /\ s \in Places(c)
  <2> SUFFICES ASSUME NEW b \in E, NEW s \in Places(b)
               PROVE  \E c \in F : SameHead(c, b) /\ s \in Places(c)
    OBVIOUS
  <2>1. Told(b, s) \in Flat(F)
    BY DEF Flat
  <2>2. PICK c \in F : \E r \in Places(c) : Told(b, s) = Told(c, r)
    BY <2>1 DEF Flat
  <2> QED BY <1>1, <2>2 DEF SameHead
<1>3. \A b \in F : \A s \in Places(b) : \E c \in E : SameHead(c, b) /\ s \in Places(c)
  <2> SUFFICES ASSUME NEW b \in F, NEW s \in Places(b)
               PROVE  \E c \in E : SameHead(c, b) /\ s \in Places(c)
    OBVIOUS
  <2>1. Told(b, s) \in Flat(E)
    BY DEF Flat
  <2>2. PICK c \in E : \E r \in Places(c) : Told(b, s) = Told(c, r)
    BY <2>1 DEF Flat
  <2> QED BY <1>1, <2>2 DEF SameHead
<1>4. PICK s : s \in Places(d)
  BY DEF Places
<1>5. PICK c \in F : SameHead(c, d) /\ s \in Places(c)
  BY <1>2, <1>4
<1>6. IsSnapshotEdge(c) /\ IsSnapshotEdge(d)
  BY DEF Tidy
<1>7. c.sites = d.sites
  <2>1. CASE d.from = <<>>
    <3>1. c.from = <<>>
      BY <1>5, <2>1 DEF SameHead
    <3>2. (\E r : d.sites = {r}) /\ \E r : c.sites = {r}
      BY <2>1, <3>1 DEF Tidy
    <3> QED BY <1>4, <1>5, <3>2 DEF Places
  <2>2. CASE d.from # <<>>
    <3>1. c.from # <<>>
      BY <1>5, <2>2 DEF SameHead
    <3>2. \A r \in Places(d) : r \in Places(c)
      <4> SUFFICES ASSUME NEW r \in Places(d) PROVE r \in Places(c)
        OBVIOUS
      <4>1. PICK b \in F : SameHead(b, d) /\ r \in Places(b)
        BY <1>2
      <4>2. SameHead(b, c)
        BY <1>5, <4>1 DEF SameHead
      <4> QED BY <3>1, <4>1, <4>2 DEF Tidy
    <3>3. \A r \in Places(c) : r \in Places(d)
      <4> SUFFICES ASSUME NEW r \in Places(c) PROVE r \in Places(d)
        OBVIOUS
      <4>1. PICK b \in E : SameHead(b, c) /\ r \in Places(b)
        BY <1>3
      <4>2. SameHead(b, d)
        BY <1>5, <4>1 DEF SameHead
      <4> QED BY <2>2, <4>1, <4>2 DEF Tidy
    <3>4. NoSite \notin c.sites /\ NoSite \notin d.sites
      BY <1>6 DEF IsSnapshotEdge
    <3> QED BY <3>2, <3>3, <3>4 DEF Places
  <2> QED BY <2>1, <2>2
<1> QED BY <1>5, <1>6, <1>7, HeadAndSites

\* Subsumption takes sites away and edges that have none left.
LEMMA SubsumedParts ==
  ASSUME NEW edges, NEW d, IsSnapshotEdge(d), NEW c \in Subsumed(edges, d)
  PROVE  /\ SameHead(c, d) /\ IsSnapshotEdge(c)
         /\ \A s : d.sites = {s} => c.sites = {s}
         /\ \A b \in Subsumed(edges, d) : b = c
<1> DEFINE used == {f \in edges : f = [d EXCEPT !.collection = "used", !.sites = f.sites]}
           left == d.sites \ UNION {f.sites : f \in used}
           cut  == [d EXCEPT !.sites = left]
<1>1. Subsumed(edges, d) =
        IF d.collection # "mentioned" THEN {d}
        ELSE IF d.sites = {} THEN {f \in {d} : \A g \in used : g.sites # {}}
        ELSE {f \in {cut} : left # {}}
  BY DEF Subsumed
<1>2. left \subseteq d.sites
  OBVIOUS
<1> HIDE DEF left, used
<1>3. SameHead(cut, d) /\ IsSnapshotEdge(cut) /\ cut.sites = left
  <2>1. cut = [name |-> d.name, collection |-> d.collection, ordinal |-> d.ordinal,
               from |-> d.from, to |-> d.to, sites |-> left]
    BY DEF IsSnapshotEdge
  <2> HIDE DEF cut
  <2> QED BY <1>2, <2>1 DEF SameHead, IsSnapshotEdge
<1> HIDE DEF cut
<1>4. SameHead(d, d)
  BY DEF SameHead
<1>5. \/ c = d /\ \A b \in Subsumed(edges, d) : b = d
      \/ c = cut /\ left # {} /\ \A b \in Subsumed(edges, d) : b = cut
  BY <1>1
<1> QED BY <1>2, <1>3, <1>4, <1>5

\* Subsumption leaves tidy edges tidy.
LEMMA TidySubsumed ==
  ASSUME NEW edges, Tidy(edges)
  PROVE  Tidy(UNION {Subsumed(edges, d) : d \in edges})
<1> DEFINE left == UNION {Subsumed(edges, d) : d \in edges}
<1>1. ASSUME NEW c \in left
      PROVE  \E d \in edges : c \in Subsumed(edges, d)
  OBVIOUS
<1> HIDE DEF left
<1>2. ASSUME NEW c \in left
      PROVE  /\ IsSnapshotEdge(c)
             /\ c.from = <<>> => \E s : c.sites = {s}
             /\ \A b \in left : SameHead(b, c) /\ c.from # <<>> => b = c
  <2>1. PICK d \in edges : c \in Subsumed(edges, d)
    BY <1>1
  <2>2. IsSnapshotEdge(d) /\ (d.from = <<>> => \E s : d.sites = {s})
    BY DEF Tidy
  <2>3. SameHead(c, d) /\ IsSnapshotEdge(c) /\ \A s : d.sites = {s} => c.sites = {s}
    BY <2>1, <2>2, SubsumedParts
  <2>4. ASSUME NEW b \in left, SameHead(b, c), c.from # <<>>
        PROVE  b = c
    <3>1. PICK g \in edges : b \in Subsumed(edges, g)
      BY <1>1
    <3>2. IsSnapshotEdge(g)
      BY DEF Tidy
    <3>3. SameHead(b, g)
      BY <3>1, <3>2, SubsumedParts
    <3>4. SameHead(g, d) /\ d.from # <<>>
      BY <2>3, <2>4, <3>3 DEF SameHead
    <3>5. g = d
      BY <3>4 DEF Tidy
    <3> QED BY <2>1, <2>2, <3>1, <3>5, SubsumedParts
  <2> QED BY <2>2, <2>3, <2>4 DEF SameHead
<1>3. Tidy(left)
  BY <1>2 DEF Tidy
<1> QED BY <1>3 DEF left

\* One edge, split or not.
LEMMA ProjectedParts ==
  ASSUME NEW keys, NEW retained, NEW e \in Edge, Visible(e, retained),
         NodeKey(keys, e.from) # <<>>,
         NEW d \in Projected(SnapshotEdge(keys, e, retained))
  PROVE  /\ IsSnapshotEdge(d)
         /\ d.to = NodeKey(keys, e.to) /\ d.name = e.name /\ d.collection = e.collection
         /\ d.ordinal = DependencyOrdinal(e)
         /\ \/ d.from = <<>> /\ \E s : d.sites = {s}
            \/ /\ d.from = NodeKey(keys, e.from)
               /\ \A c \in Projected(SnapshotEdge(keys, e, retained)) : c.from # <<>> => c = d
<1> DEFINE x == SnapshotEdge(keys, e, retained)
           source   == {s \in x.sites : s[1] = "source"}
           placed   == [x EXCEPT !.sites = @ \ source]
           freed(s) == [x EXCEPT !.from = <<>>, !.sites = {s}]
           Like(c) == /\ c.to = NodeKey(keys, e.to) /\ c.name = e.name
                      /\ c.collection = e.collection /\ c.ordinal = DependencyOrdinal(e)
<1>1. x = [name |-> e.name, collection |-> e.collection, ordinal |-> DependencyOrdinal(e),
           from |-> NodeKey(keys, e.from), to |-> NodeKey(keys, e.to),
           sites |-> Sites(e, retained)]
  BY DEF SnapshotEdge
<1>2. IsSnapshotEdge(d)
  BY FlatProjected
<1>3. \/ Projected(x) = {x}
      \/ Projected(x) = {c \in {placed} : c.sites # {}} \cup {freed(s) : s \in source}
  BY DEF Projected
<1> HIDE DEF x, source
<1>4. Like(x) /\ x.from = NodeKey(keys, e.from)
  BY <1>1
<1>5. Like(placed) /\ placed.from = NodeKey(keys, e.from)
  BY <1>1
<1>6. ASSUME NEW s
      PROVE  Like(freed(s)) /\ freed(s).from = <<>> /\ freed(s).sites = {s}
  <2> DEFINE y == [x EXCEPT !.from = <<>>]
  <2>1. freed(s) = [y EXCEPT !.sites = {s}]
    BY <1>1
  <2>2. y = [name |-> e.name, collection |-> e.collection, ordinal |-> DependencyOrdinal(e),
             from |-> <<>>, to |-> NodeKey(keys, e.to), sites |-> Sites(e, retained)]
    BY <1>1
  <2> HIDE DEF y, freed
  <2> QED BY <2>1, <2>2
<1> HIDE DEF placed, freed
<1>7. CASE Projected(x) = {x}
  <2> HIDE DEF Like
  <2>1. d = x /\ \A c \in Projected(x) : c = d
    BY <1>7 DEF x
  <2> QED BY <1>2, <1>4, <2>1 DEF x, Like
<1>8. CASE Projected(x) = {c \in {placed} : c.sites # {}} \cup {freed(s) : s \in source}
  <2> HIDE DEF Like
  <2>1. \A c \in Projected(x) : c = placed \/ \E s \in source : c = freed(s)
    BY <1>8
  <2>2. \A c \in Projected(x) : c.from # <<>> => c = placed
    BY <1>6, <2>1
  <2>3. d \in Projected(x)
    BY DEF x
  <2>4. CASE d = placed
    BY <1>2, <1>5, <2>2, <2>4 DEF x, Like
  <2>5. CASE \E s \in source : d = freed(s)
    <3>1. PICK s \in source : d = freed(s)
      BY <2>5
    <3>2. Like(d) /\ d.from = <<>> /\ d.sites = {s}
      BY <1>6, <3>1
    <3> QED BY <1>2, <3>2 DEF Like
  <2> QED BY <2>1, <2>3, <2>4, <2>5
<1> QED BY <1>3, <1>7, <1>8

\* A relation between two nodes is one edge; the ordinals of a trace do not count.
LEMMA RelationsAreEdges ==
  ASSUME NEW p, WellFormed(p), Collected(p), NEW e \in AllEdges(p), NEW g \in AllEdges(p),
         e.from = g.from, e.to = g.to, e.name = g.name, e.collection = g.collection,
         DependencyOrdinal(e) = DependencyOrdinal(g), NEW keys, NEW retained
  PROVE  SnapshotEdge(keys, e, retained) = SnapshotEdge(keys, g, retained)
<1>1. e \in Edge /\ g \in Edge
  BY GraphEdges
<1>2. CASE e \in p.edges /\ g \in p.edges
  <2>1. CASE e.name = "Trace"
    <3>1. e.sites = {} /\ g.sites = {}
      BY <1>2, <2>1 DEF Collected
    <3>2. Sites(e, retained) = Sites(g, retained)
      BY <3>1 DEF Sites
    <3> QED BY <3>2 DEF SnapshotEdge
  <2>2. CASE e.name # "Trace"
    <3>1. e.ordinal = g.ordinal
      BY <2>2 DEF DependencyOrdinal
    <3>2. e = [g EXCEPT !.sites = e.sites]
      BY <1>1, <3>1 DEF Edge
    <3>3. \A d \in p.edges : e = [d EXCEPT !.sites = e.sites] => d = e
      BY <1>2 DEF WellFormed
    <3>4. g = e
      BY <1>2, <3>2, <3>3
    <3> QED BY <3>4
  <2> QED BY <2>1, <2>2
<1> DEFINE up(x) == [name |-> "Parent", collection |-> "neither", ordinal |-> 0, from |-> x,
                     to |-> p.parent[x], sites |-> {}]
<1>3. \A d \in AllEdges(p) :
        \/ d \in p.edges /\ (d.to \in Expansion => d.name # "Parent")
        \/ d.name = "Parent" /\ d.to \in Expansion /\ d = up(d.from)
  <2>1. \A d \in p.edges : d.to \in Expansion => d.name # "Parent"
    BY DEF WellFormed
  <2>2. ASSUME NEW x \in p.expansions, p.parent[x] # None
        PROVE  up(x).name = "Parent" /\ up(x).to \in Expansion /\ up(x) = up(up(x).from)
    BY <2>2 DEF WellFormed, Program
  <2>3. AllEdges(p) = p.edges \cup {up(x) : x \in {y \in p.expansions : p.parent[y] # None}}
    BY DEF AllEdges
  <2> HIDE DEF up
  <2> QED BY <2>1, <2>2, <2>3
<1>4. CASE e \notin p.edges \/ g \notin p.edges
  <2>1. e = up(e.from) /\ g = up(g.from)
    <3> HIDE DEF up
    <3> QED BY <1>3, <1>4
  <2> HIDE DEF up
  <2>2. e = g
    BY <2>1
  <2> QED BY <2>2
<1> QED BY <1>2, <1>4

\* The edges of a snapshot are tidy before subsumption.
LEMMA TidyProjected ==
  ASSUME NEW p, WellFormed(p), Collected(p), NEW S, NEW retained, NEW keys, Distinct(S, keys),
         \A n \in S : NodeKey(keys, n) # <<>>
  PROVE  Tidy(UNION {Projected(SnapshotEdge(keys, e, retained)) :
                       e \in {d \in AllEdges(p) : {d.from, d.to} \subseteq S /\ Visible(d, retained)}})
<1> DEFINE seen    == {d \in AllEdges(p) : {d.from, d.to} \subseteq S /\ Visible(d, retained)}
           part(e) == Projected(SnapshotEdge(keys, e, retained))
           edges   == UNION {part(e) : e \in seen}
<1>1. ASSUME NEW e \in seen, NEW d \in part(e)
      PROVE  /\ IsSnapshotEdge(d)
             /\ d.to = NodeKey(keys, e.to) /\ d.name = e.name /\ d.collection = e.collection
             /\ d.ordinal = DependencyOrdinal(e)
             /\ \/ d.from = <<>> /\ \E s : d.sites = {s}
                \/ /\ d.from = NodeKey(keys, e.from)
                   /\ \A c \in part(e) : c.from # <<>> => c = d
  <2>1. e \in Edge /\ Visible(e, retained) /\ NodeKey(keys, e.from) # <<>>
    BY GraphEdges
  <2> QED BY <2>1, ProjectedParts
<1>2. ASSUME NEW e \in seen, NEW g \in seen, e.from = g.from, e.to = g.to, e.name = g.name,
             e.collection = g.collection, DependencyOrdinal(e) = DependencyOrdinal(g)
      PROVE  part(e) = part(g)
  <2>1. SnapshotEdge(keys, e, retained) = SnapshotEdge(keys, g, retained)
    BY <1>2, RelationsAreEdges
  <2> QED BY <2>1
<1>3. \A e \in seen : e.from \in S /\ e.to \in S /\ NodeKey(keys, e.from) # <<>>
  OBVIOUS
<1>4. \A d \in edges : \E e \in seen : d \in part(e)
  OBVIOUS
<1> HIDE DEF seen, part, edges
<1>5. ASSUME NEW d \in edges
      PROVE  /\ IsSnapshotEdge(d)
             /\ d.from = <<>> => \E s : d.sites = {s}
             /\ \A c \in edges : SameHead(c, d) /\ d.from # <<>> => c = d
  <2>1. PICK e \in seen : d \in part(e)
    BY <1>4
  <2>2. ASSUME NEW c \in edges, SameHead(c, d), d.from # <<>>
        PROVE  c = d
    <3>1. PICK g \in seen : c \in part(g)
      BY <1>4
    <3>2. d.from = NodeKey(keys, e.from) /\ c.from = NodeKey(keys, g.from)
      BY <1>1, <2>1, <2>2, <3>1 DEF SameHead
    <3>3. /\ NodeKey(keys, e.from) = NodeKey(keys, g.from)
          /\ NodeKey(keys, e.to) = NodeKey(keys, g.to)
          /\ e.name = g.name /\ e.collection = g.collection
          /\ DependencyOrdinal(e) = DependencyOrdinal(g)
      BY <1>1, <2>1, <2>2, <3>1, <3>2 DEF SameHead
    <3>4. e.from = g.from /\ e.to = g.to
      BY <1>3, <3>3 DEF Distinct
    <3>5. c \in part(e)
      BY <1>2, <3>1, <3>3, <3>4
    <3>6. c.from # <<>>
      BY <2>2 DEF SameHead
    <3> QED BY <1>1, <2>1, <2>2, <3>5, <3>6
  <2> QED BY <1>1, <1>3, <2>1, <2>2
<1>6. Tidy(edges)
  BY <1>5 DEF Tidy
<1> QED BY <1>6 DEF edges, part, seen

\* The edges of a snapshot are determined by what they say.
LEMMA TidySnapshot ==
  ASSUME NEW p, WellFormed(p), Collected(p), NEW S \in SUBSET Node, NEW retained,
         ~Orphan(p, S), p.roots \subseteq S,
         S \cap Expansion \subseteq p.expansions \ p.outputless
  PROVE  Tidy(Build(p, S, retained).edges)
<1> DEFINE keys  == ExpansionKeys(p, S, retained)
           names == {NodeKey(keys, n) : n \in S}
           roots == {NodeKey(keys, n) : n \in p.roots}
           nodes == {<<NodeKey(keys, n), NodeDecision(p, keys, n)>> : n \in S}
           seen  == {e \in AllEdges(p) : {e.from, e.to} \subseteq S /\ Visible(e, retained)}
           edges == UNION {Projected(SnapshotEdge(keys, e, retained)) : e \in seen}
           left  == UNION {Subsumed(edges, e) : e \in edges}
<1>1. Build(p, S, retained).ok
  BY Builds
<1>2. Build(p, S, retained) =
        IF \/ Orphan(p, S) \/ ~(p.roots \subseteq S) \/ Cardinality(names) # Cardinality(S)
          THEN Failed
          ELSE [ok |-> TRUE, roots |-> roots, nodes |-> nodes, edges |-> left]
  BY DEF Build, Orphan
<1>3. Cardinality(names) = Cardinality(S)
  BY <1>1, Built DEF Describes
<1>4. Distinct(S, keys)
  <2> HIDE DEF keys
  <2> QED BY <1>3, KeysDistinct
<1>5. \A n \in S : NodeKey(keys, n) # <<>>
  <2>1. \A x \in S \cap Expansion : keys[x] # <<>>
    BY ExpansionKeysDiffer
  <2> HIDE DEF keys
  <2> QED BY <2>1 DEF NodeKey
<1>6. Tidy(edges)
  <2> HIDE DEF keys
  <2> QED BY <1>4, <1>5, TidyProjected
<1>7. Tidy(left)
  <2> HIDE DEF edges
  <2> QED BY <1>6, TidySubsumed
<1>8. Build(p, S, retained).edges = left
  <2> HIDE DEF names, roots, nodes, left
  <2> QED BY <1>2, <1>3
<1> QED BY <1>7, <1>8

-----------------------------------------------------------------------------
\* What the compiler decided the same, in an order that is kept or found again,
\* makes equal snapshots.
LEMMA AgreeingIsEqual ==
  ASSUME NEW p, NEW q, NEW S, NEW retained, Agree(p, q, S, retained), Placed(p, q, S),
         p.roots = q.roots, p.roots \subseteq S
  PROVE  /\ Build(p, S, retained).roots = Build(q, S, Unit).roots
         /\ Build(p, S, retained).nodes = Build(q, S, Unit).nodes
         /\ Build(p, S, retained).edges = Build(q, S, Unit).edges
<1> DEFINE keys   == ExpansionKeys(p, S, retained)
           before == Build(p, S, retained)
           after  == Build(q, S, Unit)
<1>1. /\ WellFormed(p) /\ Collected(p) /\ WellFormed(q) /\ Collected(q) /\ S \in SUBSET Node
      /\ ~Orphan(p, S) /\ ~Orphan(q, S)
      /\ S \cap Expansion \subseteq p.expansions \ p.outputless
      /\ S \cap Expansion \subseteq q.expansions \ q.outputless
  BY DEF Agree
<1>2. before.ok /\ after.ok
  BY <1>1, Builds
<1>3. ExpansionKeys(q, S, Unit) = keys
  BY KeysAgreeInBoth
<1>4. Describes(before, p, keys, S, retained) /\ Describes(after, q, keys, S, Unit)
  BY <1>1, <1>2, <1>3, Built
<1>5. Tidy(before.edges) /\ Tidy(after.edges)
  BY <1>1, TidySnapshot
<1> HIDE DEF keys, before, after
<1>6. before.roots = after.roots
  BY <1>4 DEF Describes, RootKeys
<1>7. before.nodes = after.nodes
  BY <1>4, DecisionsAgree DEF Describes
<1>8. Distinct(S, keys)
  BY <1>1, <1>4, KeysDistinct DEF Describes
<1>9. Flat(before.edges) = Flat(after.edges)
  BY <1>4, <1>8, SayingsAgree DEF Describes
<1>10. before.edges = after.edges
  BY <1>5, <1>9, FlatTidy
<1> QED BY <1>6, <1>7, <1>10 DEF before, after

\* Programs of which the compiler decided the same agree about what is looked at.
LEMMA SameAgrees ==
  ASSUME NEW pl \in Plans, NEW q \in Candidates(pl),
         KeptExpansions(pl) = FoundExpansions(q), Same(Identity(KeptExpansions(pl)), pl, q)
  PROVE  /\ Agree(pl.program, q, OriginalSelected(pl), pl.retained)
         /\ ReducedSelected(q) = OriginalSelected(pl)
         /\ pl.program.roots = q.roots /\ pl.program.roots \subseteq OriginalSelected(pl)
<1> DEFINE p == pl.program
           S == OriginalSelected(pl)
           T == ReducedSelected(q)
           X == S \cap Expansion
           f == Identity(X)
           id == [x \in Expansion |-> x]
           defs  == {n \in pl.compile \cap Definition : n \notin pl.dropped}
           kept  == DOMAIN f \cup (S \ Expansion)
           found == Participants(q, q.definitions) \cup q.definitions \cup (T \cap Other)
<1>1. /\ WellFormed(p) /\ Collected(p) /\ WellFormed(q) /\ Collected(q)
      /\ OutputAbove(q, q.expansions)
  BY PlanAssumption
<1>2. p.roots \subseteq Permitted(pl) /\ ~Orphan(p, S) /\ X \subseteq p.expansions \ p.outputless
  BY OriginalKept
<1>3. S \subseteq Node /\ p.roots \subseteq S /\ S \cap Definition = defs
  BY <1>2, OriginalNodes
<1>4. ~Orphan(q, T) /\ T \cap Expansion \subseteq q.expansions \ q.outputless
  BY <1>1, ReducedKept
<1>5. /\ T \subseteq Node /\ T \cap Definition = q.definitions
      /\ T \cap Expansion = Participants(q, q.definitions)
  BY <1>1, <1>4, ReducedNodes
<1>6. X = T \cap Expansion
  BY <1>5 DEF KeptExpansions, FoundExpansions
<1>7. /\ defs = q.definitions /\ p.roots = q.roots
      /\ kept \cap Other = found \cap Other
      /\ \A n \in kept \cap Other : p.decision[n] = q.decision[n]
      /\ \A x \in DOMAIN f :
           /\ p.role[x] = q.role[f[x]]
           /\ Owner(p, x) = Owner(q, f[x])
           /\ IF p.parent[x] = None THEN q.parent[f[x]] = None
              ELSE q.parent[f[x]] = f[p.parent[x]]
      /\ Obligations({Said(f, o) : o \in Observations(p, kept, pl.retained)})
           = Obligations({Said(id, o) : o \in Observations(q, found, Unit)})
  <2>1. f = Identity(KeptExpansions(pl))
    BY DEF KeptExpansions
  <2> HIDE DEF f
  <2> QED BY <2>1 DEF Same
<1>8. DOMAIN f = X /\ (\A x \in X : f[x] = x)
  BY DEF Identity
<1> HIDE DEF p, S, T, f
<1>9. kept = S
  BY <1>8
<1>10. S = T
  <2>1. S = (S \cap Definition) \cup (S \cap Expansion) \cup (S \cap Other)
    BY <1>3 DEF Node
  <2>2. T = (T \cap Definition) \cup (T \cap Expansion) \cup (T \cap Other)
    BY <1>5 DEF Node
  <2>3. found \cap Other = T \cap Other
    <3>1. q.definitions \cap Other = {} /\ Participants(q, q.definitions) \cap Other = {}
      BY <1>5, NodeAssumption
    <3> QED BY <3>1
  <2>4. S \cap Other = T \cap Other
    BY <1>7, <1>9, <2>3
  <2> QED BY <1>3, <1>5, <1>6, <1>7, <2>1, <2>2, <2>4
<1>11. found = S
  <2>1. T = (T \cap Definition) \cup (T \cap Expansion) \cup (T \cap Other)
    BY <1>5 DEF Node
  <2> QED BY <1>5, <1>10, <2>1
<1>12. \A x \in X : p.parent[x] = None \/ p.parent[x] \in X
  <2>1. \A x \in p.expansions : p.parent[x] \in Expansion \cup {None}
    BY <1>1 DEF WellFormed, Program
  <2> QED BY <1>2, <2>1 DEF Orphan
<1>13. \A x \in X : p.role[x] = q.role[x] /\ Owner(p, x) = Owner(q, x) /\ p.parent[x] = q.parent[x]
  BY <1>7, <1>8, <1>12
<1>14. \A n \in S \cap Other : p.decision[n] = q.decision[n]
  BY <1>7, <1>9
<1>15. \A o \in Observations(p, S, pl.retained) : Said(f, o) = Said(id, o)
  <2> SUFFICES ASSUME NEW o \in Observations(p, S, pl.retained)
               PROVE  Said(f, o) = Said(id, o)
    OBVIOUS
  <2>1. o[1].from \in S /\ o[1].to \in S
    BY DEF Observations
  <2>2. \A n \in S : (IF n \in Expansion THEN f[n] ELSE n) = (IF n \in Expansion THEN id[n] ELSE n)
    BY <1>8
  <2> HIDE DEF id
  <2> QED BY <2>1, <2>2 DEF Said
<1>16. Obligations(Heard(p, S, pl.retained)) = Obligations(Heard(q, S, Unit))
  <2> HIDE DEF id, kept, found
  <2>1. {Said(f, o) : o \in Observations(p, S, pl.retained)}
          = {Said(id, o) : o \in Observations(p, S, pl.retained)}
    BY <1>15
  <2>2. Obligations({Said(id, o) : o \in Observations(p, S, pl.retained)})
          = Obligations({Said(id, o) : o \in Observations(q, S, Unit)})
    BY <1>7, <1>9, <1>11, <2>1
  <2> QED BY <2>2 DEF Heard, AllNamed, id
<1>17. Agree(p, q, S, pl.retained)
  BY <1>1, <1>2, <1>3, <1>4, <1>6, <1>10, <1>13, <1>14, <1>16 DEF Agree
<1> QED BY <1>3, <1>7, <1>10, <1>17 DEF p, S, T

-----------------------------------------------------------------------------
\* The snapshots are of this plan and of what the compiler saw of its rewritten
\* source, and neither failed.
IInv ==
  /\ TypeOK /\ plan \in Plans
  /\ pc # "done" => outcome = "none"
  /\ expected = IF pc = "original" THEN Failed ELSE OriginalSnapshot(plan)
  /\ pc \in {"reduced", "compare", "done"} => reduced \in Candidates(plan)
  /\ observed = IF pc \in {"compare", "done"} THEN ReducedSnapshot(reduced) ELSE Failed
  /\ pc = "done" => outcome = Difference(expected, observed)

\* Nothing is built at first.
LEMMA InitIInv == Init => IInv
BY PlanAssumption DEF Init, IInv, TypeOK, Plan

\* Each step keeps what the snapshots built so far are of.
LEMMA NextIInv ==
  ASSUME IInv, [Next]_vars
  PROVE  IInv'
<1>1. CASE Original
  <2>1. expected'.ok
    BY <1>1, SnapshotsBuilt DEF Original, IInv
  <2> QED BY <1>1, <2>1 DEF Original, End, IInv, TypeOK
<1>2. CASE Inspect
  <2>1. WellFormed(reduced')
    BY <1>2, PlanAssumption DEF Inspect, IInv
  <2> QED BY <1>2, <2>1 DEF Inspect, IInv, TypeOK, WellFormed
<1>3. CASE Reduced
  <2>1. observed'.ok
    BY <1>3, SnapshotsBuilt DEF Reduced, IInv
  <2> QED BY <1>3, <2>1 DEF Reduced, End, IInv, TypeOK
<1>4. CASE Compare
  BY <1>4 DEF Compare, End, IInv, TypeOK, Difference
<1>5. CASE UNCHANGED vars
  BY <1>5 DEF vars, IInv, TypeOK
<1> QED BY <1>1, <1>2, <1>3, <1>4, <1>5 DEF Next

\* The inductive invariant holds.
LEMMA Inductive == Spec => []IInv
BY InitIInv, NextIInv, PTL DEF Spec

\* TypeOK: a comparison ends with a difference, an error or the acceptance, about
\* a program that DependencyGraph::new accepts.
THEOREM TypeCorrect == Spec => []TypeOK
<1>1. IInv => TypeOK
  BY DEF IInv
<1> QED BY <1>1, Inductive, PTL

\* Neither error nor outcome "none" is a difference; acceptance is none at all.
LEMMA Differences ==
  ASSUME NEW a, NEW b
  PROVE  /\ Difference(a, b) \in {"root", "node", "edge", "accepted"}
         /\ Difference(a, b) = "accepted" <=>
              a.roots = b.roots /\ a.nodes = b.nodes /\ a.edges = b.edges
BY DEF Difference

\* AcceptedIsSame, for any programs: whatever keys the expansions were given, no
\* difference between the snapshots means that the compiler decided the same
\* about the kept part of the original and all of the reduced program, up to a
\* renaming of expansions (first_difference).
THEOREM AcceptedMeansSame == Spec => []AcceptedIsSame
<1>1. IInv => AcceptedIsSame
  <2> SUFFICES ASSUME IInv, outcome = "accepted"
               PROVE  \E f \in Bijection(KeptExpansions(plan), FoundExpansions(reduced)) :
                        Same(f, plan, reduced)
    BY DEF AcceptedIsSame
  <2>1. pc = "done"
    BY DEF IInv
  <2>2. /\ plan \in Plans /\ reduced \in Candidates(plan)
        /\ expected = OriginalSnapshot(plan) /\ observed = ReducedSnapshot(reduced)
        /\ Difference(expected, observed) = "accepted"
    BY <2>1 DEF IInv
  <2>3. expected.ok /\ observed.ok
    BY <2>2, SnapshotsBuilt
  <2>4. /\ expected.roots = observed.roots /\ expected.nodes = observed.nodes
        /\ expected.edges = observed.edges
    BY <2>2, Differences
  <2> QED BY <2>2, <2>3, <2>4, EqualIsSame
<1> QED BY <1>1, Inductive, PTL

\* SameIsAccepted, for any plans that retention makes of collected graphs: no
\* snapshot fails, and what the compiler decided the same is accepted where the
\* order of siblings is kept or generated definitions tell siblings apart
\* (snapshot_expansion_keys).
THEOREM SameMeansAccepted == Spec => []SameIsAccepted
<1>1. IInv => SameIsAccepted
  <2> SUFFICES ASSUME IInv PROVE SameIsAccepted
    OBVIOUS
  <2>1. plan \in Plans
    BY DEF IInv
  <2>2. outcome # "error"
    BY Differences DEF IInv, TypeOK
  <2>3. \A n \in expected.nodes \cup observed.nodes : n[1] \in Seq(Nat \X Nat)
    <3>1. Failed.nodes = {}
      BY DEF Failed
    <3>2. \A n \in expected.nodes : n[1] \in Seq(Nat \X Nat)
      BY <2>1, <3>1, SnapshotsBuilt DEF IInv
    <3>3. \A n \in observed.nodes : n[1] \in Seq(Nat \X Nat)
      BY <2>1, <3>1, SnapshotsBuilt DEF IInv
    <3> QED BY <3>2, <3>3
  <2>4. ASSUME pc = "done", Unchanged, OrderKept \/ Witnessed
        PROVE  outcome = "accepted"
    <3> DEFINE p == plan.program
               S == OriginalSelected(plan)
    <3>1. /\ reduced \in Candidates(plan) /\ expected = OriginalSnapshot(plan)
          /\ observed = ReducedSnapshot(reduced) /\ outcome = Difference(expected, observed)
      BY <2>4 DEF IInv
    <3>2. /\ Agree(p, reduced, S, plan.retained) /\ ReducedSelected(reduced) = S
          /\ p.roots = reduced.roots /\ p.roots \subseteq S
      BY <2>1, <2>4, <3>1, SameAgrees DEF Unchanged
    <3>3. Placed(p, reduced, S)
      <4>1. OrderKept => OrderAgrees(p, reduced, S \cap Expansion)
        BY DEF OrderKept, OrderAgrees, KeptExpansions
      <4>2. Witnessed => ToldApart(p, S)
        BY DEF Witnessed, ToldApart, KeptExpansions
      <4> QED BY <2>4, <4>1, <4>2 DEF Placed
    <3>4. expected = Build(p, S, plan.retained) /\ observed = Build(reduced, S, Unit)
      BY <2>1, <3>1, <3>2, SnapshotsBuilt DEF ReducedSnapshot
    <3> HIDE DEF p, S
    <3>5. /\ expected.roots = observed.roots /\ expected.nodes = observed.nodes
          /\ expected.edges = observed.edges
      BY <3>2, <3>3, <3>4, AgreeingIsEqual
    <3> QED BY <3>1, <3>5, Differences
  <2> QED BY <2>2, <2>3, <2>4 DEF SameIsAccepted
<1> QED BY <1>1, Inductive, PTL
=============================================================================
