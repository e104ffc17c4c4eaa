------------------------ MODULE MacroProducts_proofs ------------------------
(***************************************************************************)
(* The safety properties of MacroProducts, for every set of validated      *)
(* facts and every order in which a caller hands nodes and units over.     *)
(*                                                                         *)
(* What has left a queue has had its effect (ProductInv to DemandInv); the *)
(* meaning of a producer that a group owes to its own dependency is there, *)
(* or another group of the producer will bring it (MeaningInv), which      *)
(* rests on the order of the phases; and whatever satisfies the            *)
(* constraints and holds what the caller added holds everything            *)
(* (LeastInv).                                                             *)
(***************************************************************************)
EXTENDS MacroProducts, FiniteSetTheorems, WellFoundedInduction, TLAPS

ProcessedProducts == seenActual \ pending["products"]
ProcessedContributors == requested \ pending["requested"]
ProcessedMeaning == meaningful \ pending["meaningful"]

\* The caller's facts are its own until they are delivered.
CallerInv ==
  /\ undelivered \subseteq inputs
  /\ \A x \in Node \cup Unit :
       /\ <<"compile", x>> \in inputs => x \in compile
       /\ <<"actual", x>> \in inputs => x \in actual
       /\ <<"source", x>> \in inputs => x \in retained
       /\ x \in compile \ seenPresence => <<"compile", x>> \in undelivered
       /\ x \in actual \ seenActual => <<"actual", x>> \in undelivered
       /\ x \in retained \ seenSource => <<"source", x>> \in undelivered

\* Groups are made in their phase, and meaning that comes with them is passed on
\* before a presence is looked at again.
PhaseInv ==
  /\ groupQueue # {} => phase = 6
  /\ materialized = {} \/ pending["meaningful"] = {} \/ phase \in {6, 7}

\* Classes, members and triggers of what was visited.
ProductInv ==
  \A c \in facts.classes : c \cap ProcessedProducts # {} => c \subseteq actual \cap compile

PresenceInv ==
  /\ \A r \in facts.requirements : r[1] \in ProcessedPresence => r[2] \in compile
  /\ \A r \in facts.conditional :
       r[1] \in ProcessedPresence /\ r[2] \in ProcessedPresence => r[3] \in compile

TriggerInv ==
  \A n \in ProcessedPresence :
    (n \in facts.producers => n \in ProcessedMeaning) =>
      \A g \in Group : n \in TriggersOf(facts, g) => g \in opened

ActualInv ==
  /\ \A r \in facts.requirements : r[1] \in ProcessedActual => r[2] \in actual \cap compile
  /\ \A r \in facts.conditional :
       r[1] \in ProcessedActual /\ r[2] \in ProcessedActual => r[3] \in actual \cap compile
  /\ \A x \in facts.producers : facts.demandTriggers[x] \cap ProcessedActual # {} => x \in demanded

\* Requested groups have their contributors requested, up to the sources.
RequestInv ==
  /\ \A g \in opened : facts.roots[g] \subseteq requested
  /\ \A c \in ProcessedContributors :
       facts.sources[c] \subseteq retained /\ facts.parents[c] \subseteq requested

\* What is complete, and what may become so.
CompleteInv ==
  /\ \A c \in complete : ContributorReady(c, ConsumedSource, complete)
  /\ \A c \in Contributor \ complete :
       ContributorReady(c, ConsumedSource, complete) => c \in pending["complete"]
  /\ \A g \in Group : facts.roots[g] \subseteq complete <=> g \in materialized \cup groupQueue

GroupInv ==
  \A g \in materialized :
    /\ facts.products[g] \subseteq compile
    /\ \A o \in facts.owners[g] : o.owner \in ProcessedPresence => o.members \subseteq compile

\* The group's producer is meaningful, or another group that was requested will
\* make it so.
MeaningComes(g) ==
  \/ facts.producer[g] \in meaningful
  \/ \E h \in opened : facts.producer[h] = facts.producer[g] /\ IntrinsicGroup(facts, h)

MeaningInv ==
  /\ facts.intrinsic \subseteq meaningful
  /\ \A x \in ProcessedMeaning :
       /\ facts.dependentProducers[x] \subseteq meaningful
       /\ \A g \in Group : x \in DependsOn(facts, g) => g \in dependency
  /\ \A g \in materialized :
       /\ IntrinsicGroup(facts, g) => facts.producer[g] \in meaningful
       /\ g \in dependency => MeaningComes(g)

\* No clause is ready and waits; a satisfied one has had its effect; a child
\* that is demanded and visited is handled.
DemandInv ==
  /\ ReadyClauses(ProcessedActual, handled) = {}
  /\ \A d \in satisfied :
       /\ \A x \in d.required : x \in IF x \in facts.producers THEN demanded ELSE children
       /\ d.group = {} => d.producer \in demanded
       /\ d.group \subseteq opened
  /\ demanded \subseteq handled \cup pending["demanded"]
  /\ children \subseteq handled \cup pending["required"]
  /\ pending["required"] \cap facts.producers = {}
  /\ handled \subseteq actual \cap compile

\* What satisfies the constraints and holds what the caller added.
Solution(C, A, U) ==
  /\ ClosedFacts(C, A, U)
  /\ \A x \in Node \cup Unit :
       /\ <<"compile", x>> \in inputs => x \in C
       /\ <<"actual", x>> \in inputs => x \in A
       /\ <<"source", x>> \in inputs => x \in U

ContributorSources(c) == UNION {facts.sources[d] : d \in ContributorClosure(facts, c)}

Within(C, A, U) ==
  /\ compile \subseteq C /\ actual \subseteq A /\ retained \subseteq U
  /\ opened \subseteq ActiveGroups(U)
  /\ \A c \in requested : ContributorSources(c) \subseteq U
  /\ meaningful \subseteq MeaningfulProducers(ActiveGroups(U))
  /\ \A g \in dependency \cap ActiveGroups(U) :
       facts.producer[g] \in MeaningfulProducers(ActiveGroups(U))
  /\ demanded \cup children \subseteq DemandedExpansions(A)

LeastInv ==
  \A C, A \in SUBSET Node, U \in SUBSET Unit : Solution(C, A, U) => Within(C, A, U)

IInv ==
  /\ TypeOK /\ CallerInv /\ PhaseInv /\ ProductInv /\ PresenceInv /\ TriggerInv /\ ActualInv
  /\ RequestInv /\ CompleteInv /\ GroupInv /\ MeaningInv /\ DemandInv /\ LeastInv

-----------------------------------------------------------------------------
(* The validated facts                                                     *)

LEMMA FactTypes ==
  ASSUME NEW f \in FactSets
  PROVE  /\ f.producers \subseteq Expansion /\ f.intrinsic \subseteq f.producers
         /\ \A x \in Expansion : /\ f.dependentProducers[x] \subseteq f.producers
                                 /\ f.demandTriggers[x] \subseteq Definition
         /\ \A g \in Group :
              /\ f.producer[g] \in f.producers
              /\ f.products[g] \subseteq Node
              /\ f.roots[g] \subseteq Contributor
              /\ \A o \in f.owners[g] :
                   /\ o.owner \in Definition /\ o.members \subseteq Definition
                   /\ o.effect \in {"Semantic", "Shell"} /\ o.dependents \subseteq Node
         /\ \A c \in Contributor : f.sources[c] \subseteq Unit /\ f.parents[c] \subseteq Contributor
         /\ \A d \in f.demands :
              /\ d.producer \in Expansion /\ d.group \subseteq Group
              /\ d.group = {} => d.producer \in f.producers
              /\ d.carriers \subseteq Definition
              /\ d.dependents \subseteq Expansion /\ d.required \subseteq Expansion
         /\ \A c \in f.classes : c \subseteq Definition
         /\ \A r \in f.requirements : r[1] \in Definition /\ r[2] \in Definition
         /\ \A r \in f.conditional : r[1] \in Definition /\ r[2] \in Definition /\ r[3] \in Definition
<1> DEFINE Typed ==
      /\ f.producers \subseteq Expansion
      /\ f.intrinsic \subseteq f.producers
      /\ f.dependentProducers \in [Expansion -> SUBSET f.producers]
      /\ f.demandTriggers \in [Expansion -> SUBSET Definition]
      /\ f.producer \in [Group -> f.producers]
      /\ f.products \in [Group -> SUBSET Node]
      /\ \A g \in Group : f.owners[g] \subseteq OwnerRequirement
      /\ f.roots \in [Group -> SUBSET Contributor]
      /\ f.sources \in [Contributor -> SUBSET Unit]
      /\ f.parents \in [Contributor -> SUBSET Contributor]
      /\ f.demands \subseteq Demand
      /\ \A d \in f.demands : d.group = {} => d.producer \in f.producers
      /\ f.classes \subseteq SUBSET Definition
      /\ f.requirements \subseteq Definition \X Definition
      /\ f.conditional \subseteq Definition \X Definition \X Definition
<1>1. Typed
  BY FactAssumption
<1>2. /\ \A x \in Expansion : /\ f.dependentProducers[x] \subseteq f.producers
                              /\ f.demandTriggers[x] \subseteq Definition
      /\ \A g \in Group : /\ f.producer[g] \in f.producers
                          /\ f.products[g] \subseteq Node
                          /\ f.roots[g] \subseteq Contributor
      /\ \A c \in Contributor : f.sources[c] \subseteq Unit /\ f.parents[c] \subseteq Contributor
  BY <1>1
<1>3. \A g \in Group : \A o \in f.owners[g] :
        /\ o.owner \in Definition /\ o.members \subseteq Definition
        /\ o.effect \in {"Semantic", "Shell"} /\ o.dependents \subseteq Node
  BY <1>1 DEF OwnerRequirement
<1>4. \A d \in f.demands :
        /\ d.producer \in Expansion /\ d.group \subseteq Group
        /\ d.group = {} => d.producer \in f.producers
        /\ d.carriers \subseteq Definition
        /\ d.dependents \subseteq Expansion /\ d.required \subseteq Expansion
  BY <1>1 DEF Demand
<1>5. /\ \A r \in f.requirements : r[1] \in Definition /\ r[2] \in Definition
      /\ \A r \in f.conditional : r[1] \in Definition /\ r[2] \in Definition /\ r[3] \in Definition
  BY <1>1
<1>6. f.producers \subseteq Expansion /\ f.intrinsic \subseteq f.producers
      /\ \A c \in f.classes : c \subseteq Definition
  BY <1>1
<1> QED BY <1>2, <1>3, <1>4, <1>5, <1>6

LEMMA Kinds == Definition \cap Expansion = {} /\ IsFiniteSet(Contributor)
BY FactAssumption

\* What triggers a group without meaningful output of its own is meaningful
\* output it depends on, or a definition that another group of the producer makes.
LEMMA TriggerOfShell ==
  ASSUME NEW f \in FactSets, NEW g \in Group, NEW n \in TriggersOf(f, g), ~IntrinsicGroup(f, g)
  PROVE  \/ n \in f.producers /\ n \in DependsOn(f, g)
         \/ /\ n \in Definition
            /\ \E h \in Group : /\ f.producer[h] = f.producer[g] /\ IntrinsicGroup(f, h)
                                /\ n \in TriggersOf(f, h)
<1>1. Accepted(f)
  BY FactsAccepted
<1>2. f.products[g] \subseteq f.producers
  BY DEF IntrinsicGroup
<1>3. f.products[g] \cap Expansion = RoleExpansions(f, g)
  BY <1>1 DEF Accepted
<1>4. n \notin f.products[g] \ RoleExpansions(f, g)
  BY <1>2, <1>3, FactTypes
<1>5. \A o \in f.owners[g] : o.effect # "Semantic"
  BY DEF IntrinsicGroup
<1>6. n \in DependsOn(f, g)
  BY <1>4, <1>5 DEF TriggersOf
<1>7. CASE n \in f.producers
  BY <1>6, <1>7
<1>8. CASE n \notin f.producers
  <2>1. PICK o \in f.owners[g] : /\ o.effect = "Shell" /\ n \in o.dependents
                                 /\ n \in Expansion \/ n \notin f.products[g]
    BY <1>6, <1>8 DEF DependsOn
  <2>2. n \in Definition
    BY <1>8, <2>1, FactTypes DEF IntrinsicGroup, Node
  <2>3. PICK h \in Group : f.producer[h] = f.producer[g] /\ n \in f.products[h]
    BY <1>1, <2>1 DEF Accepted
  <2>4. IntrinsicGroup(f, h)
    BY <1>8, <2>3 DEF IntrinsicGroup
  <2>5. n \notin RoleExpansions(f, h)
    BY <2>2, FactTypes, Kinds DEF RoleExpansions, GroupDemands
  <2>6. n \in TriggersOf(f, h)
    BY <2>3, <2>5 DEF TriggersOf
  <2> QED BY <2>2, <2>3, <2>4, <2>6
<1> QED BY <1>7, <1>8

LEMMA ClosureFacts ==
  ASSUME NEW f \in FactSets, NEW c \in Contributor
  PROVE  /\ c \in ContributorClosure(f, c) /\ ContributorClosure(f, c) \subseteq Contributor
         /\ \A d \in ContributorClosure(f, c) : f.parents[d] \subseteq ContributorClosure(f, c)
         /\ \A S \in SUBSET Contributor :
              c \in S /\ (\A x \in S : f.parents[x] \subseteq S) => ContributorClosure(f, c) \subseteq S
<1>1. \A d \in Contributor : f.parents[d] \subseteq Contributor
  BY FactTypes
<1> QED BY <1>1 DEF ContributorClosure

LEMMA ClosureOfParent ==
  ASSUME NEW f \in FactSets, NEW c \in Contributor, NEW p \in f.parents[c]
  PROVE  /\ p \in Contributor /\ ContributorClosure(f, p) \subseteq ContributorClosure(f, c)
         /\ c \notin ContributorClosure(f, p)
<1>1. p \in Contributor
  BY FactTypes
<1>2. c \notin ContributorClosure(f, p)
  BY FactsAccepted DEF Accepted
<1> QED BY <1>1, <1>2, ClosureFacts

-----------------------------------------------------------------------------
(* The definitions from scratch                                            *)

\* What meaningful_producers asks of a set, rule by rule.
MeaningRules(active, P) ==
  /\ facts.intrinsic \subseteq P
  /\ \A x \in P : facts.dependentProducers[x] \subseteq P
  /\ \A g \in active :
       /\ IntrinsicGroup(facts, g) => facts.producer[g] \in P
       /\ \A n \in DependsOn(facts, g) :
            \/ n \in Expansion /\ n \in P
            \/ n \in Definition /\ \E h \in active : n \in facts.products[h]
            => facts.producer[g] \in P

LEMMA MeaningLeast ==
  ASSUME facts \in FactSets, NEW active \in SUBSET Group
  PROVE  /\ MeaningfulProducers(active) \subseteq facts.producers
         /\ MeaningRules(active, MeaningfulProducers(active))
         /\ \A P \in SUBSET facts.producers :
              MeaningRules(active, P) => MeaningfulProducers(active) \subseteq P
<1> DEFINE M == MeaningfulProducers(active)
<1>1. M = {x \in facts.producers :
             \A P \in SUBSET facts.producers : MeaningRules(active, P) => x \in P}
  BY DEF MeaningfulProducers, MeaningRules
<1> HIDE DEF M
<1>2. M \subseteq facts.producers
  BY <1>1
<1>3. \A P \in SUBSET facts.producers : MeaningRules(active, P) => M \subseteq P
  BY <1>1
<1>4. facts.intrinsic \subseteq M
  BY <1>1, FactTypes DEF MeaningRules
<1>5. ASSUME NEW x \in M
      PROVE  facts.dependentProducers[x] \subseteq M
  <2>1. facts.dependentProducers[x] \subseteq facts.producers
    BY <1>2, FactTypes
  <2> QED BY <1>1, <2>1 DEF MeaningRules
<1>6. ASSUME NEW g \in active
      PROVE  /\ IntrinsicGroup(facts, g) => facts.producer[g] \in M
             /\ \A n \in DependsOn(facts, g) :
                  \/ n \in Expansion /\ n \in M
                  \/ n \in Definition /\ \E h \in active : n \in facts.products[h]
                  => facts.producer[g] \in M
  <2>1. facts.producer[g] \in facts.producers
    BY FactTypes
  <2>2. IntrinsicGroup(facts, g) => facts.producer[g] \in M
    BY <1>1, <2>1 DEF MeaningRules
  <2>3. ASSUME NEW n \in DependsOn(facts, g),
               \/ n \in Expansion /\ n \in M
               \/ n \in Definition /\ \E h \in active : n \in facts.products[h]
        PROVE  facts.producer[g] \in M
    <3>1. ASSUME NEW P \in SUBSET facts.producers, MeaningRules(active, P)
          PROVE  facts.producer[g] \in P
      BY <1>3, <2>3, <3>1 DEF MeaningRules
    <3> QED BY <1>1, <2>1, <3>1
  <2> QED BY <2>2, <2>3
<1>7. MeaningRules(active, M)
  BY <1>4, <1>5, <1>6 DEF MeaningRules
<1> QED BY <1>2, <1>3, <1>7 DEF M

DemandReady(d, A, H) ==
  /\ d.carriers \cap A # {}
  /\ \/ d.required # {}
     \/ \E x \in d.dependents : x \notin facts.producers \/ x \in H

DemandRules(A, H) ==
  /\ \A x \in facts.producers : facts.demandTriggers[x] \cap A # {} => x \in H
  /\ \A d \in facts.demands :
       DemandReady(d, A, H) => d.required \subseteq H /\ (d.group = {} => d.producer \in H)

LEMMA DemandLeast ==
  ASSUME facts \in FactSets, NEW A
  PROVE  /\ DemandedExpansions(A) \subseteq Expansion
         /\ DemandRules(A, DemandedExpansions(A))
         /\ \A H \in SUBSET Expansion : DemandRules(A, H) => DemandedExpansions(A) \subseteq H
<1> DEFINE L == DemandedExpansions(A)
<1>1. L = {x \in Expansion : \A H \in SUBSET Expansion : DemandRules(A, H) => x \in H}
  BY DEF DemandedExpansions, DemandRules, DemandReady
<1> HIDE DEF L
<1>2. \A H \in SUBSET Expansion : DemandRules(A, H) => L \subseteq H
  BY <1>1
<1>3. \A x \in facts.producers : facts.demandTriggers[x] \cap A # {} => x \in L
  BY <1>1, FactTypes DEF DemandRules
<1>4. ASSUME NEW d \in facts.demands, DemandReady(d, A, L)
      PROVE  d.required \subseteq L /\ (d.group = {} => d.producer \in L)
  <2>1. d.required \subseteq Expansion /\ d.producer \in Expansion
    BY FactTypes
  <2>2. ASSUME NEW H \in SUBSET Expansion, DemandRules(A, H)
        PROVE  d.required \subseteq H /\ (d.group = {} => d.producer \in H)
    <3>1. DemandReady(d, A, H)
      BY <1>2, <1>4, <2>2 DEF DemandReady
    <3> QED BY <2>2, <3>1 DEF DemandRules
  <2> QED BY <1>1, <2>1, <2>2
<1>5. DemandRules(A, L)
  BY <1>3, <1>4 DEF DemandRules
<1> QED BY <1>1, <1>2, <1>5 DEF L

\* The constraints, rule by rule.
LEMMA ClosedRules ==
  ASSUME facts \in FactSets, NEW C \in SUBSET Node, NEW A \in SUBSET Node, NEW U \in SUBSET Unit
  PROVE  ClosedFacts(C, A, U) <=>
           /\ \A r \in facts.requirements :
                (r[1] \in C => r[2] \in C) /\ (r[1] \in A => r[2] \in A \cap C)
           /\ \A r \in facts.conditional :
                /\ r[1] \in C /\ r[2] \in C => r[3] \in C
                /\ r[1] \in A /\ r[2] \in A => r[3] \in A \cap C
           /\ \A c \in facts.classes : c \cap A # {} => c \subseteq A \cap C
           /\ \A g \in Group : \A n \in TriggersOf(facts, g) \cap C :
                (n \in facts.producers => n \in MeaningfulProducers(ActiveGroups(U)))
                  => g \in ActiveGroups(U)
           /\ \A g \in ActiveGroups(U) :
                /\ facts.products[g] \subseteq C
                /\ \A o \in facts.owners[g] : o.owner \in C => o.members \subseteq C
           /\ DemandedExpansions(A) \subseteq A \cap C
           /\ \A d \in facts.demands :
                DemandReady(d, A, DemandedExpansions(A)) => d.group \subseteq ActiveGroups(U)
<1> DEFINE M == MeaningfulProducers(ActiveGroups(U))
           H == DemandedExpansions(A)
<1>1. \A g \in Group : g \in ActiveGroups(U) <=> GroupSources(facts, g) \subseteq U
  BY DEF ActiveGroups
<1>2. \A d \in facts.demands : d.group \subseteq Group
  BY FactTypes
<1> HIDE DEF M, H
<1>3. ClosedFacts(C, A, U) <=>
         /\ \A r \in facts.requirements :
              (r[1] \in C => r[2] \in C) /\ (r[1] \in A => r[2] \in A \cap C)
         /\ \A r \in facts.conditional :
              /\ {r[1], r[2]} \subseteq C => r[3] \in C
              /\ {r[1], r[2]} \subseteq A => r[3] \in A \cap C
         /\ \A c \in facts.classes : c \cap A # {} => c \subseteq A \cap C
         /\ \A g \in Group :
              (\E n \in TriggersOf(facts, g) \cap C : n \in facts.producers => n \in M)
                => GroupSources(facts, g) \subseteq U
         /\ \A g \in ActiveGroups(U) :
              /\ facts.products[g] \subseteq C
              /\ \A o \in facts.owners[g] : o.owner \in C => o.members \subseteq C
         /\ H \subseteq A \cap C
         /\ \A d \in facts.demands :
              /\ d.carriers \cap A # {}
              /\ \/ d.required # {}
                 \/ \E x \in d.dependents : x \notin facts.producers \/ x \in H
              => \A g \in d.group : GroupSources(facts, g) \subseteq U
  BY DEF ClosedFacts, M, H
<1>4. (\A g \in Group :
         (\E n \in TriggersOf(facts, g) \cap C : n \in facts.producers => n \in M)
           => GroupSources(facts, g) \subseteq U)
      <=> (\A g \in Group : \A n \in TriggersOf(facts, g) \cap C :
             (n \in facts.producers => n \in M) => g \in ActiveGroups(U))
  BY <1>1
<1>5. (\A d \in facts.demands :
              /\ d.carriers \cap A # {}
              /\ \/ d.required # {}
                 \/ \E x \in d.dependents : x \notin facts.producers \/ x \in H
              => \A g \in d.group : GroupSources(facts, g) \subseteq U)
      <=> (\A d \in facts.demands : DemandReady(d, A, H) => d.group \subseteq ActiveGroups(U))
  BY <1>1, <1>2 DEF DemandReady
<1>6. (\A r \in facts.conditional :
              /\ {r[1], r[2]} \subseteq C => r[3] \in C
              /\ {r[1], r[2]} \subseteq A => r[3] \in A \cap C)
      <=> (\A r \in facts.conditional :
                /\ r[1] \in C /\ r[2] \in C => r[3] \in C
                /\ r[1] \in A /\ r[2] \in A => r[3] \in A \cap C)
  OBVIOUS
<1> QED BY <1>3, <1>4, <1>5, <1>6 DEF M, H
-----------------------------------------------------------------------------
(* The queues and the effect of a step                                     *)

Names == {"products", "presence", "actual", "source", "requested", "complete",
          "meaningful", "demanded", "required"}

LEMMA PhaseFacts ==
  /\ Len(Phases) = 9 /\ DOMAIN NoPending = Names
  /\ \A p \in Names : NoPending[p] = {}
  /\ \A i \in 1..9 : /\ Phases[i] \in Names
                     /\ Phases[i] = "complete" <=> i = 6
                     /\ Phases[i] = "meaningful" <=> i = 7
<1>1. Len(Phases) = 9
  BY DEF Phases
<1>2. \A i \in 1..9 : /\ Phases[i] \in Names
                      /\ Phases[i] = "complete" <=> i = 6
                      /\ Phases[i] = "meaningful" <=> i = 7
  BY DEF Phases, Names
<1>3. {Phases[i] : i \in 1..9} = Names
  <2>1. /\ Phases[1] = "products" /\ Phases[2] = "presence" /\ Phases[3] = "actual"
        /\ Phases[4] = "source" /\ Phases[5] = "requested" /\ Phases[6] = "complete"
        /\ Phases[7] = "meaningful" /\ Phases[8] = "demanded" /\ Phases[9] = "required"
    BY DEF Phases
  <2>2. \A p \in Names : \E i \in 1..9 : Phases[i] = p
    BY <2>1 DEF Names
  <2> QED BY <1>2, <2>2
<1> QED BY <1>1, <1>2, <1>3 DEF NoPending

\* The queues without one element of one of them.
Fewer(rest) ==
  rest \in [Names -> SUBSET (Node \cup Unit \cup Contributor)] /\ \A p \in Names : rest[p] \subseteq pending[p]

EffectType(e) ==
  /\ e.compile \subseteq Node /\ e.actual \subseteq Node /\ e.sources \subseteq Unit
  /\ e.contributors \subseteq Contributor /\ e.ready \subseteq Contributor
  /\ e.groups \subseteq Group
  /\ e.meaningful \subseteq facts.producers /\ e.demanded \subseteq facts.producers
  /\ e.children \subseteq Expansion

\* What a step does to the sets: they grow by what it asks for ...
Grown(e) ==
  /\ compile' = compile \cup e.compile \cup e.actual
  /\ actual' = actual \cup e.actual
  /\ retained' = retained \cup e.sources
  /\ opened' = opened \cup e.groups
  /\ requested \subseteq requested' /\ e.contributors \subseteq requested'
  /\ \A g \in e.groups \ opened : facts.roots[g] \subseteq requested'
  /\ \A c \in requested' :
       c \in requested \cup e.contributors \/ \E g \in e.groups : c \in facts.roots[g]
  /\ meaningful' = meaningful \cup e.meaningful
  /\ demanded' = demanded \cup e.demanded \cup (e.children \cap facts.producers)

\* ... and what is new waits in its queue.
Queued(e, rest) ==
  /\ compile' \ seenPresence' = compile \ seenPresence
  /\ actual' \ seenActual' = actual \ seenActual
  /\ retained' \ seenSource' = retained \ seenSource
  /\ ProcessedPresence' = seenPresence \ rest["presence"]
  /\ ProcessedProducts' = seenActual \ rest["products"]
  /\ ProcessedActual' = (seenActual \cap Definition) \ rest["actual"]
  /\ ConsumedSource' = seenSource \ rest["source"]
  /\ ProcessedContributors' = requested \ rest["requested"]
  /\ pending'["complete"] = rest["complete"] \cup e.ready
  /\ ProcessedMeaning' = meaningful \ rest["meaningful"]
  /\ pending'["meaningful"] = rest["meaningful"] \cup (e.meaningful \ meaningful)
  /\ demanded' \ pending'["demanded"] = demanded \ rest["demanded"]
  /\ pending'["required"] = rest["required"] \cup ((e.children \ facts.producers) \ children)

SeenType ==
  /\ compile \in SUBSET Node /\ actual \in SUBSET Node /\ retained \in SUBSET Unit
  /\ seenPresence \in SUBSET compile /\ seenActual \in SUBSET actual
  /\ seenSource \in SUBSET retained
  /\ requested \in SUBSET Contributor /\ opened \in SUBSET Group
  /\ meaningful \in SUBSET facts.producers /\ demanded \in SUBSET facts.producers
  /\ pending \in [DOMAIN NoPending -> SUBSET (Node \cup Unit \cup Contributor)]
  /\ pending["presence"] \in SUBSET seenPresence
  /\ pending["products"] \in SUBSET seenActual
  /\ pending["actual"] \in SUBSET (seenActual \cap Definition)
  /\ pending["source"] \in SUBSET seenSource
  /\ pending["requested"] \in SUBSET requested
  /\ pending["complete"] \in SUBSET Contributor
  /\ pending["meaningful"] \in SUBSET meaningful
  /\ pending["demanded"] \in SUBSET demanded

LEMMA Applied ==
  ASSUME TypeOK, NEW e, EffectType(e), NEW rest, Fewer(rest), Apply(e, rest)
  PROVE  Grown(e) /\ Queued(e, rest) /\ (facts' = facts => SeenType')
<1> DEFINE presence == (e.compile \cup e.actual) \ compile
           actuals == e.actual \ actual
           units == e.sources \ retained
           contributors == (e.contributors \cup
                             UNION {facts.roots[g] : g \in e.groups \ opened}) \ requested
           wanted == e.demanded \cup (e.children \cap facts.producers)
           plain == (e.children \ facts.producers) \ children
<1>1. /\ compile' = compile \cup presence /\ seenPresence' = seenPresence \cup presence
      /\ actual' = actual \cup actuals /\ seenActual' = seenActual \cup actuals
      /\ retained' = retained \cup units /\ seenSource' = seenSource \cup units
      /\ opened' = opened \cup e.groups /\ requested' = requested \cup contributors
      /\ meaningful' = meaningful \cup e.meaningful /\ demanded' = demanded \cup wanted
  BY DEF Apply
<1>2. /\ pending'["presence"] = rest["presence"] \cup (presence \ seenPresence)
      /\ pending'["products"] = rest["products"] \cup (actuals \ seenActual)
      /\ pending'["actual"] = rest["actual"] \cup ((actuals \ seenActual) \cap Definition)
      /\ pending'["source"] = rest["source"] \cup (units \ seenSource)
      /\ pending'["requested"] = rest["requested"] \cup contributors
      /\ pending'["complete"] = rest["complete"] \cup e.ready
      /\ pending'["meaningful"] = rest["meaningful"] \cup (e.meaningful \ meaningful)
      /\ pending'["demanded"] = rest["demanded"] \cup (wanted \ demanded)
      /\ pending'["required"] = rest["required"] \cup plain
  <2>1. pending' = [rest EXCEPT
       !["presence"] = @ \cup (presence \ seenPresence),
       !["products"] = @ \cup (actuals \ seenActual),
       !["actual"] = @ \cup ((actuals \ seenActual) \cap Definition),
       !["source"] = @ \cup (units \ seenSource),
       !["requested"] = @ \cup contributors,
       !["complete"] = @ \cup e.ready,
       !["meaningful"] = @ \cup (e.meaningful \ meaningful),
       !["demanded"] = @ \cup (wanted \ demanded),
       !["required"] = @ \cup plain]
    BY DEF Apply
  <2> HIDE DEF presence, actuals, units, contributors, wanted, plain
  <2> QED BY <2>1 DEF Fewer, Names
<1>3. Grown(e)
  BY <1>1 DEF Grown
<1>4. Queued(e, rest)
  BY <1>1, <1>2 DEF Queued, TypeOK, Fewer, Names, ProcessedPresence, ProcessedProducts, ProcessedActual,
       ConsumedSource, ProcessedContributors, ProcessedMeaning
<1>5. ASSUME facts' = facts
      PROVE  SeenType'
  <2>1. \A g \in Group : facts.roots[g] \subseteq Contributor
    BY FactTypes DEF TypeOK
  <2>2. contributors \subseteq Contributor /\ wanted \subseteq facts.producers /\ plain \subseteq Expansion
    BY <2>1, FactTypes DEF EffectType, TypeOK
  <2>3. pending' \in [Names -> SUBSET (Node \cup Unit \cup Contributor)]
    <3>1. presence \subseteq Node /\ actuals \subseteq Node /\ units \subseteq Unit
          /\ facts.producers \subseteq Node
      BY FactTypes DEF EffectType, TypeOK, Node
    <3>2. Expansion \subseteq Node
      BY DEF Node
    <3>3. pending' = [rest EXCEPT
       !["presence"] = @ \cup (presence \ seenPresence),
       !["products"] = @ \cup (actuals \ seenActual),
       !["actual"] = @ \cup ((actuals \ seenActual) \cap Definition),
       !["source"] = @ \cup (units \ seenSource),
       !["requested"] = @ \cup contributors,
       !["complete"] = @ \cup e.ready,
       !["meaningful"] = @ \cup (e.meaningful \ meaningful),
       !["demanded"] = @ \cup (wanted \ demanded),
       !["required"] = @ \cup plain]
      BY DEF Apply
    <3>4. e.ready \subseteq Contributor /\ e.meaningful \subseteq facts.producers
      BY DEF EffectType
    <3> HIDE DEF presence, actuals, units, contributors, wanted, plain
    <3>5. \A q \in Names : pending'[q] \in SUBSET (Node \cup Unit \cup Contributor)
      BY <1>2, <2>2, <3>1, <3>2, <3>4 DEF Fewer, Names, presence, actuals, units
    <3> QED BY <3>3, <3>5 DEF Fewer
  <2>4. pending' \in [DOMAIN NoPending -> SUBSET (Node \cup Unit \cup Contributor)]
    BY <2>3, PhaseFacts
  <2> HIDE DEF contributors, wanted, plain
  <2> QED BY <1>1, <1>2, <1>5, <2>2, <2>4 DEF SeenType, TypeOK, EffectType, Fewer, Names
<1> QED BY <1>3, <1>4, <1>5
LEMMA PoppedIs ==
  ASSUME TypeOK, NEW p \in Names, NEW x
  PROVE  /\ Fewer(Popped(p, x)) /\ Popped(p, x)[p] = pending[p] \ {x}
         /\ \A q \in Names \ {p} : Popped(p, x)[q] = pending[q]
BY PhaseFacts DEF TypeOK, Popped, Fewer

LEMMA PendingIs == TypeOK => Fewer(pending)
BY PhaseFacts DEF TypeOK, Fewer

LEMMA AtFacts ==
  ASSUME TypeOK, NEW p \in Names, NEW x, At(p, x)
  PROVE  /\ x \in pending[p] /\ phase \in 1..9
         /\ p = "complete" => phase = 6
         /\ p = "meaningful" => phase = 7
         /\ p \notin {"complete", "meaningful"} => phase \notin {6, 7}
BY PhaseFacts DEF At, TypeOK

-----------------------------------------------------------------------------
(* What a step leaves as it was: a rule depends on what has left its queue, *)
(* and its effects only grow.                                              *)

LEMMA FrameSets ==
  ASSUME IInv, NEW e, EffectType(e), NEW rest, Fewer(rest), Apply(e, rest), facts' = facts
  PROVE  /\ UNCHANGED <<undelivered, inputs>> => CallerInv'
         /\ rest["products"] = pending["products"] => ProductInv'
         /\ rest["presence"] = pending["presence"] => PresenceInv'
         /\ rest["presence"] = pending["presence"] /\ rest["meaningful"] = pending["meaningful"]
              => TriggerInv'
         /\ rest["actual"] = pending["actual"] => ActualInv'
         /\ rest["requested"] = pending["requested"] => RequestInv'
<1>1. Grown(e) /\ Queued(e, rest)
  BY Applied DEF IInv
<1>2. UNCHANGED <<undelivered, inputs>> => CallerInv'
  BY <1>1 DEF Grown, Queued, IInv, CallerInv
<1>3. rest["products"] = pending["products"] => ProductInv'
  BY <1>1 DEF Grown, Queued, IInv, ProductInv, ProcessedProducts
<1>4. rest["presence"] = pending["presence"] => PresenceInv'
  BY <1>1 DEF Grown, Queued, IInv, PresenceInv, ProcessedPresence
<1>5. rest["presence"] = pending["presence"] /\ rest["meaningful"] = pending["meaningful"]
        => TriggerInv'
  BY <1>1 DEF Grown, Queued, IInv, TriggerInv, ProcessedPresence, ProcessedMeaning
<1>6. rest["actual"] = pending["actual"] => ActualInv'
  BY <1>1 DEF Grown, Queued, IInv, ActualInv, ProcessedActual
<1>7. ASSUME rest["requested"] = pending["requested"]
      PROVE  RequestInv'
  <2>1. ProcessedContributors' = ProcessedContributors
    BY <1>1, <1>7 DEF Queued, ProcessedContributors
  <2>2. retained \subseteq retained' /\ requested \subseteq requested'
        /\ opened' = opened \cup e.groups
        /\ \A g \in e.groups \ opened : facts.roots[g] \subseteq requested'
    BY <1>1 DEF Grown
  <2> QED BY <2>1, <2>2 DEF IInv, RequestInv
<1> QED BY <1>2, <1>3, <1>4, <1>5, <1>6, <1>7

LEMMA FrameGroups ==
  ASSUME IInv, NEW e, EffectType(e), NEW rest, Fewer(rest), Apply(e, rest), facts' = facts,
         UNCHANGED materialized
  PROVE  /\ /\ rest["source"] = pending["source"] /\ rest["complete"] = pending["complete"]
            /\ UNCHANGED <<complete, groupQueue>>
            => CompleteInv'
         /\ rest["presence"] = pending["presence"] => GroupInv'
         /\ rest["meaningful"] = pending["meaningful"] /\ UNCHANGED dependency => MeaningInv'
<1>1. Grown(e) /\ Queued(e, rest)
  BY Applied DEF IInv
<1>2. ASSUME rest["source"] = pending["source"], rest["complete"] = pending["complete"],
             UNCHANGED <<complete, groupQueue>>
      PROVE  CompleteInv'
  <2>1. ConsumedSource' = ConsumedSource /\ pending["complete"] \subseteq pending'["complete"]
    BY <1>1, <1>2 DEF Queued, ConsumedSource
  <2> QED BY <1>2, <2>1 DEF IInv, CompleteInv, ContributorReady
<1>3. ASSUME rest["presence"] = pending["presence"]
      PROVE  GroupInv'
  <2>1. ProcessedPresence' = ProcessedPresence /\ compile \subseteq compile'
    BY <1>1, <1>3 DEF Queued, Grown, ProcessedPresence
  <2> QED BY <2>1 DEF IInv, GroupInv
<1>4. ASSUME rest["meaningful"] = pending["meaningful"], UNCHANGED dependency
      PROVE  MeaningInv'
  <2>1. /\ ProcessedMeaning' = ProcessedMeaning /\ meaningful \subseteq meaningful'
        /\ opened \subseteq opened'
    BY <1>1, <1>4 DEF Queued, Grown, ProcessedMeaning
  <2>2. \A g : MeaningComes(g) => MeaningComes(g)'
    BY <2>1 DEF MeaningComes
  <2> QED BY <1>4, <2>1, <2>2 DEF IInv, MeaningInv
<1> QED BY <1>2, <1>3, <1>4

LEMMA FrameDemands ==
  ASSUME IInv, NEW e, EffectType(e), NEW rest, Fewer(rest), Apply(e, rest), facts' = facts,
         rest["actual"] = pending["actual"], rest["demanded"] = pending["demanded"],
         rest["required"] = pending["required"], e.children = {},
         UNCHANGED <<children, handled, satisfied>>
  PROVE  DemandInv'
<1>1. Grown(e) /\ Queued(e, rest)
  BY Applied DEF IInv
<1>2. /\ ProcessedActual' = ProcessedActual /\ pending'["required"] = pending["required"]
      /\ demanded' \ pending'["demanded"] = demanded \ pending["demanded"]
  BY <1>1 DEF Queued, ProcessedActual
<1>3. /\ demanded \subseteq demanded' /\ opened \subseteq opened'
      /\ actual \cap compile \subseteq actual' \cap compile'
  BY <1>1 DEF Grown
<1>4. ReadyClauses(ProcessedActual, handled)' = ReadyClauses(ProcessedActual, handled)
  BY <1>2 DEF ReadyClauses
<1> QED BY <1>2, <1>3, <1>4 DEF IInv, DemandInv

\* The phases change in NextPhase only.
LEMMA FramePhase ==
  ASSUME IInv, NEW e, EffectType(e), NEW rest, Fewer(rest), Apply(e, rest), facts' = facts,
         e.meaningful # {} => phase \in {6, 7}, UNCHANGED <<phase, groupQueue, materialized>>
  PROVE  PhaseInv'
<1>1. pending'["meaningful"] = rest["meaningful"] \cup (e.meaningful \ meaningful)
  BY Applied DEF IInv, Queued
<1>2. rest["meaningful"] \subseteq pending["meaningful"]
  BY DEF Fewer, Names
<1> QED BY <1>1, <1>2 DEF IInv, PhaseInv

-----------------------------------------------------------------------------
(* Solutions                                                               *)

LEMMA SolutionKept ==
  ASSUME facts' = facts, NEW C, NEW A, NEW U
  PROVE  /\ ActiveGroups(U)' = ActiveGroups(U)
         /\ \A S : MeaningfulProducers(S)' = MeaningfulProducers(S)
         /\ DemandedExpansions(A)' = DemandedExpansions(A)
         /\ \A c : ContributorSources(c)' = ContributorSources(c)
         /\ ClosedFacts(C, A, U)' <=> ClosedFacts(C, A, U)
<1>1. ActiveGroups(U)' = ActiveGroups(U)
  BY DEF ActiveGroups
<1>2. ASSUME NEW S
      PROVE  MeaningfulProducers(S)' = MeaningfulProducers(S)
  BY DEF MeaningfulProducers
<1>3. DemandedExpansions(A)' = DemandedExpansions(A)
  BY DEF DemandedExpansions
<1>4. ASSUME NEW c
      PROVE  ContributorSources(c)' = ContributorSources(c)
  BY DEF ContributorSources
<1>5. ClosedFacts(C, A, U)' <=> ClosedFacts(C, A, U)
  BY <1>1, <1>2, <1>3 DEF ClosedFacts
<1> QED BY <1>1, <1>2, <1>3, <1>4, <1>5
\* Whatever active groups contribute is retained.
LEMMA ActiveContributors ==
  ASSUME facts \in FactSets, NEW U, NEW g \in ActiveGroups(U), NEW c \in facts.roots[g]
  PROVE  ContributorSources(c) \subseteq U
<1>1. GroupSources(facts, g) \subseteq U
  BY DEF ActiveGroups
<1> QED BY <1>1 DEF GroupSources, ContributorSources

\* Complete contributors have all their sources, so that what is materialized,
\* or about to be, is active.
LEMMA CompleteSources ==
  ASSUME IInv
  PROVE  /\ \A c \in complete : ContributorSources(c) \subseteq retained
         /\ \A g \in materialized \cup groupQueue : g \in ActiveGroups(retained)
<1>1. facts \in FactSets /\ complete \in SUBSET Contributor /\ ConsumedSource \subseteq retained
      /\ materialized \cup groupQueue \subseteq Group
  BY DEF IInv, TypeOK, ConsumedSource
<1>2. ASSUME NEW c \in complete
      PROVE  ContributorSources(c) \subseteq retained
  <2>1. \A d \in complete : facts.parents[d] \subseteq complete /\ facts.sources[d] \subseteq ConsumedSource
    BY DEF IInv, CompleteInv, ContributorReady
  <2>2. ContributorClosure(facts, c) \subseteq complete
    BY <1>1, <2>1, ClosureFacts
  <2> QED BY <1>1, <2>1, <2>2 DEF ContributorSources
<1>3. ASSUME NEW g \in materialized \cup groupQueue
      PROVE  g \in ActiveGroups(retained)
  <2>1. facts.roots[g] \subseteq complete
    BY <1>1 DEF IInv, CompleteInv
  <2>2. GroupSources(facts, g) \subseteq retained
    BY <1>2, <2>1 DEF GroupSources, ContributorSources
  <2> QED BY <1>1, <2>2 DEF ActiveGroups
<1> QED BY <1>2, <1>3

LEMMA ActiveInSolution ==
  ASSUME IInv, NEW C, NEW A, NEW U, Within(C, A, U)
  PROVE  \A g \in materialized \cup groupQueue : g \in ActiveGroups(U)
BY CompleteSources DEF Within, ActiveGroups

\* An effect that a solution has, too.
Allowed(e, C, A, U) ==
  /\ e.compile \subseteq C /\ e.actual \subseteq A \cap C /\ e.sources \subseteq U
  /\ \A c \in e.contributors : ContributorSources(c) \subseteq U
  /\ e.groups \subseteq ActiveGroups(U)
  /\ e.meaningful \subseteq MeaningfulProducers(ActiveGroups(U))
  /\ e.demanded \cup e.children \subseteq DemandedExpansions(A)

LEMMA StaysWithin ==
  ASSUME IInv, NEW e, EffectType(e), NEW rest, Fewer(rest), Apply(e, rest),
         UNCHANGED <<facts, inputs>>,
         ASSUME NEW C \in SUBSET Node, NEW A \in SUBSET Node, NEW U \in SUBSET Unit,
                Solution(C, A, U), Within(C, A, U)
         PROVE  /\ Allowed(e, C, A, U)
                /\ children' \subseteq DemandedExpansions(A)
                /\ \A g \in dependency' \cap ActiveGroups(U) :
                     facts.producer[g] \in MeaningfulProducers(ActiveGroups(U))
  PROVE  LeastInv'
<1>1. Grown(e)
  BY Applied DEF IInv
<1>2. ASSUME NEW C \in SUBSET Node, NEW A \in SUBSET Node, NEW U \in SUBSET Unit, Solution(C, A, U)'
      PROVE  Within(C, A, U)'
  <2>1. Solution(C, A, U)
    BY <1>2, SolutionKept DEF Solution
  <2>2. Within(C, A, U)
    BY <2>1 DEF IInv, LeastInv
  <2>3. /\ Allowed(e, C, A, U)
        /\ children' \subseteq DemandedExpansions(A)
        /\ \A g \in dependency' \cap ActiveGroups(U) :
             facts.producer[g] \in MeaningfulProducers(ActiveGroups(U))
    BY <2>1, <2>2
  <2>4. compile' \subseteq C /\ actual' \subseteq A /\ retained' \subseteq U
        /\ opened' \subseteq ActiveGroups(U)
        /\ meaningful' \subseteq MeaningfulProducers(ActiveGroups(U))
        /\ demanded' \subseteq DemandedExpansions(A)
    BY <1>1, <2>2, <2>3 DEF Grown, Within, Allowed
  <2>5. \A c \in requested' : ContributorSources(c) \subseteq U
    <3>1. \A g \in e.groups : \A c \in facts.roots[g] : ContributorSources(c) \subseteq U
      BY <2>3, ActiveContributors DEF Allowed, IInv, TypeOK
    <3> QED BY <1>1, <2>2, <2>3, <3>1 DEF Grown, Within, Allowed
  <2>6. /\ ActiveGroups(U)' = ActiveGroups(U)
        /\ MeaningfulProducers(ActiveGroups(U))' = MeaningfulProducers(ActiveGroups(U))
        /\ DemandedExpansions(A)' = DemandedExpansions(A)
        /\ \A c : ContributorSources(c)' = ContributorSources(c)
    BY SolutionKept DEF MeaningfulProducers, ActiveGroups
  <2> QED BY <2>3, <2>4, <2>5, <2>6 DEF Within
<1> QED BY <1>2 DEF LeastInv

LEMMA FrameType ==
  ASSUME IInv, NEW e, EffectType(e), NEW rest, Fewer(rest), Apply(e, rest),
         UNCHANGED <<facts, undelivered, inputs, phase>>,
         complete' \in SUBSET Contributor,
         materialized' \in SUBSET Group, groupQueue' \in SUBSET (Group \ materialized'),
         dependency' \in SUBSET Group,
         children' \in SUBSET Expansion, children \subseteq children',
         e.children \ facts.producers \subseteq children',
         handled' \in SUBSET children', satisfied' \in SUBSET facts.demands
  PROVE  TypeOK'
<1>1. SeenType' /\ Queued(e, rest)
  BY Applied DEF IInv
<1>2. pending'["required"] \in SUBSET children'
  BY <1>1 DEF Queued, Fewer, Names, IInv, TypeOK
<1>3. facts' \in FactSets /\ undelivered' \in SUBSET Inputs /\ inputs' \in SUBSET Inputs
      /\ phase' \in 0..Len(Phases)
  BY DEF IInv, TypeOK
<1> QED BY <1>1, <1>2, <1>3 DEF SeenType, TypeOK
-----------------------------------------------------------------------------
(* The first state, and the steps between the visits                       *)

LEMMA InitIInv == Init => IInv
<1> SUFFICES ASSUME Init PROVE IInv
  OBVIOUS
<1> DEFINE ready == {c \in Contributor : ContributorReady(c, {}, {})}
<1>1. /\ facts \in FactSets /\ Accepted(facts)
      /\ compile = {} /\ actual = {} /\ retained = {} /\ undelivered = {} /\ inputs = {}
      /\ phase = 0 /\ groupQueue = {}
      /\ seenPresence = {} /\ seenActual = {} /\ seenSource = {}
      /\ opened = {} /\ requested = {} /\ complete = {}
      /\ materialized = {} /\ dependency = {}
      /\ meaningful = facts.intrinsic
      /\ demanded = {} /\ children = {} /\ handled = {} /\ satisfied = {}
  BY FactsAccepted DEF Init
<1>2. /\ pending \in [Names -> SUBSET (Node \cup Unit \cup Contributor)]
      /\ pending["meaningful"] = facts.intrinsic /\ pending["complete"] = ready
      /\ \A p \in Names \ {"meaningful", "complete"} : pending[p] = {}
  <2>1. pending = [NoPending EXCEPT !["meaningful"] = facts.intrinsic, !["complete"] = ready]
    BY DEF Init
  <2>2. facts.intrinsic \subseteq Node
    BY <1>1, FactTypes DEF Node
  <2>3. NoPending \in [Names -> SUBSET (Node \cup Unit \cup Contributor)]
    BY PhaseFacts DEF NoPending
  <2> HIDE DEF ready
  <2>4. ready \subseteq Contributor
    BY DEF ready
  <2> QED BY <2>1, <2>2, <2>3, <2>4, PhaseFacts DEF Names
<1>3. TypeOK
  <2>1. facts.intrinsic \subseteq facts.producers /\ ready \subseteq Contributor
    BY <1>1, FactTypes
  <2> HIDE DEF ready
  <2> QED BY <1>1, <1>2, <2>1, PhaseFacts DEF TypeOK, Names
<1>4. CallerInv /\ PhaseInv
  BY <1>1 DEF CallerInv, PhaseInv
<1>5. ProductInv /\ PresenceInv /\ TriggerInv /\ ActualInv /\ RequestInv
  BY <1>1 DEF ProductInv, PresenceInv, TriggerInv, ActualInv, RequestInv, ProcessedProducts,
       ProcessedPresence, ProcessedActual, ProcessedContributors
<1>6. CompleteInv
  <2>1. \A g \in Group : facts.roots[g] # {}
    BY <1>1 DEF Accepted
  <2> QED BY <1>1, <1>2, <2>1 DEF CompleteInv, ConsumedSource
<1>7. GroupInv /\ MeaningInv
  BY <1>1, <1>2 DEF GroupInv, MeaningInv, ProcessedMeaning
<1>8. DemandInv
  <2>1. ProcessedActual = {}
    BY <1>1 DEF ProcessedActual
  <2> QED BY <1>1, <1>2, <2>1 DEF DemandInv, ReadyClauses, Names
<1>9. LeastInv
  <2> SUFFICES ASSUME NEW C \in SUBSET Node, NEW A \in SUBSET Node, NEW U \in SUBSET Unit
               PROVE  Within(C, A, U)
    BY DEF LeastInv
  <2>1. ActiveGroups(U) \in SUBSET Group
    BY DEF ActiveGroups
  <2>2. facts.intrinsic \subseteq MeaningfulProducers(ActiveGroups(U))
    BY <1>1, <2>1, MeaningLeast DEF MeaningRules
  <2> QED BY <1>1, <2>2 DEF Within
<1> QED BY <1>3, <1>4, <1>5, <1>6, <1>7, <1>8, <1>9 DEF IInv

\* All but the phase stays.
LEMMA UnmovedSets ==
  ASSUME IInv, UNCHANGED <<facts, compile, actual, retained, undelivered, pending,
                 groupQueue, seenPresence, seenActual, seenSource, opened,
                 requested, complete, materialized, dependency, meaningful,
                 demanded, children, handled, satisfied, inputs>>
  PROVE  /\ phase' \in 0..9 => TypeOK'
         /\ CallerInv' /\ ProductInv' /\ PresenceInv' /\ TriggerInv' /\ ActualInv' /\ RequestInv'
         /\ CompleteInv' /\ GroupInv' /\ MeaningInv' /\ DemandInv' /\ LeastInv'
<1>1. phase' \in 0..9 => TypeOK'
  BY PhaseFacts DEF IInv, TypeOK
<1>2. CallerInv' /\ ProductInv' /\ PresenceInv'
  BY DEF IInv, CallerInv, ProductInv, PresenceInv, ProcessedProducts, ProcessedPresence
<1>3. TriggerInv' /\ ActualInv' /\ RequestInv'
  BY DEF IInv, TriggerInv, ActualInv, RequestInv, ProcessedPresence, ProcessedMeaning,
       ProcessedActual, ProcessedContributors
<1>4. CompleteInv' /\ GroupInv'
  BY DEF IInv, CompleteInv, GroupInv, ContributorReady, ConsumedSource, ProcessedPresence
<1>5. MeaningInv'
  BY DEF IInv, MeaningInv, MeaningComes, ProcessedMeaning
<1>6. DemandInv'
  BY DEF IInv, DemandInv, ReadyClauses, ProcessedActual
<1>7. LeastInv'
  <2> SUFFICES ASSUME NEW C \in SUBSET Node, NEW A \in SUBSET Node, NEW U \in SUBSET Unit,
                      Solution(C, A, U)'
               PROVE  Within(C, A, U)'
    BY DEF LeastInv
  <2>1. Within(C, A, U)
    BY SolutionKept DEF Solution, IInv, LeastInv
  <2> QED BY <2>1, SolutionKept DEF Within, MeaningfulProducers, ActiveGroups
<1> QED BY <1>1, <1>2, <1>3, <1>4, <1>5, <1>6, <1>7

\* FirstFrom finds the next queue that is not empty.
LEMMA FirstFromFacts ==
  ASSUME NEW i \in 1..9
  PROVE  /\ FirstFrom(i) \in 0..9
         /\ FirstFrom(i) # 0 => FirstFrom(i) >= i
         /\ \A k \in i..9 : pending[Phases[k]] # {} =>
              FirstFrom(i) # 0 /\ FirstFrom(i) <= k /\ pending[Phases[FirstFrom(i)]] # {}
<1> DEFINE busy == {j \in i..9 : pending[Phases[j]] # {}}
<1>1. FirstFrom(i) = IF busy = {} THEN 0 ELSE CHOOSE j \in busy : \A k \in busy : j <= k
  BY PhaseFacts DEF FirstFrom
<1>2. busy \subseteq i..9 /\ \A k \in i..9 : pending[Phases[k]] # {} => k \in busy
  OBVIOUS
<1>3. \A j \in busy : pending[Phases[j]] # {}
  OBVIOUS
<1> HIDE DEF busy
<1>4. ASSUME busy # {}
      PROVE  \E j \in busy : \A k \in busy : j <= k
  <2>1. busy \subseteq 1..9
    BY <1>2
  <2>2. \A j \in 1..9 : j \in busy /\ (\A k \in 1..9 : k < j => k \notin busy)
          => \A k \in busy : j <= k
    BY <2>1
  <2>3. CASE 1 \in busy
    BY <2>1, <2>3
  <2>4. CASE 1 \notin busy /\ 2 \in busy
    BY <2>1, <2>4
  <2>5. CASE 1 \notin busy /\ 2 \notin busy /\ 3 \in busy
    BY <2>1, <2>5
  <2>6. CASE 1 \notin busy /\ 2 \notin busy /\ 3 \notin busy /\ 4 \in busy
    BY <2>1, <2>6
  <2>7. CASE {1, 2, 3, 4} \cap busy = {} /\ 5 \in busy
    BY <2>1, <2>7
  <2>8. CASE {1, 2, 3, 4, 5} \cap busy = {} /\ 6 \in busy
    BY <2>1, <2>8
  <2>9. CASE {1, 2, 3, 4, 5, 6} \cap busy = {} /\ 7 \in busy
    BY <2>1, <2>9
  <2>10. CASE {1, 2, 3, 4, 5, 6, 7} \cap busy = {} /\ 8 \in busy
    BY <2>1, <2>10
  <2>11. CASE {1, 2, 3, 4, 5, 6, 7, 8} \cap busy = {}
    <3>1. PICK j \in busy : TRUE
      BY <1>4
    <3>2. \A k \in busy : k = 9
      BY <2>1, <2>11
    <3> QED BY <3>1, <3>2
  <2> QED BY <2>3, <2>4, <2>5, <2>6, <2>7, <2>8, <2>9, <2>10, <2>11
<1>5. CASE busy = {}
  BY <1>1, <1>2, <1>5
<1>6. CASE busy # {}
  <2>1. FirstFrom(i) \in busy /\ \A k \in busy : FirstFrom(i) <= k
    BY <1>1, <1>4, <1>6
  <2>2. FirstFrom(i) \in i..9 /\ pending[Phases[FirstFrom(i)]] # {}
    BY <1>2, <1>3, <2>1
  <2>3. \A k \in i..9 : pending[Phases[k]] # {} => FirstFrom(i) <= k
    BY <1>2, <2>1
  <2>4. FirstFrom(i) \in 1..9 /\ FirstFrom(i) >= i
    BY <2>2
  <2> QED BY <2>2, <2>3, <2>4
<1> QED BY <1>5, <1>6

LEMMA BeginCloseIInv == IInv /\ BeginClose => IInv'
<1> SUFFICES ASSUME IInv, BeginClose PROVE IInv'
  OBVIOUS
<1>1. phase' \in 0..9
  BY FirstFromFacts DEF BeginClose
<1>2. PhaseInv'
  BY DEF IInv, PhaseInv, BeginClose
<1> QED BY <1>1, <1>2, UnmovedSets DEF BeginClose, IInv

LEMMA NextPhaseIInv == IInv /\ NextPhase => IInv'
<1> SUFFICES ASSUME IInv, NextPhase PROVE IInv'
  OBVIOUS
<1>1. phase \in 1..9
  BY PhaseFacts DEF NextPhase, IInv, TypeOK
<1>2. phase' \in 0..9
  BY <1>1, FirstFromFacts DEF NextPhase
<1>3. ASSUME materialized # {}, pending["meaningful"] # {}
      PROVE  phase' = 7
  <2>1. Phases[6] = "complete" /\ Phases[7] = "meaningful"
    BY PhaseFacts
  <2>2. phase = 6
    BY <1>3, <2>1 DEF NextPhase, IInv, PhaseInv
  <2>3. FirstFrom(6) # 0 /\ FirstFrom(6) <= 7 /\ pending[Phases[FirstFrom(6)]] # {}
    BY <1>3, <2>1, FirstFromFacts
  <2>4. FirstFrom(6) = 7
    BY <2>1, <2>2, <2>3, FirstFromFacts DEF NextPhase
  <2> QED BY <2>2, <2>4 DEF NextPhase
<1>4. PhaseInv'
  BY <1>3 DEF NextPhase, PhaseInv
<1> QED BY <1>2, <1>4, UnmovedSets DEF NextPhase, IInv
LEMMA CallerAddsIInv ==
  ASSUME IInv, NEW i \in Inputs, CallerAdds(i[1], i[2])
  PROVE  IInv'
<1>1. \/ i[1] \in {"compile", "actual"} /\ i[2] \in Node
      \/ i[1] = "source" /\ i[2] \in Unit
  BY FactAssumption
<1>2. i = <<i[1], i[2]>>
  BY FactAssumption
<1> DEFINE lane == i[1]
           x == i[2]
<1>3. /\ inputs' = inputs \cup {i}
      /\ undelivered \subseteq undelivered' /\ undelivered' \subseteq undelivered \cup {i}
      /\ compile' = IF lane = "compile" THEN compile \cup {x} ELSE compile
      /\ actual' = IF lane = "actual" THEN actual \cup {x} ELSE actual
      /\ retained' = IF lane = "source" THEN retained \cup {x} ELSE retained
      /\ UNCHANGED <<facts, phase, pending, groupQueue, seenPresence, seenActual,
                     seenSource, opened, requested, complete, materialized,
                     dependency, meaningful, demanded, children, handled, satisfied>>
  BY <1>2 DEF CallerAdds
<1>4. lane = "compile" /\ x \notin compile => i \in undelivered'
  BY <1>1, <1>2 DEF CallerAdds
<1>5. lane = "actual" /\ x \notin actual => i \in undelivered'
  BY <1>1, <1>2 DEF CallerAdds
<1>6. lane = "source" /\ x \notin retained => i \in undelivered'
  BY <1>1, <1>2 DEF CallerAdds
<1>7. TypeOK'
  BY <1>1, <1>3 DEF IInv, TypeOK
<1>8. CallerInv'
  <2>1. undelivered' \subseteq inputs'
    BY <1>3 DEF IInv, CallerInv
  <2>2. ASSUME NEW y \in Node \cup Unit
        PROVE  /\ <<"compile", y>> \in inputs' => y \in compile'
               /\ <<"actual", y>> \in inputs' => y \in actual'
               /\ <<"source", y>> \in inputs' => y \in retained'
    BY <1>2, <1>3 DEF IInv, CallerInv
  <2>3. ASSUME NEW y \in Node \cup Unit
        PROVE  /\ y \in compile' \ seenPresence' => <<"compile", y>> \in undelivered'
               /\ y \in actual' \ seenActual' => <<"actual", y>> \in undelivered'
               /\ y \in retained' \ seenSource' => <<"source", y>> \in undelivered'
    BY <1>2, <1>3, <1>4, <1>5, <1>6 DEF IInv, CallerInv
  <2> QED BY <2>1, <2>2, <2>3 DEF CallerInv
<1>9. compile \subseteq compile' /\ actual \subseteq actual' /\ retained \subseteq retained'
  BY <1>3
<1>10. PhaseInv' /\ ProductInv' /\ PresenceInv'
  BY <1>3, <1>9 DEF IInv, PhaseInv, ProductInv, PresenceInv, ProcessedProducts, ProcessedPresence
<1>11. TriggerInv' /\ ActualInv'
  BY <1>3, <1>9 DEF IInv, TriggerInv, ActualInv, ProcessedPresence, ProcessedMeaning, ProcessedActual
<1>12. RequestInv' /\ CompleteInv'
  BY <1>3, <1>9 DEF IInv, RequestInv, CompleteInv, ContributorReady, ConsumedSource,
       ProcessedContributors
<1>13. GroupInv'
  BY <1>3, <1>9 DEF IInv, GroupInv, ProcessedPresence
<1>14. MeaningInv'
  BY <1>3 DEF IInv, MeaningInv, MeaningComes, ProcessedMeaning
<1>15. DemandInv'
  <2>1. ReadyClauses(ProcessedActual, handled)' = ReadyClauses(ProcessedActual, handled)
    BY <1>3 DEF ReadyClauses, ProcessedActual
  <2> QED BY <1>3, <1>9, <2>1 DEF IInv, DemandInv
<1>16. LeastInv'
  <2> SUFFICES ASSUME NEW C \in SUBSET Node, NEW A \in SUBSET Node, NEW U \in SUBSET Unit,
                      Solution(C, A, U)'
               PROVE  Within(C, A, U)'
    BY DEF LeastInv
  <2>1. Solution(C, A, U)
    BY <1>3, SolutionKept DEF Solution
  <2>2. Within(C, A, U)
    BY <2>1 DEF IInv, LeastInv
  <2>3. /\ lane = "compile" => x \in C
        /\ lane = "actual" => x \in A
        /\ lane = "source" => x \in U
    BY <1>1, <1>2, <1>3 DEF Solution
  <2>4. compile' \subseteq C /\ actual' \subseteq A /\ retained' \subseteq U
    BY <1>3, <2>2, <2>3 DEF Within
  <2>5. /\ ActiveGroups(U)' = ActiveGroups(U)
        /\ MeaningfulProducers(ActiveGroups(U))' = MeaningfulProducers(ActiveGroups(U))
        /\ DemandedExpansions(A)' = DemandedExpansions(A)
        /\ \A c : ContributorSources(c)' = ContributorSources(c)
    BY <1>3, SolutionKept DEF MeaningfulProducers, ActiveGroups
  <2> QED BY <1>3, <2>2, <2>4, <2>5 DEF Within
<1> QED BY <1>7, <1>8, <1>10, <1>11, <1>12, <1>13, <1>14, <1>15, <1>16 DEF IInv

\* What is handed over waits, so that nothing more has been visited.
LEMMA DeliverIInv == IInv /\ Deliver => IInv'
<1> SUFFICES ASSUME IInv, Deliver PROVE IInv'
  OBVIOUS
<1> DEFINE new(lane) == {x \in Node \cup Unit : <<lane, x>> \in undelivered}
           presence == new("compile") \ seenPresence
           actuals == new("actual") \ seenActual
           units == new("source")
<1>1. /\ undelivered' = {}
      /\ seenPresence' = seenPresence \cup presence
      /\ seenActual' = seenActual \cup actuals
      /\ seenSource' = seenSource \cup units
      /\ pending' = [pending EXCEPT
           !["presence"] = @ \cup presence,
           !["products"] = @ \cup actuals,
           !["actual"] = @ \cup (actuals \cap Definition),
           !["source"] = @ \cup (units \ seenSource)]
      /\ UNCHANGED <<facts, compile, actual, retained, phase, groupQueue, opened,
                     requested, complete, materialized, dependency, meaningful,
                     demanded, children, handled, satisfied, inputs>>
  BY DEF Deliver
<1>2. presence \subseteq compile \ seenPresence /\ actuals \subseteq actual \ seenActual
      /\ units \subseteq retained
  BY DEF IInv, CallerInv
<1>3. /\ compile \ seenPresence \subseteq presence
      /\ actual \ seenActual \subseteq actuals
      /\ retained \ seenSource \subseteq units
  BY DEF IInv, CallerInv, TypeOK
<1> HIDE DEF presence, actuals, units
<1>4. pending \in [Names -> SUBSET (Node \cup Unit \cup Contributor)]
  BY PhaseFacts DEF IInv, TypeOK
<1>5. /\ pending'["presence"] = pending["presence"] \cup presence
      /\ pending'["products"] = pending["products"] \cup actuals
      /\ pending'["actual"] = pending["actual"] \cup (actuals \cap Definition)
      /\ pending'["source"] = pending["source"] \cup (units \ seenSource)
      /\ \A p \in {"requested", "complete", "meaningful", "demanded", "required"} :
           pending'[p] = pending[p]
  BY <1>1, <1>4 DEF Names
<1>6. pending' \in [Names -> SUBSET (Node \cup Unit \cup Contributor)]
  <2>1. compile \subseteq Node /\ actual \subseteq Node /\ retained \subseteq Unit
    BY DEF IInv, TypeOK
  <2>2. \A p \in Names : pending'[p] \in SUBSET (Node \cup Unit \cup Contributor)
    BY <1>2, <1>4, <1>5, <2>1 DEF Names
  <2> QED BY <1>1, <1>4, <2>2
<1>7. TypeOK'
  BY <1>1, <1>2, <1>5, <1>6, PhaseFacts DEF IInv, TypeOK
<1>8. CallerInv'
  BY <1>1, <1>3 DEF IInv, CallerInv
<1>9. /\ ProcessedPresence' = ProcessedPresence
      /\ ProcessedProducts' = ProcessedProducts
      /\ ProcessedActual' = ProcessedActual
      /\ ConsumedSource' = ConsumedSource
  BY <1>1, <1>2, <1>5 DEF ProcessedPresence, ProcessedProducts, ProcessedActual, ConsumedSource,
       IInv, TypeOK
<1>10. ProcessedContributors' = ProcessedContributors /\ ProcessedMeaning' = ProcessedMeaning
  BY <1>1, <1>5 DEF ProcessedContributors, ProcessedMeaning
<1>11. PhaseInv' /\ ProductInv' /\ PresenceInv' /\ TriggerInv'
  BY <1>1, <1>5, <1>9, <1>10 DEF IInv, PhaseInv, ProductInv, PresenceInv, TriggerInv
<1>12. ActualInv' /\ RequestInv' /\ CompleteInv' /\ GroupInv'
  BY <1>1, <1>5, <1>9, <1>10 DEF IInv, ActualInv, RequestInv, CompleteInv, GroupInv, ContributorReady
<1>13. MeaningInv'
  BY <1>1, <1>10 DEF IInv, MeaningInv, MeaningComes
<1>14. DemandInv'
  BY <1>1, <1>5, <1>9 DEF IInv, DemandInv, ReadyClauses
<1>15. LeastInv'
  <2> SUFFICES ASSUME NEW C \in SUBSET Node, NEW A \in SUBSET Node, NEW U \in SUBSET Unit,
                      Solution(C, A, U)'
               PROVE  Within(C, A, U)'
    BY DEF LeastInv
  <2>1. Within(C, A, U)
    BY <1>1, SolutionKept DEF Solution, IInv, LeastInv
  <2>2. /\ ActiveGroups(U)' = ActiveGroups(U)
        /\ MeaningfulProducers(ActiveGroups(U))' = MeaningfulProducers(ActiveGroups(U))
        /\ DemandedExpansions(A)' = DemandedExpansions(A)
        /\ \A c : ContributorSources(c)' = ContributorSources(c)
    BY <1>1, SolutionKept DEF MeaningfulProducers, ActiveGroups
  <2> QED BY <1>1, <2>1, <2>2 DEF Within
<1> QED BY <1>7, <1>8, <1>11, <1>12, <1>13, <1>14, <1>15 DEF IInv
-----------------------------------------------------------------------------
(* The visits                                                              *)

LEMMA VisitProductIInv ==
  ASSUME IInv, NEW n \in Node, VisitProduct(n)
  PROVE  IInv'
<1> DEFINE e == [NoEffect EXCEPT !.actual = UNION {c \in facts.classes : n \in c}]
           rest == Popped("products", n)
<1>1. /\ At("products", n) /\ Apply(e, rest)
      /\ UNCHANGED <<facts, undelivered, phase, groupQueue, complete, materialized,
                     dependency, children, handled, satisfied, inputs>>
  BY DEF VisitProduct
<1>2. TypeOK /\ facts \in FactSets /\ n \in pending["products"]
  BY <1>1 DEF IInv, TypeOK, At
<1>3. /\ e.actual = UNION {c \in facts.classes : n \in c}
      /\ e.compile = {} /\ e.sources = {} /\ e.contributors = {} /\ e.ready = {}
      /\ e.groups = {} /\ e.meaningful = {} /\ e.demanded = {} /\ e.children = {}
  BY DEF NoEffect
<1>4. /\ Fewer(rest) /\ rest["products"] = pending["products"] \ {n}
      /\ \A q \in Names \ {"products"} : rest[q] = pending[q]
  BY <1>2, PoppedIs DEF Names
<1> HIDE DEF e, rest
<1>5. EffectType(e)
  BY <1>2, <1>3, FactTypes DEF EffectType, Node
<1>6. TypeOK'
  BY <1>1, <1>3, <1>4, <1>5, FrameType DEF IInv, TypeOK
<1>7. CallerInv' /\ PresenceInv' /\ TriggerInv' /\ ActualInv' /\ RequestInv'
  BY <1>1, <1>4, <1>5, FrameSets DEF Names
<1>8. CompleteInv' /\ GroupInv' /\ MeaningInv'
  BY <1>1, <1>4, <1>5, FrameGroups DEF Names
<1>9. DemandInv'
  BY <1>1, <1>3, <1>4, <1>5, FrameDemands DEF Names
<1>10. PhaseInv'
  BY <1>1, <1>3, <1>4, <1>5, FramePhase
<1>11. ProductInv'
  <2>1. Grown(e) /\ Queued(e, rest)
    BY <1>1, <1>2, <1>4, <1>5, Applied
  <2>2. ProcessedProducts' \subseteq ProcessedProducts \cup {n}
    BY <1>4, <2>1 DEF Queued, ProcessedProducts
  <2> QED BY <1>1, <1>3, <2>1, <2>2 DEF Grown, IInv, ProductInv
<1>12. LeastInv'
  <2>1. ASSUME NEW C \in SUBSET Node, NEW A \in SUBSET Node, NEW U \in SUBSET Unit,
               Solution(C, A, U), Within(C, A, U)
        PROVE  Allowed(e, C, A, U)
    <3>1. n \in A
      BY <1>2, <2>1 DEF Within, TypeOK
    <3>2. \A c \in facts.classes : c \cap A # {} => c \subseteq A \cap C
      BY <2>1 DEF Solution, ClosedFacts
    <3>3. e.actual \subseteq A \cap C
      BY <1>3, <3>1, <3>2
    <3> QED BY <1>3, <3>3 DEF Allowed
  <2> QED BY <1>1, <1>4, <1>5, <2>1, StaysWithin DEF Within
<1> QED BY <1>6, <1>7, <1>8, <1>9, <1>10, <1>11, <1>12 DEF IInv

LEMMA VisitSourceIInv ==
  ASSUME IInv, NEW u \in Unit, VisitSource(u)
  PROVE  IInv'
<1> DEFINE e == [NoEffect EXCEPT
              !.ready = {c \in Contributor \ complete :
                           u \in facts.sources[c] /\
                           ContributorReady(c, ConsumedSource \cup {u}, complete)}]
           rest == Popped("source", u)
<1>1. /\ At("source", u) /\ Apply(e, rest)
      /\ UNCHANGED <<facts, undelivered, phase, groupQueue, complete, materialized,
                     dependency, children, handled, satisfied, inputs>>
  BY DEF VisitSource
<1>2. TypeOK /\ facts \in FactSets /\ u \in pending["source"] /\ u \in seenSource
  BY <1>1 DEF IInv, TypeOK, At
<1>3. /\ e.ready = {c \in Contributor \ complete :
                      u \in facts.sources[c] /\
                      ContributorReady(c, ConsumedSource \cup {u}, complete)}
      /\ e.compile = {} /\ e.actual = {} /\ e.sources = {} /\ e.contributors = {}
      /\ e.groups = {} /\ e.meaningful = {} /\ e.demanded = {} /\ e.children = {}
  BY DEF NoEffect
<1>4. /\ Fewer(rest) /\ rest["source"] = pending["source"] \ {u}
      /\ \A q \in Names \ {"source"} : rest[q] = pending[q]
  BY <1>2, PoppedIs DEF Names
<1> HIDE DEF e, rest
<1>5. EffectType(e)
  BY <1>3 DEF EffectType
<1>6. TypeOK'
  BY <1>1, <1>3, <1>4, <1>5, FrameType DEF IInv, TypeOK
<1>7. CallerInv' /\ ProductInv' /\ PresenceInv' /\ TriggerInv' /\ ActualInv' /\ RequestInv'
  BY <1>1, <1>4, <1>5, FrameSets DEF Names
<1>8. GroupInv' /\ MeaningInv'
  BY <1>1, <1>4, <1>5, FrameGroups DEF Names
<1>9. DemandInv'
  BY <1>1, <1>3, <1>4, <1>5, FrameDemands DEF Names
<1>10. PhaseInv'
  BY <1>1, <1>3, <1>4, <1>5, FramePhase
<1>11. CompleteInv'
  <2>1. Grown(e) /\ Queued(e, rest)
    BY <1>1, <1>2, <1>4, <1>5, Applied
  <2>2. ConsumedSource' = ConsumedSource \cup {u}
    BY <1>2, <1>4, <2>1 DEF Queued, ConsumedSource
  <2>3. pending'["complete"] = pending["complete"] \cup e.ready
    BY <1>4, <2>1 DEF Queued, Names
  <2>4. \A c \in complete' : ContributorReady(c, ConsumedSource, complete)'
    BY <1>1, <2>2 DEF IInv, CompleteInv, ContributorReady
  <2>5. ASSUME NEW c \in Contributor \ complete', ContributorReady(c, ConsumedSource, complete)'
        PROVE  c \in pending'["complete"]
    <3>1. /\ c \in Contributor \ complete
          /\ facts.sources[c] \subseteq ConsumedSource \cup {u} /\ facts.parents[c] \subseteq complete
      BY <1>1, <2>2, <2>5 DEF ContributorReady
    <3>2. CASE u \in facts.sources[c]
      BY <1>3, <2>3, <3>1, <3>2 DEF ContributorReady
    <3>3. CASE u \notin facts.sources[c]
      BY <2>3, <3>1, <3>3 DEF IInv, CompleteInv, ContributorReady
    <3> QED BY <3>2, <3>3
  <2>6. \A g \in Group : (facts.roots[g] \subseteq complete <=> g \in materialized \cup groupQueue)'
    BY <1>1 DEF IInv, CompleteInv
  <2> QED BY <1>1, <2>4, <2>5, <2>6 DEF CompleteInv
<1>12. LeastInv'
  <2>1. ASSUME NEW C \in SUBSET Node, NEW A \in SUBSET Node, NEW U \in SUBSET Unit
        PROVE  Allowed(e, C, A, U)
    BY <1>3 DEF Allowed
  <2> QED BY <1>1, <1>4, <1>5, <2>1, StaysWithin DEF Within
<1> QED BY <1>6, <1>7, <1>8, <1>9, <1>10, <1>11, <1>12 DEF IInv

LEMMA VisitRequestedIInv ==
  ASSUME IInv, NEW c \in Contributor, VisitRequested(c)
  PROVE  IInv'
<1> DEFINE e == [NoEffect EXCEPT !.sources = facts.sources[c],
                                 !.contributors = facts.parents[c]]
           rest == Popped("requested", c)
<1>1. /\ At("requested", c) /\ Apply(e, rest)
      /\ UNCHANGED <<facts, undelivered, phase, groupQueue, complete, materialized,
                     dependency, children, handled, satisfied, inputs>>
  BY DEF VisitRequested
<1>2. TypeOK /\ facts \in FactSets /\ c \in pending["requested"] /\ c \in requested
  BY <1>1 DEF IInv, TypeOK, At
<1>3. /\ e.sources = facts.sources[c] /\ e.contributors = facts.parents[c]
      /\ e.compile = {} /\ e.actual = {} /\ e.ready = {}
      /\ e.groups = {} /\ e.meaningful = {} /\ e.demanded = {} /\ e.children = {}
  BY DEF NoEffect
<1>4. /\ Fewer(rest) /\ rest["requested"] = pending["requested"] \ {c}
      /\ \A q \in Names \ {"requested"} : rest[q] = pending[q]
  BY <1>2, PoppedIs DEF Names
<1> HIDE DEF e, rest
<1>5. EffectType(e)
  BY <1>2, <1>3, FactTypes DEF EffectType
<1>6. TypeOK'
  BY <1>1, <1>3, <1>4, <1>5, FrameType DEF IInv, TypeOK
<1>7. CallerInv' /\ ProductInv' /\ PresenceInv' /\ TriggerInv' /\ ActualInv'
  BY <1>1, <1>4, <1>5, FrameSets DEF Names
<1>8. CompleteInv' /\ GroupInv' /\ MeaningInv'
  BY <1>1, <1>4, <1>5, FrameGroups DEF Names
<1>9. DemandInv'
  BY <1>1, <1>3, <1>4, <1>5, FrameDemands DEF Names
<1>10. PhaseInv'
  BY <1>1, <1>3, <1>4, <1>5, FramePhase
<1>11. RequestInv'
  <2>1. Grown(e) /\ Queued(e, rest)
    BY <1>1, <1>2, <1>4, <1>5, Applied
  <2>2. ProcessedContributors' \subseteq ProcessedContributors \cup {c}
    BY <1>4, <2>1 DEF Queued, ProcessedContributors
  <2>3. /\ opened' = opened /\ requested \subseteq requested' /\ facts.parents[c] \subseteq requested'
        /\ retained \subseteq retained' /\ facts.sources[c] \subseteq retained'
    BY <1>3, <2>1 DEF Grown
  <2> QED BY <1>1, <2>2, <2>3 DEF IInv, RequestInv
<1>12. LeastInv'
  <2>1. ASSUME NEW C \in SUBSET Node, NEW A \in SUBSET Node, NEW U \in SUBSET Unit,
               Within(C, A, U)
        PROVE  Allowed(e, C, A, U)
    <3>1. ContributorSources(c) \subseteq U
      BY <1>2, <2>1 DEF Within
    <3>2. facts.sources[c] \subseteq ContributorSources(c)
      BY <1>2, ClosureFacts DEF ContributorSources
    <3>3. ASSUME NEW p \in facts.parents[c]
          PROVE  ContributorSources(p) \subseteq U
      BY <1>2, <3>1, ClosureOfParent DEF ContributorSources
    <3> QED BY <1>3, <3>1, <3>2, <3>3 DEF Allowed
  <2> QED BY <1>1, <1>4, <1>5, <2>1, StaysWithin DEF Within
<1> QED BY <1>6, <1>7, <1>8, <1>9, <1>10, <1>11, <1>12 DEF IInv
\* What a node of a solution triggers, the solution has, and the meaning that
\* comes with it.
LEMMA TriggerInSolution ==
  ASSUME IInv, NEW C \in SUBSET Node, NEW A \in SUBSET Node, NEW U \in SUBSET Unit,
         Solution(C, A, U), Within(C, A, U), NEW n \in compile
  PROVE  /\ TriggeredGroups(n) \subseteq ActiveGroups(U)
         /\ \A g \in TriggeredGroups(n) \cap materialized : \A o \in facts.owners[g] :
              o.owner = n => o.members \subseteq C
         /\ \A g \in TriggeredGroups(n) :
              facts.producer[g] \in MeaningfulProducers(ActiveGroups(U))
<1> DEFINE M == MeaningfulProducers(ActiveGroups(U))
<1>1. facts \in FactSets /\ n \in C /\ ActiveGroups(U) \in SUBSET Group
  BY DEF IInv, TypeOK, Within, ActiveGroups
<1>2. \A g \in Group : (n \in TriggersOf(facts, g) /\ (n \in facts.producers => n \in M))
        => g \in ActiveGroups(U)
  <2>1. \A g \in Group :
          (\E k \in TriggersOf(facts, g) \cap C : k \in facts.producers => k \in M)
             => GroupSources(facts, g) \subseteq U
    BY DEF Solution, ClosedFacts
  <2> QED BY <1>1, <2>1 DEF ActiveGroups
<1>3. n \in facts.producers /\ Meaningful(n) => n \in M
  BY DEF Meaningful, Within
<1> HIDE DEF M
<1>4. TriggeredGroups(n) \subseteq ActiveGroups(U)
  BY <1>2, <1>3 DEF TriggeredGroups, Meaningful
<1>5. \A g \in TriggeredGroups(n) : \A o \in facts.owners[g] : o.owner = n => o.members \subseteq C
  BY <1>1, <1>4 DEF Solution, ClosedFacts
<1>6. ASSUME NEW g \in TriggeredGroups(n)
      PROVE  facts.producer[g] \in M
  <2>1. g \in ActiveGroups(U) /\ g \in Group /\ n \in TriggersOf(facts, g) /\ Meaningful(n)
    BY <1>4, <1>6 DEF TriggeredGroups
  <2>2. MeaningRules(ActiveGroups(U), M)
    BY <1>1, MeaningLeast DEF M
  <2>3. CASE IntrinsicGroup(facts, g)
    BY <2>1, <2>2, <2>3 DEF MeaningRules
  <2>4. CASE ~IntrinsicGroup(facts, g) /\ n \in facts.producers /\ n \in DependsOn(facts, g)
    <3>1. n \in Expansion /\ n \in M
      BY <1>1, <1>3, <2>1, <2>4, FactTypes
    <3> QED BY <2>1, <2>2, <2>4, <3>1 DEF MeaningRules
  <2>5. CASE ~IntrinsicGroup(facts, g) /\ ~(n \in facts.producers /\ n \in DependsOn(facts, g))
    <3>1. /\ n \in Definition
          /\ \E h \in Group : /\ facts.producer[h] = facts.producer[g] /\ IntrinsicGroup(facts, h)
                              /\ n \in TriggersOf(facts, h)
      BY <1>1, <2>1, <2>5, TriggerOfShell
    <3>2. PICK h \in Group : /\ facts.producer[h] = facts.producer[g] /\ IntrinsicGroup(facts, h)
                             /\ n \in TriggersOf(facts, h)
      BY <3>1
    <3>3. n \notin facts.producers
      BY <1>1, <3>1, FactTypes, Kinds
    <3>4. h \in ActiveGroups(U)
      BY <1>2, <3>2, <3>3
    <3> QED BY <2>2, <3>2, <3>4 DEF MeaningRules
  <2> QED BY <2>3, <2>4, <2>5
<1> QED BY <1>4, <1>5, <1>6 DEF M

LEMMA TriggerType ==
  ASSUME TypeOK, NEW n
  PROVE  /\ MacroTrigger(n).groups = TriggeredGroups(n)
         /\ \A g \in TriggeredGroups(n) \cap materialized : \A o \in facts.owners[g] :
              o.owner = n => o.members \subseteq MacroTrigger(n).compile
         /\ \A C : (\A g \in TriggeredGroups(n) \cap materialized : \A o \in facts.owners[g] :
                     o.owner = n => o.members \subseteq C) => MacroTrigger(n).compile \subseteq C
         /\ MacroTrigger(n).compile \subseteq Node /\ TriggeredGroups(n) \subseteq Group
         /\ MacroTrigger(n) = [NoEffect EXCEPT !.groups = MacroTrigger(n).groups,
                                               !.compile = MacroTrigger(n).compile]
<1>1. /\ MacroTrigger(n).groups = TriggeredGroups(n)
      /\ MacroTrigger(n).compile =
              UNION {UNION {o.members : o \in {p \in facts.owners[g] : p.owner = n}} :
                       g \in TriggeredGroups(n) \cap materialized}
  BY DEF MacroTrigger, NoEffect
<1>2. TriggeredGroups(n) \subseteq Group
  BY DEF TriggeredGroups
<1>3. facts \in FactSets
  BY DEF TypeOK
<1>4. \A g \in Group : \A o \in facts.owners[g] : o.members \subseteq Node
  BY <1>3, FactTypes DEF Node
<1>5. MacroTrigger(n).compile \subseteq Node
  BY <1>1, <1>2, <1>4
<1>6. MacroTrigger(n) = [NoEffect EXCEPT !.groups = MacroTrigger(n).groups,
                                         !.compile = MacroTrigger(n).compile]
  BY <1>1 DEF MacroTrigger, NoEffect
<1>7. /\ \A g \in TriggeredGroups(n) \cap materialized : \A o \in facts.owners[g] :
           o.owner = n => o.members \subseteq MacroTrigger(n).compile
      /\ \A C : (\A g \in TriggeredGroups(n) \cap materialized : \A o \in facts.owners[g] :
                  o.owner = n => o.members \subseteq C) => MacroTrigger(n).compile \subseteq C
  BY <1>1
<1> QED BY <1>1, <1>2, <1>5, <1>6, <1>7

LEMMA VisitPresenceIInv ==
  ASSUME IInv, NEW n \in Node, VisitPresence(n)
  PROVE  IInv'
<1> DEFINE e == [MacroTrigger(n) EXCEPT
                   !.compile = @ \cup MemberRequirements(n, ProcessedPresence)]
           rest == Popped("presence", n)
<1>1. /\ At("presence", n) /\ Apply(e, rest)
      /\ dependency' = dependency \cup TriggeredGroups(n)
      /\ UNCHANGED <<facts, undelivered, phase, groupQueue, complete, materialized,
                     children, handled, satisfied, inputs>>
  BY DEF VisitPresence
<1>2. /\ TypeOK /\ facts \in FactSets /\ n \in pending["presence"]
      /\ n \in seenPresence /\ n \in compile /\ phase \notin {6, 7}
  BY <1>1, AtFacts DEF IInv, TypeOK, Names
<1>3. /\ e.compile = MacroTrigger(n).compile \cup MemberRequirements(n, ProcessedPresence)
      /\ e.groups = TriggeredGroups(n)
      /\ e.actual = {} /\ e.sources = {} /\ e.contributors = {} /\ e.ready = {}
      /\ e.meaningful = {} /\ e.demanded = {} /\ e.children = {}
  BY DEF MacroTrigger, NoEffect
<1>4. /\ Fewer(rest) /\ rest["presence"] = pending["presence"] \ {n}
      /\ \A q \in Names \ {"presence"} : rest[q] = pending[q]
  BY <1>2, PoppedIs DEF Names
<1> HIDE DEF e, rest
<1>5. EffectType(e)
  <2>1. MemberRequirements(n, ProcessedPresence) \subseteq Node
    BY <1>2, FactTypes DEF MemberRequirements, Node
  <2>2. MacroTrigger(n).compile \subseteq Node /\ TriggeredGroups(n) \subseteq Group
    BY <1>2, TriggerType
  <2> QED BY <1>3, <2>1, <2>2 DEF EffectType
<1>6. TypeOK'
  <2>1. dependency' \in SUBSET Group
    BY <1>1, <1>2, TriggerType DEF TypeOK
  <2> QED BY <1>1, <1>3, <1>4, <1>5, <2>1, FrameType DEF IInv, TypeOK
<1>7. CallerInv' /\ ProductInv' /\ ActualInv' /\ RequestInv'
  BY <1>1, <1>4, <1>5, FrameSets DEF Names
<1>8. CompleteInv'
  BY <1>1, <1>4, <1>5, FrameGroups DEF Names
<1>9. DemandInv'
  BY <1>1, <1>3, <1>4, <1>5, FrameDemands DEF Names
<1>10. PhaseInv'
  BY <1>1, <1>3, <1>4, <1>5, FramePhase
<1>11. Grown(e) /\ Queued(e, rest)
  BY <1>1, <1>2, <1>4, <1>5, Applied
<1>12. /\ ProcessedPresence' = ProcessedPresence \cup {n}
       /\ ProcessedMeaning' = ProcessedMeaning
       /\ compile \subseteq compile' /\ e.compile \subseteq compile'
       /\ opened' = opened \cup TriggeredGroups(n) /\ meaningful' = meaningful
  BY <1>2, <1>3, <1>4, <1>11 DEF Grown, Queued, ProcessedPresence, ProcessedMeaning, Names
<1>13. PresenceInv'
  <2>1. ASSUME NEW r \in facts.requirements, r[1] \in ProcessedPresence \cup {n}
        PROVE  r[2] \in compile'
    BY <1>3, <1>12, <2>1 DEF IInv, PresenceInv, MemberRequirements
  <2>2. ASSUME NEW r \in facts.conditional,
               r[1] \in ProcessedPresence \cup {n}, r[2] \in ProcessedPresence \cup {n}
        PROVE  r[3] \in compile'
    <3>1. CASE n \in {r[1], r[2]}
      BY <1>3, <1>12, <2>2, <3>1 DEF MemberRequirements
    <3>2. CASE n \notin {r[1], r[2]}
      BY <1>12, <2>2, <3>2 DEF IInv, PresenceInv
    <3> QED BY <3>1, <3>2
  <2> QED BY <1>1, <1>12, <2>1, <2>2 DEF PresenceInv
<1>14. TriggerInv'
  <2> SUFFICES ASSUME NEW m \in ProcessedPresence \cup {n},
                      m \in facts.producers => m \in ProcessedMeaning,
                      NEW g \in Group, m \in TriggersOf(facts, g)
               PROVE  g \in opened \cup TriggeredGroups(n)
    BY <1>1, <1>12 DEF TriggerInv
  <2>1. CASE m = n
    BY <2>1 DEF TriggeredGroups, Meaningful, ProcessedMeaning
  <2>2. CASE m # n
    BY <2>2 DEF IInv, TriggerInv
  <2> QED BY <2>1, <2>2
<1>15. GroupInv'
  <2> SUFFICES ASSUME NEW g \in materialized
               PROVE  /\ facts.products[g] \subseteq compile'
                      /\ \A o \in facts.owners[g] :
                           o.owner \in ProcessedPresence \cup {n} => o.members \subseteq compile'
    BY <1>1, <1>12 DEF GroupInv
  <2>1. ASSUME NEW o \in facts.owners[g], o.owner = n
        PROVE  o.members \subseteq compile'
    <3>1. g \in Group /\ o.owner \in Definition /\ o.effect \in {"Semantic", "Shell"}
      BY <1>2, FactTypes DEF TypeOK
    <3>2. CASE o.effect = "Semantic"
      <4>1. n \in TriggersOf(facts, g)
        BY <2>1, <3>2 DEF TriggersOf
      <4>2. n \notin facts.producers
        BY <1>2, <2>1, <3>1, FactTypes, Kinds
      <4>3. g \in TriggeredGroups(n)
        BY <3>1, <4>1, <4>2 DEF TriggeredGroups, Meaningful
      <4> QED BY <1>2, <1>3, <1>12, <2>1, <4>3, TriggerType
    <3>3. CASE o.effect = "Shell"
      BY <1>2, <3>1, <3>3, FactsAccepted DEF Accepted
    <3> QED BY <3>1, <3>2, <3>3
  <2> QED BY <1>12, <2>1 DEF IInv, GroupInv
<1>16. MeaningInv'
  <2>1. \A g : MeaningComes(g) => MeaningComes(g)'
    BY <1>1, <1>12 DEF MeaningComes
  <2>2. ASSUME NEW g \in materialized, g \in TriggeredGroups(n)
        PROVE  MeaningComes(g)'
    <3>1. g \in Group /\ n \in TriggersOf(facts, g) /\ Meaningful(n)
      BY <2>2 DEF TriggeredGroups
    <3>2. CASE IntrinsicGroup(facts, g)
      BY <2>1, <3>2 DEF IInv, MeaningInv, MeaningComes
    <3>3. CASE ~IntrinsicGroup(facts, g) /\ n \in facts.producers /\ n \in DependsOn(facts, g)
      <4>1. n \in ProcessedMeaning
        BY <1>2, <3>1, <3>3 DEF Meaningful, ProcessedMeaning, IInv, PhaseInv
      <4> QED BY <2>1, <2>2, <3>1, <3>3, <4>1 DEF IInv, MeaningInv
    <3>4. CASE ~IntrinsicGroup(facts, g) /\ ~(n \in facts.producers /\ n \in DependsOn(facts, g))
      <4>1. PICK h \in Group : /\ facts.producer[h] = facts.producer[g] /\ IntrinsicGroup(facts, h)
                               /\ n \in TriggersOf(facts, h)
        BY <1>2, <3>1, <3>4, TriggerOfShell
      <4>2. h \in TriggeredGroups(n)
        BY <3>1, <4>1 DEF TriggeredGroups
      <4> QED BY <1>1, <1>12, <4>1, <4>2 DEF MeaningComes
    <3> QED BY <3>2, <3>3, <3>4
  <2> QED BY <1>1, <1>12, <2>1, <2>2 DEF IInv, MeaningInv
<1>17. LeastInv'
  <2>1. ASSUME NEW C \in SUBSET Node, NEW A \in SUBSET Node, NEW U \in SUBSET Unit,
               Solution(C, A, U), Within(C, A, U)
        PROVE  /\ Allowed(e, C, A, U)
               /\ \A g \in dependency' \cap ActiveGroups(U) :
                     facts.producer[g] \in MeaningfulProducers(ActiveGroups(U))
    <3>1. n \in C /\ ProcessedPresence \subseteq C
      BY <1>2, <2>1 DEF Within, ProcessedPresence, TypeOK
    <3>2. MemberRequirements(n, ProcessedPresence) \subseteq C
      BY <2>1, <3>1 DEF MemberRequirements, Solution, ClosedFacts
    <3>3. /\ TriggeredGroups(n) \subseteq ActiveGroups(U)
          /\ \A g \in TriggeredGroups(n) \cap materialized : \A o \in facts.owners[g] :
              o.owner = n => o.members \subseteq C
          /\ \A g \in TriggeredGroups(n) :
              facts.producer[g] \in MeaningfulProducers(ActiveGroups(U))
      BY <1>2, <2>1, TriggerInSolution
    <3>4. MacroTrigger(n).compile \subseteq C
      BY <1>2, <3>3, TriggerType
    <3> QED BY <1>1, <1>3, <2>1, <3>2, <3>3, <3>4 DEF Allowed, Within
  <2> QED BY <1>1, <1>4, <1>5, <2>1, StaysWithin DEF Within
<1> QED BY <1>6, <1>7, <1>8, <1>9, <1>10, <1>13, <1>14, <1>15, <1>16, <1>17 DEF IInv
LEMMA VisitMeaningfulIInv ==
  ASSUME IInv, NEW x \in Expansion, VisitMeaningful(x)
  PROVE  IInv'
<1> DEFINE dependents == {g \in Group : x \in DependsOn(facts, g)}
           trigger == IF x \in ProcessedPresence THEN MacroTrigger(x) ELSE NoEffect
           e == [trigger EXCEPT
                   !.meaningful = facts.dependentProducers[x] \cup
                                  {facts.producer[g] : g \in InheritsMeaning(x)}]
           rest == Popped("meaningful", x)
           M(U) == MeaningfulProducers(ActiveGroups(U))
<1>1. /\ At("meaningful", x) /\ Apply(e, rest)
      /\ dependency' = dependency \cup dependents \cup trigger.groups
      /\ UNCHANGED <<facts, undelivered, phase, groupQueue, complete, materialized,
                     children, handled, satisfied, inputs>>
  BY DEF VisitMeaningful
<1>2. /\ TypeOK /\ facts \in FactSets /\ x \in pending["meaningful"]
      /\ x \in meaningful /\ x \in facts.producers /\ phase = 7
  BY <1>1, AtFacts DEF IInv, TypeOK, Names
<1>3. /\ trigger.groups = IF x \in ProcessedPresence THEN TriggeredGroups(x) ELSE {}
      /\ trigger.compile = IF x \in ProcessedPresence THEN MacroTrigger(x).compile ELSE {}
      /\ trigger = [NoEffect EXCEPT !.groups = trigger.groups, !.compile = trigger.compile]
  BY DEF MacroTrigger, NoEffect
<1> HIDE DEF trigger
<1>4. /\ e.meaningful = facts.dependentProducers[x] \cup
                          {facts.producer[g] : g \in InheritsMeaning(x)}
      /\ e.compile = trigger.compile /\ e.groups = trigger.groups
      /\ e.actual = {} /\ e.sources = {} /\ e.contributors = {} /\ e.ready = {}
      /\ e.demanded = {} /\ e.children = {}
  BY <1>3 DEF NoEffect
<1>5. /\ Fewer(rest) /\ rest["meaningful"] = pending["meaningful"] \ {x}
      /\ \A q \in Names \ {"meaningful"} : rest[q] = pending[q]
  BY <1>2, PoppedIs DEF Names
<1> HIDE DEF e, rest
<1>6. /\ trigger.compile \subseteq Node /\ trigger.groups \subseteq Group
      /\ trigger.groups \subseteq TriggeredGroups(x)
      /\ x \in ProcessedPresence => trigger.groups = TriggeredGroups(x)
  <2>1. MacroTrigger(x).compile \subseteq Node /\ TriggeredGroups(x) \subseteq Group
    BY <1>2, TriggerType
  <2> QED BY <1>3, <2>1
<1>7. EffectType(e)
  <2>1. facts.dependentProducers[x] \subseteq facts.producers
        /\ \A g \in InheritsMeaning(x) : facts.producer[g] \in facts.producers
    BY <1>2, FactTypes DEF InheritsMeaning, TypeOK
  <2>2. e.meaningful \subseteq facts.producers
    BY <1>4, <2>1
  <2> QED BY <1>4, <1>6, <2>2 DEF EffectType
<1>8. TypeOK'
  <2>1. dependency' \in SUBSET Group
    BY <1>1, <1>2, <1>6 DEF TypeOK
  <2> QED BY <1>1, <1>4, <1>5, <1>7, <2>1, FrameType DEF IInv, TypeOK
<1>9. CallerInv' /\ ProductInv' /\ PresenceInv' /\ ActualInv' /\ RequestInv'
  BY <1>1, <1>5, <1>7, FrameSets DEF Names
<1>10. CompleteInv' /\ GroupInv'
  BY <1>1, <1>5, <1>7, FrameGroups DEF Names
<1>11. DemandInv'
  BY <1>1, <1>4, <1>5, <1>7, FrameDemands DEF Names
<1>12. PhaseInv'
  BY <1>1, <1>2, <1>5, <1>7, FramePhase
<1>13. Grown(e) /\ Queued(e, rest)
  BY <1>1, <1>2, <1>5, <1>7, Applied
<1>14. /\ ProcessedPresence' = ProcessedPresence
       /\ ProcessedMeaning' = ProcessedMeaning \cup {x}
       /\ opened' = opened \cup trigger.groups
       /\ meaningful' = meaningful \cup e.meaningful
  BY <1>2, <1>4, <1>5, <1>13 DEF Grown, Queued, ProcessedPresence, ProcessedMeaning, Names
<1>15. TriggerInv'
  <2> SUFFICES ASSUME NEW m \in ProcessedPresence,
                      m \in facts.producers => m \in ProcessedMeaning \cup {x},
                      NEW g \in Group, m \in TriggersOf(facts, g)
               PROVE  g \in opened \cup trigger.groups
    BY <1>1, <1>14 DEF TriggerInv
  <2>1. CASE m = x
    BY <1>2, <1>6, <2>1 DEF TriggeredGroups, Meaningful
  <2>2. CASE m # x
    BY <2>2 DEF IInv, TriggerInv
  <2> QED BY <2>1, <2>2
<1>16. ASSUME NEW g \in trigger.groups, ~IntrinsicGroup(facts, g)
       PROVE  g \in dependents
  <2>1. g \in Group /\ x \in TriggersOf(facts, g)
    BY <1>6 DEF TriggeredGroups
  <2>2. x \notin Definition
    BY <1>2, Kinds
  <2> QED BY <1>2, <1>16, <2>1, <2>2, TriggerOfShell
<1>17. MeaningInv'
  <2>1. \A g : MeaningComes(g) => MeaningComes(g)'
    BY <1>1, <1>14 DEF MeaningComes
  <2>2. \A y \in ProcessedMeaning \cup {x} : facts.dependentProducers[y] \subseteq meaningful'
    BY <1>4, <1>14 DEF IInv, MeaningInv
  <2>3. \A y \in ProcessedMeaning \cup {x} : \A g \in Group :
          y \in DependsOn(facts, g) => g \in dependency'
    BY <1>1 DEF IInv, MeaningInv
  <2>4. ASSUME NEW g \in materialized
        PROVE  IntrinsicGroup(facts, g) => facts.producer[g] \in meaningful'
    BY <1>14 DEF IInv, MeaningInv
  <2>5. ASSUME NEW g \in materialized, g \in dependency'
        PROVE  MeaningComes(g)'
    <3>1. CASE g \in dependency
      BY <2>1, <2>5, <3>1 DEF IInv, MeaningInv
    <3>2. CASE g \notin dependency /\ g \in dependents
      <4>1. facts.producer[g] \in meaningful'
        BY <1>4, <1>14, <2>5, <3>2 DEF InheritsMeaning
      <4> QED BY <1>1, <4>1 DEF MeaningComes
    <3>3. CASE g \in trigger.groups /\ g \notin dependents
      <4>1. facts.producer[g] \in meaningful'
        BY <1>16, <2>4, <3>3
      <4> QED BY <1>1, <4>1 DEF MeaningComes
    <3> QED BY <1>1, <2>5, <3>1, <3>2, <3>3
  <2> QED BY <1>1, <1>14, <2>2, <2>3, <2>4, <2>5 DEF IInv, MeaningInv
<1>18. LeastInv'
  <2>1. ASSUME NEW C \in SUBSET Node, NEW A \in SUBSET Node, NEW U \in SUBSET Unit,
               Solution(C, A, U), Within(C, A, U)
        PROVE  /\ Allowed(e, C, A, U)
               /\ \A g \in dependency' \cap ActiveGroups(U) : facts.producer[g] \in M(U)
    <3>1. x \in M(U) /\ x \in Expansion
      BY <1>2, <2>1 DEF Within
    <3>2. MeaningRules(ActiveGroups(U), M(U))
      BY <1>2, MeaningLeast DEF ActiveGroups
    <3> HIDE DEF M
    <3>3. \A g \in dependents \cap ActiveGroups(U) : facts.producer[g] \in M(U)
      BY <3>1, <3>2 DEF MeaningRules
    <3>4. \A g \in InheritsMeaning(x) : g \in dependents /\ g \in ActiveGroups(U)
      BY <1>2, <2>1, ActiveInSolution DEF InheritsMeaning, TypeOK
    <3>5. e.meaningful \subseteq M(U)
      BY <1>4, <3>1, <3>2, <3>3, <3>4 DEF MeaningRules
    <3>6. x \in ProcessedPresence =>
            /\ TriggeredGroups(x) \subseteq ActiveGroups(U)
            /\ MacroTrigger(x).compile \subseteq C
            /\ \A g \in TriggeredGroups(x) : facts.producer[g] \in M(U)
      <4> SUFFICES ASSUME x \in ProcessedPresence
                   PROVE  /\ TriggeredGroups(x) \subseteq ActiveGroups(U)
                          /\ MacroTrigger(x).compile \subseteq C
                          /\ \A g \in TriggeredGroups(x) : facts.producer[g] \in M(U)
        OBVIOUS
      <4>1. x \in compile
        BY <1>2 DEF ProcessedPresence, TypeOK
      <4>2. /\ TriggeredGroups(x) \subseteq ActiveGroups(U)
            /\ \A g \in TriggeredGroups(x) \cap materialized : \A o \in facts.owners[g] :
                 o.owner = x => o.members \subseteq C
            /\ \A g \in TriggeredGroups(x) : facts.producer[g] \in M(U)
        BY <2>1, <4>1, TriggerInSolution DEF M
      <4>3. MacroTrigger(x).compile \subseteq C
        BY <1>2, <4>2, TriggerType
      <4> QED BY <4>2, <4>3
    <3>7. /\ trigger.groups \subseteq ActiveGroups(U) /\ trigger.compile \subseteq C
          /\ \A g \in trigger.groups : facts.producer[g] \in M(U)
      BY <1>3, <3>6
    <3>8. \A g \in dependency \cap ActiveGroups(U) : facts.producer[g] \in M(U)
      BY <2>1 DEF Within, M
    <3>9. Allowed(e, C, A, U)
      BY <1>4, <3>5, <3>7 DEF Allowed, M
    <3> QED BY <1>1, <3>3, <3>7, <3>8, <3>9
  <2> QED BY <1>1, <1>5, <1>7, <2>1, StaysWithin DEF Within, M
<1> QED BY <1>8, <1>9, <1>10, <1>11, <1>12, <1>15, <1>17, <1>18 DEF IInv

LEMMA MaterializeIInv ==
  ASSUME IInv, NEW g \in Group, Materialize(g)
  PROVE  IInv'
<1> DEFINE e == [NoEffect EXCEPT
              !.meaningful = IF IntrinsicGroup(facts, g) \/ g \in dependency
                               THEN {facts.producer[g]} ELSE {},
              !.compile = facts.products[g] \cup
                 UNION {o.members : o \in {p \in facts.owners[g] : p.owner \in compile}}]
<1>1. /\ g \in groupQueue /\ groupQueue' = groupQueue \ {g}
      /\ materialized' = materialized \cup {g} /\ Apply(e, pending)
      /\ UNCHANGED <<facts, undelivered, phase, complete, dependency, children,
                     handled, satisfied, inputs>>
  BY DEF Materialize
<1>2. /\ TypeOK /\ facts \in FactSets /\ phase = 6 /\ Fewer(pending)
  BY <1>1, PendingIs DEF IInv, TypeOK, PhaseInv
<1>3. /\ e.meaningful = IF IntrinsicGroup(facts, g) \/ g \in dependency
                          THEN {facts.producer[g]} ELSE {}
      /\ e.compile = facts.products[g] \cup
                 UNION {o.members : o \in {p \in facts.owners[g] : p.owner \in compile}}
      /\ e.actual = {} /\ e.sources = {} /\ e.contributors = {} /\ e.ready = {}
      /\ e.groups = {} /\ e.demanded = {} /\ e.children = {}
  BY DEF NoEffect
<1> HIDE DEF e
<1>4. EffectType(e)
  <2>1. /\ facts.products[g] \subseteq Node /\ facts.producer[g] \in facts.producers
        /\ \A o \in facts.owners[g] : o.members \subseteq Node
    BY <1>2, FactTypes DEF Node
  <2>2. e.compile \subseteq Node /\ e.meaningful \subseteq facts.producers
    BY <1>3, <2>1
  <2> QED BY <1>3, <2>2 DEF EffectType
<1>5. TypeOK'
  BY <1>1, <1>2, <1>3, <1>4, FrameType DEF TypeOK
<1>6. CallerInv' /\ ProductInv' /\ PresenceInv' /\ TriggerInv' /\ ActualInv' /\ RequestInv'
  BY <1>1, <1>2, <1>4, FrameSets
<1>7. DemandInv'
  BY <1>1, <1>2, <1>3, <1>4, FrameDemands
<1>8. PhaseInv'
  BY <1>1, <1>2 DEF PhaseInv
<1>9. Grown(e) /\ Queued(e, pending)
  BY <1>1, <1>2, <1>4, Applied
<1>10. CompleteInv'
  <2>1. ConsumedSource' = ConsumedSource /\ pending["complete"] \subseteq pending'["complete"]
    BY <1>9 DEF Queued, ConsumedSource
  <2>2. materialized' \cup groupQueue' = materialized \cup groupQueue
    BY <1>1
  <2> QED BY <1>1, <2>1, <2>2 DEF IInv, CompleteInv, ContributorReady
<1>11. /\ ProcessedPresence' = ProcessedPresence /\ ProcessedPresence \subseteq compile
       /\ compile' = compile \cup e.compile
       /\ ProcessedMeaning' = ProcessedMeaning /\ meaningful' = meaningful \cup e.meaningful
       /\ opened' = opened
  BY <1>2, <1>3, <1>9 DEF Queued, Grown, ProcessedPresence, ProcessedMeaning, TypeOK
<1>12. GroupInv'
  <2>1. /\ facts.products[g] \subseteq compile'
        /\ \A o \in facts.owners[g] : o.owner \in ProcessedPresence => o.members \subseteq compile'
    BY <1>3, <1>11
  <2>2. \A h \in materialized :
          /\ facts.products[h] \subseteq compile'
          /\ \A o \in facts.owners[h] : o.owner \in ProcessedPresence => o.members \subseteq compile'
    BY <1>11 DEF IInv, GroupInv
  <2> QED BY <1>1, <1>11, <2>1, <2>2 DEF GroupInv
<1>13. MeaningInv'
  <2>1. \A h : MeaningComes(h) => MeaningComes(h)'
    BY <1>1, <1>11 DEF MeaningComes
  <2>2. /\ IntrinsicGroup(facts, g) => facts.producer[g] \in meaningful'
        /\ g \in dependency => MeaningComes(g)'
    BY <1>1, <1>3, <1>11 DEF MeaningComes
  <2>3. \A h \in materialized :
          /\ IntrinsicGroup(facts, h) => facts.producer[h] \in meaningful'
          /\ h \in dependency => MeaningComes(h)'
    BY <1>11, <2>1 DEF IInv, MeaningInv
  <2> QED BY <1>1, <1>11, <2>2, <2>3 DEF IInv, MeaningInv
<1>14. LeastInv'
  <2>1. ASSUME NEW C \in SUBSET Node, NEW A \in SUBSET Node, NEW U \in SUBSET Unit,
               Solution(C, A, U), Within(C, A, U)
        PROVE  Allowed(e, C, A, U)
    <3>1. g \in ActiveGroups(U) /\ ActiveGroups(U) \in SUBSET Group
      BY <1>1, <2>1, ActiveInSolution DEF ActiveGroups
    <3>2. /\ facts.products[g] \subseteq C
          /\ \A o \in facts.owners[g] : o.owner \in C => o.members \subseteq C
      BY <2>1, <3>1 DEF Solution, ClosedFacts
    <3>3. e.compile \subseteq C
      BY <1>3, <2>1, <3>2 DEF Within
    <3>4. e.meaningful \subseteq MeaningfulProducers(ActiveGroups(U))
      <4>1. IntrinsicGroup(facts, g) => facts.producer[g] \in MeaningfulProducers(ActiveGroups(U))
        BY <1>2, <3>1, MeaningLeast DEF MeaningRules
      <4>2. g \in dependency => facts.producer[g] \in MeaningfulProducers(ActiveGroups(U))
        BY <2>1, <3>1 DEF Within
      <4> QED BY <1>3, <4>1, <4>2
    <3> QED BY <1>3, <3>3, <3>4 DEF Allowed
  <2> QED BY <1>1, <1>2, <1>4, <2>1, StaysWithin DEF Within
<1> QED BY <1>5, <1>6, <1>7, <1>8, <1>10, <1>12, <1>13, <1>14 DEF IInv
LEMMA VisitCompleteIInv ==
  ASSUME IInv, NEW c \in Contributor, VisitComplete(c)
  PROVE  IInv'
<1> DEFINE done == c \notin complete /\ ContributorReady(c, ConsumedSource, complete)
           ready == IF done
                      THEN {k \in Contributor \ complete' :
                              c \in facts.parents[k] /\ ContributorReady(k, ConsumedSource, complete')}
                      ELSE {}
           e == [NoEffect EXCEPT !.ready = ready]
           rest == Popped("complete", c)
<1>1. /\ At("complete", c) /\ groupQueue = {} /\ Apply(e, rest)
      /\ complete' = IF done THEN complete \cup {c} ELSE complete
      /\ groupQueue' = IF done THEN {g \in Group \ materialized :
                                       c \in facts.roots[g] /\ facts.roots[g] \subseteq complete'}
                       ELSE {}
      /\ UNCHANGED <<facts, undelivered, phase, materialized, dependency, children,
                     handled, satisfied, inputs>>
  <2>1. /\ At("complete", c) /\ groupQueue = {}
        /\ UNCHANGED <<facts, undelivered, phase, materialized, dependency, children,
                       handled, satisfied, inputs>>
    BY DEF VisitComplete
  <2>2. CASE done
    BY <2>1, <2>2 DEF VisitComplete
  <2>3. CASE ~done
    <3>1. Apply(NoEffect, rest) /\ UNCHANGED <<complete, groupQueue>>
      BY <2>3 DEF VisitComplete
    <3>2. e = NoEffect
      BY <2>3 DEF NoEffect
    <3> QED BY <2>1, <2>3, <3>1, <3>2
  <2> QED BY <2>2, <2>3
<1>2. /\ TypeOK /\ facts \in FactSets /\ c \in pending["complete"] /\ phase = 6
  BY <1>1, AtFacts DEF IInv, TypeOK, Names
<1>3. /\ e.ready = ready
      /\ e.compile = {} /\ e.actual = {} /\ e.sources = {} /\ e.contributors = {}
      /\ e.groups = {} /\ e.meaningful = {} /\ e.demanded = {} /\ e.children = {}
  BY DEF NoEffect
<1>4. /\ Fewer(rest) /\ rest["complete"] = pending["complete"] \ {c}
      /\ \A q \in Names \ {"complete"} : rest[q] = pending[q]
  BY <1>2, PoppedIs DEF Names
<1>5. ready \subseteq Contributor
  OBVIOUS
<1> HIDE DEF e, rest
<1>6. EffectType(e)
  BY <1>3, <1>5 DEF EffectType
<1>7. TypeOK'
  <2>1. complete' \in SUBSET Contributor /\ groupQueue' \in SUBSET (Group \ materialized')
    BY <1>1, <1>2 DEF TypeOK
  <2> HIDE DEF done, ready
  <2> QED BY <1>1, <1>2, <1>3, <1>4, <1>6, <2>1, FrameType DEF TypeOK
<1>8. CallerInv' /\ ProductInv' /\ PresenceInv' /\ TriggerInv' /\ ActualInv' /\ RequestInv'
  BY <1>1, <1>4, <1>6, FrameSets DEF Names
<1>9. GroupInv' /\ MeaningInv'
  BY <1>1, <1>4, <1>6, FrameGroups DEF Names
<1>10. DemandInv'
  BY <1>1, <1>3, <1>4, <1>6, FrameDemands DEF Names
<1>11. PhaseInv'
  BY <1>1, <1>2 DEF PhaseInv
<1>12. /\ ConsumedSource' = ConsumedSource
       /\ pending'["complete"] = (pending["complete"] \ {c}) \cup ready
  <2>1. Grown(e) /\ Queued(e, rest)
    BY <1>1, <1>2, <1>4, <1>6, Applied
  <2> QED BY <1>3, <1>4, <2>1 DEF Queued, ConsumedSource, Names
<1>13. CompleteInv'
  <2>1. \A k \in complete' : ContributorReady(k, ConsumedSource, complete)'
    BY <1>1, <1>12 DEF IInv, CompleteInv, ContributorReady
  <2>2. ASSUME NEW k \in Contributor \ complete', ContributorReady(k, ConsumedSource, complete)'
        PROVE  k \in pending'["complete"]
    <3>1. ContributorReady(k, ConsumedSource, complete') /\ k \notin complete
      BY <1>1, <1>12, <2>2 DEF ContributorReady
    <3>2. CASE done /\ c \in facts.parents[k]
      BY <1>12, <3>1, <3>2
    <3>3. CASE ~(done /\ c \in facts.parents[k])
      <4>1. ContributorReady(k, ConsumedSource, complete)
        BY <1>1, <3>1, <3>3 DEF ContributorReady
      <4>2. k \in pending["complete"]
        BY <3>1, <4>1 DEF IInv, CompleteInv
      <4>3. k # c
        BY <1>1, <2>2, <3>1, <4>1
      <4> QED BY <1>12, <4>2, <4>3
    <3> QED BY <3>2, <3>3
  <2>3. ASSUME NEW g \in Group
        PROVE  facts.roots[g] \subseteq complete' <=> g \in materialized \cup groupQueue'
    <3>1. facts.roots[g] \subseteq complete <=> g \in materialized
      BY <1>1 DEF IInv, CompleteInv
    <3>2. CASE done /\ c \in facts.roots[g]
      BY <1>1, <3>1, <3>2
    <3>3. CASE ~(done /\ c \in facts.roots[g])
      BY <1>1, <3>1, <3>3
    <3> QED BY <3>2, <3>3
  <2> QED BY <1>1, <2>1, <2>2, <2>3 DEF CompleteInv
<1>14. LeastInv'
  <2>1. ASSUME NEW C \in SUBSET Node, NEW A \in SUBSET Node, NEW U \in SUBSET Unit
        PROVE  Allowed(e, C, A, U)
    BY <1>3 DEF Allowed
  <2> QED BY <1>1, <1>4, <1>6, <2>1, StaysWithin DEF Within
<1> QED BY <1>7, <1>8, <1>9, <1>10, <1>11, <1>13, <1>14 DEF IInv
\* What the clauses that are ready ask for ...
LEMMA ClauseEffectType ==
  ASSUME TypeOK, NEW S \in SUBSET facts.demands
  PROVE  /\ ClauseEffect(S).children = UNION {d.required : d \in S}
         /\ ClauseEffect(S).demanded = {d.producer : d \in {c \in S : c.group = {}}}
         /\ ClauseEffect(S).groups = UNION {d.group : d \in S}
         /\ ClauseEffect(S).children \subseteq Expansion
         /\ ClauseEffect(S).demanded \subseteq facts.producers
         /\ ClauseEffect(S).groups \subseteq Group
<1>1. /\ ClauseEffect(S).children = UNION {d.required : d \in S}
      /\ ClauseEffect(S).demanded = {d.producer : d \in {c \in S : c.group = {}}}
      /\ ClauseEffect(S).groups = UNION {d.group : d \in S}
  BY DEF ClauseEffect, NoEffect
<1>2. \A d \in S : /\ d.required \subseteq Expansion /\ d.group \subseteq Group
                   /\ d.group = {} => d.producer \in facts.producers
  BY FactTypes DEF TypeOK
<1> QED BY <1>1, <1>2

\* ... a solution has.
LEMMA ClausesInSolution ==
  ASSUME IInv, NEW C \in SUBSET Node, NEW A \in SUBSET Node, NEW U \in SUBSET Unit,
         Solution(C, A, U), NEW K \in SUBSET A, NEW H \in SUBSET DemandedExpansions(A),
         NEW S \in SUBSET ReadyClauses(K, H)
  PROVE  /\ ClauseEffect(S).children \subseteq DemandedExpansions(A)
         /\ ClauseEffect(S).demanded \subseteq DemandedExpansions(A)
         /\ ClauseEffect(S).groups \subseteq ActiveGroups(U)
<1> DEFINE L == DemandedExpansions(A)
<1>1. TypeOK /\ facts \in FactSets /\ S \in SUBSET facts.demands
  BY DEF IInv, TypeOK, ReadyClauses
<1>2. \A d \in S : DemandReady(d, A, L)
  BY DEF ReadyClauses, DemandReady
<1>3. DemandRules(A, L)
  BY <1>1, DemandLeast
<1>4. \A d \in facts.demands : DemandReady(d, A, L) => \A g \in d.group : GroupSources(facts, g) \subseteq U
  BY DEF Solution, ClosedFacts, DemandReady
<1> HIDE DEF L
<1>5. \A d \in S : d.required \subseteq L /\ (d.group = {} => d.producer \in L)
  BY <1>1, <1>2, <1>3 DEF DemandRules
<1>6. \A d \in S : d.group \subseteq ActiveGroups(U)
  <2>1. \A d \in S : d.group \subseteq Group
    BY <1>1, FactTypes
  <2> QED BY <1>1, <1>2, <1>4, <2>1 DEF ActiveGroups
<1>7. ClauseEffect(S).children \subseteq L
  BY <1>1, <1>5, ClauseEffectType
<1>8. ClauseEffect(S).demanded \subseteq L
  <2>1. ClauseEffect(S).demanded = {d.producer : d \in {c \in S : c.group = {}}}
    BY <1>1, ClauseEffectType
  <2> QED BY <1>5, <2>1
<1>9. ClauseEffect(S).groups \subseteq ActiveGroups(U)
  BY <1>1, <1>6, ClauseEffectType
<1> QED BY <1>7, <1>8, <1>9 DEF L

\* A clause that becomes satisfied has its effect, whatever else the step does.
LEMMA SatisfiedNow ==
  ASSUME IInv, NEW S \in SUBSET facts.demands, NEW e, EffectType(e), NEW rest, Fewer(rest),
         Apply(e, rest), facts' = facts,
         e.children = ClauseEffect(S).children, ClauseEffect(S).demanded \subseteq e.demanded,
         e.groups = ClauseEffect(S).groups,
         satisfied' = satisfied \cup S, children \cup (e.children \ facts.producers) \subseteq children'
  PROVE  \A d \in satisfied' :
           /\ \A x \in d.required : x \in IF x \in facts.producers THEN demanded' ELSE children'
           /\ d.group = {} => d.producer \in demanded'
           /\ d.group \subseteq opened'
<1>1. /\ opened' = opened \cup e.groups
      /\ demanded' = demanded \cup e.demanded \cup (e.children \cap facts.producers)
  BY Applied DEF IInv, Grown
<1>2. ASSUME NEW d \in S
      PROVE  /\ d.required \subseteq e.children /\ d.group \subseteq e.groups
             /\ d.group = {} => d.producer \in e.demanded
  BY ClauseEffectType DEF IInv
<1>3. \A d \in satisfied :
           /\ \A x \in d.required : x \in IF x \in facts.producers THEN demanded ELSE children
           /\ d.group = {} => d.producer \in demanded
           /\ d.group \subseteq opened
  BY DEF IInv, DemandInv
<1> QED BY <1>1, <1>2, <1>3

LEMMA VisitActualIInv ==
  ASSUME IInv, NEW d \in Definition, VisitActual(d)
  PROVE  IInv'
<1> DEFINE clauses == ReadyClauses(ProcessedActual \cup {d}, handled)
           e == [ClauseEffect(clauses) EXCEPT
                   !.actual = MemberRequirements(d, ProcessedActual),
                   !.demanded = @ \cup {x \in facts.producers : d \in facts.demandTriggers[x]}]
           rest == Popped("actual", d)
<1>1. /\ At("actual", d) /\ Apply(e, rest) /\ satisfied' = satisfied \cup clauses
      /\ children' = children \cup (ClauseEffect(clauses).children \ facts.producers)
      /\ UNCHANGED <<facts, undelivered, phase, groupQueue, complete, materialized,
                     dependency, handled, inputs>>
  BY DEF VisitActual
<1>2. /\ TypeOK /\ facts \in FactSets /\ d \in pending["actual"] /\ d \in seenActual /\ d \in actual
      /\ clauses \in SUBSET facts.demands
  BY <1>1 DEF IInv, TypeOK, At, ReadyClauses
<1>3. /\ e.actual = MemberRequirements(d, ProcessedActual)
      /\ e.demanded = ClauseEffect(clauses).demanded \cup
                        {x \in facts.producers : d \in facts.demandTriggers[x]}
      /\ e.groups = ClauseEffect(clauses).groups /\ e.children = ClauseEffect(clauses).children
      /\ e.compile = {} /\ e.sources = {} /\ e.contributors = {} /\ e.ready = {}
      /\ e.meaningful = {}
  BY DEF ClauseEffect, NoEffect
<1>4. /\ Fewer(rest) /\ rest["actual"] = pending["actual"] \ {d}
      /\ \A q \in Names \ {"actual"} : rest[q] = pending[q]
  BY <1>2, PoppedIs DEF Names
<1> HIDE DEF e, rest, clauses
<1>5. EffectType(e)
  <2>1. MemberRequirements(d, ProcessedActual) \subseteq Node
    BY <1>2, FactTypes DEF MemberRequirements, Node
  <2>2. /\ e.children \subseteq Expansion /\ e.groups \subseteq Group
        /\ ClauseEffect(clauses).demanded \subseteq facts.producers
    BY <1>2, <1>3, ClauseEffectType
  <2> QED BY <1>3, <2>1, <2>2 DEF EffectType
<1>6. TypeOK'
  <2>1. children' \in SUBSET Expansion /\ e.children \ facts.producers \subseteq children'
    BY <1>1, <1>2, <1>3, <1>5 DEF EffectType, TypeOK
  <2>2. handled' \in SUBSET children' /\ satisfied' \in SUBSET facts.demands
    BY <1>1, <1>2 DEF TypeOK
  <2> QED BY <1>1, <1>2, <1>4, <1>5, <2>1, <2>2, FrameType DEF TypeOK
<1>7. CallerInv' /\ ProductInv' /\ PresenceInv' /\ TriggerInv' /\ RequestInv'
  BY <1>1, <1>4, <1>5, FrameSets DEF Names
<1>8. CompleteInv' /\ GroupInv' /\ MeaningInv'
  BY <1>1, <1>4, <1>5, FrameGroups DEF Names
<1>9. PhaseInv'
  BY <1>1, <1>3, <1>4, <1>5, FramePhase
<1>10. Grown(e) /\ Queued(e, rest)
  BY <1>1, <1>2, <1>4, <1>5, Applied
<1>11. /\ ProcessedActual' = ProcessedActual \cup {d}
       /\ actual' = actual \cup e.actual /\ compile' = compile \cup e.actual
       /\ demanded' = demanded \cup e.demanded \cup (e.children \cap facts.producers)
       /\ demanded' \ pending'["demanded"] = demanded \ pending["demanded"]
       /\ pending'["required"] = pending["required"] \cup ((e.children \ facts.producers) \ children)
  BY <1>2, <1>3, <1>4, <1>10 DEF Grown, Queued, ProcessedActual, Names
<1>12. ActualInv'
  <2>1. ASSUME NEW r \in facts.requirements, r[1] \in ProcessedActual \cup {d}
        PROVE  r[2] \in actual' \cap compile'
    BY <1>3, <1>11, <2>1 DEF IInv, ActualInv, MemberRequirements
  <2>2. ASSUME NEW r \in facts.conditional,
               r[1] \in ProcessedActual \cup {d}, r[2] \in ProcessedActual \cup {d}
        PROVE  r[3] \in actual' \cap compile'
    <3>1. CASE d \in {r[1], r[2]}
      BY <1>3, <1>11, <2>2, <3>1 DEF MemberRequirements
    <3>2. CASE d \notin {r[1], r[2]}
      BY <1>11, <2>2, <3>2 DEF IInv, ActualInv
    <3> QED BY <3>1, <3>2
  <2>3. \A x \in facts.producers :
          facts.demandTriggers[x] \cap (ProcessedActual \cup {d}) # {} => x \in demanded'
    BY <1>3, <1>11 DEF IInv, ActualInv
  <2> QED BY <1>1, <1>11, <2>1, <2>2, <2>3 DEF ActualInv
<1>13. DemandInv'
  <2>1. ReadyClauses(ProcessedActual, handled)' = {}
    BY <1>1, <1>11 DEF ReadyClauses, clauses
  <2>2. \A c \in satisfied' :
           /\ \A x \in c.required : x \in IF x \in facts.producers THEN demanded' ELSE children'
           /\ c.group = {} => c.producer \in demanded'
           /\ c.group \subseteq opened'
    BY <1>1, <1>2, <1>3, <1>4, <1>5, SatisfiedNow
  <2>3. demanded' \subseteq handled \cup pending'["demanded"]
    BY <1>11 DEF IInv, DemandInv
  <2>4. /\ children' \subseteq handled \cup pending'["required"]
        /\ pending'["required"] \cap facts.producers = {}
        /\ handled \subseteq actual' \cap compile'
    BY <1>1, <1>3, <1>11 DEF IInv, DemandInv
  <2> QED BY <1>1, <2>1, <2>2, <2>3, <2>4 DEF DemandInv
<1>14. LeastInv'
  <2>1. ASSUME NEW C \in SUBSET Node, NEW A \in SUBSET Node, NEW U \in SUBSET Unit,
               Solution(C, A, U), Within(C, A, U)
        PROVE  Allowed(e, C, A, U) /\ children' \subseteq DemandedExpansions(A)
    <3>1. d \in A /\ ProcessedActual \subseteq A
      BY <1>2, <2>1 DEF Within, ProcessedActual, TypeOK
    <3>2. MemberRequirements(d, ProcessedActual) \subseteq A \cap C
      BY <2>1, <3>1 DEF MemberRequirements, Solution, ClosedFacts
    <3>3. handled \subseteq DemandedExpansions(A)
      BY <1>2, <2>1 DEF Within, TypeOK
    <3>4. /\ ClauseEffect(clauses).children \subseteq DemandedExpansions(A)
          /\ ClauseEffect(clauses).demanded \subseteq DemandedExpansions(A)
          /\ ClauseEffect(clauses).groups \subseteq ActiveGroups(U)
      <4>1. ProcessedActual \cup {d} \in SUBSET A
        BY <3>1
      <4> QED BY <2>1, <3>3, <4>1, ClausesInSolution DEF clauses
    <3>5. \A x \in facts.producers : d \in facts.demandTriggers[x] => x \in DemandedExpansions(A)
      BY <1>2, <3>1, DemandLeast DEF DemandRules
    <3>6. Allowed(e, C, A, U)
      BY <1>3, <3>2, <3>4, <3>5 DEF Allowed
    <3> QED BY <1>1, <2>1, <3>4, <3>6 DEF Within
  <2> QED BY <1>1, <1>4, <1>5, <2>1, StaysWithin DEF Within
<1> QED BY <1>6, <1>7, <1>8, <1>9, <1>12, <1>13, <1>14 DEF IInv
LEMMA DemandChildIInv ==
  ASSUME IInv, NEW x \in Expansion, NEW p \in {"demanded", "required"}, At(p, x), DemandChild(x, p),
         UNCHANGED <<facts, undelivered, phase, groupQueue, complete, materialized,
                     dependency, inputs>>
  PROVE  IInv'
<1> DEFINE clauses == ReadyClauses(ProcessedActual, handled \cup {x})
                        \cap {d \in facts.demands : x \in d.dependents}
           e == [ClauseEffect(clauses) EXCEPT !.actual = {x}]
           rest == Popped(p, x)
<1>1. /\ Apply(e, rest) /\ satisfied' = satisfied \cup clauses /\ handled' = handled \cup {x}
      /\ children' = children \cup {x} \cup (ClauseEffect(clauses).children \ facts.producers)
  BY DEF DemandChild
<1>2. /\ TypeOK /\ facts \in FactSets /\ p \in Names /\ x \in demanded \cup children
      /\ clauses \in SUBSET facts.demands
  BY DEF IInv, TypeOK, At, Names, ReadyClauses
<1>3. /\ e.actual = {x} /\ e.demanded = ClauseEffect(clauses).demanded
      /\ e.groups = ClauseEffect(clauses).groups /\ e.children = ClauseEffect(clauses).children
      /\ e.compile = {} /\ e.sources = {} /\ e.contributors = {} /\ e.ready = {}
      /\ e.meaningful = {}
  BY DEF ClauseEffect, NoEffect
<1>4. /\ Fewer(rest) /\ rest[p] = pending[p] \ {x}
      /\ \A q \in Names \ {p} : rest[q] = pending[q]
  BY <1>2, PoppedIs
<1> HIDE DEF e, rest, clauses
<1>5. EffectType(e)
  <2>1. /\ e.children \subseteq Expansion /\ e.groups \subseteq Group
        /\ e.demanded \subseteq facts.producers
    BY <1>2, <1>3, ClauseEffectType
  <2>2. e.actual \subseteq Node
    BY <1>3 DEF Node
  <2> QED BY <1>3, <2>1, <2>2 DEF EffectType
<1>6. TypeOK'
  <2>1. /\ children' \in SUBSET Expansion /\ children \subseteq children'
        /\ e.children \ facts.producers \subseteq children'
    BY <1>1, <1>2, <1>3, <1>5 DEF EffectType, TypeOK
  <2>2. handled' \in SUBSET children' /\ satisfied' \in SUBSET facts.demands
    BY <1>1, <1>2 DEF TypeOK
  <2> QED BY <1>1, <1>2, <1>4, <1>5, <2>1, <2>2, FrameType DEF TypeOK
<1>7. CallerInv' /\ ProductInv' /\ PresenceInv' /\ TriggerInv' /\ ActualInv' /\ RequestInv'
  BY <1>1, <1>4, <1>5, FrameSets DEF Names
<1>8. CompleteInv' /\ GroupInv' /\ MeaningInv'
  BY <1>1, <1>4, <1>5, FrameGroups DEF Names
<1>9. PhaseInv'
  BY <1>1, <1>3, <1>4, <1>5, FramePhase
<1>10. Grown(e) /\ Queued(e, rest)
  BY <1>1, <1>2, <1>4, <1>5, Applied
<1>11. /\ ProcessedActual' = ProcessedActual
       /\ actual' = actual \cup {x} /\ compile' = compile \cup {x}
       /\ demanded' \ pending'["demanded"] \subseteq (demanded \ pending["demanded"]) \cup {x}
       /\ pending["required"] \ {x} \subseteq pending'["required"]
       /\ (e.children \ facts.producers) \ children \subseteq pending'["required"]
       /\ pending'["required"] \subseteq pending["required"] \cup (e.children \ facts.producers)
  BY <1>2, <1>3, <1>4, <1>10 DEF Grown, Queued, ProcessedActual, Names
<1>12. DemandInv'
  <2>1. ASSUME NEW d \in facts.demands \ satisfied', d.carriers \cap ProcessedActual # {},
               \/ d.required # {}
               \/ \E y \in d.dependents : y \notin facts.producers
               \/ d.dependents \cap facts.producers \cap (handled \cup {x}) # {}
        PROVE  FALSE
    <3>1. d \in ReadyClauses(ProcessedActual, handled \cup {x}) /\ d \notin satisfied
      BY <1>1, <2>1 DEF ReadyClauses
    <3>2. CASE x \in d.dependents
      BY <1>1, <2>1, <3>1, <3>2 DEF clauses
    <3>3. CASE x \notin d.dependents
      <4>1. d \in ReadyClauses(ProcessedActual, handled)
        BY <2>1, <3>1, <3>3 DEF ReadyClauses
      <4> QED BY <4>1 DEF IInv, DemandInv
    <3> QED BY <3>2, <3>3
  <2>2. ReadyClauses(ProcessedActual, handled)' = {}
    BY <1>1, <1>11, <2>1 DEF ReadyClauses
  <2>3. \A d \in satisfied' :
           /\ \A y \in d.required : y \in IF y \in facts.producers THEN demanded' ELSE children'
           /\ d.group = {} => d.producer \in demanded'
           /\ d.group \subseteq opened'
    BY <1>1, <1>2, <1>3, <1>4, <1>5, SatisfiedNow
  <2>4. demanded' \subseteq handled' \cup pending'["demanded"]
    BY <1>1, <1>11 DEF IInv, DemandInv
  <2>5. children' \subseteq handled' \cup pending'["required"]
    BY <1>1, <1>3, <1>11 DEF IInv, DemandInv
  <2>6. /\ pending'["required"] \cap facts.producers = {}
        /\ handled' \subseteq actual' \cap compile'
    BY <1>1, <1>11 DEF IInv, DemandInv
  <2> QED BY <2>2, <2>3, <2>4, <2>5, <2>6 DEF DemandInv
<1>13. LeastInv'
  <2>1. ASSUME NEW C \in SUBSET Node, NEW A \in SUBSET Node, NEW U \in SUBSET Unit,
               Solution(C, A, U), Within(C, A, U)
        PROVE  Allowed(e, C, A, U) /\ children' \subseteq DemandedExpansions(A)
    <3>1. x \in DemandedExpansions(A) /\ handled \subseteq DemandedExpansions(A)
      BY <1>2, <2>1 DEF Within, TypeOK
    <3>2. x \in A \cap C
      BY <2>1, <3>1 DEF Solution, ClosedFacts
    <3>3. ProcessedActual \in SUBSET A
      BY <1>2, <2>1 DEF Within, ProcessedActual, TypeOK
    <3>4. clauses \in SUBSET ReadyClauses(ProcessedActual, handled \cup {x})
      BY DEF clauses
    <3>5. /\ ClauseEffect(clauses).children \subseteq DemandedExpansions(A)
          /\ ClauseEffect(clauses).demanded \subseteq DemandedExpansions(A)
          /\ ClauseEffect(clauses).groups \subseteq ActiveGroups(U)
      <4>1. handled \cup {x} \in SUBSET DemandedExpansions(A)
        BY <3>1
      <4> QED BY <2>1, <3>3, <3>4, <4>1, ClausesInSolution
    <3>6. Allowed(e, C, A, U)
      BY <1>3, <3>2, <3>5 DEF Allowed
    <3> QED BY <1>1, <2>1, <3>1, <3>5, <3>6 DEF Within
  <2> QED BY <1>1, <1>4, <1>5, <2>1, StaysWithin DEF Within
<1> QED BY <1>6, <1>7, <1>8, <1>9, <1>12, <1>13 DEF IInv

LEMMA VisitRequiredIInv ==
  ASSUME IInv, NEW x \in Expansion, VisitRequired(x)
  PROVE  IInv'
BY DemandChildIInv DEF VisitRequired

\* A producer that is a processed child already has been handled.
LEMMA VisitDemandedIInv ==
  ASSUME IInv, NEW x \in Expansion, VisitDemanded(x)
  PROVE  IInv'
<1>1. CASE x \notin children
  BY <1>1, DemandChildIInv DEF VisitDemanded
<1>2. CASE x \in children
  <2> DEFINE rest == Popped("demanded", x)
  <2>1. /\ At("demanded", x) /\ Apply(NoEffect, rest)
        /\ UNCHANGED <<facts, undelivered, phase, groupQueue, complete, materialized,
                       dependency, inputs, handled, satisfied, children>>
    BY <1>2 DEF VisitDemanded
  <2>2. /\ TypeOK /\ facts \in FactSets /\ x \in pending["demanded"] /\ x \in facts.producers
    BY <2>1 DEF IInv, TypeOK, At
  <2>3. /\ NoEffect.compile = {} /\ NoEffect.actual = {} /\ NoEffect.sources = {}
        /\ NoEffect.contributors = {} /\ NoEffect.ready = {} /\ NoEffect.groups = {}
        /\ NoEffect.meaningful = {} /\ NoEffect.demanded = {} /\ NoEffect.children = {}
    BY DEF NoEffect
  <2>4. /\ Fewer(rest) /\ rest["demanded"] = pending["demanded"] \ {x}
        /\ \A q \in Names \ {"demanded"} : rest[q] = pending[q]
    BY <2>2, PoppedIs DEF Names
  <2> HIDE DEF rest
  <2>5. EffectType(NoEffect)
    BY <2>3 DEF EffectType
  <2>6. TypeOK'
    BY <2>1, <2>2, <2>3, <2>4, <2>5, FrameType DEF TypeOK
  <2>7. CallerInv' /\ ProductInv' /\ PresenceInv' /\ TriggerInv' /\ ActualInv' /\ RequestInv'
    BY <2>1, <2>4, <2>5, FrameSets DEF Names
  <2>8. CompleteInv' /\ GroupInv' /\ MeaningInv'
    BY <2>1, <2>4, <2>5, FrameGroups DEF Names
  <2>9. PhaseInv'
    BY <2>1, <2>3, <2>4, <2>5, FramePhase
  <2>10. DemandInv'
    <3>1. Grown(NoEffect) /\ Queued(NoEffect, rest)
      BY <2>1, <2>2, <2>4, <2>5, Applied
    <3>2. /\ ProcessedActual' = ProcessedActual /\ compile' = compile /\ actual' = actual
          /\ opened' = opened /\ pending'["required"] = pending["required"] /\ demanded' = demanded
          /\ demanded' \ pending'["demanded"] \subseteq (demanded \ pending["demanded"]) \cup {x}
      BY <2>2, <2>3, <2>4, <3>1 DEF Grown, Queued, ProcessedActual, Names
    <3>3. x \in handled
      BY <1>2, <2>2 DEF IInv, DemandInv
    <3>4. ReadyClauses(ProcessedActual, handled)' = ReadyClauses(ProcessedActual, handled)
      BY <2>1, <3>2 DEF ReadyClauses
    <3> QED BY <2>1, <3>2, <3>3, <3>4 DEF IInv, DemandInv
  <2>11. LeastInv'
    <3>1. ASSUME NEW C \in SUBSET Node, NEW A \in SUBSET Node, NEW U \in SUBSET Unit
          PROVE  Allowed(NoEffect, C, A, U)
      BY <2>3 DEF Allowed
    <3> QED BY <2>1, <2>4, <2>5, <3>1, StaysWithin DEF Within
  <2> QED BY <2>6, <2>7, <2>8, <2>9, <2>10, <2>11 DEF IInv
<1> QED BY <1>1, <1>2

LEMMA CloseIInv == IInv /\ Close => IInv'
<1> SUFFICES ASSUME IInv, Close PROVE IInv'
  OBVIOUS
<1>1. ASSUME NEW n \in Node, VisitProduct(n) \/ VisitPresence(n)
      PROVE  IInv'
  BY <1>1, VisitProductIInv, VisitPresenceIInv
<1>2. ASSUME NEW d \in Definition, VisitActual(d)
      PROVE  IInv'
  BY <1>2, VisitActualIInv
<1>3. ASSUME NEW u \in Unit, VisitSource(u)
      PROVE  IInv'
  BY <1>3, VisitSourceIInv
<1>4. ASSUME NEW c \in Contributor, VisitRequested(c) \/ VisitComplete(c)
      PROVE  IInv'
  BY <1>4, VisitRequestedIInv, VisitCompleteIInv
<1>5. ASSUME NEW g \in Group, Materialize(g)
      PROVE  IInv'
  BY <1>5, MaterializeIInv
<1>6. ASSUME NEW x \in Expansion, VisitMeaningful(x) \/ VisitDemanded(x) \/ VisitRequired(x)
      PROVE  IInv'
  BY <1>6, VisitMeaningfulIInv, VisitDemandedIInv, VisitRequiredIInv
<1> QED BY <1>1, <1>2, <1>3, <1>4, <1>5, <1>6, NextPhaseIInv DEF Close

THEOREM Invariance == Spec => []IInv
<1>1. Init => IInv
  BY InitIInv
<1>2. IInv /\ [Next]_vars => IInv'
  <2> SUFFICES ASSUME IInv, [Next]_vars PROVE IInv'
    OBVIOUS
  <2>1. ASSUME NEW i \in Inputs, CallerAdds(i[1], i[2])
        PROVE  IInv'
    BY <2>1, CallerAddsIInv
  <2>2. CASE UNCHANGED vars
    <3>1. phase' \in 0..9 /\ PhaseInv'
      BY <2>2, PhaseFacts DEF vars, IInv, TypeOK, PhaseInv
    <3> QED BY <2>2, <3>1, UnmovedSets DEF vars, IInv
  <2> QED BY <2>1, <2>2, DeliverIInv, BeginCloseIInv, CloseIInv DEF Next
<1> QED BY <1>1, <1>2, PTL DEF Spec
-----------------------------------------------------------------------------
(* Between calls                                                           *)

\* Everything has been handed over and visited.
LEMMA RestFacts ==
  ASSUME IInv, AtRest
  PROVE  /\ ProcessedPresence = compile /\ ProcessedProducts = actual
         /\ ProcessedActual = actual \cap Definition /\ ConsumedSource = retained
         /\ ProcessedContributors = requested /\ ProcessedMeaning = meaningful
         /\ demanded \cup children \subseteq handled
         /\ pending["complete"] = {} /\ groupQueue = {}
<1>1. \A p \in Names : pending[p] = {}
  BY PhaseFacts DEF AtRest, HasWork
<1>2. groupQueue = {}
  BY DEF AtRest, IInv, PhaseInv
<1>3. seenPresence = compile /\ seenActual = actual /\ seenSource = retained
  BY DEF AtRest, IInv, CallerInv, TypeOK
<1>4. demanded \cup children \subseteq handled
  BY <1>1 DEF IInv, DemandInv, Names
<1> QED BY <1>1, <1>2, <1>3, <1>4 DEF ProcessedPresence, ProcessedProducts, ProcessedActual,
          ConsumedSource, ProcessedContributors, ProcessedMeaning, Names

\* No contributor is left behind: of those that are not complete although their
\* sources are retained, one would have the fewest ancestors, and its parents
\* are complete.
LEMMA RestComplete ==
  ASSUME IInv, AtRest
  PROVE  \A c \in Contributor : ContributorSources(c) \subseteq retained => c \in complete
<1> DEFINE Lost == {c \in Contributor \ complete : ContributorSources(c) \subseteq retained}
           Past == {ContributorClosure(facts, c) : c \in Lost}
<1>1. facts \in FactSets
  BY DEF IInv, TypeOK
<1>2. ASSUME Lost # {}
      PROVE  FALSE
  <2>1. Past \in SUBSET SUBSET Contributor /\ Past # {}
    <3>1. \A c : ContributorClosure(facts, c) \subseteq Contributor
      BY DEF ContributorClosure
    <3>2. PICK c \in Lost : TRUE
      BY <1>2
    <3>3. ContributorClosure(facts, c) \in Past
      BY <3>2
    <3> QED BY <3>1, <3>3
  <2>2. IsWellFoundedOn(StrictSubsetOrdering(Contributor), FiniteSubsetsOf(Contributor))
    BY FS_StrictSubsetOrderingWellFounded
  <2>3. Past \subseteq FiniteSubsetsOf(Contributor)
    BY <2>1, Kinds, FS_FiniteSubsetsOfFinite
  <2>4. PICK P \in Past : \A Q \in Past : ~(<<Q, P>> \in StrictSubsetOrdering(Contributor))
    BY <2>1, <2>2, <2>3, WFMin
  <2>5. PICK c \in Lost : P = ContributorClosure(facts, c)
    BY <2>4
  <2>6. c \in P /\ P \subseteq Contributor
    BY <1>1, <2>5, ClosureFacts
  <2>7. ASSUME NEW p \in facts.parents[c]
        PROVE  p \in complete
    <3>1. /\ p \in Contributor /\ ContributorClosure(facts, p) \subseteq P
          /\ c \notin ContributorClosure(facts, p)
      BY <1>1, <2>5, ClosureOfParent
    <3>2. ContributorSources(p) \subseteq retained
      BY <2>5, <3>1 DEF ContributorSources
    <3>3. p \notin complete => ContributorClosure(facts, p) \in Past
      BY <3>1, <3>2
    <3>4. <<ContributorClosure(facts, p), P>> \in StrictSubsetOrdering(Contributor)
      BY <2>6, <3>1 DEF StrictSubsetOrdering
    <3> QED BY <2>4, <3>3, <3>4
  <2>8. facts.sources[c] \subseteq retained
    BY <2>5, <2>6 DEF ContributorSources
  <2>9. ContributorReady(c, ConsumedSource, complete)
    BY <2>7, <2>8, RestFacts DEF ContributorReady
  <2> QED BY <2>9, RestFacts DEF IInv, CompleteInv
<1> QED BY <1>2

LEMMA RestGroups ==
  ASSUME IInv, AtRest
  PROVE  materialized = ActiveGroups(retained) /\ opened \subseteq ActiveGroups(retained)
<1>1. facts \in FactSets /\ materialized \in SUBSET Group /\ opened \in SUBSET Group
      /\ requested \in SUBSET Contributor
  BY DEF IInv, TypeOK
<1>2. ASSUME NEW g \in ActiveGroups(retained)
      PROVE  g \in materialized
  <2>1. g \in Group /\ facts.roots[g] \subseteq Contributor
    BY <1>1, FactTypes DEF ActiveGroups
  <2>2. \A c \in facts.roots[g] : ContributorSources(c) \subseteq retained
    BY <1>1, ActiveContributors
  <2>3. facts.roots[g] \subseteq complete
    BY <2>1, <2>2, RestComplete
  <2> QED BY <2>1, <2>3, RestFacts DEF IInv, CompleteInv
<1>3. ASSUME NEW g \in opened
      PROVE  g \in ActiveGroups(retained)
  <2>1. \A c \in requested : facts.sources[c] \subseteq retained /\ facts.parents[c] \subseteq requested
    BY RestFacts DEF IInv, RequestInv
  <2>2. facts.roots[g] \subseteq requested
    BY DEF IInv, RequestInv
  <2>3. \A c \in facts.roots[g] : ContributorClosure(facts, c) \subseteq requested
    BY <1>1, <2>1, <2>2, ClosureFacts
  <2>4. GroupSources(facts, g) \subseteq retained
    BY <2>1, <2>3 DEF GroupSources
  <2> QED BY <1>1, <2>4 DEF ActiveGroups
<1> QED BY <1>1, <1>2, <1>3, CompleteSources

\* All the meaning that the active groups have has been found.
LEMMA RestMeaning ==
  ASSUME IInv, AtRest
  PROVE  MeaningfulProducers(ActiveGroups(retained)) \subseteq meaningful
<1>1. /\ facts \in FactSets /\ Accepted(facts) /\ materialized \in SUBSET Group
      /\ meaningful \in SUBSET facts.producers
  BY FactsAccepted DEF IInv, TypeOK
<1>2. facts.intrinsic \subseteq meaningful
      /\ \A x \in meaningful : facts.dependentProducers[x] \subseteq meaningful
  BY RestFacts DEF IInv, MeaningInv
<1>3. ASSUME NEW g \in materialized
      PROVE  /\ IntrinsicGroup(facts, g) => facts.producer[g] \in meaningful
             /\ \A n \in DependsOn(facts, g) :
                  \/ n \in Expansion /\ n \in meaningful
                  \/ n \in Definition /\ \E h \in materialized : n \in facts.products[h]
                  => facts.producer[g] \in meaningful
  <2>1. \A h \in materialized : IntrinsicGroup(facts, h) => facts.producer[h] \in meaningful
    BY DEF IInv, MeaningInv
  <2>2. ASSUME NEW n \in DependsOn(facts, g), n \in meaningful
        PROVE  facts.producer[g] \in meaningful
    <3>1. g \in dependency
      BY <1>1, <2>2, RestFacts DEF IInv, MeaningInv
    <3>2. MeaningComes(g)
      BY <3>1 DEF IInv, MeaningInv
    <3> QED BY <2>1, <3>2, RestGroups DEF MeaningComes
  <2>3. ASSUME NEW n \in DependsOn(facts, g), n \in Definition,
               NEW h \in materialized, n \in facts.products[h]
        PROVE  facts.producer[g] \in meaningful
    <3>1. n \notin facts.producers
      BY <1>1, <2>3, FactTypes, Kinds
    <3>2. PICK o \in facts.owners[g] : o.effect = "Shell" /\ n \in o.dependents
      BY <2>3, <3>1 DEF DependsOn
    <3>3. PICK k \in Group : facts.producer[k] = facts.producer[g] /\ n \in facts.products[k]
      BY <1>1, <3>2 DEF Accepted
    <3>4. k = h
      BY <1>1, <2>3, <3>3 DEF Accepted
    <3>5. IntrinsicGroup(facts, h)
      BY <2>3, <3>1 DEF IntrinsicGroup
    <3> QED BY <2>1, <3>3, <3>4, <3>5
  <2> QED BY <2>1, <2>2, <2>3
<1>4. MeaningRules(materialized, meaningful)
  BY <1>2, <1>3 DEF MeaningRules
<1> QED BY <1>1, <1>4, MeaningLeast, RestGroups

\* All that is demanded has been handled.
LEMMA RestDemands ==
  ASSUME IInv, AtRest
  PROVE  /\ DemandedExpansions(actual) \subseteq handled
         /\ \A d \in facts.demands : DemandReady(d, actual, handled) => d.group \subseteq opened
<1>1. facts \in FactSets /\ handled \in SUBSET Expansion
  BY DEF IInv, TypeOK
<1>2. ASSUME NEW x \in facts.producers, facts.demandTriggers[x] \cap actual # {}
      PROVE  x \in handled
  <2>1. facts.demandTriggers[x] \subseteq Definition
    BY <1>1, FactTypes
  <2>2. x \in demanded
    BY <1>2, <2>1, RestFacts DEF IInv, ActualInv
  <2> QED BY <2>2, RestFacts
<1>3. ASSUME NEW d \in facts.demands, DemandReady(d, actual, handled)
      PROVE  d \in satisfied
  <2>1. d.carriers \cap ProcessedActual # {}
    BY <1>1, <1>3, RestFacts, FactTypes DEF DemandReady
  <2>2. d \notin satisfied => d \in ReadyClauses(ProcessedActual, handled)
    BY <1>3, <2>1 DEF ReadyClauses, DemandReady
  <2> QED BY <2>2 DEF IInv, DemandInv
<1>4. \A d \in satisfied : /\ d.required \subseteq handled /\ d.group \subseteq opened
                           /\ d.group = {} => d.producer \in handled
  BY RestFacts DEF IInv, DemandInv
<1>5. DemandRules(actual, handled)
  BY <1>2, <1>3, <1>4 DEF DemandRules
<1> QED BY <1>1, <1>3, <1>4, <1>5, DemandLeast

LEMMA RestClosed ==
  ASSUME IInv, AtRest
  PROVE  ClosedFacts(compile, actual, retained)
<1>1. /\ facts \in FactSets /\ compile \in SUBSET Node /\ actual \in SUBSET Node
      /\ retained \in SUBSET Unit
  BY DEF IInv, TypeOK
<1>2. ASSUME NEW r \in facts.requirements
      PROVE  /\ r[1] \in compile => r[2] \in compile
             /\ r[1] \in actual => r[2] \in actual \cap compile
  BY <1>1, RestFacts, FactTypes DEF IInv, PresenceInv, ActualInv
<1>3. ASSUME NEW r \in facts.conditional
      PROVE  /\ r[1] \in compile /\ r[2] \in compile => r[3] \in compile
             /\ r[1] \in actual /\ r[2] \in actual => r[3] \in actual \cap compile
  BY <1>1, RestFacts, FactTypes DEF IInv, PresenceInv, ActualInv
<1>4. \A c \in facts.classes : c \cap actual # {} => c \subseteq actual \cap compile
  BY RestFacts DEF IInv, ProductInv
<1>5. ASSUME NEW g \in Group, NEW n \in TriggersOf(facts, g) \cap compile,
             n \in facts.producers => n \in MeaningfulProducers(ActiveGroups(retained))
      PROVE  g \in ActiveGroups(retained)
  <2>1. n \in ProcessedPresence /\ (n \in facts.producers => n \in ProcessedMeaning)
    BY <1>5, RestFacts, RestMeaning
  <2> QED BY <2>1, RestGroups DEF IInv, TriggerInv
<1>6. ASSUME NEW g \in ActiveGroups(retained)
      PROVE  /\ facts.products[g] \subseteq compile
             /\ \A o \in facts.owners[g] : o.owner \in compile => o.members \subseteq compile
  BY RestFacts, RestGroups DEF IInv, GroupInv
<1>7. DemandedExpansions(actual) \subseteq actual \cap compile
  BY RestDemands DEF IInv, DemandInv
<1>8. ASSUME NEW d \in facts.demands, DemandReady(d, actual, DemandedExpansions(actual))
      PROVE  d.group \subseteq ActiveGroups(retained)
  <2>1. DemandReady(d, actual, handled)
    BY <1>8, RestDemands DEF DemandReady
  <2> QED BY <2>1, RestDemands, RestGroups
<1> QED BY <1>1, <1>2, <1>3, <1>4, <1>5, <1>6, <1>7, <1>8, ClosedRules

-----------------------------------------------------------------------------
\* The queues hold what was seen and not yet visited, and nothing is visited
\* that the caller or close has not added.
THEOREM TypeCorrect == Spec => []TypeOK
<1>1. IInv => TypeOK
  BY DEF IInv
<1> QED BY <1>1, Invariance, PTL

\* Whenever close has returned, it has materialized the groups that are wholly
\* written in retained source, and found the producers that are meaningful in
\* them: what outputless_macro_expansions_after_rewrite computes from scratch.
THEOREM IndexesMatch == Spec => []IndexesAgree
<1>1. ASSUME IInv, AtRest
      PROVE  /\ materialized = ActiveGroups(retained)
             /\ meaningful = MeaningfulProducers(ActiveGroups(retained))
  <2>1. Solution(compile, actual, retained)
    BY <1>1, RestClosed DEF Solution, IInv, CallerInv
  <2>2. Within(compile, actual, retained)
    BY <1>1, <2>1 DEF IInv, TypeOK, LeastInv
  <2> QED BY <1>1, <2>2, RestGroups, RestMeaning DEF Within
<1>2. IInv => IndexesAgree
  BY <1>1 DEF IndexesAgree
<1> QED BY <1>2, Invariance, PTL

\* Whenever close has returned, nodes, actual nodes and units satisfy every
\* constraint, and no part of what close added can be left out.
THEOREM DemandsAreExact == Spec => []DemandsExact
<1>1. ASSUME IInv, AtRest,
             NEW C \in SUBSET {x \in compile : <<"compile", x>> \notin inputs},
             NEW A \in SUBSET {x \in actual : <<"actual", x>> \notin inputs},
             NEW U \in SUBSET {x \in retained : <<"source", x>> \notin inputs},
             ClosedFacts(compile \ C, actual \ A, retained \ U)
      PROVE  C = {} /\ A = {} /\ U = {}
  <2>1. /\ compile \ C \in SUBSET Node /\ actual \ A \in SUBSET Node
        /\ retained \ U \in SUBSET Unit
    BY <1>1 DEF IInv, TypeOK
  <2>2. Solution(compile \ C, actual \ A, retained \ U)
    BY <1>1 DEF Solution, IInv, CallerInv
  <2>3. Within(compile \ C, actual \ A, retained \ U)
    BY <1>1, <2>1, <2>2 DEF IInv, LeastInv
  <2> QED BY <2>3 DEF Within
<1>2. IInv => DemandsExact
  BY <1>1, RestClosed DEF DemandsExact
<1> QED BY <1>2, Invariance, PTL
=============================================================================
