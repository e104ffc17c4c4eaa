--------------------------- MODULE MacroProducts ---------------------------
(***************************************************************************)
(* retention/macro_products.rs, RetentionClosure: the incremental closure  *)
(* that relates the output of declarative macros to the source that        *)
(* produces it.  A materialization group is one piece of an expansion's    *)
(* output; its contributors are the source units it is transcribed from.   *)
(* Requiring meaningful output retains the contributors; retained          *)
(* contributors materialize the output.                                    *)
(*                                                                         *)
(* close drains nine queues in a fixed order of phases, over and over.     *)
(* The order of the phases is kept, the order inside a queue is free.      *)
(* The counters of missing sources, parents and roots are modelled by the  *)
(* sets they count.                                                        *)
(***************************************************************************)
EXTENDS Naturals, Sequences, FiniteSets

CONSTANTS
  Definition, Expansion,   \* graph nodes
  Unit,                    \* source units
  Group,                   \* materialization groups
  Contributor,             \* nodes of the contributor DAG
  FactSets,                \* the validated facts to consider
  Inputs                   \* what the caller may add: <<lane, node or unit>>

Node == Definition \cup Expansion

(***************************************************************************)
(* owners: per group, the owner requirements.  A Semantic effect is kept   *)
(* with its owner; a Shell follows its dependent products.                 *)
(* demands: output demands of producers (group = {}) and of groups.        *)
(***************************************************************************)
OwnerRequirement ==
  [owner : Definition, members : SUBSET Definition,
   effect : {"Semantic", "Shell"}, dependents : SUBSET Node]

Demand ==
  [producer : Expansion, group : {{}} \cup {{g} : g \in Group},
   carriers : SUBSET Definition, dependents : SUBSET Expansion,
   required : SUBSET Expansion]

ASSUME FactAssumption ==
  /\ \A f \in FactSets :
       /\ f.producers \subseteq Expansion
       /\ f.intrinsic \subseteq f.producers
       /\ f.dependentProducers \in [Expansion -> SUBSET f.producers]
       /\ f.demandTriggers \in [Expansion -> SUBSET Definition]
       /\ f.producer \in [Group -> f.producers]
       /\ f.products \in [Group -> SUBSET Node]
       /\ \A g \in Group : f.owners[g] \subseteq OwnerRequirement
       /\ f.roots \in [Group -> SUBSET Contributor]
       /\ f.sources \in [Contributor -> SUBSET Unit]
       /\ f.parents \in [Contributor -> SUBSET Contributor]
       /\ f.demands \subseteq Demand
       /\ \A d \in f.demands : d.group = {} => d.producer \in f.producers
       /\ f.classes \subseteq SUBSET Definition
       /\ f.requirements \subseteq Definition \X Definition
       /\ f.conditional \subseteq Definition \X Definition \X Definition
  /\ Inputs \subseteq ({"compile", "actual"} \X Node) \cup ({"source"} \X Unit)
  /\ Definition \cap Expansion = {} /\ IsFiniteSet(Contributor)

-----------------------------------------------------------------------------
(* MacroOutputMeaningIndex and ValidatedMacroProducts: static indexes.     *)

\* group_has_intrinsic_output
IntrinsicGroup(f, g) ==
  \/ \E n \in f.products[g] : n \notin f.producers
  \/ \E o \in f.owners[g] :
       \/ o.effect = "Semantic"
       \/ \E n \in o.dependents : \/ n \in Expansion \ f.producers
                                  \/ n \in Definition \cap f.products[g]

\* dependent_groups_by_product, the other way round.
DependsOn(f, g) ==
  (f.products[g] \cap f.producers) \cup
  UNION {{n \in o.dependents : n \in Expansion \/ n \notin f.products[g]} :
           o \in {p \in f.owners[g] : p.effect = "Shell"}}

GroupDemands(f, g) == {d \in f.demands : d.group = {g}}

\* Expansions that an output demand of the group classifies.
RoleExpansions(f, g) == UNION {d.dependents \cup d.required : d \in GroupDemands(f, g)}

\* compile_trigger_groups, the other way round.
TriggersOf(f, g) ==
  (f.products[g] \ RoleExpansions(f, g)) \cup
  (UNION {{o.owner} \cup o.members : o \in {p \in f.owners[g] : p.effect = "Semantic"}}) \cup
  (IF GroupDemands(f, g) = {} THEN DependsOn(f, g) ELSE {})

(***************************************************************************)
(* What new_with_dag_and_output_meaning and the coverage validation accept:*)
(* a product belongs to one group, a shell has no members and depends on   *)
(* products of its own producer, expansion products are classified once,   *)
(* contributors form a DAG and every root reaches a source unit.           *)
(***************************************************************************)
ContributorClosure(f, c) ==
  {d \in Contributor :
     \A S \in SUBSET Contributor :
       c \in S /\ (\A x \in S : f.parents[x] \subseteq S) => d \in S}

GroupSources(f, g) ==
  UNION {f.sources[c] : c \in UNION {ContributorClosure(f, r) : r \in f.roots[g]}}

Accepted(f) ==
  /\ \A g, h \in Group : g # h => f.products[g] \cap f.products[h] = {}
  /\ \A g \in Group : f.products[g] # {} \/ f.owners[g] # {}
  /\ \A g \in Group : f.roots[g] # {} /\ GroupSources(f, g) # {}
  /\ \A c \in Contributor : \A p \in f.parents[c] : c \notin ContributorClosure(f, p)
  /\ \A g \in Group : \A o \in f.owners[g] :
       o.effect = "Shell" =>
         /\ o.members = {} /\ o.dependents # {}
         /\ \A n \in o.dependents :
              \E h \in Group : f.producer[h] = f.producer[g] /\ n \in f.products[h]
  /\ \A g \in Group : f.products[g] \cap Expansion = RoleExpansions(f, g)
  /\ \A d \in f.demands : /\ d.carriers # {} /\ d.dependents \cup d.required # {}
                          /\ d.dependents \cap d.required = {}

ASSUME FactsAccepted == \A f \in FactSets : Accepted(f)

-----------------------------------------------------------------------------
\* Mutant: new presence is looked at before the meaning that came with it.
PhasesPresenceLate == <<"products", "actual", "source", "requested", "complete",
                        "presence", "meaningful", "demanded", "required">>

\* The queues of close, in the order of its inner loops.
Phases == <<"products", "presence", "actual", "source", "requested",
            "complete", "meaningful", "demanded", "required">>

VARIABLES
  facts,                          \* fixed at the start
  compile, actual, retained,      \* the caller's lanes and retained units
  undelivered,                    \* facts the caller has not handed over yet
  phase,                          \* 0 between calls, else an index of Phases
  pending,                        \* the queue of each phase
  groupQueue,                     \* groups about to be materialized
  seenPresence, seenActual, seenSource,
  opened,                         \* macro_sources_opened
  requested, complete,            \* contributors
  materialized, dependency,       \* groups; group_has_meaningful_dependency
  meaningful, demanded,           \* producers
  children,                       \* processed_demanded_children
  handled,                        \* children process_demanded_child has seen
  satisfied,                      \* demand clauses
  inputs                          \* history: facts the caller added itself

vars == <<facts, compile, actual, retained, undelivered, phase, pending,
          groupQueue, seenPresence, seenActual, seenSource, opened, requested,
          complete, materialized, dependency, meaningful, demanded, children,
          handled, satisfied, inputs>>

NoPending == [p \in {Phases[i] : i \in 1..Len(Phases)} |-> {}]

ProcessedPresence == seenPresence \ pending["presence"]
ProcessedActual == (seenActual \cap Definition) \ pending["actual"]
ConsumedSource == seenSource \ pending["source"]

\* Mutant: a contributor is complete whatever its parents lack.
ContributorReadyAlone(c, consumed, done) == facts.sources[c] \subseteq consumed

\* contributor_missing_sources and contributor_missing_parents are both zero.
ContributorReady(c, consumed, done) ==
  facts.sources[c] \subseteq consumed /\ facts.parents[c] \subseteq done

Init ==
  /\ facts \in FactSets
  /\ compile = {} /\ actual = {} /\ retained = {} /\ undelivered = {} /\ inputs = {}
  /\ phase = 0 /\ groupQueue = {}
  /\ seenPresence = {} /\ seenActual = {} /\ seenSource = {}
  /\ opened = {} /\ requested = {} /\ complete = {}
  /\ materialized = {} /\ dependency = {}
  /\ meaningful = facts.intrinsic
  /\ demanded = {} /\ children = {} /\ handled = {} /\ satisfied = {}
  /\ pending = [NoPending EXCEPT
       !["meaningful"] = facts.intrinsic,
       !["complete"] = {c \in Contributor : ContributorReady(c, {}, {})}]

\* The caller adds a fact to its own sets.  materialize_group_outputs reads
\* those directly, so a fact has an effect before it is handed over.
CallerAdds(lane, x) ==
  /\ phase = 0 /\ <<lane, x>> \notin inputs
  /\ inputs' = inputs \cup {<<lane, x>>}
  /\ LET known == IF lane = "compile" THEN compile
                  ELSE IF lane = "actual" THEN actual ELSE retained
     IN  undelivered' = IF x \in known THEN undelivered ELSE undelivered \cup {<<lane, x>>}
  /\ compile' = IF lane = "compile" THEN compile \cup {x} ELSE compile
  /\ actual' = IF lane = "actual" THEN actual \cup {x} ELSE actual
  /\ retained' = IF lane = "source" THEN retained \cup {x} ELSE retained
  /\ UNCHANGED <<facts, phase, pending, groupQueue, seenPresence, seenActual,
                 seenSource, opened, requested, complete, materialized,
                 dependency, meaningful, demanded, children, handled, satisfied>>

\* add_presence, add_actual and add_source with everything since the last time.
Deliver ==
  LET new(lane) == {x \in Node \cup Unit : <<lane, x>> \in undelivered}
      presence  == new("compile") \ seenPresence
      actuals   == new("actual") \ seenActual
  IN
  /\ phase = 0 /\ undelivered # {}
  /\ undelivered' = {}
  /\ seenPresence' = seenPresence \cup presence
  /\ seenActual' = seenActual \cup actuals
  /\ seenSource' = seenSource \cup new("source")
  /\ pending' = [pending EXCEPT
       !["presence"] = @ \cup presence,
       !["products"] = @ \cup actuals,
       !["actual"] = @ \cup (actuals \cap Definition),
       !["source"] = @ \cup (new("source") \ seenSource)]
  /\ UNCHANGED <<facts, compile, actual, retained, phase, groupQueue, opened,
                 requested, complete, materialized, dependency, meaningful,
                 demanded, children, handled, satisfied, inputs>>

HasWork == pending # NoPending

\* The first inner loop from the i-th on with something to do; 0 if none.
FirstFrom(i) ==
  LET busy == {j \in i..Len(Phases) : pending[Phases[j]] # {}}
  IN  IF busy = {} THEN 0 ELSE CHOOSE j \in busy : \A k \in busy : j <= k

BeginClose ==
  /\ phase = 0 /\ HasWork
  /\ phase' = FirstFrom(1)
  /\ UNCHANGED <<facts, compile, actual, retained, undelivered, pending,
                 groupQueue, seenPresence, seenActual, seenSource, opened,
                 requested, complete, materialized, dependency, meaningful,
                 demanded, children, handled, satisfied, inputs>>

\* A queue is empty: the next inner loop, the next round, or the end of close.
NextPhase ==
  /\ phase # 0 /\ pending[Phases[phase]] = {} /\ groupQueue = {}
  /\ phase' = IF FirstFrom(phase) # 0 THEN FirstFrom(phase) ELSE FirstFrom(1)
  /\ UNCHANGED <<facts, compile, actual, retained, undelivered, pending,
                 groupQueue, seenPresence, seenActual, seenSource, opened,
                 requested, complete, materialized, dependency, meaningful,
                 demanded, children, handled, satisfied, inputs>>

-----------------------------------------------------------------------------
(* The helpers of close, collected as the effects of one step.             *)

NoEffect ==
  [compile |-> {}, actual |-> {}, sources |-> {}, contributors |-> {},
   ready |-> {}, groups |-> {}, meaningful |-> {}, demanded |-> {}, children |-> {}]

\* require_actual, require_materialized_compile, retain_source,
\* request_group_sources, request_contributor, activate_producer,
\* activate_demanded_producer and activate_required_child, for all that a step
\* asks for; `rest` is the set of queues without the element being visited.
Apply(e, rest) ==
  LET presence     == (e.compile \cup e.actual) \ compile
      actuals      == e.actual \ actual
      units        == e.sources \ retained
      contributors == (e.contributors \cup
                        UNION {facts.roots[g] : g \in e.groups \ opened}) \ requested
      wanted       == e.demanded \cup (e.children \cap facts.producers)
      plain        == (e.children \ facts.producers) \ children
  IN
  /\ compile' = compile \cup presence
  /\ seenPresence' = seenPresence \cup presence
  /\ actual' = actual \cup actuals
  /\ seenActual' = seenActual \cup actuals
  /\ retained' = retained \cup units
  /\ seenSource' = seenSource \cup units
  /\ opened' = opened \cup e.groups
  /\ requested' = requested \cup contributors
  /\ meaningful' = meaningful \cup e.meaningful
  /\ demanded' = demanded \cup wanted
  /\ pending' = [rest EXCEPT
       !["presence"] = @ \cup (presence \ seenPresence),
       !["products"] = @ \cup (actuals \ seenActual),
       !["actual"] = @ \cup ((actuals \ seenActual) \cap Definition),
       !["source"] = @ \cup (units \ seenSource),
       !["requested"] = @ \cup contributors,
       !["complete"] = @ \cup e.ready,
       !["meaningful"] = @ \cup (e.meaningful \ meaningful),
       !["demanded"] = @ \cup (wanted \ demanded),
       !["required"] = @ \cup plain]

\* Mutant: every product counts as meaningful output.
MeaningfulAlways(n) == TRUE

\* product_is_meaningful
Meaningful(n) == n \in facts.producers => n \in meaningful

TriggeredGroups(n) ==
  IF Meaningful(n) THEN {g \in Group : n \in TriggersOf(facts, g)} ELSE {}

\* Mutant: an owner that arrives after its group gets no members.
MacroTriggerSourcesOnly(n) == [NoEffect EXCEPT !.groups = TriggeredGroups(n)]

\* process_macro_trigger: the groups are requested; those that exist already
\* give the members of an owner that has just arrived.
MacroTrigger(n) ==
  [NoEffect EXCEPT
     !.groups = TriggeredGroups(n),
     !.compile = UNION {UNION {o.members : o \in {p \in facts.owners[g] : p.owner = n}} :
                          g \in TriggeredGroups(n) \cap materialized}]

\* request_demand_clause_if_ready, for every clause these sets make ready.
ReadyClauses(carriers, handledNow) ==
  {d \in facts.demands \ satisfied :
     /\ d.carriers \cap carriers # {}
     /\ \/ d.required # {}
        \/ \E x \in d.dependents : x \notin facts.producers
        \/ d.dependents \cap facts.producers \cap handledNow # {}}

ClauseEffect(clauses) ==
  [NoEffect EXCEPT
     !.children = UNION {d.required : d \in clauses},
     !.demanded = {d.producer : d \in {c \in clauses : c.group = {}}},
     !.groups = UNION {d.group : d \in clauses}]

\* Members required by a definition, given the definitions processed so far.
MemberRequirements(n, processed) ==
  {r[2] : r \in {q \in facts.requirements : q[1] = n}} \cup
  {r[3] : r \in {q \in facts.conditional :
                   n \in {q[1], q[2]} /\ {q[1], q[2]} \subseteq processed \cup {n}}}

-----------------------------------------------------------------------------
(* close, one action per inner loop                                        *)

Popped(p, x) == [pending EXCEPT ![p] = @ \ {x}]
At(p, x) == phase # 0 /\ Phases[phase] = p /\ x \in pending[p]

VisitProduct(n) ==
  /\ At("products", n)
  /\ Apply([NoEffect EXCEPT !.actual = UNION {c \in facts.classes : n \in c}],
           Popped("products", n))
  /\ UNCHANGED <<facts, undelivered, phase, groupQueue, complete, materialized,
                 dependency, children, handled, satisfied, inputs>>

VisitPresence(n) ==
  /\ At("presence", n)
  /\ Apply([MacroTrigger(n) EXCEPT
              !.compile = @ \cup MemberRequirements(n, ProcessedPresence)],
           Popped("presence", n))
  /\ dependency' = dependency \cup TriggeredGroups(n)
  /\ UNCHANGED <<facts, undelivered, phase, groupQueue, complete, materialized,
                 children, handled, satisfied, inputs>>

VisitActual(d) ==
  LET clauses == ReadyClauses(ProcessedActual \cup {d}, handled)
  IN
  /\ At("actual", d)
  /\ satisfied' = satisfied \cup clauses
  /\ LET e == ClauseEffect(clauses)
         plain == e.children \ facts.producers
     IN  /\ Apply([e EXCEPT
                     !.actual = MemberRequirements(d, ProcessedActual),
                     !.demanded = @ \cup {x \in facts.producers :
                                            d \in facts.demandTriggers[x]}],
                  Popped("actual", d))
         /\ children' = children \cup plain
  /\ UNCHANGED <<facts, undelivered, phase, groupQueue, complete, materialized,
                 dependency, handled, inputs>>

VisitSource(u) ==
  /\ At("source", u)
  /\ Apply([NoEffect EXCEPT
              !.ready = {c \in Contributor \ complete :
                           u \in facts.sources[c] /\
                           ContributorReady(c, ConsumedSource \cup {u}, complete)}],
           Popped("source", u))
  /\ UNCHANGED <<facts, undelivered, phase, groupQueue, complete, materialized,
                 dependency, children, handled, satisfied, inputs>>

VisitRequested(c) ==
  /\ At("requested", c)
  /\ Apply([NoEffect EXCEPT !.sources = facts.sources[c],
                            !.contributors = facts.parents[c]],
           Popped("requested", c))
  /\ UNCHANGED <<facts, undelivered, phase, groupQueue, complete, materialized,
                 dependency, children, handled, satisfied, inputs>>

\* A contributor whose sources are retained and whose parents are complete.
VisitComplete(c) ==
  /\ At("complete", c) /\ groupQueue = {}
  /\ IF c \notin complete /\ ContributorReady(c, ConsumedSource, complete)
       THEN /\ complete' = complete \cup {c}
            /\ Apply([NoEffect EXCEPT
                        !.ready = {k \in Contributor \ complete' :
                                     c \in facts.parents[k] /\
                                     ContributorReady(k, ConsumedSource, complete')}],
                     Popped("complete", c))
            /\ groupQueue' = {g \in Group \ materialized :
                                c \in facts.roots[g] /\ facts.roots[g] \subseteq complete'}
       ELSE /\ Apply(NoEffect, Popped("complete", c))
            /\ UNCHANGED <<complete, groupQueue>>
  /\ UNCHANGED <<facts, undelivered, phase, materialized, dependency, children,
                 handled, satisfied, inputs>>

\* The last root of a group: activate_group_meaning, materialize_group_outputs.
Materialize(g) ==
  /\ g \in groupQueue
  /\ groupQueue' = groupQueue \ {g}
  /\ materialized' = materialized \cup {g}
  /\ Apply([NoEffect EXCEPT
              !.meaningful = IF IntrinsicGroup(facts, g) \/ g \in dependency
                               THEN {facts.producer[g]} ELSE {},
              !.compile = facts.products[g] \cup
                 UNION {o.members : o \in {p \in facts.owners[g] : p.owner \in compile}}],
           pending)
  /\ UNCHANGED <<facts, undelivered, phase, complete, dependency, children,
                 handled, satisfied, inputs>>

\* Groups that get their first meaningful dependency from x and already exist.
InheritsMeaning(x) ==
  {g \in materialized \ dependency : x \in DependsOn(facts, g)}

VisitMeaningful(x) ==
  LET dependents == {g \in Group : x \in DependsOn(facts, g)}
      trigger    == IF x \in ProcessedPresence THEN MacroTrigger(x) ELSE NoEffect
  IN
  /\ At("meaningful", x)
  /\ Apply([trigger EXCEPT
              !.meaningful = facts.dependentProducers[x] \cup
                             {facts.producer[g] : g \in InheritsMeaning(x)}],
           Popped("meaningful", x))
  /\ dependency' = dependency \cup dependents \cup trigger.groups
  /\ UNCHANGED <<facts, undelivered, phase, groupQueue, complete, materialized,
                 children, handled, satisfied, inputs>>

\* process_demanded_child(x) after require_actual(x).
DemandChild(x, p) ==
  LET clauses == ReadyClauses(ProcessedActual, handled \cup {x})
                   \cap {d \in facts.demands : x \in d.dependents}
      e == ClauseEffect(clauses)
  IN
  /\ handled' = handled \cup {x}
  /\ satisfied' = satisfied \cup clauses
  /\ children' = children \cup {x} \cup (e.children \ facts.producers)
  /\ Apply([e EXCEPT !.actual = {x}], Popped(p, x))

VisitDemanded(x) ==
  /\ At("demanded", x)
  /\ IF x \in children
       THEN /\ Apply(NoEffect, Popped("demanded", x))
            /\ UNCHANGED <<handled, satisfied, children>>
       ELSE DemandChild(x, "demanded")
  /\ UNCHANGED <<facts, undelivered, phase, groupQueue, complete, materialized,
                 dependency, inputs>>

VisitRequired(x) ==
  /\ At("required", x)
  /\ DemandChild(x, "required")
  /\ UNCHANGED <<facts, undelivered, phase, groupQueue, complete, materialized,
                 dependency, inputs>>

Close ==
  \/ \E n \in Node : VisitProduct(n) \/ VisitPresence(n)
  \/ \E d \in Definition : VisitActual(d)
  \/ \E u \in Unit : VisitSource(u)
  \/ \E c \in Contributor : VisitRequested(c) \/ VisitComplete(c)
  \/ \E g \in Group : Materialize(g)
  \/ \E x \in Expansion : VisitMeaningful(x) \/ VisitDemanded(x) \/ VisitRequired(x)
  \/ NextPhase

Next ==
  \/ \E i \in Inputs : CallerAdds(i[1], i[2])
  \/ Deliver
  \/ BeginClose
  \/ Close

Spec == Init /\ [][Next]_vars

\* close is a loop the caller waits for; the caller promises nothing.
FairSpec == Spec /\ WF_vars(Close)

-----------------------------------------------------------------------------
\* The state's types, and the order between what is queued, seen and done.
TypeOK ==
  /\ facts \in FactSets
  /\ compile \in SUBSET Node /\ actual \in SUBSET Node /\ retained \in SUBSET Unit
  /\ undelivered \in SUBSET Inputs /\ inputs \in SUBSET Inputs
  /\ phase \in 0..Len(Phases)
  /\ seenPresence \in SUBSET compile /\ seenActual \in SUBSET actual
  /\ seenSource \in SUBSET retained
  /\ pending \in [DOMAIN NoPending -> SUBSET (Node \cup Unit \cup Contributor)]
  /\ pending["presence"] \in SUBSET seenPresence
  /\ pending["products"] \in SUBSET seenActual
  /\ pending["actual"] \in SUBSET (seenActual \cap Definition)
  /\ pending["source"] \in SUBSET seenSource
  /\ pending["requested"] \in SUBSET requested /\ requested \in SUBSET Contributor
  /\ pending["complete"] \in SUBSET Contributor /\ complete \in SUBSET Contributor
  /\ pending["meaningful"] \in SUBSET meaningful /\ meaningful \in SUBSET facts.producers
  /\ pending["demanded"] \in SUBSET demanded /\ demanded \in SUBSET facts.producers
  /\ pending["required"] \in SUBSET children /\ children \in SUBSET Expansion
  /\ groupQueue \in SUBSET (Group \ materialized) /\ materialized \in SUBSET Group
  /\ opened \in SUBSET Group /\ dependency \in SUBSET Group
  /\ handled \in SUBSET children /\ satisfied \in SUBSET facts.demands

AtRest == phase = 0 /\ ~HasWork /\ undelivered = {}

\* outputless_macro_expansions_after_rewrite: the groups whose contributors
\* are all written in the retained source ...
ActiveGroups(units) == {g \in Group : GroupSources(facts, g) \subseteq units}

\* ... and meaningful_producers: the least set of producers that are intrinsic,
\* or have an active group that is intrinsic or depends on meaningful output.
MeaningfulProducers(active) ==
  LET Consistent(P) ==
        /\ facts.intrinsic \subseteq P
        /\ \A x \in P : facts.dependentProducers[x] \subseteq P
        /\ \A g \in active :
             \/ facts.producer[g] \in P
             \/ /\ ~IntrinsicGroup(facts, g)
                /\ \A n \in DependsOn(facts, g) :
                     /\ n \in Expansion => n \notin P
                     /\ n \in Definition => \A h \in active : n \notin facts.products[h]
  IN  {x \in facts.producers : \A P \in SUBSET facts.producers : Consistent(P) => x \in P}

\* Between calls the closure and the computation that runs after the rewrite
\* agree on which groups the retained source materializes.
\* They also agree on which expansions have meaningful output, so the snapshot
\* of the reduced program excludes exactly the expansions retention ignored.
IndexesAgree ==
  AtRest => /\ materialized = ActiveGroups(retained)
            /\ meaningful = MeaningfulProducers(ActiveGroups(retained))

\* Expansions demanded, directly or through the clauses of demanded children.
DemandedExpansions(A) ==
  LET Satisfied(d, H) == /\ d.carriers \cap A # {}
                         /\ \/ d.required # {}
                            \/ \E x \in d.dependents : x \notin facts.producers \/ x \in H
      Consistent(H) ==
        /\ \A x \in facts.producers : facts.demandTriggers[x] \cap A # {} => x \in H
        /\ \A d \in facts.demands :
             Satisfied(d, H) =>
               d.required \subseteq H /\ (d.group = {} => d.producer \in H)
  IN  {x \in Expansion : \A H \in SUBSET Expansion : Consistent(H) => x \in H}

\* The three sets satisfy every constraint of the closure.
ClosedFacts(C, A, U) ==
  LET active == ActiveGroups(U)
      M == MeaningfulProducers(active)
      H == DemandedExpansions(A)
  IN
  /\ \A r \in facts.requirements :
       (r[1] \in C => r[2] \in C) /\ (r[1] \in A => r[2] \in A \cap C)
  /\ \A r \in facts.conditional :
       /\ {r[1], r[2]} \subseteq C => r[3] \in C
       /\ {r[1], r[2]} \subseteq A => r[3] \in A \cap C
  /\ \A c \in facts.classes : c \cap A # {} => c \subseteq A \cap C
  /\ \A g \in Group :
       (\E n \in TriggersOf(facts, g) \cap C : n \in facts.producers => n \in M)
         => GroupSources(facts, g) \subseteq U
  /\ \A g \in active :
       /\ facts.products[g] \subseteq C
       /\ \A o \in facts.owners[g] : o.owner \in C => o.members \subseteq C
  /\ H \subseteq A \cap C
  /\ \A d \in facts.demands :
       /\ d.carriers \cap A # {}
       /\ \/ d.required # {}
          \/ \E x \in d.dependents : x \notin facts.producers \/ x \in H
       => \A g \in d.group : GroupSources(facts, g) \subseteq U

\* When close has returned, required output has its source and retained source
\* has its output, whichever of them the caller handed over first; and nothing
\* that close added can be left out again.
DemandsExact ==
  LET Added(S, lane) == {x \in S : <<lane, x>> \notin inputs}
  IN  AtRest =>
        /\ ClosedFacts(compile, actual, retained)
        /\ \A C \in SUBSET Added(compile, "compile"), A \in SUBSET Added(actual, "actual"),
              U \in SUBSET Added(retained, "source") :
             ClosedFacts(compile \ C, actual \ A, retained \ U)
               => C = {} /\ A = {} /\ U = {}
=============================================================================
