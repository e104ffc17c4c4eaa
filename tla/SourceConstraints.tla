--------------------------- MODULE SourceConstraints ---------------------------
(***************************************************************************)
(* The constraints that the written source alone puts on a retention       *)
(* (src/src/retention.rs 88-345): parents, atomic groups, derives, capture *)
(* slots, the rules of a macro and the elements of a repetition.  A        *)
(* requirement is a pair of units, a conditional one [when, required], a   *)
(* disjunction [trigger, choices].  At the end: which units own a place    *)
(* that the compiler observed (src/src/retention/source_sites.rs).         *)
(***************************************************************************)
EXTENDS SourceInventory

\* The rules of the macro definition that has a rule.
RulesWith(inventory, rule) ==
    CHOOSE rules \in {m.rules : m \in inventory.macroRules} :
        \E k \in DOMAIN rules : rules[k] = rule

\* Mutant: an earlier rule is not expected to take a shortened call.
SlotRequirementsOnly(inventory) ==
    UNION {LET rules == RulesWith(inventory, s.rule)
           IN {[when |-> {s.rule, rules[k]}, required |-> s.unit] :
                  k \in {j \in DOMAIN rules : rules[j] # s.rule}} :
              s \in inventory.captureSlots}

\* A rule that survives before the one an invocation selected could match once
\* input is deleted; a matcher that changes could take calls of another rule.
MatcherRequirements(inventory) ==
    LET RuleIndex(rules, rule) == CHOOSE k \in DOMAIN rules : rules[k] = rule
        ByRepetition(r) ==
            LET rules == RulesWith(inventory, r.rule)
                earlier == {rules[k] : k \in 1 .. RuleIndex(rules, r.rule) - 1}
            IN {[when |-> {rule, r.invocation}, required |-> r.elements[k].unit] :
                    rule \in earlier, k \in DOMAIN r.elements}
        BySlot(s) ==
            LET rules == RulesWith(inventory, s.rule)
            IN {[when |-> {s.rule, rules[k]}, required |-> s.unit] :
                    k \in {j \in DOMAIN rules : rules[j] # s.rule}}
    IN UNION ({ByRepetition(inventory.repetitions[k]) : k \in DOMAIN inventory.repetitions}
              \cup {BySlot(s) : s \in inventory.captureSlots})

AncestorRequirements(inventory) ==
    {<<u, Parent(inventory, u)>> : u \in {v \in Units(inventory) : Parent(inventory, v) # 0}}

\* What influences a derive stays with it; a helper attribute and the derive
\* that understands it stay together.
DeriveRequirements(inventory) ==
    UNION {t.influences \cup UNION {{h, <<h[2], h[1]>>} : h \in t.helpers} :
                t \in {x \in inventory.deriveTargets : x.complete}}

CaptureRequirements(inventory) ==
    UNION {{<<trigger, s.unit>> : trigger \in s.triggers} : s \in inventory.captureSlots}

RuleDisjunctions(inventory) ==
    {[trigger |-> m.definition, choices |-> ToSet(m.rules)] :
        m \in {x \in inventory.macroRules : x.rules # <<>>}}

RepetitionDisjunctions(inventory) ==
    {[trigger |-> r.parent, choices |-> {r.elements[k].unit : k \in DOMAIN r.elements}] :
        r \in {x \in ToSet(inventory.repetitions) : x.minimum = 1}}

Disjunctions(inventory) ==
    RuleDisjunctions(inventory) \cup RepetitionDisjunctions(inventory)

Requirements(inventory) ==
    AncestorRequirements(inventory) \cup DeriveRequirements(inventory)
    \cup CaptureRequirements(inventory)

\* What the deterministic constraints add to some units, until nothing is new.
RECURSIVE ClosedUnits(_, _)
ClosedUnits(inventory, units) ==
    LET groups == {GroupOf(inventory, u) : u \in units}
        more == units
                \cup {u \in Units(inventory) : GroupOf(inventory, u) \in groups}
                \cup {r[2] : r \in {q \in inventory.requirements : q[1] \in units}}
                \cup {r.required : r \in {q \in inventory.conditional :
                                             q.when \subseteq units}}
    IN IF more = units THEN units ELSE ClosedUnits(inventory, more)

Unsatisfied(inventory, retained) ==
    {d \in inventory.disjunctions :
        d.trigger \in retained /\ d.choices \cap retained = {}}

-----------------------------------------------------------------------------
(* The owners of a site.                                                   *)

OwnerRank(inventory, u) ==
    <<Full(inventory, u).end - Full(inventory, u).start, UnitDepth(inventory)[u]>>

\* The smallest active units around a site, the deepest of those of one size.
SourceSiteOwners(inventory, site) ==
    LET around == {u \in Units(inventory) : /\ inventory.units[u].active
                                            /\ RangeContains(Full(inventory, u), site)}
        rank == [u \in around |-> OwnerRank(inventory, u)]
        Better(u, v) == \/ rank[u][1] < rank[v][1]
                        \/ rank[u][1] = rank[v][1] /\ rank[u][2] > rank[v][2]
    IN {u \in around : \A v \in around : ~Better(v, u)}
=============================================================================
