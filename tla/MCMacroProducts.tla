-------------------------- MODULE MCMacroProducts --------------------------
(* An expansion x1 that produces a child x2, an owner shell around it and a *)
(* definition; x2 produces an owner effect with a member.                   *)
EXTENDS MacroProducts

MCDefinition == {"d1", "d2", "d3"}
MCExpansion == {"x1", "x2"}
MCUnit == {"u1", "u2", "u3"}
MCGroup == {"g1", "g2", "g3"}
MCContributor == {"c1", "c2", "c3"}

Shell(n) == [owner |-> "d1", members |-> {}, effect |-> "Shell", dependents |-> {n}]
Effect(m) == [owner |-> "d1", members |-> m, effect |-> "Semantic", dependents |-> {}]
NoSets == [x1 |-> {}, x2 |-> {}]

GroupDemand(role) ==
  [producer |-> "x1", group |-> {"g1"}, carriers |-> {"d1"},
   dependents |-> IF role = "dependent" THEN {"x2"} ELSE {},
   required |-> IF role = "required" THEN {"x2"} ELSE {}]

Facts(role, shellOf, third, parents, triggers, requirements) ==
  [producers |-> MCExpansion, intrinsic |-> {},
   dependentProducers |-> NoSets, demandTriggers |-> triggers,
   producer |-> [g1 |-> "x1", g2 |-> "x1", g3 |-> "x2"],
   products |-> [g1 |-> {"x2", "d2"} \cap {"x2", shellOf}, g2 |-> {}, g3 |-> {}],
   owners |-> [g1 |-> {}, g2 |-> {Shell(shellOf)}, g3 |-> {Effect(third)}],
   roots |-> [g1 |-> {"c1"}, g2 |-> {"c2"}, g3 |-> {"c3"}],
   sources |-> [c1 |-> {"u1"}, c2 |-> {"u2"}, c3 |-> {"u3"}],
   parents |-> parents, demands |-> {GroupDemand(role)},
   classes |-> {{"d2", "d3"}}, requirements |-> requirements,
   conditional |-> {<<"d1", "d2", "d3">>}]

Independent == [c1 |-> {}, c2 |-> {}, c3 |-> {}]
Chained == [c1 |-> {}, c2 |-> {"c1"}, c3 |-> {"c2"}]
Triggers == [x1 |-> {"d2"}, x2 |-> {"d3"}]

MCFactSets ==
  {Facts(role, shellOf, {"d3"}, Independent, triggers, {<<"d3", "d2">>}) :
     role \in {"dependent", "required"}, shellOf \in {"x2", "d2"},
     triggers \in {NoSets, Triggers}}
  \cup
  {Facts("dependent", shellOf, {}, Chained, Triggers, {}) : shellOf \in {"x2", "d2"}}
  \cup
  \* x2 is not refined: its own output record makes it intrinsic.
  {[Facts("dependent", "x2", {}, Independent,
          [x1 |-> {}, x2 |-> {"d3"}], {})
      EXCEPT !.intrinsic = {"x2"}, !.producer = [g1 |-> "x1", g2 |-> "x1", g3 |-> "x1"]]}
  \cup
  \* x2 produces nothing the facts describe, and is required all the same.
  {[Facts("required", "x2", {}, Independent, NoSets, {})
      EXCEPT !.producers = {"x1"}, !.producer = [g1 |-> "x1", g2 |-> "x1", g3 |-> "x1"]]}

MCInputs ==
  {<<"compile", "d1">>, <<"compile", "x2">>, <<"actual", "d1">>, <<"actual", "d3">>,
   <<"source", "u2">>, <<"source", "u3">>}
=============================================================================
