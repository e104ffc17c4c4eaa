------------------------ MODULE MCRetentionFixpoint ------------------------
(* Three nodes and three units; every system built from a pool of rules     *)
(* that covers each closure, a pool of clause lists and of token rules.     *)
EXTENDS RetentionFixpoint, FiniteSetsExt

MCNode == {"n1", "n2", "n3"}
MCUnit == {"u1", "u2", "u3"}

Comp(n) == <<"compile", n>>
Act(n) == <<"actual", n>>
Src(u) == <<"source", u>>
Ru(c, needs, gives) == [by |-> c, needs |-> needs, gives |-> gives]

RulePool ==
  {Ru("macro", {Comp("n2"), Src("u2")}, Act("n3")), Ru("macro", {Act("n2")}, Src("u3")),
   Ru("side", {Comp("n1")}, Src("u1")), Ru("side", {Comp("n3")}, Src("u2")),
   Ru("source", {Src("u1"), Src("u3")}, Src("u2")), Ru("source", {Src("u2")}, Src("u3")),
   Ru("definitions", {Src("u3")}, Comp("n2")),
   Ru("compile", {Comp("n1"), Src("u2")}, Comp("n3")), Ru("compile", {Comp("n2")}, Comp("n3")),
   Ru("actual", {Act("n1"), Src("u3")}, Act("n2")), Ru("actual", {Act("n3")}, Act("n2"))}

Cl(kind, trigger, choices, best) ==
  [kind |-> kind, trigger |-> trigger, choices |-> choices, selected |-> best]

ClauseLists ==
  {<<>>,
   <<Cl("source", {Src("u1")}, {Src("u2"), Src("u3")}, Src("u3")),
     Cl("source", {Src("u3")}, {Src("u2")}, Src("u2"))>>,
   <<Cl("source", {Src("u2")}, {Src("u1"), Src("u3")}, Src("u1")),
     Cl("carrier", {}, {Comp("n3"), Src("u2")}, Src("u2")),
     Cl("member", {Act("n1")}, {Act("n2"), Act("n3")}, Act("n2")),
     Cl("member", {Act("n1")}, {Act("n2")}, Act("n2"))>>,
   <<Cl("carrier", {Comp("n1")}, {Comp("n2"), Src("u3")}, Comp("n2")),
     Cl("member", {Comp("n2")}, {Comp("n1"), Comp("n3")}, Comp("n3")),
     Cl("member", {Comp("n1")}, {Comp("n2"), Comp("n3")}, Comp("n2"))>>}

MCSystems ==
  [roots : {{"n1"}}, rules : UNION {kSubset(k, RulePool) : k \in 0..4},
   clauses : ClauseLists, tokens : {{}, {<<"u2", "u1">>, <<"u1", "u3">>}}]
=============================================================================
