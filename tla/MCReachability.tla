--------------------------- MODULE MCReachability ---------------------------
(* A chain d1 -> d2 -> x1 -> d3 with every choice of gates: sites shared by *)
(* edges, sites with one or two owners, parent cycles, delegated targets.   *)
EXTENDS Reachability

MCUnit == {"u1", "u2"}
MCDefinition == {"d1", "d2", "d3"}
MCExpansion == {"x1", "x2"}
MCNodeDeltas == {{"d1"}, {"d2"}}
MCUnitDeltas == {{"u1"}, {"u2"}, {"u1", "u2"}}
MCSite == {"s1", "s2"}

Chain(sites1, sites2, sites3, kind) ==
  {[kind |-> "Other", from |-> "d1", to |-> "d2", sites |-> sites1],
   [kind |-> kind, from |-> "d2", to |-> "x1", sites |-> sites2],
   [kind |-> "Other", from |-> "x1", to |-> "d3", sites |-> sites3]}

MCGraphs ==
  [edges : {Chain(a, b, c, k) :
              a \in {{"s1"}, {"s1", "s2"}}, b \in {{"s2"}, {"s2", "ext"}},
              c \in {{"s1"}}, k \in {"ExpansionUse", "Other"}},
   parents : {[x1 |-> p, x2 |-> q] : p \in {{}, {"x2"}}, q \in {{}, {"x1"}}},
   written : {[x1 |-> p, x2 |-> q] : p \in {"u1", "none"}, q \in {"u2", "none"}},
   owners : {[s1 |-> p, s2 |-> q] : p \in {{"u1"}, MCUnit}, q \in {{"u2"}}},
   delegated : {{}, {"x1"}}]
=============================================================================
