-------------------------- MODULE MCSourceClosure --------------------------
(* Three units; every partition, every set of at most two requirements and *)
(* every set of at most two joint requirements, and one malformed grouping.*)
EXTENDS SourceClosure, FiniteSetsExt, Integers

MCUnit == 1..3
MCNoUnit == 0

Partitions == {P \in SUBSET (SUBSET MCUnit) : ValidGroups(P)}
AtMost(k, S) == UNION {kSubset(n, S) : n \in 0..k}
Pairs == {p \in MCUnit \X MCUnit : p[1] # p[2]}
Triples == {t \in MCUnit \X MCUnit \X MCUnit : t[1] < t[2] /\ t[3] \notin {t[1], t[2]}}

MCConstraints ==
  [groups : Partitions, requirements : AtMost(2, Pairs), joint : AtMost(2, Triples)]
    \cup [groups : {{{1, 2}}}, requirements : {{}}, joint : {{}}]
=============================================================================
