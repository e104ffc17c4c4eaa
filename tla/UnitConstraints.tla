--------------------------- MODULE UnitConstraints ---------------------------
(***************************************************************************)
(* What src/src/retention.rs requires of a set of retained source units.   *)
(* groups: the atomic groups; requirements: pairs <<trigger, required>>    *)
(* (ancestor, shell, derive and macro-rule requirements chained); joint:   *)
(* triples <<left, right, required>>.                                      *)
(***************************************************************************)
CONSTANT Unit  \* source units

ConstraintSet ==
  [groups : SUBSET (SUBSET Unit),
   requirements : SUBSET (Unit \X Unit),
   joint : SUBSET (Unit \X Unit \X Unit)]

\* SourceRequirementIndex::new accepts the groups only if they partition Unit.
ValidGroups(groups) ==
  /\ {} \notin groups
  /\ \A g, h \in groups : g # h => g \cap h = {}
  /\ UNION groups = Unit

\* S satisfies every constraint: groups are whole or absent, and every
\* requirement whose triggers are in S has its required unit in S.
Closed(c, S) ==
  /\ \A g \in c.groups : g \cap S # {} => g \subseteq S
  /\ \A r \in c.requirements : r[1] \in S => r[2] \in S
  /\ \A j \in c.joint : j[1] \in S /\ j[2] \in S => j[3] \in S

\* What constraints force on anyone who keeps S.
Forced(c, S) ==
  {u \in Unit : \A T \in SUBSET Unit : S \subseteq T /\ Closed(c, T) => u \in T}
=============================================================================
