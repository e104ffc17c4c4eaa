---------------------------- MODULE LeastClosure ----------------------------
(***************************************************************************)
(* What compute_retention relies on when it hands units to the source      *)
(* closure and takes the retained set back: nothing is said of queues,     *)
(* deltas, indexes or the order of visits.  The set only grows, by units   *)
(* that the constraints force on what was asked for; it is settled only    *)
(* when it satisfies them all; and nothing but malformed constraints is    *)
(* ever refused.                                                           *)
(***************************************************************************)
EXTENDS UnitConstraints

CONSTANT Constraints

VARIABLES
  constraints,  \* the constraints in force
  asked,        \* the units asked for so far
  kept,         \* the retained units
  mode          \* "settled", "growing" or "refused"

closure_vars == <<constraints, asked, kept, mode>>

Init ==
  /\ constraints \in Constraints
  /\ asked = {} /\ kept = {}
  /\ mode = IF ValidGroups(constraints.groups) THEN "settled" ELSE "refused"

\* Somebody asks for more units, which are kept from now on.
Ask(units) ==
  /\ mode # "refused"
  /\ asked' = asked \cup units
  /\ kept' = kept \cup units
  /\ mode' = IF units \subseteq kept THEN mode ELSE "growing"
  /\ UNCHANGED constraints

\* Forced units are added, some or all of them.
Grow(units) ==
  /\ mode = "growing"
  /\ units \subseteq Forced(constraints, asked)
  /\ kept' = kept \cup units
  /\ UNCHANGED <<constraints, asked, mode>>

\* None is missing.
Settle ==
  /\ mode = "growing"
  /\ Closed(constraints, kept)
  /\ mode' = "settled"
  /\ UNCHANGED <<constraints, asked, kept>>

Next ==
  \/ \E units \in SUBSET Unit : Ask(units) \/ Grow(units)
  \/ Settle

Spec == Init /\ [][Next]_closure_vars

-----------------------------------------------------------------------------
(***************************************************************************)
(* What the caller of a least closure may conclude from its promise alone. *)
(***************************************************************************)

\* Once the closure has settled, the retained set is the least that holds what
\* was asked for: it does not depend on the order in which the caller asked.
SettledIsLeast == mode = "settled" => kept = Forced(constraints, asked)
=============================================================================
