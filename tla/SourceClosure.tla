--------------------------- MODULE SourceClosure ---------------------------
(***************************************************************************)
(* retention/source_closure.rs: the delta-driven closure of a set of       *)
(* retained source units under atomic groups, directed requirements and    *)
(* joint requirements.                                                     *)
(*                                                                         *)
(* The caller (retention.rs) retains units, hands the new ones to `add`    *)
(* and runs `close`, again and again; the closure keeps what it has seen   *)
(* between the calls.  The code drains a FIFO queue; here the next pending *)
(* unit, and the next joint requirement of that unit, are any of those     *)
(* waiting, so what is shown holds whatever the order.                     *)
(***************************************************************************)
EXTENDS UnitConstraints, FiniteSets

CONSTANTS
  Constraints,  \* the constraint sets the caller may build an index from
  NoUnit        \* no unit is being visited

ASSUME ConstraintAssumption ==
  /\ Constraints \subseteq ConstraintSet
  /\ NoUnit \notin Unit

VARIABLES
  constraints,  \* what the index was built from; never changes
  status,       \* "idle", "closing", or "error" once a call returned Err
  retained,     \* the caller's retained_units
  undelivered,  \* retained, not yet handed to `add` (the caller's cursor)
  accepted,     \* units `add` has accepted
  pending,      \* the queue
  opened,       \* opened_groups
  current,      \* the unit `close` is visiting
  todo,         \* joint requirements of that unit not looked at yet
  done,         \* history: units whose visit is over
  inputs        \* history: units the caller retained itself

source_vars == <<constraints, status, retained, undelivered, accepted, pending,
                 opened, current, todo, done, inputs>>

-----------------------------------------------------------------------------
\* atomic_group_by_unit
GroupOf(c, u) == CHOOSE g \in c.groups : u \in g

\* Mutant: the index files a requirement under the unit it requires.
ByTriggerReversed(c, u) == {r \in Unit : <<r, u>> \in c.requirements}

\* by_trigger
ByTrigger(c, u) == {r \in Unit : <<u, r>> \in c.requirements}

\* Mutant: a joint requirement is filed under its left trigger only.
ByJointLeftOnly(c, u) == {p \in Unit \X Unit : <<u, p[1], p[2]>> \in c.joint}

\* by_joint_trigger: a joint requirement is filed under both of its triggers.
ByJoint(c, u) ==
  {p \in Unit \X Unit : \/ <<u, p[1], p[2]>> \in c.joint
                        \/ <<p[1], u, p[2]>> \in c.joint}

-----------------------------------------------------------------------------
SourceInit ==
  /\ constraints \in Constraints
  /\ status = IF ValidGroups(constraints.groups) THEN "idle" ELSE "error"
  /\ retained = {} /\ undelivered = {} /\ accepted = {} /\ pending = {}
  /\ opened = {} /\ current = NoUnit /\ todo = {}
  /\ done = {} /\ inputs = {}

\* The caller retains units between two calls.
Retain(units) ==
  /\ status = "idle"
  /\ units # {}
  /\ retained' = retained \cup units
  /\ undelivered' = undelivered \cup (units \ retained)
  /\ inputs' = inputs \cup units
  /\ UNCHANGED <<constraints, status, accepted, pending, opened, current, todo, done>>

\* add(deltas), then the call of close().
AddAndClose ==
  /\ status = "idle"
  /\ undelivered # {}
  /\ accepted' = accepted \cup undelivered
  /\ pending' = pending \cup (undelivered \ accepted)
  /\ undelivered' = {}
  /\ status' = "closing"
  /\ UNCHANGED <<constraints, retained, opened, current, todo, done, inputs>>

\* Mutant: the unit is queued without being retained.
AddWithoutRetaining(units, queue) ==
  /\ retained' = retained
  /\ accepted' = accepted \cup (units \ retained)
  /\ pending' = queue \cup ((units \ retained) \ accepted)

\* retain_source_unit for every unit of `units`, each new one passed to add.
RetainAndAdd(units, queue) ==
  /\ retained' = retained \cup units
  /\ accepted' = accepted \cup (units \ retained)
  /\ pending' = queue \cup ((units \ retained) \ accepted)

\* close pops a unit, opens its atomic group and applies its requirements.  A
\* popped unit that is not retained ends the call with InvalidConstraint.
Visit(u) ==
  /\ status = "closing" /\ current = NoUnit /\ u \in pending
  /\ IF u \in retained
       THEN LET group   == GroupOf(constraints, u)
                members == IF group \in opened THEN {} ELSE group
            IN  /\ RetainAndAdd(members \cup ByTrigger(constraints, u), pending \ {u})
                /\ opened' = opened \cup {group}
                /\ current' = u
                /\ todo' = ByJoint(constraints, u)
                /\ UNCHANGED status
       ELSE /\ pending' = pending \ {u}
            /\ status' = "error"
            /\ UNCHANGED <<retained, accepted, opened, current, todo>>
  /\ UNCHANGED <<constraints, undelivered, done, inputs>>

\* One joint requirement (other, required) of the unit being visited.
VisitJoint(pair) ==
  /\ status = "closing" /\ current # NoUnit /\ pair \in todo
  /\ todo' = todo \ {pair}
  /\ IF pair[1] \in retained
       THEN RetainAndAdd({pair[2]}, pending)
       ELSE UNCHANGED <<retained, accepted, pending>>
  /\ UNCHANGED <<constraints, status, undelivered, opened, current, done, inputs>>

FinishVisit ==
  /\ status = "closing" /\ current # NoUnit /\ todo = {}
  /\ done' = done \cup {current}
  /\ current' = NoUnit
  /\ UNCHANGED <<constraints, status, retained, undelivered, accepted, pending,
                 opened, todo, inputs>>

\* The queue is empty: close returns Ok.
Return ==
  /\ status = "closing" /\ current = NoUnit /\ pending = {}
  /\ status' = "idle"
  /\ UNCHANGED <<constraints, retained, undelivered, accepted, pending, opened,
                 current, todo, done, inputs>>

Close ==
  \/ \E u \in Unit : Visit(u)
  \/ \E p \in Unit \X Unit : VisitJoint(p)
  \/ FinishVisit
  \/ Return

SourceNext ==
  \/ \E units \in SUBSET Unit : Retain(units)
  \/ AddAndClose
  \/ Close

SourceSpec == SourceInit /\ [][SourceNext]_source_vars

-----------------------------------------------------------------------------
\* The state's types; only units that `add` accepted are queued.
SourceTypeOK ==
  /\ constraints \in Constraints
  /\ status \in {"idle", "closing", "error"}
  /\ retained \in SUBSET Unit
  /\ undelivered \in SUBSET Unit
  /\ accepted \in SUBSET Unit
  /\ pending \in SUBSET accepted
  /\ opened \in SUBSET (SUBSET Unit)
  /\ current \in Unit \cup {NoUnit}
  /\ todo \in SUBSET (Unit \X Unit)
  /\ done \in SUBSET Unit
  /\ inputs \in SUBSET Unit

\* When close has returned and nothing new was retained since, the retained
\* set violates no constraint: no delta of any of the calls was lost.
ClosedWhenIdle ==
  status = "idle" /\ undelivered = {} => Closed(constraints, retained)

\* close keeps no unit that the constraints do not force: at every moment the
\* retained units are inside every closed set that holds the caller's units.
LeastRetention ==
  status # "error" =>
    \A S \in SUBSET Unit :
      inputs \subseteq S /\ Closed(constraints, S) => retained \subseteq S

\* The queue never holds a unit that is not retained, so the InvalidConstraint
\* exit of close is never taken once the groups were accepted.
NeverUnretained ==
  status = "error" => ~ValidGroups(constraints.groups)

\* Who only looks at the retained set and at what was asked for sees the closure
\* as LeastClosure: it grows by forced units only, settles only when closed, and
\* never fails on constraints that new accepted.
Promise == INSTANCE LeastClosure WITH
  asked <- inputs,
  kept  <- retained,
  mode  <- IF status = "error" THEN "refused"
           ELSE IF status = "idle" /\ undelivered = {} THEN "settled" ELSE "growing"

ImplementsLeastClosure == Promise!Spec

\* A unit is visited once: no visited unit comes back into the queue.
VisitedOnce == done \cap (pending \cup {current}) = {}
=============================================================================
