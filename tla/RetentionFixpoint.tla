------------------------- MODULE RetentionFixpoint -------------------------
(***************************************************************************)
(* retention.rs compute_retention and close_deterministic_constraints,     *)
(* with the selection of retention/disjunctions.rs: how the closures of    *)
(* the retention computation feed each other.                              *)
(*                                                                         *)
(* A fact is a node of the compile lane, a node of the actual lane, or a   *)
(* retained source unit.  New facts are appended to logs; each closure     *)
(* reads the logs through a cursor of its own, remembers what it read, and *)
(* adds what its rules derive.  When nothing moves any more the logs are   *)
(* cleared, disjunctions that no choice satisfies select their best ranked *)
(* one, and the round starts again.  A closure is abstracted to what the   *)
(* component modules show of it: close adds exactly what its rules derive  *)
(* from the facts it has seen.                                             *)
(***************************************************************************)
EXTENDS UnitConstraints, Naturals, Sequences, FiniteSets

CONSTANTS
  Node,
  Systems     \* the rule systems to consider

Fact == ({"compile", "actual"} \X Node) \cup ({"source"} \X Unit)

\* The deterministic closures with the lanes they read and write.
Consumer == {"macro", "side", "source", "definitions", "compile", "actual"}

Reads ==
  [macro |-> {"compile", "actual", "source"}, side |-> {"compile"},
   source |-> {"source"}, definitions |-> {"source"},
   compile |-> {"compile", "source"}, actual |-> {"actual", "source"}]

Writes ==
  [macro |-> {"compile", "actual", "source"}, side |-> {"source"},
   source |-> {"source"}, definitions |-> {"compile"},
   compile |-> {"compile"}, actual |-> {"actual"}]

(***************************************************************************)
(* rules: what a closure derives; clauses: the disjunctions, ordered as    *)
(* select visits them (source, external carrier, compile member, actual    *)
(* member); trigger: no or one fact; tokens: units that macro repetitions  *)
(* force.                                                                  *)
(***************************************************************************)
Rule == [by : Consumer, needs : SUBSET Fact, gives : Fact]

Clause ==
  [kind : {"source", "carrier", "member"}, trigger : {{}} \cup {{f} : f \in Fact},
   choices : SUBSET Fact, selected : Fact]

ASSUME SystemAssumption ==
  \A s \in Systems :
    /\ s.roots \in SUBSET Node
    /\ s.rules \subseteq Rule
    /\ \A r \in s.rules : /\ \A f \in r.needs : f[1] \in Reads[r.by]
                          /\ r.needs # {} /\ r.gives[1] \in Writes[r.by]
    /\ s.clauses \in Seq(Clause)
    /\ \A i \in 1..Len(s.clauses) :
         LET c == s.clauses[i]
         IN  /\ c.selected \in c.choices
             /\ c.kind = "source" => \A f \in c.trigger \cup c.choices : f[1] = "source"
             /\ c.kind # "carrier" => c.trigger # {}
             /\ c.kind = "member" =>
                  \E lane \in {"compile", "actual"} :
                    \A f \in c.trigger \cup c.choices : f[1] = lane
    /\ s.tokens \in SUBSET (Unit \X Unit)

VARIABLES
  system,       \* fixed at the start
  pc,           \* the step that is next
  have,         \* compile_required, actual_required and retained_units
  log,          \* pending_compile, pending_actual and pending_source
  read,         \* per reader, the part of the log before its cursor
  seen,         \* per closure, the facts it remembers
  mark,         \* the log when the reachability closures started
  tokenStart,   \* token_notification_start: the sources already in the log
  tokenDeltas,  \* token_retained_deltas
  tokenSeen,    \* units the macro repetition requirements know of
  clauseSeen,   \* what the disjunction closure has seen
  active, finished, queue,    \* per clause: active, complete, pending
  cursor, selected,           \* of the running select
  late,         \* member choices the disjunction closure learns of at the end
  chosen        \* history: facts that disjunctions selected

clauseVars == <<clauseSeen, active, finished, queue>>
tokenVars == <<tokenStart, tokenDeltas, tokenSeen>>
selectVars == <<cursor, selected, late, chosen>>
vars == <<system, pc, have, log, read, seen, mark, tokenVars, clauseVars, selectVars>>

Clauses == 1..Len(system.clauses)
Readers == Consumer \cup {"clauses", "mirror"}
LanesOf(r) ==
  CASE r = "clauses" -> {"compile", "actual", "source"}
    [] r = "mirror" -> {"actual"}
    [] OTHER -> Reads[r]

InLanes(S, lanes) == {f \in S : f[1] \in lanes}
Unread(r) == InLanes(log \ read[r], LanesOf(r))
SourceFacts(S) == InLanes(S, {"source"})
Lane(lane, nodes) == {lane} \X nodes
Mirrored(S) == {<<"compile", f[2]>> : f \in InLanes(S, {"actual"})}

ClosedUnder(rules, S) == \A r \in rules : r.needs \subseteq S => r.gives \in S
RulesOf(c) == {r \in system.rules : r.by = c}

\* Mutant: a rule fires at the first of its needs.
DerivedFromAny(c, S) ==
  LET Fires(r, T) == r.needs \cap T # {}
      heads == {r.gives : r \in RulesOf(c)} \ S
  IN  {f \in heads : \A T \in SUBSET heads :
         (\A r \in RulesOf(c) : Fires(r, S \cup T) => r.gives \in S \cup T) => f \in T}

\* What the rules of closure c derive from S.
Derived(c, S) ==
  LET heads == {r.gives : r \in RulesOf(c)} \ S
  IN  {f \in heads : \A T \in SUBSET heads :
                       ClosedUnder(RulesOf(c), S \cup T) => f \in T}

Init ==
  /\ system \in Systems
  /\ pc = "inner"
  /\ have = Lane("compile", system.roots) \cup Lane("actual", system.roots)
  /\ log = have
  /\ read = [r \in Readers |-> {}]
  \* macro_closure, both reachability closures and the disjunctions are seeded.
  /\ seen = [c \in Consumer |->
       IF c \in {"macro", "compile", "actual"} THEN InLanes(have, Reads[c]) ELSE {}]
  /\ mark = {} /\ tokenStart = {} /\ tokenDeltas = {} /\ tokenSeen = {}
  /\ clauseSeen = have
  /\ active = {i \in Clauses : system.clauses[i].trigger \subseteq have}
  /\ finished = {}
  /\ queue = {i \in Clauses : \/ system.clauses[i].trigger \subseteq have
                              \/ system.clauses[i].choices \cap have # {}}
  /\ cursor = 1 /\ selected = FALSE /\ late = {} /\ chosen = {}

-----------------------------------------------------------------------------
(* close_deterministic_constraints                                         *)

AddFacts(new) ==
  /\ have' = have \cup new
  /\ log' = log \cup (new \ have)

\* Mutant: a clause is not queued again when its trigger arrives.
WokenByChoice(new, done) ==
  {i \in Clauses \ done : system.clauses[i].choices \cap new # {}}

\* Clauses that the new facts concern, as trigger or as choice.
Woken(new, done) ==
  {i \in Clauses \ done :
     (system.clauses[i].trigger \cup system.clauses[i].choices) \cap new # {}}

\* add_compile, add_actual and add_source of the disjunction closure.
TellClauses(facts, rest, done) ==
  LET new == facts \ clauseSeen
  IN  /\ clauseSeen' = clauseSeen \cup facts
      /\ active' = active \cup {i \in Clauses : system.clauses[i].trigger \cap new # {}}
      /\ queue' = rest \cup Woken(new, done)

\* The readers whose cursors the condition of the inner loop tests.
InnerReaders == {"macro", "side", "source", "definitions", "clauses"}

InnerTest ==
  /\ pc = "inner"
  /\ pc' = IF \E r \in InnerReaders : Unread(r) # {} THEN "deliver" ELSE "compile"
  /\ UNCHANGED <<system, have, log, read, seen, mark, tokenVars, clauseVars, selectVars>>

\* The macro closure and the disjunctions are told; neither acts yet.
Deliver ==
  /\ pc = "deliver"
  /\ read' = [read EXCEPT !["macro"] = log, !["clauses"] = log]
  /\ seen' = [seen EXCEPT !["macro"] = @ \cup Unread("macro")]
  /\ TellClauses(Unread("clauses"), queue, finished)
  /\ pc' = "side"
  /\ UNCHANGED <<system, have, log, mark, finished, tokenVars, selectVars>>

\* A closure reads the log to its end and closes.
Run(c, next) ==
  LET known == seen[c] \cup Unread(c)
      new   == Derived(c, known)
  IN
  /\ pc = c
  /\ read' = [read EXCEPT ![c] = log]
  /\ seen' = [seen EXCEPT ![c] = known \cup InLanes(new, Reads[c])]
  /\ AddFacts(new)
  /\ pc' = next
  /\ UNCHANGED <<system, tokenVars, clauseVars, selectVars>>

SideEffects == Run("side", "source") /\ UNCHANGED mark
CloseSource == Run("source", "definitions") /\ UNCHANGED mark
SourceDefinitions == Run("definitions", "macro") /\ UNCHANGED mark

\* macro_closure.close: it knows what Deliver told it, not what came since.
CloseMacro ==
  LET new == Derived("macro", seen["macro"])
  IN
  /\ pc = "macro"
  /\ seen' = [seen EXCEPT !["macro"] = @ \cup new]
  /\ AddFacts(new)
  /\ pc' = "inner"
  /\ UNCHANGED <<system, read, mark, tokenVars, clauseVars, selectVars>>

\* reachability_closure of the compile lane; the log is marked before it.
ReachCompile == Run("compile", "actual") /\ mark' = log
ReachActual == Run("actual", "mirror") /\ UNCHANGED mark

Mirror ==
  /\ pc = "mirror"
  /\ AddFacts(Mirrored(Unread("mirror")))
  /\ read' = [read EXCEPT !["mirror"] = log]
  /\ pc' = "test"
  /\ UNCHANGED <<system, seen, mark, tokenVars, clauseVars, selectVars>>

\* Mutant: growth while the actual lane was closed does not repeat the round.
GrownActualOnly == InLanes(log, {"actual"}) # InLanes(mark, {"actual"})

\* Mutant: growth of the actual lane alone does not repeat the round.
GrownCompileOnly == InLanes(log, {"compile"}) # InLanes(mark, {"compile"})

\* Mutant: the round repeats while anything is pending, grown or not.
GrownEver == log # {}

\* pending_compile or pending_actual grew while the two lanes were closed.
Grown == log # mark

\* The cursors are locals that start at zero with every call.
Cursors == [r \in Readers |-> {}]

\* Mutant: only what select and the tokens retain is noted for the tokens.
NotedNone == {}

\* Sources logged since token_notification_start.
Noted == SourceFacts(log) \ tokenStart

\* Nothing grew: the logs are cleared and the sources noted for the tokens.
OuterTest ==
  /\ pc = "test"
  /\ IF Grown
       THEN /\ pc' = "inner"
            /\ UNCHANGED <<log, read, tokenDeltas, tokenStart>>
       ELSE /\ pc' = "select"
            /\ tokenDeltas' = tokenDeltas \cup Noted
            /\ tokenStart' = {}
            /\ log' = {}
            /\ read' = Cursors
  /\ UNCHANGED <<system, have, seen, mark, tokenSeen, clauseVars, selectVars>>

-----------------------------------------------------------------------------
(* DisjunctionClosure::select                                              *)

\* Mutant: a choice counts once the disjunctions were told of it.
SatisfiedWhenTold(c) == c.choices \cap clauseSeen # {}

Satisfied(c) == c.choices \cap have # {}

\* The next pending clause; one that a selection woke behind the cursor waits
\* for the next round.
SelectClause(i) ==
  LET c == system.clauses[i]
  IN
  /\ pc = "select" /\ i \in queue /\ i >= cursor
  /\ \A j \in queue : j >= cursor => i <= j
  /\ cursor' = i + 1
  /\ IF i \in finished \/ i \notin active
       THEN /\ queue' = queue \ {i}
            /\ UNCHANGED <<have, log, tokenDeltas, clauseSeen, active, finished,
                           selected, late, chosen, pc>>
     ELSE IF Satisfied(c)
       THEN /\ finished' = finished \cup {i}
            /\ queue' = queue \ {i}
            /\ UNCHANGED <<have, log, tokenDeltas, clauseSeen, active, selected,
                           late, chosen, pc>>
     ELSE IF c.selected \in have
       THEN /\ pc' = "error"
            /\ UNCHANGED <<have, log, tokenDeltas, clauseVars, selected, late, chosen>>
     ELSE   /\ finished' = finished \cup {i}
            /\ AddFacts({c.selected})
            /\ tokenDeltas' = tokenDeltas \cup SourceFacts({c.selected})
            /\ chosen' = chosen \cup {c.selected}
            /\ selected' = TRUE
            /\ IF c.kind = "member"
                 THEN /\ late' = late \cup {c.selected}
                      /\ queue' = queue \ {i}
                      /\ UNCHANGED <<clauseSeen, active>>
                 ELSE /\ TellClauses({c.selected}, queue \ {i}, finished')
                      /\ UNCHANGED late
            /\ UNCHANGED pc
  /\ UNCHANGED <<system, read, seen, mark, tokenStart, tokenSeen>>

\* The end of select: actual choices are mirrored, member choices announced.
SelectEnds ==
  /\ pc = "select" /\ ~\E i \in queue : i >= cursor
  /\ AddFacts(Mirrored(late))
  /\ TellClauses(late \cup Mirrored(late), queue, finished)
  /\ late' = {} /\ cursor' = 1
  /\ IF selected
       THEN /\ pc' = "inner"
            /\ selected' = FALSE
            /\ tokenStart' = SourceFacts(log)
       ELSE /\ pc' = "tokens"
            /\ UNCHANGED <<selected, tokenStart>>
  /\ UNCHANGED <<system, read, seen, mark, tokenDeltas, tokenSeen, finished, chosen>>

\* macro_repetition_tokens.close with the deltas noted since its last call.
CloseTokens ==
  LET known  == tokenSeen \cup tokenDeltas
      forced == {<<"source", t[2]>> : t \in {q \in system.tokens : <<"source", q[1]>> \in known}}
                  \ have
  IN
  /\ pc = "tokens"
  /\ AddFacts(forced)
  /\ tokenSeen' = known
  /\ tokenDeltas' = forced
  /\ tokenStart' = SourceFacts(log')
  /\ pc' = IF forced # {} THEN "inner" ELSE "done"
  /\ UNCHANGED <<system, read, seen, mark, clauseVars, selectVars>>

Next ==
  \/ InnerTest \/ Deliver \/ SideEffects \/ CloseSource \/ SourceDefinitions
  \/ CloseMacro \/ ReachCompile \/ ReachActual \/ Mirror \/ OuterTest
  \/ \E i \in Clauses : SelectClause(i)
  \/ SelectEnds \/ CloseTokens

Spec == Init /\ [][Next]_vars

\* compute_retention is one thread that runs to its end.
FairSpec == Spec /\ WF_vars(Next)

-----------------------------------------------------------------------------
\* The state's types; cursors point into the logs, logs hold known facts.
TypeOK ==
  /\ system \in Systems
  /\ pc \in {"inner", "deliver", "mirror", "test", "select", "tokens", "done", "error"}
            \cup Consumer
  /\ have \in SUBSET Fact /\ log \in SUBSET have /\ mark \in SUBSET have
  /\ read \in [Readers -> SUBSET log]
  /\ seen \in [Consumer -> SUBSET have]
  /\ tokenDeltas \cup tokenSeen \in SUBSET SourceFacts(have)
  /\ tokenStart \in SUBSET log
  /\ clauseSeen \in SUBSET have
  /\ active \in SUBSET Clauses /\ finished \in SUBSET Clauses /\ queue \in SUBSET Clauses
  /\ cursor \in 1..(Len(system.clauses) + 1) /\ selected \in BOOLEAN
  /\ late \in SUBSET have /\ chosen \in SUBSET have

\* The result satisfies every rule of every closure, the macro repetitions and
\* every disjunction whose trigger is in it: no fact was cleared from the logs
\* before all who had to read it had done so, and the InvalidConstraint exits of
\* select are never taken.
ResultComplete ==
  /\ pc # "error"
  /\ pc = "done" =>
       /\ ClosedUnder(system.rules, have)
       /\ Mirrored(have) \subseteq have
       /\ \A i \in Clauses :
            system.clauses[i].trigger \subseteq have => Satisfied(system.clauses[i])
       /\ \A t \in system.tokens : <<"source", t[1]>> \in have => <<"source", t[2]>> \in have

\* Selections are made on complete knowledge: when select starts, every closure
\* has seen every fact of its lanes and no rule is left to apply.
SelectsAtFixpoint ==
  pc = "select" /\ cursor = 1 /\ ~selected =>
    /\ \A c \in Consumer : InLanes(have, Reads[c]) \subseteq seen[c]
    /\ have = clauseSeen
    /\ ClosedUnder(system.rules, have)

\* Nothing is in the result that roots, selections, repetitions and rules do
\* not force.
NothingSuperfluous ==
  LET given == Lane("compile", system.roots) \cup Lane("actual", system.roots) \cup chosen
      TokenClosed(S) == \A t \in system.tokens :
                          <<"source", t[1]>> \in S => <<"source", t[2]>> \in S
  IN  pc = "done" =>
        \A S \in SUBSET (have \ given) :
          LET T == given \cup S
          IN  ClosedUnder(system.rules, T) /\ Mirrored(T) \subseteq T /\ TokenClosed(T)
                => T = have

\* compute_retention ends.
Terminates == <>(pc = "done")
=============================================================================
