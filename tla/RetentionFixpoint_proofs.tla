---------------------- MODULE RetentionFixpoint_proofs ----------------------
(***************************************************************************)
(* The safety properties of RetentionFixpoint, for every set of rules,     *)
(* disjunctions and macro repetitions, of any size.                        *)
(*                                                                         *)
(* What a closure has not seen is in the part of the log that its cursor   *)
(* has not passed (SeenInv), what its rules derive from what it has seen   *)
(* is there unless it still has something to read (SettledInv), and the    *)
(* log is only cleared when every cursor has passed it (MarkInv).  The     *)
(* disjunctions (ClauseInv) and the macro repetitions (TokenInv) keep such *)
(* accounts of their own.  LeastInv bounds the result from above.          *)
(*                                                                         *)
(* The second part is about SourceClosure, one of these closures taken by  *)
(* itself, for all constraints of any size, and about what it promises.    *)
(***************************************************************************)
EXTENDS RetentionFixpoint, SourceClosure, TLAPS

\* Every fact is known to a closure that reads its lane, or is still to be read.
SeenInv ==
  /\ \A c \in Consumer : InLanes(have, Reads[c]) \subseteq seen[c] \cup Unread(c)
  /\ have \subseteq clauseSeen \cup Unread("clauses")
  /\ Mirrored(have) \subseteq have \cup Mirrored(Unread("mirror"))

\* macro_closure is told of facts some steps before it closes them.
MacroPending == pc \in {"side", "source", "definitions", "macro"}

Settled(c) == \A r \in RulesOf(c) : r.needs \subseteq seen[c] => r.gives \in have

SettledInv ==
  \A c \in Consumer : Settled(c) \/ Unread(c) # {} \/ (c = "macro" /\ MacroPending)

\* The readers that have passed the mark at each place of the outer loop.
PastMark ==
  CASE pc = "actual" -> InnerReaders \cup {"compile"}
    [] pc = "mirror" -> InnerReaders \cup {"compile", "actual"}
    [] pc = "test"   -> Readers
    [] OTHER         -> {}

MarkInv ==
  /\ pc = "compile" => \A r \in InnerReaders : Unread(r) = {}
  /\ pc \in {"actual", "mirror", "test"} => mark \subseteq log
  /\ \A r \in PastMark : InLanes(mark \ read[r], LanesOf(r)) = {}

\* The log starts afresh with the selection, which runs outside no loop.
SelectInv ==
  /\ pc # "select" => cursor = 1 /\ late = {} /\ ~selected
  /\ pc = "select" /\ ~selected => log = {} /\ late = {} /\ \A i \in queue : i >= cursor
  /\ pc \in {"tokens", "done"} => log = {} /\ queue = {}

ClauseInv ==
  /\ \A i \in Clauses : system.clauses[i].trigger \subseteq clauseSeen => i \in active
  /\ \A i \in finished : Satisfied(system.clauses[i])
  /\ active \ finished \subseteq queue

TokenInv ==
  /\ SourceFacts(have) \subseteq tokenSeen \cup tokenDeltas \cup (SourceFacts(log) \ tokenStart)
  /\ pc = "select" => SourceFacts(log) \subseteq tokenSeen \cup tokenDeltas
  /\ \A t \in system.tokens : <<"source", t[1]>> \in tokenSeen => <<"source", t[2]>> \in have
  /\ pc = "done" => tokenDeltas = {}

Given == Lane("compile", system.roots) \cup Lane("actual", system.roots) \cup chosen

TokenClosed(T) ==
  \A t \in system.tokens : <<"source", t[1]>> \in T => <<"source", t[2]>> \in T

\* A set that every rule, the mirror and the repetitions leave as it is.
Stable(T) == ClosedUnder(system.rules, T) /\ Mirrored(T) \subseteq T /\ TokenClosed(T)

LeastInv ==
  /\ Given \subseteq have
  /\ \A T \in SUBSET Fact : Given \subseteq T /\ Stable(T) => have \subseteq T

\* The inductive invariant.
IInv ==
  /\ TypeOK /\ SeenInv /\ SettledInv /\ MarkInv /\ SelectInv /\ ClauseInv /\ TokenInv /\ LeastInv
  /\ pc # "error"

-----------------------------------------------------------------------------
(* Facts and closures                                                      *)

LEMMA FactLanes ==
  ASSUME NEW f \in Fact
  PROVE  /\ f[1] \in {"compile", "actual", "source"}
         /\ f[1] = "actual" => <<"compile", f[2]>> \in Fact /\ <<"compile", f[2]>>[1] = "compile"
BY DEF Fact

LEMMA ReaderFacts ==
  /\ Consumer \subseteq Readers /\ "clauses" \in Readers /\ "mirror" \in Readers
  /\ InnerReaders \subseteq Readers
  /\ InnerReaders \cup {"compile", "actual"} = Consumer \cup {"clauses"}
  /\ Readers = InnerReaders \cup {"compile", "actual", "mirror"}
  /\ \A c \in Consumer : LanesOf(c) = Reads[c]
  /\ LanesOf("clauses") = {"compile", "actual", "source"} /\ LanesOf("mirror") = {"actual"}
  /\ "macro" \in Consumer /\ "compile" \in Consumer /\ "actual" \in Consumer
BY DEF Readers, Consumer, InnerReaders, LanesOf

LEMMA SystemFacts ==
  ASSUME system \in Systems
  PROVE  /\ system.roots \in SUBSET Node
         /\ \A r \in system.rules :
              /\ r.by \in Consumer /\ r.needs \subseteq Fact /\ r.gives \in Fact
              /\ r.needs # {} /\ \A f \in r.needs : f[1] \in Reads[r.by]
         /\ Len(system.clauses) \in Nat
         /\ \A i \in Clauses :
              /\ system.clauses[i].trigger \in {{}} \cup {{f} : f \in Fact}
              /\ system.clauses[i].selected \in system.clauses[i].choices
              /\ system.clauses[i].selected \in Fact
         /\ \A t \in system.tokens : <<"source", t[2]>> \in Fact
                                     /\ <<"source", t[2]>>[1] = "source"
<1>1. /\ system.roots \in SUBSET Node /\ system.rules \subseteq Rule
      /\ \A r \in system.rules : r.needs # {} /\ \A f \in r.needs : f[1] \in Reads[r.by]
      /\ system.clauses \in Seq(Clause) /\ system.tokens \in SUBSET (Unit \X Unit)
      /\ \A i \in 1..Len(system.clauses) : system.clauses[i].selected \in system.clauses[i].choices
  BY SystemAssumption
<1>2. \A r \in system.rules : r.by \in Consumer /\ r.needs \subseteq Fact /\ r.gives \in Fact
  BY <1>1 DEF Rule
<1>3. Len(system.clauses) \in Nat /\ \A i \in Clauses : system.clauses[i] \in Clause
  BY <1>1 DEF Clauses
<1>4. \A i \in Clauses :
        /\ system.clauses[i].trigger \in {{}} \cup {{f} : f \in Fact}
        /\ system.clauses[i].choices \in SUBSET Fact
  BY <1>3 DEF Clause
<1>5. \A t \in system.tokens : <<"source", t[2]>> \in Fact /\ <<"source", t[2]>>[1] = "source"
  BY <1>1 DEF Fact
<1> QED BY <1>1, <1>2, <1>3, <1>4, <1>5 DEF Clauses

\* What a closure derives from what it knows is closed under its rules, and is
\* in every set that is.
LEMMA DerivedFacts ==
  ASSUME system \in Systems, NEW c \in Consumer, NEW S \in SUBSET Fact
  PROVE  /\ Derived(c, S) \in SUBSET Fact
         /\ \A r \in RulesOf(c) :
              r.needs \subseteq S \cup Derived(c, S) => r.gives \in S \cup Derived(c, S)
         /\ \A T : S \subseteq T /\ ClosedUnder(system.rules, T) => Derived(c, S) \subseteq T
<1> DEFINE heads == {r.gives : r \in RulesOf(c)} \ S
           Closing(H) == ClosedUnder(RulesOf(c), S \cup H)
<1>1. Derived(c, S) = {f \in heads : \A H \in SUBSET heads : Closing(H) => f \in H}
  BY DEF Derived
<1>2. Derived(c, S) \in SUBSET Fact
  BY <1>1, SystemFacts DEF RulesOf
<1>3. ASSUME NEW r \in RulesOf(c), r.needs \subseteq S \cup Derived(c, S), r.gives \notin S
      PROVE  r.gives \in Derived(c, S)
  <2>1. r.gives \in heads
    BY <1>3
  <2>2. ASSUME NEW H \in SUBSET heads, Closing(H)
        PROVE  r.gives \in H
    <3>1. r.needs \subseteq S \cup H
      BY <1>1, <1>3, <2>2
    <3> QED BY <1>3, <2>2, <3>1 DEF ClosedUnder
  <2> QED BY <1>1, <2>1, <2>2
<1>4. ASSUME NEW T, S \subseteq T, ClosedUnder(system.rules, T)
      PROVE  Derived(c, S) \subseteq T
  <2>1. Closing(T \cap heads)
    <3> SUFFICES ASSUME NEW r \in RulesOf(c), r.needs \subseteq S \cup (T \cap heads)
                 PROVE  r.gives \in S \cup (T \cap heads)
      BY DEF ClosedUnder
    <3>1. r.gives \in T
      BY <1>4 DEF ClosedUnder, RulesOf
    <3> QED BY <3>1
  <2> QED BY <1>1, <2>1
<1> QED BY <1>2, <1>3, <1>4

\* New facts enter the log with the set that holds them.
LEMMA Added ==
  ASSUME TypeOK, NEW new \in SUBSET Fact, AddFacts(new)
  PROVE  /\ have' \in SUBSET Fact /\ log' \in SUBSET have' /\ have \subseteq have' /\ log \subseteq log'
         /\ new \subseteq have' /\ have' \subseteq have \cup new
         /\ have' \subseteq have \cup (log' \ log) /\ log' \subseteq log \cup (new \ have)
BY DEF AddFacts, TypeOK

LEMMA ClausesKept ==
  ASSUME ClauseInv, have \subseteq have', UNCHANGED <<system, clauseVars>>
  PROVE  ClauseInv'
BY DEF ClauseInv, Satisfied, Clauses, clauseVars

LEMMA TokensKept ==
  ASSUME TypeOK, TokenInv, NEW new \in SUBSET Fact, AddFacts(new), UNCHANGED <<system, tokenVars>>,
         pc' # "select", pc' # "done"
  PROVE  TokenInv'
<1>1. SourceFacts(have') \subseteq SourceFacts(have) \cup (SourceFacts(log') \ tokenStart)
  BY Added DEF SourceFacts, InLanes, TypeOK
<1>2. SourceFacts(log) \subseteq SourceFacts(log')
  BY Added DEF SourceFacts, InLanes
<1> QED BY <1>1, <1>2, Added DEF TokenInv, tokenVars, SourceFacts

\* No fact but those that every stable set holds.
LEMMA LeastKept ==
  ASSUME LeastInv, NEW new, AddFacts(new), UNCHANGED system,
         chosen \subseteq chosen', chosen' \subseteq chosen \cup new,
         \A T \in SUBSET Fact : Given' \subseteq T /\ Stable(T) /\ have \subseteq T => new \subseteq T
  PROVE  LeastInv'
<1>1. Given' \subseteq have' /\ Given \subseteq Given'
  BY DEF LeastInv, Given, AddFacts
<1>2. ASSUME NEW T \in SUBSET Fact, Given' \subseteq T, Stable(T)'
      PROVE  have' \subseteq T
  <2>1. Stable(T)
    BY <1>2 DEF Stable, ClosedUnder, Mirrored, TokenClosed
  <2>2. have \subseteq T
    BY <1>1, <1>2, <2>1 DEF LeastInv
  <2> QED BY <1>2, <2>1, <2>2 DEF AddFacts
<1> QED BY <1>1, <1>2 DEF LeastInv

LEMMA SeenKept ==
  ASSUME TypeOK, NEW new \in SUBSET Fact, AddFacts(new), NEW k \in Consumer,
         InLanes(have, Reads[k]) \subseteq seen[k] \cup Unread(k),
         seen[k] \cup Unread(k) \subseteq seen'[k] \cup Unread(k)', read'[k] \subseteq log
  PROVE  InLanes(have', Reads[k]) \subseteq seen'[k] \cup Unread(k)'
<1>1. have' \subseteq have \cup (log' \ read'[k])
  BY Added DEF TypeOK
<1>2. Unread(k)' = InLanes(log' \ read'[k], Reads[k])
  BY ReaderFacts DEF Unread
<1> QED BY <1>1, <1>2 DEF InLanes

LEMMA ToldKept ==
  ASSUME TypeOK, SeenInv, NEW new \in SUBSET Fact, AddFacts(new),
         read'["clauses"] = read["clauses"], clauseSeen \subseteq clauseSeen'
  PROVE  have' \subseteq clauseSeen' \cup Unread("clauses")'
<1>1. /\ have' \in SUBSET Fact /\ have \subseteq have' /\ log \subseteq log'
      /\ have' \subseteq have \cup (log' \ log) /\ read["clauses"] \subseteq log
  BY Added, ReaderFacts DEF TypeOK
<1>2. /\ Unread("clauses") = InLanes(log \ read["clauses"], {"compile", "actual", "source"})
      /\ Unread("clauses")' = InLanes(log' \ read["clauses"], {"compile", "actual", "source"})
  BY ReaderFacts DEF Unread
<1> QED BY <1>1, <1>2, FactLanes DEF SeenInv, InLanes

LEMMA MirrorKept ==
  ASSUME TypeOK, SeenInv, NEW new \in SUBSET Fact, AddFacts(new), read'["mirror"] = read["mirror"]
  PROVE  Mirrored(have') \subseteq have' \cup Mirrored(Unread("mirror")')
<1>1. /\ have' \in SUBSET Fact /\ have \subseteq have' /\ log \subseteq log'
      /\ have' \subseteq have \cup (log' \ log) /\ read["mirror"] \subseteq log
  BY Added, ReaderFacts DEF TypeOK
<1>2. /\ Unread("mirror") = InLanes(log \ read["mirror"], {"actual"})
      /\ Unread("mirror")' = InLanes(log' \ read["mirror"], {"actual"})
  BY ReaderFacts DEF Unread
<1>3. ASSUME NEW f \in have', f[1] = "actual"
      PROVE  <<"compile", f[2]>> \in have' \cup Mirrored(InLanes(log' \ read["mirror"], {"actual"}))
  <2>1. CASE f \in have
    BY <1>1, <1>2, <1>3, <2>1 DEF SeenInv, Mirrored, InLanes
  <2>2. CASE f \in log' \ log
    BY <1>1, <1>3, <2>2 DEF Mirrored, InLanes
  <2> QED BY <1>1, <2>1, <2>2
<1> QED BY <1>2, <1>3 DEF Mirrored, InLanes

LEMMA SettledKept ==
  ASSUME TypeOK, NEW new \in SUBSET Fact, AddFacts(new), UNCHANGED system, NEW k \in Consumer,
         seen'[k] = seen[k], read'[k] = read[k], Settled(k) \/ Unread(k) # {}
  PROVE  Settled(k)' \/ Unread(k)' # {}
<1>1. have \subseteq have' /\ log \subseteq log'
  BY Added
<1>2. Unread(k) = InLanes(log \ read[k], Reads[k]) /\ Unread(k)' = InLanes(log' \ read'[k], Reads[k])
  BY ReaderFacts DEF Unread
<1>3. Settled(k) => Settled(k)'
  BY <1>1 DEF Settled, RulesOf
<1> QED BY <1>1, <1>2, <1>3 DEF InLanes

\* A closure that has closed what it knows has settled.
LEMMA NowSettled ==
  ASSUME system \in Systems, NEW c \in Consumer, NEW known \in SUBSET Fact,
         AddFacts(Derived(c, known)), known \subseteq have, UNCHANGED system,
         seen'[c] \subseteq known \cup Derived(c, known)
  PROVE  Settled(c)'
<1>1. ASSUME NEW r \in RulesOf(c), r.needs \subseteq seen'[c]
      PROVE  r.gives \in have'
  <2>1. r.needs \subseteq known \cup Derived(c, known)
    BY <1>1
  <2>2. r.gives \in known \cup Derived(c, known)
    BY <2>1, DerivedFacts
  <2> QED BY <2>2 DEF AddFacts
<1>2. RulesOf(c)' = RulesOf(c)
  BY DEF RulesOf
<1> QED BY <1>1, <1>2 DEF Settled

-----------------------------------------------------------------------------
(* close_deterministic_constraints                                         *)

\* A step that appends facts without moving a cursor.
LEMMA Appended ==
  ASSUME TypeOK, SeenInv, SettledInv, NEW new \in SUBSET Fact, AddFacts(new),
         UNCHANGED <<system, read, seen>>, clauseSeen \subseteq clauseSeen', ~MacroPending
  PROVE  SeenInv' /\ SettledInv'
<1>1. ASSUME NEW k \in Consumer
      PROVE  InLanes(have', Reads[k]) \subseteq seen'[k] \cup Unread(k)'
  <2>1. Unread(k) = InLanes(log \ read[k], Reads[k]) /\ Unread(k)' = InLanes(log' \ read[k], Reads[k])
    BY ReaderFacts DEF Unread
  <2>2. log \subseteq log' /\ read'[k] \subseteq log
    BY Added, ReaderFacts DEF TypeOK
  <2>3. seen[k] \cup Unread(k) \subseteq seen'[k] \cup Unread(k)'
    BY <2>1, <2>2 DEF InLanes
  <2>4. InLanes(have, Reads[k]) \subseteq seen[k] \cup Unread(k)
    BY DEF SeenInv
  <2> QED BY <2>2, <2>3, <2>4, SeenKept
<1>2. SeenInv'
  BY <1>1, ToldKept, MirrorKept DEF SeenInv, Mirrored
<1>3. SettledInv'
  BY SettledKept DEF SettledInv
<1> QED BY <1>2, <1>3

LEMMA InnerTestIInv ==
  ASSUME IInv, InnerTest
  PROVE  IInv'
<1> USE DEF InnerTest
<1>1. TypeOK' /\ pc' # "error"
  BY DEF IInv, TypeOK, Clauses, Consumer, clauseVars, tokenVars, selectVars
<1>2. SeenInv' /\ ClauseInv' /\ LeastInv' /\ SelectInv' /\ TokenInv'
  <2>1. \A r : Unread(r)' = Unread(r)
    BY DEF Unread
  <2>2. SeenInv'
    BY <2>1 DEF IInv, SeenInv, clauseVars
  <2>3. ClauseInv'
    BY DEF IInv, ClauseInv, Clauses, Satisfied, clauseVars
  <2>4. LeastInv'
    BY DEF IInv, LeastInv, Given, Stable, ClosedUnder, TokenClosed, Mirrored, selectVars
  <2>5. SelectInv' /\ TokenInv'
    BY DEF IInv, SelectInv, TokenInv, selectVars, clauseVars, tokenVars
  <2> QED BY <2>2, <2>3, <2>4, <2>5
<1>3. SettledInv'
  BY DEF IInv, SettledInv, Settled, RulesOf, Unread, MacroPending
<1>4. MarkInv'
  <2>1. pc' = "compile" => \A r \in InnerReaders : Unread(r)' = {}
    BY DEF Unread
  <2>2. PastMark' = {}
    BY DEF PastMark
  <2> QED BY <2>1, <2>2 DEF MarkInv
<1> QED BY <1>1, <1>2, <1>3, <1>4 DEF IInv

\* What every run of a closure keeps, whichever closure it is.
LEMMA RunKeeps ==
  ASSUME IInv, NEW c \in Consumer \ {"macro"},
         NEW next \in {"source", "definitions", "macro", "actual", "mirror"}, Run(c, next),
         mark' \in {mark, log}, MacroPending => next \in {"source", "definitions", "macro"}
  PROVE  /\ TypeOK' /\ SeenInv' /\ SettledInv' /\ SelectInv' /\ ClauseInv' /\ TokenInv'
         /\ LeastInv' /\ pc' # "error"
         /\ \E new \in SUBSET Fact : AddFacts(new)
<1> DEFINE known == seen[c] \cup Unread(c)
           new   == Derived(c, known)
<1>1. /\ TypeOK /\ system \in Systems /\ read \in [Readers -> SUBSET log]
      /\ seen \in [Consumer -> SUBSET have]
      /\ have \in SUBSET Fact /\ log \in SUBSET have
  BY DEF IInv, TypeOK
<1>2. Unread(c) = InLanes(log \ read[c], Reads[c])
  BY ReaderFacts DEF Unread
<1>3. known \in SUBSET have /\ known \in SUBSET Fact
  BY <1>1, <1>2 DEF InLanes
<1>4. /\ AddFacts(new) /\ pc = c /\ pc' = next /\ read' = [read EXCEPT ![c] = log]
      /\ seen' = [seen EXCEPT ![c] = known \cup InLanes(new, Reads[c])]
      /\ UNCHANGED <<system, tokenVars, clauseVars, selectVars>>
  BY DEF Run
<1>5. /\ new \in SUBSET Fact
      /\ \A T : known \subseteq T /\ ClosedUnder(system.rules, T) => new \subseteq T
  BY <1>1, <1>3, DerivedFacts
<1>6. /\ read'[c] = log /\ seen'[c] = known \cup InLanes(new, Reads[c])
      /\ \A k \in Consumer \ {c} : read'[k] = read[k] /\ seen'[k] = seen[k]
      /\ read'["clauses"] = read["clauses"] /\ read'["mirror"] = read["mirror"]
  <2>1. c # "clauses" /\ c # "mirror"
    BY DEF Consumer
  <2> QED BY <1>1, <1>4, <2>1, ReaderFacts
<1>7. Settled(c)'
  <2>1. seen'[c] \subseteq known \cup new
    BY <1>6 DEF InLanes
  <2> QED BY <1>1, <1>3, <1>4, <2>1, NowSettled
<1> HIDE DEF new, known
<1>8. TypeOK'
  <2>1. /\ have' \in SUBSET Fact /\ log' \in SUBSET have' /\ have \subseteq have'
        /\ log \subseteq log' /\ new \subseteq have'
    BY <1>1, <1>4, <1>5, Added
  <2>2. read' \in [Readers -> SUBSET log']
    BY <1>1, <1>4, <2>1
  <2>3. seen' \in [Consumer -> SUBSET have']
    BY <1>1, <1>3, <1>4, <2>1 DEF InLanes
  <2>4. next \in {"inner", "deliver", "mirror", "test", "select", "tokens", "done", "error"} \cup Consumer
    BY DEF Consumer
  <2>5. SourceFacts(have) \subseteq SourceFacts(have')
    BY <2>1 DEF SourceFacts, InLanes
  <2>6. /\ mark' \in SUBSET have' /\ (tokenDeltas \cup tokenSeen)' \in SUBSET SourceFacts(have')
        /\ tokenStart' \in SUBSET log' /\ clauseSeen' \in SUBSET have'
        /\ late' \in SUBSET have' /\ chosen' \in SUBSET have'
    BY <1>1, <1>4, <2>1, <2>5 DEF TypeOK, clauseVars, tokenVars, selectVars
  <2>7. /\ active' \in SUBSET Clauses' /\ finished' \in SUBSET Clauses' /\ queue' \in SUBSET Clauses'
        /\ cursor' \in 1..(Len(system'.clauses) + 1) /\ selected' \in BOOLEAN
    BY <1>1, <1>4 DEF TypeOK, Clauses, clauseVars, selectVars
  <2> QED BY <1>1, <1>4, <2>1, <2>2, <2>3, <2>4, <2>6, <2>7 DEF TypeOK
<1>9. SeenInv'
  <2>1. ASSUME NEW k \in Consumer
        PROVE  InLanes(have', Reads[k]) \subseteq seen'[k] \cup Unread(k)'
    <3>1. Unread(k) = InLanes(log \ read[k], Reads[k]) /\ Unread(k)' = InLanes(log' \ read'[k], Reads[k])
      BY ReaderFacts DEF Unread
    <3>2. log \subseteq log'
      BY <1>1, <1>4, <1>5, Added
    <3>3. seen[k] \cup Unread(k) \subseteq seen'[k] \cup Unread(k)' /\ read'[k] \subseteq log
      <4>1. CASE k = c
        BY <1>1, <1>6, <4>1 DEF known
      <4>2. CASE k # c
        BY <1>1, <1>6, <3>1, <3>2, <4>2, ReaderFacts DEF InLanes
      <4> QED BY <4>1, <4>2
    <3>4. InLanes(have, Reads[k]) \subseteq seen[k] \cup Unread(k)
      BY DEF IInv, SeenInv
    <3> QED BY <1>1, <1>4, <1>5, <3>3, <3>4, SeenKept
  <2>2. SeenInv /\ UNCHANGED clauseSeen
    BY <1>4 DEF IInv, clauseVars
  <2>3. /\ have' \subseteq clauseSeen' \cup Unread("clauses")'
        /\ Mirrored(have') \subseteq have' \cup Mirrored(Unread("mirror")')
    BY <1>1, <1>4, <1>5, <1>6, <2>2, ToldKept, MirrorKept
  <2> QED BY <2>1, <2>3 DEF SeenInv, Mirrored
<1>10. SettledInv'
  <2>1. ASSUME NEW k \in Consumer, k # c
        PROVE  Settled(k)' \/ Unread(k)' # {} \/ (k = "macro" /\ MacroPending')
    <3>1. CASE Settled(k) \/ Unread(k) # {}
      BY <1>1, <1>4, <1>5, <1>6, <2>1, <3>1, SettledKept
    <3>2. CASE k = "macro" /\ MacroPending
      BY <1>4, <3>2 DEF MacroPending
    <3> QED BY <3>1, <3>2 DEF IInv, SettledInv
  <2> QED BY <1>7, <2>1 DEF SettledInv
<1>11. SelectInv' /\ pc' # "error"
  <2>1. pc # "select"
    BY <1>4 DEF Consumer
  <2> QED BY <1>4, <2>1 DEF IInv, SelectInv, selectVars
<1>12. ClauseInv'
  BY <1>1, <1>4, <1>5, Added, ClausesKept DEF IInv
<1>13. TokenInv'
  BY <1>1, <1>4, <1>5, TokensKept DEF IInv
<1>14. LeastInv'
  <2>1. \A T \in SUBSET Fact : Given' \subseteq T /\ Stable(T) /\ have \subseteq T => new \subseteq T
    BY <1>3, <1>5 DEF Stable
  <2> QED BY <1>4, <2>1, LeastKept DEF IInv, selectVars
<1> QED BY <1>4, <1>5, <1>8, <1>9, <1>10, <1>11, <1>12, <1>13, <1>14

\* What DisjunctionClosure is told keeps its account of the clauses.
LEMMA Told ==
  ASSUME system \in Systems, UNCHANGED system, clauseSeen \in SUBSET Fact,
         active \in SUBSET Clauses,
         NEW facts, NEW rest \in SUBSET Clauses, TellClauses(facts, rest, finished'),
         \A i \in Clauses : system.clauses[i].trigger \subseteq clauseSeen => i \in active,
         \A i \in finished' : Satisfied(system.clauses[i])',
         active \ finished' \subseteq rest
  PROVE  /\ ClauseInv' /\ active' \in SUBSET Clauses /\ queue' \in SUBSET Clauses
         /\ clauseSeen' = clauseSeen \cup facts
<1> DEFINE new == facts \ clauseSeen
           told == {i \in Clauses : system.clauses[i].trigger \cap new # {}}
<1>1. /\ clauseSeen' = clauseSeen \cup facts /\ active' = active \cup told
      /\ queue' = rest \cup Woken(new, finished')
  BY DEF TellClauses
<1>2. told \ finished' \subseteq Woken(new, finished') /\ Woken(new, finished') \subseteq Clauses
  BY DEF Woken
<1>3. ASSUME NEW i \in Clauses, system.clauses[i].trigger \subseteq clauseSeen'
      PROVE  i \in active'
  <2>1. PICK f : system.clauses[i].trigger \in {{}, {f}}
    BY <1>3, SystemFacts
  <2> QED BY <1>1, <1>3, <2>1
<1>4. active' \ finished' \subseteq queue'
  BY <1>1, <1>2
<1> QED BY <1>1, <1>2, <1>3, <1>4 DEF ClauseInv, Clauses

LEMMA DeliverIInv ==
  ASSUME IInv, Deliver
  PROVE  IInv'
<1>1. /\ pc = "deliver" /\ pc' = "side" /\ UNCHANGED <<system, have, log, mark, finished, tokenVars, selectVars>>
      /\ read' = [read EXCEPT !["macro"] = log, !["clauses"] = log]
      /\ seen' = [seen EXCEPT !["macro"] = @ \cup Unread("macro")]
      /\ TellClauses(Unread("clauses"), queue, finished)
  BY DEF Deliver
<1>2. /\ TypeOK /\ read \in [Readers -> SUBSET log] /\ seen \in [Consumer -> SUBSET have]
      /\ have \in SUBSET Fact /\ log \in SUBSET have
  BY DEF IInv, TypeOK
<1>3. /\ Unread("macro") = InLanes(log \ read["macro"], Reads["macro"])
      /\ Unread("clauses") = InLanes(log \ read["clauses"], {"compile", "actual", "source"})
  BY ReaderFacts DEF Unread
<1>4. /\ read'["macro"] = log /\ read'["clauses"] = log /\ read'["mirror"] = read["mirror"]
      /\ seen'["macro"] = seen["macro"] \cup Unread("macro")
      /\ \A k \in Consumer \ {"macro"} : read'[k] = read[k] /\ seen'[k] = seen[k]
  <2>1. \A k \in Consumer : k # "clauses"
    BY DEF Consumer
  <2> QED BY <1>1, <1>2, <2>1, ReaderFacts
<1>5. /\ ClauseInv' /\ active' \in SUBSET Clauses /\ queue' \in SUBSET Clauses
      /\ clauseSeen' = clauseSeen \cup Unread("clauses")
  <2>1. /\ \A i \in Clauses : system.clauses[i].trigger \subseteq clauseSeen => i \in active
        /\ \A i \in finished' : Satisfied(system.clauses[i])'
        /\ active \ finished' \subseteq queue
    BY <1>1 DEF IInv, ClauseInv, Satisfied
  <2>2. /\ system \in Systems /\ clauseSeen \in SUBSET Fact /\ queue \in SUBSET Clauses
        /\ active \in SUBSET Clauses
    BY <1>2 DEF TypeOK
  <2>3. TellClauses(Unread("clauses"), queue, finished') /\ UNCHANGED system
    BY <1>1
  <2> QED BY <2>1, <2>2, <2>3, Told
<1>6. TypeOK'
  <2>1. seen' \in [Consumer -> SUBSET have']
    BY <1>1, <1>2, <1>3 DEF InLanes
  <2>2. read' \in [Readers -> SUBSET log']
    BY <1>1, <1>2
  <2>3. clauseSeen' \in SUBSET have'
    BY <1>1, <1>2, <1>3, <1>5 DEF InLanes, TypeOK
  <2>4. /\ active' \in SUBSET Clauses' /\ finished' \in SUBSET Clauses' /\ queue' \in SUBSET Clauses'
        /\ cursor' \in 1..(Len(system'.clauses) + 1) /\ selected' \in BOOLEAN
    BY <1>1, <1>2, <1>5 DEF TypeOK, Clauses, selectVars
  <2>5. /\ (tokenDeltas \cup tokenSeen)' \in SUBSET SourceFacts(have') /\ tokenStart' \in SUBSET log'
        /\ mark' \in SUBSET have' /\ late' \in SUBSET have' /\ chosen' \in SUBSET have'
    BY <1>1, <1>2 DEF TypeOK, tokenVars, selectVars
  <2> QED BY <1>1, <1>2, <2>1, <2>2, <2>3, <2>4, <2>5 DEF TypeOK, Consumer
<1>7. SeenInv'
  <2>1. ASSUME NEW k \in Consumer
        PROVE  InLanes(have', Reads[k]) \subseteq seen'[k] \cup Unread(k)'
    <3>1. CASE k = "macro"
      BY <1>1, <1>4, <3>1 DEF IInv, SeenInv
    <3>2. CASE k # "macro"
      BY <1>1, <1>4, <3>2 DEF IInv, SeenInv, Unread
    <3> QED BY <3>1, <3>2
  <2>2. have' \subseteq clauseSeen' \cup Unread("clauses")'
    BY <1>1, <1>5 DEF IInv, SeenInv
  <2>3. Mirrored(have') \subseteq have' \cup Mirrored(Unread("mirror")')
    BY <1>1, <1>4 DEF IInv, SeenInv, Unread, Mirrored
  <2> QED BY <2>1, <2>2, <2>3 DEF SeenInv, Mirrored
<1>8. SettledInv'
  <2>1. ASSUME NEW k \in Consumer \ {"macro"}
        PROVE  Settled(k)' \/ Unread(k)' # {}
    <3>1. Settled(k) \/ Unread(k) # {}
      BY DEF IInv, SettledInv
    <3> QED BY <1>1, <1>4, <3>1 DEF Settled, RulesOf, Unread
  <2> QED BY <1>1, <2>1 DEF SettledInv, MacroPending
<1>9. MarkInv' /\ SelectInv' /\ pc' # "error"
  <2>1. PastMark' = {}
    BY <1>1 DEF PastMark
  <2> QED BY <1>1, <2>1 DEF IInv, MarkInv, SelectInv, selectVars
<1>10. TokenInv'
  BY <1>1 DEF IInv, TokenInv, tokenVars
<1>11. LeastInv'
  BY <1>1 DEF IInv, LeastInv, Given, Stable, ClosedUnder, TokenClosed, Mirrored, selectVars
<1> QED BY <1>5, <1>6, <1>7, <1>8, <1>9, <1>10, <1>11 DEF IInv

\* update_source_side_effects, the source closure and the definitions.
LEMMA SourceRunsIInv ==
  ASSUME IInv, SideEffects \/ CloseSource \/ SourceDefinitions
  PROVE  IInv'
<1>1. PICK c \in {"side", "source", "definitions"}, next \in {"source", "definitions", "macro"} :
        Run(c, next) /\ UNCHANGED mark
  BY DEF SideEffects, CloseSource, SourceDefinitions
<1>2. c \in Consumer \ {"macro"} /\ pc' = next
  BY <1>1 DEF Consumer, Run
<1>3. MarkInv'
  BY <1>2 DEF MarkInv, PastMark
<1> QED BY <1>1, <1>2, <1>3, RunKeeps DEF IInv

LEMMA ReachCompileIInv ==
  ASSUME IInv, ReachCompile
  PROVE  IInv'
<1>1. /\ Run("compile", "actual") /\ mark' = log /\ pc = "compile" /\ pc' = "actual"
      /\ read' = [read EXCEPT !["compile"] = log]
  BY DEF ReachCompile, Run
<1>2. "compile" \in Consumer \ {"macro"} /\ ~MacroPending
  BY <1>1 DEF Consumer, MacroPending
<1>3. /\ TypeOK' /\ SeenInv' /\ SettledInv' /\ SelectInv' /\ ClauseInv' /\ TokenInv'
      /\ LeastInv' /\ pc' # "error" /\ \E new \in SUBSET Fact : AddFacts(new)
  BY <1>1, <1>2, RunKeeps
<1>4. MarkInv'
  <2>1. log \subseteq log'
    BY <1>3, Added DEF IInv
  <2>2. \A r \in InnerReaders : read'[r] = read[r] /\ Unread(r) = {}
    BY <1>1 DEF IInv, TypeOK, MarkInv, InnerReaders, Readers, Consumer
  <2>3. read'["compile"] = log
    BY <1>1, ReaderFacts DEF IInv, TypeOK
  <2>4. PastMark' = InnerReaders \cup {"compile"}
    BY <1>1 DEF PastMark
  <2>5. \A r \in PastMark' : InLanes(mark' \ read'[r], LanesOf(r)) = {}
    BY <1>1, <2>2, <2>3, <2>4 DEF Unread, InLanes
  <2> QED BY <1>1, <2>1, <2>5 DEF MarkInv, LanesOf
<1> QED BY <1>3, <1>4 DEF IInv

LEMMA ReachActualIInv ==
  ASSUME IInv, ReachActual
  PROVE  IInv'
<1>1. /\ Run("actual", "mirror") /\ mark' = mark /\ pc = "actual" /\ pc' = "mirror"
      /\ read' = [read EXCEPT !["actual"] = log]
  BY DEF ReachActual, Run
<1>2. "actual" \in Consumer \ {"macro"} /\ ~MacroPending
  BY <1>1 DEF Consumer, MacroPending
<1>3. /\ TypeOK' /\ SeenInv' /\ SettledInv' /\ SelectInv' /\ ClauseInv' /\ TokenInv'
      /\ LeastInv' /\ pc' # "error" /\ \E new \in SUBSET Fact : AddFacts(new)
  BY <1>1, <1>2, RunKeeps
<1>4. MarkInv'
  <2>1. log \subseteq log' /\ mark \subseteq log
    BY <1>1, <1>3, Added DEF IInv, MarkInv
  <2>2. \A r \in InnerReaders \cup {"compile"} :
          read'[r] = read[r] /\ InLanes(mark \ read[r], LanesOf(r)) = {}
    BY <1>1 DEF IInv, TypeOK, MarkInv, PastMark, InnerReaders, Readers, Consumer
  <2>3. read'["actual"] = log
    BY <1>1, ReaderFacts DEF IInv, TypeOK
  <2>4. PastMark' = InnerReaders \cup {"compile", "actual"}
    BY <1>1 DEF PastMark
  <2>5. \A r \in PastMark' : InLanes(mark' \ read'[r], LanesOf(r)) = {}
    BY <1>1, <2>1, <2>2, <2>3, <2>4 DEF InLanes
  <2> QED BY <1>1, <2>1, <2>5 DEF MarkInv, LanesOf
<1> QED BY <1>3, <1>4 DEF IInv

LEMMA CloseMacroIInv ==
  ASSUME IInv, CloseMacro
  PROVE  IInv'
<1> DEFINE known == seen["macro"]
           new   == Derived("macro", known)
<1>1. /\ TypeOK /\ system \in Systems /\ seen \in [Consumer -> SUBSET have]
      /\ read \in [Readers -> SUBSET log] /\ have \in SUBSET Fact /\ log \in SUBSET have
      /\ "macro" \in Consumer
  BY ReaderFacts DEF IInv, TypeOK
<1>2. /\ AddFacts(new) /\ pc = "macro" /\ pc' = "inner"
      /\ seen' = [seen EXCEPT !["macro"] = known \cup new]
      /\ UNCHANGED <<system, read, mark, tokenVars, clauseVars, selectVars>>
  BY DEF CloseMacro
<1>3. /\ new \in SUBSET Fact /\ known \in SUBSET have
      /\ \A T : known \subseteq T /\ ClosedUnder(system.rules, T) => new \subseteq T
  BY <1>1, DerivedFacts
<1>4. /\ seen'["macro"] = known \cup new
      /\ \A k \in Consumer \ {"macro"} : seen'[k] = seen[k]
  BY <1>1, <1>2
<1>5. Settled("macro")'
  BY <1>1, <1>2, <1>3, <1>4, NowSettled
<1> HIDE DEF new
<1>6. /\ have' \in SUBSET Fact /\ log' \in SUBSET have' /\ have \subseteq have'
      /\ log \subseteq log' /\ new \subseteq have'
  BY <1>1, <1>2, <1>3, Added
<1>7. TypeOK'
  <2>1. read' \in [Readers -> SUBSET log'] /\ seen' \in [Consumer -> SUBSET have']
    BY <1>1, <1>2, <1>3, <1>6
  <2>2. /\ mark' \in SUBSET have' /\ (tokenDeltas \cup tokenSeen)' \in SUBSET SourceFacts(have')
        /\ tokenStart' \in SUBSET log' /\ clauseSeen' \in SUBSET have'
        /\ late' \in SUBSET have' /\ chosen' \in SUBSET have'
    BY <1>1, <1>2, <1>6 DEF TypeOK, SourceFacts, InLanes, clauseVars, tokenVars, selectVars
  <2>3. /\ active' \in SUBSET Clauses' /\ finished' \in SUBSET Clauses' /\ queue' \in SUBSET Clauses'
        /\ cursor' \in 1..(Len(system'.clauses) + 1) /\ selected' \in BOOLEAN
    BY <1>1, <1>2 DEF TypeOK, Clauses, clauseVars, selectVars
  <2> QED BY <1>1, <1>2, <1>6, <2>1, <2>2, <2>3 DEF TypeOK
<1>8. SeenInv'
  <2>1. ASSUME NEW k \in Consumer
        PROVE  InLanes(have', Reads[k]) \subseteq seen'[k] \cup Unread(k)'
    <3>1. Unread(k) = InLanes(log \ read[k], Reads[k]) /\ Unread(k)' = InLanes(log' \ read[k], Reads[k])
      BY <1>2, ReaderFacts DEF Unread
    <3>2. seen[k] \subseteq seen'[k] /\ read'[k] \subseteq log
      BY <1>1, <1>2, <1>4, ReaderFacts
    <3>3. seen[k] \cup Unread(k) \subseteq seen'[k] \cup Unread(k)'
      BY <1>6, <3>1, <3>2 DEF InLanes
    <3>4. InLanes(have, Reads[k]) \subseteq seen[k] \cup Unread(k)
      BY DEF IInv, SeenInv
    <3> QED BY <1>1, <1>2, <1>3, <3>2, <3>3, <3>4, SeenKept
  <2>2. SeenInv /\ UNCHANGED clauseSeen
    BY <1>2 DEF IInv, clauseVars
  <2>3. /\ have' \subseteq clauseSeen' \cup Unread("clauses")'
        /\ Mirrored(have') \subseteq have' \cup Mirrored(Unread("mirror")')
    BY <1>1, <1>2, <1>3, <2>2, ToldKept, MirrorKept
  <2> QED BY <2>1, <2>3 DEF SeenInv, Mirrored
<1>9. SettledInv'
  <2>1. ASSUME NEW k \in Consumer, k # "macro"
        PROVE  Settled(k)' \/ Unread(k)' # {}
    <3>1. Settled(k) \/ Unread(k) # {}
      BY <2>1 DEF IInv, SettledInv
    <3> QED BY <1>1, <1>2, <1>3, <1>4, <2>1, <3>1, SettledKept
  <2> QED BY <1>5, <2>1 DEF SettledInv
<1>10. MarkInv' /\ SelectInv' /\ pc' # "error"
  BY <1>2 DEF IInv, MarkInv, PastMark, SelectInv, selectVars
<1>11. ClauseInv' /\ TokenInv'
  BY <1>1, <1>2, <1>3, <1>6, ClausesKept, TokensKept DEF IInv
<1>12. LeastInv'
  <2>1. \A T \in SUBSET Fact : Given' \subseteq T /\ Stable(T) /\ have \subseteq T => new \subseteq T
    BY <1>3 DEF Stable
  <2> QED BY <1>2, <2>1, LeastKept DEF IInv, selectVars
<1> QED BY <1>7, <1>8, <1>9, <1>10, <1>11, <1>12 DEF IInv

\* The mirror image of facts, of which none is a source or an actual fact.
LEMMA Mirroring ==
  ASSUME NEW S \in SUBSET Fact
  PROVE  Mirrored(S) \in SUBSET Fact /\ \A f \in Mirrored(S) : f[1] = "compile"
BY FactLanes DEF Mirrored, InLanes

LEMMA MirrorIInv ==
  ASSUME IInv, Mirror
  PROVE  IInv'
<1> DEFINE new == Mirrored(Unread("mirror"))
<1>1. /\ TypeOK /\ system \in Systems /\ seen \in [Consumer -> SUBSET have]
      /\ read \in [Readers -> SUBSET log] /\ have \in SUBSET Fact /\ log \in SUBSET have
      /\ ~MacroPending
  BY DEF IInv, TypeOK, Mirror, MacroPending
<1>2. /\ AddFacts(new) /\ pc = "mirror" /\ pc' = "test" /\ read' = [read EXCEPT !["mirror"] = log]
      /\ UNCHANGED <<system, seen, mark, tokenVars, clauseVars, selectVars>>
  BY DEF Mirror
<1>3. Unread("mirror") = InLanes(log \ read["mirror"], {"actual"})
  BY ReaderFacts DEF Unread
<1>4. new \in SUBSET Fact /\ (\A f \in new : f[1] = "compile") /\ new \subseteq Mirrored(have)
  <2>1. Unread("mirror") \in SUBSET have /\ Unread("mirror") \in SUBSET Fact
    BY <1>1, <1>3 DEF InLanes
  <2> QED BY <2>1, Mirroring DEF Mirrored, InLanes
<1>5. /\ read'["mirror"] = log /\ \A k \in Readers \ {"mirror"} : read'[k] = read[k]
      /\ "clauses" \in Readers \ {"mirror"} /\ Consumer \subseteq Readers \ {"mirror"}
  BY <1>1, <1>2, ReaderFacts DEF Consumer
<1>6. have' = have \cup new /\ log' = log \cup (new \ have)
  BY <1>2 DEF AddFacts
<1>7. SeenInv'
  <2>1. ASSUME NEW k \in Consumer
        PROVE  InLanes(have', Reads[k]) \subseteq seen'[k] \cup Unread(k)'
    <3>1. Unread(k) = InLanes(log \ read[k], Reads[k]) /\ Unread(k)' = InLanes(log' \ read[k], Reads[k])
      BY <1>5, ReaderFacts DEF Unread
    <3>2. read'[k] \subseteq log
      BY <1>1, <1>5, ReaderFacts
    <3>3. seen[k] \cup Unread(k) \subseteq seen'[k] \cup Unread(k)'
      BY <1>2, <1>6, <3>1, <3>2 DEF InLanes
    <3>4. InLanes(have, Reads[k]) \subseteq seen[k] \cup Unread(k)
      BY DEF IInv, SeenInv
    <3> QED BY <1>1, <1>2, <1>4, <3>2, <3>3, <3>4, SeenKept
  <2>2. have' \subseteq clauseSeen' \cup Unread("clauses")'
    <3>1. read'["clauses"] = read["clauses"] /\ UNCHANGED clauseSeen /\ SeenInv
      BY <1>2, <1>5 DEF clauseVars, IInv
    <3> QED BY <1>1, <1>2, <1>4, <3>1, ToldKept
  <2>3. Mirrored(have') \subseteq have'
    <3>1. Mirrored(have') = Mirrored(have)
      BY <1>4, <1>6 DEF Mirrored, InLanes
    <3> QED BY <1>6, <3>1 DEF IInv, SeenInv
  <2> QED BY <2>1, <2>2, <2>3 DEF SeenInv, Mirrored
<1>8. SettledInv'
  <2>1. ASSUME NEW k \in Consumer
        PROVE  Settled(k)' \/ Unread(k)' # {}
    <3>1. Settled(k) \/ Unread(k) # {}
      BY <1>1 DEF IInv, SettledInv
    <3> QED BY <1>1, <1>2, <1>4, <1>5, <3>1, SettledKept
  <2> QED BY <2>1 DEF SettledInv
<1> HIDE DEF new
<1>9. /\ have' \in SUBSET Fact /\ log' \in SUBSET have' /\ have \subseteq have' /\ log \subseteq log'
  BY <1>1, <1>2, <1>4, Added
<1>10. TypeOK'
  <2>1. read' \in [Readers -> SUBSET log'] /\ seen' \in [Consumer -> SUBSET have']
    BY <1>1, <1>2, <1>9
  <2>2. /\ mark' \in SUBSET have' /\ (tokenDeltas \cup tokenSeen)' \in SUBSET SourceFacts(have')
        /\ tokenStart' \in SUBSET log' /\ clauseSeen' \in SUBSET have'
        /\ late' \in SUBSET have' /\ chosen' \in SUBSET have'
    BY <1>1, <1>2, <1>9 DEF TypeOK, SourceFacts, InLanes, clauseVars, tokenVars, selectVars
  <2>3. /\ active' \in SUBSET Clauses' /\ finished' \in SUBSET Clauses' /\ queue' \in SUBSET Clauses'
        /\ cursor' \in 1..(Len(system'.clauses) + 1) /\ selected' \in BOOLEAN
    BY <1>1, <1>2 DEF TypeOK, Clauses, clauseVars, selectVars
  <2> QED BY <1>1, <1>2, <1>9, <2>1, <2>2, <2>3 DEF TypeOK
<1>11. MarkInv'
  <2>1. mark \subseteq log /\ \A r \in Readers \ {"mirror"} : InLanes(mark \ read[r], LanesOf(r)) = {}
    BY <1>2, ReaderFacts DEF IInv, MarkInv, PastMark
  <2>2. \A r \in Readers : InLanes(mark' \ read'[r], LanesOf(r)) = {}
    BY <1>2, <1>5, <2>1 DEF InLanes
  <2>3. mark' \subseteq log'
    BY <1>2, <1>9, <2>1
  <2>4. PastMark' = Readers
    BY <1>2 DEF PastMark
  <2> QED BY <1>2, <2>2, <2>3, <2>4 DEF MarkInv, LanesOf
<1>12. SelectInv' /\ pc' # "error"
  BY <1>2 DEF IInv, SelectInv, selectVars
<1>13. ClauseInv' /\ TokenInv'
  BY <1>1, <1>2, <1>4, <1>9, ClausesKept, TokensKept DEF IInv
<1>14. LeastInv'
  <2>1. \A T \in SUBSET Fact : Given' \subseteq T /\ Stable(T) /\ have \subseteq T => new \subseteq T
    BY <1>4 DEF Stable, Mirrored, InLanes
  <2> QED BY <1>2, <2>1, LeastKept DEF IInv, selectVars
<1> QED BY <1>7, <1>8, <1>10, <1>11, <1>12, <1>13, <1>14 DEF IInv

LEMMA OuterTestIInv ==
  ASSUME IInv, OuterTest
  PROVE  IInv'
<1>1. /\ pc = "test" /\ UNCHANGED <<system, have, seen, mark, tokenSeen, clauseVars, selectVars>>
      /\ ~MacroPending /\ system \in Systems
      /\ cursor = 1 /\ late = {} /\ ~selected /\ read \in [Readers -> SUBSET log]
  BY DEF IInv, TypeOK, OuterTest, MacroPending, SelectInv
<1>2. ClauseInv'
  BY <1>1, ClausesKept DEF IInv
<1>3. LeastInv'
  BY <1>1 DEF IInv, LeastInv, Given, Stable, ClosedUnder, TokenClosed, Mirrored, selectVars
<1>4. CASE pc' = "inner" /\ UNCHANGED <<log, read, tokenDeltas, tokenStart>>
  <2>1. TypeOK' /\ pc' # "error"
    BY <1>1, <1>4 DEF IInv, TypeOK, Clauses, clauseVars, selectVars
  <2>2. SeenInv'
    BY <1>1, <1>4 DEF IInv, SeenInv, Unread, clauseVars
  <2>3. SettledInv'
    BY <1>1, <1>4 DEF IInv, SettledInv, Settled, RulesOf, Unread
  <2>4. MarkInv' /\ SelectInv' /\ TokenInv'
    BY <1>1, <1>4 DEF IInv, MarkInv, PastMark, SelectInv, TokenInv, selectVars
  <2> QED BY <1>2, <1>3, <2>1, <2>2, <2>3, <2>4 DEF IInv
<1>5. CASE /\ log = mark /\ pc' = "select" /\ tokenDeltas' = tokenDeltas \cup Noted
           /\ tokenStart' = {} /\ log' = {} /\ read' = Cursors
  <2>1. \A r \in Readers : Unread(r) = {} /\ Unread(r)' = {}
    <3>1. PastMark = Readers
      BY <1>1 DEF PastMark
    <3>2. \A r \in Readers : Unread(r) = {}
      BY <1>5, <3>1 DEF IInv, MarkInv, Unread
    <3>3. \A r : Unread(r)' = {}
      BY <1>5 DEF Unread, InLanes
    <3> QED BY <3>2, <3>3
  <2>2. SeenInv'
    BY <1>1, <2>1, ReaderFacts DEF IInv, SeenInv, clauseVars, Mirrored, InLanes
  <2>3. SettledInv'
    BY <1>1, <2>1, ReaderFacts DEF IInv, SettledInv, Settled, RulesOf
  <2>4. TypeOK' /\ pc' # "error"
    <3>1. read' \in [Readers -> SUBSET log']
      BY <1>5 DEF Cursors
    <3>2. (tokenDeltas \cup tokenSeen)' \in SUBSET SourceFacts(have')
      BY <1>1, <1>5 DEF IInv, TypeOK, Noted, SourceFacts, InLanes
    <3>3. /\ active' \in SUBSET Clauses' /\ finished' \in SUBSET Clauses' /\ queue' \in SUBSET Clauses'
          /\ cursor' \in 1..(Len(system'.clauses) + 1) /\ selected' \in BOOLEAN
      BY <1>1 DEF IInv, TypeOK, Clauses, clauseVars, selectVars
    <3> QED BY <1>1, <1>5, <3>1, <3>2, <3>3 DEF IInv, TypeOK, clauseVars, selectVars
  <2>5. MarkInv' /\ SelectInv'
    <3>1. \A i \in queue : i >= 1
      BY DEF IInv, TypeOK, Clauses
    <3> QED BY <1>1, <1>5, <3>1 DEF MarkInv, PastMark, SelectInv, clauseVars, selectVars
  <2>6. TokenInv'
    BY <1>1, <1>5 DEF IInv, TokenInv, Noted, SourceFacts, InLanes
  <2> QED BY <1>2, <1>3, <2>2, <2>3, <2>4, <2>5, <2>6 DEF IInv
<1> QED BY <1>4, <1>5 DEF OuterTest, Grown

-----------------------------------------------------------------------------
(* DisjunctionClosure::select and the macro repetitions                    *)

LEMMA SelectClauseIInv ==
  ASSUME IInv, NEW i \in Clauses, SelectClause(i)
  PROVE  IInv'
<1> DEFINE c == system.clauses[i]
           new == {c.selected}
<1>1. /\ TypeOK /\ system \in Systems /\ ~MacroPending /\ pc = "select"
      /\ i \in queue /\ i >= cursor /\ (\A j \in queue : j >= cursor => i <= j)
      /\ cursor' = i + 1 /\ UNCHANGED <<system, read, seen, mark, tokenStart, tokenSeen>>
  BY DEF IInv, TypeOK, SelectClause, MacroPending
<1>2. /\ Len(system.clauses) \in Nat /\ c.selected \in c.choices /\ c.selected \in Fact
  BY <1>1, SystemFacts
<1>3. cursor' \in 1..(Len(system'.clauses) + 1)
  BY <1>1, <1>2 DEF Clauses
<1>4. ASSUME ~selected, queue' = queue \ {i}
      PROVE  \A j \in queue' : j >= cursor'
  <2>1. \A j \in queue : j >= cursor /\ j \in Nat
    BY <1>1, <1>2, <1>4 DEF IInv, SelectInv, TypeOK, Clauses
  <2> QED BY <1>1, <1>4, <2>1 DEF Clauses
<1>5. ASSUME pc' = "select"
      PROVE  MarkInv'
  BY <1>5 DEF MarkInv, PastMark
\* The clause is left alone, or found to be satisfied.
<1>6. ASSUME queue' = queue \ {i}, finished' \in {finished, finished \cup {i}},
             i \in finished' \/ i \notin active, i \in finished' => i \in finished \/ Satisfied(c),
             UNCHANGED <<have, log, tokenDeltas, clauseSeen, active, selected, late, chosen, pc>>
      PROVE  IInv'
  <2>1. TypeOK' /\ pc' # "error"
    BY <1>1, <1>3, <1>6 DEF IInv, TypeOK, Clauses
  <2>2. SeenInv' /\ SettledInv'
    <3>1. AddFacts({}) /\ SeenInv /\ SettledInv
      BY <1>6 DEF AddFacts, IInv
    <3> QED BY <1>1, <1>6, <3>1, Appended
  <2>3. MarkInv' /\ SelectInv'
    BY <1>1, <1>4, <1>5, <1>6 DEF IInv, SelectInv
  <2>4. ClauseInv'
    BY <1>1, <1>6 DEF IInv, ClauseInv, Satisfied, Clauses
  <2>5. TokenInv'
    BY <1>1, <1>6 DEF IInv, TokenInv
  <2>6. LeastInv'
    BY <1>1, <1>6 DEF IInv, LeastInv, Given, Stable, ClosedUnder, TokenClosed, Mirrored
  <2> QED BY <2>1, <2>2, <2>3, <2>4, <2>5, <2>6 DEF IInv
\* Its best ranked choice is selected.
<1>7. ASSUME ~Satisfied(c), AddFacts(new), finished' = finished \cup {i},
             tokenDeltas' = tokenDeltas \cup SourceFacts(new), chosen' = chosen \cup new,
             selected' = TRUE, UNCHANGED pc,
             \/ /\ late' = late \cup new /\ queue' = queue \ {i}
                /\ UNCHANGED <<clauseSeen, active>>
             \/ /\ TellClauses(new, queue \ {i}, finished')
                /\ UNCHANGED late
      PROVE  IInv'
  <2>1. /\ new \in SUBSET Fact /\ have' \in SUBSET Fact /\ log' \in SUBSET have'
        /\ have \subseteq have' /\ log \subseteq log' /\ new \subseteq have'
        /\ log' \subseteq log \cup new
    BY <1>1, <1>2, <1>7, Added
  <2>2. /\ ClauseInv' /\ active' \in SUBSET Clauses /\ queue' \in SUBSET Clauses
        /\ clauseSeen' \in {clauseSeen, clauseSeen \cup new}
    <3>1. \A k \in finished' : Satisfied(system.clauses[k])'
      BY <1>1, <1>2, <1>7, <2>1 DEF IInv, ClauseInv, Satisfied
    <3>2. active \ finished' \subseteq queue \ {i}
      BY <1>7 DEF IInv, ClauseInv
    <3>3. \A k \in Clauses : system.clauses[k].trigger \subseteq clauseSeen => k \in active
      BY DEF IInv, ClauseInv
    <3>4. CASE queue' = queue \ {i} /\ UNCHANGED <<clauseSeen, active>>
      BY <1>1, <3>1, <3>2, <3>3, <3>4 DEF ClauseInv, TypeOK, Clauses
    <3>5. CASE TellClauses(new, queue \ {i}, finished')
      <4>1. clauseSeen \in SUBSET Fact /\ queue \ {i} \in SUBSET Clauses /\ active \in SUBSET Clauses
        BY <1>1 DEF TypeOK
      <4> QED BY <1>1, <3>1, <3>2, <3>3, <3>5, <4>1, Told
    <3> QED BY <1>7, <3>4, <3>5
  <2>3. TypeOK'
    <3>1. read' \in [Readers -> SUBSET log'] /\ seen' \in [Consumer -> SUBSET have']
      BY <1>1, <2>1 DEF TypeOK
    <3>2. /\ mark' \in SUBSET have' /\ (tokenDeltas \cup tokenSeen)' \in SUBSET SourceFacts(have')
          /\ tokenStart' \in SUBSET log' /\ clauseSeen' \in SUBSET have'
          /\ late' \in SUBSET have' /\ chosen' \in SUBSET have'
      BY <1>1, <1>7, <2>1, <2>2 DEF TypeOK, SourceFacts, InLanes
    <3>3. /\ active' \in SUBSET Clauses' /\ finished' \in SUBSET Clauses' /\ queue' \in SUBSET Clauses'
          /\ selected' \in BOOLEAN
      BY <1>1, <1>7, <2>2 DEF TypeOK, Clauses
    <3> QED BY <1>1, <1>3, <1>7, <2>1, <3>1, <3>2, <3>3 DEF TypeOK
  <2>4. SeenInv' /\ SettledInv'
    <3>1. clauseSeen \subseteq clauseSeen' /\ SeenInv /\ SettledInv
      BY <2>2 DEF IInv
    <3> QED BY <1>1, <1>7, <2>1, <3>1, Appended
  <2>5. MarkInv' /\ SelectInv' /\ pc' # "error"
    BY <1>1, <1>5, <1>7 DEF SelectInv
  <2>6. TokenInv'
    <3>1. SourceFacts(have') \subseteq tokenSeen' \cup tokenDeltas' \cup (SourceFacts(log') \ tokenStart')
      BY <1>1, <1>7, <2>1 DEF IInv, TokenInv, AddFacts, SourceFacts, InLanes
    <3>2. SourceFacts(log') \subseteq tokenSeen' \cup tokenDeltas'
      BY <1>1, <1>7, <2>1 DEF IInv, TokenInv, SourceFacts, InLanes
    <3> QED BY <1>1, <1>7, <2>1, <3>1, <3>2 DEF IInv, TokenInv
  <2>7. LeastInv'
    <3>1. \A T \in SUBSET Fact : Given' \subseteq T /\ Stable(T) /\ have \subseteq T => new \subseteq T
      BY <1>7 DEF Given
    <3> QED BY <1>1, <1>7, <3>1, LeastKept DEF IInv
  <2> QED BY <2>2, <2>3, <2>4, <2>5, <2>6, <2>7 DEF IInv
<1>8. c.selected \in have => Satisfied(c)
  BY <1>2 DEF Satisfied
<1> HIDE DEF new
<1>9. CASE i \in finished \/ i \notin active
  BY <1>6, <1>9 DEF SelectClause
<1>10. CASE ~(i \in finished \/ i \notin active) /\ Satisfied(c)
  BY <1>6, <1>10 DEF SelectClause
<1>11. CASE ~(i \in finished \/ i \notin active) /\ ~Satisfied(c)
  BY <1>7, <1>8, <1>11 DEF SelectClause, new
<1> QED BY <1>9, <1>10, <1>11

LEMMA SelectEndsIInv ==
  ASSUME IInv, SelectEnds
  PROVE  IInv'
<1> DEFINE new == Mirrored(late)
           told == late \cup new
<1>1. /\ TypeOK /\ system \in Systems /\ ~MacroPending /\ pc = "select"
      /\ late \in SUBSET have /\ have \in SUBSET Fact /\ log \in SUBSET have
      /\ (\A i \in queue : ~(i >= cursor)) /\ AddFacts(new) /\ TellClauses(told, queue, finished)
      /\ late' = {} /\ cursor' = 1 /\ ~selected'
      /\ UNCHANGED <<system, read, seen, mark, tokenDeltas, tokenSeen, finished, chosen>>
  BY DEF IInv, TypeOK, SelectEnds, MacroPending
<1>2. /\ selected => pc' = "inner" /\ tokenStart' = SourceFacts(log)
      /\ ~selected => pc' = "tokens" /\ UNCHANGED tokenStart
  BY DEF SelectEnds
<1>3. new \in SUBSET Fact /\ (\A f \in new : f[1] = "compile") /\ new \subseteq Mirrored(have)
  <2>1. late \in SUBSET Fact
    BY <1>1
  <2> QED BY <1>1, <2>1, Mirroring DEF Mirrored, InLanes
<1> HIDE DEF new
<1>4. /\ have' \in SUBSET Fact /\ log' \in SUBSET have' /\ have \subseteq have' /\ log \subseteq log'
      /\ new \subseteq have' /\ have' \subseteq have \cup new /\ log' \subseteq log \cup new
  BY <1>1, <1>3, Added
<1>5. /\ ClauseInv' /\ active' \in SUBSET Clauses /\ queue' \in SUBSET Clauses
      /\ clauseSeen' = clauseSeen \cup told
  <2>1. /\ \A i \in Clauses : system.clauses[i].trigger \subseteq clauseSeen => i \in active
        /\ \A i \in finished' : Satisfied(system.clauses[i])'
        /\ active \ finished' \subseteq queue
    BY <1>1, <1>4 DEF IInv, ClauseInv, Satisfied
  <2>2. /\ clauseSeen \in SUBSET Fact /\ queue \in SUBSET Clauses /\ active \in SUBSET Clauses
        /\ TellClauses(told, queue, finished')
    BY <1>1 DEF TypeOK
  <2> QED BY <1>1, <2>1, <2>2, Told
<1>6. SourceFacts(have') = SourceFacts(have) /\ SourceFacts(log') = SourceFacts(log)
  BY <1>3, <1>4 DEF SourceFacts, InLanes
<1>7. TypeOK'
  <2>1. read' \in [Readers -> SUBSET log'] /\ seen' \in [Consumer -> SUBSET have']
    BY <1>1, <1>4 DEF TypeOK
  <2>2. tokenStart' \in SUBSET log'
    BY <1>1, <1>2, <1>4 DEF TypeOK, SourceFacts, InLanes
  <2>3. /\ mark' \in SUBSET have' /\ (tokenDeltas \cup tokenSeen)' \in SUBSET SourceFacts(have')
        /\ clauseSeen' \in SUBSET have' /\ late' \in SUBSET have' /\ chosen' \in SUBSET have'
    BY <1>1, <1>4, <1>5, <1>6 DEF TypeOK
  <2>4. /\ active' \in SUBSET Clauses' /\ finished' \in SUBSET Clauses' /\ queue' \in SUBSET Clauses'
        /\ cursor' \in 1..(Len(system'.clauses) + 1) /\ selected' \in BOOLEAN
    <3>1. Len(system.clauses) \in Nat /\ selected' = FALSE
      BY <1>1, SystemFacts DEF SelectEnds, TypeOK
    <3>2. cursor' \in 1..(Len(system'.clauses) + 1)
      BY <1>1, <3>1
    <3>3. finished' \in SUBSET Clauses /\ Clauses' = Clauses
      BY <1>1 DEF TypeOK, Clauses
    <3> QED BY <1>5, <3>1, <3>2, <3>3
  <2> QED BY <1>1, <1>2, <1>4, <2>1, <2>2, <2>3, <2>4 DEF TypeOK
<1>8. SeenInv' /\ SettledInv'
  <2>1. clauseSeen \subseteq clauseSeen' /\ SeenInv /\ SettledInv
    BY <1>5 DEF IInv
  <2> QED BY <1>1, <1>3, <2>1, Appended
<1>9. MarkInv' /\ SelectInv' /\ pc' # "error"
  <2>1. MarkInv' /\ pc' # "error"
    BY <1>2 DEF MarkInv, PastMark
  <2>2. ~selected => late = {} /\ log = {} /\ queue = {}
    BY <1>1 DEF IInv, SelectInv
  <2>3. ~selected => log' = {} /\ queue' = {}
    <3>1. ~selected => new = {} /\ told = {}
      BY <2>2 DEF new, Mirrored, InLanes
    <3>2. log' = log \cup (new \ have) /\ queue' = queue \cup Woken(told \ clauseSeen, finished)
      BY <1>1 DEF AddFacts, TellClauses
    <3>3. Woken({}, finished) = {}
      BY DEF Woken
    <3> QED BY <2>2, <3>1, <3>2, <3>3
  <2> QED BY <1>1, <1>2, <2>1, <2>3 DEF SelectInv
<1>10. TokenInv'
  <2>1. SourceFacts(have) \subseteq tokenSeen \cup tokenDeltas
    BY <1>1 DEF IInv, TokenInv
  <2> QED BY <1>1, <1>2, <1>4, <1>6, <2>1 DEF IInv, TokenInv
<1>11. LeastInv'
  <2>1. \A T \in SUBSET Fact : Given' \subseteq T /\ Stable(T) /\ have \subseteq T => new \subseteq T
    BY <1>3 DEF Stable, Mirrored, InLanes
  <2> QED BY <1>1, <2>1, LeastKept DEF IInv
<1> QED BY <1>5, <1>7, <1>8, <1>9, <1>10, <1>11 DEF IInv

LEMMA CloseTokensIInv ==
  ASSUME IInv, CloseTokens
  PROVE  IInv'
<1> DEFINE known == tokenSeen \cup tokenDeltas
           forced == {<<"source", t[2]>> : t \in {q \in system.tokens : <<"source", q[1]>> \in known}}
                       \ have
<1>1. /\ TypeOK /\ system \in Systems /\ ~MacroPending /\ pc = "tokens"
      /\ log = {} /\ queue = {} /\ cursor = 1 /\ late = {} /\ ~selected
      /\ AddFacts(forced) /\ tokenSeen' = known /\ tokenDeltas' = forced
      /\ tokenStart' = SourceFacts(log')
      /\ pc' = IF forced # {} THEN "inner" ELSE "done"
      /\ UNCHANGED <<system, read, seen, mark, clauseVars, selectVars>>
  BY DEF IInv, TypeOK, SelectInv, CloseTokens, MacroPending
<1>2. /\ forced \in SUBSET Fact /\ (\A f \in forced : f[1] = "source") /\ forced \cap have = {}
      /\ \A t \in system.tokens : <<"source", t[1]>> \in known => <<"source", t[2]>> \in have \cup forced
  BY <1>1, SystemFacts
<1>3. known \subseteq SourceFacts(have)
  BY <1>1 DEF TypeOK
<1>4. \A T : TokenClosed(T) /\ known \subseteq T => forced \subseteq T
  BY DEF TokenClosed
<1> HIDE DEF forced, known
<1>5. have' = have \cup forced /\ log' = forced /\ SourceFacts(log') = forced
  BY <1>1, <1>2 DEF AddFacts, SourceFacts, InLanes
<1>6. TypeOK' /\ pc' # "error"
  <2>1. read' \in [Readers -> SUBSET log'] /\ seen' \in [Consumer -> SUBSET have']
    BY <1>1, <1>5 DEF TypeOK
  <2>2. (tokenDeltas \cup tokenSeen)' \in SUBSET SourceFacts(have')
    BY <1>1, <1>2, <1>3, <1>5 DEF SourceFacts, InLanes
  <2>3. /\ mark' \in SUBSET have' /\ tokenStart' \in SUBSET log'
        /\ clauseSeen' \in SUBSET have' /\ late' \in SUBSET have' /\ chosen' \in SUBSET have'
    BY <1>1, <1>5 DEF TypeOK, clauseVars, selectVars
  <2>4. /\ active' \in SUBSET Clauses' /\ finished' \in SUBSET Clauses' /\ queue' \in SUBSET Clauses'
        /\ cursor' \in 1..(Len(system'.clauses) + 1) /\ selected' \in BOOLEAN
    BY <1>1 DEF TypeOK, Clauses, clauseVars, selectVars
  <2>5. have' \in SUBSET Fact /\ log' \in SUBSET have' /\ pc' \in {"inner", "done"}
    BY <1>1, <1>2, <1>5 DEF TypeOK
  <2> QED BY <1>1, <2>1, <2>2, <2>3, <2>4, <2>5 DEF TypeOK
<1>7. SeenInv' /\ SettledInv'
  <2>1. UNCHANGED clauseSeen /\ SeenInv /\ SettledInv
    BY <1>1 DEF IInv, clauseVars
  <2> QED BY <1>1, <1>2, <2>1, Appended
<1>8. MarkInv' /\ SelectInv'
  BY <1>1, <1>5 DEF MarkInv, PastMark, SelectInv, clauseVars, selectVars
<1>9. ClauseInv'
  BY <1>1, <1>5, ClausesKept DEF IInv
<1>10. TokenInv'
  <2>1. SourceFacts(have) \subseteq known
    <3>1. SourceFacts(log) = {}
      BY <1>1 DEF SourceFacts, InLanes
    <3> QED BY <3>1 DEF IInv, TokenInv, known
  <2>2. SourceFacts(have') \subseteq known \cup forced
    BY <1>5, <2>1 DEF SourceFacts, InLanes
  <2> QED BY <1>1, <1>2, <1>5, <2>2 DEF TokenInv
<1>11. LeastInv'
  <2>1. \A T \in SUBSET Fact : Given' \subseteq T /\ Stable(T) /\ have \subseteq T => forced \subseteq T
    BY <1>3, <1>4 DEF Stable, SourceFacts, InLanes
  <2> QED BY <1>1, <2>1, LeastKept DEF IInv, selectVars
<1> QED BY <1>6, <1>7, <1>8, <1>9, <1>10, <1>11 DEF IInv

-----------------------------------------------------------------------------
LEMMA InitIInv ==
  ASSUME Init
  PROVE  IInv
<1>1. /\ system \in Systems /\ pc = "inner" /\ log = have
      /\ have = Lane("compile", system.roots) \cup Lane("actual", system.roots)
      /\ read = [r \in Readers |-> {}] /\ mark = {} /\ tokenStart = {} /\ tokenDeltas = {}
      /\ tokenSeen = {} /\ clauseSeen = have /\ finished = {} /\ cursor = 1 /\ selected = FALSE
      /\ late = {} /\ chosen = {}
      /\ active = {i \in Clauses : system.clauses[i].trigger \subseteq have}
      /\ queue = {i \in Clauses : \/ system.clauses[i].trigger \subseteq have
                                  \/ system.clauses[i].choices \cap have # {}}
      /\ seen = [c \in Consumer |->
           IF c \in {"macro", "compile", "actual"} THEN InLanes(have, Reads[c]) ELSE {}]
  BY DEF Init
<1>2. /\ Len(system.clauses) \in Nat /\ system.roots \in SUBSET Node
      /\ \A r \in system.rules : r.needs # {} /\ r.by \in Consumer
  BY <1>1, SystemFacts
<1>3. have \in SUBSET Fact
  BY <1>1, <1>2 DEF Lane, Fact
<1>4. \A k \in Consumer : seen[k] \in {{}, InLanes(have, Reads[k])} /\ Unread(k) = InLanes(have, Reads[k])
  BY <1>1, ReaderFacts DEF Unread
<1>5. TypeOK /\ pc # "error"
  <2>1. read \in [Readers -> SUBSET log] /\ seen \in [Consumer -> SUBSET have]
    BY <1>1 DEF InLanes
  <2>2. cursor \in 1..(Len(system.clauses) + 1)
    BY <1>1, <1>2
  <2> QED BY <1>1, <1>3, <2>1, <2>2 DEF TypeOK
<1>6. SeenInv
  <2>1. have \subseteq clauseSeen
    BY <1>1
  <2>2. Mirrored(have) \subseteq have
    BY <1>1 DEF Lane, Mirrored, InLanes
  <2> QED BY <1>4, <2>1, <2>2 DEF SeenInv
<1>7. SettledInv
  <2> SUFFICES ASSUME NEW k \in Consumer, Unread(k) = {}
               PROVE  Settled(k)
    BY DEF SettledInv
  <2>1. seen[k] = {}
    BY <1>4
  <2> QED BY <1>2, <2>1 DEF Settled, RulesOf
<1>8. MarkInv /\ SelectInv
  BY <1>1 DEF MarkInv, PastMark, SelectInv
<1>9. ClauseInv /\ TokenInv
  BY <1>1 DEF ClauseInv, TokenInv, SourceFacts
<1>10. LeastInv
  BY <1>1 DEF LeastInv, Given
<1> QED BY <1>5, <1>6, <1>7, <1>8, <1>9, <1>10 DEF IInv

LEMMA NextIInv ==
  ASSUME IInv, [Next]_vars
  PROVE  IInv'
<1>1. CASE InnerTest \/ Deliver \/ SideEffects \/ CloseSource \/ SourceDefinitions
  BY <1>1, InnerTestIInv, DeliverIInv, SourceRunsIInv
<1>2. CASE CloseMacro \/ ReachCompile \/ ReachActual \/ Mirror \/ OuterTest
  BY <1>2, CloseMacroIInv, ReachCompileIInv, ReachActualIInv, MirrorIInv, OuterTestIInv
<1>3. CASE \/ \E i \in Clauses : SelectClause(i)
           \/ SelectEnds \/ CloseTokens
  BY <1>3, SelectClauseIInv, SelectEndsIInv, CloseTokensIInv
<1>4. CASE UNCHANGED vars
  <2>1. TypeOK' /\ SeenInv' /\ pc' # "error"
    BY <1>4 DEF IInv, TypeOK, SeenInv, Unread, Clauses, vars, clauseVars, tokenVars, selectVars
  <2>2. SettledInv' /\ MarkInv' /\ SelectInv'
    BY <1>4 DEF IInv, SettledInv, Settled, RulesOf, Unread, MacroPending, MarkInv, PastMark,
         SelectInv, vars, clauseVars, tokenVars, selectVars
  <2>3. ClauseInv' /\ TokenInv' /\ LeastInv'
    BY <1>4 DEF IInv, ClauseInv, Clauses, Satisfied, TokenInv, LeastInv, Given, Stable, ClosedUnder,
         TokenClosed, Mirrored, vars, clauseVars, tokenVars, selectVars
  <2> QED BY <2>1, <2>2, <2>3 DEF IInv
<1> QED BY <1>1, <1>2, <1>3, <1>4 DEF Next

LEMMA Inductive == Spec => []IInv
<1>1. IInv /\ [Next]_vars => IInv'
  BY NextIInv
<1> QED BY <1>1, InitIInv, PTL DEF Spec

\* Nothing is read, and nothing is in a log, that is not a fact the computation
\* holds; nothing is in a clause list that the system does not have.
THEOREM TypeCorrect == Spec => []TypeOK
<1>1. IInv => TypeOK
  BY DEF IInv
<1> QED BY <1>1, Inductive, PTL

-----------------------------------------------------------------------------
\* When the logs are empty and no choice is being made, every closure knows
\* every fact of its lanes and its rules are closed.
LEMMA AtFixpoint ==
  ASSUME IInv, log = {}, pc \in {"select", "done"}
  PROVE  /\ \A c \in Consumer : InLanes(have, Reads[c]) \subseteq seen[c]
         /\ have = clauseSeen /\ ClosedUnder(system.rules, have) /\ Mirrored(have) \subseteq have
<1>1. \A r : Unread(r) = {}
  BY DEF Unread, InLanes
<1>2. /\ \A c \in Consumer : InLanes(have, Reads[c]) \subseteq seen[c]
      /\ have = clauseSeen /\ Mirrored(have) \subseteq have
  BY <1>1 DEF IInv, SeenInv, TypeOK, Mirrored, InLanes
<1>3. ASSUME NEW r \in system.rules, r.needs \subseteq have
      PROVE  r.gives \in have
  <2>1. r.by \in Consumer /\ \A f \in r.needs : f[1] \in Reads[r.by]
    BY SystemFacts DEF IInv, TypeOK
  <2>2. r.needs \subseteq seen[r.by]
    BY <1>2, <1>3, <2>1 DEF InLanes
  <2>3. Settled(r.by)
    BY <1>1, <2>1 DEF IInv, SettledInv, MacroPending
  <2> QED BY <1>3, <2>1, <2>2, <2>3 DEF Settled, RulesOf
<1> QED BY <1>2, <1>3 DEF ClosedUnder

\* compute_retention selects only when nothing else moves: no choice is made
\* that a closure would have made superfluous.
THEOREM SelectionWaits == Spec => []SelectsAtFixpoint
<1>1. IInv => SelectsAtFixpoint
  <2> SUFFICES ASSUME IInv, pc = "select", ~selected
               PROVE  /\ \A c \in Consumer : InLanes(have, Reads[c]) \subseteq seen[c]
                      /\ have = clauseSeen /\ ClosedUnder(system.rules, have)
    BY DEF SelectsAtFixpoint
  <2>1. log = {}
    BY DEF IInv, SelectInv
  <2> QED BY <2>1, AtFixpoint
<1> QED BY <1>1, Inductive, PTL

\* What compute_retention returns satisfies every rule, the mirror, every
\* disjunction and every macro repetition, and it never finds a disjunction
\* whose best choice is retained but does not satisfy it.
THEOREM RetentionIsComplete == Spec => []ResultComplete
<1>1. IInv => ResultComplete
  <2> SUFFICES ASSUME IInv, pc = "done"
               PROVE  /\ ClosedUnder(system.rules, have) /\ Mirrored(have) \subseteq have
                      /\ \A i \in Clauses :
                           system.clauses[i].trigger \subseteq have => Satisfied(system.clauses[i])
                      /\ \A t \in system.tokens :
                           <<"source", t[1]>> \in have => <<"source", t[2]>> \in have
    BY DEF ResultComplete, IInv
  <2>1. log = {} /\ queue = {}
    BY DEF IInv, SelectInv
  <2>2. /\ have = clauseSeen /\ ClosedUnder(system.rules, have) /\ Mirrored(have) \subseteq have
    BY <2>1, AtFixpoint
  <2>3. ASSUME NEW i \in Clauses, system.clauses[i].trigger \subseteq have
        PROVE  Satisfied(system.clauses[i])
    BY <2>1, <2>2, <2>3 DEF IInv, ClauseInv
  <2>4. ASSUME NEW t \in system.tokens, <<"source", t[1]>> \in have
        PROVE  <<"source", t[2]>> \in have
    <3>1. <<"source", t[1]>> \in SourceFacts(have)
      BY <2>4 DEF SourceFacts, InLanes
    <3>2. <<"source", t[1]>> \in tokenSeen
      BY <2>1, <3>1 DEF IInv, TokenInv, SourceFacts, InLanes
    <3> QED BY <3>2 DEF IInv, TokenInv
  <2> QED BY <2>2, <2>3, <2>4
<1> QED BY <1>1, Inductive, PTL

\* Nothing is retained that the roots, the selected choices and the rules do
\* not force: the result is the least one that holds them.
THEOREM RetentionIsLeast == Spec => []NothingSuperfluous
<1>1. IInv => NothingSuperfluous
  <2> SUFFICES ASSUME IInv, NEW S \in SUBSET (have \ Given), Stable(Given \cup S)
               PROVE  Given \cup S = have
    BY DEF NothingSuperfluous, Given, Stable, TokenClosed
  <2>1. Given \subseteq have
    BY DEF IInv, LeastInv
  <2>2. Given \cup S \in SUBSET Fact
    BY <2>1 DEF IInv, TypeOK
  <2> QED BY <2>1, <2>2 DEF IInv, LeastInv
<1> QED BY <1>1, Inductive, PTL

-----------------------------------------------------------------------------
(***************************************************************************)
(* The closure "source" among these, as source_closure.rs computes it: the *)
(* safety properties of SourceClosure and what it promises to the fixpoint *)
(* above, for every set of units and every family of constraint sets.      *)
(***************************************************************************)

\* The units whose visit has begun.
Visited == done \cup ({current} \ {NoUnit})

\* A call fails only on groups that are not a partition.
StatusInv ==
  (status = "error") <=> ~ValidGroups(constraints.groups)

\* Where a retained unit is: with the caller, in the queue, under visit, or done.
QueueInv ==
  /\ retained = accepted \cup undelivered
  /\ accepted \cap undelivered = {}
  /\ accepted = pending \cup Visited
  /\ done \cap pending = {}
  /\ current \notin done /\ current \notin pending
  /\ status = "closing" => undelivered = {}
  /\ status # "closing" => pending = {} /\ current = NoUnit
  /\ current = NoUnit => todo = {}
  /\ current # NoUnit => todo \subseteq ByJoint(constraints, current)

\* What a visit has retained, group and directed requirements.
ServedInv ==
  /\ \A g \in opened : g \subseteq retained
  /\ \A u \in Visited :
       /\ GroupOf(constraints, u) \subseteq retained
       /\ ByTrigger(constraints, u) \subseteq retained

\* A joint requirement with both triggers visited is met or still to be looked
\* at: whichever trigger is visited second finds the other one retained.
JointInv ==
  \A u \in Visited : \A p \in ByJoint(constraints, u) :
    p[1] \in Visited =>
      \/ p[2] \in retained
      \/ u = current /\ p \in todo
      \/ p[1] = current /\ <<u, p[2]>> \in todo

\* The inductive invariant.
SourceIInv ==
  /\ SourceTypeOK
  /\ StatusInv
  /\ QueueInv
  /\ ServedInv
  /\ JointInv
  /\ LeastRetention

-----------------------------------------------------------------------------
\* atomic_group_by_unit names the group that holds the unit.
LEMMA GroupOfMember ==
  ASSUME NEW c \in ConstraintSet, ValidGroups(c.groups), NEW u \in Unit
  PROVE  GroupOf(c, u) \in c.groups /\ u \in GroupOf(c, u)
<1>1. \E g \in c.groups : u \in g
  BY DEF ValidGroups
<1> QED BY <1>1 DEF GroupOf

\* by_joint_trigger files a joint requirement under both of its triggers.
LEMMA ByJointSymmetric ==
  ASSUME NEW c \in ConstraintSet, NEW u \in Unit, NEW p \in ByJoint(c, u)
  PROVE  p[1] \in Unit /\ p[2] \in Unit /\ <<u, p[2]>> \in ByJoint(c, p[1])
BY DEF ByJoint

\* A closed set that holds the triggers of a constraint holds what it requires.
LEMMA ClosedStep ==
  ASSUME NEW c \in ConstraintSet, ValidGroups(c.groups),
         NEW S \in SUBSET Unit, Closed(c, S), NEW u \in S
  PROVE  /\ GroupOf(c, u) \subseteq S
         /\ ByTrigger(c, u) \subseteq S
         /\ \A p \in ByJoint(c, u) : p[1] \in S => p[2] \in S
<1>1. GroupOf(c, u) \subseteq S
  BY GroupOfMember DEF Closed
<1>2. ByTrigger(c, u) \subseteq S
  BY DEF Closed, ByTrigger
<1>3. ASSUME NEW p \in ByJoint(c, u), p[1] \in S
      PROVE  p[2] \in S
  <2>1. CASE <<u, p[1], p[2]>> \in c.joint
    BY <1>3, <2>1 DEF Closed
  <2>2. CASE <<p[1], u, p[2]>> \in c.joint
    BY <1>3, <2>2 DEF Closed
  <2> QED BY <1>3, <2>1, <2>2 DEF ByJoint
<1> QED BY <1>1, <1>2, <1>3

-----------------------------------------------------------------------------
LEMMA SourceInitIInv == SourceInit => SourceIInv
<1> SUFFICES ASSUME SourceInit PROVE SourceIInv
  OBVIOUS
<1> USE DEF SourceInit
<1>1. SourceTypeOK
  BY DEF SourceTypeOK
<1>2. StatusInv
  BY DEF StatusInv
<1>3. QueueInv
  BY DEF QueueInv, Visited
<1>4. ServedInv /\ JointInv
  BY DEF ServedInv, JointInv, Visited
<1>5. LeastRetention
  BY DEF LeastRetention
<1> QED BY <1>1, <1>2, <1>3, <1>4, <1>5 DEF SourceIInv

\* The constraints, as typed by the assumption, and the groups of a live run.
LEMMA LiveConstraints ==
  ASSUME SourceIInv
  PROVE  /\ constraints \in ConstraintSet
         /\ status # "error" => ValidGroups(constraints.groups)
BY ConstraintAssumption DEF SourceIInv, SourceTypeOK, StatusInv

LEMMA RetainIInv ==
  ASSUME SourceIInv, NEW units \in SUBSET Unit, Retain(units)
  PROVE  SourceIInv'
<1> USE DEF Retain
<1>1. SourceTypeOK'
  BY DEF SourceIInv, SourceTypeOK
<1>2. StatusInv'
  BY DEF SourceIInv, StatusInv
<1>3. QueueInv'
  <2>1. Visited' = Visited
    BY DEF Visited
  <2> QED BY <2>1 DEF SourceIInv, QueueInv, ByJoint
<1>4. ServedInv'
  BY DEF SourceIInv, ServedInv, Visited, GroupOf, ByTrigger
<1>5. JointInv'
  BY DEF SourceIInv, JointInv, Visited, ByJoint
<1>6. LeastRetention'
  BY DEF SourceIInv, LeastRetention, Closed
<1> QED BY <1>1, <1>2, <1>3, <1>4, <1>5, <1>6 DEF SourceIInv

LEMMA AddAndCloseIInv ==
  ASSUME SourceIInv, AddAndClose
  PROVE  SourceIInv'
<1> USE DEF AddAndClose
<1>1. SourceTypeOK'
  BY DEF SourceIInv, SourceTypeOK
<1>2. StatusInv'
  BY DEF SourceIInv, StatusInv
<1>3. QueueInv'
  BY ConstraintAssumption DEF SourceIInv, SourceTypeOK, QueueInv, Visited, ByJoint
<1>4. ServedInv'
  BY DEF SourceIInv, ServedInv, Visited, GroupOf, ByTrigger
<1>5. JointInv'
  BY DEF SourceIInv, JointInv, Visited, ByJoint
<1>6. LeastRetention'
  BY DEF SourceIInv, LeastRetention, Closed
<1> QED BY <1>1, <1>2, <1>3, <1>4, <1>5, <1>6 DEF SourceIInv

LEMMA VisitIInv ==
  ASSUME SourceIInv, NEW u \in Unit, Visit(u)
  PROVE  SourceIInv'
<1> DEFINE group   == GroupOf(constraints, u)
           members == IF group \in opened THEN {} ELSE group
           added   == members \cup ByTrigger(constraints, u)
<1>1. /\ u \in retained /\ u \in pending /\ u \notin done /\ u # NoUnit
      /\ current = NoUnit /\ status = "closing" /\ undelivered = {}
      /\ retained = accepted
  BY ConstraintAssumption DEF Visit, SourceIInv, QueueInv
<1>2. /\ constraints \in ConstraintSet /\ ValidGroups(constraints.groups)
      /\ constraints' = constraints
  BY <1>1, LiveConstraints DEF Visit
<1>3. group \in constraints.groups /\ u \in group /\ group \subseteq Unit
  BY <1>2, GroupOfMember DEF ConstraintSet
<1>4. added \subseteq Unit
  BY <1>3 DEF ByTrigger
<1> HIDE DEF group
<1>5. /\ retained' = retained \cup added
      /\ accepted' = accepted \cup (added \ retained)
      /\ pending' = (pending \ {u}) \cup ((added \ retained) \ accepted)
      /\ opened' = opened \cup {group}
      /\ current' = u
      /\ todo' = ByJoint(constraints, u)
      /\ UNCHANGED <<constraints, undelivered, done, inputs, status>>
  BY <1>1 DEF Visit, RetainAndAdd, group
<1>6. Visited' = Visited \cup {u} /\ Visited = done
  BY <1>1, <1>5 DEF Visited
<1>7. SourceTypeOK'
  <2>1. ByJoint(constraints, u) \subseteq Unit \X Unit
    BY DEF ByJoint
  <2> QED BY <1>3, <1>4, <1>5, <2>1 DEF SourceIInv, SourceTypeOK
<1>8. StatusInv'
  BY <1>5 DEF SourceIInv, StatusInv
<1>9. QueueInv'
  <2> HIDE DEF added
  <2>1. QueueInv
    BY DEF SourceIInv
  <2>2. accepted' = pending' \cup Visited'
    BY <1>1, <1>5, <1>6, <2>1 DEF QueueInv
  <2> QED BY <1>1, <1>2, <1>5, <1>6, <2>1, <2>2 DEF QueueInv
<1>10. ServedInv'
  <2>1. group \subseteq retained'
    BY <1>5 DEF SourceIInv, ServedInv
  <2>2. ByTrigger(constraints, u) \subseteq retained'
    BY <1>5
  <2> HIDE DEF added
  <2>3. \A g \in opened' : g \subseteq retained'
    BY <1>5, <2>1 DEF SourceIInv, ServedInv
  <2>4. ASSUME NEW v \in Visited'
        PROVE  /\ GroupOf(constraints, v) \subseteq retained'
               /\ ByTrigger(constraints, v) \subseteq retained'
    <3>1. CASE v = u
      BY <2>1, <2>2, <3>1 DEF group
    <3>2. CASE v \in Visited
      BY <1>5, <3>2 DEF SourceIInv, ServedInv
    <3> QED BY <1>6, <3>1, <3>2
  <2> QED BY <1>2, <2>3, <2>4 DEF ServedInv
<1>11. JointInv'
  <2> HIDE DEF added
  <2> SUFFICES ASSUME NEW v \in Visited', NEW p \in ByJoint(constraints, v),
                      p[1] \in Visited'
               PROVE  \/ p[2] \in retained'
                      \/ v = u /\ p \in ByJoint(constraints, u)
                      \/ p[1] = u /\ <<v, p[2]>> \in ByJoint(constraints, u)
    BY <1>2, <1>5 DEF JointInv
  <2>0. v \in Unit
    BY <1>7 , ConstraintAssumption DEF SourceTypeOK, Visited
  <2>1. CASE v = u
    BY <2>1
  <2>2. CASE p[1] = u
    BY <1>2, <2>0, <2>2, ByJointSymmetric
  <2>3. CASE v \in Visited /\ p[1] \in Visited
    <3>1. todo = {}
      BY <1>1 DEF SourceIInv, QueueInv
    <3>2. p[2] \in retained
      BY <2>3, <3>1 DEF SourceIInv, JointInv
    <3> QED BY <1>5, <3>2
  <2> QED BY <1>6, <2>1, <2>2, <2>3
<1>12. LeastRetention'
  <2> SUFFICES ASSUME NEW S \in SUBSET Unit, inputs \subseteq S,
                      Closed(constraints, S)
               PROVE  added \subseteq S /\ retained \subseteq S
    BY <1>2, <1>5 DEF LeastRetention
  <2>1. retained \subseteq S
    BY <1>1 DEF SourceIInv, LeastRetention
  <2>2. group \subseteq S /\ ByTrigger(constraints, u) \subseteq S
    BY <1>1, <1>2, <2>1, ClosedStep DEF group
  <2> QED BY <2>1, <2>2
<1> QED BY <1>7, <1>8, <1>9, <1>10, <1>11, <1>12 DEF SourceIInv

LEMMA VisitJointIInv ==
  ASSUME SourceIInv, NEW pair \in Unit \X Unit, VisitJoint(pair)
  PROVE  SourceIInv'
<1> DEFINE added == IF pair[1] \in retained THEN {pair[2]} ELSE {}
<1>1. /\ status = "closing" /\ current # NoUnit /\ pair \in todo
      /\ undelivered = {} /\ retained = accepted /\ current \in retained
      /\ pair \in ByJoint(constraints, current)
  BY DEF VisitJoint, SourceIInv, QueueInv, Visited
<1>2. /\ constraints \in ConstraintSet /\ ValidGroups(constraints.groups)
      /\ constraints' = constraints
  BY <1>1, LiveConstraints DEF VisitJoint
<1>3. /\ retained' = retained \cup added
      /\ accepted' = accepted \cup (added \ retained)
      /\ pending' = pending \cup ((added \ retained) \ accepted)
      /\ todo' = todo \ {pair}
      /\ UNCHANGED <<constraints, undelivered, done, inputs, status, opened, current>>
  <2>1. CASE pair[1] \in retained
    BY <2>1 DEF VisitJoint, RetainAndAdd
  <2>2. CASE pair[1] \notin retained
    BY <2>2 DEF VisitJoint
  <2> QED BY <2>1, <2>2
<1>4. Visited' = Visited /\ added \subseteq Unit
  BY <1>3 DEF Visited
<1>5. SourceTypeOK'
  <2> HIDE DEF added
  <2> QED BY <1>3, <1>4 DEF SourceIInv, SourceTypeOK
<1>6. StatusInv'
  BY <1>3 DEF SourceIInv, StatusInv
<1>7. QueueInv'
  <2> HIDE DEF added
  <2> QED BY <1>1, <1>3, <1>4, <1>2 DEF SourceIInv, QueueInv, Visited
<1>8. ServedInv'
  <2> HIDE DEF added
  <2> QED BY <1>2, <1>3, <1>4 DEF SourceIInv, ServedInv
<1>9. JointInv'
  <2> SUFFICES ASSUME NEW v \in Visited, NEW p \in ByJoint(constraints, v),
                      p[1] \in Visited
               PROVE  \/ p[2] \in retained'
                      \/ v = current /\ p \in todo'
                      \/ p[1] = current /\ <<v, p[2]>> \in todo'
    BY <1>2, <1>3, <1>4 DEF JointInv
  <2>1. v \in retained /\ p[1] \in retained
    BY DEF SourceIInv, QueueInv
  <2>2. \/ p[2] \in retained
        \/ v = current /\ p \in todo
        \/ p[1] = current /\ <<v, p[2]>> \in todo
    BY DEF SourceIInv, JointInv
  <2>3. CASE p = pair \/ <<v, p[2]>> = pair
    BY <1>3, <2>1, <2>3
  <2>4. CASE p # pair /\ <<v, p[2]>> # pair
    BY <1>3, <2>2, <2>4
  <2> QED BY <2>3, <2>4
<1>10. LeastRetention'
  <2> SUFFICES ASSUME NEW S \in SUBSET Unit, inputs \subseteq S,
                      Closed(constraints, S)
               PROVE  added \subseteq S /\ retained \subseteq S
    BY <1>2, <1>3 DEF LeastRetention
  <2>1. retained \subseteq S
    BY <1>1 DEF SourceIInv, LeastRetention
  <2>2. current \in S
    BY <1>1, <2>1
  <2>3. pair[1] \in S => pair[2] \in S
    BY <1>1, <1>2, <2>2, ClosedStep
  <2> QED BY <2>1, <2>3
<1> QED BY <1>5, <1>6, <1>7, <1>8, <1>9, <1>10 DEF SourceIInv

LEMMA FinishVisitIInv ==
  ASSUME SourceIInv, FinishVisit
  PROVE  SourceIInv'
<1> USE DEF FinishVisit
<1>1. Visited' = Visited
  BY ConstraintAssumption DEF SourceIInv, SourceTypeOK, Visited
<1>2. SourceTypeOK'
  BY DEF SourceIInv, SourceTypeOK
<1>3. StatusInv'
  BY DEF SourceIInv, StatusInv
<1>4. QueueInv'
  <2>1. NoUnit \notin pending /\ NoUnit \notin done
    BY ConstraintAssumption DEF SourceIInv, SourceTypeOK
  <2> QED BY <1>1, <2>1 DEF SourceIInv, QueueInv
<1>5. ServedInv'
  BY <1>1 DEF SourceIInv, ServedInv, GroupOf, ByTrigger
<1>6. JointInv'
  BY <1>1 DEF SourceIInv, JointInv, ByJoint
<1>7. LeastRetention'
  BY DEF SourceIInv, LeastRetention, Closed
<1> QED BY <1>2, <1>3, <1>4, <1>5, <1>6, <1>7 DEF SourceIInv

LEMMA ReturnIInv ==
  ASSUME SourceIInv, Return
  PROVE  SourceIInv'
<1> USE DEF Return
<1>1. Visited' = Visited
  BY DEF Visited
<1>2. SourceTypeOK' /\ StatusInv'
  BY DEF SourceIInv, SourceTypeOK, StatusInv
<1>3. QueueInv'
  BY <1>1 DEF SourceIInv, QueueInv, ByJoint
<1>4. ServedInv'
  BY <1>1 DEF SourceIInv, ServedInv, GroupOf, ByTrigger
<1>5. JointInv'
  BY <1>1 DEF SourceIInv, JointInv, ByJoint
<1>6. LeastRetention'
  BY DEF SourceIInv, LeastRetention, Closed
<1> QED BY <1>2, <1>3, <1>4, <1>5, <1>6 DEF SourceIInv

LEMMA StutterIInv ==
  ASSUME SourceIInv, UNCHANGED source_vars
  PROVE  SourceIInv'
BY DEF SourceIInv, source_vars, SourceTypeOK, StatusInv, QueueInv, ServedInv, JointInv,
       LeastRetention, Visited, GroupOf, ByTrigger, ByJoint, Closed

\* Every step of the caller and of close preserves the inductive invariant.
LEMMA SourceNextIInv == SourceIInv /\ [SourceNext]_source_vars => SourceIInv'
<1> SUFFICES ASSUME SourceIInv, [SourceNext]_source_vars PROVE SourceIInv'
  OBVIOUS
<1>1. CASE \E units \in SUBSET Unit : Retain(units)
  BY <1>1, RetainIInv
<1>2. CASE AddAndClose
  BY <1>2, AddAndCloseIInv
<1>3. CASE \E u \in Unit : Visit(u)
  BY <1>3, VisitIInv
<1>4. CASE \E p \in Unit \X Unit : VisitJoint(p)
  BY <1>4, VisitJointIInv
<1>5. CASE FinishVisit
  BY <1>5, FinishVisitIInv
<1>6. CASE Return
  BY <1>6, ReturnIInv
<1>7. CASE UNCHANGED source_vars
  BY <1>7, StutterIInv
<1> QED BY <1>1, <1>2, <1>3, <1>4, <1>5, <1>6, <1>7 DEF SourceNext, Close

LEMMA SourceInductive == SourceSpec => []SourceIInv
BY SourceInitIInv, SourceNextIInv, PTL DEF SourceSpec

-----------------------------------------------------------------------------
\* The state of the closure has its types in every run of add and close.
THEOREM SourceTypeCorrect == SourceSpec => []SourceTypeOK
<1>1. SourceIInv => SourceTypeOK
  BY DEF SourceIInv
<1> QED BY <1>1, SourceInductive, PTL

\* At rest the inductive invariant makes every retained unit a visited one, and
\* then every constraint of source_closure.rs is met.
LEMMA IInvClosed == SourceIInv => ClosedWhenIdle
<1> SUFFICES ASSUME SourceIInv, status = "idle", undelivered = {}
             PROVE  Closed(constraints, retained)
  BY DEF ClosedWhenIdle
<1> DEFINE c == constraints
<1>1. retained = Visited /\ retained \subseteq Unit /\ todo = {}
  BY DEF SourceIInv, QueueInv, SourceTypeOK
<1>2. c \in ConstraintSet /\ ValidGroups(c.groups)
  BY LiveConstraints
<1>3. ASSUME NEW g \in c.groups, NEW u \in g \cap retained
      PROVE  g \subseteq retained
  <2>1. GroupOf(c, u) = g
    BY <1>1, <1>2, GroupOfMember DEF ValidGroups
  <2> QED BY <1>1, <2>1 DEF SourceIInv, ServedInv
<1>4. ASSUME NEW r \in c.requirements, r[1] \in retained
      PROVE  r[2] \in retained
  <2>1. r \in Unit \X Unit
    BY <1>2 DEF ConstraintSet
  <2>2. r[2] \in ByTrigger(c, r[1])
    BY <2>1 DEF ByTrigger
  <2> QED BY <1>1, <1>4, <2>2 DEF SourceIInv, ServedInv
<1>5. ASSUME NEW j \in c.joint, j[1] \in retained, j[2] \in retained
      PROVE  j[3] \in retained
  <2>1. j \in Unit \X Unit \X Unit
    BY <1>2 DEF ConstraintSet
  <2>2. <<j[2], j[3]>> \in ByJoint(c, j[1])
    BY <2>1 DEF ByJoint
  <2> QED BY <1>1, <1>5, <2>2 DEF SourceIInv, JointInv
<1> QED BY <1>3, <1>4, <1>5 DEF Closed

\* Whatever the caller retains and however its calls are spread, close leaves
\* no atomic group torn and no requirement unmet.
THEOREM ClosureComplete == SourceSpec => []ClosedWhenIdle
BY SourceInductive, IInvClosed, PTL

\* close retains nothing that the constraints do not force.
THEOREM ClosureLeast == SourceSpec => []LeastRetention
<1>1. SourceIInv => LeastRetention
  BY DEF SourceIInv
<1> QED BY <1>1, SourceInductive, PTL

\* The InvalidConstraint exit of close is unreachable on a valid index.
THEOREM NeverFails == SourceSpec => []NeverUnretained
<1>1. SourceIInv => NeverUnretained
  BY DEF SourceIInv, StatusInv, NeverUnretained
<1> QED BY <1>1, SourceInductive, PTL

\* No unit is visited twice, in one call or in several.
THEOREM VisitsOnce == SourceSpec => []VisitedOnce
<1>1. SourceIInv => VisitedOnce
  BY DEF SourceIInv, QueueInv, VisitedOnce
<1> QED BY <1>1, SourceInductive, PTL

-----------------------------------------------------------------------------
\* The refinement.  What the constraints force on the caller's units is what
\* the least-closure invariant speaks of.
ForcedInv == status # "error" => retained \subseteq Promise!Forced(constraints, inputs)

LEMMA RetainedForced == SourceIInv => ForcedInv
<1> SUFFICES ASSUME SourceIInv, status # "error"
             PROVE  retained \subseteq Promise!Forced(constraints, inputs)
  BY DEF ForcedInv
<1>1. \A T \in SUBSET Unit : Closed(constraints, T) <=> Promise!Closed(constraints, T)
  BY DEF Closed, Promise!Closed
<1>2. retained \subseteq Unit
  BY DEF SourceIInv, SourceTypeOK
<1> QED BY <1>1, <1>2 DEF SourceIInv, LeastRetention, Promise!Forced

LEMMA PromiseInit == SourceInit => Promise!Init
BY ConstraintAssumption DEF SourceInit, Promise!Init, ValidGroups, Promise!ValidGroups

\* Retain is Ask.
LEMMA RetainAsks ==
  ASSUME SourceIInv, NEW units \in SUBSET Unit, Retain(units)
  PROVE  Promise!Ask(units)
<1>1. status = "idle" /\ status' = "idle"
  BY DEF Retain
<1>2. units \subseteq retained => undelivered' = undelivered
  BY DEF Retain
<1>3. ~(units \subseteq retained) => undelivered' # {}
  BY DEF Retain
<1> QED BY <1>1, <1>2, <1>3 DEF Retain, Promise!Ask

\* A visit, or a step of one, grows the set; on the whole of a call the mode
\* does not change.
LEMMA ClosingGrows ==
  ASSUME ForcedInv', status = "closing", status' = "closing",
         retained \subseteq retained',
         UNCHANGED <<constraints, inputs>>
  PROVE  Promise!Grow(retained')
<1>1. retained' \subseteq Promise!Forced(constraints, inputs)
  BY DEF ForcedInv, Promise!Forced, Promise!Closed
<1> QED BY <1>1 DEF Promise!Grow

\* A call that returns leaves a closed set behind.
LEMMA ReturnSettles ==
  ASSUME SourceIInv, ClosedWhenIdle', Return
  PROVE  Promise!Settle
<1>1. status = "closing" /\ status' = "idle" /\ undelivered' = {}
      /\ UNCHANGED <<constraints, inputs, retained>>
  BY DEF Return, SourceIInv, QueueInv
<1>2. Closed(constraints, retained)
  BY <1>1 DEF ClosedWhenIdle, Closed
<1> QED BY <1>1, <1>2 DEF Promise!Settle, Closed, Promise!Closed

LEMMA PromiseStep ==
  SourceIInv /\ SourceIInv' /\ ForcedInv' /\ ClosedWhenIdle' /\ [SourceNext]_source_vars
    => [Promise!Next]_(Promise!closure_vars)
<1> SUFFICES ASSUME SourceIInv, SourceIInv', ForcedInv', ClosedWhenIdle', [SourceNext]_source_vars
             PROVE  Promise!Next \/ UNCHANGED Promise!closure_vars
  OBVIOUS
<1> USE DEF Promise!Next, Promise!closure_vars
<1>1. ASSUME NEW units \in SUBSET Unit, Retain(units)
      PROVE  Promise!Next
  BY <1>1, RetainAsks
<1>2. CASE AddAndClose
  <2>1. UNCHANGED <<constraints, inputs, retained>>
    BY <1>2 DEF AddAndClose
  <2>2. status = "idle" /\ undelivered # {} /\ status' = "closing"
    BY <1>2 DEF AddAndClose
  <2> QED BY <2>1, <2>2
<1>3. ASSUME NEW u \in Unit, Visit(u)
      PROVE  Promise!Next
  <2>1. u \in retained
    BY <1>3 DEF Visit, SourceIInv, QueueInv
  <2>2. /\ status = "closing" /\ status' = "closing" /\ retained \subseteq retained'
        /\ UNCHANGED <<constraints, inputs>>
    BY <1>3, <2>1 DEF Visit, RetainAndAdd
  <2>3. retained' \in SUBSET Unit
    BY DEF SourceIInv, SourceTypeOK
  <2> QED BY <2>2, <2>3, ClosingGrows
<1>4. ASSUME NEW p \in Unit \X Unit, VisitJoint(p)
      PROVE  Promise!Next
  <2>1. /\ status = "closing" /\ status' = "closing" /\ retained \subseteq retained'
        /\ UNCHANGED <<constraints, inputs>>
    BY <1>4 DEF VisitJoint, RetainAndAdd
  <2>2. retained' \in SUBSET Unit
    BY DEF SourceIInv, SourceTypeOK
  <2> QED BY <2>1, <2>2, ClosingGrows
<1>5. CASE FinishVisit
  BY <1>5 DEF FinishVisit
<1>6. CASE Return
  BY <1>6, ReturnSettles
<1>7. CASE UNCHANGED source_vars
  BY <1>7 DEF source_vars
<1> QED BY <1>1, <1>2, <1>3, <1>4, <1>5, <1>6, <1>7 DEF SourceNext, Close

\* The delta-driven closure of source_closure.rs does what its caller relies on,
\* with any constraints and in any order of calls, visits and requirements.
THEOREM ClosureImplements == SourceSpec => ImplementsLeastClosure
<1>1. SourceInit /\ [][SourceNext]_source_vars /\ []SourceIInv
        => Promise!Init /\ [][Promise!Next]_(Promise!closure_vars)
  BY PromiseInit, PromiseStep, RetainedForced, IInvClosed, PTL
<1> QED BY <1>1, SourceInductive, PTL DEF SourceSpec, ImplementsLeastClosure, Promise!Spec
-----------------------------------------------------------------------------
(***************************************************************************)
(* The promise by itself, of a closure that need not be SourceClosure:     *)
(* what was asked for and what is kept are variables of their own.         *)
(***************************************************************************)

VARIABLES asked, kept, mode

Least == INSTANCE LeastClosure

Between ==
  /\ kept \in SUBSET Unit
  /\ asked \subseteq kept
  /\ mode # "refused" => kept \subseteq Least!Forced(constraints, asked)
  /\ mode = "settled" => Least!Closed(constraints, kept)

\* A larger request forces no less, and forces itself.
LEMMA ForcedMonotone ==
  ASSUME NEW c, NEW S, NEW units \in SUBSET Unit
  PROVE  /\ Least!Forced(c, S) \subseteq Least!Forced(c, S \cup units)
         /\ units \subseteq Least!Forced(c, S \cup units)
BY DEF Least!Forced

LEMMA BetweenInvariant == Least!Spec => []Between
<1>1. Least!Init => Between
  BY DEF Least!Init, Between, Least!Forced, Least!Closed
<1>2. Between /\ [Least!Next]_(Least!closure_vars) => Between'
  <2> SUFFICES ASSUME Between, [Least!Next]_(Least!closure_vars) PROVE Between'
    OBVIOUS
  <2>1. ASSUME NEW units \in SUBSET Unit, Least!Ask(units) PROVE Between'
    <3>1. kept' \in SUBSET Unit /\ asked' \subseteq kept'
      BY <2>1 DEF Least!Ask, Between
    <3>2. kept' \subseteq Least!Forced(constraints', asked')
      BY <2>1, ForcedMonotone DEF Least!Ask, Between
    <3>3. mode' = "settled" => mode = "settled" /\ kept' = kept
      BY <2>1 DEF Least!Ask
    <3>4. mode' = "settled" => Least!Closed(constraints, kept)'
      BY <2>1, <3>3 DEF Least!Ask, Between, Least!Closed
    <3> QED BY <3>1, <3>2, <3>4 DEF Between, Least!Forced, Least!Closed
  <2>2. ASSUME NEW units \in SUBSET Unit, Least!Grow(units) PROVE Between'
    BY <2>2 DEF Least!Grow, Between, Least!Forced, Least!Closed
  <2>3. CASE Least!Settle
    BY <2>3 DEF Least!Settle, Between, Least!Forced, Least!Closed
  <2>4. CASE UNCHANGED Least!closure_vars
    BY <2>4 DEF Least!closure_vars, Between, Least!Forced, Least!Closed
  <2> QED BY <2>1, <2>2, <2>3, <2>4 DEF Least!Next
<1> QED BY <1>1, <1>2, PTL DEF Least!Spec

\* Who uses the closure of source_closure.rs through its promise gets the least
\* set, whatever the constraints.
THEOREM PromiseIsLeast == Least!Spec => []Least!SettledIsLeast
<1>1. Between => Least!SettledIsLeast
  BY DEF Between, Least!SettledIsLeast, Least!Forced, Least!Closed
<1> QED BY <1>1, BetweenInvariant, PTL
=============================================================================
