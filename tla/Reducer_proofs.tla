--------------------------- MODULE Reducer_proofs ---------------------------
(***************************************************************************)
(* The safety properties of Reducer, for every program, every options and  *)
(* every way in which the compiler and Cargo behave between two steps.     *)
(*                                                                         *)
(* A session's invariant says what each place of the session has left      *)
(* behind (PhaseInv), why something went wrong first (CauseInv), what the  *)
(* callbacks may have said (ResultInv), in which coordinates the graph is  *)
(* (CoordsInv), what has been returned (OutcomeInv), and which validator   *)
(* has rejected the program (RejectInv).  A project's (ProjectInv) says    *)
(* who has written the result file.                                        *)
(***************************************************************************)
EXTENDS Reducer, TLAPS, FiniteSetTheorems, WellFoundedInduction

Places == Compiling \cup {"prepare", "stopped", "planning", "comparing", "returned"}

CoordsType ==
  [done : Nat, keys : {"none", "original", "reduced"},
   ranges : {"none", "original", "reduced"}, constraints : {"none", "original", "reduced"}]

TypeOK ==
  /\ phase \in {"original", "reduced"} /\ pc \in Places
  /\ same \in [external : BOOLEAN, decisions : BOOLEAN]
  /\ errors \in Seq(Diagnostic)
  /\ file \in {"none", "AdditionalSourceFile", "ExternalCompileTimeResource"}
  /\ macro \in BOOLEAN /\ resources \in SUBSET BOOLEAN
  /\ parsed \in BOOLEAN /\ expanded \in BOOLEAN
  /\ coords \in CoordsType
  /\ first \in {"nothing", "error", "bug", "denial"}

Done == Error("inspected")

\* What the session has behind it where it is.
PhaseInv ==
  /\ pc \in {"expanding", "analyzing", "collecting"} => parsed
  /\ pc \in {"analyzing", "collecting"} => expanded
  /\ pc = "collecting" => errors = <<>>
  /\ pc \in Compiling \cup {"prepare"} => result = None
  /\ pc \in {"planning", "comparing"} => result = Done
  /\ pc = "planning" => phase = "original"
  /\ pc = "comparing" => phase = "reduced"
  /\ pc # "returned" => outcome = None
  /\ result = Done => errors = <<>> /\ parsed /\ expanded

\* The guards remember every denial that nothing precedes, and none that
\* follows an error.
CauseInv ==
  /\ first \in {"error", "bug"} => errors # <<>>
  /\ first = "nothing" => errors = <<>>
  /\ first = "denial" => resources # {} \/ macro \/ file # "none"
  /\ macro => first = "denial"
  /\ file # "none" => first = "denial"

EntryReason == {"InvalidPath", "WrongCrate", "NotFound", "UnsupportedItem"}

\* The errors of a callback that have no range.
PlaceFree ==
  {Error(kind) : kind \in {"Source", "InvalidSpan", "Dependency"}}
    \cup {EntryError(reason) : reason \in EntryReason}

\* An unsupported input with a range in one of the texts.
UnsupportedIn(e, texts) ==
  e = Unsupported(e.reason, e.range) /\ e.range \in {"none"} \cup texts

\* What the callbacks have said; a range is one of the text under inspection.
ResultInv ==
  \/ result \in {None, Done} \cup PlaceFree
  \/ UnsupportedIn(result, {Text})

\* The coordinates after so many steps of the collection.
CoordsAt(n) ==
  IF phase = "original"
  THEN [done |-> n, keys |-> IF n >= 1 THEN "original" ELSE "none",
        ranges |-> IF n >= 1 THEN "original" ELSE "none",
        constraints |-> IF n >= 4 THEN "original" ELSE "none"]
  ELSE [done |-> n,
        keys |-> IF n >= 3 THEN "original" ELSE IF n >= 1 THEN "reduced" ELSE "none",
        ranges |-> IF n >= 6 THEN "original" ELSE IF n >= 1 THEN "reduced" ELSE "none",
        constraints |-> IF n >= 2 THEN "reduced" ELSE "none"]

Steps == IF phase = "original" THEN 5 ELSE 7

CoordsInv ==
  /\ coords.done \in 0..Steps /\ coords = CoordsAt(coords.done)
  /\ pc \in {"prepare", "parsing", "expanding", "analyzing"} => coords.done = 0
  /\ pc = "collecting" => coords.done < Steps
  /\ result = Done => coords.done = Steps

\* What has been returned says where, why and after what.
OutcomeInv ==
  /\ outcome.kind = "reduction" => phase = "reduced" /\ same.external /\ same.decisions /\ result = Done
  /\ "range" \in DOMAIN outcome => outcome.range \in {"none", "original"}
  /\ DenialIsNotAnError

SessionInv ==
  /\ TypeOK /\ PhaseInv /\ CauseInv /\ ResultInv /\ CoordsInv /\ OutcomeInv

\* Before expansion is over, only the validation of the parsed program rejects.
RejectInv ==
  /\ program \in Programs
  /\ result.kind = "UnsupportedInput" /\ ~expanded => result \in ValidateUnexpanded(program)

\* Only a returned reduction is written.
MainInv == main = "written" => outcome.kind = "reduction"

UnitState == Project!Ended \cup
  {"waiting", "arguments", "libraries", "launcher", "ready", "reduced"}

\* The result file has one writer, which stays; before Cargo has started and
\* after it has ended no compilation is at work; a failed one fails Cargo.
ProjectInv ==
  /\ plan \in Plans
  /\ unit \in [DOMAIN plan -> UnitState]
  /\ cargo \in {"none", "running", "ok", "failed"}
  /\ outer = "select" => cargo = "none"
  /\ cargo = "none" => \A u \in DOMAIN plan : unit[u] = "waiting"
  /\ cargo # "running" => \A u \in DOMAIN plan : unit[u] \in Project!Ended \cup {"waiting"}
  /\ cargo = "ok" => \A u \in DOMAIN plan : unit[u] # "failed"
  /\ \A u \in DOMAIN plan :
       /\ unit[u] = "recorded" <=> recorded = u
       /\ unit[u] \in {"reduced", "recorded"} => Project!IsSelected(u)
  /\ recorded \in DOMAIN plan \cup {"none"}
  /\ source = "replaced" => cargo = "ok" /\ recorded # "none"

\* The inductive invariant.
IInv == SessionInv /\ RejectInv /\ MainInv /\ ProjectInv

-----------------------------------------------------------------------------
(* The session                                                             *)

\* What one callback or the verdict builds has the shape the invariant names.
LEMMA UnsupportedShape ==
  ASSUME NEW reason, NEW at, NEW texts, at \in {"none"} \cup texts
  PROVE  UnsupportedIn(Unsupported(reason, at), texts)
BY DEF UnsupportedIn, Unsupported

\* Every validator rejects with a range of the text it looks at, or without one.
LEMMA ValidatorsReject ==
  ASSUME NEW e \in ValidateUnexpanded(program) \cup ValidateExpanded(program)
                     \cup ValidateAttributes(program)
  PROVE  e \in PlaceFree \/ UnsupportedIn(e, {Text})
<1>1. \A r : Rejected(r) \in PlaceFree \/ UnsupportedIn(Rejected(r), {Text})
  BY UnsupportedShape DEF Rejected, PlaceFree
<1>2. \E r : e = Rejected(r)
  BY DEF ValidateUnexpanded, ValidateExpanded, ValidateAttributes
<1> QED BY <1>1, <1>2

\* The results of the callbacks are told apart by their kinds.
LEMMA ResultKinds ==
  /\ \A e \in PlaceFree : e # None /\ e # Done /\ e.kind # "UnsupportedInput"
                          /\ e.kind # "CompilationFailed"
  /\ \A e, texts : UnsupportedIn(e, texts) => e # None /\ e # Done /\ e.kind = "UnsupportedInput"
  /\ None # Done
<1>1. \A e \in PlaceFree : e.kind \in {"Source", "InvalidSpan", "Dependency", "InvalidEntryPoint"}
  BY DEF PlaceFree, Error, EntryError
<1>2. \A e, texts : UnsupportedIn(e, texts) => e.kind = "UnsupportedInput"
  BY DEF UnsupportedIn, Unsupported
<1>3. None.kind = "none" /\ Done.kind = "inspected"
  BY DEF None, Done, Error
<1> QED BY <1>1, <1>2, <1>3

\* Nothing is said of a session that has not returned.
LEMMA NotReturned ==
  ASSUME outcome = None
  PROVE  OutcomeInv
BY DEF OutcomeInv, DenialIsNotAnError, None

LEMMA InitSession == Init => SessionInv
<1> SUFFICES ASSUME Init PROVE SessionInv
  OBVIOUS
<1> USE DEF Init
<1>1. TypeOK
  <2>1. NoCoords \in CoordsType
    BY DEF NoCoords, CoordsType
  <2>2. same \in [external : BOOLEAN, decisions : BOOLEAN]
    OBVIOUS
  <2>3. errors \in Seq(Diagnostic)
    OBVIOUS
  <2> QED BY <2>1, <2>2, <2>3 DEF TypeOK, Places
<1>2. PhaseInv /\ ResultInv
  BY ResultKinds DEF PhaseInv, ResultInv, Compiling
<1>3. CauseInv
  BY DEF CauseInv
<1>4. CoordsInv
  BY ResultKinds DEF CoordsInv, CoordsAt, NoCoords, Steps
<1>5. OutcomeInv
  BY NotReturned
<1> QED BY <1>1, <1>2, <1>3, <1>4, <1>5 DEF SessionInv

\* The compiler reports an error.
LEMMA ReportSession ==
  ASSUME SessionInv, Report
  PROVE  SessionInv'
<1> USE DEF SessionInv, Report, session, Notice
<1>1. TypeOK'
  BY DEF TypeOK, Places, Diagnostic
<1>2. outcome' = None /\ result' = None /\ result = None /\ Text' = Text
  BY DEF PhaseInv, Compiling, Text
<1>3. errors' # <<>>
  BY DEF TypeOK
<1>4. PhaseInv'
  BY <1>2, ResultKinds DEF PhaseInv, Compiling
<1>5. CauseInv'
  BY <1>3 DEF CauseInv, TypeOK
<1>6. ResultInv'
  BY <1>2 DEF ResultInv
<1>7. CoordsInv'
  BY <1>2, ResultKinds DEF CoordsInv, CoordsAt, Steps, Compiling
<1>8. OutcomeInv'
  BY <1>2, NotReturned DEF OutcomeInv, DenialIsNotAnError, None
<1> QED BY <1>1, <1>4, <1>5, <1>6, <1>7, <1>8

\* The compiler gives up: the session finds out later why.
LEMMA GiveUpSession ==
  ASSUME SessionInv, GiveUp
  PROVE  SessionInv'
<1> USE DEF SessionInv, GiveUp, session, inspection, Stop
<1>1. TypeOK' /\ CauseInv'
  BY DEF TypeOK, Places, CauseInv
<1>2. outcome' = None /\ result' = None /\ result = None /\ Text' = Text
  BY DEF PhaseInv, Compiling, Text
<1>3. PhaseInv'
  BY <1>2, ResultKinds DEF PhaseInv, Compiling
<1>4. ResultInv'
  BY <1>2 DEF ResultInv
<1>5. CoordsInv'
  BY <1>2, ResultKinds DEF CoordsInv, CoordsAt, Steps
<1>6. OutcomeInv'
  BY <1>2, NotReturned DEF OutcomeInv, DenialIsNotAnError, None
<1> QED BY <1>1, <1>3, <1>4, <1>5, <1>6

\* A guard denies a file: it remembers this if nothing went wrong before.
LEMMA RequestFileSession ==
  ASSUME SessionInv, RequestFile
  PROVE  SessionInv'
<1> USE DEF SessionInv, RequestFile, session, Notice, Unexplained
<1>1. TypeOK'
  BY DEF TypeOK
<1>2. outcome' = None /\ result' = None /\ result = None /\ Text' = Text
  BY DEF PhaseInv, Compiling, Text
<1>3. PhaseInv'
  BY <1>2, ResultKinds DEF PhaseInv, Compiling
<1>4. CauseInv'
  BY DEF CauseInv, TypeOK
<1>5. ResultInv'
  BY <1>2 DEF ResultInv
<1>6. CoordsInv'
  BY <1>2, ResultKinds DEF CoordsInv, CoordsAt, Steps
<1>7. OutcomeInv'
  BY <1>2, NotReturned DEF OutcomeInv, DenialIsNotAnError, None
<1> QED BY <1>1, <1>3, <1>4, <1>5, <1>6, <1>7

LEMMA LoadProcMacroSession ==
  ASSUME SessionInv, LoadProcMacro
  PROVE  SessionInv'
<1> USE DEF SessionInv, LoadProcMacro, session, Notice, Unexplained
<1>1. TypeOK'
  BY DEF TypeOK
<1>2. outcome' = None /\ result' = None /\ result = None /\ Text' = Text
  BY DEF PhaseInv, Compiling, Text
<1>3. PhaseInv'
  BY <1>2, ResultKinds DEF PhaseInv, Compiling
<1>4. CauseInv'
  BY DEF CauseInv, TypeOK
<1>5. ResultInv'
  BY <1>2 DEF ResultInv
<1>6. CoordsInv'
  BY <1>2, ResultKinds DEF CoordsInv, CoordsAt, Steps
<1>7. OutcomeInv'
  BY <1>2, NotReturned DEF OutcomeInv, DenialIsNotAnError, None
<1> QED BY <1>1, <1>3, <1>4, <1>5, <1>6, <1>7

LEMMA RejectResourceSession ==
  ASSUME SessionInv, RejectResource
  PROVE  SessionInv'
<1> USE DEF SessionInv, RejectResource, session, Notice
<1>1. PICK spanned \in BOOLEAN :
        /\ resources' = resources \cup {spanned}
        /\ errors' = Append(errors, [code |-> "other", bug |-> FALSE, ranged |-> spanned])
  OBVIOUS
<1>2. [code |-> "other", bug |-> FALSE, ranged |-> spanned] \in Diagnostic
  BY DEF Diagnostic
<1>3. TypeOK'
  BY <1>1, <1>2 DEF TypeOK, Places
<1>4. outcome' = None /\ result' = None /\ result = None /\ Text' = Text
  BY DEF PhaseInv, Compiling, Text
<1>5. errors' # <<>> /\ resources' # {}
  BY <1>1, <1>2 DEF TypeOK
<1>6. PhaseInv'
  BY <1>4, ResultKinds DEF PhaseInv, Compiling
<1>7. CauseInv'
  BY <1>5 DEF CauseInv, TypeOK
<1>8. ResultInv'
  BY <1>4 DEF ResultInv
<1>9. CoordsInv'
  BY <1>4, ResultKinds DEF CoordsInv, CoordsAt, Steps, Compiling
<1>10. OutcomeInv'
  BY <1>4, NotReturned DEF OutcomeInv, DenialIsNotAnError, None
<1> QED BY <1>3, <1>6, <1>7, <1>8, <1>9, <1>10

\* A callback that does not end the inspection, or ends it with an error.
LEMMA CallbackSession ==
  ASSUME SessionInv, AfterParsing \/ AfterExpansion \/ AfterAnalysis
  PROVE  SessionInv'
<1> USE DEF SessionInv, AfterParsing, AfterExpansion, AfterAnalysis, session
<1>1. outcome' = None /\ result = None /\ Text' = Text
  BY DEF PhaseInv, Compiling, Text
<1>2. TypeOK'
  BY DEF TypeOK, Places, Compiling, Stop, Finish
<1>3. /\ result' # Done
      /\ result' \in {None} \cup PlaceFree \/ UnsupportedIn(result', {Text})
      /\ pc' \in {"expanding", "analyzing", "collecting"} => result' = None
  <2>1. CASE UNCHANGED result
    BY <2>1, <1>1, ResultKinds
  <2>2. CASE \E e \in ValidateUnexpanded(program) \cup ValidateExpanded(program)
                        \cup ValidateAttributes(program) : Finish(e)
    BY <2>2, ValidatorsReject, ResultKinds DEF Finish, Stop
  <2>3. CASE Finish(Error("Source"))
    BY <2>3, ResultKinds DEF Finish, Stop, PlaceFree
  <2>4. CASE \E e \in EntryErrors(program) : Finish(e)
    <3>1. EntryErrors(program) \subseteq PlaceFree
      BY DEF EntryErrors, PlaceFree, EntryReason
    <3> QED BY <2>4, <3>1, ResultKinds DEF Finish, Stop
  <2>5. CASE \E reason : Finish(Unsupported(reason, "none"))
    BY <2>5, UnsupportedShape, ResultKinds DEF Finish, Stop
  <2> QED BY <2>1, <2>2, <2>3, <2>4, <2>5
<1>4. PhaseInv'
  BY <1>1, <1>3, ResultKinds DEF PhaseInv, Compiling, Stop, Finish
<1>5. CauseInv'
  BY DEF CauseInv
<1>6. ResultInv'
  BY <1>1, <1>3 DEF ResultInv
<1>7. CoordsInv'
  BY <1>1, <1>3 DEF CoordsInv, CoordsAt, Steps, Stop, Finish
<1>8. OutcomeInv'
  BY <1>1, NotReturned DEF OutcomeInv, DenialIsNotAnError, None
<1> QED BY <1>2, <1>4, <1>5, <1>6, <1>7, <1>8

\* What a step of the collection does to each of the coordinates.
LEMMA CollectStepRecord ==
  ASSUME NEW step, coords \in CoordsType
  PROVE  CollectStep(step) =
           [done |-> coords.done + 1,
            keys |-> IF step = "definitions" THEN Text
                     ELSE IF step = "keys" THEN "original" ELSE coords.keys,
            ranges |-> IF step = "definitions" THEN Text
                       ELSE IF step = "ranges" THEN "original" ELSE coords.ranges,
            constraints |-> IF step = "constraints" THEN coords.keys ELSE coords.constraints]
<1>1. CASE step = "definitions"
  BY <1>1 DEF CollectStep, CoordsType
<1>2. CASE step = "constraints"
  BY <1>2 DEF CollectStep, CoordsType
<1>3. CASE step = "keys"
  BY <1>3 DEF CollectStep, CoordsType
<1>4. CASE step = "ranges"
  BY <1>4 DEF CollectStep, CoordsType
<1>5. CASE step \notin {"definitions", "constraints", "keys", "ranges"}
  BY <1>5 DEF CollectStep, CoordsType
<1> QED BY <1>1, <1>2, <1>3, <1>4, <1>5

\* Each step of the collection moves the coordinates on as its place in the
\* order for this phase says.
LEMMA CollectMoves ==
  ASSUME TypeOK, CoordsInv, pc = "collecting"
  PROVE  /\ Len(Collection) = Steps
         /\ CollectStep(Collection[coords.done + 1]) = CoordsAt(coords.done + 1)
<1> DEFINE n == coords.done
<1>1. coords = CoordsAt(n) /\ coords \in CoordsType
  BY DEF CoordsInv, TypeOK
<1>2. CASE phase = "original"
  <2>1. n \in {0, 1, 2, 3, 4}
    BY <1>2 DEF CoordsInv, Steps
  <2>2. Collection = <<"definitions", "expansions", "mono", "constraints", "graph">>
    BY <1>2 DEF Collection
  <2>3. Len(Collection) = Steps
    BY <1>2, <2>2 DEF Steps
  <2> USE <1>1, <1>2, <2>2 DEF CoordsAt, Text
  <2>4. CASE n = 0
    BY <2>4, <2>3, CollectStepRecord
  <2>5. CASE n = 1
    BY <2>5, <2>3, CollectStepRecord
  <2>6. CASE n = 2
    BY <2>6, <2>3, CollectStepRecord
  <2>7. CASE n = 3
    BY <2>7, <2>3, CollectStepRecord
  <2>8. CASE n = 4
    BY <2>8, <2>3, CollectStepRecord
  <2> QED BY <2>1, <2>4, <2>5, <2>6, <2>7, <2>8
<1>3. CASE phase = "reduced"
  <2>1. n \in {0, 1, 2, 3, 4, 5, 6}
    BY <1>3 DEF CoordsInv, Steps
  <2>2. Collection = <<"definitions", "constraints", "keys", "expansions", "mono", "ranges", "graph">>
    BY <1>3 DEF Collection
  <2>3. Len(Collection) = Steps
    BY <1>3, <2>2 DEF Steps
  <2> USE <1>1, <1>3, <2>2 DEF CoordsAt, Text
  <2>4. CASE n = 0
    BY <2>4, <2>3, CollectStepRecord
  <2>5. CASE n = 1
    BY <2>5, <2>3, CollectStepRecord
  <2>6. CASE n = 2
    BY <2>6, <2>3, CollectStepRecord
  <2>7. CASE n = 3
    BY <2>7, <2>3, CollectStepRecord
  <2>8. CASE n = 4
    BY <2>8, <2>3, CollectStepRecord
  <2>9. CASE n = 5
    BY <2>9, <2>3, CollectStepRecord
  <2>10. CASE n = 6
    BY <2>10, <2>3, CollectStepRecord
  <2> QED BY <2>1, <2>4, <2>5, <2>6, <2>7, <2>8, <2>9, <2>10
<1> QED BY <1>2, <1>3 DEF TypeOK

LEMMA CollectSession ==
  ASSUME SessionInv, Collect
  PROVE  SessionInv'
<1> USE DEF SessionInv, Collect, session
<1>1. outcome' = None /\ result = None /\ Text' = Text /\ errors = <<>> /\ parsed /\ expanded
  BY DEF PhaseInv, Compiling, Text
<1>2. CASE Finish(Error("Dependency")) /\ UNCHANGED coords
  <2> USE <1>2 DEF Finish, Stop
  <2>1. result' \in PlaceFree
    BY DEF PlaceFree
  <2>2. TypeOK' /\ CauseInv' /\ ResultInv'
    BY <2>1 DEF TypeOK, Places, CauseInv, ResultInv
  <2>3. PhaseInv' /\ CoordsInv'
    BY <1>1, <2>1, ResultKinds DEF PhaseInv, Compiling, CoordsInv, CoordsAt, Steps
  <2>4. OutcomeInv'
    BY <1>1, NotReturned DEF OutcomeInv, DenialIsNotAnError, None
  <2> QED BY <2>2, <2>3, <2>4
<1>3. CASE ~(Finish(Error("Dependency")) /\ UNCHANGED coords)
  <2>1. /\ coords' = CoordsAt(coords.done + 1)
        /\ IF coords'.done = Steps THEN Finish(Done) ELSE UNCHANGED <<pc, result>>
    BY <1>3, CollectMoves DEF Done
  <2>2. coords.done \in 0..(Steps - 1) /\ coords'.done = coords.done + 1 /\ Steps' = Steps
    BY <2>1 DEF CoordsInv, CoordsAt, Steps
  <2>3. coords' = CoordsAt(coords.done)'
    BY <2>1, <2>2 DEF CoordsAt
  <2>4. TypeOK'
    <3>1. coords' \in CoordsType
      BY <2>1, <2>2 DEF CoordsAt, CoordsType, Steps
    <3> QED BY <2>1, <3>1 DEF TypeOK, Places, Finish, Stop
  <2>5. PhaseInv' /\ ResultInv'
    BY <1>1, <2>1, ResultKinds DEF PhaseInv, ResultInv, Compiling, Finish, Stop
  <2>6. CoordsInv'
    BY <1>1, <2>1, <2>2, <2>3, ResultKinds DEF CoordsInv, Steps, Finish, Stop
  <2>7. CauseInv'
    BY DEF CauseInv
  <2>8. OutcomeInv'
    BY <1>1, NotReturned DEF OutcomeInv, DenialIsNotAnError, None
  <2> QED BY <2>4, <2>5, <2>6, <2>7, <2>8
<1> QED BY <1>2, <1>3

-----------------------------------------------------------------------------
(* The verdict and what is returned                                        *)

\* An error of the compilation, which no denial has caused.
Failure(v) ==
  /\ first # "denial"
  /\ \/ v \in {Error("CompilerIce"), Error("CompilerProtocolFailure")}
     \/ v = [kind |-> "CompilationFailed", range |-> v.range] /\ v.range \in {"none", "original"}

\* An unsupported input in the coordinates of the original; a reason that a
\* guard has given was the first thing to go wrong.
Refusal(v) ==
  /\ UnsupportedIn(v, {"original"})
  /\ result = None /\ v.reason \in {"AdditionalSourceFile", "ProcMacro"} => first = "denial"

\* What the verdict on an inspection may be.
Judged(v) ==
  \/ v = Done /\ result = Done
  \/ v \in PlaceFree \cup {Error("Rewrite")}
  \/ Failure(v)
  \/ Refusal(v)

\* Mapping to the original keeps an error or replaces it by another one.
LEMMA MappedRefusal ==
  ASSUME TypeOK, NEW e, UnsupportedIn(e, {Text}), NEW v \in MapInputError(e),
         result = None /\ e.reason \in {"AdditionalSourceFile", "ProcMacro"} => first = "denial"
  PROVE  Judged(v)
<1>1. e = [kind |-> "UnsupportedInput", reason |-> e.reason, range |-> e.range]
  BY DEF UnsupportedIn, Unsupported
<1>2. CASE phase = "original" \/ e.range = "none"
  <2>1. v = e /\ e.range \in {"none", "original"}
    BY <1>2 DEF MapInputError, UnsupportedIn, Text
  <2> QED BY <2>1 DEF Judged, Refusal, UnsupportedIn
<1>3. CASE phase = "reduced" /\ e.range # "none"
  <2>1. v \in {[e EXCEPT !.range = "original"], Error("Rewrite")}
    BY <1>1, <1>3 DEF MapInputError
  <2>2. CASE v = [e EXCEPT !.range = "original"]
    <3>1. v = Unsupported(e.reason, "original")
      BY <1>1, <2>2 DEF Unsupported
    <3>2. v.reason = e.reason /\ UnsupportedIn(v, {"original"})
      BY <3>1 DEF Unsupported, UnsupportedIn
    <3> QED BY <3>2 DEF Judged, Refusal
  <2> QED BY <2>1, <2>2 DEF Judged
<1> QED BY <1>2, <1>3 DEF TypeOK

LEMMA MappedFailure ==
  ASSUME TypeOK, first # "denial", NEW at \in {"none", Text},
         NEW v \in MapInputError([kind |-> "CompilationFailed", range |-> at])
  PROVE  Judged(v)
<1>1. v \in {[kind |-> "CompilationFailed", range |-> x] : x \in {"none", "original"}}
          \cup {Error("Rewrite")}
  BY DEF MapInputError, TypeOK, Text
<1> QED BY <1>1 DEF Judged, Failure

\* Errors without a range are not mapped.
LEMMA MappedPlaceFree ==
  ASSUME NEW e \in PlaceFree \cup {Done}, NEW v \in MapInputError(e)
  PROVE  v = e
BY ResultKinds DEF MapInputError, Done, Error

LEMMA VerdictJudged ==
  ASSUME SessionInv, NEW v \in Verdict
  PROVE  Judged(v)
<1> USE DEF SessionInv
<1>1. CASE result # None
  <2>1. v \in MapInputError(result)
    BY <1>1 DEF Verdict
  <2>2. CASE result \in {Done} \cup PlaceFree
    BY <2>1, <2>2, MappedPlaceFree DEF Judged
  <2>3. CASE UnsupportedIn(result, {Text})
    BY <1>1, <2>1, <2>3, MappedRefusal
  <2> QED BY <1>1, <2>2, <2>3 DEF ResultInv
<1>2. CASE result = None /\ FromErrors
  <2>1. first # "denial"
    BY <1>2 DEF FromErrors, CauseInv
  <2>2. v \in CompilationFailed
    BY <1>2 DEF Verdict
  <2>3. CASE v \in {Error("CompilerIce"), Error("CompilerProtocolFailure")}
    BY <2>1, <2>3 DEF Judged, Failure
  <2>4. CASE v \in MapInputError([kind |-> "CompilationFailed",
                                  range |-> IF Ranged THEN Text ELSE "none"])
    BY <2>1, <2>4, MappedFailure
  <2> QED BY <2>2, <2>3, <2>4 DEF CompilationFailed
<1>3. CASE result = None /\ ~FromErrors
  <2>1. Error("InvalidSpan") \in PlaceFree
    BY DEF PlaceFree
  <2>2. \/ v = Error("InvalidSpan")
        \/ \E reason \in {"ExternalCompileTimeResource", "ProcMacro", "UnstableLanguageFeature",
                          "ExternalDependency", file}, at \in {"none", Text} :
             /\ v \in MapInputError(Unsupported(reason, at))
             /\ reason = "ProcMacro" => macro
             /\ reason = "AdditionalSourceFile" => file # "none"
    BY <1>3 DEF Verdict, ByCode, TypeOK
  <2>3. ASSUME NEW reason, NEW at \in {"none", Text}, v \in MapInputError(Unsupported(reason, at)),
               reason = "ProcMacro" => macro,
               reason = "AdditionalSourceFile" => file # "none"
        PROVE  Judged(v)
    <3>1. Unsupported(reason, at).reason = reason
      BY DEF Unsupported
    <3>2. reason \in {"AdditionalSourceFile", "ProcMacro"} => first = "denial"
      BY <2>3 DEF CauseInv
    <3> QED BY <2>3, <3>1, <3>2, UnsupportedShape, MappedRefusal
  <2> QED BY <2>1, <2>2, <2>3 DEF Judged
<1> QED BY <1>2, <1>1, <1>3

\* analysis_error keeps the invariant of what is returned.
LEMMA AnalysisErrorReturned ==
  ASSUME TypeOK, NEW v, Judged(v), v # Done,
         ReturnError(v), UNCHANGED <<result, first>>
  PROVE  OutcomeInv'
<1> USE DEF ReturnError, Return
<1>1. CASE v \in PlaceFree \cup {Error("Rewrite")}
  <2>1. \/ outcome' = [kind |-> "IncompleteObservation", phase |-> phase]
        \/ outcome' = Error("SourceRewriteInvariantViolation")
        \/ \E reason : outcome' = EntryError(reason)
    <3>1. CASE v \in {Error(kind) : kind \in {"Source", "InvalidSpan", "Dependency", "Rewrite"}}
      BY <3>1 DEF AnalysisError, Error
    <3>2. CASE v \in {EntryError(reason) : reason \in EntryReason}
      <4>1. v.kind = "InvalidEntryPoint" /\ \E reason : v = EntryError(reason)
        BY <3>2 DEF EntryError
      <4> QED BY <4>1 DEF AnalysisError
    <3> QED BY <1>1, <3>1, <3>2 DEF PlaceFree
  <2> QED BY <2>1 DEF OutcomeInv, DenialIsNotAnError, Error, EntryError
<1>2. CASE Failure(v)
  <2>1. CASE v \in {Error("CompilerIce"), Error("CompilerProtocolFailure")}
    <3>1. outcome' = Error("CompilerFailure")
      BY <2>1 DEF AnalysisError, Error
    <3> QED BY <1>2, <3>1 DEF OutcomeInv, DenialIsNotAnError, Error, Failure
  <2>2. CASE v = [kind |-> "CompilationFailed", range |-> v.range] /\ v.range \in {"none", "original"}
    <3>1. v.kind = "CompilationFailed"
      BY <2>2
    <3>2. \E kind \in {"OriginalCompilationFailed", "ReducedCompilationFailed"} :
            outcome' = [v EXCEPT !.kind = kind]
      BY <3>1 DEF AnalysisError
    <3>3. \E kind \in {"OriginalCompilationFailed", "ReducedCompilationFailed"} :
            outcome' = [kind |-> kind, range |-> v.range]
      BY <2>2, <3>2
    <3> QED BY <1>2, <2>2, <3>3 DEF OutcomeInv, DenialIsNotAnError, Failure
  <2> QED BY <1>2, <2>1, <2>2 DEF Failure
<1>3. CASE Refusal(v)
  <2>1. v = Unsupported(v.reason, v.range) /\ v.range \in {"none", "original"}
    BY <1>3 DEF Refusal, UnsupportedIn
  <2>2. v.kind = "UnsupportedInput"
    BY <2>1 DEF Unsupported
  <2>3. outcome' = v
    BY <2>2 DEF AnalysisError
  <2> QED BY <1>3, <2>1, <2>2, <2>3 DEF OutcomeInv, DenialIsNotAnError, Refusal
<1> QED BY <1>1, <1>2, <1>3 DEF Judged

\* The preparation refuses options, artifacts and targets before anything runs.
LEMMA PrepareSession ==
  ASSUME SessionInv, Prepare
  PROVE  SessionInv'
<1> USE DEF SessionInv, Prepare, inspection
<1>1. TypeOK' /\ CauseInv' /\ ResultInv'
  BY DEF TypeOK, Places, Compiling, CauseInv, ResultInv, Text, Return, ReturnError
<1>2. PhaseInv'
  BY ResultKinds DEF PhaseInv, Compiling, Return, ReturnError
<1>3. CoordsInv'
  BY DEF CoordsInv, CoordsAt, Steps, Return, ReturnError
<1>4. OutcomeInv'
  <2>1. CASE UNCHANGED outcome
    BY <2>1, NotReturned DEF PhaseInv, OutcomeInv, DenialIsNotAnError, None
  <2>2. CASE \E kind \in {"InvalidOptions", "CompilerArtifactMismatch"} : Return(Error(kind))
    BY <2>2 DEF Return, Error, OutcomeInv, DenialIsNotAnError
  <2>3. CASE ReturnError(Error("MissingLibraryEntryPoint"))
    <3>1. outcome' = Error("MissingLibraryEntryPoint")
      BY <2>3 DEF ReturnError, Return, AnalysisError, Error
    <3> QED BY <3>1 DEF Error, OutcomeInv, DenialIsNotAnError
  <2>4. CASE ReturnError(Unsupported("UnsupportedTarget", "none"))
    <3>1. outcome' = Unsupported("UnsupportedTarget", "none")
      BY <2>4 DEF ReturnError, Return, AnalysisError, Unsupported
    <3> QED BY <3>1 DEF Unsupported, OutcomeInv, DenialIsNotAnError
  <2> QED BY <2>1, <2>2, <2>3, <2>4
<1> QED BY <1>1, <1>2, <1>3, <1>4

\* The end of an inspection goes on only with what has been collected.
LEMMA InspectedSession ==
  ASSUME SessionInv, Inspected
  PROVE  SessionInv'
<1> USE DEF SessionInv, Inspected, inspection
<1>1. PICK v \in Verdict :
        IF v.kind # "inspected" THEN ReturnError(v)
        ELSE /\ pc' = IF phase = "original" THEN "planning" ELSE "comparing"
             /\ UNCHANGED outcome
  OBVIOUS
<1>2. Judged(v)
  BY VerdictJudged
<1>3. v.kind = "inspected" <=> v = Done
  <2>1. Done.kind = "inspected" /\ Error("Rewrite").kind = "Rewrite"
    BY DEF Done, Error
  <2>2. \A e \in PlaceFree : e.kind # "inspected"
    BY DEF PlaceFree, Error, EntryError
  <2>3. Failure(v) => v.kind # "inspected"
    BY DEF Failure, Error
  <2>4. Refusal(v) => v.kind # "inspected"
    BY ResultKinds DEF Refusal
  <2> QED BY <1>2, <2>1, <2>2, <2>3, <2>4 DEF Judged
<1>4. TypeOK' /\ CauseInv' /\ ResultInv'
  BY <1>1 DEF TypeOK, Places, CauseInv, ResultInv, Text, Return, ReturnError
<1>5. v = Done => result = Done
  <2>1. ~Failure(Done) /\ ~Refusal(Done) /\ Done \notin PlaceFree \cup {Error("Rewrite")}
    BY ResultKinds DEF Failure, Refusal, Done, Error
  <2> QED BY <1>2, <2>1 DEF Judged
<1>6. PhaseInv' /\ CoordsInv'
  BY <1>1, <1>3, <1>5 DEF TypeOK, PhaseInv, CoordsInv, CoordsAt, Steps, Compiling, Return, ReturnError
<1>7. OutcomeInv'
  <2>1. CASE v = Done
    BY <1>1, <1>3, <2>1, NotReturned DEF PhaseInv, OutcomeInv, DenialIsNotAnError, None
  <2>2. CASE v # Done
    BY <1>1, <1>2, <1>3, <2>2, AnalysisErrorReturned
  <2> QED BY <2>1, <2>2
<1> QED BY <1>4, <1>6, <1>7

\* The plan fails, or the second inspection starts with nothing of the first.
LEMMA PlanSession ==
  ASSUME SessionInv, Plan
  PROVE  SessionInv'
<1> USE DEF SessionInv, Plan
<1>1. CASE UNCHANGED phase
  <2>1. PICK kind \in {"Retention", "ExternalNativeLink", "Rewrite", "Snapshot"} :
          ReturnError(Error(kind)) /\ UNCHANGED <<same, phase, inspection>>
    BY <1>1 DEF PhaseInv
  <2>2. TypeOK' /\ CauseInv' /\ ResultInv' /\ PhaseInv' /\ CoordsInv'
    BY <2>1 DEF TypeOK, Places, CauseInv, ResultInv, PhaseInv, CoordsInv, CoordsAt, Steps, Text,
                Compiling, inspection, Return, ReturnError
  <2>3. outcome' \in {Unsupported("ExternalNativeLink", "none"),
                      Error("SourceRewriteInvariantViolation"),
                      [kind |-> "IncompleteObservation", phase |-> phase]}
    BY <2>1 DEF ReturnError, Return, AnalysisError, Error
  <2>4. OutcomeInv'
    BY <2>3 DEF OutcomeInv, DenialIsNotAnError, Error, Unsupported
  <2> QED BY <2>2, <2>4
<1>2. CASE ~UNCHANGED phase
  <2>1. /\ phase' = "reduced" /\ pc' = "parsing" /\ Fresh /\ UNCHANGED outcome
        /\ same' \in [external : BOOLEAN, decisions : BOOLEAN]
    BY <1>2
  <2>2. TypeOK'
    <3>1. NoCoords \in CoordsType
      BY DEF NoCoords, CoordsType
    <3>2. errors' \in Seq(Diagnostic)
      BY <2>1 DEF Fresh
    <3> QED BY <2>1, <3>1, <3>2 DEF TypeOK, Places, Compiling, Fresh
  <2>3. CauseInv' /\ ResultInv' /\ PhaseInv'
    BY <2>1, ResultKinds DEF Fresh, CauseInv, ResultInv, PhaseInv, Compiling
  <2>4. CoordsInv'
    BY <2>1, ResultKinds DEF Fresh, CoordsInv, CoordsAt, NoCoords, Steps
  <2>5. OutcomeInv'
    BY <2>1, NotReturned DEF PhaseInv, OutcomeInv, DenialIsNotAnError, None
  <2> QED BY <2>2, <2>3, <2>4, <2>5
<1> QED BY <1>1, <1>2

\* The comparison alone returns a reduction.
LEMMA CompareSession ==
  ASSUME SessionInv, Compare
  PROVE  SessionInv'
<1> USE DEF SessionInv, Compare, inspection
<1>1. phase = "reduced" /\ result = Done
  BY DEF PhaseInv
<1>2. TypeOK' /\ CauseInv' /\ ResultInv' /\ PhaseInv' /\ CoordsInv'
  BY DEF TypeOK, Places, CauseInv, ResultInv, PhaseInv, CoordsInv, CoordsAt, Steps, Text,
         Compiling, Return, ReturnError
<1>3. OutcomeInv'
  <2>1. CASE ReturnError(Error("Retention"))
    <3>1. outcome' = [kind |-> "IncompleteObservation", phase |-> phase]
      BY <2>1 DEF ReturnError, Return, AnalysisError, Error
    <3> QED BY <3>1 DEF OutcomeInv, DenialIsNotAnError
  <2>2. CASE Return([kind |-> "IncompleteObservation", phase |-> "snapshot"])
    BY <2>2 DEF Return, OutcomeInv, DenialIsNotAnError
  <2>3. CASE Return(IF Different THEN Error("DecisionMismatch") ELSE Error("reduction"))
    BY <1>1, <2>3 DEF Return, Different, Error, OutcomeInv, DenialIsNotAnError, TypeOK
  <2> QED BY <2>1, <2>2, <2>3
<1> QED BY <1>2, <1>3

LEMMA NextSession ==
  ASSUME SessionInv, [Next]_vars
  PROVE  SessionInv'
<1>1. CASE UNCHANGED vars
  BY <1>1 DEF vars, inspection, SessionInv, TypeOK, PhaseInv, CauseInv, ResultInv, CoordsInv,
              CoordsAt, Steps, OutcomeInv, DenialIsNotAnError, Text
<1> QED BY <1>1, ReportSession, GiveUpSession, RequestFileSession, LoadProcMacroSession,
           RejectResourceSession, CallbackSession, CollectSession, PrepareSession,
           InspectedSession, PlanSession, CompareSession DEF Next, Compiler, Session

-----------------------------------------------------------------------------
(* What is rejected                                                        *)

\* The nodes of a path to the crate: each one on, and with it the one around it.
Path(p, path) ==
  \A j \in path : p.nodes[j].on /\ p.nodes[j].up \in path \cup {0}

\* The function that Active builds satisfies its equation, since some function
\* does: the one that looks for a whole path at every node.
LEMMA ActiveEquation ==
  ASSUME NEW p \in Programs
  PROVE  Active(p) = [i \in 0..Len(p.nodes) |->
                        IF i = 0 THEN p.active ELSE p.nodes[i].on /\ Active(p)[p.nodes[i].up]]
<1> DEFINE n == Len(p.nodes)
           onPath(i) == \E path \in SUBSET (1..n) : i \in path /\ Path(p, path)
           G == [i \in 0..n |-> p.active /\ (i = 0 \/ onPath(i))]
           once(f) == [i \in 0..n |-> IF i = 0 THEN p.active ELSE p.nodes[i].on /\ f[p.nodes[i].up]]
<1>1. /\ p.active \in BOOLEAN /\ n \in Nat
      /\ \A i \in 1..n : p.nodes[i].up \in 0..(i - 1) /\ p.nodes[i].on \in BOOLEAN
  BY ProgramAssumption
<1>2. ASSUME NEW i \in 1..n
      PROVE  onPath(i) <=> p.nodes[i].on /\ (p.nodes[i].up = 0 \/ onPath(p.nodes[i].up))
  <2>1. CASE onPath(i)
    BY <2>1 DEF Path
  <2>2. ASSUME p.nodes[i].on, p.nodes[i].up = 0
        PROVE  onPath(i)
    <3>1. Path(p, {i})
      BY <2>2 DEF Path
    <3> QED BY <3>1
  <2>3. ASSUME p.nodes[i].on, onPath(p.nodes[i].up)
        PROVE  onPath(i)
    <3>1. PICK path \in SUBSET (1..n) : p.nodes[i].up \in path /\ Path(p, path)
      BY <2>3
    <3>2. Path(p, path \cup {i})
      BY <2>3, <3>1 DEF Path
    <3> QED BY <3>2
  <2> QED BY <2>1, <2>2, <2>3
<1>3. G = once(G)
  <2>1. ASSUME NEW i \in 0..n
        PROVE  G[i] = once(G)[i]
    <3>1. CASE i = 0
      BY <1>1, <3>1
    <3>2. CASE i # 0
      <4>1. i \in 1..n /\ p.nodes[i].up \in 0..n
        BY <1>1, <3>2
      <4>2. G[p.nodes[i].up] = (p.active /\ (p.nodes[i].up = 0 \/ onPath(p.nodes[i].up)))
        BY <4>1
      <4>3. G[i] = (p.active /\ onPath(i))
        BY <3>2
      <4>4. once(G)[i] = (p.nodes[i].on /\ G[p.nodes[i].up])
        BY <3>2
      <4> HIDE DEF onPath, G, once
      <4> QED BY <1>2, <4>1, <4>2, <4>3, <4>4, Zenon
    <3> QED BY <3>1, <3>2
  <2> QED BY <2>1
<1> HIDE DEF G
<1>4. Active(p) = CHOOSE f : f = once(f)
  BY DEF Active
<1> HIDE DEF once
<1>5. Active(p) = once(Active(p))
  BY <1>3, <1>4
<1> QED BY <1>5 DEF once

\* An active node lies on a path of nodes that are on, in an active crate.
LEMMA ActivePath ==
  ASSUME NEW p \in Programs, NEW i \in 1..Len(p.nodes), Active(p)[i]
  PROVE  /\ p.active
         /\ \E path \in SUBSET (1..Len(p.nodes)) : i \in path /\ Path(p, path)
<1> DEFINE n == Len(p.nodes)
           A == Active(p)
           path == {j \in 1..n : A[j]}
<1>1. /\ p.active \in BOOLEAN /\ n \in Nat
      /\ \A j \in 1..n : p.nodes[j].up \in 0..(j - 1) /\ p.nodes[j].on \in BOOLEAN
  BY ProgramAssumption
<1>2. /\ A[0] = p.active
      /\ \A j \in 1..n : A[j] = (p.nodes[j].on /\ A[p.nodes[j].up])
  BY <1>1, ActiveEquation
<1> HIDE DEF A
<1>3. i \in path
  BY DEF A
<1>4. Path(p, path)
  <2>1. ASSUME NEW j \in path
        PROVE  p.nodes[j].on /\ A[p.nodes[j].up]
    BY <1>2
  <2>2. \A j \in path : p.nodes[j].up \in 0..n
    BY <1>1
  <2> QED BY <1>1, <2>1, <2>2 DEF Path
<1>5. p.active
  <2> SUFFICES ASSUME ~p.active PROVE FALSE
    OBVIOUS
  <2>1. \A j \in path : p.nodes[j].up \in path /\ p.nodes[j].up < j
    BY <1>1, <1>2
  <2> DEFINE Below == {(1..j) : j \in path}
  <2>2. IsWellFoundedOn(StrictSubsetOrdering(1..n), FiniteSubsetsOf(1..n))
    BY FS_StrictSubsetOrderingWellFounded
  <2>3. Below # {} /\ Below \subseteq FiniteSubsetsOf(1..n)
    <3>1. ASSUME NEW j \in path
          PROVE  IsFiniteSet(1..j) /\ 1..j \subseteq 1..n
      <4>1. j \in Int /\ 1 \in Int /\ j <= n
        BY <1>1
      <4>2. IsFiniteSet(1..j)
        BY <4>1, FS_Interval
      <4> QED BY <1>1, <4>1, <4>2
    <3> QED BY <1>3, <3>1 DEF FiniteSubsetsOf
  <2>4. PICK B \in Below : \A C \in Below : ~(<<C, B>> \in StrictSubsetOrdering(1..n))
    BY <2>2, <2>3, WFMin
  <2>5. PICK j \in path : B = 1..j
    OBVIOUS
  <2>6. 1..(p.nodes[j].up) \in Below
    BY <2>1
  <2>7. 1..(p.nodes[j].up) \subseteq 1..n /\ B \subseteq 1..n
    BY <1>1, <2>1, <2>5
  <2>8. 1..(p.nodes[j].up) \subseteq B /\ 1..(p.nodes[j].up) # B
    BY <1>1, <2>1, <2>5
  <2> QED BY <2>4, <2>6, <2>7, <2>8 DEF StrictSubsetOrdering
<1> QED BY <1>3, <1>4, <1>5

LEMMA InitReject == Init => RejectInv
BY DEF Init, RejectInv, None

\* Every later callback has expansion behind it; the next program starts anew.
LEMMA NextReject ==
  ASSUME SessionInv, RejectInv, [Next]_vars
  PROVE  RejectInv'
<1>1. CASE Plan /\ phase' # phase
  BY <1>1 DEF Plan, Fresh, RejectInv, None
<1>2. CASE AfterParsing
  <2>1. UNCHANGED <<program, options, phase, expanded>> /\ result = None
    BY <1>2 DEF AfterParsing, session, SessionInv, PhaseInv, Compiling
  <2>2. ValidateUnexpanded(program)' = ValidateUnexpanded(program)
    BY <2>1 DEF ValidateUnexpanded, FeatureRejections, UnexpandedRejections, Supported, Rejected,
                Text
  <2>3. result' \in {None, Error("Source")} \cup ValidateUnexpanded(program)
    BY <1>2, <2>1 DEF AfterParsing, Finish
  <2> QED BY <2>1, <2>2, <2>3 DEF RejectInv, None, Error
<1>3. CASE expanded' /\ UNCHANGED program
  BY <1>3 DEF RejectInv
<1>4. CASE UNCHANGED <<program, options, phase, result, expanded>>
  <2>1. ValidateUnexpanded(program)' = ValidateUnexpanded(program)
    BY <1>4 DEF ValidateUnexpanded, FeatureRejections, UnexpandedRejections, Supported, Rejected,
                Text
  <2> QED BY <1>4, <2>1 DEF RejectInv
<1>5. CASE Report \/ RequestFile \/ LoadProcMacro \/ RejectResource \/ UNCHANGED vars
  BY <1>4, <1>5 DEF Report, RequestFile, LoadProcMacro, RejectResource, session, vars, inspection
<1>6. CASE Prepare \/ GiveUp \/ Inspected \/ Compare
  BY <1>4, <1>6 DEF Prepare, GiveUp, Inspected, Compare, session, inspection
<1>7. CASE AfterExpansion
  BY <1>3, <1>4, <1>7 DEF AfterExpansion, session
<1>8. CASE AfterAnalysis \/ Collect
  <2>1. expanded /\ UNCHANGED <<program, expanded>>
    BY <1>8 DEF AfterAnalysis, Collect, session, SessionInv, PhaseInv
  <2> QED BY <1>3, <2>1
<1>9. CASE Plan
  BY <1>1, <1>4, <1>9 DEF Plan, inspection, SessionInv, PhaseInv
<1> QED BY <1>2, <1>5, <1>6, <1>7, <1>8, <1>9 DEF Next, Compiler, Session

-----------------------------------------------------------------------------
(* The project                                                             *)

LEMMA InitProject == Project!Init => ProjectInv
BY PlanAssumption DEF Project!Init, ProjectInv, UnitState, Project!Ended, Project!NoText

\* Before Cargo starts nothing has been compiled, so a selection is new to all.
LEMMA SelectProject ==
  ASSUME ProjectInv, Project!Select
  PROVE  ProjectInv'
<1> USE DEF Project!Select
<1>1. \A u \in DOMAIN plan : unit[u] = "waiting"
  BY DEF ProjectInv
<1> QED BY <1>1 DEF ProjectInv, UnitState, Project!Ended

\* The outer reducer replaces the source after Cargo has succeeded.
LEMMA UpdateProject ==
  ASSUME ProjectInv, Project!Update \/ Project!EditSource
  PROVE  ProjectInv'
<1>1. source' = "replaced" => cargo = "ok" /\ recorded # "none"
  BY DEF Project!Update, Project!EditSource, Project!Succeeded, Project!NoText, ProjectInv
<1> QED BY <1>1 DEF Project!Update, Project!EditSource, ProjectInv, Project!IsSelected

LEMMA CargoEndsProject ==
  ASSUME ProjectInv, Project!CargoEnds
  PROVE  ProjectInv'
BY DEF Project!CargoEnds, ProjectInv, Project!IsSelected

\* While Cargo runs, the source has not been replaced.
LEMMA StartProject ==
  ASSUME ProjectInv, NEW u \in DOMAIN plan, Project!Start(u)
  PROVE  ProjectInv'
BY PlanAssumption DEF Project!Start, ProjectInv, UnitState, Project!Ended, Project!IsSelected

\* An adapter at work moves on.  It is selected when it reduces, and the result
\* file is its own from then on.
LEMMA AdapterProject ==
  ASSUME ProjectInv, NEW u \in DOMAIN plan, Project!Adapter(u)
  PROVE  ProjectInv'
<1> USE DEF Project!Adapter, Project!Arguments, Project!Libraries, Project!Launch, Project!Build,
            Project!Reduce, Project!Record, Project!To
<1>1. unit[u] \notin Project!Ended \cup {"waiting"} /\ cargo = "running"
  BY DEF ProjectInv, Project!Ended
<1>2. \E next \in UnitState \ {"waiting"} :
        /\ unit' = [unit EXCEPT ![u] = next]
        /\ UNCHANGED <<project, plan, outer, cargo, chosen, source>>
        /\ next = "reduced" => Project!IsSelected(u)
        /\ next = "recorded" => unit[u] = "reduced" /\ recorded = "none" /\ recorded' = u
        /\ next # "recorded" => recorded' = recorded
  BY DEF UnitState, Project!Ended, Project!ResultFree, Project!NoText
<1>3. PICK next \in UnitState \ {"waiting"} :
        /\ unit' = [unit EXCEPT ![u] = next]
        /\ UNCHANGED <<project, plan, outer, cargo, chosen, source>>
        /\ next = "reduced" => Project!IsSelected(u)
        /\ next = "recorded" => unit[u] = "reduced" /\ recorded = "none" /\ recorded' = u
        /\ next # "recorded" => recorded' = recorded
  BY <1>2
<1>4. unit' \in [DOMAIN plan -> UnitState]
  BY <1>3 DEF ProjectInv
<1>5. recorded' \in DOMAIN plan \cup {"none"}
  BY <1>3 DEF ProjectInv
<1>6. ASSUME NEW v \in DOMAIN plan
      PROVE  /\ unit'[v] = "recorded" <=> recorded' = v
             /\ unit'[v] \in {"reduced", "recorded"} => Project!IsSelected(v)'
  <2>1. Project!IsSelected(v)' <=> Project!IsSelected(v)
    BY <1>3 DEF Project!IsSelected
  <2>2. "none" \notin DOMAIN plan
    BY PlanAssumption DEF ProjectInv
  <2>3. unit'[v] = IF v = u THEN next ELSE unit[v]
    BY <1>3 DEF ProjectInv
  <2> QED BY <1>1, <1>3, <2>1, <2>2, <2>3 DEF ProjectInv, Project!Ended
<1> QED BY <1>1, <1>3, <1>4, <1>5, <1>6 DEF ProjectInv

LEMMA NextProject ==
  ASSUME ProjectInv, [Project!Next]_project_vars
  PROVE  ProjectInv'
<1>1. CASE UNCHANGED project_vars
  BY <1>1 DEF project_vars, ProjectInv, Project!IsSelected
<1> QED BY <1>1, SelectProject, UpdateProject, CargoEndsProject, StartProject, AdapterProject
        DEF Project!Next

-----------------------------------------------------------------------------
(* The process                                                             *)

LEMMA InitIInv == Start => IInv
BY InitSession, InitReject, InitProject DEF Start, IInv, MainInv

LEMMA NextIInv ==
  ASSUME IInv, [Run]_allVars
  PROVE  IInv'
<1>1. CASE Write
  <2>1. SessionInv' /\ RejectInv' /\ ProjectInv'
    BY <1>1, NextSession, NextReject, NextProject DEF Write, IInv
  <2> QED BY <1>1, <2>1 DEF Write, IInv, MainInv, vars
<1>2. CASE FileStep
  <2>1. SessionInv' /\ RejectInv' /\ ProjectInv'
    BY <1>2, NextSession, NextReject, NextProject DEF FileStep, IInv
  <2> QED BY <1>2, <2>1 DEF FileStep, IInv, MainInv
<1>3. CASE ProjectStep
  <2>1. SessionInv' /\ RejectInv' /\ ProjectInv'
    BY <1>3, NextSession, NextReject, NextProject DEF ProjectStep, IInv
  <2> QED BY <1>3, <2>1 DEF ProjectStep, IInv, MainInv, vars
<1>4. CASE UNCHANGED allVars
  <2>1. SessionInv' /\ RejectInv' /\ ProjectInv'
    BY <1>4, NextSession, NextReject, NextProject DEF allVars, IInv
  <2> QED BY <1>4, <2>1 DEF allVars, IInv, MainInv, vars
<1> QED BY <1>1, <1>2, <1>3, <1>4 DEF Run

\* The state of a session has its types.
THEOREM TypeCorrect == ReducerSpec => []TypeOK
<1>1. IInv => TypeOK
  BY DEF IInv, SessionInv
<1> QED BY <1>1, InitIInv, NextIInv, PTL DEF ReducerSpec

\* reduce returns a reduction, and the process writes one, only after both
\* inspections and both comparisons have gone well, for every program and
\* whatever the compiler reports between the callbacks.
THEOREM WrittenIsAccepted == ReducerSpec => []WrittenIsVerified
<1>1. IInv => WrittenIsVerified
  <2> SUFFICES ASSUME IInv, outcome.kind = "reduction" PROVE WrittenIsVerified
    BY DEF IInv, MainInv, WrittenIsVerified
  <2>1. phase = "reduced" /\ same.external /\ same.decisions /\ result = Done
    BY DEF IInv, SessionInv, OutcomeInv
  <2>2. errors = <<>> /\ parsed /\ expanded
    BY <2>1 DEF IInv, SessionInv, PhaseInv
  <2> QED BY <2>1, <2>2 DEF WrittenIsVerified, Done, Error
<1> QED BY <1>1, InitIInv, NextIInv, PTL DEF ReducerSpec

\* The guards of the session never turn a refusal of the analyzer into an error
\* of the program or the compiler, and blame nothing on a denial that an error
\* preceded.
THEOREM DenialIsReported == ReducerSpec => []DenialIsNotAnError
<1>1. IInv => DenialIsNotAnError
  BY DEF IInv, SessionInv, OutcomeInv
<1> QED BY <1>1, InitIInv, NextIInv, PTL DEF ReducerSpec

\* The graph of a rewritten program is in the coordinates of the original, its
\* constraints were looked up in those of the text they come from, and every
\* range that reduce reports is one of the original.
THEOREM CoordinatesJoin == ReducerSpec => []JoinedInOneText
<1>1. IInv => JoinedInOneText
  <2> SUFFICES ASSUME IInv PROVE JoinedInOneText
    OBVIOUS
  <2>1. "range" \in DOMAIN outcome => outcome.range \in {"none", "original"}
    BY DEF IInv, SessionInv, OutcomeInv
  <2>2. coords = CoordsAt(coords.done) /\ coords.done \in 0..Steps
    BY DEF IInv, SessionInv, CoordsInv
  <2>3. coords.constraints \in {"none", Text}
    BY <2>2 DEF CoordsAt, Text, IInv, SessionInv, TypeOK
  <2>4. result.kind = "inspected" => result = Done
    <3>1. \A e \in PlaceFree : e.kind # "inspected"
      BY DEF PlaceFree, Error, EntryError
    <3>2. None.kind # "inspected"
      BY DEF None
    <3> QED BY <3>1, <3>2, ResultKinds DEF IInv, SessionInv, ResultInv
  <2>5. result = Done => coords = CoordsAt(Steps)
    BY <2>2 DEF IInv, SessionInv, CoordsInv
  <2>6. /\ CoordsAt(Steps).constraints = Text
        /\ CoordsAt(Steps).keys = "original" /\ CoordsAt(Steps).ranges = "original"
    BY DEF CoordsAt, Steps, Text, IInv, SessionInv, TypeOK
  <2> QED BY <2>1, <2>3, <2>4, <2>5, <2>6 DEF JoinedInOneText
<1> QED BY <1>1, InitIInv, NextIInv, PTL DEF ReducerSpec

\* A project's source is replaced only by the reduction of the selected binary,
\* for every project, every plan of Cargo's and every interleaving of adapters.
THEOREM ReplacedIsSelected == ReducerSpec => []UpdateIsSelected
<1>1. IInv => UpdateIsSelected
  <2> SUFFICES ASSUME ProjectInv, source = "replaced" PROVE Project!UpdateIsSelected
    BY DEF IInv, UpdateIsSelected, Project!UpdateIsSelected
  <2>1. cargo = "ok" /\ recorded \in DOMAIN plan
    BY DEF ProjectInv
  <2>2. \A u \in DOMAIN plan : unit[u] \notin {"failed", "reduced"}
    BY <2>1 DEF ProjectInv, Project!Ended
  <2>3. plan[recorded].bin = chosen /\ plan[recorded].manifest = "selected"
    BY <2>1 DEF ProjectInv, Project!IsSelected
  <2>4. {u \in DOMAIN plan : unit[u] = "recorded"} = {recorded}
    BY <2>1 DEF ProjectInv
  <2> QED BY <2>1, <2>2, <2>3, <2>4 DEF Project!UpdateIsSelected
<1> QED BY <1>1, InitIInv, NextIInv, PTL DEF ReducerSpec

\* No cfg attribute around an item is forgotten: for every tree of nodes, what is
\* rejected before expansion is an item that stays, with a node that is on at
\* every step up to the crate.
THEOREM RejectedIsCompiled == ReducerSpec => []RejectsCompiledCodeOnly
<1>1. IInv => RejectsCompiledCodeOnly
  <2> SUFFICES ASSUME IInv, result.kind = "UnsupportedInput", ~expanded, program.features = {}
               PROVE  RejectsCompiledCodeOnly
    BY DEF RejectsCompiledCodeOnly
  <2>1. program \in Programs /\ result \in ValidateUnexpanded(program)
    BY DEF IInv, RejectInv
  <2>2. PICK r \in UnexpandedRejections(program) : result = Rejected(r)
    BY <2>1 DEF ValidateUnexpanded, Earliest
  <2>3. result.reason = r.reason
    BY <2>2 DEF Rejected, Error, Unsupported
  <2>4. PICK i \in 1..Len(program.nodes) :
          /\ Active(program)[i]
          /\ \/ r = Rejection(program.nodes[i].attr, program.nodes[i].at)
             \/ program.nodes[i].is = "unloaded"
             \/ ~Supported(program.nodes[i].is)
    BY <2>2 DEF UnexpandedRejections
  <2>5. program.nodes[i].attr = result.reason \/ program.nodes[i].is \notin {"plain", "std"}
    BY <2>3, <2>4 DEF Rejection, Supported
  <2>6. PICK path \in SUBSET (1..Len(program.nodes)) : i \in path /\ Path(program, path)
    BY <2>1, <2>4, ActivePath
  <2>7. program.active
    BY <2>1, <2>4, ActivePath
  <2> QED BY <2>5, <2>6, <2>7 DEF RejectsCompiledCodeOnly, Path
<1> QED BY <1>1, InitIInv, NextIInv, PTL DEF ReducerSpec
=============================================================================
