--------------------- MODULE CompilerPreparation_proofs ---------------------
(***************************************************************************)
(* The safety properties of CompilerPreparation, for every set of          *)
(* launchers and every sequence of versions of the repository.             *)
(*                                                                         *)
(* The lock makes one launcher the only writer of the disk, so each part   *)
(* of the invariant is about the holder of the lock: what it has read,     *)
(* where the checkout is, and how far the build has come.                  *)
(***************************************************************************)
EXTENDS CompilerPreparation, TLAPS

\* Submodules agree with a checkout that is neither changed nor the user's;
\* they are detached before the checkout moves.  Only the user changes or
\* commits, in a checkout that exists.
CheckoutInv ==
  /\ dirty \/ submodules \in {None, head} \/ head = Mine
  /\ dirty \/ head = Mine => touched /\ head # None
  /\ \A l \in Launcher : At(l, "switch") => submodules = None

\* A checkout that is about to be moved has nothing of the user's in it.
MoveInv ==
  \A l \in Launcher :
    run[l].pc \in {"stage", "detach", "switch"} => ~dirty /\ head # Mine /\ ~ignored

\* The inductive invariant of what holds however the repository is updated.
IInv == TypeOK /\ CheckoutInv /\ MoveInv

\* What the holder of the lock has read is still what the repository says,
\* and past the checkout's preparation it is what the checkout holds.
PatchedInv ==
  \A l \in Launcher :
    /\ run[l].pc \in Working \ {"query"} => run[l].patched = Patched[version]
    /\ run[l].pc \in Working \ {"query", "status", "stage", "detach", "switch"} =>
         head = Patched[version]
    /\ run[l].pc \in {"prepare", "remove", "bootstrap", "finish", "identify",
                      "target", "metadata", "unlock"} =>
         recorded = Patched[version]

\* The build identity of the current version vouches for a finished build of
\* it.  It is absent from the first step that touches the build to the last.
IdentityInv ==
  /\ identity <= version
  /\ identity = version => build.whole /\ build.rev = Patched[version]
  /\ \A l \in Launcher :
       /\ run[l].pc \in {"remove", "bootstrap", "finish", "identify"} =>
            identity # version
       /\ At(l, "remove") => ~run[l].matches
       /\ At(l, "bootstrap") /\ run[l].matches => build.rev = Patched[version]
       /\ run[l].pc \in {"finish", "identify", "target", "metadata", "unlock"} =>
            build.rev = Patched[version]
       /\ run[l].pc \in {"identify", "target", "metadata", "unlock"} =>
            build.whole /\ build.sysroots

\* The inductive invariant when no update falls into a preparation.
QuietInv == IInv /\ PatchedInv /\ IdentityInv

-----------------------------------------------------------------------------
\* Both revisions of a version are revisions, and neither stands for the
\* absence of one or for a commit of the user's.
LEMMA VersionRevisions ==
  /\ \A v \in Version : Base[v] \in BaseRevision /\ Patched[v] \in PatchedRevision
  /\ \A r \in BaseRevision \cup PatchedRevision : r # None /\ r # Mine
<1>1. \A v \in Version : /\ Base[v] # None /\ Base[v] # Mine
                         /\ Patched[v] # None /\ Patched[v] # Mine
  BY VersionAssumption
<1> QED BY <1>1 DEF BaseRevision, PatchedRevision

\* A launcher that does not hold the lock is outside the preparation.
LEMMA OneHolder ==
  ASSUME TypeOK, NEW l \in Launcher, run[l].pc \in Working
  PROVE  lock = l /\ \A k \in Launcher \ {l} : run[k].pc \notin Working
BY DEF TypeOK

\* While the lock is free nobody is in the preparation.
LEMMA FreeLock ==
  ASSUME TypeOK, lock = None
  PROVE  \A l \in Launcher : run[l].pc \notin Working
BY LauncherAssumption DEF TypeOK

\* Launcher l goes on to next and holds the lock there exactly inside the
\* preparation; the other launchers stay where they are.
Moves(l, next) ==
  /\ lock' \in Launcher \cup {None}
  /\ run' \in [Launcher -> Run]
  /\ \A k \in Launcher : run'[k].pc = IF k = l THEN next ELSE run[k].pc
  /\ \A k \in Launcher : run'[k].pc \in Working <=> lock' = k

\* Where the lock is when launcher l is at next.
LockFollows(l, next) ==
  \/ next \in Working /\ lock' = l /\ lock \in {None, l}
  \/ next \notin Working /\ lock' = IF lock = l THEN None ELSE lock

\* A launcher moves by replacing its record,
LEMMA RunMoves ==
  ASSUME TypeOK, NEW l \in Launcher, NEW r \in Run,
         run' = [run EXCEPT ![l] = r], LockFollows(l, r.pc)
  PROVE  Moves(l, r.pc)
BY LauncherAssumption DEF TypeOK, Moves, LockFollows

\* or by its program counter alone.
LEMMA GotoMoves ==
  ASSUME TypeOK, NEW l \in Launcher, NEW next \in Working \cup {"use"},
         Goto(l, next), LockFollows(l, next)
  PROVE  Moves(l, next)
<1>1. run' \in [Launcher -> Run]
  BY DEF TypeOK, Goto, Run
<1>2. \A k \in Launcher : run'[k].pc = IF k = l THEN next ELSE run[k].pc
  BY DEF TypeOK, Goto, Run
<1> QED BY <1>1, <1>2, LauncherAssumption DEF TypeOK, Moves, LockFollows

\* Where everybody is when a launcher has gone on,
LEMMA GoesTo ==
  ASSUME TypeOK, NEW l \in Launcher, NEW next, Goto(l, next)
  PROVE  \A k \in Launcher : run'[k].pc = IF k = l THEN next ELSE run[k].pc
BY DEF TypeOK, Goto, Run

\* or has ended.
LEMMA EndsAs ==
  ASSUME TypeOK, NEW l \in Launcher, NEW how, Leave(l, how)
  PROVE  \A k \in Launcher : run'[k].pc = IF k = l THEN how ELSE run[k].pc
BY DEF TypeOK, Leave, Idle

\* A launcher that has only started, and a build directory that is not there.
LEMMA BlankTypes ==
  /\ NoBuild \in Build
  /\ \A how \in Ended : [Idle EXCEPT !.pc = how] \in Run
  /\ \A cross \in {"no", "named", "project"} :
       [Idle EXCEPT !.pc = "lock", !.cross = cross] \in Run
BY DEF NoBuild, Build, Revision, Idle, Run, Ended

LEMMA InitQuietInv == Init => QuietInv
<1> SUFFICES ASSUME Init PROVE QuietInv
  OBVIOUS
<1> USE DEF Init, At
<1>1. TypeOK
  <2>1. Idle \in Run
    BY DEF Idle, Run, Ended
  <2>2. 1 \in Version /\ 0 \in 0..Versions /\ 0 \in 0..MaxRuns
    BY VersionAssumption DEF Version
  <2>3. \A l \in Launcher : run[l].pc \in Working <=> lock = l
    BY LauncherAssumption DEF Idle, Working
  <2> QED BY <2>1, <2>2, <2>3, BlankTypes DEF TypeOK, Revision
<1>2. CheckoutInv /\ MoveInv
  BY DEF CheckoutInv, MoveInv, Idle, None, Mine
<1>3. PatchedInv /\ IdentityInv
  BY DEF PatchedInv, IdentityInv, Idle, Working
<1> QED BY <1>1, <1>2, <1>3 DEF IInv, QuietInv

-----------------------------------------------------------------------------
(* What holds however the repository is updated.                           *)

\* What stays as it is when a launcher ends, at once or halfway.
Kept == UNCHANGED <<version, head, dirty, ignored, submodules, recorded, identity, build,
                    runs, touched>>

\* Every end of a launcher gives the lock up; what it leaves in the checkout
\* touches nothing but torn.
LEMMA LeaveIInv ==
  ASSUME IInv, NEW l \in Launcher, NEW how \in Ended, Leave(l, how), torn' \in BOOLEAN, Kept
  PROVE  IInv'
<1> USE DEF IInv, Leave, At, Kept
<1>1. Moves(l, how)
  <2>1. [Idle EXCEPT !.pc = how].pc = how
    BY DEF Idle
  <2>2. how \notin Working
    BY DEF Ended, Working
  <2> QED BY <2>1, <2>2, BlankTypes, RunMoves DEF LockFollows
<1>2. TypeOK'
  BY <1>1 DEF TypeOK, Moves
<1>3. CheckoutInv'
  BY <1>1 DEF Moves, CheckoutInv, Ended
<1>4. MoveInv'
  BY <1>1 DEF Moves, MoveInv, Ended
<1> QED BY <1>2, <1>3, <1>4

\* run returns,
LEMMA ExitIInv ==
  ASSUME IInv, NEW l \in Launcher, NEW how \in Ended, Exit(l, how)
  PROVE  IInv'
<1>1. torn' \in BOOLEAN /\ Kept
  BY DEF IInv, TypeOK, Exit, Kept, disk, tree
<1> QED BY <1>1, LeaveIInv DEF Exit

\* or the launcher is interrupted, perhaps while files are written.
LEMMA InterruptedIInv ==
  ASSUME IInv, NEW l \in Launcher, NEW how \in Ended, Interrupted(l, how)
  PROVE  IInv'
<1>1. torn' \in BOOLEAN
  BY DEF IInv, TypeOK, Interrupted
<1> QED BY <1>1, LeaveIInv DEF Interrupted, Kept

\* The steps of a launcher, in the order of run.
LEMMA StartIInv ==
  ASSUME IInv, NEW l \in Launcher, Start(l)
  PROVE  IInv'
<1> USE DEF IInv, Start, At, tree
<1>1. Moves(l, "lock")
  <2>1. PICK cross \in {"no", "named", "project"} :
          run' = [run EXCEPT ![l] = [Idle EXCEPT !.pc = "lock", !.cross = cross]]
    OBVIOUS
  <2>2. [Idle EXCEPT !.pc = "lock", !.cross = cross].pc = "lock"
    BY DEF Idle
  <2>3. lock # l
    BY DEF TypeOK, Working, Ended
  <2> QED BY <2>1, <2>2, <2>3, BlankTypes, RunMoves DEF LockFollows, Working
<1>2. TypeOK'
  BY <1>1, VersionAssumption DEF TypeOK, Moves, disk
<1>3. CheckoutInv'
  BY <1>1, <1>2, OneHolder DEF TypeOK, Moves, CheckoutInv, Working, disk
<1>4. MoveInv'
  BY <1>1, <1>2, OneHolder DEF TypeOK, Moves, MoveInv, Working, disk
<1> QED BY <1>2, <1>3, <1>4

LEMMA LockIInv ==
  ASSUME IInv, NEW l \in Launcher, Lock(l)
  PROVE  IInv'
<1> USE DEF IInv, Lock, At, tree
<1>1. Moves(l, "query")
  BY GotoMoves DEF LockFollows, Working
<1>2. TypeOK'
  BY <1>1 DEF TypeOK, Moves, disk
<1>3. CheckoutInv'
  BY <1>1, <1>2, OneHolder DEF TypeOK, Moves, CheckoutInv, Working, disk
<1>4. MoveInv'
  BY <1>1, <1>2, OneHolder DEF TypeOK, Moves, MoveInv, Working, disk
<1> QED BY <1>2, <1>3, <1>4

LEMMA QueryIInv ==
  ASSUME IInv, NEW l \in Launcher, Query(l)
  PROVE  IInv'
<1> USE DEF IInv, Query, At, tree
<1>1. Moves(l, "status")
  <2> DEFINE r == [run[l] EXCEPT !.pc = "status", !.base = Base[version],
                                 !.patched = Patched[version]]
  <2>1. Base[version] \in BaseRevision /\ Patched[version] \in PatchedRevision
    BY VersionRevisions DEF TypeOK
  <2>2. r \in Run /\ r.pc = "status" /\ run' = [run EXCEPT ![l] = r]
    BY <2>1 DEF TypeOK, Run, Working
  <2>3. lock = l /\ lock' = l
    BY OneHolder DEF Working
  <2> HIDE DEF r
  <2> QED BY <2>2, <2>3, RunMoves DEF LockFollows, Working
<1>2. TypeOK'
  <2>1. head' \in Revision
    BY VersionRevisions DEF TypeOK, Revision
  <2> QED BY <1>1, <2>1 DEF TypeOK, Moves
<1>3. CheckoutInv'
  <2>1. CASE head = None
    BY <1>1, <2>1, VersionRevisions DEF TypeOK, Moves, CheckoutInv
  <2>2. CASE head # None
    <3>1. UNCHANGED <<head, dirty, submodules, touched>>
      BY <2>2
    <3>2. \A k \in Launcher : run'[k].pc = "switch" => run[k].pc = "switch"
      BY <1>1 DEF Moves
    <3>3. CheckoutInv
      OBVIOUS
    <3> HIDE DEF IInv, Query, tree
    <3> QED BY <3>1, <3>2, <3>3 DEF CheckoutInv
  <2> QED BY <2>1, <2>2
<1>4. MoveInv'
  BY <1>1, <1>2, OneHolder DEF TypeOK, Moves, MoveInv, Working
<1> QED BY <1>2, <1>3, <1>4

LEMMA StatusIInv ==
  ASSUME IInv, NEW l \in Launcher, Status(l)
  PROVE  IInv'
<1> USE DEF IInv, Status, At, tree
<1>1. CASE ~Clean
  BY <1>1, ExitIInv DEF Ended
<1>2. CASE Clean /\ head = run[l].patched
  <2> USE <1>2
  <2>1. Moves(l, "prepare")
    BY GotoMoves, OneHolder DEF LockFollows, Working
  <2>2. TypeOK'
    <3>1. head \in {None} \cup PatchedRevision
      BY DEF TypeOK, Run
    <3> QED BY <2>1, <3>1 DEF TypeOK, Moves
  <2>3. CheckoutInv' /\ MoveInv'
    BY <2>1 DEF Moves, CheckoutInv, MoveInv
  <2> QED BY <2>2, <2>3
<1>3. CASE Clean /\ head # run[l].patched /\ ~Known(l)
  BY <1>3, ExitIInv DEF Ended
<1>4. CASE Clean /\ head # run[l].patched /\ Known(l) /\ LocalFiles
  BY <1>4, ExitIInv DEF Ended
<1>5. CASE Clean /\ head # run[l].patched /\ Known(l) /\ ~LocalFiles
  <2> USE <1>5
  <2>1. Moves(l, "stage")
    BY GotoMoves, OneHolder DEF LockFollows, Working
  <2>2. TypeOK'
    BY <2>1 DEF TypeOK, Moves, disk
  <2>3. CheckoutInv'
    BY <2>1 DEF Moves, CheckoutInv, disk
  <2>4. ~dirty /\ head # Mine /\ ~ignored
    <3>1. run[l].base # Mine /\ recorded # Mine
      BY VersionRevisions DEF TypeOK, Run, None, Mine
    <3>2. identity # 0 => Patched[identity] # Mine
      BY VersionRevisions, VersionAssumption DEF TypeOK, Version
    <3> QED BY <3>1, <3>2 DEF Clean, Known, LocalFiles
  <2>5. MoveInv'
    BY <2>1, <2>4 DEF Moves, MoveInv, disk
  <2> QED BY <2>2, <2>3, <2>5
<1> QED BY <1>1, <1>2, <1>3, <1>4, <1>5

LEMMA StageIInv ==
  ASSUME IInv, NEW l \in Launcher, Stage(l)
  PROVE  IInv'
<1> USE DEF IInv, Stage, At, tree
<1>1. CASE Patched[version] # run[l].patched
  BY <1>1, ExitIInv DEF Ended
<1>2. CASE Patched[version] = run[l].patched
  <2>1. Moves(l, "detach")
    BY <1>2, GotoMoves, OneHolder DEF LockFollows, Working
  <2>2. TypeOK'
    BY <1>2, <2>1 DEF TypeOK, Moves, disk
  <2>3. CheckoutInv' /\ MoveInv'
    BY <1>2, <2>1 DEF Moves, CheckoutInv, MoveInv, disk
  <2> QED BY <2>2, <2>3
<1> QED BY <1>1, <1>2

LEMMA DetachIInv ==
  ASSUME IInv, NEW l \in Launcher, Detach(l)
  PROVE  IInv'
<1> USE DEF IInv, Detach, At, SubmodulesDetached, tree
<1>1. Moves(l, "switch")
  BY GotoMoves, OneHolder DEF LockFollows, Working
<1>2. TypeOK'
  BY <1>1 DEF TypeOK, Moves, Revision
<1>3. CheckoutInv'
  BY <1>1, <1>2, OneHolder DEF TypeOK, Moves, CheckoutInv, Working, disk
<1>4. MoveInv'
  BY <1>1, <1>2, OneHolder DEF TypeOK, Moves, MoveInv, Working, disk
<1> QED BY <1>2, <1>3, <1>4

LEMMA SwitchIInv ==
  ASSUME IInv, NEW l \in Launcher, Switch(l)
  PROVE  IInv'
<1> USE DEF IInv, Switch, At, tree
<1>1. Moves(l, "record")
  BY GotoMoves, OneHolder DEF LockFollows, Working
<1>2. TypeOK'
  <2>1. head' \in Revision
    BY DEF TypeOK, Run, Revision
  <2> QED BY <1>1, <2>1 DEF TypeOK, Moves
<1>3. CheckoutInv'
  <2>1. submodules = None /\ ~dirty /\ head' # Mine
    BY VersionRevisions DEF CheckoutInv, MoveInv, TypeOK, Run, None, Mine
  <2> QED BY <1>1, <1>2, <2>1, OneHolder DEF TypeOK, Moves, CheckoutInv, Working
<1>4. MoveInv'
  BY <1>1, <1>2, OneHolder DEF TypeOK, Moves, MoveInv, Working, disk
<1> QED BY <1>2, <1>3, <1>4

LEMMA RecordIInv ==
  ASSUME IInv, NEW l \in Launcher, Record(l)
  PROVE  IInv'
<1> USE DEF IInv, Record, At, tree
<1>1. Moves(l, "prepare")
  BY GotoMoves, OneHolder DEF LockFollows, Working
<1>2. TypeOK'
  <2>1. recorded' \in {None} \cup PatchedRevision
    BY DEF TypeOK, Run
  <2> QED BY <1>1, <2>1 DEF TypeOK, Moves
<1>3. CheckoutInv'
  BY <1>1, <1>2, OneHolder DEF TypeOK, Moves, CheckoutInv, Working, disk
<1>4. MoveInv'
  BY <1>1, <1>2, OneHolder DEF TypeOK, Moves, MoveInv, Working, disk
<1> QED BY <1>2, <1>3, <1>4

LEMMA PrepareIInv ==
  ASSUME IInv, NEW l \in Launcher, Prepare(l)
  PROVE  IInv'
<1> USE DEF IInv, Prepare, At, IdentityMatches, IdentityInvalidated, tree
<1> DEFINE next == CASE identity = version /\ build.sysroots -> "target"
                     [] identity = version -> "bootstrap"
                     [] OTHER -> "remove"
<1>1. Moves(l, next)
  <2> DEFINE r == [run[l] EXCEPT !.matches = (identity = version), !.pc = next]
  <2>1. next \in {"target", "bootstrap", "remove"}
    OBVIOUS
  <2> HIDE DEF next
  <2>2. r \in Run
    BY <2>1 DEF TypeOK, Run, Working
  <2>3. r.pc = next /\ run' = [run EXCEPT ![l] = r]
    BY DEF TypeOK, Run, next
  <2>4. lock = l /\ lock' = l
    BY OneHolder DEF Working
  <2> HIDE DEF r
  <2> QED BY <2>1, <2>2, <2>3, <2>4, RunMoves DEF LockFollows, Working
<1>2. TypeOK'
  BY <1>1, VersionAssumption DEF TypeOK, Moves
<1>3. CheckoutInv'
  BY <1>1, <1>2, OneHolder DEF TypeOK, Moves, CheckoutInv, Working, disk
<1>4. MoveInv'
  BY <1>1, <1>2, OneHolder DEF TypeOK, Moves, MoveInv, Working, disk
<1> QED BY <1>2, <1>3, <1>4

LEMMA RemoveIInv ==
  ASSUME IInv, NEW l \in Launcher, Remove(l)
  PROVE  IInv'
<1> USE DEF IInv, Remove, At, tree
<1>1. \E next \in {"bootstrap", "remove"} : Moves(l, next)
  BY GotoMoves, OneHolder DEF LockFollows, Working
<1>2. TypeOK'
  <2>1. [build EXCEPT !.whole = FALSE] \in Build
    BY DEF TypeOK, Build
  <2>2. build' \in Build
    BY <2>1, BlankTypes DEF TypeOK
  <2>3. identity' \in 0..Versions
    BY VersionAssumption DEF TypeOK
  <2> QED BY <1>1, <2>2, <2>3 DEF TypeOK, Moves
<1>3. CheckoutInv'
  BY <1>1, <1>2, OneHolder DEF TypeOK, Moves, CheckoutInv, Working, disk
<1>4. MoveInv'
  BY <1>1, <1>2, OneHolder DEF TypeOK, Moves, MoveInv, Working, disk
<1> QED BY <1>2, <1>3, <1>4

LEMMA BootstrapIInv ==
  ASSUME IInv, NEW l \in Launcher, Bootstrap(l)
  PROVE  IInv'
<1> USE DEF IInv, Bootstrap, At, tree
<1>1. Moves(l, "finish")
  BY GotoMoves, OneHolder DEF LockFollows, Working
<1>2. TypeOK'
  <2>1. build' \in Build
    BY BlankTypes DEF TypeOK, Build, NoBuild
  <2> QED BY <1>1, <2>1 DEF TypeOK, Moves
<1>3. CheckoutInv'
  BY <1>1, <1>2, OneHolder DEF TypeOK, Moves, CheckoutInv, Working, disk
<1>4. MoveInv'
  BY <1>1, <1>2, OneHolder DEF TypeOK, Moves, MoveInv, Working, disk
<1> QED BY <1>2, <1>3, <1>4

LEMMA FinishIInv ==
  ASSUME IInv, NEW l \in Launcher, Finish(l)
  PROVE  IInv'
<1> USE DEF IInv, Finish, At, tree
<1>1. Moves(l, "identify")
  BY GotoMoves, OneHolder DEF LockFollows, Working
<1>2. TypeOK'
  <2>1. build' \in Build
    BY BlankTypes DEF TypeOK, Build
  <2> QED BY <1>1, <2>1 DEF TypeOK, Moves
<1>3. CheckoutInv'
  BY <1>1, <1>2, OneHolder DEF TypeOK, Moves, CheckoutInv, Working, disk
<1>4. MoveInv'
  BY <1>1, <1>2, OneHolder DEF TypeOK, Moves, MoveInv, Working, disk
<1> QED BY <1>2, <1>3, <1>4

LEMMA IdentifyIInv ==
  ASSUME IInv, NEW l \in Launcher, Identify(l)
  PROVE  IInv'
<1> USE DEF IInv, Identify, At, tree
<1>1. Moves(l, "target")
  BY GotoMoves, OneHolder DEF LockFollows, Working
<1>2. TypeOK'
  <2>1. identity' \in 0..Versions
    BY VersionAssumption DEF TypeOK, Version
  <2> QED BY <1>1, <2>1 DEF TypeOK, Moves
<1>3. CheckoutInv'
  BY <1>1, <1>2, OneHolder DEF TypeOK, Moves, CheckoutInv, Working, disk
<1>4. MoveInv'
  BY <1>1, <1>2, OneHolder DEF TypeOK, Moves, MoveInv, Working, disk
<1> QED BY <1>2, <1>3, <1>4

LEMMA TargetIInv ==
  ASSUME IInv, NEW l \in Launcher, Target(l)
  PROVE  IInv'
<1> USE DEF IInv, Target, At, tree
<1>1. \E next \in {"metadata", "unlock"} : Moves(l, next)
  BY GotoMoves, OneHolder DEF LockFollows, Working
<1>2. TypeOK'
  BY <1>1 DEF TypeOK, Moves, disk
<1>3. CheckoutInv'
  BY <1>1, <1>2, OneHolder DEF TypeOK, Moves, CheckoutInv, Working, disk
<1>4. MoveInv'
  BY <1>1, <1>2, OneHolder DEF TypeOK, Moves, MoveInv, Working, disk
<1> QED BY <1>2, <1>3, <1>4

LEMMA MetadataIInv ==
  ASSUME IInv, NEW l \in Launcher, Metadata(l)
  PROVE  IInv'
<1> USE DEF IInv, Metadata, At, tree
<1>1. Moves(l, "unlock")
  BY GotoMoves, OneHolder DEF LockFollows, Working
<1>2. TypeOK'
  <2>1. build' \in Build
    BY BlankTypes DEF TypeOK, Build
  <2> QED BY <1>1, <2>1 DEF TypeOK, Moves
<1>3. CheckoutInv'
  BY <1>1, <1>2, OneHolder DEF TypeOK, Moves, CheckoutInv, Working, disk
<1>4. MoveInv'
  BY <1>1, <1>2, OneHolder DEF TypeOK, Moves, MoveInv, Working, disk
<1> QED BY <1>2, <1>3, <1>4

LEMMA UnlockIInv ==
  ASSUME IInv, NEW l \in Launcher, Unlock(l)
  PROVE  IInv'
<1> USE DEF IInv, Unlock, At, LockDropped, tree
<1>1. Moves(l, "use")
  BY GotoMoves, OneHolder DEF LockFollows, Working
<1>2. TypeOK'
  BY <1>1 DEF TypeOK, Moves, disk
<1>3. CheckoutInv'
  BY <1>1, <1>2, OneHolder DEF TypeOK, Moves, CheckoutInv, Working, disk
<1>4. MoveInv'
  BY <1>1, <1>2, OneHolder DEF TypeOK, Moves, MoveInv, Working, disk
<1> QED BY <1>2, <1>3, <1>4

LEMMA NestIInv ==
  ASSUME IInv, NEW l \in Launcher, Nest(l)
  PROVE  IInv'
<1> USE DEF IInv, Nest, At, tree
<1>1. Moves(l, "lock")
  <2> DEFINE r == [run[l] EXCEPT !.pc = "lock", !.nested = TRUE]
  <2>1. r \in Run /\ r.pc = "lock" /\ run' = [run EXCEPT ![l] = r]
    BY DEF TypeOK, Run
  <2>2. lock # l
    BY DEF TypeOK, Working
  <2> QED BY <2>1, <2>2, RunMoves DEF LockFollows, Working
<1>2. TypeOK'
  BY <1>1 DEF TypeOK, Moves, disk
<1>3. CheckoutInv'
  BY <1>1, <1>2, OneHolder DEF TypeOK, Moves, CheckoutInv, Working, disk
<1>4. MoveInv'
  BY <1>1, <1>2, OneHolder DEF TypeOK, Moves, MoveInv, Working, disk
<1> QED BY <1>2, <1>3, <1>4

LEMMA UpdateRepositoryIInv ==
  ASSUME IInv, UpdateRepository
  PROVE  IInv'
<1> USE DEF IInv, UpdateRepository, disk, tree
<1>1. TypeOK'
  BY VersionAssumption DEF TypeOK, Version
<1>2. CheckoutInv' /\ MoveInv'
  BY DEF CheckoutInv, MoveInv, At
<1> QED BY <1>1, <1>2

\* The user's change falls between preparations, on a checkout that exists.
LEMMA ChangeCheckoutIInv ==
  ASSUME IInv, ChangeCheckout
  PROVE  IInv'
<1> USE DEF IInv, ChangeCheckout, tree
<1>1. TypeOK'
  BY DEF TypeOK, Revision
<1>2. CheckoutInv'
  BY FreeLock DEF TypeOK, CheckoutInv, At, Working, None, Mine
<1>3. MoveInv'
  BY FreeLock DEF TypeOK, MoveInv, Working
<1> QED BY <1>1, <1>2, <1>3

LEMMA RepairIInv ==
  ASSUME IInv, Repair
  PROVE  IInv'
<1> USE DEF IInv, Repair
<1>1. TypeOK'
  BY DEF TypeOK
<1>2. CheckoutInv' /\ MoveInv'
  BY DEF CheckoutInv, MoveInv, At
<1> QED BY <1>1, <1>2

LEMMA LoseSysrootsIInv ==
  ASSUME IInv, LoseSysroots
  PROVE  IInv'
<1> USE DEF IInv, LoseSysroots, tree
<1>1. TypeOK'
  BY DEF TypeOK, Build
<1>2. CheckoutInv' /\ MoveInv'
  BY DEF CheckoutInv, MoveInv, At
<1> QED BY <1>1, <1>2

LEMMA NextIInv ==
  ASSUME IInv, [Next]_vars
  PROVE  IInv'
<1>1. ASSUME NEW l \in Launcher, Start(l)
      PROVE  IInv'
  BY <1>1, StartIInv
<1>2. ASSUME NEW l \in Launcher, LauncherStep(l)
      PROVE  IInv'
  <2>1. CASE Use(l)
    BY <2>1, ExitIInv DEF Use, Ended
  <2> QED BY <1>2, <2>1, LockIInv, QueryIInv, StatusIInv, StageIInv, DetachIInv, SwitchIInv,
             RecordIInv, PrepareIInv, RemoveIInv, BootstrapIInv, FinishIInv, IdentifyIInv,
             TargetIInv, MetadataIInv, UnlockIInv, NestIInv DEF LauncherStep
<1>3. ASSUME NEW l \in Launcher, Fail(l) \/ Kill(l)
      PROVE  IInv'
  BY <1>3, InterruptedIInv DEF Fail, Kill, Ended
<1>4. CASE UNCHANGED vars
  BY <1>4 DEF vars, disk, tree, IInv, TypeOK, CheckoutInv, MoveInv, At
<1> QED BY <1>1, <1>2, <1>3, <1>4, UpdateRepositoryIInv, ChangeCheckoutIInv, RepairIInv,
           LoseSysrootsIInv DEF Next

-----------------------------------------------------------------------------
(* What holds when no update falls into a preparation.                     *)

LEMMA LeaveQuiet ==
  ASSUME QuietInv, NEW l \in Launcher, NEW how \in Ended, Leave(l, how), Kept
  PROVE  PatchedInv' /\ IdentityInv'
<1> USE DEF QuietInv, IInv, At, Leave, Kept
<1>1. PatchedInv'
  BY OneHolder DEF TypeOK, PatchedInv, Working, Ended, Idle, Run
<1>2. IdentityInv'
  BY OneHolder
  DEF TypeOK, PatchedInv, IdentityInv, Working, Ended, Idle, Run, Build
<1> QED BY <1>1, <1>2

LEMMA StartQuiet ==
  ASSUME QuietInv, NEW l \in Launcher, Start(l)
  PROVE  PatchedInv' /\ IdentityInv'
<1> USE DEF QuietInv, IInv, At, Goto, Start, tree
<1>1. PatchedInv'
  BY OneHolder DEF TypeOK, PatchedInv, Working, Ended, Idle, Run, disk
<1>2. IdentityInv'
  BY OneHolder
  DEF TypeOK, PatchedInv, IdentityInv, Working, Ended, Idle, Run, Build, disk
<1> QED BY <1>1, <1>2

LEMMA LockQuiet ==
  ASSUME QuietInv, NEW l \in Launcher, Lock(l)
  PROVE  PatchedInv' /\ IdentityInv'
<1> USE DEF QuietInv, IInv, At, Goto, Lock, tree
<1>1. PatchedInv'
  BY OneHolder DEF TypeOK, PatchedInv, Working, Ended, Idle, Run, disk
<1>2. IdentityInv'
  BY OneHolder
  DEF TypeOK, PatchedInv, IdentityInv, Working, Ended, Idle, Run, Build, disk
<1> QED BY <1>1, <1>2

\* The launcher reads the revisions of the version that stays.
LEMMA QueryQuiet ==
  ASSUME QuietInv, NEW l \in Launcher, Query(l)
  PROVE  PatchedInv' /\ IdentityInv'
<1> USE DEF QuietInv, IInv, At, Goto, Query, tree
<1>1. PatchedInv'
  BY OneHolder DEF TypeOK, PatchedInv, Working, Ended, Idle, Run, disk
<1>2. IdentityInv'
  BY OneHolder
  DEF TypeOK, PatchedInv, IdentityInv, Working, Ended, Idle, Run, Build, disk
<1> QED BY <1>1, <1>2

LEMMA StatusQuiet ==
  ASSUME QuietInv, NEW l \in Launcher, Status(l)
  PROVE  PatchedInv' /\ IdentityInv'
<1> USE DEF QuietInv, IInv, At, Goto, Status, Exit, Leave, tree
<1>1. PatchedInv'
  BY OneHolder DEF TypeOK, PatchedInv, Working, Ended, Idle, Run, disk
<1>2. IdentityInv'
  BY OneHolder
  DEF TypeOK, PatchedInv, IdentityInv, Working, Ended, Idle, Run, Build, disk
<1> QED BY <1>1, <1>2

LEMMA StageQuiet ==
  ASSUME QuietInv, NEW l \in Launcher, Stage(l)
  PROVE  PatchedInv' /\ IdentityInv'
<1> USE DEF QuietInv, IInv, At, Goto, Stage, Exit, Leave, tree
<1>1. PatchedInv'
  BY OneHolder DEF TypeOK, PatchedInv, Working, Ended, Idle, Run, disk
<1>2. IdentityInv'
  BY OneHolder
  DEF TypeOK, PatchedInv, IdentityInv, Working, Ended, Idle, Run, Build, disk
<1> QED BY <1>1, <1>2

LEMMA DetachQuiet ==
  ASSUME QuietInv, NEW l \in Launcher, Detach(l)
  PROVE  PatchedInv' /\ IdentityInv'
<1> USE DEF QuietInv, IInv, At, Goto, Detach, SubmodulesDetached, tree
<1>1. PatchedInv'
  BY OneHolder DEF TypeOK, PatchedInv, Working, Ended, Idle, Run, disk
<1>2. IdentityInv'
  BY OneHolder
  DEF TypeOK, PatchedInv, IdentityInv, Working, Ended, Idle, Run, Build, disk
<1> QED BY <1>1, <1>2

LEMMA SwitchQuiet ==
  ASSUME QuietInv, NEW l \in Launcher, Switch(l)
  PROVE  PatchedInv' /\ IdentityInv'
<1> USE DEF QuietInv, IInv, At, Goto, Switch, tree
<1>1. PatchedInv'
  BY OneHolder DEF TypeOK, PatchedInv, Working, Ended, Idle, Run, disk
<1>2. IdentityInv'
  BY OneHolder
  DEF TypeOK, PatchedInv, IdentityInv, Working, Ended, Idle, Run, Build, disk
<1> QED BY <1>1, <1>2

LEMMA RecordQuiet ==
  ASSUME QuietInv, NEW l \in Launcher, Record(l)
  PROVE  PatchedInv' /\ IdentityInv'
<1> USE DEF QuietInv, IInv, At, Goto, Record, tree
<1>1. PatchedInv'
  BY OneHolder DEF TypeOK, PatchedInv, Working, Ended, Idle, Run, disk
<1>2. IdentityInv'
  BY OneHolder
  DEF TypeOK, PatchedInv, IdentityInv, Working, Ended, Idle, Run, Build, disk
<1> QED BY <1>1, <1>2

\* An identity that matches vouches for the build, and goes before an assembly.
LEMMA PrepareQuiet ==
  ASSUME QuietInv, NEW l \in Launcher, Prepare(l)
  PROVE  PatchedInv' /\ IdentityInv'
<1> USE DEF QuietInv, IInv, At, Goto, Prepare, IdentityMatches, IdentityInvalidated, tree
<1>1. PatchedInv'
  BY OneHolder DEF TypeOK, PatchedInv, Working, Ended, Idle, Run, disk
<1>2. IdentityInv'
  BY OneHolder
  DEF TypeOK, PatchedInv, IdentityInv, Working, Ended, Idle, Run, Build, disk
<1> QED BY <1>1, <1>2

\* A build of other inputs: an identity that remains is not the version's.
LEMMA RemoveQuiet ==
  ASSUME QuietInv, NEW l \in Launcher, Remove(l)
  PROVE  PatchedInv' /\ IdentityInv'
<1> USE DEF QuietInv, IInv, At, Goto, Remove, tree
<1>1. PatchedInv'
  BY OneHolder DEF TypeOK, PatchedInv, Working, Ended, Idle, Run, disk
<1>2. IdentityInv'
  BY OneHolder, VersionAssumption
  DEF NoBuild, Version, TypeOK, PatchedInv, IdentityInv, Working, Ended, Idle, Run,
      Build, disk
<1> QED BY <1>1, <1>2

LEMMA BootstrapQuiet ==
  ASSUME QuietInv, NEW l \in Launcher, Bootstrap(l)
  PROVE  PatchedInv' /\ IdentityInv'
<1> USE DEF QuietInv, IInv, At, Goto, Bootstrap, NoBuild, tree
<1>1. PatchedInv'
  BY OneHolder DEF TypeOK, PatchedInv, Working, Ended, Idle, Run, disk
<1>2. IdentityInv'
  BY OneHolder
  DEF TypeOK, PatchedInv, IdentityInv, Working, Ended, Idle, Run, Build, disk
<1> QED BY <1>1, <1>2

LEMMA FinishQuiet ==
  ASSUME QuietInv, NEW l \in Launcher, Finish(l)
  PROVE  PatchedInv' /\ IdentityInv'
<1> USE DEF QuietInv, IInv, At, Goto, Finish, tree
<1>1. PatchedInv'
  BY OneHolder DEF TypeOK, PatchedInv, Working, Ended, Idle, Run, disk
<1>2. IdentityInv'
  BY OneHolder
  DEF TypeOK, PatchedInv, IdentityInv, Working, Ended, Idle, Run, Build, disk
<1> QED BY <1>1, <1>2

\* The inputs read again are those of the build.
LEMMA IdentifyQuiet ==
  ASSUME QuietInv, NEW l \in Launcher, Identify(l)
  PROVE  PatchedInv' /\ IdentityInv'
<1> USE DEF QuietInv, IInv, At, Goto, Identify, tree
<1>1. PatchedInv'
  BY OneHolder DEF TypeOK, PatchedInv, Working, Ended, Idle, Run, disk
<1>2. IdentityInv'
  BY OneHolder
  DEF Version, TypeOK, PatchedInv, IdentityInv, Working, Ended, Idle, Run, Build,
      disk
<1> QED BY <1>1, <1>2

LEMMA TargetQuiet ==
  ASSUME QuietInv, NEW l \in Launcher, Target(l)
  PROVE  PatchedInv' /\ IdentityInv'
<1> USE DEF QuietInv, IInv, At, Goto, Target, WantsTarget, tree
<1>1. PatchedInv'
  BY OneHolder DEF TypeOK, PatchedInv, Working, Ended, Idle, Run, disk
<1>2. IdentityInv'
  BY OneHolder
  DEF TypeOK, PatchedInv, IdentityInv, Working, Ended, Idle, Run, Build, disk
<1> QED BY <1>1, <1>2

LEMMA MetadataQuiet ==
  ASSUME QuietInv, NEW l \in Launcher, Metadata(l)
  PROVE  PatchedInv' /\ IdentityInv'
<1> USE DEF QuietInv, IInv, At, Goto, Metadata, tree
<1>1. PatchedInv'
  BY OneHolder DEF TypeOK, PatchedInv, Working, Ended, Idle, Run, disk
<1>2. IdentityInv'
  BY OneHolder
  DEF TypeOK, PatchedInv, IdentityInv, Working, Ended, Idle, Run, Build, disk
<1> QED BY <1>1, <1>2

LEMMA UnlockQuiet ==
  ASSUME QuietInv, NEW l \in Launcher, Unlock(l)
  PROVE  PatchedInv' /\ IdentityInv'
<1> USE DEF QuietInv, IInv, At, Goto, Unlock, LockDropped, tree
<1>1. PatchedInv'
  BY OneHolder DEF TypeOK, PatchedInv, Working, Ended, Idle, Run, disk
<1>2. IdentityInv'
  BY OneHolder
  DEF TypeOK, PatchedInv, IdentityInv, Working, Ended, Idle, Run, Build, disk
<1> QED BY <1>1, <1>2

LEMMA NestQuiet ==
  ASSUME QuietInv, NEW l \in Launcher, Nest(l)
  PROVE  PatchedInv' /\ IdentityInv'
<1> USE DEF QuietInv, IInv, At, Goto, Nest, tree
<1>1. PatchedInv'
  BY OneHolder DEF TypeOK, PatchedInv, Working, Ended, Idle, Run, disk
<1>2. IdentityInv'
  BY OneHolder
  DEF TypeOK, PatchedInv, IdentityInv, Working, Ended, Idle, Run, Build, disk
<1> QED BY <1>1, <1>2

\* The repository is updated while the lock is free: an identity of the version
\* before vouches for nothing.
LEMMA UpdateRepositoryQuiet ==
  ASSUME QuietInv, ~UpdateAnytime, UpdateRepository
  PROVE  PatchedInv' /\ IdentityInv'
<1> USE DEF QuietInv, IInv, UpdateRepository, disk, tree
<1>1. \A l \in Launcher : run[l].pc \notin Working
  BY FreeLock
<1>2. PatchedInv'
  BY <1>1 DEF PatchedInv, Working
<1>3. IdentityInv'
  BY <1>1 DEF TypeOK, IdentityInv, Version, Working, At
<1> QED BY <1>2, <1>3

LEMMA OutsideQuiet ==
  ASSUME QuietInv, ChangeCheckout \/ Repair \/ LoseSysroots
  PROVE  PatchedInv' /\ IdentityInv'
<1> USE DEF QuietInv, IInv, ChangeCheckout, Repair, LoseSysroots, tree
<1>1. \A l \in Launcher : run[l].pc \notin Working
  BY FreeLock
<1>2. PatchedInv'
  BY <1>1 DEF PatchedInv, Working
<1>3. IdentityInv'
  BY <1>1 DEF TypeOK, IdentityInv, Build, Working, At
<1> QED BY <1>2, <1>3

LEMMA NextQuietInv ==
  ASSUME QuietInv, ~UpdateAnytime, [Next]_vars
  PROVE  QuietInv'
<1> SUFFICES PatchedInv' /\ IdentityInv'
  BY NextIInv DEF QuietInv
<1>1. ASSUME NEW l \in Launcher, Start(l)
      PROVE  PatchedInv' /\ IdentityInv'
  BY <1>1, StartQuiet
<1>2. ASSUME NEW l \in Launcher, LauncherStep(l)
      PROVE  PatchedInv' /\ IdentityInv'
  <2>1. CASE Use(l)
    BY <2>1, LeaveQuiet DEF Use, Exit, Kept, Ended, disk, tree
  <2> QED BY <1>2, <2>1, LockQuiet, QueryQuiet, StatusQuiet, StageQuiet, DetachQuiet, SwitchQuiet,
             RecordQuiet, PrepareQuiet, RemoveQuiet, BootstrapQuiet, FinishQuiet, IdentifyQuiet,
             TargetQuiet, MetadataQuiet, UnlockQuiet, NestQuiet DEF LauncherStep
<1>3. ASSUME NEW l \in Launcher, Fail(l) \/ Kill(l)
      PROVE  PatchedInv' /\ IdentityInv'
  BY <1>3, LeaveQuiet DEF Fail, Kill, Interrupted, Kept, Ended
<1>4. CASE UNCHANGED vars
  BY <1>4 DEF vars, disk, tree, QuietInv, PatchedInv, IdentityInv, At
<1> QED BY <1>1, <1>2, <1>3, <1>4, UpdateRepositoryQuiet, OutsideQuiet DEF Next

-----------------------------------------------------------------------------
\* The state has its types, and whoever is between the lock and the unlock of
\* run holds the lock: at most one launcher prepares the compiler.
THEOREM TypeCorrect == Spec => []TypeOK
<1>1. Init => IInv
  BY InitQuietInv DEF QuietInv
<1>2. IInv => TypeOK
  BY DEF IInv
<1> QED BY <1>1, <1>2, NextIInv, PTL DEF Spec

\* A launcher stops over local changes only where the user made some, or where a
\* command was interrupted while it wrote files: submodules of another revision
\* never look like a change to ensure_patched_checkout, whatever was killed,
\* failed or updated, during a preparation or between two.
THEOREM OnlyChangesStop == Spec => StopsOverChangesOnly
<1>1. Init => IInv
  BY InitQuietInv DEF QuietInv
<1>2. ASSUME IInv, [Next]_vars, NEW k \in Launcher,
             run'[k].pc = "unclean", run[k].pc # "unclean"
      PROVE  dirty \/ torn
  <2>1. TypeOK
    BY <1>2 DEF IInv
  <2>2. ASSUME NEW l \in Launcher, Status(l)
        PROVE  dirty \/ torn
    <3>1. CASE ~Clean
      BY <3>1, <1>2 DEF IInv, CheckoutInv, Clean
    <3>2. CASE Clean
      BY <3>2, <2>1, <2>2, <1>2, GoesTo, EndsAs DEF Status, Exit
    <3> QED BY <3>1, <3>2
  <2>3. ASSUME NEW l \in Launcher, LauncherStep(l), ~Status(l)
        PROVE  FALSE
    <3>1. ~Query(l)
      <4>1. Query(l) => run' = [run EXCEPT ![l].pc = "status", ![l].base = Base[version],
                                           ![l].patched = Patched[version]]
        BY DEF Query
      <4> QED BY <2>1, <1>2, <4>1 DEF TypeOK, Run
    <3>5. ~Nest(l)
      <4>1. Nest(l) => run' = [run EXCEPT ![l].pc = "lock", ![l].nested = TRUE]
        BY DEF Nest
      <4> QED BY <2>1, <1>2, <4>1 DEF TypeOK, Run
    <3>4. ~Prepare(l)
      <4> DEFINE next == CASE IdentityMatches /\ build.sysroots -> "target"
                           [] IdentityMatches -> "bootstrap"
                           [] OTHER -> "remove"
      <4>1. next # "unclean"
        OBVIOUS
      <4> HIDE DEF next
      <4>2. Prepare(l) => run' = [run EXCEPT ![l].matches = IdentityMatches, ![l].pc = next]
        BY DEF Prepare, next
      <4> QED BY <2>1, <1>2, <4>1, <4>2 DEF TypeOK, Run
    <3>2. Stage(l) \/ Use(l) => FALSE
      BY <2>1, <1>2, GoesTo, EndsAs DEF Stage, Use, Exit
    <3>3. Lock(l) \/ Detach(l) \/ Switch(l) \/ Record(l) \/ Remove(l) \/ Bootstrap(l)
            \/ Finish(l) \/ Identify(l) \/ Target(l) \/ Metadata(l) \/ Unlock(l) => FALSE
      BY <2>1, <1>2, GoesTo
      DEF Lock, Detach, Switch, Record, Remove, Bootstrap, Finish, Identify, Target, Metadata,
          Unlock
    <3> QED BY <2>3, <3>1, <3>2, <3>3, <3>4, <3>5 DEF LauncherStep
  <2>4. ASSUME NEW l \in Launcher, Start(l) \/ Fail(l) \/ Kill(l)
        PROVE  FALSE
    <3>1. Start(l) => FALSE
      BY <2>1, <1>2 DEF Start, Idle, TypeOK
    <3> QED BY <2>4, <3>1, <2>1, <1>2, EndsAs DEF Fail, Kill, Interrupted
  <2> QED BY <1>2, <2>2, <2>3, <2>4
          DEF Next, UpdateRepository, ChangeCheckout, Repair, LoseSysroots, vars
<1>3. IInv /\ [Next]_vars =>
        [\A l \in Launcher :
           run'[l].pc = "unclean" => run[l].pc = "unclean" \/ dirty \/ torn]_vars
  BY <1>2
<1> QED BY <1>1, <1>3, NextIInv, PTL DEF Spec, StopsOverChangesOnly

\* ensure_patched_checkout never moves a checkout that holds a change or a
\* commit of the user's, and never empties a submodule that holds a file of the
\* user's, although git would do so.
THEOREM LocalWorkStays == Spec => KeepsLocalWork
<1>1. Init => IInv
  BY InitQuietInv DEF QuietInv
<1>2. ASSUME IInv, [Next]_vars, dirty \/ head = Mine
      PROVE  head' = head
  <2>1. ASSUME NEW l \in Launcher, LauncherStep(l)
        PROVE  head' = head
    <3>1. ~Switch(l)
      BY <1>2 DEF IInv, MoveInv, Switch, At
    <3>2. Query(l) => head' = head
      BY <1>2 DEF IInv, CheckoutInv, Query
    <3> QED BY <2>1, <3>1, <3>2
            DEF LauncherStep, Lock, Status, Stage, Detach, Record, Prepare, Remove,
                Bootstrap, Finish, Identify, Target, Metadata, Unlock, Nest, Use, Exit, disk
  <2>2. ASSUME NEW l \in Launcher, Start(l) \/ Fail(l) \/ Kill(l)
        PROVE  head' = head
    BY <2>2 DEF Start, Fail, Kill, Interrupted, disk
  <2>3. ~ChangeCheckout
    BY <1>2 DEF IInv, CheckoutInv, ChangeCheckout
  <2> QED BY <1>2, <2>1, <2>2, <2>3
          DEF Next, UpdateRepository, Repair, LoseSysroots, vars, disk
<1>3. ASSUME IInv, [Next]_vars, ignored
      PROVE  ignored'
  <2>1. ASSUME NEW l \in Launcher, LauncherStep(l)
        PROVE  ignored'
    <3>1. ~Detach(l)
      BY <1>3 DEF IInv, MoveInv, Detach, At
    <3> QED BY <1>3, <2>1, <3>1
            DEF LauncherStep, Lock, Query, Status, Stage, Switch, Record, Prepare, Remove,
                Bootstrap, Finish, Identify, Target, Metadata, Unlock, Nest, Use, Exit, disk, tree
  <2>2. ASSUME NEW l \in Launcher, Start(l) \/ Fail(l) \/ Kill(l)
        PROVE  ignored'
    BY <1>3, <2>2 DEF Start, Fail, Kill, Interrupted, disk, tree
  <2> QED BY <1>3, <2>1, <2>2
          DEF Next, UpdateRepository, ChangeCheckout, Repair, LoseSysroots, vars, disk, tree
<1>4. IInv /\ [Next]_vars =>
        (dirty \/ head = Mine => head' = head) /\ (ignored => ignored')
  BY <1>2, <1>3
<1> QED BY <1>1, <1>4, NextIInv, PTL DEF Spec, KeepsLocalWork

\* While no update of the repository falls into a preparation (run
\* compiler_update_race shows why this is needed), the lock is given up only
\* over a finished build of the revision that was prepared, and a checkout
\* whose revision is recorded: whatever was killed, failed or lost.
THEOREM PreparationIsComplete == ~UpdateAnytime => (Spec => []PreparedForUse)
<1> SUFFICES ASSUME ~UpdateAnytime PROVE Spec => []PreparedForUse
  OBVIOUS
<1>1. Init => QuietInv
  BY InitQuietInv
<1>2. QuietInv /\ [Next]_vars => QuietInv'
  BY NextQuietInv
<1>3. QuietInv => PreparedForUse
  BY DEF QuietInv, PatchedInv, IdentityInv, PreparedForUse, Working
<1> QED BY <1>1, <1>2, <1>3, PTL DEF Spec
=============================================================================
