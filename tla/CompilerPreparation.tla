------------------------- MODULE CompilerPreparation -------------------------
(***************************************************************************)
(* tools/rid.rs: how launchers that run at the same time bring the patched *)
(* compiler under target/rid up to date and then use it.                   *)
(*                                                                         *)
(* Under preparation.lock a launcher moves the Rust checkout to the        *)
(* revision the repository asks for, builds or assembles the compiler,     *)
(* prepares libraries for another target, and gives the lock up before it  *)
(* runs the reducer.  The reducer may start a nested launcher, which takes *)
(* the lock again.  Launchers are killed at any step, in the middle of a   *)
(* git command too; the repository is updated; the user may change the     *)
(* checkout; caches lose their sysroots.                                   *)
(***************************************************************************)
EXTENDS Naturals, FiniteSets

CONSTANTS
  Launcher,
  Versions,          \* how many versions of the repository follow each other
  Base, Patched,     \* their rustc-patches/base-revision and patched-revision
  UpdateAnytime,     \* whether the repository is updated during preparation
  MaxRuns            \* bound: launcher starts

Version == 1..Versions
None == "none"
Mine == "mine"       \* a revision that the user committed

ASSUME VersionAssumption ==
  /\ Versions \in Nat \ {0} /\ MaxRuns \in Nat /\ UpdateAnytime \in BOOLEAN
  /\ \A v, w \in Version : /\ Patched[v] = Patched[w] => v = w
                           /\ Patched[v] # Base[w]
                           /\ {None, Mine} \cap {Base[v], Patched[v]} = {}

\* A launcher is not the absence of one.
ASSUME LauncherAssumption == None \notin Launcher

VARIABLES
  version,     \* of the repository; queue-digest is told apart by it
  head,        \* HEAD of the checkout
  dirty,       \* the user's changes in it, which git status shows
  ignored,     \* the user's ignored files in submodules, which it does not show
  torn,        \* the remains of a command that was interrupted, which it shows
  submodules,  \* the revision whose submodules are initialized
  recorded,    \* rust-item-dependencies.patched-revision of its git config
  identity,    \* the build identity: the version whose inputs it holds, or 0
  build,       \* the build directory
  lock,        \* who holds preparation.lock
  run,         \* the state of each launcher
  runs, touched    \* bound; history: the user changed the checkout

tree == <<dirty, ignored, torn>>
disk == <<head, tree, submodules, recorded, identity, build>>
vars == <<version, disk, lock, run, runs, touched>>

\* rev: the revision it was built from; whole: bootstrap finished and nothing
\* was removed; sysroots: stage1 and stage2 rustc; target: the completeness
\* marker of another target's metadata.
NoBuild == [rev |-> None, whole |-> FALSE, sysroots |-> FALSE, target |-> FALSE]

\* cross: another target is needed, and named on the command line or only by
\* the Cargo project; nested: the launcher was started by the reducer; base, patched, matches: what it has read.
Idle == [pc |-> "idle", cross |-> "no", nested |-> FALSE, base |-> None,
         patched |-> None, matches |-> FALSE]

Init ==
  /\ version = 1
  /\ head = None /\ submodules = None /\ recorded = None
  /\ dirty = FALSE /\ ignored = FALSE /\ torn = FALSE
  /\ identity = 0 /\ build = NoBuild
  /\ lock = None /\ run = [l \in Launcher |-> Idle]
  /\ runs = 0 /\ touched = FALSE

-----------------------------------------------------------------------------
Ended == {"idle", "ok", "failed", "unclean", "unrecorded", "preserved", "killed"}
At(l, here) == run[l].pc = here
Goto(l, next) == run' = [run EXCEPT ![l].pc = next]

\* Every exit of run drops the lock with its file.
Leave(l, how) ==
  /\ run' = [run EXCEPT ![l] = [Idle EXCEPT !.pc = how]]
  /\ lock' = IF lock = l THEN None ELSE lock

Exit(l, how) == Leave(l, how) /\ UNCHANGED <<version, disk, runs, touched>>

\* The commands that write the files of the checkout or of its submodules: git
\* checkout of the base or the patched revision, git submodule deinit, x.py.
Rewriting(l) ==
  \/ At(l, "query") /\ head = None
  \/ At(l, "detach") /\ submodules # None
  \/ run[l].pc \in {"switch", "bootstrap", "finish", "metadata"}

\* A launcher ends in the middle of what it does next.  A command that writes
\* files may have written some; git moves HEAD after the last of them.
Interrupted(l, how) ==
  /\ Leave(l, how)
  /\ torn' \in {torn, torn \/ Rewriting(l)}
  /\ UNCHANGED <<version, head, dirty, ignored, submodules, recorded, identity, build,
                 runs, touched>>

Start(l) ==
  /\ run[l].pc \in Ended /\ runs < MaxRuns
  /\ runs' = runs + 1
  /\ \E cross \in {"no", "named", "project"} :
       run' = [run EXCEPT ![l] = [Idle EXCEPT !.pc = "lock", !.cross = cross]]
  /\ UNCHANGED <<version, disk, lock, touched>>

Lock(l) ==
  /\ At(l, "lock") /\ lock = None
  /\ lock' = l /\ Goto(l, "query")
  /\ UNCHANGED <<version, disk, runs, touched>>

\* A command or a file operation fails, at once or halfway.
Fail(l) ==
  /\ run[l].pc \notin Ended \cup {"lock"}
  /\ Interrupted(l, "failed")

\* ensure_patched_checkout reads the revisions; an empty checkout gets the base.
\* git completes the checkout that an interrupted one has begun, leaves what is
\* not in its way, or refuses (Fail).
Query(l) ==
  /\ At(l, "query")
  /\ run' = [run EXCEPT ![l].pc = "status", ![l].base = Base[version],
                        ![l].patched = Patched[version]]
  /\ \/ head = None /\ head' = Base[version] /\ torn' \in {FALSE, torn}
     \/ head # None /\ UNCHANGED <<head, torn>>
  /\ UNCHANGED <<version, dirty, ignored, submodules, recorded, identity, build, lock, runs, touched>>

\* git status --porcelain: a submodule at another revision is a change.
\* The user's commit has the submodules of the revision before.
Clean == ~dirty /\ ~torn /\ (submodules \in {None, head} \/ head = Mine)

\* Mutant: any revision of the checkout may be replaced.
KnownAlways(l) == TRUE

\* The base, or a revision that a launcher recorded or built.
Known(l) ==
  \/ head = run[l].base
  \/ recorded = head
  \/ identity # 0 /\ Patched[identity] = head

\* Mutant: the launcher does not look into the submodules.
LocalFilesUnseen == FALSE

\* git ls-files --others --ignored in each submodule.
LocalFiles == ignored

Status(l) ==
  /\ At(l, "status")
  /\ IF ~Clean THEN Exit(l, "unclean")
     ELSE IF head = run[l].patched
       THEN /\ recorded' = head
            /\ Goto(l, "prepare")
            /\ UNCHANGED <<version, head, tree, submodules, identity, build, lock, runs, touched>>
     ELSE IF ~Known(l) THEN Exit(l, "unrecorded")
     ELSE IF LocalFiles THEN Exit(l, "preserved")
     ELSE /\ Goto(l, "stage")
          /\ UNCHANGED <<version, disk, lock, runs, touched>>

\* stage_compiler_patches, away from the checkout: the patches that are there
\* must give the revision that was read.
Stage(l) ==
  /\ At(l, "stage")
  /\ IF Patched[version] # run[l].patched THEN Exit(l, "failed")
     ELSE /\ Goto(l, "detach")
          /\ UNCHANGED <<version, disk, lock, runs, touched>>

\* Mutant: the submodules of the previous revision stay.
SubmodulesKept == submodules
SubmodulesDetached == None

\* git submodule deinit --all empties their directories; it spares files that
\* git status shows, not those that are ignored.
Detach(l) ==
  /\ At(l, "detach")
  /\ submodules' = SubmodulesDetached
  /\ ignored' = FALSE
  /\ Goto(l, "switch")
  /\ UNCHANGED <<version, head, dirty, torn, recorded, identity, build, lock, runs, touched>>

Switch(l) ==
  /\ At(l, "switch")
  /\ head' = run[l].patched
  /\ Goto(l, "record")
  /\ UNCHANGED <<version, tree, submodules, recorded, identity, build, lock, runs, touched>>

Record(l) ==
  /\ At(l, "record")
  /\ recorded' = run[l].patched
  /\ Goto(l, "prepare")
  /\ UNCHANGED <<version, head, tree, submodules, identity, build, lock, runs, touched>>

\* remove_compiler_build_identity before an assembly.
IdentityInvalidated == 0

\* Mutant: any finished build is taken for the one that is wanted.
IdentityThere == identity # 0

\* compiler_build_identity_matches: the file holds the current inputs.
IdentityMatches == identity = version

\* prepare_compiler up to the choice of its action.
Prepare(l) ==
  /\ At(l, "prepare")
  /\ run' = [run EXCEPT ![l].matches = IdentityMatches,
                        ![l].pc = CASE IdentityMatches /\ build.sysroots -> "target"
                                    [] IdentityMatches -> "bootstrap"
                                    [] OTHER -> "remove"]
  /\ identity' = IF IdentityMatches /\ ~build.sysroots THEN IdentityInvalidated ELSE identity
  /\ UNCHANGED <<version, head, tree, submodules, recorded, build, lock, runs, touched>>

\* remove_dir_all: files go in an unspecified order, the identity with them.
Remove(l) ==
  /\ At(l, "remove")
  /\ \/ /\ build' = NoBuild /\ identity' = 0
        /\ Goto(l, "bootstrap")
     \/ /\ build.whole
        /\ build' = [build EXCEPT !.whole = FALSE]
        /\ identity' \in {identity, 0}
        /\ Goto(l, "remove")
  /\ UNCHANGED <<version, head, tree, submodules, recorded, lock, runs, touched>>

\* x.py build works on the checkout as it is and updates its submodules.
\* An assembly keeps the compiled stages; a fresh build starts from nothing.
Bootstrap(l) ==
  /\ At(l, "bootstrap")
  /\ submodules' = head
  /\ build' = IF run[l].matches THEN [build EXCEPT !.whole = FALSE]
              ELSE [NoBuild EXCEPT !.rev = head]
  /\ Goto(l, "finish")
  /\ UNCHANGED <<version, head, tree, recorded, identity, lock, runs, touched>>

Finish(l) ==
  /\ At(l, "finish")
  /\ build' = [build EXCEPT !.whole = TRUE, !.sysroots = TRUE]
  /\ Goto(l, "identify")
  /\ UNCHANGED <<version, head, tree, submodules, recorded, identity, lock, runs, touched>>

\* record_compiler_build_identity reads the inputs again.
Identify(l) ==
  /\ At(l, "identify")
  /\ identity' = version
  /\ Goto(l, "target")
  /\ UNCHANGED <<version, head, tree, submodules, recorded, build, lock, runs, touched>>

\* Whether this launcher was asked to prepare the other target.
WantsTarget(l) == run[l].cross = "named" \/ run[l].nested

\* prepare_target_libraries.
Target(l) ==
  /\ At(l, "target")
  /\ Goto(l, IF WantsTarget(l) /\ ~build.target THEN "metadata" ELSE "unlock")
  /\ UNCHANGED <<version, disk, lock, runs, touched>>

\* x.py check of rid-target-metadata; the marker is written last.
Metadata(l) ==
  /\ At(l, "metadata")
  /\ build' = [build EXCEPT !.target = TRUE]
  /\ submodules' = head
  /\ Goto(l, "unlock")
  /\ UNCHANGED <<version, head, tree, recorded, identity, lock, runs, touched>>

\* Mutant: the lock is kept while the reducer runs.
LockKept(l) == l

\* drop(preparation_lock).
LockDropped(l) == None

\* A nested launcher returns to the reducer that started it.
Unlock(l) ==
  /\ At(l, "unlock")
  /\ lock' = LockDropped(l)
  /\ Goto(l, "use")
  /\ UNCHANGED <<version, disk, runs, touched>>

\* prepare_target of cargo_project.rs: the reducer finds no libraries for its
\* target and starts a launcher with the prepare-target argument.
Nest(l) ==
  /\ At(l, "use") /\ run[l].cross = "project" /\ ~run[l].nested /\ ~build.target
  /\ run' = [run EXCEPT ![l].pc = "lock", ![l].nested = TRUE]
  /\ UNCHANGED <<version, disk, lock, runs, touched>>

\* The reducer is built with the compiler and runs.  build.rs refuses a
\* compiler of another patch queue, and an unfinished one does not start.
Use(l) ==
  /\ At(l, "use")
  /\ run[l].cross = "project" => run[l].nested \/ build.target
  /\ Exit(l, IF /\ build.whole /\ build.rev = Patched[version]
                /\ run[l].cross # "no" => build.target
             THEN "ok" ELSE "failed")

LauncherStep(l) ==
  \/ Lock(l) \/ Query(l) \/ Status(l) \/ Stage(l) \/ Detach(l) \/ Switch(l) \/ Record(l)
  \/ Prepare(l) \/ Remove(l) \/ Bootstrap(l) \/ Finish(l) \/ Identify(l)
  \/ Target(l) \/ Metadata(l) \/ Unlock(l) \/ Nest(l) \/ Use(l)

-----------------------------------------------------------------------------
(* Everybody else                                                          *)

\* A kill closes the lock's file too; the commands that run are killed with it.
Kill(l) == run[l].pc \notin Ended /\ Interrupted(l, "killed")

UpdateRepository ==
  /\ version < Versions /\ (UpdateAnytime \/ lock = None)
  /\ version' = version + 1
  /\ UNCHANGED <<disk, lock, run, runs, touched>>

\* The user works in the checkout while nothing is prepared.
ChangeCheckout ==
  /\ lock = None /\ head # None /\ ~touched
  /\ touched' = TRUE
  /\ \/ dirty' = TRUE /\ UNCHANGED <<head, ignored>>
     \/ head' = Mine /\ UNCHANGED <<dirty, ignored>>
     \/ submodules # None /\ ignored' = TRUE /\ UNCHANGED <<head, dirty>>
  /\ UNCHANGED <<version, torn, submodules, recorded, identity, build, lock, run, runs>>

\* The user removes what an interrupted command has left, and nothing else.
Repair ==
  /\ lock = None /\ torn
  /\ torn' = FALSE
  /\ UNCHANGED <<version, head, dirty, ignored, submodules, recorded, identity, build,
                 lock, run, runs, touched>>

\* A build directory comes back from a cache without its sysroots.
LoseSysroots ==
  /\ lock = None /\ build.sysroots
  /\ build' = [build EXCEPT !.sysroots = FALSE]
  /\ UNCHANGED <<version, head, tree, submodules, recorded, identity, lock, run, runs, touched>>

Next ==
  \/ \E l \in Launcher : Start(l) \/ LauncherStep(l) \/ Fail(l) \/ Kill(l)
  \/ UpdateRepository \/ ChangeCheckout \/ Repair \/ LoseSysroots

Spec == Init /\ [][Next]_vars

\* Launchers run on, and whoever waits for the lock gets it eventually.
FairSpec ==
  /\ Spec
  /\ \A l \in Launcher : WF_vars(LauncherStep(l) \/ Fail(l)) /\ SF_vars(Lock(l))

-----------------------------------------------------------------------------
\* The program counters of a launcher that holds the lock.
Working == {"query", "status", "stage", "detach", "switch", "record", "prepare",
            "remove", "bootstrap", "finish", "identify", "target", "metadata",
            "unlock"}

BaseRevision == {Base[v] : v \in Version}
PatchedRevision == {Patched[v] : v \in Version}
Revision == {None, Mine} \cup BaseRevision \cup PatchedRevision

Build == [rev : Revision, whole : BOOLEAN, sysroots : BOOLEAN, target : BOOLEAN]
Run == [pc : Ended \cup {"lock", "use"} \cup Working,
        cross : {"no", "named", "project"}, nested : BOOLEAN,
        base : {None} \cup BaseRevision, patched : {None} \cup PatchedRevision,
        matches : BOOLEAN]

\* The state's types; whoever is between Lock and Unlock holds the lock.
TypeOK ==
  /\ version \in Version /\ identity \in 0..Versions
  /\ head \in Revision /\ submodules \in Revision
  /\ recorded \in {None} \cup PatchedRevision
  /\ dirty \in BOOLEAN /\ ignored \in BOOLEAN /\ torn \in BOOLEAN /\ touched \in BOOLEAN
  /\ build \in Build
  /\ lock \in Launcher \cup {None}
  /\ run \in [Launcher -> Run]
  /\ runs \in 0..MaxRuns
  /\ \A l \in Launcher : run[l].pc \in Working <=> lock = l

\* A launcher that is about to use the compiler holds a finished build of the
\* revision it prepared, and a checkout that later launchers will recognize.
PreparedForUse ==
  \A l \in Launcher :
    run[l].pc \in {"target", "metadata", "unlock"} =>
      /\ build.whole /\ build.sysroots /\ build.rev = run[l].patched
      /\ head = run[l].patched /\ recorded = run[l].patched

\* A launcher stops over local changes only where the user made some, or where a
\* git or bootstrap command was interrupted while it wrote files (rid.rs:426).
\* Whatever else was interrupted, at any step of any launcher, submodules of
\* another revision never look like a change (rid.rs:392).
StopsOverChangesOnly ==
  [][\A l \in Launcher :
       run'[l].pc = "unclean" => run[l].pc = "unclean" \/ dirty \/ torn]_vars

\* What the user changed or committed in the checkout stays checked out, and
\* what the user put into its submodules stays there.
KeepsLocalWork ==
  [][/\ dirty \/ head = Mine => head' = head
     /\ ignored => ignored']_vars

\* Every launcher ends: none waits forever, not even for its own lock.
LauncherEnds == \A l \in Launcher : run[l].pc \notin Ended ~> run[l].pc \in Ended

\* A checkout that the user left alone is always updated: no launcher stops
\* over its revision.
UpdatesItself == (\E l \in Launcher : At(l, "unrecorded")) => touched
=============================================================================
