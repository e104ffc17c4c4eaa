--------------------------- MODULE SnapshotStores ---------------------------
(***************************************************************************)
(* external.rs on Windows, with tools/rid.rs around it: the directories    *)
(* that hold copies of external crates while the compiler reads them.      *)
(*                                                                         *)
(* A reducer keeps one store per parent directory for as long as it lives, *)
(* because a loaded procedural macro cannot be deleted before: a locked    *)
(* owner file and a root directory with one directory per copy.  Nobody    *)
(* removes a store at exit; the launcher does after its reducer, and every *)
(* reducer removes the stores of dead ones before it prepares its own.     *)
(* Creation and removal are under the parent's lock file.  Processes are   *)
(* killed at any step, and process numbers, which name stores, recur.      *)
(***************************************************************************)
EXTENDS Naturals, FiniteSets

CONSTANTS
  Launcher, Reducer,    \* processes
  Child,                \* the reducer that a launcher starts
  Analyzer, Home,       \* threads that prepare external crates; their reducer
  Bytes,                \* contents of an artifact
  Uses,                 \* the requests of an analyzer: a subset of Wanted
  None,                 \* no value
  Pids, MaxNonce        \* bounds: process numbers, and nonces of a process

Pid == 1..Pids
Process == Launcher \cup Reducer
Actor == Launcher \cup Analyzer
Token == Pid \X (0..MaxNonce)    \* of a store: <process>-<nonce>

\* A directory below the root of a store; its bytes are None while it is empty.
Directory == [at : Token, name : 0..MaxNonce, bytes : Bytes \cup {None}]

\* An external crate, whose copies are shared if it holds procedural macros.
Nothing == [share |-> FALSE, bytes |-> None]   \* no external crates
Wanted == [share : BOOLEAN, bytes : Bytes] \cup {Nothing}

ASSUME ProcessAssumption ==
  /\ Pids \in Nat /\ MaxNonce \in Nat
  /\ None \notin Process \cup Actor \cup Bytes \cup Token \cup Directory
  /\ Launcher \cap (Reducer \cup Analyzer) = {}
  /\ Home \in [Analyzer -> Reducer] /\ Child \in [Launcher -> Reducer]
  /\ Uses \in [Analyzer -> SUBSET Wanted]
  /\ \A l, m \in Launcher : Child[l] = Child[m] => l = m

VARIABLES
  status, pid, \* of each process
  ownerFile,   \* tokens whose owner file exists
  ownerLock,   \* the process that holds its lock, or None
  root,        \* tokens whose root directory exists
  dirs,        \* the directories below the roots
  parentLock,  \* the actor that holds the parent directory's lock, or None
  token,       \* RUST_ITEM_DEPENDENCIES_SNAPSHOT_OWNER of a reducer, or None
  store,       \* the store a reducer has registered, or None
  nonce,       \* SNAPSHOT_NONCE of a reducer
  known,       \* snapshots: the directory last made for an artifact
  loaded,      \* loaded: the directories a reducer never gives up
  pc, at,      \* of each actor: its next step and the token it is about
  scan, want, lease,   \* of each analyzer
  stale        \* history: the stores that were dead when it got the lock

disk == <<ownerFile, ownerLock, root, dirs, parentLock>>
process == <<status, pid, token>>
memory == <<store, nonce, known, loaded>>
actor == <<pc, at, scan, want, lease, stale>>
vars == <<process, disk, memory, actor>>


Init ==
  /\ status = [p \in Process |-> "new"] /\ pid = [p \in Process |-> 0]
  /\ ownerFile = {} /\ ownerLock = [t \in Token |-> None] /\ root = {} /\ dirs = {}
  /\ parentLock = None
  /\ token = [r \in Reducer |-> None]
  /\ store = [r \in Reducer |-> None] /\ nonce = [r \in Reducer |-> 0]
  /\ known = [r \in Reducer |-> [b \in Bytes |-> None]]
  /\ loaded = [r \in Reducer |-> {}]
  /\ pc = [x \in Actor |-> "idle"] /\ at = [x \in Actor |-> None]
  /\ scan = [a \in Analyzer |-> {}] /\ want = [a \in Analyzer |-> Nothing]
  /\ lease = [a \in Analyzer |-> None]
  /\ stale = [a \in Analyzer |-> {}]

-----------------------------------------------------------------------------
(* Processes.                                                              *)

FreePid == Pid \ {pid[p] : p \in {q \in Process : status[q] = "up"}}
Threads(p) == IF p \in Launcher THEN {p} ELSE {a \in Analyzer : Home[a] = p}
Up(x) == IF x \in Launcher THEN status[x] = "up" ELSE status[Home[x]] = "up"

StartLauncher(l) ==
  /\ status[l] = "new"
  /\ \E n \in FreePid :
       /\ status' = [status EXCEPT ![l] = "up"] /\ pid' = [pid EXCEPT ![l] = n]
       /\ at' = [at EXCEPT ![l] = <<n, 0>>]
  /\ pc' = [pc EXCEPT ![l] = "owner"]
  /\ UNCHANGED <<token, disk, memory, scan, want, lease, stale>>

\* A reducer that no launcher starts has no token.
StartReducer(r) ==
  /\ status[r] = "new" /\ \A l \in Launcher : Child[l] # r
  /\ \E n \in FreePid :
       status' = [status EXCEPT ![r] = "up"] /\ pid' = [pid EXCEPT ![r] = n]
  /\ UNCHANGED <<token, disk, memory, actor>>

\* The operating system drops locks; files stay.
End(p) ==
  /\ status' = [status EXCEPT ![p] = "gone"]
  /\ ownerLock' = [t \in Token |-> IF ownerLock[t] = p THEN None ELSE ownerLock[t]]
  /\ parentLock' = IF parentLock \in Threads(p) THEN None ELSE parentLock
  /\ pc' = [x \in Actor |-> IF x \in Threads(p) THEN "gone" ELSE pc[x]]
  /\ UNCHANGED <<pid, token, ownerFile, root, dirs, memory, at, scan, want, lease, stale>>

Kill(p) == status[p] = "up" /\ End(p)

\* A reducer ends when its threads did; its statics are not dropped.
Exit(r) ==
  /\ status[r] = "up" /\ \A a \in Threads(r) : pc[a] \in {"idle", "done", "failed"}
  /\ End(r)

-----------------------------------------------------------------------------
(* Helpers of the steps below.                                             *)

Goto(x, next) == pc' = [pc EXCEPT ![x] = next]

\* Mutant: errors of the removal are ignored.
RemoveRootPartly(x, next) ==
  \/ \E d \in dirs : d.at = at[x] /\ dirs' = dirs \ {d} /\ UNCHANGED <<root, pc>>
  \/ root' \in {root, root \ {at[x]}} /\ Goto(x, next) /\ UNCHANGED dirs

\* fs::remove_dir_all, one entry after the other.
RemoveRoot(x, next) ==
  \/ /\ \E d \in dirs : d.at = at[x] /\ dirs' = dirs \ {d}
     /\ UNCHANGED <<root, pc>>
  \/ /\ {d \in dirs : d.at = at[x]} = {}
     /\ root' = root \ {at[x]} /\ Goto(x, next)
     /\ UNCHANGED dirs

Unlock(t) == [ownerLock EXCEPT ![t] = None]

-----------------------------------------------------------------------------
(* The launcher: unique_snapshot_owner, the reducer, its removal.          *)

CheckOwner(l) ==
  /\ pc[l] = "owner"
  /\ IF at[l] \notin ownerFile
       THEN Goto(l, "root") /\ UNCHANGED at
       ELSE IF at[l][2] < MaxNonce
              THEN at' = [at EXCEPT ![l] = <<pid[l], at[l][2] + 1>>] /\ UNCHANGED pc
              ELSE Goto(l, "failed") /\ UNCHANGED at
  /\ UNCHANGED <<process, disk, memory, scan, want, lease, stale>>

CheckRoot(l) ==
  /\ pc[l] = "root"
  /\ IF at[l] \notin root
       THEN Goto(l, "spawn") /\ UNCHANGED at
       ELSE IF at[l][2] < MaxNonce
              THEN Goto(l, "owner") /\ at' = [at EXCEPT ![l] = <<pid[l], at[l][2] + 1>>]
              ELSE Goto(l, "failed") /\ UNCHANGED at
  /\ UNCHANGED <<process, disk, memory, scan, want, lease, stale>>

\* The reducer is built meanwhile and started with the token, or is not.
Spawn(l) ==
  /\ pc[l] = "spawn"
  /\ \/ \E n \in FreePid : /\ status' = [status EXCEPT ![Child[l]] = "up"]
                           /\ pid' = [pid EXCEPT ![Child[l]] = n]
                           /\ token' = [token EXCEPT ![Child[l]] = at[l]]
     \/ status' = [status EXCEPT ![Child[l]] = "gone"] /\ UNCHANGED <<pid, token>>
  /\ Goto(l, "wait")
  /\ UNCHANGED <<disk, memory, at, scan, want, lease, stale>>

CleanLock(l) ==
  /\ pc[l] = "wait" /\ status[Child[l]] = "gone"
  /\ parentLock = None
  /\ parentLock' = l /\ Goto(l, "clean")
  /\ UNCHANGED <<process, ownerFile, ownerLock, root, dirs, memory,
                 at, scan, want, lease, stale>>

\* A store that is locked belongs to somebody else by now.
CleanTry(l) ==
  /\ pc[l] = "clean"
  /\ \/ /\ at[l] \in ownerFile /\ ownerLock[at[l]] = None
        /\ ownerLock' = [ownerLock EXCEPT ![at[l]] = l]
        /\ Goto(l, "cleanRoot") /\ UNCHANGED parentLock
     \/ /\ at[l] \in ownerFile /\ ownerLock[at[l]] # None
        /\ parentLock' = None /\ Goto(l, "done") /\ UNCHANGED ownerLock
     \/ /\ at[l] \notin ownerFile
        /\ Goto(l, "cleanRoot") /\ UNCHANGED <<ownerLock, parentLock>>
  /\ UNCHANGED <<process, ownerFile, root, dirs, memory, at, scan, want, lease, stale>>

CleanRoot(l) ==
  /\ pc[l] = "cleanRoot" /\ RemoveRoot(l, "cleanOwner")
  /\ UNCHANGED <<process, ownerFile, ownerLock, parentLock, memory,
                 at, scan, want, lease, stale>>

\* Mutant: only the root is removed.
CleanOwnerKept(l) ==
  /\ pc[l] = "cleanOwner"
  /\ ownerLock' = Unlock(at[l]) /\ parentLock' = None /\ Goto(l, "done")
  /\ UNCHANGED <<process, ownerFile, root, dirs, memory, at, scan, want, lease, stale>>

CleanOwner(l) ==
  /\ pc[l] = "cleanOwner"
  /\ ownerLock' = Unlock(at[l]) /\ ownerFile' = ownerFile \ {at[l]}
  /\ parentLock' = None /\ Goto(l, "done")
  /\ UNCHANGED <<process, root, dirs, memory, at, scan, want, lease, stale>>

CleanFail(l) ==
  /\ pc[l] \in {"clean", "cleanRoot", "cleanOwner"}
  /\ ownerLock' = IF pc[l] # "clean" /\ ownerLock[at[l]] = l THEN Unlock(at[l]) ELSE ownerLock
  /\ parentLock' = None /\ Goto(l, "failed")
  /\ UNCHANGED <<process, ownerFile, root, dirs, memory, at, scan, want, lease, stale>>

LauncherStep(l) ==
  CheckOwner(l) \/ CheckRoot(l) \/ Spawn(l) \/ CleanLock(l) \/ CleanTry(l)
  \/ CleanRoot(l) \/ CleanOwner(l)

-----------------------------------------------------------------------------
(* The analyzer: prepare_snapshots.                                        *)

\* The artifact has been read and hashed: these bytes are compiled against.
\* Only procedural macros share their copies within the process.
Request(a) ==
  /\ Up(a) /\ pc[a] = "idle"
  /\ \E w \in Uses[a] \ {Nothing} : want' = [want EXCEPT ![a] = w]
  /\ Goto(a, "lock")
  /\ UNCHANGED <<process, disk, memory, at, scan, lease, stale>>

\* reap_snapshot_parent: without external crates only dead stores are removed.
RequestNothing(a) ==
  /\ Up(a) /\ pc[a] = "idle" /\ Nothing \in Uses[a] /\ Goto(a, "lock")
  /\ UNCHANGED <<process, disk, memory, at, scan, want, lease, stale>>

Acquire(a) ==
  /\ pc[a] = "lock" /\ parentLock = None
  /\ parentLock' = a /\ Goto(a, "reap")
  /\ scan' = [scan EXCEPT ![a] = ownerFile]
  /\ stale' = [stale EXCEPT ![a] = {t \in ownerFile : ownerLock[t] = None}]
  /\ UNCHANGED <<process, ownerFile, ownerLock, root, dirs, memory, at, want, lease>>

\* Mutant: an owner file is taken without a look at its lock.
LockedNever(t) == FALSE
Locked(t) == ownerLock[t] # None

\* Mutants: the first live store ends the search; lock instead of try_lock.
ReapTryBreak(a) ==
  /\ pc[a] = "reap"
  /\ \E t \in scan[a] :
       IF t \notin ownerFile \/ Locked(t)
         THEN scan' = [scan EXCEPT ![a] = {}] /\ UNCHANGED <<ownerLock, at, pc>>
         ELSE /\ scan' = [scan EXCEPT ![a] = scan[a] \ {t}]
              /\ ownerLock' = [ownerLock EXCEPT ![t] = Home[a]]
              /\ at' = [at EXCEPT ![a] = t] /\ Goto(a, "reapRoot")
  /\ UNCHANGED <<process, ownerFile, root, dirs, parentLock, memory, want, lease, stale>>
ReapTryWait(a) ==
  /\ pc[a] = "reap"
  /\ \E t \in scan[a] :
       /\ ~Locked(t)
       /\ scan' = [scan EXCEPT ![a] = scan[a] \ {t}]
       /\ ownerLock' = [ownerLock EXCEPT ![t] = Home[a]]
       /\ at' = [at EXCEPT ![a] = t] /\ Goto(a, "reapRoot")
  /\ UNCHANGED <<process, ownerFile, root, dirs, parentLock, memory, want, lease, stale>>

ReapTry(a) ==
  /\ pc[a] = "reap"
  /\ \E t \in scan[a] :
       /\ scan' = [scan EXCEPT ![a] = scan[a] \ {t}]
       /\ IF t \notin ownerFile \/ Locked(t)
            THEN UNCHANGED <<ownerLock, at, pc>>
            ELSE /\ ownerLock' = [ownerLock EXCEPT ![t] = Home[a]]
                 /\ at' = [at EXCEPT ![a] = t] /\ Goto(a, "reapRoot")
  /\ UNCHANGED <<process, ownerFile, root, dirs, parentLock, memory, want, lease, stale>>

ReapRoot(a) ==
  /\ pc[a] = "reapRoot" /\ RemoveRoot(a, "reapOwner")
  /\ UNCHANGED <<process, ownerFile, ownerLock, parentLock, memory,
                 at, scan, want, lease, stale>>

ReapOwner(a) ==
  /\ pc[a] = "reapOwner"
  /\ ownerLock' = Unlock(at[a]) /\ ownerFile' = ownerFile \ {at[a]}
  /\ Goto(a, "reap")
  /\ UNCHANGED <<process, root, dirs, parentLock, memory, at, scan, want, lease, stale>>

\* process_store_root: the store is created when the process has none.
Reaped(a) ==
  /\ pc[a] = "reap" /\ scan[a] = {}
  /\ \/ /\ want[a] = Nothing /\ parentLock' = None /\ Goto(a, "done")
     \/ /\ want[a] # Nothing /\ store[Home[a]] # None /\ Goto(a, "copy") /\ UNCHANGED parentLock
     \/ /\ want[a] # Nothing /\ store[Home[a]] = None /\ Goto(a, "create") /\ UNCHANGED parentLock
  /\ UNCHANGED <<process, ownerFile, ownerLock, root, dirs, memory,
                 at, scan, want, lease, stale>>

\* ProcessExternalArtifactStore::create: a token of the launcher is tried once.
Retry(r) == token[r] = None
Candidate(r) == IF token[r] # None THEN token[r] ELSE <<pid[r], nonce[r]>>

CreateOwner(a) ==
  /\ pc[a] = "create"
  /\ LET r == Home[a] IN
       /\ nonce[r] <= MaxNonce
       /\ nonce' = [nonce EXCEPT ![r] = @ + 1]
       /\ at' = [at EXCEPT ![a] = Candidate(r)]
       /\ IF Candidate(r) \in ownerFile
            THEN /\ UNCHANGED ownerFile
                 /\ IF Retry(r) THEN UNCHANGED <<pc, parentLock>>
                                ELSE Goto(a, "failed") /\ parentLock' = None
            ELSE /\ ownerFile' = ownerFile \cup {Candidate(r)}
                 /\ Goto(a, "lockOwner") /\ UNCHANGED parentLock
  /\ UNCHANGED <<process, ownerLock, root, dirs, store, known, loaded,
                 scan, want, lease, stale>>

LockOwner(a) ==
  /\ pc[a] = "lockOwner" /\ ~Locked(at[a])
  /\ ownerLock' = [ownerLock EXCEPT ![at[a]] = Home[a]] /\ Goto(a, "createRoot")
  /\ UNCHANGED <<process, ownerFile, root, dirs, parentLock, memory,
                 at, scan, want, lease, stale>>

CreateRoot(a) ==
  /\ pc[a] = "createRoot"
  /\ IF at[a] \notin root
       THEN /\ root' = root \cup {at[a]}
            /\ store' = [store EXCEPT ![Home[a]] = at[a]]
            /\ Goto(a, "copy") /\ UNCHANGED <<ownerFile, ownerLock, parentLock>>
       ELSE /\ ownerLock' = Unlock(at[a]) /\ ownerFile' = ownerFile \ {at[a]}
            /\ UNCHANGED <<root, store>>
            /\ IF Retry(Home[a]) THEN Goto(a, "create") /\ UNCHANGED parentLock
                                 ELSE Goto(a, "failed") /\ parentLock' = None
  /\ UNCHANGED <<process, dirs, nonce, known, loaded, at, scan, want, lease, stale>>

\* How many Arcs keep a directory: those of the analyzers and the loaded one.
Kept(r, d) ==
  \/ d \in loaded[r]
  \/ \E b \in Analyzer : Home[b] = r /\ lease[b] = d /\ pc[b] \in {"release", "ready"}

\* The directories whose Weak can be upgraded, among those made for an artifact.
\* Mutant: an artifact is known by its file name, whatever it holds.
SharedByName(r, w) == IF w.share THEN {known[r][b] : b \in Bytes} \ {None} ELSE {}
Shared(r, w) == IF w.share THEN {known[r][w.bytes]} \ {None} ELSE {}

\* A directory is still empty: its record has the bytes None.
Empty(d) == [d EXCEPT !.bytes = None]

Copy(a) ==
  /\ pc[a] = "copy"
  /\ LET r == Home[a]
         live == {d \in Shared(r, want[a]) : Kept(r, d)}
         new == [at |-> store[r], name |-> nonce[r], bytes |-> want[a].bytes]
     IN \/ \E d \in live : /\ lease' = [lease EXCEPT ![a] = d] /\ Goto(a, "release")
                           /\ UNCHANGED <<dirs, nonce>>
        \/ /\ live = {} /\ nonce[r] <= MaxNonce
           /\ dirs' = dirs \cup {Empty(new)}
           /\ lease' = [lease EXCEPT ![a] = new] /\ Goto(a, "write")
           /\ nonce' = [nonce EXCEPT ![r] = @ + 1]
  /\ UNCHANGED <<process, ownerFile, ownerLock, root, parentLock, store, known, loaded,
                 at, scan, want, stale>>

Write(a) ==
  /\ pc[a] = "write"
  /\ dirs' = (dirs \ {Empty(lease[a])}) \cup {lease[a]}
  /\ known' = IF want[a].share
                THEN [known EXCEPT ![Home[a]][want[a].bytes] = lease[a]] ELSE known
  /\ Goto(a, "release")
  /\ UNCHANGED <<process, ownerFile, ownerLock, root, parentLock, store, nonce, loaded,
                 at, scan, want, lease, stale>>

Release(a) ==
  /\ pc[a] = "release"
  /\ parentLock' = None /\ Goto(a, "ready")
  /\ UNCHANGED <<process, ownerFile, ownerLock, root, dirs, memory,
                 at, scan, want, lease, stale>>

\* The compiler loads the procedural macro; pin takes the mutex of the stores,
\* which a thread that creates a store or a shared copy holds.
Load(a) ==
  /\ pc[a] = "ready" /\ want[a].share
  /\ \A b \in Threads(Home[a]) :
       ~(pc[b] \in {"lockOwner", "createRoot"} \/ (pc[b] = "write" /\ want[b].share))
  /\ loaded' = [loaded EXCEPT ![Home[a]] = @ \cup {lease[a]}]
  /\ UNCHANGED <<process, disk, store, nonce, known, actor>>

\* Mutant: loading a procedural macro does not keep its directory.
LastArcUnpinned(a) ==
  \A b \in Threads(Home[a]) \ {a} :
    ~(lease[b] = lease[a] /\ pc[b] \in {"release", "ready"})
LastArc(a) ==
  /\ lease[a] \notin loaded[Home[a]]
  /\ \A b \in Threads(Home[a]) \ {a} :
       ~(lease[b] = lease[a] /\ pc[b] \in {"release", "ready"})

\* The reduction is over: whoever gives up the last Arc removes the directory.
Finish(a) ==
  /\ pc[a] = "ready" /\ Goto(a, IF LastArc(a) THEN "drop" ELSE "done")
  /\ UNCHANGED <<process, disk, memory, at, scan, want, lease, stale>>

\* Drop for SnapshotDirectory; its errors are ignored.
Drop(a) ==
  /\ pc[a] = "drop" /\ Goto(a, "done")
  /\ dirs' \in {dirs, dirs \ {lease[a], Empty(lease[a])}}
  /\ UNCHANGED <<process, ownerFile, ownerLock, root, parentLock, memory,
                 at, scan, want, lease, stale>>

\* A file operation fails: guards release what they hold, and what was just
\* created is removed, if that works.
Fail(a) ==
  /\ \/ /\ pc[a] \in {"reap", "create", "copy"} /\ UNCHANGED <<ownerLock, ownerFile, dirs>>
     \/ /\ pc[a] \in {"reapRoot", "reapOwner"}
        /\ ownerLock' = Unlock(at[a]) /\ UNCHANGED <<ownerFile, dirs>>
     \/ /\ pc[a] \in {"lockOwner", "createRoot"}
        /\ ownerLock' = Unlock(at[a])
        /\ ownerFile' \in {ownerFile, ownerFile \ {at[a]}} /\ UNCHANGED dirs
     \/ /\ pc[a] = "write"
        /\ dirs' \in {dirs, dirs \ {Empty(lease[a])}} /\ UNCHANGED <<ownerLock, ownerFile>>
  /\ parentLock' = None /\ Goto(a, "failed")
  /\ UNCHANGED <<process, root, memory, at, scan, want, lease, stale>>

AnalyzerStep(a) ==
  Acquire(a) \/ ReapTry(a) \/ ReapRoot(a) \/ ReapOwner(a) \/ Reaped(a) \/ CreateOwner(a)
  \/ LockOwner(a) \/ CreateRoot(a) \/ Copy(a) \/ Write(a) \/ Release(a) \/ Finish(a) \/ Drop(a)

Next ==
  \/ \E l \in Launcher : StartLauncher(l) \/ LauncherStep(l) \/ CleanFail(l)
  \/ \E r \in Reducer : StartReducer(r) \/ Exit(r)
  \/ \E p \in Process : Kill(p)
  \/ \E a \in Analyzer : Request(a) \/ RequestNothing(a) \/ AnalyzerStep(a) \/ Load(a) \/ Fail(a)

Spec == Init /\ [][Next]_vars

\* Threads run on; a process that waits for a lock gets it when it stays free.
FairSpec ==
  /\ Spec
  /\ \A a \in Analyzer : WF_vars(AnalyzerStep(a))
  /\ \A l \in Launcher : WF_vars(LauncherStep(l))

-----------------------------------------------------------------------------
\* Where a thread of a reducer, and where a launcher, has the parent's lock.
Holding == {"reap", "reapRoot", "reapOwner", "create", "lockOwner", "createRoot",
            "copy", "write", "release"}
Cleaning == {"clean", "cleanRoot", "cleanOwner"}
Place == Holding \cup Cleaning \cup
  {"idle", "owner", "root", "spawn", "wait", "lock", "ready", "drop", "done", "failed", "gone"}

\* The state's types; only the actor between Acquire and Release has the lock.
TypeOK ==
  /\ pid \in [Process -> 0..Pids] /\ status \in [Process -> {"new", "up", "gone"}]
  /\ ownerFile \subseteq Token /\ root \subseteq Token /\ dirs \subseteq Directory
  /\ ownerLock \in [Token -> Process \cup {None}]
  /\ parentLock \in Actor \cup {None}
  /\ token \in [Reducer -> Token \cup {None}] /\ store \in [Reducer -> Token \cup {None}]
  /\ nonce \in [Reducer -> 0..(MaxNonce + 1)]
  /\ known \in [Reducer -> [Bytes -> Directory \cup {None}]]
  /\ loaded \in [Reducer -> SUBSET Directory]
  /\ pc \in [Actor -> Place] /\ at \in [Actor -> Token \cup {None}]
  /\ scan \in [Analyzer -> SUBSET Token] /\ stale \in [Analyzer -> SUBSET Token]
  /\ want \in [Analyzer -> Wanted] /\ lease \in [Analyzer -> Directory \cup {None}]
  /\ \A a \in Analyzer : pc[a] \in Holding <=> parentLock = a
  /\ \A l \in Launcher : pc[l] \in Cleaning <=> parentLock = l

\* The directory a compiler reads is there and holds the bytes that were read
\* and hashed for it, as long as it reads; a procedural macro that a reducer
\* has loaded stays while the reducer lives.
LeaseIntact ==
  /\ \A a \in Analyzer :
       pc[a] \in {"release", "ready"} =>
         /\ lease[a] \in dirs /\ lease[a].bytes = want[a].bytes
         /\ lease[a].at \in root /\ ownerLock[lease[a].at] = Home[a]
  /\ \A r \in Reducer : status[r] = "up" => loaded[r] \subseteq dirs

\* Stores that were dead when a reducer got the parent's lock are gone when it
\* goes on to its own, or that one takes their place.  None is overlooked: a
\* root never outlives the owner file by which it is found, wherever the
\* process that made or removed it was killed.
StaleRemoved ==
  /\ root \subseteq ownerFile
  /\ \A a \in Analyzer :
       pc[a] \in {"create", "copy", "write", "release"} =>
         \A t \in stale[a] : (t \in ownerFile \cup root) => (store[Home[a]] = t)

\* A launcher that ends without an error leaves nothing under its token but
\* the store of a process that has taken it over.
CleanedUp ==
  [][\A l \in Launcher :
       (pc[l] # "done" /\ pc'[l] = "done" /\ at[l] \in ownerFile' \cup root')
         => ownerLock'[at[l]] # None]_vars

\* Whoever wants the parent's lock gets it and gives it up: a reducer never
\* waits for a store, a launcher never for a reducer that has ended.
PrepareEnds ==
  /\ \A a \in Analyzer :
       pc[a] = "lock" \/ parentLock = a ~> pc[a] # "lock" /\ parentLock # a
  /\ \A l \in Launcher :
       pc[l] = "wait" /\ status[Child[l]] = "gone" ~> pc[l] # "wait" /\ parentLock # l
=============================================================================
