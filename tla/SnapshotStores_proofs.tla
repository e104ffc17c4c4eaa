----------------------- MODULE SnapshotStores_proofs -----------------------
(***************************************************************************)
(* The safety properties of SnapshotStores, for every number of launchers, *)
(* reducers and threads, however their process numbers recur and whenever  *)
(* they are killed.                                                        *)
(*                                                                         *)
(* The lock of the parent directory makes one actor at a time create or    *)
(* remove stores; the lock of an owner file says whose a store is.  A live *)
(* reducer's store carries its own lock, so who removes a root holds a     *)
(* lock, or has seen no owner file, that excludes every store in use.      *)
(***************************************************************************)
EXTENDS SnapshotStores, TLAPS

\* Who is at work is up; a launcher's reducer is started once, by the launcher;
\* a process that has not started has no store.
LifeInv ==
  /\ \A a \in Analyzer :
       /\ pc[a] \notin {"idle", "gone"} => status[Home[a]] = "up"
       /\ pc[a] \in {"reapRoot", "reapOwner", "lockOwner", "createRoot"} => at[a] \in Token
  /\ \A l \in Launcher :
       /\ pc[l] \notin {"idle", "gone"} => status[l] = "up" /\ at[l] \in Token
       /\ status[l] = "new" => pc[l] = "idle"
       /\ pc[l] \in {"idle", "owner", "root", "spawn"} => status[Child[l]] = "new"
  /\ \A p \in Process : status[p] = "up" => pid[p] \in Pid
  /\ \A r \in Reducer : status[r] = "new" => store[r] = None /\ loaded[r] = {}

\* A directory lies in a root, a root has an owner file, and the store of a
\* live reducer is there and locked by it.
DiskInv ==
  /\ root \subseteq ownerFile
  /\ \A d \in dirs : d.at \in root
  /\ \A r \in Reducer :
       status[r] = "up" /\ store[r] # None => store[r] \in root /\ ownerLock[store[r]] = r

\* Whose store the holder of the parent's lock is about to remove or create.
HolderInv ==
  /\ \A a \in Analyzer :
       /\ pc[a] \in {"reapRoot", "reapOwner"} =>
            ownerLock[at[a]] = Home[a] /\ at[a] # store[Home[a]]
       /\ pc[a] = "reapOwner" => at[a] \notin root
       /\ pc[a] \in {"lockOwner", "createRoot"} => at[a] \in ownerFile \ root
       /\ pc[a] = "createRoot" => ownerLock[at[a]] = Home[a]
       /\ pc[a] \in {"create", "lockOwner", "createRoot"} => store[Home[a]] = None
       /\ pc[a] \in {"copy", "write", "release", "ready", "drop"} => store[Home[a]] # None
       /\ pc[a] \in {"create", "lockOwner", "createRoot", "copy", "write", "release",
                     "ready", "drop"} => want[a] # Nothing
  /\ \A l \in Launcher :
       /\ pc[l] \in {"cleanRoot", "cleanOwner"} =>
            at[l] \notin ownerFile \/ ownerLock[at[l]] = l
       /\ pc[l] = "cleanOwner" => at[l] \notin root

\* The directories a reducer has made have names of their own; one that is
\* being written or given up is nobody else's.
LeaseInv ==
  /\ \A a \in Analyzer :
       /\ pc[a] \in {"write", "release", "ready", "drop"} =>
            /\ lease[a] \in Directory
            /\ lease[a].at = store[Home[a]] /\ lease[a].bytes = want[a].bytes
            /\ lease[a].name < nonce[Home[a]]
       /\ pc[a] \in {"release", "ready"} => lease[a] \in dirs
       /\ pc[a] \in {"write", "drop"} =>
            /\ lease[a] \notin loaded[Home[a]]
            /\ \A b \in Analyzer \ {a} :
                 Home[b] = Home[a] /\ pc[b] \in {"write", "release", "ready"} => lease[b] # lease[a]
  /\ \A r \in Reducer :
       /\ \A d \in loaded[r] :
            d.at = store[r] /\ store[r] # None /\ d.bytes # None /\ d.name < nonce[r]
       /\ status[r] = "up" => loaded[r] \subseteq dirs
       /\ \A b \in Bytes : known[r][b] # None => known[r][b].bytes = b

\* The stores that were dead at Acquire and still have an owner file are to be
\* looked at, under removal, or the one that takes their place.
StaleInv ==
  \A a \in Analyzer :
    /\ pc[a] \in {"reap", "reapRoot", "reapOwner"} =>
         \A t \in stale[a] :
           /\ t \in ownerFile => t \in scan[a] \/ (pc[a] # "reap" /\ t = at[a])
           /\ t \in scan[a] => ownerLock[t] = None
    /\ pc[a] = "create" => stale[a] \cap ownerFile = {}
    /\ pc[a] \in {"lockOwner", "createRoot"} => stale[a] \cap ownerFile \subseteq {at[a]}
    /\ pc[a] \in {"copy", "write", "release"} =>
         stale[a] \cap ownerFile \subseteq {store[Home[a]]}

\* The inductive invariant.
IInv == TypeOK /\ LifeInv /\ DiskInv /\ HolderInv /\ LeaseInv /\ StaleInv
-----------------------------------------------------------------------------
\* The assumptions on the constants, one by one.
LEMMA Facts ==
  /\ None \notin Process /\ None \notin Actor /\ None \notin Bytes
  /\ None \notin Token /\ None \notin Directory
  /\ \A l \in Launcher : l \notin Reducer /\ l \notin Analyzer
  /\ Home \in [Analyzer -> Reducer] /\ Child \in [Launcher -> Reducer]
  /\ Uses \in [Analyzer -> SUBSET Wanted]
  /\ \A l, m \in Launcher : Child[l] = Child[m] => l = m
  /\ Pids \in Nat /\ MaxNonce \in Nat
BY ProcessAssumption

LEMMA StartLauncherIInv ==
  ASSUME IInv, NEW l \in Launcher, StartLauncher(l)
  PROVE  IInv'
<1> USE DEF IInv, StartLauncher, Goto
<1>1. PICK n \in FreePid :
        /\ status' = [status EXCEPT ![l] = "up"] /\ pid' = [pid EXCEPT ![l] = n]
        /\ at' = [at EXCEPT ![l] = <<n, 0>>]
  OBVIOUS
<1>2. n \in Pid /\ n \in 0..Pids /\ <<n, 0>> \in Token
  BY Facts DEF FreePid, Pid, Token
<1>3. TypeOK'
  BY <1>1, <1>2 DEF TypeOK, LifeInv, Actor, Holding, Cleaning, Place, memory, disk
<1>4. LifeInv'
  <2>1. /\ status'[l] = "up" /\ pid'[l] = n /\ pc'[l] = "owner" /\ at'[l] = <<n, 0>>
        /\ \A p \in Process \ {l} : status'[p] = status[p] /\ pid'[p] = pid[p]
        /\ \A x \in Actor \ {l} : pc'[x] = pc[x] /\ at'[x] = at[x]
    BY <1>1 DEF TypeOK, Process, Actor
  <2>2. UNCHANGED <<store, loaded>>
    BY DEF memory
  <2>3. status[Child[l]] = "new" => Child[l] # l /\ status'[Child[l]] = "new"
    BY <2>1, Facts DEF Process
  <2>4. pc[l] = "idle"
    BY DEF LifeInv, Process
  <2> QED BY <1>2, <2>1, <2>2, <2>3, <2>4, Facts DEF LifeInv, Process, Actor
<1>5. DiskInv'
  BY Facts DEF DiskInv, memory, disk
<1>6. HolderInv'
  BY DEF TypeOK, HolderInv, memory, disk
<1>7. LeaseInv'
  BY Facts DEF LeaseInv, memory, disk
<1>8. StaleInv'
  BY Facts DEF StaleInv, memory, disk
<1> QED BY <1>3, <1>4, <1>5, <1>6, <1>7, <1>8

LEMMA StartReducerIInv ==
  ASSUME IInv, NEW r \in Reducer, StartReducer(r)
  PROVE  IInv'
<1> USE DEF IInv, StartReducer, Goto
<1>1. PICK n \in FreePid :
        status' = [status EXCEPT ![r] = "up"] /\ pid' = [pid EXCEPT ![r] = n]
  OBVIOUS
<1>2. n \in Pid /\ n \in 0..Pids
  BY DEF FreePid, Pid
<1>3. TypeOK'
  BY <1>1, <1>2 DEF TypeOK, memory, actor, disk
<1>4. LifeInv'
  BY <1>1, <1>2 DEF TypeOK, LifeInv, memory, actor
<1>5. DiskInv'
  BY DEF LifeInv, DiskInv, memory, disk
<1>6. HolderInv'
  BY DEF HolderInv, memory, actor, disk
<1>7. LeaseInv'
  BY DEF LifeInv, LeaseInv, memory, actor, disk
<1>8. StaleInv'
  BY DEF StaleInv, memory, actor, disk
<1> QED BY <1>3, <1>4, <1>5, <1>6, <1>7, <1>8

LEMMA EndIInv ==
  ASSUME IInv, NEW p \in Process, status[p] = "up", End(p)
  PROVE  IInv'
<1> USE DEF IInv, End, Goto
<1>1. TypeOK'
  BY Facts DEF TypeOK, Actor, Holding, Cleaning, Place, memory
<1>2. LifeInv'
  BY Facts DEF LifeInv, Actor, memory, Threads
<1>3. DiskInv'
  BY DEF TypeOK, DiskInv, memory
<1>4. HolderInv'
  BY Facts DEF LifeInv, HolderInv, Actor, memory, Threads
<1>5. LeaseInv'
  BY DEF LeaseInv, Actor, memory
<1>6. StaleInv'
  BY DEF TypeOK, StaleInv, Actor, memory
<1> QED BY <1>1, <1>2, <1>3, <1>4, <1>5, <1>6

LEMMA CheckOwnerIInv ==
  ASSUME IInv, NEW l \in Launcher, CheckOwner(l)
  PROVE  IInv'
<1> USE DEF IInv, CheckOwner, Goto
<1>1. pid[l] \in Pid /\ at[l] \in Token
  BY DEF LifeInv, Process
<1>2. at[l][2] < MaxNonce => <<pid[l], at[l][2] + 1>> \in Token
  BY <1>1, Facts DEF Token
<1>3. /\ pc[l] = "owner" /\ UNCHANGED <<process, disk, memory, scan, want, lease, stale>>
      /\ \/ at' = at
         \/ at[l][2] < MaxNonce /\ at' = [at EXCEPT ![l] = <<pid[l], at[l][2] + 1>>]
      /\ pc' = pc \/ \E x \in {"root", "failed", "owner"} : pc' = [pc EXCEPT ![l] = x]
  OBVIOUS
<1>4. at' \in [Actor -> Token \cup {None}] /\ at'[l] \in Token
  <2>1. CASE at' = at
    BY <1>1, <2>1 DEF TypeOK
  <2>2. CASE at[l][2] < MaxNonce /\ at' = [at EXCEPT ![l] = <<pid[l], at[l][2] + 1>>]
    <3> DEFINE new == <<pid[l], at[l][2] + 1>>
    <3>1. new \in Token /\ at' = [at EXCEPT ![l] = new]
      BY <1>2, <2>2
    <3> HIDE DEF new
    <3> QED BY <3>1 DEF TypeOK, Actor
  <2> QED BY <1>3, <2>1, <2>2
<1>5. /\ pc' \in [Actor -> Place] /\ pc'[l] \in {"owner", "root", "spawn", "failed"}
      /\ \A x \in Actor \ {l} : pc'[x] = pc[x] /\ at'[x] = at[x]
  BY <1>3 DEF TypeOK, Actor, Place
<1>6. TypeOK'
  <2>1. /\ \A b \in Analyzer : pc'[b] = pc[b]
        /\ \A m \in Launcher : pc'[m] \in Cleaning <=> pc[m] \in Cleaning
    BY <1>3, <1>5, Facts DEF Actor, Cleaning
  <2>2. UNCHANGED <<process, disk, memory, scan, want, lease, stale>>
    BY <1>3
  <2> QED BY <1>4, <1>5, <2>1, <2>2 DEF TypeOK, process, memory, disk
<1>7. LifeInv'
  BY <1>3, <1>4, <1>5, Facts DEF LifeInv, Actor, process, memory
<1>8. DiskInv'
  BY DEF DiskInv, process, memory, disk
<1>9. HolderInv'
  BY Facts DEF TypeOK, HolderInv, Actor, memory, disk
<1>10. LeaseInv'
  BY DEF TypeOK, LeaseInv, Actor, process, memory, disk
<1>11. StaleInv'
  BY DEF TypeOK, StaleInv, Actor, memory, disk
<1> QED BY <1>6, <1>7, <1>8, <1>9, <1>10, <1>11

LEMMA CheckRootIInv ==
  ASSUME IInv, NEW l \in Launcher, CheckRoot(l)
  PROVE  IInv'
<1> USE DEF IInv, CheckRoot, Goto
<1>1. pid[l] \in Pid /\ at[l] \in Token
  BY DEF LifeInv, Process
<1>2. at[l][2] < MaxNonce => <<pid[l], at[l][2] + 1>> \in Token
  BY <1>1, Facts DEF Token
<1>3. /\ pc[l] = "root" /\ UNCHANGED <<process, disk, memory, scan, want, lease, stale>>
      /\ \/ at' = at
         \/ at[l][2] < MaxNonce /\ at' = [at EXCEPT ![l] = <<pid[l], at[l][2] + 1>>]
      /\ pc' = pc \/ \E x \in {"spawn", "owner", "failed"} : pc' = [pc EXCEPT ![l] = x]
  OBVIOUS
<1>4. at' \in [Actor -> Token \cup {None}] /\ at'[l] \in Token
  <2>1. CASE at' = at
    BY <1>1, <2>1 DEF TypeOK
  <2>2. CASE at[l][2] < MaxNonce /\ at' = [at EXCEPT ![l] = <<pid[l], at[l][2] + 1>>]
    <3> DEFINE new == <<pid[l], at[l][2] + 1>>
    <3>1. new \in Token /\ at' = [at EXCEPT ![l] = new]
      BY <1>2, <2>2
    <3> HIDE DEF new
    <3> QED BY <3>1 DEF TypeOK, Actor
  <2> QED BY <1>3, <2>1, <2>2
<1>5. /\ pc' \in [Actor -> Place] /\ pc'[l] \in {"owner", "root", "spawn", "failed"}
      /\ \A x \in Actor \ {l} : pc'[x] = pc[x] /\ at'[x] = at[x]
  BY <1>3 DEF TypeOK, Actor, Place
<1>6. TypeOK'
  <2>1. /\ \A b \in Analyzer : pc'[b] = pc[b]
        /\ \A m \in Launcher : pc'[m] \in Cleaning <=> pc[m] \in Cleaning
    BY <1>3, <1>5, Facts DEF Actor, Cleaning
  <2>2. UNCHANGED <<process, disk, memory, scan, want, lease, stale>>
    BY <1>3
  <2> QED BY <1>4, <1>5, <2>1, <2>2 DEF TypeOK, process, memory, disk
<1>7. LifeInv'
  BY <1>3, <1>4, <1>5, Facts DEF LifeInv, Actor, process, memory
<1>8. DiskInv'
  BY DEF DiskInv, process, memory, disk
<1>9. HolderInv'
  BY DEF TypeOK, HolderInv, Actor, Cleaning, memory, disk
<1>10. LeaseInv'
  BY DEF TypeOK, LeaseInv, Actor, process, memory, disk
<1>11. StaleInv'
  BY <1>5 DEF StaleInv, Actor, memory, disk
<1> QED BY <1>6, <1>7, <1>8, <1>9, <1>10, <1>11

LEMMA SpawnIInv ==
  ASSUME IInv, NEW l \in Launcher, Spawn(l)
  PROVE  IInv'
<1> USE DEF IInv, Spawn, Goto
<1>1. /\ Child[l] \in Reducer /\ status[Child[l]] = "new" /\ at[l] \in Token
      /\ \A m \in Launcher \ {l} : Child[m] # Child[l]
  BY Facts DEF LifeInv
<1>2. \A n \in FreePid : n \in Pid /\ n \in 0..Pids
  BY DEF FreePid, Pid
<1>3. TypeOK'
  <2>1. pc' \in [Actor -> Place] /\ pc'[l] = "wait" /\ \A x \in Actor \ {l} : pc'[x] = pc[x]
    BY DEF TypeOK, Actor, Place
  <2>2. CASE \E n \in FreePid : /\ status' = [status EXCEPT ![Child[l]] = "up"]
                               /\ pid' = [pid EXCEPT ![Child[l]] = n]
                               /\ token' = [token EXCEPT ![Child[l]] = at[l]]
    <3>1. /\ status' \in [Process -> {"new", "up", "gone"}] /\ pid' \in [Process -> 0..Pids]
      BY <1>1, <1>2, <2>2 DEF TypeOK, Process
    <3>2. token' \in [Reducer -> Token \cup {None}]
      BY <1>1, <2>2 DEF TypeOK
    <3> QED BY <2>1, <3>1, <3>2, Facts DEF TypeOK, Cleaning, memory, disk
  <2>3. CASE status' = [status EXCEPT ![Child[l]] = "gone"] /\ UNCHANGED <<pid, token>>
    <3>1. /\ status' \in [Process -> {"new", "up", "gone"}]
      BY <1>1, <2>3 DEF TypeOK, Process
    <3> QED BY <2>1, <2>3, <3>1, Facts DEF TypeOK, Cleaning, memory, disk
  <2> QED BY <2>2, <2>3
<1>4. LifeInv'
  <2>1. /\ \A p \in Process \ {Child[l]} : status'[p] = status[p] /\ pid'[p] = pid[p]
        /\ status'[Child[l]] # "new"
        /\ status'[Child[l]] = "up" => pid'[Child[l]] \in Pid
        /\ pc'[l] = "wait" /\ \A x \in Actor \ {l} : pc'[x] = pc[x]
    BY <1>1, <1>2 DEF TypeOK, Process, Actor
  <2>2. \A a \in Analyzer : pc[a] \notin {"idle", "gone"} => Home[a] # Child[l]
    BY <1>1 DEF LifeInv
  <2> QED BY <1>1, <2>1, <2>2, Facts DEF LifeInv, Process, Actor, memory
<1>5. DiskInv'
  BY DEF TypeOK, LifeInv, DiskInv, Process, memory, disk
<1>6. HolderInv'
  BY DEF HolderInv, memory, disk
<1>7. LeaseInv'
  <2>1. loaded[Child[l]] = {}
    BY <1>1 DEF LifeInv
  <2>2. /\ \A p \in Process \ {Child[l]} : status'[p] = status[p]
        /\ pc'[l] = "wait" /\ \A x \in Actor \ {l} : pc'[x] = pc[x]
    BY <1>1 DEF TypeOK, Process, Actor
  <2> QED BY <2>1, <2>2 DEF LeaseInv, Process, memory, disk
<1>8. StaleInv'
  BY DEF StaleInv, memory, disk
<1> QED BY <1>3, <1>4, <1>5, <1>6, <1>7, <1>8

LEMMA CleanLockIInv ==
  ASSUME IInv, NEW l \in Launcher, CleanLock(l)
  PROVE  IInv'
<1> USE DEF IInv, CleanLock, Goto
<1>1. TypeOK'
  BY Facts DEF TypeOK, Actor, Cleaning, Place, process, memory
<1>2. LifeInv'
  BY DEF LifeInv, process, memory
<1>3. DiskInv'
  BY DEF DiskInv, process, memory
<1>4. HolderInv'
  BY DEF HolderInv, memory
<1>5. LeaseInv'
  BY DEF LeaseInv, process, memory
<1>6. StaleInv'
  BY DEF StaleInv, memory
<1> QED BY <1>1, <1>2, <1>3, <1>4, <1>5, <1>6

LEMMA CleanTryIInv ==
  ASSUME IInv, NEW l \in Launcher, CleanTry(l)
  PROVE  IInv'
<1> USE DEF IInv, CleanTry, Goto
<1>1. TypeOK'
  <2>1. \E x \in {"cleanRoot", "done"} : pc' = [pc EXCEPT ![l] = x]
    OBVIOUS
  <2>2. pc' \in [Actor -> Place] /\ \A x \in Actor \ {l} : pc'[x] = pc[x]
    BY DEF TypeOK, Place, Cleaning
  <2>3. ownerLock' \in [Token -> Process \cup {None}]
    BY DEF TypeOK, Process
  <2>4. parentLock = l /\ (pc'[l] \in Cleaning <=> parentLock' = l) /\ parentLock' \in {l, None}
    BY Facts DEF TypeOK, Actor, Cleaning
  <2>5. UNCHANGED <<status, pid, token, ownerFile, root, dirs, store, nonce, known, loaded,
                    at, scan, want, lease, stale>>
    BY DEF process, memory
  <2>6. \A x \in Actor \ {l} : parentLock # x /\ parentLock' # x
    BY <2>4, Facts
  <2>7. (\A b \in Analyzer : pc[b] \in Holding <=> parentLock = b)
        /\ (\A m \in Launcher : pc[m] \in Cleaning <=> parentLock = m)
    BY DEF TypeOK
  <2>8. (\A b \in Analyzer : pc'[b] \in Holding <=> parentLock' = b)
        /\ (\A m \in Launcher : pc'[m] \in Cleaning <=> parentLock' = m)
    BY <2>2, <2>4, <2>6, <2>7, Facts DEF Actor
  <2>9. parentLock' \in Actor \cup {None}
    BY <2>4 DEF Actor
  <2> QED BY <2>2, <2>3, <2>5, <2>8, <2>9 DEF TypeOK
<1>2. LifeInv'
  <2>1. \A x \in Actor \ {l} : pc'[x] = pc[x]
    BY DEF TypeOK, Actor
  <2>2. pc'[l] \in {"cleanRoot", "done"}
    BY DEF TypeOK, Actor
  <2> QED BY <2>1, <2>2, Facts DEF LifeInv, Actor, process, memory
<1>3. DiskInv'
  BY Facts DEF TypeOK, DiskInv, Process, process, memory
<1>4. HolderInv'
  BY DEF TypeOK, HolderInv, Actor, Holding, Cleaning, memory
<1>5. LeaseInv'
  BY DEF TypeOK, LeaseInv, Actor, process, memory
<1>6. StaleInv'
  BY DEF TypeOK, StaleInv, Process, Actor, Holding, Cleaning, Place, memory
<1> QED BY <1>1, <1>2, <1>3, <1>4, <1>5, <1>6

LEMMA CleanRootIInv ==
  ASSUME IInv, NEW l \in Launcher, CleanRoot(l)
  PROVE  IInv'
<1> USE DEF IInv, CleanRoot, Goto
<1>1. TypeOK'
  BY DEF TypeOK, LifeInv, DiskInv, LeaseInv, StaleInv, Process, Actor, Holding, Cleaning, Place,
     process, memory, RemoveRoot
<1>2. LifeInv'
  BY DEF TypeOK, LifeInv, Actor, process, memory, RemoveRoot
<1>3. DiskInv'
  BY Facts DEF DiskInv, HolderInv, process, memory, RemoveRoot
<1>4. HolderInv'
  BY DEF TypeOK, HolderInv, Actor, memory, RemoveRoot
<1>5. LeaseInv'
  <2>1. ASSUME NEW d \in dirs \ dirs', NEW r \in Reducer, status[r] = "up", store[r] # None
        PROVE  d.at # store[r]
    BY <2>1, Facts DEF RemoveRoot, DiskInv, HolderInv
  <2>2. \A x \in Actor : pc'[x] # pc[x] => x = l /\ pc[x] \in {"cleanRoot", "reapRoot"}
                                   /\ pc'[x] \in {"cleanOwner", "reapOwner"}
    BY DEF RemoveRoot, TypeOK, Actor
  <2>3. \A b \in Analyzer : pc'[b] \in {"write", "release", "ready", "drop"} => pc'[b] = pc[b]
    BY <2>2 DEF Actor
  <2>4. ASSUME NEW b \in Analyzer, pc[b] \in {"release", "ready"}
        PROVE  lease[b] \in dirs'
    BY <2>1, <2>4, Facts DEF LifeInv, HolderInv, LeaseInv
  <2>5. ASSUME NEW r \in Reducer, status[r] = "up"
        PROVE  loaded[r] \subseteq dirs'
    BY <2>1, <2>5 DEF LeaseInv
  <2> QED BY <2>3, <2>4, <2>5, Facts DEF LeaseInv, process, memory
<1>6. StaleInv'
  BY DEF TypeOK, StaleInv, Actor, Cleaning, memory, RemoveRoot
<1> QED BY <1>1, <1>2, <1>3, <1>4, <1>5, <1>6

LEMMA CleanOwnerIInv ==
  ASSUME IInv, NEW l \in Launcher, CleanOwner(l)
  PROVE  IInv'
<1> USE DEF IInv, CleanOwner, Goto
<1>1. TypeOK'
  BY Facts DEF TypeOK, Actor, Cleaning, Place, process, memory, Unlock
<1>2. LifeInv'
  BY DEF LifeInv, process, memory
<1>3. DiskInv'
  BY DEF DiskInv, HolderInv, process, memory, Unlock
<1>4. HolderInv'
  BY DEF TypeOK, HolderInv, Holding, Cleaning, memory
<1>5. LeaseInv'
  BY DEF LeaseInv, process, memory
<1>6. StaleInv'
  BY DEF StaleInv, memory, Unlock
<1> QED BY <1>1, <1>2, <1>3, <1>4, <1>5, <1>6

LEMMA CleanFailIInv ==
  ASSUME IInv, NEW l \in Launcher, CleanFail(l)
  PROVE  IInv'
<1> USE DEF IInv, CleanFail, Goto
<1>1. TypeOK'
  <2>1. /\ pc' \in [Actor -> Place] /\ pc'[l] = "failed" /\ \A x \in Actor \ {l} : pc'[x] = pc[x]
    BY DEF TypeOK, Actor, Place
  <2>2. ownerLock' \in [Token -> Process \cup {None}]
    BY DEF TypeOK, Unlock
  <2>3. parentLock = l /\ parentLock' = None
    BY DEF TypeOK, Cleaning
  <2>4. UNCHANGED <<status, pid, token, ownerFile, root, dirs, store, nonce, known, loaded,
                    at, scan, want, lease, stale>>
    BY DEF process, memory
  <2>5. /\ \A b \in Analyzer : pc'[b] \in Holding <=> parentLock' = b
        /\ \A m \in Launcher : pc'[m] \in Cleaning <=> parentLock' = m
    BY <2>1, <2>3, Facts DEF TypeOK, Actor, Cleaning
  <2> QED BY <2>1, <2>2, <2>3, <2>4, <2>5 DEF TypeOK
<1>2. LifeInv'
  BY DEF LifeInv, process, memory
<1>3. DiskInv'
  BY Facts DEF DiskInv, process, memory, Unlock
<1>4. HolderInv'
  BY Facts DEF TypeOK, HolderInv, Actor, memory, Unlock
<1>5. LeaseInv'
  BY DEF LeaseInv, process, memory
<1>6. StaleInv'
  BY DEF StaleInv, memory, Unlock
<1> QED BY <1>1, <1>2, <1>3, <1>4, <1>5, <1>6

LEMMA RequestIInv ==
  ASSUME IInv, NEW a \in Analyzer, Request(a)
  PROVE  IInv'
<1> USE DEF IInv, Request, Goto
<1>1. PICK w \in Uses[a] \ {Nothing} : want' = [want EXCEPT ![a] = w]
  OBVIOUS
<1>2. w \in Wanted
  BY Facts
<1>3. TypeOK'
  BY <1>1, Facts DEF TypeOK, Actor, Holding, Place, process, memory, disk
<1>4. LifeInv'
  BY Facts DEF LifeInv, process, memory, Up
<1>5. DiskInv'
  BY DEF DiskInv, process, memory, disk
<1>6. HolderInv'
  BY DEF HolderInv, memory, disk
<1>7. LeaseInv'
  BY DEF LeaseInv, process, memory, disk
<1>8. StaleInv'
  BY DEF StaleInv, memory, disk
<1> QED BY <1>3, <1>4, <1>5, <1>6, <1>7, <1>8

LEMMA RequestNothingIInv ==
  ASSUME IInv, NEW a \in Analyzer, RequestNothing(a)
  PROVE  IInv'
<1> USE DEF IInv, RequestNothing, Goto
<1>1. TypeOK'
  BY Facts DEF TypeOK, Actor, Holding, Place, process, memory, disk
<1>2. LifeInv'
  BY Facts DEF LifeInv, process, memory, Up
<1>3. DiskInv'
  BY DEF DiskInv, process, memory, disk
<1>4. HolderInv'
  BY DEF HolderInv, memory, disk
<1>5. LeaseInv'
  BY DEF LeaseInv, process, memory, disk
<1>6. StaleInv'
  BY DEF StaleInv, memory, disk
<1> QED BY <1>1, <1>2, <1>3, <1>4, <1>5, <1>6

LEMMA AcquireIInv ==
  ASSUME IInv, NEW a \in Analyzer, Acquire(a)
  PROVE  IInv'
<1> USE DEF IInv, Acquire, Goto
<1>1. TypeOK'
  BY Facts DEF TypeOK, Actor, Holding, Place, process, memory
<1>2. LifeInv'
  BY DEF LifeInv, process, memory
<1>3. DiskInv'
  BY DEF DiskInv, process, memory
<1>4. HolderInv'
  BY DEF HolderInv, memory
<1>5. LeaseInv'
  BY DEF LeaseInv, process, memory
<1>6. StaleInv'
  BY DEF TypeOK, StaleInv, memory
<1> QED BY <1>1, <1>2, <1>3, <1>4, <1>5, <1>6

LEMMA ReapTryIInv ==
  ASSUME IInv, NEW a \in Analyzer, ReapTry(a)
  PROVE  IInv'
<1> USE DEF IInv, ReapTry, Goto
<1>1. PICK t \in scan[a] :
       /\ scan' = [scan EXCEPT ![a] = scan[a] \ {t}]
       /\ IF t \notin ownerFile \/ Locked(t)
            THEN UNCHANGED <<ownerLock, at, pc>>
            ELSE /\ ownerLock' = [ownerLock EXCEPT ![t] = Home[a]]
                 /\ at' = [at EXCEPT ![a] = t] /\ Goto(a, "reapRoot")
  OBVIOUS
<1>2. t \in Token /\ Home[a] \in Process
  BY Facts DEF TypeOK, Process
<1>3. TypeOK'
  <2>1. CASE UNCHANGED <<ownerLock, at, pc>>
    BY <1>1, <2>1 DEF TypeOK, process, memory
  <2>2. CASE /\ ownerLock' = [ownerLock EXCEPT ![t] = Home[a]]
             /\ at' = [at EXCEPT ![a] = t] /\ pc' = [pc EXCEPT ![a] = "reapRoot"]
    <3>1. /\ pc' \in [Actor -> Place] /\ at' \in [Actor -> Token \cup {None}]
          /\ \A x \in Actor \ {a} : pc'[x] = pc[x]
      BY <1>2, <2>2 DEF TypeOK, Actor, Place, Holding
    <3>2. ownerLock' \in [Token -> Process \cup {None}] /\ scan' \in [Analyzer -> SUBSET Token]
      BY <1>1, <1>2, <2>2 DEF TypeOK
    <3>3. pc[a] \in Holding /\ pc'[a] \in Holding
      BY <2>2 DEF TypeOK, Actor, Holding
    <3> QED BY <3>1, <3>2, <3>3, Facts DEF TypeOK, Actor, process, memory
  <2> QED BY <1>1, <2>1, <2>2
<1>4. LifeInv'
  BY DEF TypeOK, LifeInv, Actor, Cleaning, process, memory
<1>5. DiskInv'
  BY Facts DEF TypeOK, DiskInv, Process, process, memory, Locked
<1>6. HolderInv'
  <2>1. CASE UNCHANGED <<ownerLock, at, pc>>
    BY <2>1 DEF HolderInv, process, memory
  <2>2. CASE /\ t \in ownerFile /\ ownerLock[t] = None
             /\ ownerLock' = [ownerLock EXCEPT ![t] = Home[a]]
             /\ at' = [at EXCEPT ![a] = t] /\ pc' = [pc EXCEPT ![a] = "reapRoot"]
    <3>1. /\ ownerLock'[t] = Home[a] /\ \A u \in Token \ {t} : ownerLock'[u] = ownerLock[u]
          /\ pc'[a] = "reapRoot" /\ at'[a] = t
          /\ \A x \in Actor \ {a} : pc'[x] = pc[x] /\ at'[x] = at[x]
      BY <1>2, <2>2 DEF TypeOK, Actor
    <3>2. t # store[Home[a]]
      BY <1>2, <2>2, Facts DEF LifeInv, DiskInv
    <3>3. parentLock = a
      BY DEF TypeOK, Holding
    <3>4. \A b \in Analyzer \ {a} : pc[b] \notin {"reapRoot", "reapOwner", "lockOwner", "createRoot"}
      BY <3>3 DEF TypeOK, Holding
    <3>5. \A l \in Launcher : pc[l] \notin Cleaning
      BY <3>3, Facts DEF TypeOK
    <3> QED BY <2>2, <3>1, <3>2, <3>4, Facts DEF HolderInv, Actor, memory
  <2> QED BY <1>1, <2>1, <2>2 DEF Locked
<1>7. LeaseInv'
  BY DEF TypeOK, LeaseInv, Actor, process, memory
<1>8. StaleInv'
  BY DEF TypeOK, StaleInv, Actor, Holding, Locked
<1> QED BY <1>3, <1>4, <1>5, <1>6, <1>7, <1>8

LEMMA ReapRootIInv ==
  ASSUME IInv, NEW a \in Analyzer, ReapRoot(a)
  PROVE  IInv'
<1> USE DEF IInv, ReapRoot, Goto
<1>1. TypeOK'
  <2>1. pc' = pc \/ pc' = [pc EXCEPT ![a] = "reapOwner"]
    BY DEF RemoveRoot
  <2>2. pc' \in [Actor -> Place] /\ \A x \in Actor \ {a} : pc'[x] = pc[x]
    BY <2>1 DEF TypeOK, Actor, Place, Holding
  <2>3. pc[a] \in Holding /\ pc'[a] \in Holding
    BY <2>1 DEF TypeOK, Actor, Holding
  <2>4. dirs' \subseteq dirs /\ root' \subseteq root
    BY DEF RemoveRoot
  <2> QED BY <2>2, <2>3, <2>4, Facts DEF TypeOK, Actor, process, memory
<1>2. LifeInv'
  BY DEF TypeOK, LifeInv, Actor, process, memory, RemoveRoot
<1>3. DiskInv'
  BY DEF DiskInv, HolderInv, process, memory, RemoveRoot
<1>4. HolderInv'
  BY DEF TypeOK, HolderInv, Actor, memory, RemoveRoot
<1>5. LeaseInv'
  <2>1. ASSUME NEW d \in dirs \ dirs', NEW r \in Reducer, status[r] = "up", store[r] # None
        PROVE  d.at # store[r]
    BY <2>1 DEF RemoveRoot, DiskInv, HolderInv
  <2>2. \A x \in Actor : pc'[x] # pc[x] => x = a /\ pc[x] \in {"cleanRoot", "reapRoot"}
                                   /\ pc'[x] \in {"cleanOwner", "reapOwner"}
    BY DEF RemoveRoot, TypeOK, Actor
  <2>3. \A b \in Analyzer : pc'[b] \in {"write", "release", "ready", "drop"} => pc'[b] = pc[b]
    BY <2>2 DEF Actor
  <2>4. ASSUME NEW b \in Analyzer, pc[b] \in {"release", "ready"}
        PROVE  lease[b] \in dirs'
    BY <2>1, <2>4, Facts DEF LifeInv, HolderInv, LeaseInv
  <2>5. ASSUME NEW r \in Reducer, status[r] = "up"
        PROVE  loaded[r] \subseteq dirs'
    BY <2>1, <2>5 DEF LeaseInv
  <2> QED BY <2>3, <2>4, <2>5, Facts DEF LeaseInv, process, memory
<1>6. StaleInv'
  BY DEF TypeOK, StaleInv, Actor, Cleaning, Place, process, memory, RemoveRoot
<1> QED BY <1>1, <1>2, <1>3, <1>4, <1>5, <1>6

LEMMA ReapOwnerIInv ==
  ASSUME IInv, NEW a \in Analyzer, ReapOwner(a)
  PROVE  IInv'
<1> USE DEF IInv, ReapOwner, Goto
<1>1. TypeOK'
  BY Facts DEF TypeOK, Actor, Holding, Place, process, memory, Unlock
<1>2. LifeInv'
  BY DEF LifeInv, process, memory
<1>3. DiskInv'
  BY DEF DiskInv, HolderInv, process, memory, Unlock
<1>4. HolderInv'
  BY DEF TypeOK, HolderInv, Actor, Holding, memory, Unlock
<1>5. LeaseInv'
  BY DEF LeaseInv, process, memory
<1>6. StaleInv'
  BY DEF StaleInv, memory, Unlock
<1> QED BY <1>1, <1>2, <1>3, <1>4, <1>5, <1>6

LEMMA ReapedIInv ==
  ASSUME IInv, NEW a \in Analyzer, Reaped(a)
  PROVE  IInv'
<1> USE DEF IInv, Reaped, Goto
<1>1. TypeOK'
  <2>1. \E x \in {"done", "copy", "create"} : pc' = [pc EXCEPT ![a] = x]
    OBVIOUS
  <2>2. pc' \in [Actor -> Place] /\ \A x \in Actor \ {a} : pc'[x] = pc[x]
    BY DEF TypeOK, Place, Holding
  <2>3. parentLock = a /\ (pc'[a] \in Holding <=> parentLock' = a) /\ parentLock' \in {a, None}
    BY Facts DEF TypeOK, Actor, Holding
  <2> QED BY <2>2, <2>3, Facts DEF TypeOK, Actor, process, memory
<1>2. LifeInv'
  <2>1. \E x \in {"done", "copy", "create"} : pc' = [pc EXCEPT ![a] = x]
    OBVIOUS
  <2>2. pc' \in [Actor -> Place] /\ \A x \in Actor \ {a} : pc'[x] = pc[x]
    BY DEF TypeOK, Place, Holding
  <2>3. pc'[a] \in {"done", "copy", "create"}
    BY <2>1 DEF TypeOK, Actor
  <2> QED BY <2>2, <2>3, Facts DEF LifeInv, Actor, process, memory
<1>3. DiskInv'
  BY DEF DiskInv, process, memory
<1>4. HolderInv'
  BY DEF TypeOK, HolderInv, Actor, memory
<1>5. LeaseInv'
  BY DEF TypeOK, LeaseInv, Actor, process, memory
<1>6. StaleInv'
  BY <1>1 DEF TypeOK, StaleInv, Actor, Place, process, memory
<1> QED BY <1>1, <1>2, <1>3, <1>4, <1>5, <1>6

LEMMA CreateOwnerIInv ==
  ASSUME IInv, NEW a \in Analyzer, CreateOwner(a)
  PROVE  IInv'
<1> USE DEF IInv, CreateOwner, Goto
<1>1. status[Home[a]] = "up" /\ pid[Home[a]] \in Pid
  BY Facts DEF LifeInv, Process
<1>2. Candidate(Home[a]) \in Token
  BY <1>1, Facts DEF Candidate, TypeOK, Token
<1>3. nonce' \in [Reducer -> 0..(MaxNonce + 1)]
  BY Facts DEF TypeOK
<1>4. pc' = pc \/ \E x \in {"failed", "lockOwner"} : pc' = [pc EXCEPT ![a] = x]
  OBVIOUS
<1>5. TypeOK'
  <2>1. pc' \in [Actor -> Place] /\ \A x \in Actor \ {a} : pc'[x] = pc[x]
    BY <1>4 DEF TypeOK, Actor, Place, Holding
  <2>2. at' \in [Actor -> Token \cup {None}] /\ ownerFile' \subseteq Token
    BY <1>2 DEF TypeOK, Actor
  <2>3. parentLock = a /\ (pc'[a] \in Holding <=> parentLock' = a) /\ parentLock' \in {a, None}
    BY Facts DEF TypeOK, Actor, Holding
  <2>4. UNCHANGED <<status, pid, token, ownerLock, root, dirs, store, known, loaded,
                    scan, want, lease, stale>>
    BY DEF process
  <2>5. parentLock' \in Actor \cup {None}
    BY <2>3 DEF Actor
  <2>6. /\ \A b \in Analyzer : pc'[b] \in Holding <=> parentLock' = b
        /\ \A l \in Launcher : pc'[l] \in Cleaning <=> parentLock' = l
    <3>1. \A x \in Actor \ {a} : parentLock # x /\ parentLock' # x
      BY <2>3, Facts
    <3>2. \A x \in Actor \ {a} : pc'[x] = pc[x]
      BY <2>1
    <3>3. (\A b \in Analyzer : pc[b] \in Holding <=> parentLock = b)
          /\ (\A l \in Launcher : pc[l] \in Cleaning <=> parentLock = l)
      BY DEF TypeOK
    <3> QED BY <2>3, <3>1, <3>2, <3>3, Facts DEF Actor
  <2> QED BY <1>3, <2>1, <2>2, <2>4, <2>5, <2>6 DEF TypeOK
<1>6. LifeInv'
  BY <1>3, <1>5 DEF TypeOK, LifeInv, Actor, process
<1>7. DiskInv'
  BY DEF DiskInv, process
<1>8. HolderInv'
  BY DEF TypeOK, DiskInv, HolderInv, Actor, Holding, Cleaning
<1>9. LeaseInv'
  BY DEF TypeOK, HolderInv, LeaseInv, Actor, process
<1>10. StaleInv'
  BY DEF TypeOK, StaleInv, Actor, Holding
<1> QED BY <1>5, <1>6, <1>7, <1>8, <1>9, <1>10

LEMMA LockOwnerIInv ==
  ASSUME IInv, NEW a \in Analyzer, LockOwner(a)
  PROVE  IInv'
<1> USE DEF IInv, LockOwner, Goto
<1>1. TypeOK'
  BY Facts DEF TypeOK, Process, Actor, Holding, Cleaning, Place, process, memory
<1>2. LifeInv'
  BY DEF LifeInv, process, memory
<1>3. DiskInv'
  BY Facts DEF DiskInv, Process, process, memory, Locked
<1>4. HolderInv'
  BY Facts DEF TypeOK, HolderInv, Process, memory, Locked
<1>5. LeaseInv'
  BY DEF LeaseInv, process, memory
<1>6. StaleInv'
  BY DEF TypeOK, StaleInv, Holding
<1> QED BY <1>1, <1>2, <1>3, <1>4, <1>5, <1>6

LEMMA CreateRootIInv ==
  ASSUME IInv, NEW a \in Analyzer, CreateRoot(a)
  PROVE  IInv'
<1> USE DEF IInv, CreateRoot, Goto
<1>1. at[a] \notin root /\ at[a] \in Token /\ Home[a] \in Reducer
  BY Facts DEF LifeInv, HolderInv
<1>2. /\ root' = root \cup {at[a]} /\ store' = [store EXCEPT ![Home[a]] = at[a]]
      /\ pc' = [pc EXCEPT ![a] = "copy"] /\ UNCHANGED <<ownerFile, ownerLock, parentLock>>
  BY <1>1
<1>3. TypeOK'
  <2>1. pc' \in [Actor -> Place] /\ \A x \in Actor \ {a} : pc'[x] = pc[x]
    BY <1>2 DEF TypeOK, Actor, Place, Holding
  <2>2. store' \in [Reducer -> Token \cup {None}] /\ root' \subseteq Token
    BY <1>1, <1>2 DEF TypeOK
  <2>3. pc[a] \in Holding /\ pc'[a] \in Holding
    BY <1>2 DEF TypeOK, Actor, Holding
  <2> QED BY <1>2, <2>1, <2>2, <2>3, Facts DEF TypeOK, Actor, process
<1>4. LifeInv'
  <2>1. /\ pc'[a] = "copy" /\ \A x \in Actor \ {a} : pc'[x] = pc[x]
        /\ store'[Home[a]] = at[a] /\ \A r \in Reducer \ {Home[a]} : store'[r] = store[r]
    BY <1>1, <1>2 DEF TypeOK, Actor
  <2>2. status[Home[a]] = "up"
    BY DEF LifeInv
  <2> QED BY <2>1, <2>2, Facts DEF LifeInv, Actor, process
<1>5. DiskInv'
  BY <1>1, <1>2, Facts DEF TypeOK, DiskInv, HolderInv, process
<1>6. HolderInv'
  BY Facts DEF TypeOK, HolderInv, Actor, Holding
<1>7. LeaseInv'
  BY Facts DEF TypeOK, HolderInv, LeaseInv, Actor, process
<1>8. StaleInv'
  BY <1>2, Facts DEF TypeOK, StaleInv, Holding
<1> QED BY <1>3, <1>4, <1>5, <1>6, <1>7, <1>8

LEMMA CopyIInv ==
  ASSUME IInv, NEW a \in Analyzer, Copy(a)
  PROVE  IInv'
<1> USE DEF IInv, Copy, Goto
<1> DEFINE new == [at |-> store[Home[a]], name |-> nonce[Home[a]], bytes |-> want[a].bytes]
<1>1. /\ status[Home[a]] = "up" /\ Home[a] \in Reducer /\ store[Home[a]] # None
  BY Facts DEF LifeInv, HolderInv
<1>2. store[Home[a]] \in Token /\ store[Home[a]] \in root
  BY <1>1 DEF DiskInv, TypeOK
<1>3. want[a].bytes \in Bytes
  BY DEF HolderInv, TypeOK, Wanted
<1>4. \E x \in {"release", "write"} : pc' = [pc EXCEPT ![a] = x]
  OBVIOUS
<1>5. TypeOK'
  <2>1. /\ nonce' \in [Reducer -> 0..(MaxNonce + 1)] /\ dirs' \subseteq Directory
        /\ lease' \in [Analyzer -> Directory \cup {None}]
    <3>1. CASE \E d \in Shared(Home[a], want[a]) : lease' = [lease EXCEPT ![a] = d] /\ UNCHANGED <<dirs, nonce>>
      <4>1. Shared(Home[a], want[a]) \subseteq Directory
        BY <1>1, <1>3, Facts DEF TypeOK, Shared
      <4> QED BY <3>1, <4>1 DEF TypeOK
    <3>2. CASE /\ nonce[Home[a]] <= MaxNonce /\ dirs' = dirs \cup {Empty(new)}
               /\ lease' = [lease EXCEPT ![a] = new] /\ nonce' = [nonce EXCEPT ![Home[a]] = @ + 1]
      <4>1. nonce[Home[a]] \in 0..MaxNonce
        BY <1>1, <3>2, Facts DEF TypeOK
      <4>2. new \in Directory /\ Empty(new) \in Directory
        BY <1>2, <1>3, <4>1 DEF Directory, Empty
      <4> HIDE DEF new
      <4> QED BY <1>1, <3>2, <4>1, <4>2, Facts DEF TypeOK
    <3> QED BY <3>1, <3>2
  <2>2. pc' \in [Actor -> Place] /\ \A x \in Actor \ {a} : pc'[x] = pc[x]
    BY <1>4 DEF TypeOK, Actor, Place, Holding
  <2>3. pc[a] \in Holding /\ pc'[a] \in Holding
    BY DEF TypeOK, Actor, Holding
  <2> QED BY <2>1, <2>2, <2>3, Facts DEF TypeOK, Actor, process
<1>6. LifeInv'
  <2>1. /\ pc' \in [Actor -> Place] /\ pc'[a] \in {"release", "write"}
        /\ \A x \in Actor \ {a} : pc'[x] = pc[x]
    BY <1>4 DEF TypeOK, Actor, Place, Holding
  <2> QED BY <1>1, <2>1, Facts DEF LifeInv, Actor, process
<1>7. DiskInv'
  <2>1. \A d \in dirs' : d \in dirs \/ d.at = store[Home[a]]
    BY DEF Empty
  <2> QED BY <1>2, <2>1 DEF DiskInv, process
<1>8. HolderInv'
  BY DEF TypeOK, HolderInv, Actor
<1>9. LeaseInv'
  <2>1. nonce' \in [Reducer -> Nat] /\ \A r \in Reducer : nonce[r] \in Nat /\ nonce[r] <= nonce'[r]
    <3>1. \A r \in Reducer : nonce[r] \in 0..(MaxNonce + 1)
      BY DEF TypeOK
    <3>2. nonce' = nonce \/ (nonce[Home[a]] <= MaxNonce /\ nonce' = [nonce EXCEPT ![Home[a]] = @ + 1])
      OBVIOUS
    <3>3. CASE nonce' = nonce
      BY <3>1, <3>3, Facts DEF TypeOK
    <3>4. CASE nonce' = [nonce EXCEPT ![Home[a]] = @ + 1]
      <4>1. nonce[Home[a]] + 1 \in Nat
        BY <1>1, <3>1, Facts
      <4> QED BY <1>1, <3>1, <3>4, <4>1, Facts DEF TypeOK
    <3> QED BY <3>2, <3>3, <3>4
  <2>2. /\ \A x \in Actor \ {a} : pc'[x] = pc[x]
        /\ \A b \in Analyzer \ {a} : lease'[b] = lease[b]
        /\ dirs \subseteq dirs'
    BY DEF TypeOK, Actor
  <2>3. /\ lease'[a] \in Directory /\ lease'[a].at = store[Home[a]] /\ lease'[a].bytes = want[a].bytes
        /\ lease'[a].name < nonce'[Home[a]]
        /\ pc'[a] \in {"release", "write"} /\ (pc'[a] = "release" => lease'[a] \in dirs')
        /\ \A b \in Analyzer : Home[b] = Home[a] /\ pc[b] = "drop" => lease[b] # lease'[a]
        /\ pc'[a] = "write" =>
             /\ lease'[a] \notin loaded[Home[a]]
             /\ \A b \in Analyzer \ {a} :
                  Home[b] = Home[a] /\ pc[b] \in {"write", "release", "ready", "drop"} => lease[b] # lease'[a]
    <3>1. ASSUME NEW d \in Shared(Home[a], want[a]), Kept(Home[a], d), lease' = [lease EXCEPT ![a] = d],
                 pc' = [pc EXCEPT ![a] = "release"], UNCHANGED <<dirs, nonce>>
          PROVE  <2>3
      <4>1. d \in Directory /\ d.bytes = want[a].bytes
        BY <1>1, <1>3, Facts DEF TypeOK, LeaseInv, Shared
      <4>2. /\ d.at = store[Home[a]] /\ d \in dirs /\ d.name < nonce[Home[a]]
            /\ \A b \in Analyzer : Home[b] = Home[a] /\ pc[b] = "drop" => lease[b] # d
        BY <1>1, <3>1, Facts DEF LeaseInv, Kept
      <4>3. lease'[a] = d /\ pc'[a] = "release" /\ dirs' = dirs /\ nonce' = nonce
        BY <3>1 DEF TypeOK, Actor
      <4> QED BY <4>1, <4>2, <4>3
    <3>2. ASSUME nonce[Home[a]] <= MaxNonce, dirs' = dirs \cup {Empty(new)}, pc' = [pc EXCEPT ![a] = "write"],
                 lease' = [lease EXCEPT ![a] = new], nonce' = [nonce EXCEPT ![Home[a]] = @ + 1]
          PROVE  <2>3
      <4>1. nonce[Home[a]] \in 0..MaxNonce
        BY <1>1, <3>2, Facts DEF TypeOK
      <4>2. /\ new \in Directory /\ new.at = store[Home[a]] /\ new.bytes = want[a].bytes
            /\ new.name = nonce[Home[a]]
        BY <1>2, <1>3, <4>1 DEF Directory
      <4> HIDE DEF new
      <4>3. lease'[a] = new /\ pc'[a] = "write" /\ nonce'[Home[a]] = nonce[Home[a]] + 1
        BY <1>1, <3>2 DEF TypeOK, Actor
      <4>4. /\ new \notin loaded[Home[a]]
            /\ \A b \in Analyzer \ {a} :
                 Home[b] = Home[a] /\ pc[b] \in {"write", "release", "ready", "drop"} => lease[b] # new
        BY <1>1, <4>1, <4>2 DEF LeaseInv
      <4>5. pc[a] # "drop"
        OBVIOUS
      <4> QED BY <4>1, <4>2, <4>3, <4>4, <4>5
    <3> QED BY <3>1, <3>2
  <2>4. /\ \A r \in Reducer : \A d \in loaded[r] : d.name < nonce'[r]
        /\ \A b \in Analyzer \ {a} : pc[b] \in {"write", "release", "ready", "drop"} =>
             lease[b].name < nonce'[Home[b]]
    <3>1. ASSUME NEW r \in Reducer, NEW d \in loaded[r]
          PROVE  d.name < nonce'[r]
      <4>1. d.name \in Nat
        BY Facts DEF TypeOK, Directory
      <4> QED BY <2>1, <4>1 DEF LeaseInv
    <3>2. ASSUME NEW b \in Analyzer, pc[b] \in {"write", "release", "ready", "drop"}
          PROVE  lease[b].name < nonce'[Home[b]]
      <4>1. lease[b].name \in Nat
        BY <3>2 DEF LeaseInv, Directory
      <4> QED BY <2>1, <3>2, <4>1, Facts DEF LeaseInv
    <3> QED BY <3>1, <3>2
  <2>5. \A b \in Analyzer : pc[b] = "write" => b = a
    BY Facts DEF TypeOK, Actor, Holding
  <2>6. UNCHANGED <<status, store, known, loaded, want>>
    BY DEF process
  <2> QED BY <2>1, <2>2, <2>3, <2>4, <2>5, <2>6, Facts DEF LeaseInv, Actor
<1>10. StaleInv'
  BY <1>4 DEF StaleInv
<1> QED BY <1>5, <1>6, <1>7, <1>8, <1>9, <1>10

LEMMA WriteIInv ==
  ASSUME IInv, NEW a \in Analyzer, Write(a)
  PROVE  IInv'
<1> USE DEF IInv, Write, Goto
<1>1. /\ Home[a] \in Reducer /\ lease[a] \in Directory /\ want[a].bytes \in Bytes
      /\ lease[a].bytes = want[a].bytes
  BY Facts DEF LeaseInv, HolderInv, TypeOK, Wanted
<1>2. Empty(lease[a]) \in Directory /\ Empty(lease[a]).bytes = None /\ Empty(lease[a]).at = lease[a].at
  BY <1>1 DEF Empty, Directory
<1>3. /\ known' \in [Reducer -> [Bytes -> Directory \cup {None}]]
      /\ \A r \in Reducer, b \in Bytes :
           known'[r][b] = known[r][b] \/ (b = want[a].bytes /\ known'[r][b] = lease[a])
  BY <1>1 DEF TypeOK
<1>4. TypeOK'
  <2>1. pc' \in [Actor -> Place] /\ \A x \in Actor \ {a} : pc'[x] = pc[x]
    BY DEF TypeOK, Actor, Place, Holding
  <2>2. pc[a] \in Holding /\ pc'[a] \in Holding
    BY DEF TypeOK, Actor, Holding
  <2> QED BY <1>1, <1>3, <2>1, <2>2, Facts DEF TypeOK, Actor, process
<1>5. LifeInv'
  BY DEF LifeInv, process
<1>6. DiskInv'
  <2>1. lease[a].at \in root
    BY <1>1 DEF LeaseInv, LifeInv, DiskInv, HolderInv
  <2> QED BY <2>1 DEF DiskInv, process
<1>7. HolderInv'
  BY DEF HolderInv
<1>8. LeaseInv'
  <2>1. /\ pc'[a] = "release" /\ \A x \in Actor \ {a} : pc'[x] = pc[x]
        /\ lease[a] \in dirs' /\ \A d \in dirs : d.bytes # None => d \in dirs'
    BY <1>2 DEF TypeOK, Actor
  <2>2. \A b \in Analyzer : pc[b] \in {"release", "ready"} => lease[b].bytes # None
    BY Facts DEF LeaseInv, HolderInv, TypeOK, Wanted
  <2>3. UNCHANGED <<status, store, nonce, loaded, want, lease>>
    BY DEF process
  <2>4. \A r \in Reducer, b \in Bytes : known'[r][b] # None => known'[r][b].bytes = b
    BY <1>1, <1>3 DEF LeaseInv
  <2> QED BY <1>1, <2>1, <2>2, <2>3, <2>4, Facts DEF LeaseInv, Actor
<1>9. StaleInv'
  BY DEF StaleInv
<1> QED BY <1>4, <1>5, <1>6, <1>7, <1>8, <1>9

LEMMA ReleaseIInv ==
  ASSUME IInv, NEW a \in Analyzer, Release(a)
  PROVE  IInv'
<1> USE DEF IInv, Release, Goto
<1>1. TypeOK'
  BY Facts DEF TypeOK, Actor, Holding, Place, process, memory
<1>2. LifeInv'
  BY DEF LifeInv, process, memory
<1>3. DiskInv'
  BY DEF DiskInv, process, memory
<1>4. HolderInv'
  BY DEF HolderInv, memory
<1>5. LeaseInv'
  BY DEF LeaseInv, process, memory
<1>6. StaleInv'
  BY DEF StaleInv, memory
<1> QED BY <1>1, <1>2, <1>3, <1>4, <1>5, <1>6

LEMMA LoadIInv ==
  ASSUME IInv, NEW a \in Analyzer, Load(a)
  PROVE  IInv'
<1> USE DEF IInv, Load, Goto
<1>1. TypeOK'
  BY Facts DEF TypeOK, LeaseInv, process, actor, disk
<1>2. LifeInv'
  BY DEF LifeInv, process, actor
<1>3. DiskInv'
  BY DEF DiskInv, process, disk
<1>4. HolderInv'
  BY DEF HolderInv, actor, disk
<1>5. LeaseInv'
  <2>1. /\ lease[a] \in Directory /\ lease[a] \in dirs /\ lease[a].at = store[Home[a]]
        /\ lease[a].bytes = want[a].bytes /\ lease[a].name < nonce[Home[a]]
        /\ store[Home[a]] # None /\ want[a].bytes \in Bytes /\ Home[a] \in Reducer
    BY Facts DEF LeaseInv, HolderInv, TypeOK, Wanted
  <2>2. /\ loaded'[Home[a]] = loaded[Home[a]] \cup {lease[a]}
        /\ \A r \in Reducer \ {Home[a]} : loaded'[r] = loaded[r]
    BY <2>1 DEF TypeOK
  <2>3. ASSUME NEW b \in Analyzer, pc[b] \in {"write", "drop"}, Home[b] = Home[a]
        PROVE  lease[b] # lease[a]
    BY <2>3 DEF LeaseInv
  <2>4. status[Home[a]] = "up"
    BY DEF LifeInv
  <2>5. UNCHANGED <<status, store, nonce, known, want, lease, dirs, pc>>
    BY DEF process, disk, actor
  <2> QED BY <2>1, <2>2, <2>3, <2>4, <2>5, Facts DEF LeaseInv
<1>6. StaleInv'
  BY DEF StaleInv, actor, disk
<1> QED BY <1>1, <1>2, <1>3, <1>4, <1>5, <1>6

LEMMA FinishIInv ==
  ASSUME IInv, NEW a \in Analyzer, Finish(a)
  PROVE  IInv'
<1> USE DEF IInv, Finish, Goto
<1>1. TypeOK'
  BY Facts DEF TypeOK, Actor, Holding, Place, process, memory, disk
<1>2. LifeInv'
  BY DEF LifeInv, process, memory
<1>3. DiskInv'
  BY DEF DiskInv, process, memory, disk
<1>4. HolderInv'
  BY DEF HolderInv, memory, disk
<1>5. LeaseInv'
  BY Facts DEF LeaseInv, process, memory, disk, LastArc, Threads
<1>6. StaleInv'
  BY DEF StaleInv, memory, disk
<1> QED BY <1>1, <1>2, <1>3, <1>4, <1>5, <1>6

LEMMA DropIInv ==
  ASSUME IInv, NEW a \in Analyzer, Drop(a)
  PROVE  IInv'
<1> USE DEF IInv, Drop, Goto
<1>1. /\ Home[a] \in Reducer /\ lease[a] \in Directory /\ status[Home[a]] = "up"
      /\ store[Home[a]] # None /\ lease[a].at = store[Home[a]]
  BY Facts DEF LeaseInv, HolderInv, LifeInv
<1>2. TypeOK'
  BY Facts DEF TypeOK, Actor, Holding, Place, process, memory
<1>3. LifeInv'
  BY DEF LifeInv, process, memory
<1>4. DiskInv'
  BY DEF DiskInv, process, memory
<1>5. HolderInv'
  BY DEF HolderInv, memory
<1>6. LeaseInv'
  <2>1. ASSUME NEW r \in Reducer, status[r] = "up", store[r] # None, NEW d \in Directory, d.at = store[r],
               d.bytes # None, d \in dirs, d \notin dirs'
        PROVE  r = Home[a] /\ d = lease[a]
    <3>1. d = lease[a]
      BY <2>1 DEF Empty, Directory
    <3>2. ownerLock[store[r]] = r /\ ownerLock[store[Home[a]]] = Home[a]
      BY <1>1, <2>1 DEF DiskInv
    <3> QED BY <1>1, <2>1, <3>1, <3>2
  <2>2. /\ pc'[a] = "done" /\ \A x \in Actor \ {a} : pc'[x] = pc[x]
    BY DEF TypeOK, Actor
  <2>3. UNCHANGED <<status, store, nonce, known, loaded, want, lease>>
    BY DEF process, memory
  <2>4. ASSUME NEW b \in Analyzer, pc[b] \in {"release", "ready"}
        PROVE  lease[b] \in dirs'
    <3>1. /\ status[Home[b]] = "up" /\ store[Home[b]] # None /\ lease[b] \in Directory
          /\ lease[b].at = store[Home[b]] /\ lease[b] \in dirs /\ lease[b].bytes = want[b].bytes
      BY <2>4 DEF LifeInv, HolderInv, LeaseInv
    <3>2. want[b].bytes # None
      BY <2>4, Facts DEF HolderInv, TypeOK, Wanted
    <3>3. a # b /\ (Home[b] = Home[a] => lease[b] # lease[a])
      BY <2>4 DEF LeaseInv
    <3> QED BY <2>1, <3>1, <3>2, <3>3, Facts
  <2>5. ASSUME NEW r \in Reducer, status[r] = "up", NEW d \in loaded[r]
        PROVE  d \in dirs'
    <3>1. d \in Directory /\ d.at = store[r] /\ store[r] # None /\ d.bytes # None /\ d \in dirs
      BY <2>5 DEF LeaseInv, TypeOK
    <3>2. lease[a] \notin loaded[Home[a]]
      BY DEF LeaseInv
    <3> QED BY <2>1, <2>5, <3>1, <3>2
  <2> QED BY <2>2, <2>3, <2>4, <2>5, Facts DEF LeaseInv, Actor
<1>7. StaleInv'
  BY DEF StaleInv, memory
<1> QED BY <1>2, <1>3, <1>4, <1>5, <1>6, <1>7

LEMMA FailIInv ==
  ASSUME IInv, NEW a \in Analyzer, Fail(a)
  PROVE  IInv'
<1> USE DEF IInv, Fail, Goto
<1>1. /\ pc'[a] = "failed" /\ pc' \in [Actor -> Place] /\ \A x \in Actor \ {a} : pc'[x] = pc[x]
  BY DEF TypeOK, Actor, Place
<1>2. parentLock = a /\ parentLock' = None
  BY Facts DEF TypeOK, Holding
<1>3. /\ dirs' \subseteq dirs /\ ownerFile' \subseteq ownerFile
      /\ \A d \in dirs \ dirs' : pc[a] = "write" /\ d = Empty(lease[a])
  OBVIOUS
<1>4. TypeOK'
  <2>1. ownerLock' \in [Token -> Process \cup {None}]
    BY DEF TypeOK, Unlock
  <2> QED BY <1>1, <2>1, Facts DEF TypeOK, Actor, Holding, process, memory
<1>5. LifeInv'
  BY DEF LifeInv, process, memory
<1>6. DiskInv'
  BY DEF TypeOK, DiskInv, HolderInv, process, memory, Unlock
<1>7. HolderInv'
  BY DEF TypeOK, HolderInv, Actor, Holding, Cleaning, memory
<1>8. LeaseInv'
  <2>1. pc[a] = "write" => Empty(lease[a]).bytes = None
    BY DEF LeaseInv, Empty, Directory
  <2>2. \A b \in Analyzer : pc[b] \in {"release", "ready"} => lease[b].bytes # None
    BY Facts DEF LeaseInv, HolderInv, TypeOK, Wanted
  <2>3. UNCHANGED <<status, store, nonce, known, loaded, want, lease>>
    BY DEF process, memory
  <2> QED BY <1>1, <1>3, <2>1, <2>2, <2>3, Facts DEF LeaseInv, Actor
<1>9. StaleInv'
  BY DEF TypeOK, StaleInv, memory, Unlock
<1> QED BY <1>4, <1>5, <1>6, <1>7, <1>8, <1>9


-----------------------------------------------------------------------------
LEMMA InitIInv ==
  ASSUME Init
  PROVE  IInv
<1> USE DEF Init, Nothing
<1>1. TypeOK
  <2>1. nonce \in [Reducer -> 0..(MaxNonce + 1)] /\ pid \in [Process -> 0..Pids]
    BY Facts
  <2>2. want \in [Analyzer -> Wanted]
    BY DEF Wanted
  <2> QED BY <2>1, <2>2, Facts DEF TypeOK, Place, Holding, Cleaning, Actor
<1>2. LifeInv /\ DiskInv
  BY Facts DEF LifeInv, DiskInv, Process, Actor
<1>3. HolderInv /\ LeaseInv /\ StaleInv
  BY Facts DEF HolderInv, LeaseInv, StaleInv, Actor
<1> QED BY <1>1, <1>2, <1>3 DEF IInv

LEMMA NextIInv ==
  ASSUME IInv, [Next]_vars
  PROVE  IInv'
<1>1. ASSUME NEW l \in Launcher, StartLauncher(l) \/ LauncherStep(l) \/ CleanFail(l)
      PROVE  IInv'
  BY <1>1, StartLauncherIInv, CheckOwnerIInv, CheckRootIInv, SpawnIInv, CleanLockIInv, CleanTryIInv,
     CleanRootIInv, CleanOwnerIInv, CleanFailIInv DEF LauncherStep
<1>2. ASSUME NEW r \in Reducer, StartReducer(r) \/ Exit(r)
      PROVE  IInv'
  BY <1>2, StartReducerIInv, EndIInv DEF Exit, Process
<1>3. ASSUME NEW p \in Process, Kill(p)
      PROVE  IInv'
  BY <1>3, EndIInv DEF Kill
<1>4. ASSUME NEW a \in Analyzer, Request(a) \/ RequestNothing(a) \/ Load(a) \/ Fail(a)
      PROVE  IInv'
  BY <1>4, RequestIInv, RequestNothingIInv, LoadIInv, FailIInv
<1>5. ASSUME NEW a \in Analyzer, AnalyzerStep(a)
      PROVE  IInv'
  BY <1>5, AcquireIInv, ReapTryIInv, ReapRootIInv, ReapOwnerIInv, ReapedIInv, CreateOwnerIInv,
     LockOwnerIInv, CreateRootIInv, CopyIInv, WriteIInv, ReleaseIInv, FinishIInv, DropIInv
     DEF AnalyzerStep
<1>6. ASSUME UNCHANGED vars
      PROVE  IInv'
  BY <1>6 DEF IInv, TypeOK, LifeInv, DiskInv, HolderInv, LeaseInv, StaleInv,
              vars, process, disk, memory, actor
<1> QED BY <1>1, <1>2, <1>3, <1>4, <1>5, <1>6 DEF Next

LEMMA Inductive == Spec => []IInv
<1>1. Init => IInv
  BY InitIInv
<1>2. IInv /\ [Next]_vars => IInv'
  BY NextIInv
<1> QED BY <1>1, <1>2, PTL DEF Spec

-----------------------------------------------------------------------------
\* Files, locks, memory and every actor stay in their domains, and an actor
\* has the parent directory's lock exactly between its acquisition of
\* FileLock and its release of it, whoever is killed in between.
THEOREM TypeCorrect == Spec => []TypeOK
<1>1. IInv => TypeOK
  BY DEF IInv
<1> QED BY <1>1, Inductive, PTL

\* prepare_snapshots: the directory the compiler reads is there, complete and
\* under a root that its reducer has locked, and a loaded procedural macro
\* stays: neither reap_stale_snapshots of another reducer, nor the launcher's
\* remove_snapshot_store, nor the Drop of another thread's SnapshotDirectory
\* takes it away.
THEOREM CopiesStay == Spec => []LeaseIntact
<1>1. IInv => LeaseIntact
  <2> SUFFICES ASSUME IInv PROVE LeaseIntact
    OBVIOUS
  <2> USE DEF IInv
  <2>1. ASSUME NEW a \in Analyzer, pc[a] \in {"release", "ready"}
        PROVE  /\ lease[a] \in dirs /\ lease[a].bytes = want[a].bytes
               /\ lease[a].at \in root /\ ownerLock[lease[a].at] = Home[a]
    <3>1. status[Home[a]] = "up" /\ Home[a] \in Reducer /\ store[Home[a]] # None
      BY <2>1, Facts DEF LifeInv, HolderInv
    <3>2. lease[a] \in dirs /\ lease[a].bytes = want[a].bytes /\ lease[a].at = store[Home[a]]
      BY <2>1 DEF LeaseInv
    <3> QED BY <3>1, <3>2 DEF DiskInv
  <2> QED BY <2>1 DEF LeaseInv, LeaseIntact
<1> QED BY <1>1, Inductive, PTL

\* reap_stale_snapshots: before a reducer makes its own store, the stores that
\* were dead when it took the parent's lock are gone, roots first.
THEOREM DeadStoresGo == Spec => []StaleRemoved
<1>1. IInv => StaleRemoved
  <2> SUFFICES ASSUME IInv PROVE StaleRemoved
    OBVIOUS
  <2> QED BY DEF IInv, StaleRemoved, DiskInv, StaleInv
<1> QED BY <1>1, Inductive, PTL

\* remove_snapshot_store: a launcher that ends well leaves nothing under its
\* token, or the store of a process that holds its lock.
THEOREM LauncherCleansUp == Spec => CleanedUp
<1> DEFINE Leaves ==
      \A l \in Launcher :
        (pc[l] # "done" /\ pc'[l] = "done" /\ at[l] \in ownerFile' \cup root')
          => ownerLock'[at[l]] # None
<1>1. IInv /\ [Next]_vars => [Leaves]_vars
  <2> SUFFICES ASSUME IInv, Next, NEW l \in Launcher, pc[l] # "done", pc'[l] = "done",
                      at[l] \in ownerFile' \cup root'
               PROVE  ownerLock'[at[l]] # None
    OBVIOUS
  <2> USE DEF IInv, Goto
  <2>1. l \in Actor /\ \A a \in Analyzer : a # l
    BY Facts DEF Actor
  <2>2. ASSUME NEW a \in Analyzer,
               Request(a) \/ RequestNothing(a) \/ AnalyzerStep(a) \/ Load(a) \/ Fail(a)
        PROVE  FALSE
    <3>1. pc'[l] = pc[l]
      <4>1. \/ pc' = pc
            \/ \E x \in Place : pc' = [pc EXCEPT ![a] = x]
        BY <2>2 DEF Request, RequestNothing, AnalyzerStep, Acquire, ReapTry, ReapRoot, RemoveRoot,
             ReapOwner, Reaped, CreateOwner, LockOwner, CreateRoot, Copy, Write, Release, Finish,
             Drop, Load, Fail, actor, Place, Holding
      <4> QED BY <2>1, <4>1 DEF TypeOK
    <3> QED BY <3>1
  <2>3. ASSUME NEW m \in Launcher, StartLauncher(m) \/ CheckOwner(m) \/ CheckRoot(m) \/ Spawn(m)
                                   \/ CleanLock(m) \/ CleanRoot(m) \/ CleanFail(m)
        PROVE  FALSE
    <3>1. \/ pc' = pc
          \/ \E x \in {"owner", "root", "spawn", "failed", "wait", "clean", "cleanOwner"} :
               pc' = [pc EXCEPT ![m] = x]
      BY <2>3 DEF StartLauncher, CheckOwner, CheckRoot, Spawn, CleanLock, CleanRoot, RemoveRoot,
                  CleanFail
    <3> QED BY <2>1, <3>1 DEF TypeOK
  <2>4. ASSUME NEW m \in Launcher, CleanTry(m)
        PROVE  ownerLock'[at[l]] # None
    <3>1. l = m
      BY <2>1, <2>4 DEF CleanTry, TypeOK
    <3>2. ownerLock[at[l]] # None /\ ownerLock' = ownerLock
      BY <2>1, <2>4, <3>1 DEF CleanTry, TypeOK
    <3> QED BY <3>2
  <2>5. ASSUME NEW m \in Launcher, CleanOwner(m)
        PROVE  FALSE
    <3>1. l = m
      BY <2>1, <2>5 DEF CleanOwner, TypeOK
    <3>2. at[l] \notin root
      BY <2>5, <3>1 DEF CleanOwner, HolderInv
    <3> QED BY <2>5, <3>1, <3>2 DEF CleanOwner
  <2>6. ASSUME NEW p \in Process, End(p)
        PROVE  FALSE
    BY <2>1, <2>6 DEF End
  <2>7. ASSUME NEW r \in Reducer, StartReducer(r)
        PROVE  FALSE
    BY <2>7 DEF StartReducer, actor
  <2>8. ASSUME NEW m \in Launcher, StartLauncher(m) \/ LauncherStep(m) \/ CleanFail(m)
        PROVE  ownerLock'[at[l]] # None
    BY <2>3, <2>4, <2>5, <2>8 DEF LauncherStep
  <2>9. ASSUME NEW r \in Reducer, Exit(r)
        PROVE  FALSE
    BY <2>6, <2>9 DEF Exit, Process
  <2>10. ASSUME NEW p \in Process, Kill(p)
         PROVE  FALSE
    BY <2>6, <2>10 DEF Kill
  <2> QED BY <2>2, <2>7, <2>8, <2>9, <2>10 DEF Next
<1> QED BY <1>1, Inductive, PTL DEF Spec, CleanedUp
====
