------------------------- MODULE FileOutput_proofs -------------------------
(***************************************************************************)
(* The safety properties of FileOutput, for every number of jobs, inodes,  *)
(* edits and texts.                                                        *)
(*                                                                         *)
(* What a job knows is an invariant of the job and the files it has seen   *)
(* (JobOK): which fields its place has set (StageOK), which texts it holds *)
(* (TextOK), how much of its temporary file is ready (TempOK), and that    *)
(* the input is still the file that was checked unless the job is raced    *)
(* (RaceOK).  FileInv says that whatever a path or a handle names is       *)
(* durable and complete, and that no temporary file is named by a path.    *)
(***************************************************************************)
EXTENDS FileOutput, TLAPS

\* The places before a job holds a file.
Before == {"copy", "stat", "open"}

\* The result is known: it has been written, or is about to be.
Knows(j) ==
  \/ j.pc \in {"temporary", "permissions", "truncate", "write", "mode", "sync", "persist",
               "create", "publish", "created"}
  \/ j.pc \in Checking /\ j.round >= 2

\* A temporary file holds the result already.
Written(j) ==
  j.pc \in {"mode", "sync", "persist", "publish"} \/ (j.pc \in Checking /\ j.round = 3)

\* The fields that a job's place has set.
StageOK(j) ==
  /\ j.pc \in {"open", "read", "temporary", "permissions", "truncate", "mode", "persist",
               "same", "replaced"} \cup Checking => j.kind.place = "in"
  /\ j.pc \in {"create", "publish", "created"} => j.kind.place = "out"
  /\ j.pc # "absent" => j.kind.place # "none"
  /\ j.pc = "reduce" => ~j.kind.container
  /\ j.pc = "compare" => j.kind.container
  /\ j.pc \in Before \cup {"read"} => j.round = 1
  /\ j.pc \in {"reduce", "compare"} /\ j.kind.place = "in" => j.round = 2
  /\ j.pc \in Checking => j.round \in 1..3
  /\ j.kind.place = "in" /\ j.pc \in {"temporary", "permissions", "truncate", "write", "mode", "sync"}
       => j.round = 3
  /\ j.pc = "persist" => j.round = 4
  /\ j.kind.place = "in" /\ j.pc \notin Before \cup Ended => j.handle # NoInode
  /\ j.pc \in {"checkRead", "checkAgain"} => j.current # NoInode
  /\ j.pc \in {"permissions", "truncate", "write"} \/ Written(j) => j.temp # NoInode

\* The result is the reduction of the text that was read, and differs from it
\* where it is about to replace it; a container has reduced its own copy.
TextOK(j) ==
  /\ j.pc \notin Before \cup {"read"} \cup Ended => j.source \in Content
  /\ Knows(j) => j.source \in Content /\ j.reduced = Reduce[j.source]
  /\ j.kind.container /\ j.pc \notin Ended \cup {"copy"} =>
       j.original \in Content /\ j.reduced = Reduce[j.original]
  /\ j.kind.place = "in" /\ j.round >= 3 /\ j.pc \notin Ended => j.reduced # j.source

\* Owner, text, mode and durability of the temporary file, in the order in
\* which replace sets them.
TempOK(j, fs) ==
  LET f == fs[j.temp]
  IN  /\ j.temp # NoInode => f.links = 1
      /\ j.kind.place = "in" /\ (j.pc \in {"truncate", "write"} \/ Written(j)) => f.owner = j.meta.owner
      /\ Written(j) => f.content = j.reduced
      /\ j.kind.place = "in" /\ Written(j) /\ j.pc # "mode" => f.mode = j.meta.mode
      /\ Written(j) /\ j.pc \notin {"mode", "sync"} => f.durable

MetaOf(fs, i) ==
  [ino |-> i, mode |-> fs[i].mode, owner |-> fs[i].owner, links |-> fs[i].links,
   stamp |-> fs[i].stamp]

\* The last check_unchanged: the input is what it was, unless somebody else has
\* changed it after it was resolved and read.
RaceOK(j, fs, i) ==
  ~j.raced /\ j.round >= 3 =>
    /\ j.pc = "checkRead" => i = j.current
    /\ j.pc = "checkAgain" => i = j.current /\ fs[i].content = j.source
    /\ j.pc = "persist" => i # NoInode /\ fs[i].content = j.source /\ MetaOf(fs, i) = j.meta

JobOK(j, fs, i) == StageOK(j) /\ TextOK(j) /\ TempOK(j, fs) /\ RaceOK(j, fs, i)

JobInv == \A t \in Job : JobOK(job[t], file, Input.ino)

\* The inodes that a path or an open handle of the input names.
Named == ({entry[p].ino : p \in {"in", "out"}}
            \cup UNION {{job[t].handle, job[t].current} : t \in Job}) \ {NoInode}

FileInv ==
  /\ \A i \in Named : file[i].durable /\ file[i].content \in Content
  /\ \A t \in Job : job[t].temp \notin Named
  /\ Input.ino = entry["out"].ino => Input.ino = NoInode
  /\ entry["out"].ino = NoInode => entry["out"] = Missing
  /\ Input.ino = NoInode => ~Input.link
  /\ Input.ino # NoInode /\ ~Input.link => file[Input.ino].links >= 1
  /\ \A i \in Inode : file[i].links <= edits + 1

\* persist_noclobber: the output is the result of the one job that made it.
CreatedInv ==
  \A t \in Job :
    job[t].pc = "created" =>
      /\ entry["out"].ino # NoInode /\ file[entry["out"].ino].content = job[t].reduced
      /\ \A u \in Job : job[u].pc = "created" => u = t

\* Without editors, a replaced input is the result of a reduction, and only one
\* job replaced it outside the window of check_unchanged.
WonInv ==
  edits = 0 =>
    /\ (\E t \in Job : job[t].pc = "replaced") =>
         Input.ino # NoInode /\ Reduce[file[Input.ino].content] = file[Input.ino].content
    /\ \A t, u \in Job :
         /\ job[t].pc = "replaced" /\ ~job[t].raced
         /\ job[u].pc = "replaced" /\ ~job[u].raced
         => t = u

\* The inductive invariant.
IInv == TypeOK /\ JobInv /\ FileInv /\ CreatedInv

-----------------------------------------------------------------------------
FileState == [content : Content \cup {Torn}, mode : Mode, owner : Owner,
              links : 0..(MaxEdits + 1), stamp : 0..MaxClock, durable : BOOLEAN]

LEMMA Facts ==
  /\ Reduce \in [Content -> Content] /\ Torn \notin Content
  /\ Inode \subseteq Nat /\ NoInode \notin Inode
  /\ MaxEdits \in Nat /\ MaxClock \in Nat
BY FileAssumption DEF NoInode

\* A job that has ended asks nothing of the files, unless a kill left its
\* temporary file behind.
LEMMA EndIsOK ==
  ASSUME NEW j \in JobState, NEW how \in {"same", "failed", "killed", "replaced", "created"},
         j.pc # "absent", NEW fs, NEW f2, NEW i, NEW i2, JobOK(j, fs, i),
         how \in {"same", "replaced"} => j.kind.place = "in",
         how = "created" => j.kind.place = "out" /\ Knows(j),
         how = "killed" /\ j.temp # NoInode => f2[j.temp].links = fs[j.temp].links
  PROVE  /\ EndOf(j, how) \in JobState /\ JobOK(EndOf(j, how), f2, i2)
         /\ EndOf(j, how).pc = how /\ EndOf(j, how).handle = NoInode
         /\ EndOf(j, how).current = NoInode /\ EndOf(j, how).temp \in {j.temp, NoInode}
         /\ how # "killed" => EndOf(j, how).temp = NoInode
         /\ EndOf(j, how).reduced = j.reduced /\ EndOf(j, how).raced = j.raced
<1> DEFINE e == EndOf(j, how)
<1>1. e \in JobState
  <2>1. how \in Place
    BY DEF Place, Ended
  <2>2. (IF how = "killed" THEN j.temp ELSE NoInode) \in Inode \cup {NoInode}
    BY DEF JobState
  <2> QED BY <2>1, <2>2 DEF EndOf, JobState
<1>2. /\ e.pc = how /\ e.handle = NoInode /\ e.current = NoInode /\ e.temp \in {j.temp, NoInode}
      /\ how # "killed" => e.temp = NoInode
      /\ how = "killed" => e.temp = j.temp
      /\ e.reduced = j.reduced /\ e.raced = j.raced
      /\ e.kind = j.kind /\ e.source = j.source
  BY DEF EndOf, JobState
<1> HIDE DEF e
<1>3. StageOK(e) /\ TextOK(e)
  BY <1>2 DEF StageOK, TextOK, Knows, Written, Before, Ended, Checking, JobOK
<1>4. TempOK(e, f2) /\ RaceOK(e, f2, i2)
  BY <1>2 DEF TempOK, RaceOK, Written, Checking, JobOK
<1> QED BY <1>1, <1>2, <1>3, <1>4 DEF e, JobOK

\* A change of the input by somebody else puts a job between its last check
\* and the rename into the window, and leaves every other job as it is.
LEMMA RacingIsOK ==
  ASSUME NEW j \in JobState, NEW fs, NEW f2, NEW i, NEW i2, JobOK(j, fs, i),
         j.temp # NoInode => f2[j.temp] = fs[j.temp]
  PROVE  /\ Racing(j) \in JobState /\ JobOK(Racing(j), f2, i2)
         /\ Racing(j).pc = j.pc /\ Racing(j).handle = j.handle /\ Racing(j).current = j.current
         /\ Racing(j).temp = j.temp /\ Racing(j).reduced = j.reduced
         /\ ~Racing(j).raced => ~j.raced
<1> DEFINE e == Racing(j)
<1>1. e \in JobState
  BY DEF Racing, JobState
<1>2. /\ e.pc = j.pc /\ e.handle = j.handle /\ e.current = j.current /\ e.temp = j.temp
      /\ e.reduced = j.reduced /\ e.source = j.source /\ e.kind = j.kind /\ e.round = j.round
      /\ e.original = j.original /\ e.meta = j.meta
      /\ e.raced = (j.raced \/ (j.round >= 3 /\ j.pc \in {"checkRead", "checkAgain", "persist"}))
  BY DEF Racing, JobState
<1> HIDE DEF e
<1>3. StageOK(e) /\ TextOK(e)
  BY <1>2 DEF StageOK, TextOK, Knows, Written, JobOK
<1>4. TempOK(e, f2)
  BY <1>2 DEF TempOK, StageOK, Written, JobOK
<1>5. RaceOK(e, f2, i2)
  BY <1>2 DEF RaceOK
<1> QED BY <1>1, <1>2, <1>3, <1>4, <1>5 DEF e, JobOK

\* A job stays as it is as long as its temporary file and the input do.
LEMMA SameIsOK ==
  ASSUME NEW j \in JobState, NEW fs, NEW f2, NEW i, JobOK(j, fs, i),
         j.temp # NoInode => f2[j.temp] = fs[j.temp], i # NoInode => f2[i] = fs[i]
  PROVE  JobOK(j, f2, i)
<1>1. TempOK(j, f2)
  BY DEF TempOK, StageOK, Written, JobOK
<1>2. RaceOK(j, f2, i)
  BY DEF RaceOK, StageOK, JobOK, MetaOf
<1> QED BY <1>1, <1>2 DEF JobOK

-----------------------------------------------------------------------------
\* A step of one job that touches no file but its temporary one.
LEMMA Local ==
  ASSUME IInv, TypeOK', NEW t \in Job, UNCHANGED <<entry, edits>>,
         job' = [job EXCEPT ![t] = job'[t]],
         \A i \in Inode : i # job'[t].temp => file'[i] = file[i],
         job'[t].temp \notin Named,
         {job'[t].handle, job'[t].current} \subseteq Named \cup {NoInode},
         job'[t].pc \notin {"created", "replaced"},
         JobOK(job'[t], file', Input.ino)
  PROVE  IInv'
<1> USE DEF IInv
<1>1. /\ \A u \in Job \ {t} : job'[u] = job[u] /\ job[u] \in JobState
      /\ Input' = Input /\ entry["out"]' = entry["out"]
      /\ Input.ino \in Inode \cup {NoInode} /\ entry["out"].ino \in Inode \cup {NoInode}
  BY DEF TypeOK, Input
<1>2. {Input.ino, entry["out"].ino} \ {NoInode} \subseteq Named /\ Named' \subseteq Named
  BY <1>1 DEF Named, Input
<1>3. \A i \in Named : i \in Inode /\ file'[i] = file[i]
  <2>1. Named \subseteq Inode
    BY DEF Named, TypeOK, JobState
  <2> QED BY <2>1
<1>4. JobInv'
  <2>1. ASSUME NEW u \in Job \ {t}
        PROVE  JobOK(job[u], file', Input.ino)
    <3>1. job[u].temp # NoInode => job[u].temp \in Inode /\ job[u].temp # job'[t].temp
      BY <1>1, <2>1 DEF TypeOK, JobState
    <3>2. Input.ino # NoInode => file'[Input.ino] = file[Input.ino]
      BY <1>2, <1>3
    <3> QED BY <1>1, <2>1, <3>1, <3>2, SameIsOK DEF JobInv
  <2> QED BY <1>1, <2>1 DEF JobInv
<1>5. FileInv'
  <2>1. \A i \in Named' : file'[i].durable /\ file'[i].content \in Content
    BY <1>2, <1>3 DEF FileInv
  <2>2. \A u \in Job : job'[u].temp \notin Named'
    BY <1>1, <1>2 DEF FileInv
  <2>3. \A i \in Inode : file'[i].links <= edits' + 1
    <3>1. job'[t].temp # NoInode => file'[job'[t].temp].links = 1
      BY DEF JobOK, TempOK
    <3> QED BY <3>1, Facts DEF FileInv, TypeOK
  <2>4. Input.ino # NoInode => file'[Input.ino] = file[Input.ino]
    BY <1>2, <1>3
  <2> QED BY <1>1, <2>1, <2>2, <2>3, <2>4 DEF FileInv, Missing
<1>6. CreatedInv'
  <2>1. entry["out"].ino # NoInode => file'[entry["out"].ino] = file[entry["out"].ino]
    BY <1>2, <1>3
  <2> QED BY <1>1, <2>1 DEF CreatedInv
<1> QED BY <1>4, <1>5, <1>6

\* A job ends without having put anything in place.
LEMMA EndedIInv ==
  ASSUME IInv, NEW t \in Job, NEW how \in {"failed", "killed"}, job[t].pc # "absent",
         Step(t, EndOf(job[t], how))
  PROVE  IInv'
<1> DEFINE new == EndOf(job[t], how)
<1>1. job[t] \in JobState /\ JobOK(job[t], file, Input.ino)
  BY DEF IInv, TypeOK, JobInv
<1>2. /\ new \in JobState /\ JobOK(new, file, Input.ino) /\ new.pc = how
      /\ new.handle = NoInode /\ new.current = NoInode /\ new.temp \in {job[t].temp, NoInode}
  <2>1. how \in {"same", "failed", "killed", "replaced", "created"} /\ how \notin {"same", "replaced", "created"}
    OBVIOUS
  <2> QED BY <1>1, <2>1, EndIsOK
<1> HIDE DEF new
<1>3. /\ job' = [job EXCEPT ![t] = new] /\ UNCHANGED <<entry, file, clock, edits>>
  BY DEF Step, new
<1>4. job'[t] = new /\ job' = [job EXCEPT ![t] = job'[t]]
  BY <1>3 DEF IInv, TypeOK
<1>5. TypeOK'
  BY <1>2, <1>3 DEF IInv, TypeOK
<1>6. new.temp \notin Named
  BY <1>2 DEF IInv, FileInv, Named
<1> QED BY <1>2, <1>3, <1>4, <1>5, <1>6, Local

\* A step of a job that changes nothing but its own state.
LEMMA StepIInv ==
  ASSUME IInv, NEW t \in Job, NEW new \in JobState, Step(t, new),
         new.temp = job[t].temp, {new.handle, new.current} \subseteq Named \cup {NoInode},
         new.pc \notin {"created", "replaced"}, JobOK(new, file, Input.ino)
  PROVE  IInv'
<1>1. /\ job' = [job EXCEPT ![t] = new] /\ UNCHANGED <<entry, file, clock, edits>>
      /\ job'[t] = new /\ job' = [job EXCEPT ![t] = job'[t]]
  BY DEF Step, IInv, TypeOK
<1>2. TypeOK'
  <2>1. job' \in [Job -> JobState]
    BY <1>1 DEF IInv, TypeOK
  <2>2. \A u \in Job : job'[u].temp = job[u].temp
    BY <1>1 DEF IInv, TypeOK
  <2> QED BY <1>1, <2>1, <2>2 DEF IInv, TypeOK
<1>3. job'[t].temp \notin Named
  BY <1>1 DEF IInv, FileInv
<1> QED BY <1>1, <1>2, <1>3, Local

-----------------------------------------------------------------------------
(* The steps of a job                                                      *)

LEMMA CopyIInv ==
  ASSUME IInv, NEW t \in Job, Copy(t)
  PROVE  IInv'
<1> DEFINE j == job[t]
           c == file[Input.ino].content
           new == [To(t, "stat") EXCEPT !.original = c, !.reduced = Reduce[c]]
<1>1. j \in JobState /\ j.pc = "copy" /\ JobOK(j, file, Input.ino)
  BY DEF IInv, TypeOK, JobInv, Copy, At
<1>2. CASE Step(t, Failed(t))
  BY <1>1, <1>2, EndedIInv DEF Failed
<1>3. CASE Input.ino # NoInode /\ Step(t, new)
  <2>1. c \in Content /\ Reduce[c] \in Content
    BY <1>3, Facts DEF IInv, FileInv, Named, Input
  <2> HIDE DEF c
  <2>2. /\ new \in JobState
        /\ new.pc = "stat" /\ new.original = c /\ new.reduced = Reduce[c] /\ new.kind = j.kind
        /\ new.source = j.source /\ new.handle = j.handle /\ new.current = j.current
        /\ new.temp = j.temp /\ new.round = j.round /\ new.raced = j.raced /\ new.meta = j.meta
    BY <1>1, <2>1 DEF To, JobState, Place, Checking, Ended
  <2> HIDE DEF new
  <2>3. JobOK(new, file, Input.ino)
    BY <1>1, <1>3, <2>1, <2>2 DEF JobOK, StageOK, TextOK, TempOK, RaceOK, Knows, Written,
         Before, Ended, Checking
  <2>4. {new.handle, new.current} \subseteq Named \cup {NoInode}
    BY <2>2 DEF Named, Input
  <2> QED BY <1>1, <1>3, <2>2, <2>3, <2>4, StepIInv
<1> QED BY <1>2, <1>3 DEF Copy

LEMMA StatIInv ==
  ASSUME IInv, NEW t \in Job, Stat(t)
  PROVE  IInv'
<1> DEFINE j == job[t]
           new == To(t, "open")
<1>1. j \in JobState /\ j.pc = "stat" /\ j.kind.place = "in" /\ JobOK(j, file, Input.ino)
  BY DEF IInv, TypeOK, JobInv, Stat, At
<1>2. CASE Step(t, Failed(t))
  BY <1>1, <1>2, EndedIInv DEF Failed
<1>3. CASE ValidEntry /\ Step(t, new)
  <2>2. /\ new \in JobState
        /\ new.pc = "open" /\ new.kind = j.kind /\ new.original = j.original
        /\ new.source = j.source /\ new.reduced = j.reduced /\ new.handle = j.handle
        /\ new.current = j.current /\ new.temp = j.temp /\ new.round = j.round
        /\ new.raced = j.raced /\ new.meta = j.meta
    BY <1>1 DEF To, JobState, Place, Checking, Ended
  <2> HIDE DEF new
  <2>3. JobOK(new, file, Input.ino)
    BY <1>1, <1>3, <2>2 DEF JobOK, StageOK, TextOK, TempOK, RaceOK, Knows, Written,
         Before, Ended, Checking
  <2>4. {new.handle, new.current} \subseteq Named \cup {NoInode}
    BY <2>2 DEF Named, Input
  <2> QED BY <1>1, <1>3, <2>2, <2>3, <2>4, StepIInv
<1> QED BY <1>2, <1>3 DEF Stat

LEMMA OpenIInv ==
  ASSUME IInv, NEW t \in Job, Open(t)
  PROVE  IInv'
<1> DEFINE j == job[t]
           i == Input.ino
           m == Metadata(i)
           new == [To(t, "read") EXCEPT !.handle = i, !.meta = m]
<1>1. j \in JobState /\ j.pc = "open" /\ JobOK(j, file, Input.ino)
  BY DEF IInv, TypeOK, JobInv, Open, At
<1>2. CASE Step(t, Failed(t))
  BY <1>1, <1>2, EndedIInv DEF Failed
<1>3. CASE i # NoInode /\ Step(t, new)
  <2>1. i \in Inode /\ m \in Meta
    BY <1>3 DEF IInv, TypeOK, Input, Metadata, Meta
  <2> HIDE DEF m
  <2>2. /\ new \in JobState
        /\ new.pc = "read" /\ new.handle = Input.ino /\ new.meta = m /\ new.kind = j.kind
        /\ new.original = j.original /\ new.source = j.source /\ new.reduced = j.reduced
        /\ new.current = j.current /\ new.temp = j.temp /\ new.round = j.round
        /\ new.raced = j.raced
    BY <1>1, <2>1 DEF To, JobState, Place, Checking, Ended
  <2> HIDE DEF new
  <2>3. JobOK(new, file, Input.ino)
    BY <1>1, <1>3, <2>1, <2>2 DEF JobOK, StageOK, TextOK, TempOK, RaceOK, Knows, Written,
         Before, Ended, Checking
  <2>4. {new.handle, new.current} \subseteq Named \cup {NoInode}
    BY <2>2 DEF Named, Input
  <2> QED BY <1>1, <1>3, <2>2, <2>3, <2>4, StepIInv
<1> QED BY <1>2, <1>3 DEF Open

LEMMA ReadIInv ==
  ASSUME IInv, NEW t \in Job, Read(t)
  PROVE  IInv'
<1> DEFINE j == job[t]
           c == file[j.handle].content
           new == [To(t, "check") EXCEPT !.source = c]
<1>1. j \in JobState /\ j.pc = "read" /\ JobOK(j, file, Input.ino)
  BY DEF IInv, TypeOK, JobInv, Read, At
<1>3. CASE Step(t, new)
  <2>1. c \in Content
    <3>1. j.handle # NoInode
      BY <1>1 DEF JobOK, StageOK, Before, Ended
    <3> QED BY <1>1, <3>1 DEF IInv, FileInv, Named
  <2> HIDE DEF c
  <2>2. /\ new \in JobState
        /\ new.pc = "check" /\ new.source = c /\ new.kind = j.kind /\ new.original = j.original
        /\ new.reduced = j.reduced /\ new.handle = j.handle /\ new.current = j.current
        /\ new.temp = j.temp /\ new.round = j.round /\ new.raced = j.raced /\ new.meta = j.meta
    BY <1>1, <2>1 DEF To, JobState, Place, Checking, Ended
  <2> HIDE DEF new
  <2>3. JobOK(new, file, Input.ino)
    BY <1>1, <1>3, <2>1, <2>2 DEF JobOK, StageOK, TextOK, TempOK, RaceOK, Knows, Written,
         Before, Ended, Checking
  <2>4. {new.handle, new.current} \subseteq Named \cup {NoInode}
    BY <2>2 DEF Named, Input
  <2> QED BY <1>1, <1>3, <2>2, <2>3, <2>4, StepIInv
<1> QED BY <1>3 DEF Read

LEMMA CheckIInv ==
  ASSUME IInv, NEW t \in Job, Check(t)
  PROVE  IInv'
<1> DEFINE j == job[t]
           new == To(t, "checkOpen")
<1>1. j \in JobState /\ j.pc = "check" /\ JobOK(j, file, Input.ino)
  BY DEF IInv, TypeOK, JobInv, Check, At
<1>2. CASE Step(t, Failed(t))
  BY <1>1, <1>2, EndedIInv DEF Failed
<1>3. CASE ValidEntry /\ Step(t, new)
  <2>2. /\ new \in JobState
        /\ new.pc = "checkOpen" /\ new.kind = j.kind /\ new.original = j.original
        /\ new.source = j.source /\ new.reduced = j.reduced /\ new.handle = j.handle
        /\ new.current = j.current /\ new.temp = j.temp /\ new.round = j.round
        /\ new.raced = j.raced /\ new.meta = j.meta
    BY <1>1 DEF To, JobState, Place, Checking, Ended
  <2> HIDE DEF new
  <2>3. JobOK(new, file, Input.ino)
    BY <1>1, <1>3, <2>2 DEF JobOK, StageOK, TextOK, TempOK, RaceOK, Knows, Written,
         Before, Ended, Checking
  <2>4. {new.handle, new.current} \subseteq Named \cup {NoInode}
    BY <2>2 DEF Named, Input
  <2> QED BY <1>1, <1>3, <2>2, <2>3, <2>4, StepIInv
<1> QED BY <1>2, <1>3 DEF Check

LEMMA CheckOpenIInv ==
  ASSUME IInv, NEW t \in Job, CheckOpen(t)
  PROVE  IInv'
<1> DEFINE j == job[t]
           i == Input.ino
           new == [To(t, "checkRead") EXCEPT !.current = i]
<1>1. j \in JobState /\ j.pc = "checkOpen" /\ JobOK(j, file, Input.ino)
  BY DEF IInv, TypeOK, JobInv, CheckOpen, At
<1>2. CASE Step(t, Failed(t))
  BY <1>1, <1>2, EndedIInv DEF Failed
<1>3. CASE i # NoInode /\ Step(t, new)
  <2>1. i \in Inode
    BY <1>3 DEF IInv, TypeOK, Input
  <2>2. /\ new \in JobState
        /\ new.pc = "checkRead" /\ new.current = Input.ino /\ new.kind = j.kind
        /\ new.original = j.original /\ new.source = j.source /\ new.reduced = j.reduced
        /\ new.handle = j.handle /\ new.temp = j.temp /\ new.round = j.round
        /\ new.raced = j.raced /\ new.meta = j.meta
    BY <1>1, <2>1 DEF To, JobState, Place, Checking, Ended
  <2> HIDE DEF new
  <2>3. JobOK(new, file, Input.ino)
    BY <1>1, <1>3, <2>1, <2>2 DEF JobOK, StageOK, TextOK, TempOK, RaceOK, Knows, Written,
         Before, Ended, Checking
  <2>4. {new.handle, new.current} \subseteq Named \cup {NoInode}
    BY <2>2 DEF Named, Input
  <2> QED BY <1>1, <1>3, <2>2, <2>3, <2>4, StepIInv
<1> QED BY <1>2, <1>3 DEF CheckOpen

LEMMA CheckReadIInv ==
  ASSUME IInv, NEW t \in Job, CheckRead(t)
  PROVE  IInv'
<1> DEFINE j == job[t]
           q == j.raced /\ Input.ino # j.current
           new == [To(t, "checkAgain") EXCEPT !.raced = @ /\ Input.ino # j.current]
<1>1. j \in JobState /\ j.pc = "checkRead" /\ JobOK(j, file, Input.ino)
  BY DEF IInv, TypeOK, JobInv, CheckRead, At
<1>2. CASE Step(t, Failed(t))
  BY <1>1, <1>2, EndedIInv DEF Failed
<1>3. CASE file[j.current].content = j.source /\ Step(t, new)
  <2>1. new = [To(t, "checkAgain") EXCEPT !.raced = q] /\ q \in BOOLEAN
    BY <1>1 DEF To, JobState
  <2> HIDE DEF q
  <2> HIDE DEF new
  <2>2. /\ new \in JobState
        /\ new.pc = "checkAgain" /\ new.raced = q /\ new.kind = j.kind
        /\ new.original = j.original /\ new.source = j.source /\ new.reduced = j.reduced
        /\ new.handle = j.handle /\ new.current = j.current /\ new.temp = j.temp
        /\ new.round = j.round /\ new.meta = j.meta
    BY <1>1, <2>1 DEF To, JobState, Place, Checking, Ended
  <2> HIDE DEF new
  <2>3. JobOK(new, file, Input.ino)
    BY <1>1, <1>3, <2>1, <2>2 DEF JobOK, StageOK, TextOK, TempOK, RaceOK, Knows, Written,
         Before, Ended, Checking, q
  <2>4. {new.handle, new.current} \subseteq Named \cup {NoInode}
    BY <2>2 DEF Named, Input
  <2> QED BY <1>1, <1>3, <2>2, <2>3, <2>4, StepIInv
<1> QED BY <1>2, <1>3 DEF CheckRead

LEMMA CheckAgainIInv ==
  ASSUME IInv, NEW t \in Job, CheckAgain(t)
  PROVE  IInv'
<1> DEFINE j == job[t]
           new == [To(t, AfterCheck(j)) EXCEPT !.current = NoInode, !.round = @ + 1]
<1>1. j \in JobState /\ j.pc = "checkAgain" /\ JobOK(j, file, Input.ino)
  BY DEF IInv, TypeOK, JobInv, CheckAgain, At
<1>2. CASE Step(t, Failed(t))
  BY <1>1, <1>2, EndedIInv DEF Failed
<1>3. CASE Metadata(j.current) = j.meta /\ AfterCheck(j) # "same" /\ Step(t, new)
  <2>1. /\ j.round \in 1..3 /\ j.round + 1 \in 1..4
        /\ AfterCheck(j) \in {"compare", "reduce", "temporary", "persist"}
        /\ j.round = 1 => AfterCheck(j) = (IF j.kind.container THEN "compare" ELSE "reduce")
        /\ j.round = 2 => AfterCheck(j) = "temporary" /\ j.reduced # j.source
        /\ j.round = 3 => AfterCheck(j) = "persist"
    BY <1>1, <1>3 DEF JobOK, StageOK, AfterCheck, Checking
  <2>2. /\ new \in JobState
        /\ new.pc = AfterCheck(j) /\ new.current = NoInode /\ new.round = j.round + 1
        /\ new.kind = j.kind /\ new.original = j.original /\ new.source = j.source
        /\ new.reduced = j.reduced /\ new.handle = j.handle /\ new.temp = j.temp
        /\ new.raced = j.raced /\ new.meta = j.meta
    BY <1>1, <2>1 DEF To, JobState, Place, Checking, Ended
  <2> HIDE DEF new
  <2>3. JobOK(new, file, Input.ino)
    BY <1>1, <1>3, <2>1, <2>2 DEF JobOK, StageOK, TextOK, TempOK, RaceOK, Knows, Written,
         Before, Ended, Checking, MetaOf, Metadata
  <2>4. {new.handle, new.current} \subseteq Named \cup {NoInode}
    BY <2>2 DEF Named, Input
  <2>5. new.pc \notin {"created", "replaced"}
    BY <1>1, <2>1, <2>2
  <2> QED BY <1>3, <2>2, <2>3, <2>4, <2>5, StepIInv
<1>4. CASE Step(t, EndOf(new, "same"))
  <2> DEFINE e == EndOf(new, "same")
  <2>1. j.round \in 1..3 /\ j.kind.place = "in"
    BY <1>1 DEF JobOK, StageOK, Checking
  <2>2. /\ e \in JobState /\ e.pc = "same" /\ e.handle = NoInode /\ e.current = NoInode
        /\ e.temp = NoInode /\ e.kind = j.kind
    <3>1. AfterCheck(j) \in Place /\ j.round + 1 \in 1..4
      BY <2>1 DEF AfterCheck, Place, Ended
    <3>2. new \in JobState /\ new.kind = j.kind
      BY <1>1, <3>1 DEF To, JobState
    <3> HIDE DEF new
    <3> QED BY <3>2 DEF EndOf, JobState, Place, Ended
  <2> HIDE DEF e
  <2>3. JobOK(e, file, Input.ino)
    BY <2>1, <2>2 DEF JobOK, StageOK, TextOK, TempOK, RaceOK, Knows, Written, Before, Ended, Checking
  <2>4. /\ job'[t] = e /\ job' = [job EXCEPT ![t] = job'[t]]
        /\ UNCHANGED <<entry, file, clock, edits>>
    BY <1>4 DEF Step, e, IInv, TypeOK
  <2>5. TypeOK'
    BY <2>2, <2>4 DEF IInv, TypeOK
  <2>6. e.temp \notin Named
    BY <2>2 DEF Named
  <2> QED BY <2>2, <2>3, <2>4, <2>5, <2>6, Local
<1>5. new.pc = AfterCheck(j)
  BY <1>1 DEF To, JobState
<1> QED BY <1>4, <1>5, <1>2, <1>3 DEF CheckAgain

LEMMA ReadOnceIInv ==
  ASSUME IInv, NEW t \in Job, ReadOnce(t)
  PROVE  IInv'
<1> DEFINE j == job[t]
           c == file[Input.ino].content
           next == IF j.kind.container THEN "compare" ELSE "reduce"
           new == [To(t, next) EXCEPT !.source = c]
<1>1. j \in JobState /\ j.pc = "stat" /\ j.kind.place = "out" /\ JobOK(j, file, Input.ino)
  BY DEF IInv, TypeOK, JobInv, ReadOnce, At
<1>2. CASE Step(t, Failed(t))
  BY <1>1, <1>2, EndedIInv DEF Failed
<1>3. CASE Input.ino # NoInode /\ Step(t, new)
  <2>1. c \in Content
    BY <1>3, Facts DEF IInv, FileInv, Named, Input
  <2> HIDE DEF c
  <2>2. /\ new \in JobState
        /\ new.pc = next /\ new.source = c /\ new.kind = j.kind /\ new.original = j.original
        /\ new.reduced = j.reduced /\ new.handle = j.handle /\ new.current = j.current
        /\ new.temp = j.temp /\ new.round = j.round /\ new.raced = j.raced /\ new.meta = j.meta
    BY <1>1, <2>1 DEF To, JobState, Place, Checking, Ended
  <2> HIDE DEF new
  <2>3. JobOK(new, file, Input.ino)
    BY <1>1, <1>3, <2>1, <2>2 DEF JobOK, StageOK, TextOK, TempOK, RaceOK, Knows, Written,
         Before, Ended, Checking
  <2>4. {new.handle, new.current} \subseteq Named \cup {NoInode}
    BY <2>2 DEF Named, Input
  <2>5. new.pc \notin {"created", "replaced"}
    BY <1>1, <2>1, <2>2
  <2> QED BY <1>3, <2>2, <2>3, <2>4, <2>5, StepIInv
<1> QED BY <1>2, <1>3 DEF ReadOnce

LEMMA AnalyzeIInv ==
  ASSUME IInv, NEW t \in Job, Analyze(t)
  PROVE  IInv'
<1> DEFINE j == job[t]
           r == Reduce[j.source]
           new == [To(t, WriteStep(j)) EXCEPT !.reduced = r]
<1>1. j \in JobState /\ j.pc = "reduce" /\ JobOK(j, file, Input.ino)
  BY DEF IInv, TypeOK, JobInv, Analyze, At
<1>2. CASE Step(t, Failed(t))
  BY <1>1, <1>2, EndedIInv DEF Failed
<1>3. CASE Step(t, new)
  <2>1. /\ r \in Content /\ ~j.kind.container /\ j.source \in Content
        /\ (j.kind.place = "in" /\ WriteStep(j) = "check" /\ j.round = 2)
           \/ (j.kind.place = "out" /\ WriteStep(j) = "create")
    <3>1. ~j.kind.container /\ j.source \in Content /\ j.kind.place \in {"in", "out"}
      BY <1>1 DEF JobOK, TextOK, StageOK, Before, Ended, JobState, Kind
    <3> QED BY <1>1, <3>1, Facts DEF JobOK, StageOK, WriteStep
  <2> HIDE DEF r
  <2>2. /\ new \in JobState
        /\ new.pc = WriteStep(j) /\ new.reduced = r /\ new.kind = j.kind
        /\ new.original = j.original /\ new.source = j.source /\ new.handle = j.handle
        /\ new.current = j.current /\ new.temp = j.temp /\ new.round = j.round
        /\ new.raced = j.raced /\ new.meta = j.meta
    BY <1>1, <2>1 DEF To, JobState, Place, Checking, Ended
  <2> HIDE DEF new
  <2>3. JobOK(new, file, Input.ino)
    BY <1>1, <1>3, <2>1, <2>2 DEF JobOK, StageOK, TextOK, TempOK, RaceOK, Knows, Written,
         Before, Ended, Checking, r
  <2>4. {new.handle, new.current} \subseteq Named \cup {NoInode}
    BY <2>2 DEF Named, Input
  <2>5. new.pc \notin {"created", "replaced"}
    BY <1>1, <2>1, <2>2
  <2> QED BY <1>3, <2>2, <2>3, <2>4, <2>5, StepIInv
<1> QED BY <1>2, <1>3 DEF Analyze

LEMMA CompareIInv ==
  ASSUME IInv, NEW t \in Job, Compare(t)
  PROVE  IInv'
<1> DEFINE j == job[t]
           new == To(t, WriteStep(j))
<1>1. j \in JobState /\ j.pc = "compare" /\ JobOK(j, file, Input.ino)
  BY DEF IInv, TypeOK, JobInv, Compare, At
<1>2. CASE Step(t, Failed(t))
  BY <1>1, <1>2, EndedIInv DEF Failed
<1>3. CASE Unchanged(j) /\ Step(t, new)
  <2>1. /\ j.kind.container /\ j.source \in Content
        /\ (j.kind.place = "in" /\ WriteStep(j) = "check" /\ j.round = 2)
           \/ (j.kind.place = "out" /\ WriteStep(j) = "create")
    <3>1. j.kind.container /\ j.source \in Content /\ j.kind.place \in {"in", "out"}
      BY <1>1 DEF JobOK, TextOK, StageOK, Before, Ended, JobState, Kind
    <3> QED BY <1>1, <3>1 DEF JobOK, StageOK, WriteStep
  <2>2. /\ new \in JobState
        /\ new.pc = WriteStep(j) /\ new.kind = j.kind /\ new.original = j.original
        /\ new.source = j.source /\ new.reduced = j.reduced /\ new.handle = j.handle
        /\ new.current = j.current /\ new.temp = j.temp /\ new.round = j.round
        /\ new.raced = j.raced /\ new.meta = j.meta
    BY <1>1, <2>1 DEF To, JobState, Place, Checking, Ended
  <2> HIDE DEF new
  <2>3. JobOK(new, file, Input.ino)
    BY <1>1, <1>3, <2>1, <2>2 DEF JobOK, StageOK, TextOK, TempOK, RaceOK, Knows, Written,
         Before, Ended, Checking, Unchanged
  <2>4. {new.handle, new.current} \subseteq Named \cup {NoInode}
    BY <2>2 DEF Named, Input
  <2>5. new.pc \notin {"created", "replaced"}
    BY <1>1, <2>1, <2>2
  <2> QED BY <1>3, <2>2, <2>3, <2>4, <2>5, StepIInv
<1> QED BY <1>2, <1>3 DEF Compare

-----------------------------------------------------------------------------
\* A step of a job that writes its temporary file.
LEMMA UpdateIInv ==
  ASSUME IInv, NEW t \in Job, NEW next \in Place \ {"created", "replaced"}, NEW f \in FileState,
         UpdateTemp(t, f, next), job[t].temp # NoInode,
         JobOK(To(t, next), [file EXCEPT ![job[t].temp] = f], Input.ino)
  PROVE  IInv'
<1> DEFINE j == job[t]
           new == To(t, next)
<1>1. j \in JobState /\ j.temp \in Inode /\ j.temp \notin Named
  BY DEF IInv, TypeOK, FileInv, JobState
<1>2. /\ new \in JobState /\ new.pc = next /\ new.temp = j.temp
      /\ new.handle = j.handle /\ new.current = j.current
  BY <1>1 DEF To, JobState
<1>3. /\ job' = [job EXCEPT ![t] = new] /\ file' = [file EXCEPT ![j.temp] = f]
      /\ UNCHANGED <<entry, clock, edits>>
  BY DEF UpdateTemp
<1>4. JobOK(new, file', Input.ino)
  BY <1>3
<1> HIDE DEF new
<1>5. job'[t] = new /\ job' = [job EXCEPT ![t] = job'[t]]
  BY <1>3 DEF IInv, TypeOK
<1>6. TypeOK'
  <2>1. file' \in [Inode -> FileState]
    BY <1>1, <1>3 DEF IInv, TypeOK, FileState
  <2>2. \A u \in Job : job'[u].temp = job[u].temp
    BY <1>2, <1>3 DEF IInv, TypeOK
  <2>3. job' \in [Job -> JobState]
    BY <1>2, <1>3 DEF IInv, TypeOK
  <2> QED BY <1>3, <2>1, <2>2, <2>3 DEF IInv, TypeOK, FileState
<1>7. {new.handle, new.current} \subseteq Named \cup {NoInode}
  BY <1>2 DEF Named
<1>8. \A i \in Inode : i # new.temp => file'[i] = file[i]
  BY <1>2, <1>3 DEF IInv, TypeOK
<1>9. /\ job'[t].pc \notin {"created", "replaced"} /\ job'[t].temp \notin Named
      /\ {job'[t].handle, job'[t].current} \subseteq Named \cup {NoInode}
      /\ JobOK(job'[t], file', Input.ino)
      /\ \A i \in Inode : i # job'[t].temp => file'[i] = file[i]
  BY <1>1, <1>2, <1>4, <1>5, <1>7, <1>8
<1> QED BY <1>3, <1>5, <1>6, <1>9, Local

LEMMA PreparePermissionsIInv ==
  ASSUME IInv, NEW t \in Job, PreparePermissions(t)
  PROVE  IInv'
<1> DEFINE j == job[t]
           f == file[j.temp]
<1>1. /\ j \in JobState /\ j.pc = "permissions" /\ JobOK(j, file, Input.ino)
      /\ j.temp \in Inode /\ f \in FileState
  <2>1. j \in JobState /\ j.pc = "permissions" /\ JobOK(j, file, Input.ino)
    BY DEF IInv, TypeOK, JobInv, PreparePermissions, At
  <2>2. j.temp # NoInode
    BY <2>1 DEF JobOK, StageOK, Written
  <2> QED BY <2>1, <2>2 DEF IInv, TypeOK, FileState, JobState
<1>2. CASE Step(t, Failed(t))
  BY <1>1, <1>2, EndedIInv DEF Failed
<1>3. ASSUME NEW c \in {Torn, j.source},
             UpdateTemp(t, [f EXCEPT !.owner = j.meta.owner, !.mode = j.meta.mode,
                                     !.content = c, !.durable = FALSE], "truncate")
      PROVE  IInv'
  <2> DEFINE new == [f EXCEPT !.owner = j.meta.owner, !.mode = j.meta.mode,
                               !.content = c, !.durable = FALSE]
               next == "truncate"
  <2>1. /\ new \in FileState /\ new.owner = j.meta.owner /\ new.mode = j.meta.mode /\ new.content = c /\ new.durable = FALSE
        /\ new.links = f.links /\ new.stamp = f.stamp
    BY <1>1, <1>3 DEF FileState, JobState, Meta, Mode
  <2> DEFINE to == To(t, next)
  <2>2. /\ to.pc = next /\ to.kind = j.kind /\ to.original = j.original /\ to.source = j.source
        /\ to.reduced = j.reduced /\ to.handle = j.handle /\ to.current = j.current
        /\ to.temp = j.temp /\ to.round = j.round /\ to.raced = j.raced /\ to.meta = j.meta
    BY <1>1 DEF To, JobState
  <2> HIDE DEF new, to
  <2>3. [file EXCEPT ![j.temp] = new][j.temp] = new
    BY <1>1 DEF IInv, TypeOK
  <2>4. JobOK(to, [file EXCEPT ![j.temp] = new], Input.ino)
    BY <1>1, <2>1, <2>2, <2>3 DEF JobOK, StageOK, TextOK, TempOK, RaceOK, Knows, Written,
         Before, Ended, Checking
  <2>5. next \in Place \ {"created", "replaced"} /\ j.temp # NoInode
    BY <1>1, Facts DEF Place, Checking
  <2>6. UpdateTemp(t, new, next)
    BY <1>3 DEF PreparePermissions, new
  <2> QED BY <2>1, <2>4, <2>5, <2>6, UpdateIInv DEF to
<1> QED BY <1>2, <1>3 DEF PreparePermissions

LEMMA TruncateIInv ==
  ASSUME IInv, NEW t \in Job, Truncate(t)
  PROVE  IInv'
<1> DEFINE j == job[t]
           f == file[j.temp]
<1>1. /\ j \in JobState /\ j.pc = "truncate" /\ JobOK(j, file, Input.ino)
      /\ j.temp \in Inode /\ f \in FileState
  <2>1. j \in JobState /\ j.pc = "truncate" /\ JobOK(j, file, Input.ino)
    BY DEF IInv, TypeOK, JobInv, Truncate, At
  <2>2. j.temp # NoInode
    BY <2>1 DEF JobOK, StageOK, Written
  <2> QED BY <2>1, <2>2 DEF IInv, TypeOK, FileState, JobState
<1> DEFINE new == [f EXCEPT !.content = Torn]
             next == "write"
<1>2. /\ new \in FileState /\ new.content = Torn
      /\ new.mode = f.mode /\ new.owner = f.owner /\ new.links = f.links /\ new.stamp = f.stamp /\ new.durable = f.durable
  BY <1>1 DEF FileState, JobState, Meta, Mode
<1> DEFINE to == To(t, next)
<1>3. /\ to.pc = next /\ to.kind = j.kind /\ to.original = j.original /\ to.source = j.source
      /\ to.reduced = j.reduced /\ to.handle = j.handle /\ to.current = j.current
      /\ to.temp = j.temp /\ to.round = j.round /\ to.raced = j.raced /\ to.meta = j.meta
  BY <1>1 DEF To, JobState
<1> HIDE DEF new, to
<1>4. [file EXCEPT ![j.temp] = new][j.temp] = new
  BY <1>1 DEF IInv, TypeOK
<1>5. JobOK(to, [file EXCEPT ![j.temp] = new], Input.ino)
  BY <1>1, <1>2, <1>3, <1>4 DEF JobOK, StageOK, TextOK, TempOK, RaceOK, Knows, Written,
       Before, Ended, Checking
<1>6. next \in Place \ {"created", "replaced"} /\ j.temp # NoInode
  BY <1>1, Facts DEF Place, Checking
<1>7. UpdateTemp(t, new, next)
  BY DEF Truncate, new
<1> QED BY <1>2, <1>5, <1>6, <1>7, UpdateIInv DEF to

LEMMA WriteIInv ==
  ASSUME IInv, NEW t \in Job, Write(t)
  PROVE  IInv'
<1> DEFINE j == job[t]
           f == file[j.temp]
<1>1. /\ j \in JobState /\ j.pc = "write" /\ JobOK(j, file, Input.ino)
      /\ j.temp \in Inode /\ f \in FileState
  <2>1. j \in JobState /\ j.pc = "write" /\ JobOK(j, file, Input.ino)
    BY DEF IInv, TypeOK, JobInv, Write, At
  <2>2. j.temp # NoInode
    BY <2>1 DEF JobOK, StageOK, Written
  <2> QED BY <2>1, <2>2 DEF IInv, TypeOK, FileState, JobState
<1> DEFINE new == [f EXCEPT !.content = j.reduced, !.durable = FALSE,
                               !.mode = IF @ = "setid" THEN "plain" ELSE @]
             next == IF j.kind.place = "in" THEN "mode" ELSE "sync"
<1>2. /\ new \in FileState /\ new.content = j.reduced /\ new.durable = FALSE /\ new.mode = (IF f.mode = "setid" THEN "plain" ELSE f.mode)
      /\ new.owner = f.owner /\ new.links = f.links /\ new.stamp = f.stamp
  BY <1>1 DEF FileState, JobState, Meta, Mode
<1> DEFINE to == To(t, next)
<1>3. /\ to.pc = next /\ to.kind = j.kind /\ to.original = j.original /\ to.source = j.source
      /\ to.reduced = j.reduced /\ to.handle = j.handle /\ to.current = j.current
      /\ to.temp = j.temp /\ to.round = j.round /\ to.raced = j.raced /\ to.meta = j.meta
  BY <1>1 DEF To, JobState
<1> HIDE DEF new, to
<1>4. [file EXCEPT ![j.temp] = new][j.temp] = new
  BY <1>1 DEF IInv, TypeOK
<1>5. JobOK(to, [file EXCEPT ![j.temp] = new], Input.ino)
  BY <1>1, <1>2, <1>3, <1>4 DEF JobOK, StageOK, TextOK, TempOK, RaceOK, Knows, Written,
       Before, Ended, Checking
<1>6. next \in Place \ {"created", "replaced"} /\ j.temp # NoInode
  BY <1>1, Facts DEF Place, Checking
<1>7. UpdateTemp(t, new, next)
  BY DEF Write, new
<1> QED BY <1>2, <1>5, <1>6, <1>7, UpdateIInv DEF to

LEMMA SetPermissionsIInv ==
  ASSUME IInv, NEW t \in Job, SetPermissions(t)
  PROVE  IInv'
<1> DEFINE j == job[t]
           f == file[j.temp]
<1>1. /\ j \in JobState /\ j.pc = "mode" /\ JobOK(j, file, Input.ino)
      /\ j.temp \in Inode /\ f \in FileState
  <2>1. j \in JobState /\ j.pc = "mode" /\ JobOK(j, file, Input.ino)
    BY DEF IInv, TypeOK, JobInv, SetPermissions, At
  <2>2. j.temp # NoInode
    BY <2>1 DEF JobOK, StageOK, Written
  <2> QED BY <2>1, <2>2 DEF IInv, TypeOK, FileState, JobState
<1> DEFINE new == [f EXCEPT !.mode = j.meta.mode]
             next == "sync"
<1>2. /\ new \in FileState /\ new.mode = j.meta.mode
      /\ new.content = f.content /\ new.owner = f.owner /\ new.links = f.links /\ new.stamp = f.stamp /\ new.durable = f.durable
  BY <1>1 DEF FileState, JobState, Meta, Mode
<1> DEFINE to == To(t, next)
<1>3. /\ to.pc = next /\ to.kind = j.kind /\ to.original = j.original /\ to.source = j.source
      /\ to.reduced = j.reduced /\ to.handle = j.handle /\ to.current = j.current
      /\ to.temp = j.temp /\ to.round = j.round /\ to.raced = j.raced /\ to.meta = j.meta
  BY <1>1 DEF To, JobState
<1> HIDE DEF new, to
<1>4. [file EXCEPT ![j.temp] = new][j.temp] = new
  BY <1>1 DEF IInv, TypeOK
<1>5. JobOK(to, [file EXCEPT ![j.temp] = new], Input.ino)
  BY <1>1, <1>2, <1>3, <1>4 DEF JobOK, StageOK, TextOK, TempOK, RaceOK, Knows, Written,
       Before, Ended, Checking, WantedMode
<1>6. next \in Place \ {"created", "replaced"} /\ j.temp # NoInode
  BY <1>1, Facts DEF Place, Checking
<1>7. UpdateTemp(t, new, next)
  BY DEF SetPermissions, new, WantedMode
<1> QED BY <1>2, <1>5, <1>6, <1>7, UpdateIInv DEF to

LEMMA SyncIInv ==
  ASSUME IInv, NEW t \in Job, Sync(t)
  PROVE  IInv'
<1> DEFINE j == job[t]
           f == file[j.temp]
<1>1. /\ j \in JobState /\ j.pc = "sync" /\ JobOK(j, file, Input.ino)
      /\ j.temp \in Inode /\ f \in FileState
  <2>1. j \in JobState /\ j.pc = "sync" /\ JobOK(j, file, Input.ino)
    BY DEF IInv, TypeOK, JobInv, Sync, At
  <2>2. j.temp # NoInode
    BY <2>1 DEF JobOK, StageOK, Written
  <2> QED BY <2>1, <2>2 DEF IInv, TypeOK, FileState, JobState
<1> DEFINE new == [f EXCEPT !.durable = TRUE]
             next == AfterSync(j)
<1>2. \/ j.kind.place = "in" /\ next = "check"
      \/ j.kind.place = "out" /\ next = "publish"
  BY <1>1 DEF JobOK, StageOK, AfterSync, JobState, Kind
<1>3. /\ new \in FileState /\ new.durable = TRUE
      /\ new.content = f.content /\ new.mode = f.mode /\ new.owner = f.owner /\ new.links = f.links /\ new.stamp = f.stamp
  BY <1>1, <1>2 DEF FileState, JobState, Meta, Mode
<1> DEFINE to == To(t, next)
<1>4. /\ to.pc = next /\ to.kind = j.kind /\ to.original = j.original /\ to.source = j.source
      /\ to.reduced = j.reduced /\ to.handle = j.handle /\ to.current = j.current
      /\ to.temp = j.temp /\ to.round = j.round /\ to.raced = j.raced /\ to.meta = j.meta
  BY <1>1 DEF To, JobState
<1> HIDE DEF new, to
<1>5. [file EXCEPT ![j.temp] = new][j.temp] = new
  BY <1>1 DEF IInv, TypeOK
<1>6. JobOK(to, [file EXCEPT ![j.temp] = new], Input.ino)
  BY <1>1, <1>3, <1>4, <1>5, <1>2 DEF JobOK, StageOK, TextOK, TempOK, RaceOK, Knows, Written,
       Before, Ended, Checking, Synced, AfterSync
<1>7. next \in Place \ {"created", "replaced"} /\ j.temp # NoInode
  BY <1>1, Facts, <1>2 DEF Place, Checking
<1>8. UpdateTemp(t, new, next)
  BY DEF Sync, new, Synced, AfterSync
<1> QED BY <1>3, <1>6, <1>7, <1>8, UpdateIInv DEF to

LEMMA TemporaryIInv ==
  ASSUME IInv, NEW t \in Job, Temporary(t)
  PROVE  IInv'
<1> DEFINE j == job[t]
           new(i) == [To(t, "permissions") EXCEPT !.temp = i]
           f == [Fresh EXCEPT !.mode = "private"]
<1>1. j \in JobState /\ j.pc = "temporary" /\ JobOK(j, file, Input.ino)
  BY DEF IInv, TypeOK, JobInv, Temporary, At
<1>2. PICK i \in Inode : /\ Unused(i) /\ file' = [file EXCEPT ![i] = f]
                         /\ job' = [job EXCEPT ![t] = new(i)] /\ UNCHANGED <<entry, clock, edits>>
  BY DEF Temporary, NewFile
<1>3. /\ new(i) \in JobState /\ new(i).pc = "permissions" /\ new(i).temp = i
      /\ new(i).kind = j.kind /\ new(i).original = j.original /\ new(i).source = j.source
      /\ new(i).reduced = j.reduced /\ new(i).handle = j.handle /\ new(i).current = j.current
      /\ new(i).round = j.round /\ new(i).raced = j.raced /\ new(i).meta = j.meta
  BY <1>1 DEF To, JobState, Place
<1>4. /\ f \in FileState /\ f.owner = "self" /\ f.mode = "private" /\ f.links = 1
      /\ f.content = Torn /\ f.durable
  <2>1. 1 \in 0..(MaxEdits + 1) /\ 0 \in 0..MaxClock
    BY Facts
  <2> QED BY <2>1 DEF Fresh, FileState, Mode, Owner
<1> HIDE DEF new, f
<1>5. i \in Inode /\ i # NoInode /\ i \notin Named /\ \A u \in Job : job[u].temp # i
  BY <1>2, Facts DEF Unused, InUse, Named
<1>6. job'[t] = new(i) /\ job' = [job EXCEPT ![t] = job'[t]]
  BY <1>2 DEF IInv, TypeOK
<1>7. file'[i] = f /\ \A k \in Inode : k # i => file'[k] = file[k]
  BY <1>2, <1>5 DEF IInv, TypeOK
<1>8. JobOK(new(i), file', Input.ino)
  BY <1>1, <1>3, <1>4, <1>5, <1>7 DEF JobOK, StageOK, TextOK, TempOK, RaceOK, Knows, Written,
       Before, Ended, Checking
<1>9. TypeOK'
  <2>1. file' \in [Inode -> FileState]
    BY <1>2, <1>4, <1>5 DEF IInv, TypeOK, FileState
  <2>2. \A u \in Job \ {t} : job'[u] = job[u]
    BY <1>2 DEF IInv, TypeOK
  <2>3. job' \in [Job -> JobState]
    BY <1>2, <1>3 DEF IInv, TypeOK
  <2>4. \A u, v \in Job : job'[u].temp = job'[v].temp /\ job'[u].temp # NoInode => u = v
    BY <1>3, <1>5, <1>6, <2>2 DEF IInv, TypeOK
  <2> QED BY <1>2, <2>1, <2>3, <2>4 DEF IInv, TypeOK, FileState
<1>10. /\ job'[t].pc \notin {"created", "replaced"} /\ job'[t].temp \notin Named
       /\ {job'[t].handle, job'[t].current} \subseteq Named \cup {NoInode}
       /\ JobOK(job'[t], file', Input.ino)
       /\ \A k \in Inode : k # job'[t].temp => file'[k] = file[k]
  BY <1>3, <1>5, <1>6, <1>7, <1>8 DEF Named
<1> QED BY <1>2, <1>6, <1>9, <1>10, Local

LEMMA CreateIInv ==
  ASSUME IInv, NEW t \in Job, Create(t)
  PROVE  IInv'
<1> DEFINE j == job[t]
           new(i) == [To(t, "write") EXCEPT !.temp = i]
           f == [Fresh EXCEPT !.mode = "plain"]
<1>1. j \in JobState /\ j.pc = "create" /\ JobOK(j, file, Input.ino)
  BY DEF IInv, TypeOK, JobInv, Create, At
<1>2. PICK i \in Inode : /\ Unused(i) /\ file' = [file EXCEPT ![i] = f]
                         /\ job' = [job EXCEPT ![t] = new(i)] /\ UNCHANGED <<entry, clock, edits>>
  BY DEF Create, NewFile
<1>3. /\ new(i) \in JobState /\ new(i).pc = "write" /\ new(i).temp = i
      /\ new(i).kind = j.kind /\ new(i).original = j.original /\ new(i).source = j.source
      /\ new(i).reduced = j.reduced /\ new(i).handle = j.handle /\ new(i).current = j.current
      /\ new(i).round = j.round /\ new(i).raced = j.raced /\ new(i).meta = j.meta
  BY <1>1 DEF To, JobState, Place
<1>4. /\ f \in FileState /\ f.owner = "self" /\ f.mode = "plain" /\ f.links = 1
      /\ f.content = Torn /\ f.durable
  <2>1. 1 \in 0..(MaxEdits + 1) /\ 0 \in 0..MaxClock
    BY Facts
  <2> QED BY <2>1 DEF Fresh, FileState, Mode, Owner
<1> HIDE DEF new, f
<1>5. i \in Inode /\ i # NoInode /\ i \notin Named /\ \A u \in Job : job[u].temp # i
  BY <1>2, Facts DEF Unused, InUse, Named
<1>6. job'[t] = new(i) /\ job' = [job EXCEPT ![t] = job'[t]]
  BY <1>2 DEF IInv, TypeOK
<1>7. file'[i] = f /\ \A k \in Inode : k # i => file'[k] = file[k]
  BY <1>2, <1>5 DEF IInv, TypeOK
<1>8. JobOK(new(i), file', Input.ino)
  BY <1>1, <1>3, <1>4, <1>5, <1>7 DEF JobOK, StageOK, TextOK, TempOK, RaceOK, Knows, Written,
       Before, Ended, Checking
<1>9. TypeOK'
  <2>1. file' \in [Inode -> FileState]
    BY <1>2, <1>4, <1>5 DEF IInv, TypeOK, FileState
  <2>2. \A u \in Job \ {t} : job'[u] = job[u]
    BY <1>2 DEF IInv, TypeOK
  <2>3. job' \in [Job -> JobState]
    BY <1>2, <1>3 DEF IInv, TypeOK
  <2>4. \A u, v \in Job : job'[u].temp = job'[v].temp /\ job'[u].temp # NoInode => u = v
    BY <1>3, <1>5, <1>6, <2>2 DEF IInv, TypeOK
  <2> QED BY <1>2, <2>1, <2>3, <2>4 DEF IInv, TypeOK, FileState
<1>10. /\ job'[t].pc \notin {"created", "replaced"} /\ job'[t].temp \notin Named
       /\ {job'[t].handle, job'[t].current} \subseteq Named \cup {NoInode}
       /\ JobOK(job'[t], file', Input.ino)
       /\ \A k \in Inode : k # job'[t].temp => file'[k] = file[k]
  BY <1>3, <1>5, <1>6, <1>7, <1>8 DEF Named
<1> QED BY <1>2, <1>6, <1>9, <1>10, Local


-----------------------------------------------------------------------------
\* persist: the result takes the place of the input.
LEMMA PersistIInv ==
  ASSUME IInv, NEW t \in Job, Persist(t)
  PROVE  IInv'
<1> DEFINE j == job[t]
           new == EndOf(j, "replaced")
<1> USE DEF IInv
<1>1. j \in JobState /\ j.pc = "persist" /\ JobOK(j, file, Input.ino)
  BY DEF TypeOK, JobInv, Persist, At
<1>2. CASE Step(t, Failed(t))
  BY <1>1, <1>2, EndedIInv DEF Failed
<1>3. CASE /\ Rename(j.temp) /\ job' = [Raced EXCEPT ![t] = new] /\ UNCHANGED <<clock, edits>>
  <2>1. /\ j.temp \in Inode /\ j.temp \notin Named /\ file[j.temp].links = 1
        /\ j.kind.place = "in" /\ file[j.temp].content = j.reduced /\ file[j.temp].durable
        /\ j.source \in Content /\ j.reduced = Reduce[j.source]
    <3>1. j.temp # NoInode /\ Written(j) /\ Knows(j) /\ j.kind.place = "in"
      BY <1>1 DEF JobOK, StageOK, Written, Knows
    <3> QED BY <1>1, <3>1 DEF JobOK, TextOK, TempOK, JobState, FileInv
  <2>2. /\ new \in JobState /\ new.pc = "replaced" /\ new.handle = NoInode
        /\ new.current = NoInode /\ new.temp = NoInode /\ JobOK(new, file', Input.ino')
    BY <1>1, <2>1, EndIsOK
  <2> HIDE DEF new
  <2>3. /\ entry' = [entry EXCEPT !["in"] = [ino |-> j.temp, link |-> FALSE]]
        /\ file' = [i \in Inode |->
             IF i = j.temp THEN Touch(file[i])
             ELSE IF i = Input.ino /\ ~Input.link THEN Touch([file[i] EXCEPT !.links = @ - 1])
             ELSE file[i]]
    BY <1>3 DEF Rename
  <2>4. /\ Input' = [ino |-> j.temp, link |-> FALSE] /\ Input'.ino = j.temp
        /\ ~Input'.link /\ entry'["out"] = entry["out"]
        /\ Input.ino \in Inode \cup {NoInode} /\ Input.ino # j.temp
        /\ entry["out"].ino \in Inode \cup {NoInode} /\ entry["out"].ino # j.temp
        /\ entry' \in [{"in", "out"} -> [ino : Inode \cup {NoInode}, link : BOOLEAN]]
    BY <2>1, <2>3, Facts DEF TypeOK, Input, Named
  <2>5. /\ job' \in [Job -> JobState] /\ job'[t] = new
        /\ \A u \in Job \ {t} : job'[u] = Racing(job[u])
    <3>1. Raced \in [Job -> JobState] /\ \A u \in Job : Raced[u] = Racing(job[u])
      BY RacingIsOK DEF Raced, TypeOK, JobInv
    <3> QED BY <1>3, <2>2, <3>1
  <2>6. \A i \in Inode :
          /\ file[i] \in FileState /\ file'[i] \in FileState
          /\ file'[i].content = file[i].content /\ file'[i].durable = file[i].durable
          /\ file'[i].links <= file[i].links
          /\ i = j.temp => file'[i].links = 1
          /\ i \notin {j.temp, Input.ino} => file'[i] = file[i]
    <3> SUFFICES ASSUME NEW i \in Inode
                 PROVE  /\ file[i] \in FileState /\ file'[i] \in FileState
                        /\ file'[i].content = file[i].content /\ file'[i].durable = file[i].durable
                        /\ file'[i].links <= file[i].links
                        /\ i = j.temp => file'[i].links = 1
                        /\ i \notin {j.temp, Input.ino} => file'[i] = file[i]
      OBVIOUS
    <3>1. file[i] \in FileState /\ clock \in 0..MaxClock
      BY DEF TypeOK, FileState
    <3>2. CASE i = j.temp
      <4>1. file'[i] = Touch(file[i]) /\ file[i].links = 1
        BY <2>1, <2>3, <3>2
      <4> QED BY <2>4, <3>1, <3>2, <4>1 DEF Touch, FileState
    <3>3. CASE i # j.temp /\ i = Input.ino /\ ~Input.link
      <4>1. file[i].links \in 1..(MaxEdits + 1)
        BY <3>1, <3>3, Facts DEF FileState, FileInv
      <4>2. file'[i] = Touch([file[i] EXCEPT !.links = @ - 1])
        BY <2>3, <3>3
      <4>3. file[i].links - 1 \in 0..(MaxEdits + 1) /\ file[i].links - 1 <= file[i].links
        BY <4>1, Facts
      <4> QED BY <3>1, <3>3, <4>2, <4>3 DEF Touch, FileState
    <3>4. CASE i # j.temp /\ ~(i = Input.ino /\ ~Input.link)
      <4>1. file'[i] = file[i] /\ file[i].links \in Nat
        BY <2>3, <3>1, <3>4, Facts DEF FileState
      <4> QED BY <3>1, <3>4, <4>1
    <3> QED BY <3>2, <3>3, <3>4
  <2>7. \A u \in Job \ {t} :
          /\ JobOK(job'[u], file', Input.ino') /\ job'[u].pc = job[u].pc
          /\ job'[u].handle = job[u].handle /\ job'[u].current = job[u].current
          /\ job'[u].temp = job[u].temp /\ job'[u].reduced = job[u].reduced
    <3> SUFFICES ASSUME NEW u \in Job \ {t}
                 PROVE  /\ JobOK(job'[u], file', Input.ino') /\ job'[u].pc = job[u].pc
                        /\ job'[u].handle = job[u].handle /\ job'[u].current = job[u].current
                        /\ job'[u].temp = job[u].temp /\ job'[u].reduced = job[u].reduced
      OBVIOUS
    <3>1. job[u] \in JobState /\ JobOK(job[u], file, Input.ino)
      BY DEF TypeOK, JobInv
    <3>2. job[u].temp # NoInode =>
            job[u].temp \in Inode /\ job[u].temp # j.temp /\ job[u].temp # Input.ino
      BY <3>1 DEF TypeOK, FileInv, Named, Input, JobState
    <3>3. job[u].temp # NoInode => file'[job[u].temp] = file[job[u].temp]
      BY <2>6, <3>2
    <3>4. /\ JobOK(Racing(job[u]), file', Input.ino') /\ Racing(job[u]).pc = job[u].pc
          /\ Racing(job[u]).handle = job[u].handle /\ Racing(job[u]).current = job[u].current
          /\ Racing(job[u]).temp = job[u].temp /\ Racing(job[u]).reduced = job[u].reduced
      BY <3>1, <3>3, RacingIsOK
    <3> QED BY <2>5, <3>4
  <2>8. TypeOK'
    <3>1. file' \in [Inode -> FileState]
      BY <2>3, <2>6
    <3>2. \A u, v \in Job : job'[u].temp = job'[v].temp /\ job'[u].temp # NoInode => u = v
      BY <2>2, <2>5, <2>7 DEF TypeOK
    <3> QED BY <1>3, <2>4, <2>5, <3>1, <3>2 DEF TypeOK, FileState
  <2>9. JobInv'
    BY <2>2, <2>5, <2>7 DEF JobInv
  <2>10. FileInv'
    <3>1. Named' \subseteq Named \cup {j.temp} /\ Named \subseteq Inode
      <4>1. ASSUME NEW i \in Named'
            PROVE  i \in Named \cup {j.temp}
        <5>1. \/ i = j.temp \/ i = entry["out"].ino
              \/ \E u \in Job \ {t} : i = job[u].handle \/ i = job[u].current
          BY <2>2, <2>4, <2>5, <2>7, <4>1 DEF Named, Input
        <5>2. i # NoInode
          BY <4>1 DEF Named
        <5> QED BY <5>1, <5>2 DEF Named
      <4>2. Named \subseteq Inode
        BY DEF Named, TypeOK, JobState
      <4> QED BY <4>1, <4>2
    <3>2. ASSUME NEW i \in Named'
          PROVE  file'[i].durable /\ file'[i].content \in Content
      <4>1. i \in Inode /\ (i \in Named \/ i = j.temp)
        BY <2>1, <3>1, <3>2
      <4>2. j.reduced \in Content
        BY <2>1, Facts
      <4> QED BY <2>1, <2>6, <4>1, <4>2 DEF FileInv
    <3>3. \A u \in Job : job'[u].temp \notin Named'
      <4>1. \A u \in Job \ {t} : job[u].temp = NoInode \/ job[u].temp # j.temp
        BY DEF TypeOK
      <4>2. NoInode \notin Named'
        BY DEF Named
      <4> QED BY <2>2, <2>5, <2>7, <3>1, <4>1, <4>2 DEF FileInv
    <3>4. \A i \in Inode : file'[i].links <= edits' + 1
      BY <1>3, <2>6, Facts DEF FileInv, FileState, TypeOK
    <3>5. file'[Input'.ino].links >= 1
      BY <2>1, <2>4, <2>6
    <3> QED BY <2>4, <3>2, <3>3, <3>4, <3>5 DEF FileInv, Missing
  <2>11. CreatedInv'
    <3>1. entry["out"].ino # NoInode =>
            file'[entry["out"].ino].content = file[entry["out"].ino].content
      BY <2>4, <2>6
    <3> QED BY <2>2, <2>4, <2>5, <2>7, <3>1 DEF CreatedInv
  <2> QED BY <2>8, <2>9, <2>10, <2>11
<1> QED BY <1>2, <1>3 DEF Persist


\* persist_noclobber: the output gets its name.
LEMMA PublishIInv ==
  ASSUME IInv, NEW t \in Job, Publish(t)
  PROVE  IInv'
<1> DEFINE j == job[t]
           new == EndOf(j, "created")
<1> USE DEF IInv
<1>1. j \in JobState /\ j.pc = "publish" /\ JobOK(j, file, Input.ino)
  BY DEF TypeOK, JobInv, Publish, At
<1>2. CASE Step(t, Failed(t))
  BY <1>1, <1>2, EndedIInv DEF Failed
<1>3. CASE /\ NameFree /\ entry' = [entry EXCEPT !["out"] = [ino |-> j.temp, link |-> FALSE]]
           /\ job' = [job EXCEPT ![t] = new] /\ UNCHANGED <<file, clock, edits>>
  <2>1. /\ j.temp \in Inode /\ j.temp \notin Named
        /\ j.kind.place = "out" /\ file[j.temp].content = j.reduced /\ file[j.temp].durable
        /\ j.reduced \in Content /\ Knows(j)
    <3>1. j.temp # NoInode /\ Written(j) /\ Knows(j) /\ j.kind.place = "out"
      BY <1>1 DEF JobOK, StageOK, Written, Knows
    <3> QED BY <1>1, <3>1, Facts DEF JobOK, TextOK, TempOK, JobState, FileInv
  <2>2. /\ new \in JobState /\ new.pc = "created" /\ new.handle = NoInode /\ new.current = NoInode
        /\ new.temp = NoInode /\ new.reduced = j.reduced /\ JobOK(new, file, Input.ino)
    BY <1>1, <2>1, EndIsOK
  <2> HIDE DEF new
  <2>3. /\ entry["out"].ino = NoInode /\ Input' = Input /\ entry'["out"].ino = j.temp
        /\ Input.ino \in Inode \cup {NoInode} /\ j.temp # Input.ino /\ j.temp # NoInode
        /\ entry' \in [{"in", "out"} -> [ino : Inode \cup {NoInode}, link : BOOLEAN]]
    BY <1>3, <2>1, Facts DEF TypeOK, Input, Named, NameFree, Missing
  <2>4. /\ job' \in [Job -> JobState] /\ job'[t] = new /\ \A u \in Job \ {t} : job'[u] = job[u]
    BY <1>3, <2>2 DEF TypeOK
  <2>5. TypeOK'
    <3>1. \A u, v \in Job : job'[u].temp = job'[v].temp /\ job'[u].temp # NoInode => u = v
      BY <2>2, <2>4 DEF TypeOK
    <3> QED BY <1>3, <2>3, <2>4, <3>1 DEF TypeOK
  <2>6. JobInv'
    BY <1>3, <2>2, <2>3, <2>4 DEF JobInv
  <2>7. FileInv'
    <3>1. Named' \subseteq Named \cup {j.temp}
      <4>1. ASSUME NEW i \in Named'
            PROVE  i \in Named \cup {j.temp}
        <5>1. \/ i = j.temp \/ i = Input.ino
              \/ \E u \in Job \ {t} : i = job[u].handle \/ i = job[u].current
          BY <2>2, <2>3, <2>4, <4>1 DEF Named, Input
        <5>2. i # NoInode
          BY <4>1 DEF Named
        <5> QED BY <5>1, <5>2 DEF Named, Input
      <4> QED BY <4>1
    <3>2. \A i \in Named' : file[i].durable /\ file[i].content \in Content
      BY <2>1, <3>1 DEF FileInv
    <3>3. \A u \in Job : job'[u].temp \notin Named'
      <4>1. \A u \in Job \ {t} : job[u].temp = NoInode \/ job[u].temp # j.temp
        BY DEF TypeOK
      <4>2. NoInode \notin Named'
        BY DEF Named
      <4> QED BY <2>2, <2>4, <3>1, <4>1, <4>2 DEF FileInv
    <3> QED BY <1>3, <2>3, <3>2, <3>3 DEF FileInv
  <2>8. CreatedInv'
    <3>1. \A u \in Job : job[u].pc # "created"
      BY <2>3 DEF CreatedInv
    <3> QED BY <1>3, <2>1, <2>2, <2>3, <2>4, <3>1 DEF CreatedInv
  <2> QED BY <2>5, <2>6, <2>7, <2>8
<1> QED BY <1>2, <1>3 DEF Publish

-----------------------------------------------------------------------------
\* Somebody else changes the input: what its entry names is new or complete,
\* no temporary file is touched, and jobs past their last check are raced.
LEMMA RacedIInv ==
  ASSUME IInv, edits' = edits + 1, edits < MaxEdits, job' = Raced, UNCHANGED clock,
         file' \in [Inode -> FileState], entry'["out"] = entry["out"],
         entry' \in [{"in", "out"} -> [ino : Inode \cup {NoInode}, link : BOOLEAN]],
         Input'.ino \in Named \cup {NoInode} \/ Unused(Input'.ino),
         Input'.ino = NoInode \/ Input'.ino # entry["out"].ino,
         Input'.ino = NoInode => ~Input'.link,
         Input'.ino # NoInode =>
           /\ file'[Input'.ino].durable /\ file'[Input'.ino].content \in Content
           /\ ~Input'.link => file'[Input'.ino].links >= 1,
         \A i \in Inode \ {Input.ino, Input'.ino} : file'[i] = file[i],
         Input.ino # NoInode =>
           file'[Input.ino].durable /\ file'[Input.ino].content \in Content,
         \A i \in Inode : file'[i].links <= edits + 2
  PROVE  IInv'
<1> USE DEF IInv
<1>1. \A u \in Job : /\ job[u] \in JobState /\ JobOK(job[u], file, Input.ino)
                     /\ job[u].temp # NoInode =>
                          job[u].temp \in Inode /\ job[u].temp \notin {Input.ino, Input'.ino}
  <2>1. \A u \in Job : job[u] \in JobState /\ JobOK(job[u], file, Input.ino)
    BY DEF TypeOK, JobInv
  <2>2. ASSUME NEW u \in Job, job[u].temp # NoInode
        PROVE  job[u].temp \in Inode /\ job[u].temp \notin {Input.ino, Input'.ino}
    <3>1. job[u].temp \in Inode /\ job[u].temp \notin Named /\ job[u].temp \in InUse
      BY <2>1, <2>2 DEF FileInv, JobState, InUse
    <3> QED BY <2>2, <3>1 DEF Named, Input, Unused
  <2> QED BY <2>1, <2>2
<1>2. ASSUME NEW u \in Job
      PROVE  /\ job'[u] \in JobState /\ JobOK(job'[u], file', Input.ino')
             /\ job'[u].pc = job[u].pc /\ job'[u].handle = job[u].handle
             /\ job'[u].current = job[u].current /\ job'[u].temp = job[u].temp
             /\ job'[u].reduced = job[u].reduced
  <2>1. job[u].temp # NoInode => file'[job[u].temp] = file[job[u].temp]
    BY <1>1
  <2>2. /\ Racing(job[u]) \in JobState /\ JobOK(Racing(job[u]), file', Input.ino')
        /\ Racing(job[u]).pc = job[u].pc /\ Racing(job[u]).handle = job[u].handle
        /\ Racing(job[u]).current = job[u].current /\ Racing(job[u]).temp = job[u].temp
        /\ Racing(job[u]).reduced = job[u].reduced
    BY <1>1, <2>1, RacingIsOK
  <2>3. job'[u] = Racing(job[u])
    BY DEF Raced
  <2> QED BY <2>2, <2>3
<1>3. TypeOK'
  <2>1. job' \in [Job -> JobState]
    BY <1>2 DEF Raced
  <2>2. edits' \in 0..MaxEdits
    BY Facts DEF TypeOK
  <2> QED BY <1>2, <2>1, <2>2 DEF TypeOK, FileState
<1>4. JobInv'
  BY <1>2 DEF JobInv
<1>5. Named' \subseteq Named \cup {Input'.ino}
  BY <1>2 DEF Named, Input
<1>6. Named \subseteq Inode
  BY DEF Named, TypeOK, JobState
<1>7. FileInv'
  <2>1. ASSUME NEW i \in Named'
        PROVE  file'[i].durable /\ file'[i].content \in Content
    <3>1. i # NoInode /\ (i \in Named \/ i = Input'.ino)
      BY <1>5, <2>1 DEF Named
    <3> QED BY <1>6, <3>1 DEF FileInv
  <2>2. \A u \in Job : job'[u].temp \notin Named'
    <3>1. NoInode \notin Named'
      BY DEF Named
    <3> QED BY <1>1, <1>2, <1>5, <3>1 DEF FileInv
  <2>3. \A i \in Inode : file'[i].links <= edits' + 1
    BY Facts DEF TypeOK, FileState
  <2> QED BY <2>1, <2>2, <2>3 DEF FileInv, Missing
<1>8. CreatedInv'
  <2>1. entry["out"].ino \in Inode \cup {NoInode}
    BY DEF TypeOK
  <2>2. entry["out"].ino # NoInode => file'[entry["out"].ino] = file[entry["out"].ino]
    BY <2>1 DEF FileInv
  <2> QED BY <1>2, <2>2 DEF CreatedInv
<1> QED BY <1>3, <1>4, <1>7, <1>8


\* An edit that changes the inode that the input's entry names.
LEMMA EditIInv ==
  ASSUME IInv, Edit, NEW f \in FileState, file' = [file EXCEPT ![Input.ino] = f],
         f.durable, f.content \in Content, f.links <= edits + 2,
         entry'["out"] = entry["out"],
         entry' \in [{"in", "out"} -> [ino : Inode \cup {NoInode}, link : BOOLEAN]],
         \/ Input'.ino = Input.ino /\ (~Input'.link => f.links >= 1)
         \/ Input' = Missing
  PROVE  IInv'
<1> USE DEF IInv
<1>1. Input.ino \in Inode /\ Input.ino \in Named /\ Input.ino # NoInode
  BY DEF Edit, TypeOK, Named, Input
<1>2. edits < MaxEdits /\ edits' = edits + 1 /\ job' = Raced /\ UNCHANGED clock
  BY Facts DEF Edit, EditBound, TypeOK
<1>3. /\ file' \in [Inode -> FileState] /\ file'[Input.ino] = f
      /\ \A i \in Inode \ {Input.ino} : file'[i] = file[i]
  BY <1>1 DEF TypeOK, FileState
<1>4. \A i \in Inode : file'[i].links <= edits + 2
  <2>1. \A i \in Inode : file[i].links <= edits + 2
    BY Facts DEF FileInv, TypeOK, FileState
  <2> QED BY <1>3, <2>1
<1>5. /\ Input'.ino \in Named \cup {NoInode}
      /\ Input'.ino = NoInode \/ Input'.ino # entry["out"].ino
      /\ Input'.ino = NoInode => ~Input'.link
      /\ Input'.ino # NoInode =>
           /\ file'[Input'.ino].durable /\ file'[Input'.ino].content \in Content
           /\ ~Input'.link => file'[Input'.ino].links >= 1
  BY <1>1, <1>3 DEF FileInv, Missing
<1> QED BY <1>2, <1>3, <1>4, <1>5, RacedIInv

LEMMA InputFacts ==
  ASSUME IInv, Edit
  PROVE  /\ Input.ino \in Inode /\ file[Input.ino] \in FileState
         /\ file[Input.ino].durable /\ file[Input.ino].content \in Content
         /\ file[Input.ino].links \in Nat /\ file[Input.ino].links <= edits + 1
         /\ ~Input.link => file[Input.ino].links >= 1
         /\ edits \in Nat /\ edits < MaxEdits /\ clock \in 0..MaxClock
<1> USE DEF IInv
<1>1. Input.ino \in Inode /\ Input.ino \in Named
  BY DEF Edit, TypeOK, Named, Input
<1>2. file[Input.ino] \in FileState
  BY <1>1 DEF TypeOK, FileState
<1>3. edits \in Nat /\ edits < MaxEdits /\ clock \in 0..MaxClock
  BY Facts DEF Edit, EditBound, TypeOK
<1>4. file[Input.ino].links \in Nat
  BY <1>2, Facts DEF FileState
<1> QED BY <1>1, <1>2, <1>3, <1>4 DEF FileInv, Edit

LEMMA EditTextIInv ==
  ASSUME IInv, EditText
  PROVE  IInv'
<1> DEFINE old == file[Input.ino]
<1>1. Edit
  BY DEF EditText
<1>2. PICK c \in Content : UpdateInput([old EXCEPT !.content = c])
  BY DEF EditText
<1> DEFINE new == Touch([old EXCEPT !.content = c])
<1>3. /\ new \in FileState /\ new.content = c /\ new.durable = old.durable
      /\ new.links = old.links
  <2>1. /\ old \in FileState /\ clock \in 0..MaxClock /\ old.links \in 0..(MaxEdits + 1)
    BY <1>1, InputFacts, Facts
  <2> HIDE DEF old
  <2> QED BY <2>1, <1>2 DEF Touch, FileState, Mode
<1>4. /\ file' = [file EXCEPT ![Input.ino] = new]
      /\ Input' = Input
      /\ entry'["out"] = entry["out"]
      /\ entry' \in [{"in", "out"} -> [ino : Inode \cup {NoInode}, link : BOOLEAN]]
  BY <1>1, <1>2 DEF EditText, UpdateInput, Input, IInv, TypeOK, Missing
<1> HIDE DEF new
<1>5. new.durable /\ new.content \in Content /\ new.links <= edits + 2
  BY <1>1, <1>2, <1>3, InputFacts, Facts
<1>6. \/ Input'.ino = Input.ino /\ (~Input'.link => new.links >= 1)
      \/ Input' = Missing
  BY <1>1, <1>3, <1>4, InputFacts
<1> QED BY <1>1, <1>3, <1>4, <1>5, <1>6, EditIInv

LEMMA EditModeIInv ==
  ASSUME IInv, EditMode
  PROVE  IInv'
<1> DEFINE old == file[Input.ino]
<1>1. Edit
  BY DEF EditMode
<1>2. PICK m \in Mode : UpdateInput([old EXCEPT !.mode = m])
  BY DEF EditMode
<1> DEFINE new == Touch([old EXCEPT !.mode = m])
<1>3. /\ new \in FileState /\ new.content = old.content /\ new.durable = old.durable
      /\ new.links = old.links
  <2>1. /\ old \in FileState /\ clock \in 0..MaxClock /\ old.links \in 0..(MaxEdits + 1)
    BY <1>1, InputFacts, Facts
  <2> HIDE DEF old
  <2> QED BY <2>1, <1>2 DEF Touch, FileState, Mode
<1>4. /\ file' = [file EXCEPT ![Input.ino] = new]
      /\ Input' = Input
      /\ entry'["out"] = entry["out"]
      /\ entry' \in [{"in", "out"} -> [ino : Inode \cup {NoInode}, link : BOOLEAN]]
  BY <1>1, <1>2 DEF EditMode, UpdateInput, Input, IInv, TypeOK, Missing
<1> HIDE DEF new
<1>5. new.durable /\ new.content \in Content /\ new.links <= edits + 2
  BY <1>1, <1>2, <1>3, InputFacts, Facts
<1>6. \/ Input'.ino = Input.ino /\ (~Input'.link => new.links >= 1)
      \/ Input' = Missing
  BY <1>1, <1>3, <1>4, InputFacts
<1> QED BY <1>1, <1>3, <1>4, <1>5, <1>6, EditIInv

LEMMA HardLinkIInv ==
  ASSUME IInv, HardLink
  PROVE  IInv'
<1> DEFINE old == file[Input.ino]
<1>1. Edit
  BY DEF HardLink
<1> DEFINE new == Touch([old EXCEPT !.links = @ + 1])
<1>2. /\ new \in FileState /\ new.content = old.content /\ new.durable = old.durable
      /\ new.links = old.links + 1
  <2>1. /\ old \in FileState /\ clock \in 0..MaxClock /\ old.links + 1 \in 0..(MaxEdits + 1)
    BY <1>1, InputFacts, Facts
  <2> HIDE DEF old
  <2> QED BY <2>1 DEF Touch, FileState, Mode
<1>3. /\ file' = [file EXCEPT ![Input.ino] = new]
      /\ Input' = Input
      /\ entry'["out"] = entry["out"]
      /\ entry' \in [{"in", "out"} -> [ino : Inode \cup {NoInode}, link : BOOLEAN]]
  BY <1>1 DEF HardLink, UpdateInput, Input, IInv, TypeOK, Missing
<1> HIDE DEF new
<1>4. new.durable /\ new.content \in Content /\ new.links <= edits + 2
  BY <1>1, <1>2, InputFacts, Facts
<1>5. \/ Input'.ino = Input.ino /\ (~Input'.link => new.links >= 1)
      \/ Input' = Missing
  BY <1>1, <1>2, <1>3, InputFacts
<1> QED BY <1>1, <1>2, <1>3, <1>4, <1>5, EditIInv

LEMMA SymbolicLinkIInv ==
  ASSUME IInv, SymbolicLink
  PROVE  IInv'
<1> DEFINE old == file[Input.ino]
<1>1. Edit
  BY DEF SymbolicLink
<1> DEFINE new == Touch(old)
<1>2. /\ new \in FileState /\ new.content = old.content /\ new.durable = old.durable
      /\ new.links = old.links
  <2>1. /\ old \in FileState /\ clock \in 0..MaxClock /\ old.links \in 0..(MaxEdits + 1)
    BY <1>1, InputFacts, Facts
  <2> HIDE DEF old
  <2> QED BY <2>1 DEF Touch, FileState, Mode
<1>3. /\ file' = [file EXCEPT ![Input.ino] = new]
      /\ Input'.ino = Input.ino /\ Input'.link
      /\ entry'["out"] = entry["out"]
      /\ entry' \in [{"in", "out"} -> [ino : Inode \cup {NoInode}, link : BOOLEAN]]
  BY <1>1 DEF SymbolicLink, UpdateInput, Input, IInv, TypeOK, Missing
<1> HIDE DEF new
<1>4. new.durable /\ new.content \in Content /\ new.links <= edits + 2
  BY <1>1, <1>2, InputFacts, Facts
<1>5. \/ Input'.ino = Input.ino /\ (~Input'.link => new.links >= 1)
      \/ Input' = Missing
  BY <1>1, <1>2, <1>3, InputFacts
<1> QED BY <1>1, <1>2, <1>3, <1>4, <1>5, EditIInv

LEMMA DeleteIInv ==
  ASSUME IInv, Delete
  PROVE  IInv'
<1> DEFINE old == file[Input.ino]
           less == Touch([old EXCEPT !.links = @ - 1])
           new == IF Input.link THEN old ELSE less
<1>1. Edit
  BY DEF Delete
<1>2. /\ new \in FileState /\ new.content = old.content /\ new.durable = old.durable
      /\ new.links <= old.links
  <2>1. /\ old \in FileState /\ old.links \in Nat /\ clock \in 0..MaxClock
        /\ ~Input.link => old.links - 1 \in 0..(MaxEdits + 1)
    BY <1>1, InputFacts, Facts
  <2> HIDE DEF old
  <2>2. CASE Input.link
    BY <2>1, <2>2
  <2>3. CASE ~Input.link
    <3>1. less \in FileState /\ less.content = old.content /\ less.durable = old.durable
      BY <2>1, <2>3 DEF Touch, FileState
    <3>2. less.links = old.links - 1
      BY <2>1 DEF Touch, FileState
    <3> HIDE DEF less
    <3> QED BY <2>1, <2>3, <3>1, <3>2
  <2> QED BY <2>2, <2>3
<1>3. file' = [file EXCEPT ![Input.ino] = new]
  <2>1. CASE Input.link
    BY <1>1, <2>1, InputFacts DEF Delete, IInv, TypeOK
  <2>2. CASE ~Input.link
    <3>1. file' = [file EXCEPT ![Input.ino] = less]
      BY <2>2 DEF Delete, Touch
    <3> HIDE DEF less
    <3> QED BY <2>2, <3>1
  <2> QED BY <2>1, <2>2
<1>4. /\ Input' = Missing /\ entry'["out"] = entry["out"]
      /\ entry' \in [{"in", "out"} -> [ino : Inode \cup {NoInode}, link : BOOLEAN]]
  BY DEF Delete, Input, IInv, TypeOK, Missing
<1>5. new.durable /\ new.content \in Content /\ new.links <= edits + 2
  <2>1. new.links \in Nat
    BY <1>2, Facts DEF FileState
  <2> HIDE DEF new
  <2> QED BY <1>1, <1>2, <2>1, InputFacts
<1> HIDE DEF new
<1> QED BY <1>1, <1>2, <1>3, <1>4, <1>5, EditIInv

LEMMA SaveAsIInv ==
  ASSUME IInv, SaveAs
  PROVE  IInv'
<1> USE DEF IInv
<1>1. PICK i \in Inode, c \in Content :
        /\ Unused(i)
        /\ entry' = [entry EXCEPT !["in"] = [ino |-> i, link |-> FALSE]]
        /\ file' = [j \in Inode |->
             IF j = i THEN Touch([Fresh EXCEPT !.content = c])
             ELSE IF j = Input.ino /\ ~Input.link THEN Touch([file[j] EXCEPT !.links = @ - 1])
             ELSE file[j]]
  BY DEF SaveAs
<1>2. edits < MaxEdits /\ edits' = edits + 1 /\ job' = Raced /\ UNCHANGED clock
  BY Facts DEF SaveAs, EditBound, TypeOK
<1>3. /\ i \notin InUse /\ i # NoInode /\ i # Input.ino /\ i # entry["out"].ino
  BY <1>1, Facts DEF Unused, InUse, Input
<1>4. /\ Input' = [ino |-> i, link |-> FALSE] /\ entry'["out"] = entry["out"]
      /\ entry' \in [{"in", "out"} -> [ino : Inode \cup {NoInode}, link : BOOLEAN]]
  BY <1>1 DEF TypeOK, Input
<1>5. /\ clock \in 0..MaxClock /\ edits \in Nat /\ Input.ino \in Inode \cup {NoInode}
      /\ \A j \in Inode : file[j] \in FileState /\ file[j].links \in Nat /\ file[j].links <= edits + 1
  BY Facts DEF TypeOK, FileState, FileInv, Input
<1>6. /\ file'[i] \in FileState /\ file'[i].durable /\ file'[i].content = c /\ file'[i].links = 1
  <2>1. file'[i] = Touch([Fresh EXCEPT !.content = c])
    BY <1>1
  <2>2. 1 \in 0..(MaxEdits + 1) /\ 0 \in 0..MaxClock
    BY Facts
  <2> QED BY <1>5, <2>1, <2>2 DEF Touch, Fresh, FileState, Mode, Owner
<1>7. \A j \in Inode \ {i} :
        /\ file'[j] \in FileState /\ file'[j].durable = file[j].durable
        /\ file'[j].content = file[j].content /\ file'[j].links <= edits + 1
        /\ j # Input.ino => file'[j] = file[j]
  <2> SUFFICES ASSUME NEW j \in Inode \ {i}
               PROVE  /\ file'[j] \in FileState /\ file'[j].durable = file[j].durable
                      /\ file'[j].content = file[j].content /\ file'[j].links <= edits + 1
                      /\ j # Input.ino => file'[j] = file[j]
    OBVIOUS
  <2>1. CASE j = Input.ino /\ ~Input.link
    <3>1. file'[j] = Touch([file[j] EXCEPT !.links = @ - 1])
      BY <1>1, <2>1
    <3>2. file[j].links - 1 \in 0..(MaxEdits + 1) /\ file[j].links - 1 <= edits + 1
      <4>1. file[j].links >= 1
        BY <2>1, Facts DEF FileInv
      <4>2. file[j].links \in Nat /\ file[j].links <= edits + 1
        BY <1>5
      <4> QED BY <1>2, <1>5, <4>1, <4>2, Facts
    <3> QED BY <1>5, <2>1, <3>1, <3>2 DEF Touch, FileState
  <2>2. CASE ~(j = Input.ino /\ ~Input.link)
    <3>1. file'[j] = file[j]
      BY <1>1, <2>2
    <3> QED BY <1>5, <3>1
  <2> QED BY <2>1, <2>2
<1>8. \A j \in Inode : file'[j] \in FileState /\ file'[j].links \in Nat /\ file'[j].links <= edits + 2
  <2>1. \A j \in Inode : file'[j] \in FileState
    BY <1>6, <1>7
  <2>2. \A j \in Inode : file'[j].links \in Nat
    BY <2>1, Facts DEF FileState
  <2> QED BY <1>5, <1>6, <1>7, <2>1, <2>2
<1>9. file' \in [Inode -> FileState]
  BY <1>1, <1>8
<1>10. Input.ino # NoInode => file'[Input.ino].durable /\ file'[Input.ino].content \in Content
  <2>1. Input.ino # NoInode => Input.ino \in Named
    BY DEF Named, Input
  <2> QED BY <1>3, <1>5, <1>7, <2>1 DEF FileInv
<1>11. Input'.ino = i /\ ~Input'.link
  BY <1>4
<1>12. \A j \in Inode \ {Input.ino, i} : file'[j] = file[j]
  BY <1>7
<1>13. file'[i].links >= 1
  BY <1>6
<1> QED BY <1>1, <1>2, <1>3, <1>4, <1>6, <1>8, <1>9, <1>10, <1>11, <1>12, <1>13, RacedIInv

\* Whoever is at work dies, and what was not written through is lost.
LEMMA PowerLossIInv ==
  ASSUME IInv, PowerLoss
  PROVE  IInv'
<1> USE DEF IInv
<1>1. /\ job' = [t \in Job |-> IF job[t].pc \in Ended THEN job[t] ELSE EndOf(job[t], "killed")]
      /\ file' = [i \in Inode |-> IF file[i].durable THEN file[i]
                                  ELSE [file[i] EXCEPT !.content = Torn, !.durable = TRUE]]
      /\ UNCHANGED <<entry, clock, edits>> /\ Input' = Input
  BY DEF PowerLoss, Input
<1>2. \A i \in Inode :
        /\ file'[i] \in FileState /\ file'[i].links = file[i].links
        /\ file[i].durable => file'[i] = file[i]
  <2> SUFFICES ASSUME NEW i \in Inode
               PROVE  /\ file'[i] \in FileState /\ file'[i].links = file[i].links
                      /\ file[i].durable => file'[i] = file[i]
    OBVIOUS
  <2>1. file[i] \in FileState
    BY DEF TypeOK, FileState
  <2>2. file'[i] = IF file[i].durable THEN file[i]
                   ELSE [file[i] EXCEPT !.content = Torn, !.durable = TRUE]
    BY <1>1
  <2> QED BY <2>1, <2>2 DEF FileState
<1>3. ASSUME NEW u \in Job
      PROVE  /\ job'[u] \in JobState /\ JobOK(job'[u], file', Input.ino)
             /\ job'[u].temp \in {job[u].temp, NoInode}
             /\ {job'[u].handle, job'[u].current} \subseteq {job[u].handle, job[u].current, NoInode}
             /\ job'[u].reduced = job[u].reduced
             /\ job'[u].pc # "killed" => job'[u].pc = job[u].pc
  <2>1. job[u] \in JobState /\ JobOK(job[u], file, Input.ino)
    BY DEF TypeOK, JobInv
  <2>2. job[u].temp # NoInode =>
          job[u].temp \in Inode /\ file'[job[u].temp].links = file[job[u].temp].links
    BY <1>2, <2>1 DEF JobState
  <2>3. CASE job[u].pc \in Ended
    <3>1. job'[u] = job[u]
      BY <1>1, <2>3
    <3>2. JobOK(job[u], file', Input.ino)
      BY <2>1, <2>2, <2>3 DEF JobOK, TempOK, RaceOK, Written, Ended, Checking
    <3> QED BY <2>1, <3>1, <3>2
  <2>4. CASE job[u].pc \notin Ended
    <3>1. job'[u] = EndOf(job[u], "killed") /\ job[u].pc # "absent"
      BY <1>1, <2>4 DEF Ended
    <3>2. /\ EndOf(job[u], "killed") \in JobState /\ JobOK(EndOf(job[u], "killed"), file', Input.ino)
          /\ EndOf(job[u], "killed").pc = "killed" /\ EndOf(job[u], "killed").handle = NoInode
          /\ EndOf(job[u], "killed").current = NoInode
          /\ EndOf(job[u], "killed").temp \in {job[u].temp, NoInode}
          /\ EndOf(job[u], "killed").reduced = job[u].reduced
      BY <2>1, <2>2, <3>1, EndIsOK
    <3> QED BY <3>1, <3>2
  <2> QED BY <2>3, <2>4
<1>4. TypeOK'
  <2>1. file' \in [Inode -> FileState] /\ job' \in [Job -> JobState]
    BY <1>1, <1>2, <1>3
  <2>2. \A u, v \in Job : job'[u].temp = job'[v].temp /\ job'[u].temp # NoInode => u = v
    BY <1>3 DEF TypeOK
  <2> QED BY <1>1, <2>1, <2>2 DEF TypeOK, FileState
<1>5. JobInv'
  BY <1>1, <1>3 DEF JobInv
<1>6. Named' \subseteq Named /\ Named \subseteq Inode
  <2>1. ASSUME NEW i \in Named'
        PROVE  i \in Named
    <3>1. i # NoInode /\ ((\E p \in {"in", "out"} : i = entry[p].ino)
                          \/ \E u \in Job : i \in {job'[u].handle, job'[u].current})
      BY <1>1, <2>1 DEF Named
    <3>2. (\E p \in {"in", "out"} : i = entry[p].ino)
            \/ \E u \in Job : i \in {job[u].handle, job[u].current}
      BY <1>3, <3>1
    <3> QED BY <3>1, <3>2 DEF Named
  <2>2. Named \subseteq Inode
    BY DEF Named, TypeOK, JobState
  <2> QED BY <2>1, <2>2
<1>7. \A i \in Named : file'[i] = file[i]
  BY <1>2, <1>6 DEF FileInv
<1>8. /\ Input.ino # NoInode => Input.ino \in Named
      /\ entry["out"].ino # NoInode => entry["out"].ino \in Named
  BY DEF Named, Input
<1>9. FileInv'
  <2>1. \A u \in Job : job'[u].temp \notin Named'
    <3>1. NoInode \notin Named
      BY DEF Named
    <3> QED BY <1>3, <1>6, <3>1 DEF FileInv
  <2> QED BY <1>1, <1>2, <1>6, <1>7, <1>8, <2>1 DEF FileInv
<1>10. CreatedInv'
  <2>1. \A u \in Job : job'[u].pc = "created" =>
          job[u].pc = "created" /\ job'[u].reduced = job[u].reduced
    BY <1>3
  <2>2. entry["out"].ino # NoInode => file'[entry["out"].ino] = file[entry["out"].ino]
    BY <1>7, <1>8
  <2> QED BY <1>1, <2>1, <2>2 DEF CreatedInv
<1> QED BY <1>4, <1>5, <1>9, <1>10

LEMMA TickIInv ==
  ASSUME IInv, Tick
  PROVE  IInv'
<1> USE DEF IInv
<1>1. clock' \in 0..MaxClock /\ UNCHANGED <<entry, file, edits, job>>
  BY Facts DEF Tick, TypeOK
<1> QED BY <1>1 DEF TypeOK, JobInv, FileInv, Named, CreatedInv, Input

-----------------------------------------------------------------------------
LEMMA InitIInv ==
  ASSUME Init
  PROVE  IInv
<1>1. PICK k \in Starts : job = [t \in Job |-> NewJob(k[t])]
  BY DEF Init
<1>2. k \in [Job -> Kind]
  BY FileAssumption DEF Kind
<1>3. PICK i \in Inode, c \in Content, m \in Mode, o \in Owner :
        /\ \A j \in Inode : i <= j
        /\ entry = [in |-> [ino |-> i, link |-> FALSE], out |-> Missing]
        /\ file = [j \in Inode |->
             IF j = i THEN [Fresh EXCEPT !.content = c, !.mode = m, !.owner = o] ELSE Fresh]
  BY DEF Init
<1>4. clock = 0 /\ edits = 0 /\ i # NoInode
  BY Facts DEF Init
<1>5. /\ Input.ino = i /\ ~Input.link /\ entry["out"] = Missing /\ entry["out"].ino = NoInode
      /\ entry \in [{"in", "out"} -> [ino : Inode \cup {NoInode}, link : BOOLEAN]]
      /\ \A p \in {"in", "out"} : entry[p].ino \in {i, NoInode}
  <2>1. entry["in"] = [ino |-> i, link |-> FALSE] /\ entry["out"] = Missing
    BY <1>3
  <2>2. entry \in [{"in", "out"} -> [ino : Inode \cup {NoInode}, link : BOOLEAN]]
    <3>1. DOMAIN entry = {"in", "out"} /\ entry = [p \in DOMAIN entry |-> entry[p]]
      BY <1>3
    <3>2. \A p \in {"in", "out"} : entry[p] \in [ino : Inode \cup {NoInode}, link : BOOLEAN]
      <4>1. /\ [ino |-> i, link |-> FALSE] \in [ino : Inode \cup {NoInode}, link : BOOLEAN]
            /\ Missing \in [ino : Inode \cup {NoInode}, link : BOOLEAN]
        BY DEF Missing
      <4> QED BY <2>1, <4>1
    <3> QED BY <3>1, <3>2
  <2> QED BY <2>1, <2>2 DEF Input, Missing
<1>6. /\ file \in [Inode -> FileState] /\ file[i].content = c /\ file[i].durable
      /\ \A j \in Inode : file[j].links = 1
  <2>1. 1 \in 0..(MaxEdits + 1) /\ 0 \in 0..MaxClock
    BY Facts
  <2>2. /\ Fresh \in FileState /\ Fresh.links = 1
        /\ [Fresh EXCEPT !.content = c, !.mode = m, !.owner = o] \in FileState
        /\ [Fresh EXCEPT !.content = c, !.mode = m, !.owner = o].content = c
        /\ [Fresh EXCEPT !.content = c, !.mode = m, !.owner = o].durable
        /\ [Fresh EXCEPT !.content = c, !.mode = m, !.owner = o].links = 1
    BY <2>1 DEF Fresh, FileState, Mode, Owner
  <2> QED BY <1>3, <2>2
<1>7. ASSUME NEW t \in Job
      PROVE  /\ job[t] \in JobState /\ job[t].handle = NoInode /\ job[t].current = NoInode
             /\ job[t].temp = NoInode /\ job[t].pc \in {"absent", "copy", "stat"}
             /\ JobOK(job[t], file, Input.ino)
  <2>1. job[t] = NewJob(k[t]) /\ k[t] \in Kind
    BY <1>1, <1>2
  <2>2. 0 \in 0..(MaxEdits + 1) /\ 0 \in 0..MaxClock
    BY Facts
  <2>3. /\ job[t] \in JobState /\ job[t].handle = NoInode /\ job[t].current = NoInode
        /\ job[t].temp = NoInode /\ job[t].round = 1 /\ job[t].kind = k[t]
        /\ job[t].pc = IF k[t].place = "none" THEN "absent"
                       ELSE IF k[t].container THEN "copy" ELSE "stat"
    BY <2>1, <2>2 DEF NewJob, JobState, Place, Ended, Meta, Mode, Owner
  <2>4. JobOK(job[t], file, Input.ino)
    BY <2>1, <2>3 DEF JobOK, StageOK, TextOK, TempOK, RaceOK, Knows, Written, Before, Ended,
         Checking, Kind
  <2> QED BY <2>3, <2>4
<1>8. TypeOK
  <2>1. job \in [Job -> JobState]
    BY <1>1, <1>7
  <2> QED BY <1>4, <1>5, <1>6, <1>7, <2>1, Facts DEF TypeOK, FileState
<1>9. FileInv
  <2>1. Named \subseteq {i}
    BY <1>5, <1>7 DEF Named
  <2>2. NoInode \notin Named
    BY DEF Named
  <2> QED BY <1>4, <1>5, <1>6, <1>7, <2>1, <2>2 DEF FileInv
<1> QED BY <1>7, <1>8, <1>9 DEF IInv, JobInv, CreatedInv

LEMMA KillIInv ==
  ASSUME IInv, NEW t \in Job, Kill(t)
  PROVE  IInv'
BY EndedIInv DEF Kill, Ended

LEMMA JobStepIInv ==
  ASSUME IInv, NEW t \in Job, JobStep(t)
  PROVE  IInv'
<1>1. CASE Copy(t) \/ Stat(t) \/ Open(t) \/ Read(t) \/ Check(t) \/ CheckOpen(t) \/ CheckRead(t)
           \/ CheckAgain(t) \/ ReadOnce(t) \/ Analyze(t) \/ Compare(t)
  <2>1. ASSUME At(t, "stat"), Step(t, Failed(t))
        PROVE  IInv'
    BY <2>1, EndedIInv DEF At, Failed
  <2> QED BY <1>1, <2>1, CopyIInv, StatIInv, OpenIInv, ReadIInv, CheckIInv, CheckOpenIInv,
             CheckReadIInv, CheckAgainIInv, ReadOnceIInv, AnalyzeIInv, CompareIInv
<1>2. CASE Temporary(t) \/ Create(t) \/ PreparePermissions(t) \/ Truncate(t) \/ Write(t)
           \/ SetPermissions(t) \/ Sync(t) \/ Persist(t) \/ Publish(t)
  BY <1>2, TemporaryIInv, CreateIInv, PreparePermissionsIInv, TruncateIInv, WriteIInv,
     SetPermissionsIInv, SyncIInv, PersistIInv, PublishIInv
<1> QED BY <1>1, <1>2 DEF JobStep

LEMMA NextIInv ==
  ASSUME IInv, [Next]_vars
  PROVE  IInv'
<1>1. CASE Others
  BY <1>1, KillIInv, PowerLossIInv, EditTextIInv, EditModeIInv, HardLinkIInv, SymbolicLinkIInv,
     SaveAsIInv, DeleteIInv, TickIInv DEF Others
<1>2. CASE \E t \in Job : JobStep(t)
  BY <1>2, JobStepIInv
<1>3. CASE UNCHANGED vars
  BY <1>3 DEF IInv, TypeOK, JobInv, FileInv, Named, CreatedInv, Input, vars
<1> QED BY <1>1, <1>2, <1>3 DEF Next

LEMMA Inductive == Spec => []IInv
<1>1. Init => IInv
  BY InitIInv
<1>2. IInv /\ [Next]_vars => IInv'
  BY NextIInv
<1> QED BY <1>1, <1>2, PTL DEF Spec

-----------------------------------------------------------------------------
\* Inodes, entries and jobs stay in their domains, and no two jobs share a
\* temporary file.
THEOREM TypeCorrect == Spec => []TypeOK
<1>1. IInv => TypeOK
  BY DEF IInv
<1> QED BY <1>1, Inductive, PTL

\* SourceFile::replace, create_output: neither path ever names an incomplete
\* text, whoever is killed and whenever the power fails: a file gets its name
\* after it has been written and synced, and nobody writes a named file in
\* place.
THEOREM PathsAreComplete == Spec => []NeverTorn
<1>1. IInv => NeverTorn
  <2> SUFFICES ASSUME IInv, NEW p \in {"in", "out"}, entry[p].ino # NoInode
               PROVE  file[entry[p].ino].content # Torn
    BY DEF NeverTorn
  <2>1. entry[p].ino \in Named
    BY DEF Named
  <2> QED BY <2>1, Facts DEF IInv, FileInv
<1> QED BY <1>1, Inductive, PTL

\* A job changes no other job, but for the history that its rename leaves.
LEMMA OtherJobs ==
  ASSUME IInv, NEW u \in Job, JobStep(u), NEW t \in Job \ {u}
  PROVE  job'[t] = job[t] \/ job'[t] = Racing(job[t])
<1>1. ASSUME NEW new, Step(u, new)
      PROVE  job'[t] = job[t]
  BY <1>1 DEF Step, IInv, TypeOK
<1>2. ASSUME NEW new, job' = [job EXCEPT ![u] = new]
      PROVE  job'[t] = job[t]
  BY <1>2 DEF IInv, TypeOK
<1>3. CASE Copy(u) \/ Stat(u) \/ Open(u) \/ Read(u) \/ Check(u) \/ CheckOpen(u)
  BY <1>1, <1>3 DEF Copy, Stat, Open, Read, Check, CheckOpen
<1>4. CASE CheckRead(u) \/ CheckAgain(u) \/ ReadOnce(u) \/ Analyze(u) \/ Compare(u)
  BY <1>1, <1>4 DEF CheckRead, CheckAgain, ReadOnce, Analyze, Compare
<1>5. CASE Temporary(u) \/ Create(u)
  BY <1>2, <1>5 DEF Temporary, Create, NewFile
<1>6. CASE PreparePermissions(u) \/ Truncate(u) \/ Write(u) \/ SetPermissions(u) \/ Sync(u)
  BY <1>1, <1>2, <1>6 DEF PreparePermissions, Truncate, Write, SetPermissions, Sync, UpdateTemp
<1>7. CASE Persist(u)
  <2>1. CASE Step(u, Failed(u))
    BY <1>1, <2>1
  <2>2. CASE job' = [Raced EXCEPT ![u] = EndOf(job[u], "replaced")]
    BY <2>2 DEF Raced
  <2> QED BY <1>7, <2>1, <2>2 DEF Persist
<1>8. CASE Publish(u)
  BY <1>1, <1>2, <1>8 DEF Publish
<1> QED BY <1>3, <1>4, <1>5, <1>6, <1>7, <1>8 DEF JobStep

\* Only its own rename makes a job a winner.
LEMMA ReplacesOnlyItself ==
  ASSUME IInv, [Next]_vars, NEW t \in Job, job[t].pc # "replaced", job'[t].pc = "replaced"
  PROVE  /\ job[t].pc = "persist" /\ Rename(job[t].temp)
         /\ job' = [Raced EXCEPT ![t] = EndOf(job[t], "replaced")] /\ UNCHANGED <<clock, edits>>
<1>1. \A u \in Job : job[u] \in JobState /\ JobOK(job[u], file, Input.ino)
  BY DEF IInv, TypeOK, JobInv
<1>2. \A u \in Job : Racing(job[u]).pc = job[u].pc
  BY <1>1, RacingIsOK
<1>3. ASSUME NEW new, Step(t, new), new.pc # "replaced"
      PROVE  FALSE
  BY <1>3 DEF Step, IInv, TypeOK
<1>4. Failed(t).pc = "failed" /\ EndOf(job[t], "killed").pc = "killed"
  BY <1>1 DEF Failed, EndOf, JobState
<1>5. CASE \E u \in Job : JobStep(u)
  <2>1. PICK u \in Job : JobStep(u)
    BY <1>5
  <2>2. u = t
    BY <1>2, <2>1, OtherJobs
  <2>3. ASSUME NEW new, job' = [job EXCEPT ![t] = new], new.pc # "replaced"
        PROVE  FALSE
    BY <2>3 DEF IInv, TypeOK
  <2>4. \A next, i : [To(t, next) EXCEPT !.temp = i].pc = next
    BY <1>1 DEF To, JobState
  <2>5. CASE Copy(t) \/ Stat(t) \/ Open(t) \/ Read(t) \/ Check(t) \/ CheckOpen(t) \/ CheckRead(t)
    BY <1>1, <1>3, <1>4, <2>5 DEF Copy, Stat, Open, Read, Check, CheckOpen, CheckRead, To, JobState
  <2>6. CASE CheckAgain(t) \/ ReadOnce(t) \/ Analyze(t) \/ Compare(t)
    BY <1>1, <1>3, <1>4, <2>6 DEF CheckAgain, ReadOnce, Analyze, Compare, To, EndOf, AfterCheck,
         WriteStep, JobState
  <2>7. CASE Temporary(t) \/ Create(t)
    <3>1. PICK next \in {"permissions", "write"}, i \in Inode :
            job' = [job EXCEPT ![t] = [To(t, next) EXCEPT !.temp = i]]
      BY <2>7 DEF Temporary, Create, NewFile
    <3>2. [To(t, next) EXCEPT !.temp = i].pc # "replaced"
      BY <2>4
    <3> QED BY <2>3, <3>1, <3>2
  <2>8. CASE PreparePermissions(t) \/ Truncate(t) \/ Write(t) \/ SetPermissions(t) \/ Sync(t)
    BY <1>1, <1>3, <1>4, <2>3, <2>8 DEF PreparePermissions, Truncate, Write, SetPermissions, Sync,
         UpdateTemp, AfterSync, To, JobState
  <2>9. CASE Persist(t)
    BY <1>3, <1>4, <2>9 DEF Persist, At
  <2>10. CASE Publish(t)
    <3>1. EndOf(job[t], "created").pc = "created"
      BY <1>1 DEF EndOf, JobState
    <3> QED BY <1>3, <1>4, <2>3, <2>10, <3>1 DEF Publish
  <2> QED BY <2>1, <2>2, <2>5, <2>6, <2>7, <2>8, <2>9, <2>10 DEF JobStep
<1>6. CASE Others
  <2>1. ASSUME NEW u \in Job, Kill(u)
        PROVE  FALSE
    <3>1. CASE u = t
      BY <1>3, <1>4, <2>1, <3>1 DEF Kill
    <3>2. CASE u # t
      BY <2>1, <3>2 DEF Kill, Step, IInv, TypeOK
    <3> QED BY <3>1, <3>2
  <2>2. CASE PowerLoss
    <3>1. job'[t] = job[t] \/ job'[t] = EndOf(job[t], "killed")
      BY <2>2 DEF PowerLoss
    <3> QED BY <1>4, <3>1
  <2>3. CASE job' = Raced
    BY <1>2, <2>3 DEF Raced
  <2>4. CASE Tick
    BY <2>4 DEF Tick
  <2> QED BY <1>6, <2>1, <2>2, <2>3, <2>4 DEF Others, EditText, EditMode, HardLink, SymbolicLink,
             SaveAs, Delete, Edit
<1>7. CASE UNCHANGED vars
  BY <1>7 DEF vars
<1> QED BY <1>5, <1>6, <1>7 DEF Next

\* What holds of a rename whose input nobody has changed since the check.
LEMMA Replacement ==
  ASSUME IInv, NEW t \in Job, job[t].pc = "persist", Rename(job[t].temp)
  PROVE  /\ job[t].temp \in Inode /\ job[t].temp # Input.ino
         /\ entry'["in"].ino = job[t].temp
         /\ job[t].source \in Content /\ job[t].reduced = Reduce[job[t].source]
         /\ job[t].reduced # job[t].source
         /\ file'[job[t].temp].content = job[t].reduced
         /\ file'[job[t].temp].mode = job[t].meta.mode
         /\ file'[job[t].temp].owner = job[t].meta.owner
         /\ ~job[t].raced =>
              /\ Input.ino # NoInode /\ file[Input.ino].content = job[t].source
              /\ MetaOf(file, Input.ino) = job[t].meta
<1> DEFINE j == job[t]
<1> USE DEF IInv
<1>1. j \in JobState /\ JobOK(j, file, Input.ino)
  BY DEF TypeOK, JobInv
<1>2. j.temp # NoInode /\ Written(j) /\ Knows(j) /\ j.kind.place = "in" /\ j.round = 4
  BY <1>1 DEF JobOK, StageOK, Written, Knows
<1>3. j.temp \in Inode /\ j.temp \notin Named
  BY <1>1, <1>2 DEF JobState, FileInv
<1>4. Input.ino # j.temp
  BY <1>2, <1>3 DEF Named, Input
<1>5. /\ j.source \in Content /\ j.reduced = Reduce[j.source] /\ j.reduced # j.source
      /\ file[j.temp].content = j.reduced /\ file[j.temp].mode = j.meta.mode
      /\ file[j.temp].owner = j.meta.owner
  BY <1>1, <1>2 DEF JobOK, TextOK, TempOK, Ended
<1>6. ~j.raced => /\ Input.ino # NoInode /\ file[Input.ino].content = j.source
                  /\ MetaOf(file, Input.ino) = j.meta
  BY <1>1, <1>2 DEF JobOK, RaceOK
<1>7. file'[j.temp] = Touch(file[j.temp]) /\ file[j.temp] \in FileState
  BY <1>3 DEF Rename, TypeOK, FileState
<1>8. /\ file'[j.temp].content = j.reduced /\ file'[j.temp].mode = j.meta.mode
      /\ file'[j.temp].owner = j.meta.owner
  BY <1>5, <1>7 DEF Touch, FileState
<1>9. entry'["in"].ino = j.temp
  BY DEF Rename, TypeOK
<1> QED BY <1>3, <1>4, <1>5, <1>6, <1>8, <1>9

\* SourceFile::replace: what is renamed into place is the reduction of the
\* very text it replaces; check_unchanged leaves only its own last window.
THEOREM NothingElseIsReplaced == Spec => ReplacesWhatItReduced
<1> DEFINE Faithful ==
      \A t \in Job : Replaces(t) =>
        /\ Input.ino # NoInode
        /\ file'[entry'["in"].ino].content = Reduce[file[Input.ino].content]
<1>1. IInv /\ [Next]_vars => [Faithful]_vars
  <2> SUFFICES ASSUME IInv, [Next]_vars, NEW t \in Job, Replaces(t)
               PROVE  /\ Input.ino # NoInode
                      /\ file'[entry'["in"].ino].content = Reduce[file[Input.ino].content]
    OBVIOUS
  <2> QED BY ReplacesOnlyItself, Replacement DEF Replaces
<1> QED BY <1>1, Inductive, PTL DEF Spec, ReplacesWhatItReduced

\* prepare_permissions and the permissions set after the write: the new file
\* has the owner and the mode, set-ID bits included, of the one it replaces.
THEOREM PermissionsStay == Spec => KeepsPermissions
<1> DEFINE Kept ==
      \A t \in Job : Replaces(t) =>
        LET old == file[Input.ino]
            new == file'[entry'["in"].ino]
        IN  new.mode = old.mode /\ new.owner = old.owner
<1>1. IInv /\ [Next]_vars => [Kept]_vars
  <2> SUFFICES ASSUME IInv, [Next]_vars, NEW t \in Job, Replaces(t)
               PROVE  /\ file'[entry'["in"].ino].mode = file[Input.ino].mode
                      /\ file'[entry'["in"].ino].owner = file[Input.ino].owner
    OBVIOUS
  <2>1. MetaOf(file, Input.ino) = job[t].meta
    BY ReplacesOnlyItself, Replacement DEF Replaces
  <2>2. file[Input.ino].mode = job[t].meta.mode /\ file[Input.ino].owner = job[t].meta.owner
    BY <2>1 DEF MetaOf
  <2> QED BY <2>2, ReplacesOnlyItself, Replacement DEF Replaces
<1> QED BY <1>1, Inductive, PTL DEF Spec, KeepsPermissions

-----------------------------------------------------------------------------
\* A reduction of a reduction removes nothing more.
ReducesOnce == \A c \in Content : Reduce[Reduce[c]] = Reduce[c]

LEMMA InputStays ==
  ASSUME IInv, [Next]_vars, edits' = edits,
         \A t \in Job : job'[t].pc = "replaced" => job[t].pc = "replaced"
  PROVE  Input' = Input /\ (Input.ino # NoInode => file'[Input.ino] = file[Input.ino])
<1> USE DEF IInv
<1>1. Input.ino # NoInode => /\ Input.ino \in Inode /\ Input.ino \in Named
                             /\ \A u \in Job : job[u].temp # Input.ino
  BY DEF FileInv, Named, Input, TypeOK
<1>2. CASE \E u \in Job : JobStep(u)
  <2>1. PICK u \in Job : JobStep(u)
    BY <1>2
  <2>2. CASE Copy(u) \/ Stat(u) \/ Open(u) \/ Read(u) \/ Check(u) \/ CheckOpen(u) \/ CheckRead(u)
             \/ CheckAgain(u) \/ ReadOnce(u) \/ Analyze(u) \/ Compare(u)
    BY <2>2 DEF Copy, Stat, Open, Read, Check, CheckOpen, CheckRead, CheckAgain, ReadOnce, Analyze,
         Compare, Step, Input
  <2>3. CASE Temporary(u) \/ Create(u)
    <3>1. PICK i \in Inode : Unused(i) /\ UNCHANGED entry
                             /\ \E f \in {file'[i]} : file' = [file EXCEPT ![i] = f]
      <4>1. \A i \in Inode : \A f : file' = [file EXCEPT ![i] = f] => file'[i] = f
        BY DEF TypeOK
      <4> QED BY <2>3, <4>1 DEF Temporary, Create, NewFile
    <3>2. i # Input.ino
      BY <3>1 DEF Unused, InUse, Input
    <3> QED BY <1>1, <3>1, <3>2 DEF TypeOK, Input
  <2>4. CASE PreparePermissions(u) \/ Truncate(u) \/ Write(u) \/ SetPermissions(u) \/ Sync(u)
    <3>1. ASSUME NEW f, NEW next, UpdateTemp(u, f, next)
          PROVE  Input' = Input /\ (Input.ino # NoInode => file'[Input.ino] = file[Input.ino])
      BY <1>1, <3>1 DEF UpdateTemp, TypeOK, Input
    <3>2. ASSUME Step(u, Failed(u))
          PROVE  Input' = Input /\ (Input.ino # NoInode => file'[Input.ino] = file[Input.ino])
      BY <3>2 DEF Step, Input
    <3> QED BY <2>4, <3>1, <3>2 DEF PreparePermissions, Truncate, Write, SetPermissions, Sync
  <2>5. CASE Persist(u)
    <3>1. ASSUME job' = [Raced EXCEPT ![u] = EndOf(job[u], "replaced")]
          PROVE  job[u].pc = "replaced"
      <4>1. EndOf(job[u], "replaced").pc = "replaced" /\ job'[u] = EndOf(job[u], "replaced")
        BY <3>1 DEF EndOf, Raced, TypeOK, JobState
      <4> QED BY <4>1
    <3> QED BY <2>5, <3>1 DEF Persist, At, Step, Input
  <2>6. CASE Publish(u)
    BY <2>6 DEF Publish, Step, Input, TypeOK
  <2> QED BY <2>1, <2>2, <2>3, <2>4, <2>5, <2>6 DEF JobStep
<1>3. CASE Others
  <2>1. CASE PowerLoss
    BY <1>1, <2>1 DEF PowerLoss, FileInv, Input
  <2>2. edits \in Nat
    BY Facts DEF TypeOK
  <2>3. CASE (\E u \in Job : Kill(u)) \/ Tick
    BY <2>3 DEF Kill, Tick, Step, Input
  <2>4. CASE edits' = edits + 1
    BY <2>2, <2>4
  <2> QED BY <1>3, <2>1, <2>3, <2>4 DEF Others, EditText, EditMode, HardLink, SymbolicLink,
             SaveAs, Delete, Edit
<1>4. CASE UNCHANGED vars
  BY <1>4 DEF vars, Input
<1> QED BY <1>2, <1>3, <1>4 DEF Next

\* A winner stays one, raced or not.
LEMMA WinnersStay ==
  ASSUME IInv, [Next]_vars, NEW t \in Job, job[t].pc = "replaced"
  PROVE  job'[t] = job[t] \/ job'[t] = Racing(job[t])
<1>1. CASE \E u \in Job : JobStep(u)
  <2>1. PICK u \in Job : JobStep(u)
    BY <1>1
  <2>2. u # t
    BY <2>1 DEF JobStep, Copy, Stat, Open, Read, Check, CheckOpen, CheckRead, CheckAgain, ReadOnce,
         Analyze, Compare, Temporary, Create, PreparePermissions, Truncate, Write,
         SetPermissions, Sync, Persist, Publish, At
  <2> QED BY <2>1, <2>2, OtherJobs
<1>2. CASE Others
  <2>1. CASE \E u \in Job : Kill(u)
    BY <2>1 DEF Kill, Step, Ended, IInv, TypeOK
  <2>2. CASE PowerLoss
    BY <2>2 DEF PowerLoss, Ended
  <2>3. CASE job' = Raced
    BY <2>3 DEF Raced
  <2>4. CASE Tick
    BY <2>4 DEF Tick
  <2> QED BY <1>2, <2>1, <2>2, <2>3, <2>4 DEF Others, EditText, EditMode, HardLink, SymbolicLink,
             SaveAs, Delete, Edit
<1>3. CASE UNCHANGED vars
  BY <1>3 DEF vars
<1> QED BY <1>1, <1>2, <1>3 DEF Next

LEMMA EditsGrow ==
  ASSUME IInv, [Next]_vars
  PROVE  edits \in Nat /\ (edits' = edits \/ edits' = edits + 1)
<1>1. edits \in Nat
  BY Facts DEF IInv, TypeOK
<1>2. ASSUME NEW t \in Job, JobStep(t)
      PROVE  edits' = edits
  <2>1. ASSUME NEW new, Step(t, new)
        PROVE  edits' = edits
    BY <2>1 DEF Step
  <2>2. ASSUME NEW f, NEW next, UpdateTemp(t, f, next)
        PROVE  edits' = edits
    BY <2>2 DEF UpdateTemp
  <2>3. CASE Copy(t) \/ Stat(t) \/ Open(t) \/ Read(t) \/ Check(t) \/ CheckOpen(t)
             \/ CheckRead(t) \/ CheckAgain(t) \/ ReadOnce(t) \/ Analyze(t) \/ Compare(t)
    BY <2>1, <2>3 DEF Copy, Stat, Open, Read, Check, CheckOpen, CheckRead, CheckAgain, ReadOnce,
         Analyze, Compare
  <2>4. CASE PreparePermissions(t) \/ Truncate(t) \/ Write(t) \/ SetPermissions(t) \/ Sync(t)
    BY <2>1, <2>2, <2>4 DEF PreparePermissions, Truncate, Write, SetPermissions, Sync
  <2>5. CASE Temporary(t) \/ Create(t) \/ Persist(t) \/ Publish(t)
    BY <2>1, <2>5 DEF Temporary, Create, NewFile, Persist, Publish
  <2> QED BY <1>2, <2>3, <2>4, <2>5 DEF JobStep
<1>3. CASE Others
  <2>1. CASE (\E t \in Job : Kill(t)) \/ PowerLoss \/ Tick
    BY <2>1, <1>1 DEF Kill, PowerLoss, Tick, Step
  <2>2. CASE EditText \/ EditMode \/ HardLink \/ SymbolicLink \/ SaveAs \/ Delete
    BY <2>2, <1>1 DEF EditText, EditMode, HardLink, SymbolicLink, SaveAs, Delete, Edit
  <2> QED BY <1>3, <2>1, <2>2 DEF Others
<1>4. CASE UNCHANGED vars
  BY <1>4, <1>1 DEF vars
<1>5. edits' = edits \/ edits' = edits + 1
  BY <1>2, <1>3, <1>4 DEF Next
<1> QED BY <1>1, <1>5

LEMMA WonStep ==
  ASSUME ReducesOnce, IInv, WonInv, [Next]_vars
  PROVE  WonInv'
<1> SUFFICES ASSUME edits' = 0
             PROVE  /\ (\E t \in Job : job'[t].pc = "replaced") =>
                         /\ Input'.ino # NoInode
                         /\ Reduce[file'[Input'.ino].content] = file'[Input'.ino].content
                    /\ \A t, u \in Job :
                         /\ job'[t].pc = "replaced" /\ ~job'[t].raced
                         /\ job'[u].pc = "replaced" /\ ~job'[u].raced
                         => t = u
  BY DEF WonInv
<1>1. edits = 0 /\ edits' = edits
  BY EditsGrow
<1>2. \A u \in Job : /\ job[u] \in JobState /\ Racing(job[u]).pc = job[u].pc
                     /\ ~Racing(job[u]).raced => ~job[u].raced
  BY RacingIsOK DEF IInv, TypeOK, JobInv
<1>3. \A u \in Job :
        job[u].pc = "replaced" => job'[u].pc = "replaced" /\ (~job'[u].raced => ~job[u].raced)
  BY <1>2, WinnersStay
<1>4. CASE \E t \in Job : job[t].pc # "replaced" /\ job'[t].pc = "replaced"
  <2>1. PICK t \in Job : job[t].pc # "replaced" /\ job'[t].pc = "replaced"
    BY <1>4
  <2>2. /\ job[t].pc = "persist" /\ Rename(job[t].temp)
        /\ job' = [Raced EXCEPT ![t] = EndOf(job[t], "replaced")]
    BY <2>1, ReplacesOnlyItself
  <2>3. /\ job[t].temp \in Inode /\ job[t].source \in Content
        /\ job[t].reduced = Reduce[job[t].source] /\ job[t].reduced # job[t].source
        /\ file'[job[t].temp].content = job[t].reduced
        /\ ~job[t].raced => file[Input.ino].content = job[t].source
        /\ Input'.ino = job[t].temp
    BY <2>2, Replacement DEF Input
  <2>4. Input'.ino # NoInode /\ Reduce[file'[Input'.ino].content] = file'[Input'.ino].content
    BY <2>3, Facts DEF ReducesOnce
  <2>5. job'[t].raced = job[t].raced /\ \A u \in Job \ {t} : job'[u].pc = job[u].pc
    <3>1. EndOf(job[t], "replaced").raced = job[t].raced
      BY <1>2 DEF EndOf, JobState
    <3> QED BY <1>2, <2>2, <3>1 DEF Raced
  <2>6. ~job'[t].raced => \A u \in Job : job[u].pc # "replaced"
    BY <1>1, <2>3, <2>5 DEF WonInv
  <2>7. ASSUME NEW u \in Job, NEW v \in Job,
               job'[u].pc = "replaced", ~job'[u].raced, job'[v].pc = "replaced", ~job'[v].raced
        PROVE  u = v
    BY <1>1, <1>3, <2>5, <2>6, <2>7 DEF WonInv
  <2> QED BY <2>4, <2>7
<1>5. CASE \A t \in Job : job'[t].pc = "replaced" => job[t].pc = "replaced"
  <2>1. Input' = Input /\ (Input.ino # NoInode => file'[Input.ino] = file[Input.ino])
    BY <1>1, <1>5, InputStays
  <2> QED BY <1>1, <1>3, <1>5, <2>1 DEF WonInv
<1> QED BY <1>4, <1>5

\* persist_noclobber and check_unchanged: one job at most creates the output,
\* and its text stays there; without editors one job at most replaces the
\* input, outside the window that check_unchanged leaves.  A second reduction
\* that starts from the result of the first finds nothing to replace, if
\* reductions are such that nothing more can be removed from their results.
THEOREM OneJobWins ==
  ASSUME ReducesOnce
  PROVE  Spec => []OneWinner
<1>1. Init => IInv /\ WonInv
  <2> SUFFICES ASSUME Init
               PROVE  WonInv
    BY InitIInv
  <2>1. \A t \in Job : job[t].pc \in {"absent", "copy", "stat"}
    BY DEF Init, NewJob
  <2> QED BY <2>1 DEF WonInv
<1>2. (IInv /\ WonInv) /\ [Next]_vars => (IInv /\ WonInv)'
  BY NextIInv, WonStep
<1>3. IInv /\ WonInv => OneWinner
  BY DEF OneWinner, IInv, CreatedInv, WonInv, At
<1> QED BY <1>1, <1>2, <1>3, PTL DEF Spec
====
