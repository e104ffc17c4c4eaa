----------------------------- MODULE FileOutput -----------------------------
(***************************************************************************)
(* file_output.rs, source_output.rs and apply_result of tools/container.rs: *)
(* how a reduction reads its input and puts the result in place, next to   *)
(* other reductions of the same file and to an editor that takes no locks. *)
(*                                                                         *)
(* The input is a directory entry for an inode.  A job reads it, reduces,  *)
(* and either replaces it (through a temporary file, checks that nothing   *)
(* changed, and a rename) or creates a separate output file.  In container *)
(* mode a copy is reduced and the host applies the result.  Jobs may be    *)
(* killed at any step and the machine may lose power.                      *)
(***************************************************************************)
EXTENDS Naturals, FiniteSets

CONSTANTS
  Job,
  Starts,               \* which jobs there are, and of which kind each is
  Content,              \* complete source texts
  Reduce,               \* the verified reduction of a text
  Inode,
  MaxEdits, MaxClock    \* bounds: edits by others beside one job, ticks of the clock

NoInode == 0
Torn == "torn"          \* an incomplete text
Mode == {"plain", "setid", "readonly", "private"}
Owner == {"self", "other"}

ASSUME FileAssumption ==
  /\ Starts \subseteq [Job -> [place : {"in", "out", "none"}, container : BOOLEAN]]
  /\ Reduce \in [Content -> Content] /\ Torn \notin Content
  /\ Inode \subseteq Nat \ {NoInode}
  /\ MaxEdits \in Nat /\ MaxClock \in Nat

VARIABLES
  entry,      \* the directory entries of the input and the output path
  file,       \* the inodes
  clock,      \* change times are its values: fast edits share one
  edits,      \* edits so far
  job         \* the state of each job

vars == <<entry, file, clock, edits, job>>

Missing == [ino |-> NoInode, link |-> FALSE]
Fresh == [content |-> Torn, mode |-> "plain", owner |-> "self", links |-> 1,
          stamp |-> 0, durable |-> TRUE]

\* source, handle (file) and meta (metadata) are the fields of SourceFile;
\* current is the handle that check_unchanged opens, round says which of its
\* calls is running, original is the text that a container reduced.
\* raced is history: another actor changed the input after the check that
\* precedes the rename had resolved the path.
NewJob(k) ==
  [kind |-> k, original |-> Torn,
   pc |-> IF k.place = "none" THEN "absent" ELSE IF k.container THEN "copy" ELSE "stat",
   source |-> Torn, reduced |-> Torn, handle |-> NoInode, current |-> NoInode,
   temp |-> NoInode, round |-> 1, raced |-> FALSE,
   meta |-> [ino |-> NoInode, mode |-> "plain", owner |-> "self", links |-> 0, stamp |-> 0]]

Init ==
  /\ \E k \in Starts : job = [t \in Job |-> NewJob(k[t])]
  /\ \E i \in Inode, c \in Content, m \in Mode, o \in Owner :
       /\ \A j \in Inode : i <= j
       /\ entry = [in |-> [ino |-> i, link |-> FALSE], out |-> Missing]
       /\ file = [j \in Inode |->
            IF j = i THEN [Fresh EXCEPT !.content = c, !.mode = m, !.owner = o] ELSE Fresh]
  /\ clock = 0 /\ edits = 0

-----------------------------------------------------------------------------
(* The file system                                                         *)

Input == entry["in"]

InUse == {entry[p].ino : p \in {"in", "out"}}
           \cup UNION {{job[t].handle, job[t].current, job[t].temp} : t \in Job}

\* The lowest inode that nothing refers to: numbers are used again.
Unused(i) == i \in Inode \ InUse /\ \A j \in Inode \ InUse : i <= j

Touch(f) == [f EXCEPT !.stamp = clock]
Metadata(i) ==
  [ino |-> i, mode |-> file[i].mode, owner |-> file[i].owner, links |-> file[i].links,
   stamp |-> file[i].stamp]

\* The entry in goes to inode i; the inode it named loses a link.
Rename(i) ==
  LET old == Input.ino
  IN  /\ entry' = [entry EXCEPT !["in"] = [ino |-> i, link |-> FALSE]]
      /\ file' = [j \in Inode |->
           IF j = i THEN Touch(file[j])
           ELSE IF j = old /\ ~Input.link THEN Touch([file[j] EXCEPT !.links = @ - 1])
           ELSE file[j]]

\* validate_file of the metadata of an open file.
Valid(i) == file[i].mode # "readonly" /\ file[i].links = 1

\* symlink_metadata of the input path, and validate_file.
ValidEntry == Input.ino # NoInode /\ ~Input.link /\ Valid(Input.ino)

-----------------------------------------------------------------------------
(* A job                                                                   *)

Ended == {"absent", "same", "replaced", "created", "failed", "killed"}
At(t, here) == job[t].pc = here
Step(t, new) == job' = [job EXCEPT ![t] = new] /\ UNCHANGED <<entry, file, clock, edits>>
To(t, next) == [job[t] EXCEPT !.pc = next]

\* The end of a job closes its handles; unless it is killed, dropping the
\* NamedTempFile removes that file.
EndOf(j, how) ==
  [j EXCEPT !.pc = how, !.handle = NoInode, !.current = NoInode,
            !.temp = IF how = "killed" THEN @ ELSE NoInode]

\* Mutant: a failed check is repeated instead of reported.
Retried(t) == [job[t] EXCEPT !.pc = "check"]
Failed(t) == EndOf(job[t], "failed")

\* Docker copies the workspace and reduces the copy.
Copy(t) ==
  /\ At(t, "copy")
  /\ \/ Step(t, Failed(t))
     \/ /\ Input.ino # NoInode
        /\ LET c == file[Input.ino].content
           IN  Step(t, [To(t, "stat") EXCEPT !.original = c, !.reduced = Reduce[c]])

\* SourceFile::read: the first look at the path.
Stat(t) ==
  /\ At(t, "stat") /\ job[t].kind.place = "in"
  /\ Step(t, IF ValidEntry THEN To(t, "open") ELSE Failed(t))

\* Opening follows a link that took the path's place meanwhile.
Open(t) ==
  LET i == Input.ino
  IN  /\ At(t, "open")
      /\ IF i # NoInode /\ Valid(i)
           THEN Step(t, [To(t, "read") EXCEPT !.handle = i, !.meta = Metadata(i)])
           ELSE Step(t, Failed(t))

Read(t) ==
  /\ At(t, "read")
  /\ Step(t, [To(t, "check") EXCEPT !.source = file[job[t].handle].content])

\* check_unchanged: symlink_metadata and validate_file.
Check(t) ==
  /\ At(t, "check")
  /\ Step(t, IF ValidEntry THEN To(t, "checkOpen") ELSE Failed(t))

\* check_unchanged: the path and the held handle are the file that was read.
CheckOpen(t) ==
  LET i == Input.ino
      j == job[t]
  IN  /\ At(t, "checkOpen")
      /\ IF i # NoInode /\ Metadata(i) = j.meta /\ Metadata(j.handle) = j.meta
           THEN Step(t, [To(t, "checkRead") EXCEPT !.current = i])
           ELSE Step(t, Failed(t))

\* check_unchanged: the text is the one that was read.
CheckRead(t) ==
  LET j == job[t]
  IN  /\ At(t, "checkRead")
      /\ IF file[j.current].content = j.source
           THEN Step(t, [To(t, "checkAgain") EXCEPT !.raced = @ /\ Input.ino # j.current])
           ELSE Step(t, Failed(t))

\* What follows the check in read, at the start and at the end of replace.
AfterCheck(j) ==
  CASE j.round = 1 -> IF j.kind.container THEN "compare" ELSE "reduce"
    [] j.round = 2 -> IF j.reduced = j.source THEN "same" ELSE "temporary"
    [] OTHER -> "persist"

\* check_unchanged: the metadata are still the same after reading.
CheckAgain(t) ==
  LET j == job[t]
      checked == [To(t, AfterCheck(j)) EXCEPT !.current = NoInode, !.round = @ + 1]
  IN  /\ At(t, "checkAgain")
      /\ Step(t, IF Metadata(j.current) # j.meta THEN Failed(t)
                 ELSE IF checked.pc = "same" THEN EndOf(checked, "same")
                 ELSE checked)

\* A separate output: the input is read once.
ReadOnce(t) ==
  /\ At(t, "stat") /\ job[t].kind.place = "out"
  /\ IF Input.ino = NoInode THEN Step(t, Failed(t))
     ELSE Step(t, [To(t, IF job[t].kind.container THEN "compare" ELSE "reduce")
                     EXCEPT !.source = file[Input.ino].content])

WriteStep(j) == IF j.kind.place = "in" THEN "check" ELSE "create"

\* Analyzer::reduce on the text that was read.
Analyze(t) ==
  /\ At(t, "reduce")
  /\ \/ Step(t, Failed(t))
     \/ Step(t, [To(t, WriteStep(job[t])) EXCEPT !.reduced = Reduce[job[t].source]])

\* unchanged of apply_result.
Unchanged(j) == j.source = j.original

Compare(t) ==
  /\ At(t, "compare")
  /\ Step(t, IF Unchanged(job[t]) THEN To(t, WriteStep(job[t])) ELSE Failed(t))

NewFile(t, next, mode) ==
  \E i \in Inode :
    /\ Unused(i)
    /\ file' = [file EXCEPT ![i] = [Fresh EXCEPT !.mode = mode]]
    /\ job' = [job EXCEPT ![t] = [To(t, next) EXCEPT !.temp = i]]
    /\ UNCHANGED <<entry, clock, edits>>

Temporary(t) == At(t, "temporary") /\ NewFile(t, "permissions", "private")
Create(t) == At(t, "create") /\ NewFile(t, "write", "plain")

UpdateTemp(t, f, next) ==
  /\ file' = [file EXCEPT ![job[t].temp] = f]
  /\ job' = [job EXCEPT ![t] = To(t, next)]
  /\ UNCHANGED <<entry, clock, edits>>

\* prepare_permissions: owner, then mode.  One platform copies the text as
\* well, which rewind and set_len discard.
PreparePermissions(t) ==
  LET j == job[t]
      f == file[j.temp]
  IN  /\ At(t, "permissions")
      /\ \/ f.owner # j.meta.owner /\ Step(t, Failed(t))
         \/ \E c \in {Torn, j.source} :
              UpdateTemp(t, [f EXCEPT !.owner = j.meta.owner, !.mode = j.meta.mode,
                                      !.content = c, !.durable = FALSE], "truncate")

Truncate(t) ==
  /\ At(t, "truncate")
  /\ UpdateTemp(t, [file[job[t].temp] EXCEPT !.content = Torn], "write")

\* write_all; a write clears set-ID bits.
Write(t) ==
  LET f == file[job[t].temp]
  IN  /\ At(t, "write")
      /\ UpdateTemp(t, [f EXCEPT !.content = job[t].reduced, !.durable = FALSE,
                                 !.mode = IF @ = "setid" THEN "plain" ELSE @],
                    IF job[t].kind.place = "in" THEN "mode" ELSE "sync")

\* Mutant: the permissions set before the write are taken to last.
ModeAssumed(t) == file[job[t].temp].mode
WantedMode(t) == job[t].meta.mode

SetPermissions(t) ==
  /\ At(t, "mode")
  /\ UpdateTemp(t, [file[job[t].temp] EXCEPT !.mode = WantedMode(t)], "sync")

\* Mutant: the new text may still be in memory when the file gets its name.
NotSynced(t) == file[job[t].temp]
Synced(t) == [file[job[t].temp] EXCEPT !.durable = TRUE]

\* Mutant: nothing is checked between writing the replacement and the rename.
AfterSyncUnchecked(j) == IF j.kind.place = "in" THEN "persist" ELSE "publish"
AfterSync(j) == IF j.kind.place = "in" THEN "check" ELSE "publish"

Sync(t) == At(t, "sync") /\ UpdateTemp(t, Synced(t), AfterSync(job[t]))

\* A change of the input falls into the window of the jobs past their last check.
Racing(j) ==
  [j EXCEPT !.raced = @ \/ (j.round >= 3 /\ j.pc \in {"checkRead", "checkAgain", "persist"})]
Raced == [t \in Job |-> Racing(job[t])]

\* drop(self.file) and persist: the rename that puts the result in place.
Persist(t) ==
  /\ At(t, "persist")
  /\ \/ Step(t, Failed(t))
     \/ /\ Rename(job[t].temp)
        /\ job' = [Raced EXCEPT ![t] = EndOf(job[t], "replaced")]
        /\ UNCHANGED <<clock, edits>>

\* Mutant: the rename of a new output replaces what is there.
NameFreeAssumed == TRUE
NameFree == entry["out"] = Missing

\* persist_noclobber.
Publish(t) ==
  /\ At(t, "publish")
  /\ \/ Step(t, Failed(t))
     \/ /\ NameFree
        /\ entry' = [entry EXCEPT !["out"] = [ino |-> job[t].temp, link |-> FALSE]]
        /\ job' = [job EXCEPT ![t] = EndOf(job[t], "created")]
        /\ UNCHANGED <<file, clock, edits>>

JobStep(t) ==
  \/ Copy(t) \/ Stat(t) \/ Open(t) \/ Read(t)
  \/ Check(t) \/ CheckOpen(t) \/ CheckRead(t) \/ CheckAgain(t)
  \/ ReadOnce(t) \/ Analyze(t) \/ Compare(t)
  \/ Temporary(t) \/ Create(t) \/ PreparePermissions(t) \/ Truncate(t) \/ Write(t)
  \/ SetPermissions(t) \/ Sync(t) \/ Persist(t) \/ Publish(t)

-----------------------------------------------------------------------------
(* Everybody else                                                          *)

Kill(t) ==
  /\ job[t].pc \notin Ended
  /\ Step(t, EndOf(job[t], "killed"))

\* Jobs die, and what was not synced is lost.
PowerLoss ==
  /\ (\E t \in Job : job[t].pc \notin Ended) \/ (\E i \in Inode : ~file[i].durable)
  /\ job' = [t \in Job |-> IF job[t].pc \in Ended THEN job[t] ELSE EndOf(job[t], "killed")]
  /\ file' = [i \in Inode |->
                IF file[i].durable THEN file[i]
                ELSE [file[i] EXCEPT !.content = Torn, !.durable = TRUE]]
  /\ UNCHANGED <<entry, clock, edits>>

\* An editor works beside one job; two jobs race with each other alone.
EditBound == IF \E t \in Job : job[t].pc = "absent" THEN MaxEdits ELSE 0

Edit ==
  /\ edits < EditBound /\ edits' = edits + 1
  /\ Input.ino # NoInode
  /\ job' = Raced
  /\ UNCHANGED clock

UpdateInput(f) == file' = [file EXCEPT ![Input.ino] = Touch(f)] /\ UNCHANGED entry

EditText == Edit /\ \E c \in Content : UpdateInput([file[Input.ino] EXCEPT !.content = c])
EditMode == Edit /\ \E m \in Mode : UpdateInput([file[Input.ino] EXCEPT !.mode = m])
HardLink == Edit /\ UpdateInput([file[Input.ino] EXCEPT !.links = @ + 1])

\* The file is moved away and a symbolic link to it takes its place.
SymbolicLink ==
  /\ Edit
  /\ entry' = [entry EXCEPT !["in"].link = TRUE]
  /\ file' = [file EXCEPT ![Input.ino] = Touch(@)]

\* An editor that saves a new file under the name.
SaveAs ==
  /\ edits < EditBound /\ edits' = edits + 1
  /\ job' = Raced
  /\ UNCHANGED clock
  /\ \E i \in Inode, c \in Content :
       /\ Unused(i)
       /\ entry' = [entry EXCEPT !["in"] = [ino |-> i, link |-> FALSE]]
       /\ file' = [j \in Inode |->
            IF j = i THEN Touch([Fresh EXCEPT !.content = c])
            ELSE IF j = Input.ino /\ ~Input.link THEN Touch([file[j] EXCEPT !.links = @ - 1])
            ELSE file[j]]

Delete ==
  /\ Edit
  /\ entry' = [entry EXCEPT !["in"] = Missing]
  /\ file' = IF Input.link THEN file
             ELSE [file EXCEPT ![Input.ino] = Touch([file[Input.ino] EXCEPT !.links = @ - 1])]

Tick == clock < MaxClock /\ clock' = clock + 1 /\ UNCHANGED <<entry, file, edits, job>>

Others ==
  \/ \E t \in Job : Kill(t)
  \/ PowerLoss \/ EditText \/ EditMode \/ HardLink \/ SymbolicLink \/ SaveAs \/ Delete \/ Tick

Next == Others \/ \E t \in Job : JobStep(t)

Spec == Init /\ [][Next]_vars

\* A job that is not killed runs on.
FairSpec == Spec /\ \A t \in Job : WF_vars(JobStep(t))

-----------------------------------------------------------------------------
Meta == [ino : Inode \cup {NoInode}, mode : Mode, owner : Owner,
         links : 0..(MaxEdits + 1), stamp : 0..MaxClock]
Kind == [place : {"in", "out", "none"}, container : BOOLEAN]
Checking == {"check", "checkOpen", "checkRead", "checkAgain"}
Place == Ended \cup Checking \cup
  {"copy", "stat", "open", "read", "reduce", "compare", "temporary", "create", "permissions",
   "truncate", "write", "mode", "sync", "persist", "publish"}
JobState ==
  [kind : Kind, pc : Place, round : 1..4, raced : BOOLEAN, meta : Meta,
   original : Content \cup {Torn}, source : Content \cup {Torn}, reduced : Content \cup {Torn},
   handle : Inode \cup {NoInode}, current : Inode \cup {NoInode}, temp : Inode \cup {NoInode}]

\* The state's types; no two jobs share a temporary file.
TypeOK ==
  /\ entry \in [{"in", "out"} -> [ino : Inode \cup {NoInode}, link : BOOLEAN]]
  /\ file \in [Inode -> [content : Content \cup {Torn}, mode : Mode, owner : Owner,
                         links : 0..(MaxEdits + 1), stamp : 0..MaxClock, durable : BOOLEAN]]
  /\ clock \in 0..MaxClock /\ edits \in 0..MaxEdits
  /\ job \in [Job -> JobState]
  /\ \A t, u \in Job : job[t].temp = job[u].temp /\ job[t].temp # NoInode => t = u

\* At no moment, a kill or a power loss included, does either path name an
\* incomplete text.
NeverTorn ==
  \A p \in {"in", "out"} : entry[p].ino # NoInode => file[entry[p].ino].content # Torn

Replaces(t) == job[t].pc = "persist" /\ job'[t].pc = "replaced" /\ ~job[t].raced

\* A replacement is the reduction of the very text it replaces, unless another
\* actor changed the file after the last check had resolved and read it.
ReplacesWhatItReduced ==
  [][\A t \in Job : Replaces(t) =>
       /\ Input.ino # NoInode
       /\ file'[entry'["in"].ino].content = Reduce[file[Input.ino].content]]_vars

\* A replacement has the owner and the permissions, set-ID bits included, of
\* the file it replaces, under the same condition.
KeepsPermissions ==
  [][\A t \in Job : Replaces(t) =>
       LET old == file[Input.ino]
           new == file'[entry'["in"].ino]
       IN  new.mode = old.mode /\ new.owner = old.owner]_vars

\* Of the jobs that create the output only one succeeds, and its result stays;
\* two jobs do not both replace the same text, outside that window.
OneWinner ==
  /\ \A t \in Job :
       At(t, "created") =>
         /\ file[entry["out"].ino].content = job[t].reduced
         /\ \A u \in Job : At(u, "created") => u = t
  /\ edits = 0 =>
       \A t, u \in Job :
         /\ At(t, "replaced") /\ ~job[t].raced
         /\ At(u, "replaced") /\ ~job[u].raced
         => t = u

\* Every job ends with a result or an error, whatever others do to the file.
JobEnds == \A t \in Job : <>(job[t].pc \in Ended)
=============================================================================
