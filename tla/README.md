# Verification of rust_item_dependencies

`rid` removes from a Rust source file the items that its entry points do not
need, and guarantees that the compiler decides the same way about what is left.
This directory holds TLA+ models of the program's own logic, the TLC runs that
check them on small instances, and the proofs that hold for every instance.

    cd tla
    tlc -workers 2 -config SourceClosure.cfg MCSourceClosure     # a run
    tlapm RetentionFixpoint_proofs.tla                            # a proof

`PROJECT.json` lists the runs, which lines of `src/` each definition models
("map"), the hazards the properties are aimed at, and for every property a
mutation of the model that it must catch.

## 1. Inventory

| component | state it keeps | operations | interacts with |
|---|---|---|---|
| launcher, `tools/rid.rs` | `target/rid`: Rust checkout, recorded revision, build directory, build identity, `preparation.lock` | update checkout, build or assemble compiler, prepare a target, run the reducer | git, bootstrap, reducer (which may start it again) |
| container launcher, `tools/container.rs` | copied workspace, result file | run in Docker, apply the result on the host | file output |
| reduction pipeline, `api.rs`, `main.rs` | one reduction: snapshots, plan, verified candidate | inspect, plan, rewrite, inspect again, compare, emit | all analyses |
| Cargo projects, `cargo_project.rs` | Cargo child, adapter environment | find the compiler invocation, re-run it | launcher, pipeline |
| compiler observation, `expansions*.rs`, `macro_output.rs`, `monomorphization.rs` | none beyond a compiler session | copy facts out of rustc; find what each token of a macro's output comes from | definitions, retention |
| input inventory, `source.rs`, `source/` | source units, lexical pieces | split the text into units, derives, lists, with owners for every token | macros, retention, rewrite |
| declarative macros, `source/declarative_macro/` | drafts of units inside macros | split rules, templates, captures and repetitions by what the compiler saw | input inventory, source constraints |
| definitions and graphs, `definitions.rs`, `graph.rs`, `dependency_graph.rs` | the universe of identities of the first session | give each definition its origin, ordinal and key; collect what each needs | retention, second session, comparison |
| source constraints, `retention.rs` | none | turn the structure of the text into requirements | the closures |
| retention, `retention.rs` | the logs of new facts, 14 cursors, three sets of facts | `compute_retention` | the five closures below |
| source closure, `retention/source_closure.rs` | queue, seen units, opened groups | `add`, `close` | retention |
| reachability, `retention/reachability.rs` | per lane: required nodes, site counters, surviving expansions | `add_*`, `close` | retention |
| macro products, `retention/macro_products.rs` | nine queues, contributors, groups, producers, demand clauses | `add_*`, `close` | retention |
| disjunctions, `retention/disjunctions.rs` | active, complete and pending clauses | `add_*`, `select` | retention |
| external crate snapshots, `external.rs` | copies of external artifacts; on Windows one store per reducer: owner file, root, loaded copies | prepare, share, pin and remove copies, remove dead stores | launcher, compiler sessions, other reducers |
| external requirements, `retention/external.rs` | requirements of external artifacts | derive constraints | retention, comparison |
| source sites, `retention/source_sites.rs` | persistent segment trees of unit sets | insert, union, difference | reachability |
| rewrite, `rewrite.rs`, `rewrite/macro_repetition.rs` | edits, repetition tokens | apply a plan to the text | pipeline |
| decision comparison, `snapshot.rs`, `selection.rs`, `compiler_terms.rs` | canonical snapshots | project the original, compare with the reduced program | pipeline |
| file output, `file_output.rs`, `source_output.rs` | open handle, metadata and text of the input; temporary file | read, check, write, rename | the file system and everybody else who uses it |

What is hard here:

* **Deltas.** The closures of the retention computation are incremental. Each
  keeps queues, counters and "seen" sets between calls and is told of new facts
  through cursors into shared logs that are cleared on the way. A fact read
  too early, or cleared before everybody read it, is lost without a trace: the
  result is a program that misses an item, or keeps one for nothing.
* **Joint conditions.** Requirements with two triggers, gates with several
  sources, contributors with several parents, expansions that are each other's
  ancestors: whichever part comes last must find the others.
* **Choice.** Disjunctions select only when nothing else moves, and selections
  wake other clauses, some of them behind the cursor of the running round.
* **The file system.** Input files are edited by programs that take no locks,
  jobs are killed, machines lose power, inode numbers and time stamps recur.
* **Two texts.** The rewritten text is compiled again and its definitions are
  looked up among those of the original by coordinates that the deletion has
  moved, by ordinals whose siblings may be gone, and by the places of macro
  tokens that may have been split in one session and not in the other.
* **Shortened macros.** A call with less input may match another rule, a
  template with less text may produce something else, two tokens may become one
  where something between them goes, and lists keep their separators and counts.
* **Names that recur.** Siblings of a macro expansion are told apart by the
  order of their discovery, which a reduction changes; stores of copies are
  named after process numbers, which are used again while an older reducer of
  the same name may still run.
* **Shared preparation.** Several launchers, one checkout and one build
  directory, hour-long builds, kills anywhere, a nested launcher that takes the
  same lock as the one that waits for it.

Correctness, component by component: a closure computes the least set closed
under its rules, whatever the order and the partition into calls, and it ends;
the composition reaches a common fixpoint before anything is selected; what the
inventory calls a unit can be deleted without changing a token that stays, or
what a macro call that stays does, and every definition that stays has the
identity it had; a text is written only after the compiler has accepted it and
the decisions were compared; an in-place update replaces exactly the text that
was reduced, atomically and with the same permissions; the comparison accepts a
reduced program only if a renaming of expansions makes all decisions equal, and
is not misled by siblings that were removed; the copy that a compiler reads
stays what was hashed, and the copies of dead processes are found and removed; a
launcher uses a finished build of the revision it prepared, and never moves a
checkout that holds somebody's work.

## 2. Plan

Modules in the order in which they were, or will be, written. The retention
computation decides what is removed, so it came first; then the steps with the
outside world, where interleavings are.

| module | of | status |
|---|---|---|
| `SourceClosure`, `RetentionFixpoint_proofs` | `retention/source_closure.rs` | modelled, checked, proved |
| `Reachability`, `Reachability_proofs` | `retention/reachability.rs` | modelled, checked, proved |
| `MacroProducts`, `MacroProducts_proofs` | `retention/macro_products.rs` | modelled, checked, proved |
| `RetentionFixpoint`, `RetentionFixpoint_proofs` | `compute_retention` and `retention/disjunctions.rs`; composes the closures above | modelled, checked, proved |
| `FileOutput`, `FileOutput_proofs` | `file_output.rs`, `source_output.rs`, `apply_result` of `tools/container.rs` | modelled, checked, proved |
| `CompilerPreparation`, `CompilerPreparation_proofs` | `tools/rid.rs` | modelled, checked, proved |
| `DecisionSnapshot`, `DecisionSnapshot_proofs` | `snapshot.rs` | modelled, checked, proved |
| `SnapshotStores`, `SnapshotStores_proofs` | the Windows stores of `external.rs`, `remove_reducer_snapshot` of `tools/rid.rs` | modelled, checked, proved |
| `UnitConstraints`, `LeastClosure` | what the callers of the source closure rely on | stated, refined by `SourceClosure`, proved |
| `ReductionSession`, `CargoProject`, `Reducer`, `Reducer_proofs` | `api.rs`, `input.rs`, `cargo_project.rs`, `main.rs` | modelled, checked, proved |
| `SourceText`, `SourceInventory`, `SourceUnits` | `source/syntax.rs`, `source.rs`, `source/derive.rs` | modelled, checked |
| `MacroExpander`, `MacroTemplates`, `MacroRefinement`, `MacroFacts` | `source/declarative_macro/` | modelled, checked |
| `SourceConstraints` | the collection of constraints in `retention.rs`, `retention/source_sites.rs` | modelled, checked |
| `MacroRepetitions`, `SourceRewrite` | `rewrite/macro_repetition.rs`, `rewrite.rs` | modelled, checked |
| `MacroProvenance`, `Definitions`, `DefinitionEdges` | `expansions/provenance.rs`, `definitions.rs`, `graph.rs` | modelled, checked |
| `Rewriting`, `ReducedSession` | compose the above: session, retention, rewrite, second session | modelled, checked |
| `ReachabilityClosure` and its proofs | the promise of `Reachability` in the manner of `LeastClosure` | planned |
| `MonoCollector` | `monomorphization.rs` | planned: the work list over instances |
| `ExternalRequirements` | `retention/external.rs`, name resolution of `external.rs` | planned |

**Composition.** Three compositions. `RetentionFixpoint` takes from the closures
only what their own modules establish: `close` adds exactly what its rules derive
from the facts it has seen. `Reducer` starts either a `ReductionSession` or, for a
project, `CargoProject`, whose adapters reduce in one step each. `Rewriting` and
`ReducedSession` run one crate through inventory, refinement, definitions,
constraints, retention, rewrite and the second session. Between them they leave
`FileOutput` as the last step of a reduction: "written" of `Reducer` is where a job
of `FileOutput` starts.

**Abstract specifications.** `LeastClosure` says what a closure promises: asked
for units, it adds units that the constraints force, in any order, and settles
only when the constraints hold. `SourceClosure` implements it (property
`ImplementsLeastClosure`, theorem `ClosureImplements`) with `closing`
as the pending step. Next: the same for `Reachability`, and "replace or leave
alone" as the atomic specification of `FileOutput`.

**Theorems.** Proved: those of section 7, which state every safety property and
every action property of the nine components from `SourceClosure` to `Reducer`. What
is left: the promise of `Reachability`, "replace or leave alone" as what
`FileOutput` implements, and the invariants of `Rewriting` and `ReducedSession`,
whose modules compute with `RECURSIVE` operators (section 8).

## 3. The modules

### SourceClosure

The specification is `SourceSpec`: its names have a prefix because
`RetentionFixpoint_proofs` speaks of both. State: `retained` and `undelivered` are the retention's own `retained_units` and
the part of its log that this closure has not read; `accepted`, `pending`, `opened`
are the fields of `SourceRequirementClosure`; `current` and `todo` are the
locals of the loop in `close`. `Retain` is any caller that retains units,
`AddAndClose` the call of `add` that precedes `close`, `Visit` one iteration up
to the joint requirements, `VisitJoint` one of those, `FinishVisit` and `Return`
the rest. The order of the queue and of the joint requirements is free, so what
holds does not depend on it. `inputs` and `done` are history. What is required
of a set of units is in `UnitConstraints`, which `LeastClosure`, the promise,
shares. Constraint sets with overlapping groups are inputs too: the index
rejects them (`error`).

### Reachability

One lane's `ReachabilityClosure`. `IndexOf` is the static index (edges,
components, owners, gates), `AddReachable` and `AddSources` are the calls of the
retention, `BeginClose` recomputes the states of touched sites,
`VisitComponent`, `VisitNode`, `VisitEdge` are the three work lists. Tarjan's
algorithm is replaced by the definition of a strongly connected component;
counters are kept as counters and `TypeOK` ties each to the set it counts.

### MacroProducts

`RetentionClosure` of `macro_products.rs`: `CallerAdds` and `Deliver` are the
`add_*` calls, `NextPhase` moves through the nine queues in the order of
`close`, and one action per queue does all that the code does for the element it
pops. `MeaningfulProducers` and `ActiveGroups` are translations of the *other*
computation of the same things, which runs once over the reduced program:
`IndexesAgree` relates the two. Facts are records of the validated provenance;
how they are validated is not modelled.

### RetentionFixpoint

`compute_retention` with its cursors: the variable `read` says for every reader
which part of the log it has consumed, so that clearing a log and resetting a
cursor are visible. A closure is a set of rules; the actions `Deliver`,
`SideEffects`, `CloseSource`, `SourceDefinitions`, `CloseMacro`, `ReachCompile`,
`ReachActual`, `Mirror` follow the order of `close_deterministic_constraints`,
`SelectClause` the three selectors of `disjunctions.rs`, `CloseTokens` the macro
repetitions. Which choice ranks best is data (`selected`).

### FileOutput

Inodes, two directory entries, and jobs. Each system call that another process
can observe is a step; `SourceFile::read`, `check_unchanged`, `replace` and
`write_new` are the sequences of those steps. `Copy` and `Compare` are the
container mode. Others edit in place, save under the name, delete, link and
change modes; jobs are killed; power fails. The clock of change times stands
still unless it ticks, so that fast edits share a time stamp, and inode numbers
are used again.

### CompilerPreparation

`target/rid` as it is shared by launchers: `head`, `dirty`, `ignored`, `torn`,
`submodules`, `recorded` are the checkout, `identity` and `build` the build
directory. Its files differ from `HEAD` for two reasons that `git status` does not
tell apart: the user changed them (`dirty`), or a command that writes them was
interrupted (`torn`). The user's ignored files in submodules (`ignored`) do not
show there; `Status` looks for them (`LocalFiles`), because
`git submodule deinit --all` would remove them. The actions follow `ensure_patched_checkout` (`Query`, `Status`, `Stage`, `Detach`,
`Switch`, `Record`), `prepare_compiler` (`Prepare`, `Remove`, `Bootstrap`, `Finish`,
`Identify`), `prepare_target_libraries` (`Target`, `Metadata`), the end of
`preparation_lock` (`Unlock`), and the reducer (`Use`, and `Nest` when it starts a
launcher again). A launcher fails (`Fail`) or is killed (`Kill`) before, after and
in the middle of each of them: `Interrupted` leaves part of the new files behind
where the next step is a `git checkout`, a `git submodule deinit` or a bootstrap
that updates submodules (`Rewriting`). `HEAD` is then still the old one, since git moves
it last. `Query` finds what an interrupted first checkout has left and completes
it, leaves what is not in its way, or fails; `Repair` is the user who removes the
remains. A version of the repository stands for its base revision, its
patched revision and its queue digest. `UpdateAnytime` says whether the
repository may be updated while a launcher holds the lock.

### DecisionSnapshot

`Original` takes the snapshot of the original program restricted to what was
kept, `Inspect` is the second compiler session on the rewritten source,
`Reduced` and `Compare` are the snapshot of what it saw and `first_difference`.
The operators from `Survives` to `SnapshotEdge` translate the projection and the
keys: which witnesses tell siblings apart and in which order they are tried
(`Evidence`), how ordinals are counted without outputless siblings
(`FilteredOrdinal`), which mentions a use subsumes (`Subsumed`). Nodes are
numbers, the payload of a proof or an instance is one value, the three parent
relations of an expansion are collapsed into the one that forms its identity,
the separate comparison of external crates is left out, and `SetCode` stands for
the order of sets of definitions that the code takes from their keys. What the
comparison is handed is an assumption (`PlanAssumption`), each part of which the
code ensures somewhere else: `WellFormed` is what `DependencyGraph::new` checks
(one edge for a relation, `dependency_graph.rs:640-668`; siblings with different
ordinals, `583-590`); `Collected` what the collectors produce (siblings
numbered from zero, `expansions.rs:388-410`; no sites on edges from generated code
and within a trace); `OutputAbove` that an expansion has output if one below it
has (`expansions/output.rs:648-690`); `RetentionClosed` what `compute_retention`
ends with. TLC evaluates it for every plan and candidate of the run. `Candidates` are
what the second session may report: the faithful program, with removed siblings
and another order of discovery, and eight ways in which a compiler may have
decided otherwise.

### SnapshotStores

Processes (launchers and reducers), the files of one snapshot parent directory,
and the threads of reducers that prepare external crates. `StartLauncher`,
`CheckOwner`, `CheckRoot`, `Spawn`, `CleanLock`, `CleanTry`, `CleanRoot`,
`CleanOwner` are the launcher; `Acquire`, `ReapTry`, `ReapRoot`, `ReapOwner`,
`Reaped`, `CreateOwner`, `LockOwner`, `CreateRoot`, `Copy`, `Write`, `Release`,
`Load`, `Finish`, `Drop` a thread. Directories are removed entry by entry; a
copy is empty until it is written. `Kill` may hit any process at any step and
drops its locks, `Fail` and `CleanFail` are I/O errors, and a thread that fails
runs the guards that its stack holds. Several artifacts and probe directories of
one preparation are one copy; there is one parent directory. The mutex around
the stores of a process is only modelled where it is not implied by the parent
lock (`Load`). This is the Windows code: elsewhere there are no stores, and
copies are dropped with the values that own them. `stale` is history.

### ReductionSession, CargoProject, Reducer

`ReductionSession` is one reduction with its two inspections (`phase` says which).
Between the callbacks (`AfterParsing`, `AfterExpansion`, `AfterAnalysis`) the
compiler is the environment: it reports errors, asks for files and procedural
macros, and gives up. `first` is history: what came first, an error or a
refusal. The validators see a program as records of what they look at: nodes with
their cfg, features, expanded items, attributes, the entry. `Verdict` sorts
errors, refused files and refused macros into what is reported, in the order of the
code. `coords` says in which text each of the things that are joined has its
places. `CargoProject` is the reducer that the user started, Cargo, and one
adapter per compilation, any number at once; `Plans` is what Cargo may decide to
compile and where it puts the marker. `Reducer` is `main.rs`: one of the two.

### From a text to units: SourceText, SourceInventory, SourceUnits

A text is a sequence of characters and a range an interval of offsets.
`SourceText` has the compiler's lexer on the characters whose meaning depends on
their neighbours (words, raw identifiers, unknown prefixes, `=` and `>` that the
parser glues), `RewriteGuard` and the check of deletions against it.
`SourceInventory` is the inventory with its validation, `SourceUnits` the
collector: a crate is a tree of tagged nodes, and `CollectUnits` decides which
nodes are units, of which kind, with which group and range;
`RefineDeriveTargets` adds derives, and `OwnLexicalPieces` gives every token an
owner.

### Macros: MacroExpander, MacroTemplates, MacroRefinement, MacroFacts,
SourceConstraints

`MacroExpander` is external: `macro_rules` on texts whose fragments are single
words, with the matcher, the transcription and the provenance that the patched
compiler reports. `MacroTemplates` and `MacroRefinement` translate
`source/declarative_macro`: which parts of a template can go, which captures with
their input in every call, which elements of a repetition. `MacroFacts` is its
validation, and `SourceConstraints` what the retention then requires (parents,
groups, derives, captures, earlier rules).

### Deleting: MacroRepetitions, SourceRewrite

`MacroRepetitions` keeps the index of active deletions: `RemoveActiveDeletion`
splits a run, components and cohorts follow by increments, `FailingComponents`
and `ForcedUnits` say whose elements must stay. `SourceRewrite` is the deletion
by kind of unit, the splice and `OriginalRange`, the way back.

### Definitions: MacroProvenance, Definitions, DefinitionEdges

`MacroProvenance` finds the units from
which each token of a macro's output comes (`TokenContributors`) and the basis
that a product's tokens share. The first part of `Definitions`
is external: the definitions that the compiler makes of a tree, of what the macros
produce and of derives. The rest gives each definition its origin,
its place among the siblings of that origin, and its key; in the second session
it looks identities up in the universe of the first. `DefinitionEdges` is the
visitor of the syntax tree with its contexts, the results of type checking,
imports, parents, and the requirements of traits and impls. The end of
`SourceConstraints` says which units own the place of an edge.

### Rewriting, ReducedSession

`Rewriting` begins with all that one session learns of a crate. Then the
compiler demands units in any order (`Demand`), choices are made in any
order once nothing is left to deduce (`Select`), the repetition index is closed
(`CloseTokens`) and the text is rewritten (`Rewrite`). `ReducedSession` goes on:
`Recompile` is the crate that the compiler sees in the rewritten text,
`RefineAgain` and `CollectAgain` are its session. `NewMeaning` and `OldMeaning`
expand a call in both texts.

## 4. Runs

| run | question | instance | distinct states |
|---|---|---|---|
| `source_closure` | is the closure complete and least for every order of calls, and does it implement its promise? | 3 units; all partitions, up to 2 requirements and 2 joint requirements, one malformed grouping | 115,619 |
| `reachability` | does the lane hold what open edges reach, exactly; do component counters agree with the definition of survival? | chain of 3 definitions and 2 expansions; shared sites, half-owned sites, parent cycles, delegation | 246,770 |
| `macro_products` | do the incremental and the from-scratch computation agree; is nothing missing or superfluous? | 2 expansions, 3 groups, 3 contributors, 12 sets of facts, 6 inputs in any order over any number of calls | 431,655 |
| `retention_fixpoint` | is the result a fixpoint of everything, selected only at rest, and minimal? does it end? | 3 nodes, 3 units; up to 4 rules out of a pool of 11, 4 clause lists, 2 token sets | 150,736 |
| `file_output` | can an editor, a kill, a power failure or another reduction make an update replace something else, or leave an incomplete text? | one job of any kind with 2 edits, or two jobs; 1 clock tick, 5 inodes | 1,124,150 |
| `compiler_preparation` | is what a launcher uses what it prepared? is the user's work safe? do launchers end? | 2 launchers, 4 starts, 2 versions, one act of the user | 431,286 |
| `compiler_update_race` | the same when the repository is updated during a build | as above | violated |
| `compiler_unrecorded` | is a checkout that the user left alone always updated? | as above | violated |
| `decision_snapshot` | does the comparison accept exactly programs with the same decisions? | 4 expansions, 3 definitions, 2 other nodes, 2 units; 144 programs with all their plans and candidates | 168,473 |
| `snapshot_stores` | does a compiler ever read something else than was hashed? are dead stores found and removed? does anybody wait forever? | a launcher, its reducer with 2 threads, another reducer, 2 process numbers, 2 contents | 389,747 |
| `reducer` | is what is written verified? is the reason that is given the true one? does a reduction end? is a project's source replaced only by its own reduction? | 10 programs, 6 options, 2 errors per inspection; 12 projects, 5 plans of compilations | 1,136,638 |
| `rewriting` | does what is left of a crate mean what it meant, and does the second session recognize it? | 15 crates of up to 70 characters, every order of demands and choices | 4,177 |

What the properties say is in the comment above each of them. Deadlock is not
checked where the modelled computation ends (a reduction that is written, a second
session that is verified or failed) or a caller need not call again;
that everything which has to end does is stated as a liveness property
(`Terminates`, `JobEnds`, `LauncherEnds`, `PrepareEnds`, `ReductionEnds`; of the
source closure, that what it must add it adds before it settles, is part of
`ImplementsLeastClosure`).

**Bounds.** They cut the number of actors and repetitions, never a step.

* Closures: a joint requirement needs two triggers and a target, hence three
  units, nodes or groups; a third call of `add`/`close` cannot meet a state that
  two have not left behind, and the number of calls is bounded only by the facts
  there are to add. `source_closure` enumerates every constraint set of its
  size. `retention_fixpoint` takes every subset of up to four rules: a chain
  through all of a round's closures and back has four links.
* `MaxEdits = 2`, `MaxClock = 1`: two edits are what it takes to change a file
  and change it back; a third value of the clock adds nothing to "same" and
  "different". Five inodes are two more than entries and temporary file, so that
  numbers recur only where the file system allows it. `Starts` is either one job
  with an editor beside it or two jobs without (`EditBound`): jobs are each
  other's editors.
* `Versions = 2`, `MaxRuns = 4`, two launchers: one that is interrupted, one
  that repairs, an update between any two of them and one start to spare. The one act of the
  user is a change, a commit or an ignored file in a submodule; a launcher treats
  each of them by a branch of its own, and removing the remains of an interrupted
  command is possible any number of times.
* `Pids = 2`, `MaxNonce = 2`: few enough process numbers that one recurs while
  an older reducer still runs, and enough nonces for the stores that they can
  leave behind. `Uses` says which request each thread has: one of the two
  threads of the launched reducer may do nothing, and they may share a copy or
  differ.
* `decision_snapshot`: a group of siblings needs three members to be told apart
  in more than one way; the fourth expansion is a third sibling, a child or an
  invocation elsewhere.
* `reducer`: two errors are what it takes for one to be ranged and the other
  not, or for one to come before a refusal and one after it. Each program is
  refused for one reason, or for two of which the order decides. The plans have
  no marker at the selected binary, one, two on one compilation, and two
  compilations with one each.
* `rewriting`: `MCCrates` has a crate for each kind of interplay: a rule that
  stands before the selected one; captures of a rule that another rule would
  rob; lists in lists; elements between tokens that would become one; elements
  that are needed in waves; runs of `#`; a macro in a template; a tree of uses
  in a template; a call that was not fully reported; derives with helpers;
  products that only their order tells apart; traits, impls and `Self`; imports
  through imports; parts of enums; and code that cfg removes. `Demanded` are the
  kinds of units that a compiler can demand. All crates are compiled in the
  original and again in what each retention leaves of them. The state of these
  runs is small because the hard part is inside a step: every state of a crate
  is a whole analysis of it. Two assumptions of `MCRewriting` say that the
  crates compile (`CratesCompile`) and that their calls select the rule they are
  written with (`CallsSelect`).

## 5. Fairness

The closures and `compute_retention` are one thread that does not wait: weak
fairness of `Close`, or of `Next`, says that it runs on. `MacroProducts` leaves
the caller without fairness. A reduction that is not killed runs on
(`WF_vars(JobStep(t))`); other programs, kills and power failures are under no
fairness. Launchers run on, and one that waits for `preparation.lock` gets it
when it becomes free again and again (`SF_vars(Lock(l))`): the code blocks in
`File::lock`, and the operating systems queue the waiters. In `SnapshotStores`
weak fairness of the steps of threads and launchers is enough: every process
takes the lock of the parent directory a bounded number of times, so it is free
for good in the end. In `ReducerSpec` the
reducer's own steps and the compiler's callbacks run on: rustc calls each of them
after a finite number of errors (`MaxErrors`) or gives up, which is `Session`. Of
a project no progress is claimed: Cargo decides what it runs.

## 6. What the violated runs show

* `compiler_update_race` (a defect in the code). `record_compiler_build_identity`
  reads the revision and the digest of the patch queue *after* bootstrap
  (`tools/rid.rs:612`). An update of the repository during the build makes the
  launcher record the identity of the new patches for a build of the old ones.
  The next launcher moves the checkout, finds the identity it expects and both
  sysroots, and skips the build, although "only a completed build for this
  verified checkout can supply both compiler stages" (comment at
  `tools/rid.rs:651`) and the compiler is said to be updated automatically
  (`docs/README.md:17`). `build.rs` of the reducer notices the wrong queue and
  refuses to build, so the launcher fails from then on until the build directory
  is removed. With `UpdateAnytime = FALSE` the property holds.
* `compiler_unrecorded` (code and documentation differ). The revision of the
  checkout is recorded only after the checkout has moved (`rid.rs:401-402`), and
  the base of an empty checkout is never recorded. After a kill in between and an
  update of the repository to another base, every launcher stops with an
  unknown revision, although the user changed nothing; `docs/README.md:17` names
  local changes as the reason for stopping.

Another difference of this kind has no run of its own, because the model states
it and the property `StopsOverChangesOnly` excludes it by name (`torn`). A kill or a
full disk in the middle of `git checkout --detach` (`rid.rs:426-436`, called at 340 and
401) leaves new files under the old `HEAD`, and one in the middle of
`git submodule deinit` or of a submodule update of bootstrap leaves half of a submodule.
Every later launcher stops at `rid.rs:350-356` with "is not clean" until somebody cleans
the checkout by hand, although the user changed nothing. The comment at
`rid.rs:391` promises less: that the previous commits of *clean submodules* are never
presented as manual changes. That is what the property and its theorem say.

The window in `FileOutput` is not a difference: `raced` marks the jobs whose input
was changed after the last check had read it, and the properties exclude them.
`docs/specification.md:73` says that changes during the analysis are detected,
and that there is no mutual exclusion with other programs.

## 7. Proofs

Each component has a proof module `<component>_proofs` (the source closure, a part of
the retention, shares that of `RetentionFixpoint`), for every value of the
constants that the named assumptions of the component's module allow. Sets are
finite only where an assumption says so, and no bound of section 4 is assumed
beyond being a number. The inductive invariants were checked by TLC on the runs of
section 4, or smaller instances of them, before they were proved.

All of them follow one scheme: `IInv` is a conjunction of named parts; `InitIInv`
and one lemma per action show that it is inductive, with one step per part;
the property follows from it. What the parts say, and why the property alone is
not enough, is below for each module.

### Source closure

The second part of `RetentionFixpoint_proofs` proves for every set of units and
every family of constraint sets (finite or not), from `ConstraintAssumption` alone
(the constraints are well formed, `NoUnit` is no unit):

| theorem | states |
|---|---|
| `SourceTypeCorrect` | `SourceSpec => []SourceTypeOK` |
| `ClosureComplete` | `SourceSpec => []ClosedWhenIdle` |
| `ClosureLeast` | `SourceSpec => []LeastRetention` |
| `NeverFails` | `SourceSpec => []NeverUnretained` |
| `VisitsOnce` | `SourceSpec => []VisitedOnce` |
| `ClosureImplements` | `SourceSpec => ImplementsLeastClosure` |

`PromiseIsLeast` is about the promise alone (`LeastClosure`), without any
assumption: whenever it has settled, what is kept is exactly what the constraints
force on what was asked for. Together they say that a caller of `add` and `close`
may forget queues and deltas: after `close` it has the least closed set around
what it handed over, whatever the order of its calls.

The formulas are not inductive as they stand. `ClosedWhenIdle` says nothing
while `close` runs, so the invariant has to say what has been achieved half-way:

* `QueueInv`: a retained unit is with the caller, in the queue, under visit or
  done, and in one place only;
* `ServedInv`: a unit whose visit has begun has its group and its directed
  requirements retained already;
* `JointInv`: of two visited triggers of a joint requirement, the later visit
  finds the requirement met or still has it on its list. This is why it is
  enough that `close` looks at a joint requirement only when the *other* trigger
  is retained: the argument needs that the index lists the requirement under
  both triggers (`ByJointSymmetric`), and breaks without it (the mutant
  `ByJointLeftOnly`);
* `StatusInv`: an error is an ill-formed grouping and nothing else.

`SourceIInv` is their conjunction with `SourceTypeOK` and `LeastRetention`. `SourceInitIInv` and
`SourceNextIInv` (one lemma per action, under it one step per conjunct) make it
inductive; when the closure is idle and everything was delivered, every
retained unit is done, and `ClosedWhenIdle` follows from `ServedInv` and
`JointInv` (`IInvClosed`). `LeastRetention` is preserved because a visit only
adds what every closed set with the visited unit contains (`ClosedStep`).

`ClosureImplements` maps a state to what was asked for (`inputs`), what is
retained, and a mode: an error is "refused", undelivered units or a running
`close` are "growing", rest is "settled". `Retain` maps to `Ask`, `Visit` and
`VisitJoint` to `Grow`, because `LeastRetention` holds after the step, `Return`
to `Settle`, because `ClosedWhenIdle` does, and everything else to a stutter.
The invariant is thus used twice: to prove the two properties, and as the reason
why the steps match.

### Reachability

From `GraphAssumption` (graphs are well formed, nothing is its own parent, units,
expansions and sites are finitely many: the counters are numbers).

| theorem | states |
|---|---|
| `TypeCorrect` | `Spec => []TypeOK` |
| `SurvivalIsGreatest` | `Spec => []SurvivalAgrees` |
| `LaneIsLeast` | `Spec => []LaneExact` |

`TypeOK` ties each counter to the set it counts; that a counter reaches zero when
the set is empty is a fact about cardinalities (`SizeOfCommon` and its companions).
Both properties speak of a closure at rest. Half-way, `SiteInv` says that what is not
dirty is up to date; `SurviveInv` that a component survives only when its sources and
its parents are there, and that one for which they are is in the queue;
`EdgeInv` that an edge that may fire, or has to be refused, is in the queue unless its
node is; `ErrorInv` what an error means; `LeastInv` that nothing is required but what
every closed lane around the inputs contains.

`SurvivalAgrees` compares with the *greatest* set that is closed, so the invariant
gives one half only (what survives is closed). The other half, `SurvivesComplete`, is
an induction: of the components that should survive and do not, take one with the
smallest set of ancestors; its parents survive, so it would be in the queue. It is made
with the well-foundedness of strict inclusion among finite sets (`WFMin` of the
library), and needs that the ancestors of a parent in another component are fewer,
which is where strongly connected components come in.

### MacroProducts

From `FactAssumption` (records of facts are well formed, a producer's demand names a
producer, no definition is an expansion, contributors are finitely many) and
`FactsAccepted` (what `new_with_dag_and_output_meaning` lets through: a product belongs
to one group, a shell depends on products of its own producer, contributors form a
DAG). Nodes, units, groups and facts may be infinitely many.

| theorem | states |
|---|---|
| `TypeCorrect` | `Spec => []TypeOK` |
| `IndexesMatch` | `Spec => []IndexesAgree` |
| `DemandsAreExact` | `Spec => []DemandsExact` |

Both properties compare a closure at rest with definitions from scratch
(`ActiveGroups`, `MeaningfulProducers`, `DemandedExpansions`), which `MeaningLeast` and
`DemandLeast` turn into least sets under named rules. The invariant has three layers.

* *What has left a queue has had its effect*: `ProductInv`, `PresenceInv`,
  `TriggerInv`, `ActualInv`, `RequestInv`, `CompleteInv`, `GroupInv`, `DemandInv`, one
  part for each rule. A step disturbs only the part of the queue it pops from:
  `Applied` says what the helpers of `close` do together, and the `Frame` lemmas that
  everything whose queue was not touched stays true.
* *Meaning comes*: `process_macro_trigger` marks the groups it requests as having a
  meaningful dependency and does not look at those that exist already, whose producer
  would have to become meaningful. `MeaningInv` says why that is right: the producer
  is meaningful, or another group of it that has output of its own was requested and
  will make it so. It is kept because `close` passes on the meaning of new
  output before it looks at a new presence: once anything is materialized, no
  meaning waits outside the phases of `PhaseInv`. With the phases in another order
  (the mutant `PhasesPresenceLate`) a group stays without its meaning.
* *Nothing but what is forced*: `LeastInv` says that every triple of nodes, actual
  nodes and units that satisfies the constraints and holds what the caller added holds
  the whole state, its meaning, demands and requested contributors included
  (`Within`). A visit keeps it because a solution has whatever the step asks for
  (`Allowed`, `TriggerInSolution`, `ClausesInSolution`).

At rest the queues are empty and the first two layers give that the state itself is
a solution (`RestClosed`), so that `LeastInv` compares it with itself for
`IndexesAgree` and with every smaller one for `DemandsExact`. That no contributor is left
behind (`RestComplete`) is an induction over the DAG, made like `SurvivesComplete`:
of the contributors that should be complete and are not, one has the smallest
closure.

### RetentionFixpoint

From `SystemAssumption` (rules and clauses are well formed); systems may be infinite.

| theorem | states |
|---|---|
| `TypeCorrect` | `Spec => []TypeOK` |
| `SelectionWaits` | `Spec => []SelectsAtFixpoint` |
| `RetentionIsComplete` | `Spec => []ResultComplete` |
| `RetentionIsLeast` | `Spec => []NothingSuperfluous` |

The invariant is an account of every fact. `SeenInv`: a fact is known to a consumer
that reads its lane, or is in the part of the log that this consumer's cursor has not
passed. `SettledInv`: what a consumer's rules derive from what it has seen is there,
unless it still has something to read (the macro closure may be told some steps
earlier). `MarkInv`: where the outer loop has passed a reader, that reader has
read up to the mark, which is why clearing the log loses nothing. `SelectInv`: the
selection starts from an empty log and ends with empty queues. `ClauseInv`: a clause
whose trigger was seen is active, a finished clause is satisfied, and every other
active one is queued. `TokenInv` keeps the same account for the macro repetitions.
`LeastInv` bounds the result by every stable set around the roots and the
selections. The error exit (a selected choice that is there already) is
unreachable, and that is part of the invariant.

### FileOutput

From `FileAssumption` (the domain of `Reduce`; the torn text is no text).

| theorem | states |
|---|---|
| `TypeCorrect` | `Spec => []TypeOK` |
| `PathsAreComplete` | `Spec => []NeverTorn` |
| `NothingElseIsReplaced` | `Spec => ReplacesWhatItReduced` |
| `PermissionsStay` | `Spec => KeepsPermissions` |
| `OneJobWins` | `ReducesOnce => (Spec => []OneWinner)` |

`JobInv` is an invariant of one job and the files it has seen: which of its fields
its place has set (`StageOK`), which texts it holds (`TextOK`), how much of its
temporary file is ready, in the order of `replace` (`TempOK`), and that the input still
is the file that was checked unless the job is `raced` (`RaceOK`). `FileInv` says
that whatever a path or a handle names is durable and complete and that no temporary
file is named by a path; `CreatedInv` and `WonInv` say who has won. Interference is
thus stated once: a step of another job, of an editor or of the system is a change
of files under which `JobOK` of the job at hand is preserved.

`OneJobWins` needs that reducing a reduction removes nothing
(`ReducesOnce`): a second job that has read the result of the first would otherwise
rightly replace it again. The reducer of the runs has this property, and the tests of
the repository expect it ("must be byte-idempotent", `tests/acceptance.rs:421` and
others); it is a fact about all of the analysis, so it stays a hypothesis of this one
theorem.

### CompilerPreparation

From `VersionAssumption` (revisions of different versions differ) and
`LauncherAssumption` (the absence of a launcher is no launcher).

| theorem | states |
|---|---|
| `TypeCorrect` | `Spec => []TypeOK` |
| `OnlyChangesStop` | `Spec => StopsOverChangesOnly` |
| `LocalWorkStays` | `Spec => KeepsLocalWork`, ignored files in submodules included |
| `PreparationIsComplete` | `~UpdateAnytime => (Spec => []PreparedForUse)` |

The lock makes one launcher the only writer, which `TypeOK` includes, so every part is
about the holder of the lock. `CheckoutInv`: submodules agree with a
checkout that is neither changed nor the user's, and are detached before it moves;
`MoveInv`: a checkout that is about to move has nothing of the user's in it, and its
submodules have no ignored files. They are inductive whatever happens, and neither
speaks of `torn`: what an interrupted command leaves breaks none of them. That a
launcher which stops as not clean saw a change of the user's or the remains of a
command is then `CheckoutInv` in the state in which `Status` looks.
`PatchedInv` (what the launcher has read is still what the repository says) and `IdentityInv` (an identity of the current version vouches for
a finished build of it, and is absent from the first step that touches the build to
the last) are so only when no update falls into a preparation. That hypothesis is
necessary: the run `compiler_update_race` is the counterexample without it.

### SnapshotStores

From `ProcessAssumption` (names of processes, actors, stores and copies do not clash,
no two launchers share a reducer).

| theorem | states |
|---|---|
| `TypeCorrect` | `Spec => []TypeOK` |
| `CopiesStay` | `Spec => []LeaseIntact` |
| `DeadStoresGo` | `Spec => []StaleRemoved` |
| `LauncherCleansUp` | `Spec => CleanedUp` |

`LifeInv`: who works is up. `DiskInv`: a copy lies in a root, a root has an owner
file, and the store of a live reducer is locked by it. `HolderInv`: who is about to
remove a root holds its owner's lock or has seen that there is no owner file, and the
store is not one in use; this is the step on which everything depends, because process
numbers recur and a name says nothing about who uses it. `LeaseInv`: copies of a
process have names of their own, and one that is being written or given up is nobody
else's. `StaleInv` follows the scan of the reaper: what was dead when the lock was
taken is gone, still to be visited, or being removed.

### Reducer

From `PlanAssumption` (the absence of a compilation is not one) and
`ProgramAssumption` (the nodes of a program are those of its syntax tree, each listed
after the one around it). Programs, options, numbers of errors and the plans of Cargo
are arbitrary.

| theorem | states |
|---|---|
| `TypeCorrect` | `ReducerSpec => []TypeOK` |
| `WrittenIsAccepted` | `ReducerSpec => []WrittenIsVerified` |
| `DenialIsReported` | `ReducerSpec => []DenialIsNotAnError` |
| `CoordinatesJoin` | `ReducerSpec => []JoinedInOneText` |
| `ReplacedIsSelected` | `ReducerSpec => []UpdateIsSelected` |
| `RejectedIsCompiled` | `ReducerSpec => []RejectsCompiledCodeOnly` |

`PhaseInv` says what each place of a session has behind it, `CauseInv` that the guards
remember every denial that nothing precedes and none that follows an error (the
heart of `DenialIsNotAnError`, which is about the order of two events many steps
apart), `ResultInv` what the callbacks may have said, `CoordsInv` how far the
translation of coordinates has come, `OutcomeInv` what was returned. `ProjectInv` says
that one compilation at most has written the result file, and that it is the selected
one. `RejectInv` says which validator has rejected a program before its expansion was
over. `RejectedIsCompiled` needs no induction over the tree: the recursive function
`Active` satisfies its equation because the function that looks for a whole path of
nodes that are on does (`ActiveEquation`), so the active nodes themselves are a path to
the crate; and the crate is active, or one of them would be first and have no active
node around it (`ActivePath`).

### DecisionSnapshot

From `NodeAssumption` (finitely many nodes, which are numbers; their kinds do not
overlap), `OrderAssumption` (`SetCode` tells sets apart, the empty one is 0) and
`PlanAssumption` (section 3). Programs, plans and candidates are otherwise
arbitrary, and of any size.

| theorem | states |
|---|---|
| `TypeCorrect` | `Spec => []TypeOK` |
| `AcceptedMeansSame` | `Spec => []AcceptedIsSame` |
| `SameMeansAccepted` | `Spec => []SameIsAccepted` |

A comparison has four steps, so the invariant is short: `IInv` says that a
snapshot which exists is the one of this plan or this candidate and has not failed,
and that an outcome other than an error is their difference. All the work is
in what the steps compute, in both directions.

*An accepted reduction is the same.* The snapshots are first flattened to
observations, one per edge and site. `Built` says that a snapshot is then the
`Obligations` of what is observed, told in keys: splitting edges for items selected
in the source, and taking mentions away that a use subsumes, is the same before
and after. `Build` returns no snapshot when there are fewer keys than nodes, so
keys tell nodes apart (`KeysDistinct`, a fact about cardinalities). Two equal sets
of decisions under such keys pair the expansions off, parent with parent
(`Renaming`), and equal edges in keys are then equal observations under this
renaming (`KeysRename`, `SameSayings`). That what is looked at is all there is
(`OriginalNodes`, `ReducedNodes`) is where the seeds matter: the reduced program is
searched from every definition, not only from the roots, and with the roots alone
(the mutant `ReducedSeedsRoots`) a new definition hides. Nothing is used of how
ordinals are found: whatever keys the expansions get, an acceptance is
justified.

*The same is accepted.* Here everything depends on the ordinals. First, no
snapshot fails (`SnapshotsBuilt`): parents are kept with what is below them, the
evidence that orders a group tells its members apart (`EvidenceOrders`), without
evidence the ordinals differ once outputless siblings are subtracted
(`FilteredCount`: it is the number of siblings with output that come before), and so
the keys of two expansions differ (`SnapshotOrdinals`, `ExpansionKeysDiffer`).
`FilteredCount` is the reason for `OutputAbove` and for siblings numbered from
zero. Second, programs that were decided the same give the same keys
(`KeysAgreeInBoth`): lineages and ranks are equal because parents and roles are
(`LineagesAgree`, `RanksAgree`), and who uses or generated an expansion can be
read off the observations although a mention may hide behind a use
(`UsersHeard`, `UsersAgree`), hence the evidence is equal (`EvidenceAgrees`), or,
if nothing tells siblings apart, the order that was kept (`OrdinalsAgree`). Third,
equal sayings are equal snapshots: flattening loses nothing, because
a snapshot has one edge for a relation (`TidySnapshot`, `FlatTidy`). `AgreeingIsEqual`
combines the three.

Keys, lineages and what edges reach are recursive functions. Their equations
are derived, not assumed: the functions are defined along the parents of an
expansion, which are well founded (`LineageEquation`, `KeysSomewhere`,
`KeysEquation`), or along the rounds of a search that has no more rounds than there
are nodes (`ReachRounds`, `ReachClosed`). Of the codes of subtrees only that
they are equal for equal shapes and that ranks are numbers is needed, not what the
recursion computes; when ranks are used as evidence, the code itself checks that
they are distinct.

## 8. Only model-checked

At the bounds of section 4:

* Liveness under fairness, which is out of the prover's reach, as `ENABLED` is:
  `Terminates`, `JobEnds`, `LauncherEnds`, `PrepareEnds`, `ReductionEnds`.
* The invariants of `Rewriting` and `ReducedSession`: `RefinementIsValid`,
  `NeverFails`, `IndexIsCurrent`, `MeaningKept`, `TokensReturn`,
  `OnlyUnretainedGoes`, `IdentitiesSurvive`, `ReferencesSurvive`. Both modules
  compose the expander, the collector and the rewrite, which walk syntax trees
  with `RECURSIVE` operators; the provers do not see through these, and what they
  compute for every tree would be an induction over data.
* That subtree ranks are different for different shapes, which no property
  needs (the code checks that they are before it uses them).

The type invariants of the proved modules are theorems, so their configurations do
not name them.

## 9. Not modelled

* **Inside modelled components.** `FileOutput`: the length of a file is part of
  its content; the rename itself is not undone by a power failure, and what
  editors write is durable at once. `CompilerPreparation`: a git or bootstrap process
  that outlives its killed launcher; versions of the repository only move
  forward; the user works in the checkout only while no launcher holds the lock;
  which files an interrupted command has written (`torn` is whether there are any,
  a stale `index.lock` is a failure of the next command); ignored files outside
  submodules, which `--no-overwrite-ignore` protects by failing.
  `MacroProducts`: the validation of provenance. `DecisionSnapshot`: external
  crates, and payloads beyond equality. `SnapshotStores`: platforms other than
  Windows, failures of the operating system to release a lock.
  `RetentionFixpoint`: how the ranks of choices are computed.
* **Inside the reduction pipeline.** The digests and the format of an artifact,
  the arguments that are passed to rustc, the JSON of Cargo: values with the
  differences that the code looks at.
* **Inside the inventory.** Characters that no delimiter, word or glued token
  depends on; attribute macros, foreign attributes, doc comments and literals.
  The texts of the derive crate end with a blank: an item that is the whole text
  has the range of the crate, and `smallest_unique_active_unit`
  (`source.rs:429`) then refuses the derive's helper. No document promises that
  such a text is accepted.
* **Inside macros.** The expander is external, and its fragments are single
  words; its metavariable expressions, fragments with structure, and macros of
  other crates are left out. The tries, interval and Euler indexes of
  `provenance.rs` and the persistent segment trees of `source_sites.rs` are
  represented by what they return.
* **Inside definitions.** The compiler's definitions are external: every product
  of a macro is an impl without a name or a use. Definitions of other crates,
  generic parameters and arguments, opaque types, closures inside constants, and
  the nodes for proofs and monomorphizations are left out. `IdentitiesSurvive`
  does not speak of crates with a call that the compiler did not report in full
  (`FullyObserved`): there the second session may find a basis that the first
  did not have (`provenance.rs:3925`) and refuse.
* **Inside constraints.** External artifacts, proof facts and monomorphizations;
  `RetentionFixpoint` takes any rules.
* **Planned** (section 2): the collection of monomorphizations, external
  requirements as far as their rules need no metadata, the promise of
  `Reachability`.
* **Not planned.** Selection observation (`selection.rs`, `compiler_terms.rs`)
  turns the trait solver's traces into terms: the terms are values of other
  modules. External requirements read crate metadata, of which the repository
  has no small instances; their result is one fact of `ReductionSession`. The
  command line has no state. The patches of rustc are not this program's code.
