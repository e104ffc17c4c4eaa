--------------------------- MODULE MacroRepetitions ---------------------------
(***************************************************************************)
(* Deleting elements of a macro's repetitions                              *)
(* (src/src/rewrite/macro_repetition.rs).  The elements of a retained      *)
(* invocation's repetition that nothing needs are deleted in runs, each    *)
(* with a separator.  A deletion may change the tokens beside it, so an    *)
(* index of the active deletions is kept while the retention grows: runs   *)
(* that touch form a component, runs whose lexing depends on the same      *)
(* window a cohort, and only those that a new unit disturbed are judged    *)
(* again.  The elements of a component or cohort that fails are retained.  *)
(*                                                                         *)
(* A repetition is [parent, elements, inputRange, minimum, maximum], an    *)
(* element [unit, separatorAfter]; a maximum of none is a large number.    *)
(***************************************************************************)
EXTENDS SourceInventory

\* The maximal runs of elements that are not retained.
UnretainedRuns(facts, kept) ==
    {run \in [first: DOMAIN facts.elements, last: DOMAIN facts.elements] :
        /\ run.first <= run.last
        /\ run.first .. run.last \cap kept = {}
        /\ run.first > 1 => run.first - 1 \in kept
        /\ run.last < Len(facts.elements) => run.last + 1 \in kept}

ValidCount(facts, count) == facts.minimum <= count /\ count <= facts.maximum

\* Mutant: a run from the first element on takes the whole input.
RunRangeFromTheFirst(inventory, facts, run) ==
    LET element(k) == Full(inventory, facts.elements[k].unit)
        after == facts.elements[run.last].separatorAfter
        before == IF run.first > 1 THEN facts.elements[run.first - 1].separatorAfter
                  ELSE {}
    IN CASE run.first = 1 -> facts.inputRange
         [] run.first > 1 /\ after # {} ->
               ByteRange(element(run.first).start, (CHOOSE s \in after : TRUE).end)
         [] run.first > 1 /\ after = {} /\ before # {} ->
               ByteRange((CHOOSE s \in before : TRUE).start, element(run.last).end)
         [] OTHER -> ByteRange(element(run.first).start, element(run.last).end)

\* The text a run takes with it: all of the input when nothing stays, else the
\* separator after it or, at the end of the list, the one before it.
RunDeletionRange(inventory, facts, run) ==
    LET element(k) == Full(inventory, facts.elements[k].unit)
        whole == run.first = 1 /\ run.last = Len(facts.elements)
        after == facts.elements[run.last].separatorAfter
        before == IF run.first > 1 THEN facts.elements[run.first - 1].separatorAfter
                  ELSE {}
        start == element(run.first).start
        end == element(run.last).end
    IN CASE whole -> facts.inputRange
         [] ~whole /\ after # {} -> ByteRange(start, (CHOOSE s \in after : TRUE).end)
         [] ~whole /\ after = {} /\ run.last = Len(facts.elements) /\ before # {} ->
               ByteRange((CHOOSE s \in before : TRUE).start, end)
         [] OTHER -> ByteRange(start, end)

\* The deletions of one repetition, from nothing but what is retained.
PlannedDeletions(inventory, facts, retained) ==
    LET kept == {k \in DOMAIN facts.elements : facts.elements[k].unit \in retained}
    IN IF facts.parent \notin retained THEN {}
       ELSE {RunDeletionRange(inventory, facts, run) : run \in UnretainedRuns(facts, kept)}

PlanFails(inventory, facts, retained) ==
    /\ facts.parent \in retained
    /\ ~ValidCount(facts, Cardinality({k \in DOMAIN facts.elements :
                                          facts.elements[k].unit \in retained}))

-----------------------------------------------------------------------------
(* The index.  A component is a set of deletions, {} when it is gone.      *)

InitialRequirements(inventory) ==
    [known |-> {},
     repetitions |-> [r \in DOMAIN inventory.repetitions |->
                        [active |-> FALSE, kept |-> {}, runs |-> {}]],
     deletions |-> {}, components |-> <<>>, cohorts |-> {},
     dirtyComponents |-> {}, dirtyCohorts |-> {}, failed |-> FALSE]

ComponentRange(component) ==
    ByteRange(Head(InOrder(component)).start, Last(InOrder(component)).end)

RangesOf(deletions) == {d.range : d \in deletions}

\* A deletion joins the components it touches; of two, the larger takes in the
\* members of the smaller.
InsertDeletion(guard, index, r, run, range, window) ==
    LET touching == {d \in index.deletions : d.range.end = range.start
                                             \/ d.range.start = range.end}
        joined == {d.component : d \in touching}
        size(c) == Cardinality(index.components[c])
        onTheLeft == {d.component : d \in {t \in touching : t.range.end = range.start}}
        target == IF joined = {} THEN Len(index.components) + 1
                  ELSE CHOOSE c \in joined : \A other \in joined \ {c} :
                            \/ size(c) > size(other)
                            \/ size(c) = size(other) /\ c \in onTheLeft
        members == {range} \cup UNION {index.components[c] : c \in joined}
        components == IF joined = {} THEN Append(index.components, members)
                      ELSE [c \in DOMAIN index.components |->
                               CASE c = target -> members
                                 [] c \in joined \ {target} -> {}
                                 [] OTHER -> index.components[c]]
        placed == {IF d.component \in joined THEN [d EXCEPT !.component = target] ELSE d :
                        d \in index.deletions}
        added == [range |-> range, repetition |-> r, run |-> run,
                  component |-> target, window |-> window]
        broken == \/ ~HasBoundary(guard, range)
                  \/ IsEmptyRange(range)
                  \/ \E d \in index.deletions : d.range.start < range.end
                                                /\ range.start < d.range.end
                  \/ Cardinality(touching) = 2 /\ Cardinality(joined) = 1
    IN IF broken THEN [index EXCEPT !.failed = TRUE]
       ELSE [index EXCEPT !.deletions = placed \cup {added},
                          !.components = components,
                          !.cohorts = @ \cup {<<window, range>>},
                          !.dirtyComponents = @ \cup {target},
                          !.dirtyCohorts = @ \cup {window}]

InsertRange(guard, index, r, run, range) ==
    InsertDeletion(guard, index, r, run, range, DependencyWindow(guard, range))

InsertActiveDeletion(inventory, guard, index, r, run) ==
    InsertRange(guard, index, r, run,
                RunDeletionRange(inventory, inventory.repetitions[r], run))

\* Mutant: a component never falls apart.
RemovedWithoutSplit(inventory, index, r, run) ==
    LET range == RunDeletionRange(inventory, inventory.repetitions[r], run)
        removed == CHOOSE d \in index.deletions : d.range = range
        cohorts == index.cohorts \ {<<removed.window, range>>}
    IN [index EXCEPT
          !.deletions = @ \ {removed},
          !.components[removed.component] = @ \ {range},
          !.cohorts = cohorts,
          !.dirtyCohorts = @ \cup {w \in {removed.window} : \E c \in cohorts : c[1] = w},
          !.dirtyComponents = @ \cup {removed.component}]

\* A deletion leaves its component, which falls apart where the deletion was
\* the link; the larger part keeps the number.
RemoveRange(index, r, run, range) ==
    LET removed == CHOOSE d \in index.deletions : d.range = range
        rest == index.components[removed.component] \ {range}
        lower == {x \in rest : Before(x, range)}
        upper == rest \ lower
        splits == /\ lower # {} /\ upper # {}
                  /\ Last(InOrder(lower)).end # Head(InOrder(upper)).start
        stay == IF Cardinality(lower) >= Cardinality(upper) THEN lower ELSE upper
        leave == rest \ stay
        fresh == Len(index.components) + 1
        others == index.deletions \ {removed}
        cohorts == index.cohorts \ {<<removed.window, range>>}
        apart == [index.components EXCEPT ![removed.component] =
                                            IF splits THEN stay ELSE rest]
        broken == ~\E d \in index.deletions : d.range = range /\ d.repetition = r
                                              /\ d.run = run
    IN IF broken THEN [index EXCEPT !.failed = TRUE]
       ELSE [index EXCEPT
               !.deletions = {IF splits /\ d.range \in leave
                              THEN [d EXCEPT !.component = fresh] ELSE d : d \in others},
               !.components = IF splits THEN Append(apart, leave) ELSE apart,
               !.cohorts = cohorts,
               !.dirtyCohorts = @ \cup {w \in {removed.window} :
                                           \E c \in cohorts : c[1] = w},
               !.dirtyComponents = @ \cup (IF splits THEN {removed.component, fresh}
                                           ELSE {removed.component})]

RemoveActiveDeletion(inventory, index, r, run) ==
    RemoveRange(index, r, run, RunDeletionRange(inventory, inventory.repetitions[r], run))

RECURSIVE InsertRuns(_, _, _, _, _)
InsertRuns(inventory, guard, index, r, runs) ==
    IF runs = {} \/ index.failed THEN index
    ELSE LET first == CHOOSE run \in runs : \A other \in runs : run.first <= other.first
         IN InsertRuns(inventory, guard,
                       InsertActiveDeletion(inventory, guard, index, r, first),
                       r, runs \ {first})

\* The parent of a repetition is retained: its runs become active deletions.
ActivateRepetition(inventory, guard, index, r) ==
    LET facts == inventory.repetitions[r]
        kept == {k \in DOMAIN facts.elements : facts.elements[k].unit \in index.known}
        runs == UnretainedRuns(facts, kept)
    IN IF ~ValidCount(facts, Cardinality(kept)) THEN [index EXCEPT !.failed = TRUE]
       ELSE InsertRuns(inventory, guard,
                [index EXCEPT !.repetitions[r] =
                    [active |-> TRUE, kept |-> kept, runs |-> runs]],
                r, runs)

\* An element of an active repetition is retained: its run is cut in two.
RetainElement(inventory, guard, index, r, element) ==
    LET state == index.repetitions[r]
        facts == inventory.repetitions[r]
        run == CHOOSE x \in state.runs : x.first <= element /\ element <= x.last
        parts == {x \in {[first |-> run.first, last |-> element - 1],
                         [first |-> element + 1, last |-> run.last]} : x.first <= x.last}
        kept == state.kept \cup {element}
        without == RemoveActiveDeletion(inventory,
                      [index EXCEPT !.repetitions[r] =
                          [active |-> TRUE, kept |-> kept,
                           runs |-> (state.runs \ {run}) \cup parts]],
                      r, run)
    IN IF element \in state.kept THEN index
       ELSE IF ~ValidCount(facts, Cardinality(kept)) THEN [index EXCEPT !.failed = TRUE]
       ELSE InsertRuns(inventory, guard, without, r, parts)

RECURSIVE RetainElements(_, _, _, _, _)
RetainElements(inventory, guard, index, r, elements) ==
    IF elements = {} \/ index.failed THEN index
    ELSE LET first == CHOOSE e \in elements : \A other \in elements : e <= other
         IN RetainElements(inventory, guard,
                           RetainElement(inventory, guard, index, r, first),
                           r, elements \ {first})

\* The elements of repetition r among some units.
ElementsAmong(inventory, r, units) ==
    LET elements == inventory.repetitions[r].elements
    IN {k \in DOMAIN elements : elements[k].unit \in units}

\* Repetitions that were active take in their new elements, in order.
RECURSIVE RetainFrom(_, _, _, _, _)
RetainFrom(inventory, guard, index, newly, r) ==
    IF r > Len(inventory.repetitions) THEN index
    ELSE LET elements == IF index.repetitions[r].active
                         THEN ElementsAmong(inventory, r, newly) ELSE {}
         IN RetainFrom(inventory, guard,
                       RetainElements(inventory, guard, index, r, elements),
                       newly, r + 1)

\* Then those whose parent is now retained become active.
RECURSIVE ActivateFrom(_, _, _, _, _)
ActivateFrom(inventory, guard, index, newly, r) ==
    IF r > Len(inventory.repetitions) \/ index.failed THEN index
    ELSE LET changed == \/ inventory.repetitions[r].parent \in newly
                        \/ ElementsAmong(inventory, r, newly) # {}
             activates == /\ changed
                          /\ ~index.repetitions[r].active
                          /\ inventory.repetitions[r].parent \in index.known
         IN ActivateFrom(inventory, guard,
                         IF activates THEN ActivateRepetition(inventory, guard, index, r)
                         ELSE index,
                         newly, r + 1)

-----------------------------------------------------------------------------
(* One wave of requirements. *)

\* The units of the elements that some deletions would delete.
DeletionElements(inventory, index, ranges) ==
    UNION {{inventory.repetitions[d.repetition].elements[k].unit :
                k \in d.run.first .. d.run.last} :
           d \in {x \in index.deletions : x.range \in ranges}}

CohortOf(index, window) == {c[2] : c \in {x \in index.cohorts : x[1] = window}}

\* Mutant: deletions that touch are judged one by one only.
NoFailingComponents(guard, index) == {}

FailingComponents(guard, index) ==
    {c \in index.dirtyComponents :
        /\ index.components[c] # {}
        /\ ~DeletionPreservesIdentity(guard, ComponentRange(index.components[c]))}

FailingCohorts(guard, index) ==
    {w \in index.dirtyCohorts :
        /\ CohortOf(index, w) # {}
        /\ ~DeletionsPreserveIdentity(guard, CohortOf(index, w))}

\* The index after the newly retained units.
Absorb(inventory, guard, index, newly) ==
    LET clean == [index EXCEPT !.known = @ \cup newly,
                               !.dirtyComponents = {}, !.dirtyCohorts = {}]
    IN ActivateFrom(inventory, guard,
                    RetainFrom(inventory, guard, clean, newly, 1), newly, 1)

\* The elements that must stay because deleting them would change other tokens.
ForcedUnits(inventory, guard, index) ==
    UNION ({DeletionElements(inventory, index, index.components[c]) :
                c \in FailingComponents(guard, index)}
           \cup {DeletionElements(inventory, index, CohortOf(index, w)) :
                    w \in FailingCohorts(guard, index)})

=============================================================================
