---------------------------- MODULE SourceRewrite ----------------------------
(***************************************************************************)
(* The deterministic deletion of everything that is not retained           *)
(* (src/src/rewrite.rs): which ranges go, what is left, and where each     *)
(* offset of the result came from.  A step that can fail yields an outcome *)
(* [ok, deletions].                                                        *)
(*                                                                         *)
(* A derive target is [target, complete, attributes], an attribute of it   *)
(* [attribute, elements, direct]; a capture slot is [unit, rule, triggers, *)
(* inputs] and an input of it [invocation, capture, deletion].             *)
(***************************************************************************)
EXTENDS MacroRepetitions

Fails == [ok |-> FALSE, deletions |-> {}]
Deletes(ranges) == [ok |-> TRUE, deletions |-> ranges]

AllOf(outcomes) ==
    IF \E o \in outcomes : ~o.ok THEN Fails
    ELSE Deletes(UNION {o.deletions : o \in outcomes})

Elements(facts) == {facts.elements[k] : k \in DOMAIN facts.elements}

\* The root is retained, a unit with its parent, a group as a whole.
ValidRetention(inventory, retained) ==
    /\ retained \subseteq Units(inventory)
    /\ \A u \in Units(inventory) : Parent(inventory, u) = 0 => u \in retained
    /\ \A u \in retained : Parent(inventory, u) \in retained \cup {0}
    /\ \A u, v \in Units(inventory) :
            GroupOf(inventory, u) = GroupOf(inventory, v) =>
                (u \in retained <=> v \in retained)

MatcherElements(inventory) ==
    UNION {{e.unit : e \in Elements(inventory.repetitions[r])} :
                r \in DOMAIN inventory.repetitions}

CompleteAttributes(inventory) ==
    UNION {t.attributes : t \in {x \in inventory.deriveTargets : x.complete}}

\* The outermost units that are not retained, but for those that share a list.
FrontierDeletions(inventory, retained) ==
    LET listed == MatcherElements(inventory)
                  \cup UNION {Elements(a) : a \in CompleteAttributes(inventory)}
        frontier == {u \in Units(inventory) \ (retained \cup listed) :
                        /\ KindOf(inventory, u) # "UseLeaf"
                        /\ Parent(inventory, u) \in retained}
    IN IF \E u \in frontier : IsEmptyRange(Full(inventory, u)) THEN Fails
       ELSE Deletes({Full(inventory, u) : u \in frontier})

\* What deleting one segment of a list takes with it, if it can be deleted.
WithComma(segment) ==
    CASE segment.followingComma # {} ->
            Deletes({ByteRange(segment.range.start, c.end) : c \in segment.followingComma})
      [] segment.followingComma = {} /\ segment.previousComma # {} ->
            Deletes({ByteRange(c.start, segment.range.end) : c \in segment.previousComma})
      [] OTHER -> Fails

-----------------------------------------------------------------------------
(* Use items: the leaves of a tree of braces. *)

\* The innermost braces, inside some range, around all the leaves.
EnclosingBraces(lexemes, leaves, within) ==
    LET Around(pair) ==
            /\ lexemes[pair.open].kind = "{"
            /\ RangeContains(within, Interior(lexemes, pair))
            /\ \A leaf \in leaves : RangeContains(Interior(lexemes, pair), leaf)
        around == {pair \in DelimiterPairs(lexemes) : Around(pair)}
    IN {pair \in around : \A other \in around : other.open <= pair.open}

\* The segments of one pair of braces: kept, deleted whole, or entered.
RECURSIVE RewriteGroup(_, _, _, _, _)
RewriteGroup(inventory, lexemes, pair, leaves, retained) ==
    LET segments == CommaListSegments(lexemes, pair)
        LeavesOf(k) == {u \in leaves :
                           RangeContains(segments[k].range, Full(inventory, u))}
        Child(k) == EnclosingBraces(lexemes, {Full(inventory, u) : u \in LeavesOf(k)},
                                    segments[k].range) \ {pair}
        OutcomeOf(k) ==
            CASE LeavesOf(k) \subseteq retained -> Deletes({})
              [] LeavesOf(k) # {} /\ LeavesOf(k) \cap retained = {} ->
                    WithComma(segments[k])
              [] OTHER ->
                    IF Child(k) = {} THEN Fails
                    ELSE RewriteGroup(inventory, lexemes, CHOOSE p \in Child(k) : TRUE,
                                      LeavesOf(k), retained)
    IN IF \E u \in leaves : \A k \in DOMAIN segments : u \notin LeavesOf(k) THEN Fails
       ELSE AllOf({OutcomeOf(k) : k \in DOMAIN segments})

UseLeaves(inventory, item) ==
    {u \in Units(inventory) : /\ KindOf(inventory, u) = "UseLeaf"
                              /\ Parent(inventory, u) = item}

RewriteUseItem(inventory, item, retained) ==
    LET leaves == UseLeaves(inventory, item)
        lexemes == LexemesIn(inventory.text, Full(inventory, item))
        pairs == EnclosingBraces(lexemes, {Full(inventory, u) : u \in leaves},
                                 Full(inventory, item))
    IN CASE ~Disjoint({Full(inventory, u) : u \in leaves}) -> Fails
         [] leaves \subseteq retained -> Deletes({})
         [] leaves # {} /\ leaves \cap retained = {} -> Fails
         [] OTHER ->
               IF ~Balanced(lexemes) \/ pairs = {} THEN Fails
               ELSE RewriteGroup(inventory, lexemes, CHOOSE p \in pairs : TRUE,
                                 leaves, retained)

-----------------------------------------------------------------------------
(* Derives: the names listed in an attribute. *)

\* The list of an attribute: the innermost parentheses around all its names,
\* with one name to a segment and perhaps an empty one after the last comma.
NamedSegments(lexemes, names, segments) ==
    LET NamesIn(k) == {n \in names : RangeContains(segments[k].range, n)}
        Strays(k) == {j \in DOMAIN lexemes :
                        /\ RangeContains(segments[k].range, lexemes[j].range)
                        /\ ~IsTrivia(lexemes[j].kind)
                        /\ \A n \in NamesIn(k) : ~RangeContains(n, lexemes[j].range)}
        wellFormed ==
            /\ Len(segments) - 1 \in {Cardinality(names) - 1, Cardinality(names)}
            /\ \A k \in DOMAIN segments :
                  /\ Strays(k) = {}
                  /\ \/ Cardinality(NamesIn(k)) = 1
                     \/ NamesIn(k) = {} /\ k = Cardinality(names) + 1
    IN IF wellFormed THEN SelectSeq(segments, LAMBDA s : \E n \in names :
                                                  RangeContains(s.range, n))
       ELSE <<>>

LayoutAmong(lexemes, names) ==
    LET Around(pair) == /\ lexemes[pair.open].kind = "("
                        /\ \A n \in names : RangeContains(Interior(lexemes, pair), n)
        around == {pair \in DelimiterPairs(lexemes) : Around(pair)}
    IN IF ~Balanced(lexemes) \/ around = {} THEN <<>>
       ELSE NamedSegments(lexemes, names,
               CommaListSegments(lexemes,
                  CHOOSE p \in around : \A other \in around : other.open <= p.open))

DeriveAttributeLayout(inventory, facts) ==
    LayoutAmong(LexemesIn(inventory.text, Full(inventory, facts.attribute)),
                {Full(inventory, e) : e \in Elements(facts)})

\* Runs of names that go, each with the comma after it or, at the end of the
\* list, the one before it.
RewriteListedNames(inventory, facts, retained, layout) ==
    LET NameOf(k) == CHOOSE e \in Elements(facts) :
                        RangeContains(layout[k].range, Full(inventory, e))
        kept == {k \in DOMAIN layout : NameOf(k) \in retained}
        Joined(run) == [range |-> ByteRange(layout[run.first].range.start,
                                            layout[run.last].range.end),
                        previousComma |-> layout[run.first].previousComma,
                        followingComma |-> layout[run.last].followingComma]
        runs == UnretainedRuns([elements |-> layout], kept)
    IN IF layout = <<>> THEN Fails ELSE AllOf({WithComma(Joined(run)) : run \in runs})

RewriteDeriveAttribute(inventory, facts, retained) ==
    CASE Elements(facts) \subseteq retained -> Deletes({})
      [] Elements(facts) \cap retained = {} /\ Elements(facts) # {} -> Fails
      [] OTHER -> RewriteListedNames(inventory, facts, retained,
                                     DeriveAttributeLayout(inventory, facts))

\* A complete target: its attributes are written, in order, outside each other
\* and each, with each of its names, in a group of its own.
ValidDeriveTargets(inventory) ==
    \A t \in inventory.deriveTargets :
        LET attributes == {a.attribute : a \in t.attributes}
            names == UNION {Elements(a) : a \in t.attributes}
        IN /\ KindOf(inventory, t.target) \in
                    {"Item", "NestedItem", "InlineModule", "MacroInvocation"}
           /\ attributes # {}
           /\ \A u \in attributes \cup names : KindOf(inventory, u) = "MacroInvocation"
           /\ \A u \in attributes : Parent(inventory, u) = t.target
           /\ Disjoint({Full(inventory, u) : u \in attributes})
           /\ \A a \in t.attributes :
                 /\ \A e \in Elements(a) : Parent(inventory, e) = a.attribute
                 /\ Disjoint({Full(inventory, e) : e \in Elements(a)})
                 /\ ~a.direct => a.elements = <<>>
           /\ ~t.complete => \A u \in attributes \cup names :
                                GroupOf(inventory, u) = GroupOf(inventory, t.target)
           /\ t.complete =>
                 /\ \A a \in t.attributes : a.direct
                 /\ \A u, v \in attributes \cup names \cup {t.target} :
                        u # v => GroupOf(inventory, u) # GroupOf(inventory, v)

-----------------------------------------------------------------------------
(* Merging and splicing. *)

\* Ranges that meet are one deletion.
Merged(ranges) ==
    LET Reaches(S, r) == \E s \in S : s.start <= r.end /\ r.start <= s.end
        Group[S \in SUBSET ranges] ==
            LET wider == {r \in ranges : Reaches(S, r)}
            IN IF wider = S THEN S ELSE Group[wider]
        Hull(S) == ByteRange(CHOOSE n \in {s.start : s \in S} : \A s \in S : n <= s.start,
                             CHOOSE n \in {s.end : s \in S} : \A s \in S : n >= s.end)
    IN {Hull(Group[{r}]) : r \in ranges}

\* A deletion takes whole lexical pieces.
ValidDeletions(inventory, ranges) ==
    \A d \in ranges : /\ ~IsEmptyRange(d)
                      /\ ValidRange(inventory.text, d)
                      /\ {d.start, d.end} \subseteq PieceBoundaries(inventory)

\* The elements of repetitions, judged once more from the text as a whole.
MacroRepetitionDeletions(inventory, guard, retained) ==
    LET facts == {inventory.repetitions[r] : r \in DOMAIN inventory.repetitions}
        ranges == UNION {PlannedDeletions(inventory, f, retained) : f \in facts}
    IN IF \/ \E f \in facts : PlanFails(inventory, f, retained)
          \/ ~ValidDeletions(inventory, ranges)
          \/ ~DeletionsPreserveParserTokens(guard, Merged(ranges))
       THEN Fails
       ELSE Deletes(Merged(ranges))

\* What a capture that is not used deletes from the invocations that fill it;
\* the matcher itself is a unit and goes with the frontier.
MacroCaptureInputDeletions(inventory, guard, retained) ==
    LET unused == {s \in inventory.captureSlots : s.unit \notin retained}
        inRule == {s \in unused : s.rule \in retained}
        inputs == UNION {{i.deletion : i \in {x \in s.inputs : x.invocation \in retained}} :
                            s \in inRule}
        checked == inputs \cup {Full(inventory, s.unit) : s \in inRule}
    IN IF \/ \E s \in unused : s.triggers \cap retained # {}
          \/ \E s \in unused \ inRule : \E i \in s.inputs : i.invocation \in retained
          \/ ~ValidDeletions(inventory, checked)
          \/ ~DeletionsPreserveParserTokens(guard, Merged(checked))
       THEN Fails
       ELSE Deletes(inputs)

\* The parts of the original that stay, with their place in the result.
Splice(text, deletions) ==
    LET gone == InOrder(deletions)
        bounds == <<0>> \o FlattenSeq([k \in DOMAIN gone |-> <<gone[k].start, gone[k].end>>])
                  \o <<Len(text)>>
        parts == SelectSeq([k \in 1 .. Len(gone) + 1 |->
                               ByteRange(bounds[2 * k - 1], bounds[2 * k])],
                           LAMBDA r : ~IsEmptyRange(r))
        offset[k \in 0 .. Len(parts)] ==
            IF k = 0 THEN 0 ELSE offset[k - 1] + parts[k].end - parts[k].start
    IN [ok |-> TRUE,
        source |-> FlattenSeq([k \in DOMAIN parts |-> Slice(text, parts[k])]),
        pieces |-> [k \in DOMAIN parts |->
                      [output |-> ByteRange(offset[k - 1], offset[k]),
                       original |-> parts[k]]],
        originalLen |-> Len(text)]

NoRewrite == [ok |-> FALSE, source |-> <<>>, pieces |-> <<>>, originalLen |-> 0]

-----------------------------------------------------------------------------
(* Back to the original. *)

PiecesWhere(rewrite, Test(_)) == {k \in DOMAIN rewrite.pieces : Test(rewrite.pieces[k].output)}

\* Mutant: an offset belongs to the piece that ends there, at either end.
PieceEndingAt(rewrite, offset, rightBiased) ==
    LET EndsIn(r) == r.start < offset /\ offset <= r.end
        EndsAt(r) == r.end = offset
        inside == PiecesWhere(rewrite, EndsIn)
    IN IF inside # {} THEN inside ELSE PiecesWhere(rewrite, EndsAt)

\* The piece an offset belongs to: the one that begins there for the start of
\* a range, the one that ends there for its end.
PieceOf(rewrite, offset, rightBiased) ==
    LET StartsIn(r) == r.start <= offset /\ offset < r.end
        EndsIn(r) == r.start < offset /\ offset <= r.end
        EndsAt(r) == r.end = offset
        inside == IF rightBiased THEN PiecesWhere(rewrite, StartsIn)
                  ELSE PiecesWhere(rewrite, EndsIn)
    IN IF inside # {} THEN inside
       ELSE IF rightBiased
            THEN PiecesWhere(rewrite, EndsAt) \cap {Len(rewrite.pieces)}
            ELSE PiecesWhere(rewrite, EndsAt)

\* The original offsets of an offset: one, or none when it has no piece.
OriginalOffset(rewrite, offset, rightBiased) ==
    IF rewrite.pieces = <<>> THEN {0} \cap {offset}
    ELSE {rewrite.pieces[k].original.start + offset - rewrite.pieces[k].output.start :
            k \in PieceOf(rewrite, offset, rightBiased)}

OriginalRange(rewrite, range) ==
    {r \in [start: OriginalOffset(rewrite, range.start, TRUE),
            end: OriginalOffset(rewrite, range.end, range.start = range.end)] :
        r.start <= r.end}

\* Only the whole result stands for the whole original.
OriginalCrateRange(rewrite, range) ==
    IF range = ByteRange(0, Len(rewrite.source)) THEN {ByteRange(0, rewrite.originalLen)}
    ELSE {}

\* The pieces tile the result and follow each other in the original.
ValidPieceMap(rewrite) ==
    LET pieces == rewrite.pieces
        outputEnd[k \in 0 .. Len(pieces)] == IF k = 0 THEN 0 ELSE pieces[k].output.end
        originalEnd[k \in 0 .. Len(pieces)] == IF k = 0 THEN 0 ELSE pieces[k].original.end
    IN /\ outputEnd[Len(pieces)] = Len(rewrite.source)
       /\ \A k \in DOMAIN pieces :
            /\ pieces[k].output.start = outputEnd[k - 1]
            /\ pieces[k].original.start >= originalEnd[k - 1]
            /\ pieces[k].original.end <= rewrite.originalLen
            /\ pieces[k].output.end - pieces[k].output.start
               = pieces[k].original.end - pieces[k].original.start

\* Every deletion that a retention leads to.
RewriteDeletions(inventory, guard, retained) ==
    LET items == {u \in retained : KindOf(inventory, u) = "UseItem"}
        attributes == {a \in CompleteAttributes(inventory) : a.attribute \in retained}
    IN AllOf({FrontierDeletions(inventory, retained),
              MacroRepetitionDeletions(inventory, guard, retained),
              MacroCaptureInputDeletions(inventory, guard, retained)}
             \cup {RewriteUseItem(inventory, u, retained) : u \in items}
             \cup {RewriteDeriveAttribute(inventory, a, retained) : a \in attributes})

Mapped(result) == IF ValidPieceMap(result) THEN result ELSE NoRewrite

RewriteWithout(inventory, outcome) ==
    IF outcome.ok /\ ValidDeletions(inventory, outcome.deletions)
    THEN Mapped(Splice(inventory.text, Merged(outcome.deletions)))
    ELSE NoRewrite

\* The whole rewrite of an inventory.
RewriteSource(inventory, guard, retained) ==
    IF ValidRetention(inventory, retained)
    THEN RewriteWithout(inventory, RewriteDeletions(inventory, guard, retained))
    ELSE NoRewrite

=============================================================================
