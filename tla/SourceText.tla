----------------------------- MODULE SourceText -----------------------------
(***************************************************************************)
(* The lexical structure that a source deletion must respect               *)
(* (src/src/source/syntax.rs).  A source text is a sequence of characters  *)
(* and a byte range a half-open interval of its offsets.  The compiler's   *)
(* lexer is modelled on the characters whose meaning depends on their      *)
(* neighbours: words run together, `r` and `#` begin a raw identifier, a   *)
(* word before `#` is an unknown prefix, and the parser glues `=` and `>`. *)
(***************************************************************************)
EXTENDS Integers, Sequences, FiniteSets, SequencesExt

\* The byte range from offset s up to, and without, offset e.
ByteRange(s, e) == [start |-> s, end |-> e]

RangeContains(outer, inner) ==
    outer.start <= inner.start /\ inner.end <= outer.end

IsEmptyRange(range) == range.start = range.end

\* A sequence, each of whose elements TLC works out once.
Listed(seq) == <<>> \o seq

\* The elements of a finite set, in a strict total order.
SortedBy(S, Less(_, _)) ==
    Listed([k \in 1 .. Cardinality(S) |->
        CHOOSE x \in S : Cardinality({y \in S : Less(y, x)}) = k - 1])

\* The order in which the code keeps its ranges.
Before(a, b) == a.start < b.start \/ (a.start = b.start /\ a.end < b.end)

InOrder(ranges) == SortedBy(ranges, Before)

\* A nonempty part of the text.
ValidRange(text, range) ==
    /\ 0 <= range.start
    /\ range.start <= range.end
    /\ range.end <= Len(text)

Slice(text, range) == SubSeq(text, range.start + 1, range.end)

WordChars == {"a", "b", "m", "n", "r"}
Opening == [c \in {"(", "{", "["} |->
               CASE c = "(" -> ")" [] c = "{" -> "}" [] c = "[" -> "]"]
Closings == {")", "}", "]"}

-----------------------------------------------------------------------------
(* The lexer, and the tokens of the parser. *)

\* The first offset from o on that is past the characters in chars.
RunEnd(text, o, chars) ==
    CHOOSE e \in o .. Len(text) :
        /\ \A i \in o .. e - 1 : text[i + 1] \in chars
        /\ e < Len(text) => text[e + 1] \notin chars

LexemeOf(text, from, to, kind) ==
    [range |-> ByteRange(from, to), kind |-> kind, text |-> Slice(text, ByteRange(from, to))]

\* A word, and the `#` after it up to hashEnd: `r#` and a name is one identifier.
HashedWord(text, o, wordEnd, hashEnd) ==
    LET raw == Slice(text, ByteRange(o, wordEnd)) = <<"r">>
        nameEnd == RunEnd(text, hashEnd, WordChars)
        name == hashEnd = wordEnd + 1 /\ nameEnd > hashEnd
    IN CASE hashEnd = wordEnd -> LexemeOf(text, o, wordEnd, "Ident")
         [] hashEnd > wordEnd /\ ~raw -> LexemeOf(text, o, wordEnd, "UnknownPrefix")
         [] hashEnd > wordEnd /\ raw /\ name -> LexemeOf(text, o, nameEnd, "RawIdent")
         [] hashEnd > wordEnd /\ raw /\ ~name ->
                LexemeOf(text, o, IF hashEnd < Len(text) THEN hashEnd + 1 ELSE hashEnd, "RawStr")

Word(text, o, wordEnd) == HashedWord(text, o, wordEnd, RunEnd(text, wordEnd, {"#"}))

\* The lexeme that begins at offset o.
Lexeme(text, o) ==
    CASE text[o + 1] = " " -> LexemeOf(text, o, RunEnd(text, o, {" "}), "Whitespace")
      [] text[o + 1] \in WordChars -> Word(text, o, RunEnd(text, o, WordChars))
      [] OTHER -> LexemeOf(text, o, o + 1, text[o + 1])

RECURSIVE LexemesFrom(_, _)
LexemesFrom(text, o) ==
    IF o >= Len(text) THEN <<>>
    ELSE LET next == Lexeme(text, o)
         IN <<next>> \o LexemesFrom(text, next.range.end)

Lexemes(text) == LexemesFrom(text, 0)

IsTrivia(kind) == kind = "Whitespace"

\* What the parser makes of two adjacent pieces of punctuation.
Glues(left, right) ==
    <<left, right>> \in {<<<<"=">>, <<"=">>>>, <<<<"=">>, <<">">>>>,
                         <<<<">">>, <<"=">>>>, <<<<">">>, <<">">>>>,
                         <<<<">", ">">>, <<"=">>>>}

\* The first lexeme joined with the punctuation that follows it.
GluesNext(lexemes) ==
    /\ Len(lexemes) > 1
    /\ lexemes[1].range.end = lexemes[2].range.start
    /\ Glues(lexemes[1].text, lexemes[2].text)

GluedWithNext(lexemes) ==
    [lexemes[1] EXCEPT !.range.end = lexemes[2].range.end, !.text = @ \o lexemes[2].text]

\* The tokens that lexemes make, from left to right.
RECURSIVE TokensOf(_)
TokensOf(lexemes) ==
    CASE lexemes = <<>> -> <<>>
      [] GluesNext(lexemes) -> TokensOf(<<GluedWithNext(lexemes)>> \o Tail(Tail(lexemes)))
      [] OTHER -> <<Head(lexemes)>> \o TokensOf(Tail(lexemes))

\* Trivia only separates.
ParserTokens(text) == TokensOf(SelectSeq(Lexemes(text), LAMBDA l : ~IsTrivia(l.kind)))

SameIdentity(a, b) == a.text = b.text /\ a.kind = b.kind

\* What a list of tokens says, wherever its tokens stand.
Identities(tokens) ==
    [k \in DOMAIN tokens |-> [text |-> tokens[k].text, kind |-> tokens[k].kind]]

-----------------------------------------------------------------------------
(* The guard: which deletions leave every other token what it was.  A      *)
(* guard is built once for a text and holds its parser tokens.             *)

RewriteGuard(text) == [text |-> text, tokens |-> ParserTokens(text)]

IsPound(guard, k) == guard.tokens[k].kind = "#"

\* The first and last token of the run of `#` that token k is in.
PoundRunStart(guard, k) ==
    CHOOSE s \in 1 .. k : /\ \A j \in s .. k : IsPound(guard, j)
                          /\ s > 1 => ~IsPound(guard, s - 1)

PoundRunEnd(guard, k) ==
    CHOOSE e \in k .. Len(guard.tokens) :
        /\ \A j \in k .. e : IsPound(guard, j)
        /\ e < Len(guard.tokens) => ~IsPound(guard, e + 1)

\* The tokens of a deletion: those from first to last, if it cuts none.
DeletedTokens(guard, deletion) ==
    {k \in DOMAIN guard.tokens :
        /\ guard.tokens[k].range.end > deletion.start
        /\ guard.tokens[k].range.start < deletion.end}

HasBoundary(guard, deletion) ==
    /\ deletion.start < deletion.end
    /\ deletion.end <= Len(guard.text)
    /\ \A k \in DeletedTokens(guard, deletion) :
            RangeContains(deletion, guard.tokens[k].range)

\* The tokens whose lexing the deletion can disturb: one on either side, the
\* whole run of `#` when that is what stands there, and one unchanged token.
DeletionBoundary(guard, deletion) ==
    LET before == Cardinality({k \in DOMAIN guard.tokens :
                                  guard.tokens[k].range.end <= deletion.start})
        upto == before + Cardinality(DeletedTokens(guard, deletion))
        AtLeastOne(k) == IF k < 1 THEN 1 ELSE k
        left == CASE before = 0 -> 1
                  [] before > 0 /\ IsPound(guard, before) ->
                        AtLeastOne(PoundRunStart(guard, before) - 2)
                  [] OTHER -> AtLeastOne(before - 1)
        AtMostLast(k) == IF k > Len(guard.tokens) THEN Len(guard.tokens) ELSE k
        right == CASE upto = Len(guard.tokens) -> upto
                   [] upto < Len(guard.tokens) /\ IsPound(guard, upto + 1) ->
                         AtMostLast(PoundRunEnd(guard, upto + 1) + 2)
                   [] OTHER -> AtMostLast(upto + 2)
    IN [deletedStart |-> before + 1, deletedEnd |-> upto,
        leftStart |-> left, rightEnd |-> right,
        window |-> ByteRange(
            IF left <= before THEN guard.tokens[left].range.start ELSE deletion.start,
            IF upto < right THEN guard.tokens[right].range.end ELSE deletion.end)]

DependencyWindow(guard, deletion) == DeletionBoundary(guard, deletion).window

\* The characters of a window that no deletion takes.
WithoutDeletions(text, window, deletions) ==
    LET kept == {i \in window.start .. window.end - 1 :
                    ~\E d \in deletions : d.start <= i /\ i < d.end}
        positions == SortedBy(kept, <)
    IN [k \in DOMAIN positions |-> text[positions[k] + 1]]

Disjoint(ranges) ==
    \A a, b \in ranges : a # b => a.end <= b.start \/ b.end <= a.start

\* What is left of a window, lexed again, is the tokens that no deletion took.
WindowKeepsTokens(guard, deletions, boundary) ==
    LET kept == SortedBy(
                   {k \in boundary.leftStart .. boundary.rightEnd :
                       ~\E d \in deletions : RangeContains(d, guard.tokens[k].range)}, <)
    IN /\ \A d \in deletions : DependencyWindow(guard, d) = boundary.window
       /\ Identities(ParserTokens(
             WithoutDeletions(guard.text, boundary.window, deletions)))
          = Identities([j \in DOMAIN kept |-> guard.tokens[kept[j]]])

\* Deletions that share a window are judged together.
DeletionsPreserveIdentity(guard, deletions) ==
    /\ deletions # {}
    /\ Disjoint(deletions)
    /\ \A d \in deletions : HasBoundary(guard, d)
    /\ WindowKeepsTokens(guard, deletions,
                         DeletionBoundary(guard, Head(InOrder(deletions))))

\* One `#` of a run, apart from the `#` before or after it.
PoundApart(guard, deletion, k) ==
    /\ guard.tokens[k].range = deletion
    /\ IsPound(guard, k)
    /\ \/ /\ k > PoundRunStart(guard, k)
          /\ guard.tokens[k - 1].range.end < deletion.start
       \/ /\ k < PoundRunEnd(guard, k)
          /\ deletion.end < guard.tokens[k + 1].range.start

\* It may go when trivia stands between it and the rest.
TriviaSeparatedPound(guard, deletion) ==
    /\ HasBoundary(guard, deletion)
    /\ \E k \in DeletedTokens(guard, deletion) :
          /\ DeletedTokens(guard, deletion) = {k}
          /\ PoundApart(guard, deletion, k)

DeletionPreservesIdentity(guard, deletion) ==
    \/ TriviaSeparatedPound(guard, deletion)
    \/ DeletionsPreserveIdentity(guard, {deletion})

\* The check of a whole rewrite, window by window.
DeletionsPreserveParserTokens(guard, deletions) ==
    /\ \A a, b \in deletions : a # b => a.end < b.start \/ b.end < a.start
    /\ \A d \in deletions : HasBoundary(guard, d)
    /\ \A window \in {DependencyWindow(guard, d) : d \in deletions} :
            DeletionsPreserveIdentity(
                guard, {d \in deletions : DependencyWindow(guard, d) = window})

-----------------------------------------------------------------------------
(* Delimiters and lists. *)

\* The lexemes of a part of the text, at their place in the whole text.
LexemesIn(text, range) ==
    LET lexemes == Lexemes(Slice(text, range))
        Shifted(r) == ByteRange(r.start + range.start, r.end + range.start)
    IN [k \in DOMAIN lexemes |-> [lexemes[k] EXCEPT !.range = Shifted(@)]]

Opens(lexemes, from, to) ==
    Cardinality({k \in from .. to : lexemes[k].kind \in DOMAIN Opening})
Closes(lexemes, from, to) ==
    Cardinality({k \in from .. to : lexemes[k].kind \in Closings})

\* The delimiter at c closes the one at o.
IsPair(lexemes, o, c) ==
    /\ o < c
    /\ lexemes[o].kind \in DOMAIN Opening
    /\ lexemes[c].kind \in Closings
    /\ Opens(lexemes, o, c) = Closes(lexemes, o, c)
    /\ \A k \in o .. c - 1 : Opens(lexemes, o, k) > Closes(lexemes, o, k)

DelimiterPairs(lexemes) ==
    {pair \in [open: DOMAIN lexemes, close: DOMAIN lexemes] :
        IsPair(lexemes, pair.open, pair.close)}

\* Every delimiter has its partner, and the partner is of its kind.
Balanced(lexemes) ==
    LET pairs == DelimiterPairs(lexemes)
    IN /\ \A p \in pairs : lexemes[p.close].kind = Opening[lexemes[p.open].kind]
       /\ \A k \in DOMAIN lexemes :
            lexemes[k].kind \in DOMAIN Opening \cup Closings =>
                \E p \in pairs : k \in {p.open, p.close}

Interior(lexemes, pair) ==
    ByteRange(lexemes[pair.open].range.end, lexemes[pair.close].range.start)

\* The segments between the commas directly inside a pair of delimiters.
CommaListSegments(lexemes, pair) ==
    LET inside == pair.open + 1 .. pair.close - 1
        commas == SortedBy(
                    {k \in inside : /\ lexemes[k].kind = ","
                                    /\ Opens(lexemes, pair.open + 1, k)
                                       = Closes(lexemes, pair.open + 1, k)}, <)
        bounds == <<pair.open>> \o commas \o <<pair.close>>
    IN [k \in 1 .. Len(commas) + 1 |->
          [range |-> ByteRange(lexemes[bounds[k]].range.end,
                               lexemes[bounds[k + 1]].range.start),
           previousComma |-> IF k > 1 THEN {lexemes[bounds[k]].range} ELSE {},
           followingComma |-> IF k <= Len(commas)
                              THEN {lexemes[bounds[k + 1]].range} ELSE {}]]

=============================================================================
