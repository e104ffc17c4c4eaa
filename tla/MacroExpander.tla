---------------------------- MODULE MacroExpander ----------------------------
(***************************************************************************)
(* The compiler's macro_rules expander, as the patched compiler reports on *)
(* it (rustc-patches/0025-rustc-expose-declarative-macro-component-        *)
(* origins.patch): which rule an invocation selects, what the matcher      *)
(* captures, and for each output token the template component and the      *)
(* input it comes from.  A rule is `(matcher)=>{template}`, an invocation  *)
(* `name!(input)`; a fragment is one word.  Everything here is external    *)
(* to the code.                                                            *)
(*                                                                         *)
(* A part is [tag, range, text, body, separator, op, name]; an input range *)
(* <<s, e>> is that of the input tokens from s up to, and without, e.      *)
(***************************************************************************)
EXTENDS SourceText

\* The parser tokens of a part of the text, at their place in the whole.
TokensIn(text, range) ==
    LET tokens == ParserTokens(Slice(text, range))
    IN [k \in DOMAIN tokens |->
          [tokens[k] EXCEPT !.range = ByteRange(@.start + range.start,
                                                @.end + range.start)]]

IsWord(token) == token.kind = "Ident"
Op(token) == token.kind
Operators == {"*", "+", "?"}

\* The place of the delimiter that closes the one at k.
Closing(tokens, k) == CHOOSE c \in k + 1 .. Len(tokens) : IsPair(tokens, k, c)

Part(tag, from, to, body, separator, op, name) ==
    [tag |-> tag, range |-> ByteRange(from.range.start, to.range.end),
     text |-> from.text, kind |-> from.kind, body |-> body,
     separator |-> separator, op |-> op, name |-> name]

\* The parts of a matcher, or of a template, between two tokens.
RECURSIVE Parts(_, _, _, _)
Parts(tokens, k, last, inMatcher) ==
    IF k > last THEN <<>>
    ELSE LET starts == tokens[k].kind = "$" /\ k < last
             repeats == starts /\ tokens[k + 1].kind = "("
             close == Closing(tokens, k + 1)
             bare == Op(tokens[close + 1]) \in Operators
             opAt == IF bare THEN close + 1 ELSE close + 2
             nameEnd == IF inMatcher THEN k + 3 ELSE k + 1
         IN CASE repeats ->
                   <<Part("repetition", tokens[k], tokens[opAt],
                          Parts(tokens, k + 2, close - 1, inMatcher),
                          IF bare THEN <<>> ELSE <<tokens[close + 1]>>,
                          Op(tokens[opAt]), <<>>)>>
                   \o Parts(tokens, opAt + 1, last, inMatcher)
              [] starts /\ ~repeats ->
                   <<Part("variable", tokens[k], tokens[nameEnd], <<>>, <<>>, "",
                          tokens[k + 1].text)>>
                   \o Parts(tokens, nameEnd + 1, last, inMatcher)
              [] OTHER ->
                   <<Part("token", tokens[k], tokens[k], <<>>, <<>>, "", <<>>)>>
                   \o Parts(tokens, k + 1, last, inMatcher)

\* A rule, from its tokens.
ParsedRule(tokens) ==
    LET close == Closing(tokens, 1)
    IN [matcher |-> Parts(tokens, 2, close - 1, TRUE),
        template |-> Parts(tokens, close + 3, Len(tokens) - 1, FALSE)]

\* The input of an invocation `name!(...)`, without its delimiters.
InputTokens(tokens) == SubSeq(tokens, 4, Len(tokens) - 1)

-----------------------------------------------------------------------------
(* Matching.  A match is the sequence of its nodes, one for each part.     *)

RECURSIVE Matches(_, _, _, _)
RECURSIVE Iterations(_, _, _, _)

\* The ways in which parts k and following match the input from position pos.
Matches(parts, k, input, pos) ==
    IF k > Len(parts) THEN {[nodes |-> <<>>, end |-> pos]}
    ELSE LET part == parts[k]
             here == pos <= Len(input)
             node(end, iterations) ==
                [part |-> part, input |-> <<pos, end>>, iterations |-> iterations]
             Then(one) == {[nodes |-> <<one>> \o rest.nodes, end |-> rest.end] :
                              rest \in Matches(parts, k + 1, input, one.input[2])}
         IN CASE part.tag = "token" ->
                    IF here /\ SameIdentity(input[pos], part)
                    THEN Then(node(pos + 1, <<>>)) ELSE {}
              [] part.tag = "variable" ->
                    IF here /\ IsWord(input[pos]) THEN Then(node(pos + 1, <<>>)) ELSE {}
              [] part.tag = "repetition" ->
                    UNION {Then(node(i.end, i.iterations)) :
                             i \in {j \in Iterations(part, input, pos, 0) :
                                      part.op = "+" => j.iterations # <<>>}}

\* The ways to repeat a part from position pos on, after done iterations.
Iterations(part, input, pos, done) ==
    {[iterations |-> <<>>, end |-> pos]}
    \cup
    UNION {LET separated == /\ part.separator # <<>>
                            /\ body.end <= Len(input)
                            /\ SameIdentity(input[body.end], part.separator[1])
               next == IF separated THEN body.end + 1 ELSE body.end
               one(separators) == [input |-> <<pos, body.end>>, nodes |-> body.nodes,
                                   separatorAfter |-> separators]
               more == IF part.op = "?" \/ (part.separator # <<>> /\ ~separated) THEN {}
                       ELSE {i \in Iterations(part, input, next, done + 1) :
                                i.iterations # <<>>}
           IN {[iterations |-> <<one({})>>, end |-> body.end]}
              \cup {[iterations |-> <<one(IF separated THEN {<<body.end, next>>} ELSE {})>>
                                    \o i.iterations,
                     end |-> i.end] : i \in more}
           : body \in {m \in Matches(part.body, 1, input, pos) : m.end > pos}}

\* The matches of a whole input; the macros of the instances allow one at most.
WholeMatches(rule, input) ==
    {m.nodes : m \in {x \in Matches(rule.matcher, 1, input, 1) : x.end = Len(input) + 1}}

Selects(rule, input) == WholeMatches(rule, input) # {}

\* The rule that an invocation selects: the first that matches.
FirstRule(rules, input) ==
    {k \in DOMAIN rules : /\ Selects(rules[k], input)
                          /\ \A j \in 1 .. k - 1 : ~Selects(rules[j], input)}

-----------------------------------------------------------------------------
(* Transcription.                                                          *)

\* The captured input of a name at this depth.
Captured(nodes, name) ==
    {nodes[k].input : k \in {j \in DOMAIN nodes : /\ nodes[j].part.tag = "variable"
                                                  /\ nodes[j].part.name = name}}

RECURSIVE Names(_)
Names(parts) ==
    UNION {IF parts[k].tag = "variable" THEN {parts[k].name} ELSE Names(parts[k].body) :
              k \in DOMAIN parts}

\* The repetition of the matcher that the names of a template repetition drive.
Driving(nodes, names) ==
    CHOOSE k \in DOMAIN nodes : /\ nodes[k].part.tag = "repetition"
                                /\ Names(nodes[k].part.body) \cap names # {}

\* The captured input that an output token comes from, and the iterations it is in.
OutputToken(text, part, sources, iterations) ==
    [text |-> text, range |-> part.range, tag |-> part.tag, sources |-> sources,
     iterations |-> iterations]

\* The output of some template parts; iterations holds the input ranges of the
\* iterations around them.
RECURSIVE Transcribed(_, _, _, _)
Transcribed(parts, nodes, input, iterations) ==
    FlattenSeq([k \in DOMAIN parts |->
        LET part == parts[k]
            captured == CHOOSE c \in Captured(nodes, part.name) : TRUE
            passes == nodes[Driving(nodes, Names(part.body))].iterations
            Pass(i) ==
                Transcribed(part.body, nodes \o passes[i].nodes, input,
                            iterations \cup {passes[i].input})
                \o (IF part.separator # <<>> /\ i < Len(passes)
                    THEN <<OutputToken(part.separator[1].text, part, {}, iterations)>>
                    ELSE <<>>)
        IN CASE part.tag = "token" -> <<OutputToken(part.text, part, {}, iterations)>>
             [] part.tag = "variable" ->
                    <<OutputToken(input[captured[1]].text, part, {captured}, iterations)>>
             [] part.tag = "repetition" -> FlattenSeq([i \in DOMAIN passes |-> Pass(i)])])

\* Every variable of the template is bound at its depth.
RECURSIVE Bound(_, _)
Bound(parts, matcher) ==
    \A k \in DOMAIN parts :
        LET here == {matcher[j].name : j \in {i \in DOMAIN matcher :
                                                  matcher[i].tag = "variable"}}
            driven == {j \in DOMAIN matcher :
                          /\ matcher[j].tag = "repetition"
                          /\ Names(matcher[j].body) \cap Names(parts[k].body) # {}}
        IN CASE parts[k].tag = "variable" -> parts[k].name \in here
             [] parts[k].tag = "repetition" ->
                    /\ driven # {}
                    /\ \A j \in driven : Bound(parts[k].body, matcher \o matcher[j].body)
             [] OTHER -> TRUE

Transcription(rule, input) ==
    Transcribed(rule.template, CHOOSE m \in WholeMatches(rule, input) : TRUE, input, {})

\* The components of a template: its parts and those inside them, by range.
RECURSIVE Components(_, _)
Components(parts, parent) ==
    UNION {{[tag |-> parts[k].tag, range |-> parts[k].range, parent |-> parent]}
             \cup Components(parts[k].body, {parts[k].range}) : k \in DOMAIN parts}

\* The items of an output: up to a `;`, or a use tree `a{...}` with its leaves.
Products(output) ==
    LET Ends == {k \in DOMAIN output : output[k].text \in {<<";">>, <<"}">>}}
        StartOf(e) == 1 + CHOOSE s \in 0 .. e - 1 :
                            (s = 0 \/ s \in Ends) /\ \A k \in s + 1 .. e - 1 : k \notin Ends
        isUse(e) == output[e].text = <<"}">>
        leaves(e) == {k \in StartOf(e) + 2 .. e - 1 : output[k].text # <<",">>}
    IN {[start |-> StartOf(e), end |-> e, isUse |-> isUse(e)] : e \in Ends}
       \cup UNION {{[start |-> k, end |-> k, isUse |-> TRUE] : k \in leaves(e)} :
                      e \in {x \in Ends : isUse(x)}}

=============================================================================
