----------------------------- MODULE MCRewriting -----------------------------
(***************************************************************************)
(* Small crates for Rewriting.  A crate is written down by its text, the   *)
(* rules of its macros and its calls; the places of all of them are found  *)
(* in the text.                                                            *)
(***************************************************************************)
EXTENDS ReducedSession

Chars(s) == [k \in 1 .. Len(s) |-> SubSeq(s, k, k)]

\* The n-th place of a part in a text.
Place(text, part, n) ==
    LET starts == {o \in 0 .. Len(text) - Len(part) :
                      SubSeq(text, o + 1, o + Len(part)) = part}
        start == CHOOSE o \in starts : Cardinality({p \in starts : p < o}) = n - 1
    IN ByteRange(start, start + Len(part))

\* A call of rule r of macro d, made by the expansion parent, 0 for the crate.
Call(d, r, parent, part, n) ==
    [definition |-> d, rule |-> r, parent |-> parent, part |-> part, n |-> n]

\* A node whose cfg is true and that names nothing.
Node(tag, range, parent) ==
    [tag |-> tag, range |-> range, anchor |-> range, parent |-> parent, on |-> TRUE,
     name |-> "", to |-> 0, via |-> 0, impl |-> 0]

\* A node whose header is what follows some of its text.
Headed(node, attributes) ==
    [node EXCEPT !.anchor = ByteRange(@.start + attributes, @.start + attributes + 1)]

NoReport == [names |-> {}, influences |-> {}, helpers |-> {}]

\* A crate of macros m{...}, n{...} and their calls; the expansions in
\* incomplete are those that the compiler could not report in full.
MacroCrate(text, macros, calls, incomplete) ==
    LET rules == [d \in DOMAIN macros |->
                    [r \in DOMAIN macros[d] |-> Place(text, macros[d][r], 1)]]
        definition(d) == ByteRange(rules[d][1].start - 2, rules[d][Len(rules[d])].end + 1)
        direct == SelectSeq(calls, LAMBDA c : c.parent = 0)
        children(e) == SelectSeq([k \in DOMAIN calls |-> k], LAMBDA k : calls[k].parent = e)
    IN [text |-> Chars(text),
        nodes |->
            <<Node("Crate", ByteRange(0, Len(text)), 0)>>
            \o [d \in DOMAIN macros |-> Headed(Node("Macro", definition(d), 1), 0)]
            \o [k \in DOMAIN direct |->
                  Node("MacroCall", Place(text, direct[k].part, direct[k].n), 1)],
        report |-> NoReport,
        program |->
            [definitions |-> [d \in DOMAIN macros |->
                [range |-> definition(d), rules |-> rules[d], generated |-> FALSE,
                 exported |-> FALSE]],
             expansions |-> [e \in DOMAIN calls |->
                [kind |-> "Declarative", definition |-> calls[e].definition,
                 rule |-> calls[e].rule, call |-> Place(text, calls[e].part, calls[e].n),
                 discoveredIn |-> calls[e].parent, sourceCall |-> 0,
                 written |-> calls[e].parent = 0, complete |-> e \notin incomplete,
                 children |-> children(e)]],
             opaque |-> {}]]

-----------------------------------------------------------------------------
\* An earlier rule that takes a call whose list has become short.
EarlierRule ==
    MacroCrate("m{($a:b)=>{b;}($($a:b),*)=>{$($a;)*b;}}m!(a)m!(a,b,r)",
               << <<"($a:b)=>{b;}", "($($a:b),*)=>{$($a;)*b;}">> >>,
               <<Call(1, 1, 0, "m!(a)", 1), Call(1, 2, 0, "m!(a,b,r)", 1)>>, {})

\* A rule whose captures can go, and one that its shorter matcher would rob.
CaptureSlots ==
    MacroCrate("m{($a:b,$b:b)=>{n $a;r $b;}($n:b)=>{$n;}}m!(a,b)m!(b,r)m!(n)",
               << <<"($a:b,$b:b)=>{n $a;r $b;}", "($n:b)=>{$n;}">> >>,
               <<Call(1, 1, 0, "m!(a,b)", 1), Call(1, 1, 0, "m!(b,r)", 1),
                 Call(1, 2, 0, "m!(n)", 1)>>, {})

\* Lists in a list, the inner ones never empty.
NestedLists ==
    MacroCrate("m{($($a:b{$($b:b),+});*)=>{$(n $a;)*}}m!(a{b,r};b{a})",
               << <<"($($a:b{$($b:b),+});*)=>{$(n $a;)*}">> >>,
               <<Call(1, 1, 0, "m!(a{b,r};b{a})", 1)>>, {})

\* Elements that touch and stand between tokens that would be joined.
Gluing ==
    MacroCrate("m{(=$(:$a:b)*$(,$b:b)*>)=>{$($a;)*$($b;)*}}m!(=:a:b,r>)",
               << <<"(=$(:$a:b)*$(,$b:b)*>)=>{$($a;)*$($b;)*}">> >>,
               <<Call(1, 1, 0, "m!(=:a:b,r>)", 1)>>, {})

\* An element that must stay, and lists that touch and are needed later.
Waves ==
    MacroCrate("m{(=$(:)?>$(;$a:b)*$(,$b:b)*$(:$n:b)*)=>{$($a;)*}}m!(=:>;a,b,m:r)",
               << <<"(=$(:)?>$(;$a:b)*$(,$b:b)*$(:$n:b)*)=>{$($a;)*}">> >>,
               <<Call(1, 1, 0, "m!(=:>;a,b,m:r)", 1)>>, {})

\* Elements in a run of `#`, and one that keeps `r` from what follows it.
Pounds ==
    MacroCrate("m{($(#)*$a:b$(=)?#b)=>{$a;}}m!(# # #r=#b)",
               << <<"($(#)*$a:b$(=)?#b)=>{$a;}">> >>,
               <<Call(1, 1, 0, "m!(# # #r=#b)", 1)>>, {})

\* A call in a template, of a rule that the crate also calls.
Generated ==
    MacroCrate("n{($a:b)=>{$a;}}m{()=>{n!(a);b;}}m!()n!(b)",
               << <<"($a:b)=>{$a;}">>, <<"()=>{n!(a);b;}">> >>,
               <<Call(2, 1, 0, "m!()", 1), Call(1, 1, 1, "n!(a)", 1),
                 Call(1, 1, 0, "n!(b)", 1)>>, {})

\* A tree of uses in a template.
UseTree ==
    MacroCrate("m{()=>{a{b,r,n}b;}}m!()", << <<"()=>{a{b,r,n}b;}">> >>,
               <<Call(1, 1, 0, "m!()", 1)>>, {})

\* Two calls of one rule, of which one was not fully reported; and a rule that
\* nothing selects.
Incomplete ==
    MacroCrate("m{($($a:b),*;$n:b)=>{$($a;)*$n;}(n)=>{n;}}m!(a,b;r)m!(a;b)",
               << <<"($($a:b),*;$n:b)=>{$($a;)*$n;}", "(n)=>{n;}">> >>,
               <<Call(1, 1, 0, "m!(a,b;r)", 1), Call(1, 1, 0, "m!(a;b)", 1)>>, {2})

\* Derives of an item: two attributes, a name that needs another and a helper
\* attribute of a name.  The text goes on after the last item: an item that is
\* all of it could not be told from the crate (derive_helper_owner).
Derives ==
    LET text == "#[a(b,r,n)]#[a(m,)]#[b]a;b; "
        At(part) == Place(text, part, 1)
        Single(part) == ByteRange(At(part).start, At(part).start + 1)
    IN [text |-> Chars(text),
        nodes |->
            <<Node("Crate", ByteRange(0, Len(text)), 0),
              Headed(Node("Struct", ByteRange(0, 25), 1), 23),
              Node("Derive", At("#[a(b,r,n)]"), 2),
              Node("DeriveName", Single("b,r"), 3),
              Node("DeriveName", Single("r,n"), 3),
              Node("DeriveName", Single("n)]"), 3),
              Node("Derive", At("#[a(m,)]"), 2),
              Node("DeriveName", Single("m,)"), 7),
              Node("Attr", At("#[b]"), 2),
              Node("Const", ByteRange(25, 27), 1)>>,
        report |-> [names |-> {4, 5, 6, 8}, influences |-> {<<4, 5>>}, helpers |-> {<<9, 6>>}],
        program |-> [definitions |-> <<>>, expansions |-> <<>>, opaque |-> {}]]

\* Products of a macro that nothing but their order tells apart, two for each
\* element of a list.
Twins ==
    MacroCrate("m{($($a:b),*)=>{$(n $a;n $a;)*}}m!(a,b)",
               << <<"($($a:b),*)=>{$(n $a;n $a;)*}">> >>,
               <<Call(1, 1, 0, "m!(a,b)", 1)>>, {})

-----------------------------------------------------------------------------
(* Crates without macros.                                                  *)

PlainCrate(text, nodes) ==
    [text |-> Chars(text), nodes |-> nodes, report |-> NoReport,
     program |-> [definitions |-> <<>>, expansions |-> <<>>, opaque |-> {}]]

At(tag, start, end, parent) == Node(tag, ByteRange(start, end), parent)
Named(tag, name, start, end, parent) ==
    Headed([At(tag, start, end, parent) EXCEPT !.name = name], 0)
Refers(node, to) == [node EXCEPT !.to = to]
Through(node, via) == [node EXCEPT !.via = via]
Off(node) == [node EXCEPT !.on = FALSE]

\* A trait with an item that has a default, a type that names another of its
\* items, an impl of it and a call that selects the impl; a second trait that
\* needs the first and names its type.
Members ==
    PlainCrate("a{a:r;b{}r;}b;a b{a:r{}b{}r=b;}n{b.a}m:a{n:r;}",
        <<At("Crate", 0, 46, 0),
          Named("Trait", "a", 0, 12, 1),
          Named("AssociatedFunction", "a", 2, 6, 2),
          At("Output", 4, 5, 3),
          Named("SelfPath", "r", 4, 5, 4),
          Named("AssociatedFunction", "b", 6, 9, 2),
          At("Body", 7, 9, 6),
          Named("AssociatedType", "r", 9, 11, 2),
          Named("Struct", "b", 12, 14, 1),
          Named("Impl", "", 14, 31, 1),
          At("TraitRef", 14, 15, 10),
          Refers(At("Path", 14, 15, 11), 2),
          At("Ty", 16, 17, 10),
          Refers(At("Path", 16, 17, 13), 9),
          Named("AssociatedFunction", "a", 18, 23, 10),
          At("Output", 20, 21, 15),
          Named("SelfPath", "r", 20, 21, 16),
          At("Body", 21, 23, 15),
          Named("AssociatedFunction", "b", 23, 26, 10),
          At("Body", 24, 26, 19),
          Named("AssociatedType", "r", 26, 30, 10),
          At("Ty", 28, 29, 21),
          Refers(At("Path", 28, 29, 22), 9),
          Named("Function", "n", 31, 37, 1),
          At("Body", 32, 37, 24),
          Refers(At("Path", 33, 34, 25), 9),
          [Refers(At("MethodCall", 33, 36, 25), 3) EXCEPT !.impl = 10],
          Named("Trait", "m", 37, 46, 1),
          At("TraitRef", 39, 40, 28),
          Refers(At("Path", 39, 40, 29), 2),
          Named("AssociatedFunction", "n", 41, 45, 28),
          At("Output", 43, 44, 31),
          Named("SelfPath", "r", 43, 44, 32)>>)

\* A module with an item only it can see, a list of imports of its items, and a
\* module that imports one of them through the list.
Imports ==
    PlainCrate("m{a;n b a;}r m{a,b};n{r a;b{a}}",
        <<At("Crate", 0, 31, 0),
          Named("Module", "m", 0, 11, 1),
          Named("Struct", "a", 2, 4, 2),
          Headed(Named("Const", "b", 4, 10, 2), 2),
          Refers(At("Vis", 4, 5, 4), 2),
          At("ConstType", 8, 9, 4),
          Refers(At("Path", 8, 9, 6), 3),
          Headed(At("Use", 11, 20, 1), 2),
          Refers(At("Path", 13, 14, 8), 2),
          Refers(Named("UseLeaf", "a", 15, 16, 8), 3),
          Refers(Named("UseLeaf", "b", 17, 18, 8), 4),
          Named("Module", "n", 20, 31, 1),
          Through(Headed([At("Use", 22, 26, 12) EXCEPT !.name = "a"], 2), 10),
          Refers(At("UseTree", 24, 25, 13), 0),
          Refers(At("Path", 24, 25, 13), 3),
          Named("Function", "b", 26, 30, 12),
          At("Body", 27, 30, 16),
          Through(Refers(At("Path", 28, 29, 17), 3), 13)>>)

\* An enum with a constant for a variant and a lifetime for a field.
EnumParts ==
    PlainCrate("n;a<b>{b=n,r(b)}m{n.a}",
        <<At("Crate", 0, 22, 0),
          Named("Const", "n", 0, 2, 1),
          Named("Enum", "a", 2, 16, 1),
          Named("LifetimeParameter", "b", 4, 5, 3),
          Named("Variant", "b", 7, 10, 3),
          Named("AnonConst", "", 9, 10, 5),
          Refers(At("Path", 9, 10, 6), 2),
          Named("Variant", "r", 11, 15, 3),
          Named("Field", "", 13, 14, 8),
          Refers(At("Lifetime", 13, 14, 9), 4),
          Named("Function", "m", 16, 22, 1),
          At("Body", 17, 22, 11),
          Refers(At("Path", 18, 21, 12), 5)>>)

\* Tuples of which cfg takes the first element, a statement that cfg takes, an
\* attribute without effect and an item that is not compiled.
Configured ==
    PlainCrate("n{a;(b,r)}m{(b,r,)}[a]b;a;",
        <<At("Crate", 0, 26, 0),
          Named("Function", "n", 0, 10, 1),
          At("Body", 1, 10, 2),
          Off(At("Stmt", 2, 4, 3)),
          At("Tuple", 4, 9, 3),
          Off(At("Expr", 5, 6, 5)),
          At("Expr", 7, 8, 5),
          Named("Function", "m", 10, 19, 1),
          At("Body", 11, 19, 8),
          At("Tuple", 12, 18, 9),
          Off(At("Expr", 13, 14, 10)),
          At("Expr", 15, 16, 10),
          Headed(Named("Const", "b", 19, 24, 1), 3),
          At("NoEffectAttr", 19, 22, 13),
          Off(Named("Const", "a", 24, 26, 1))>>)

MCCrates == <<EarlierRule, CaptureSlots, NestedLists, Gluing, Waves, Pounds, Generated, UseTree,
              Incomplete, Derives, Twins, Members, Imports, EnumParts, Configured>>
MCDemanded == {"MacroInvocation", "NestedItem", "UseLeaf", "Item", "MacroDefinition",
               "TraitMember", "ImplMember"}

\* Every crate compiles.
ASSUME CratesCompile == \A c \in DOMAIN MCCrates : Original(MCCrates[c]).ok

\* Each call selects the rule it is given with.
ASSUME CallsSelect ==
    \A c \in DOMAIN MCCrates : \A e \in DOMAIN MCCrates[c].program.expansions :
        LET text == MCCrates[c].text
            expansion == MCCrates[c].program.expansions[e]
            rules == MCCrates[c].program.definitions[expansion.definition].rules
        IN FirstRule([k \in DOMAIN rules |-> ParsedRule(TokensIn(text, rules[k]))],
                     InputTokens(TokensIn(text, expansion.call))) = {expansion.rule}

=============================================================================
