----------------------------- MODULE Definitions -----------------------------
(***************************************************************************)
(* The identity of definitions (src/src/definitions.rs): each one's        *)
(* origin, the ordinals that tell siblings of one origin apart, and the    *)
(* key that is made of them.  A later session of the same reduction gives  *)
(* the definitions that are left the ordinals they had in the original,    *)
(* which it looks up by identity in the universe of the first session.     *)
(*                                                                         *)
(* coordinates is the rewrite that led to a session's text, none for the   *)
(* original; expected is the universe to look up, none for the original.   *)
(***************************************************************************)
EXTENDS SourceRewrite, SourceUnits, MacroProvenance

-----------------------------------------------------------------------------
(***************************************************************************)
(* The definitions that the compiler makes of a crate, in the order in     *)
(* which it makes them: those of the syntax tree, then those of the output *)
(* of each macro call, the impls of derives and what is injected.  All of  *)
(* it is external to the code; the instances let every product of a macro  *)
(* be an impl without a name, or a use.                                    *)
(*                                                                         *)
(* A definition is [kind, name, parent, made, range, role, expansion,      *)
(* product, node, disambiguator]: range is its header, or that of the call *)
(* that made it.                                                           *)
(***************************************************************************)

\* What a node of the syntax tree defines; no other node defines anything.
KindOfTag == [tag \in {"Crate", "Module", "Struct", "Enum", "Trait", "Impl", "Function",
                       "Const", "Static", "TypeAlias", "Macro", "Use", "UseLeaf",
                       "ForeignModule", "Field", "Variant", "TypeParameter",
                       "ConstParameter", "LifetimeParameter", "ElidedLifetime", "AnonConst",
                       "Closure", "AssociatedFunction", "AssociatedType", "AssociatedConst"} |->
    CASE tag = "UseLeaf" -> "Use"
      [] tag = "ElidedLifetime" -> "LifetimeParameter"
      [] tag = "AnonConst" -> "AnonymousConst"
      [] OTHER -> tag]

Defines(nodes, n) == Active(nodes, n) /\ Tag(nodes, n) \in DOMAIN KindOfTag

\* The nearest node around a node that other definitions can be in.
HirParent(nodes, n) ==
    LET around == {k \in ToSet(Chain(nodes, n)) \ {n} :
                      Defines(nodes, k) /\ KindOfTag[Tag(nodes, k)] # "Use"}
    IN IF around = {} THEN 0 ELSE Max(around)

\* The written call that an expansion goes back to.
RECURSIVE OuterCall(_, _)
OuterCall(program, e) ==
    IF program.expansions[e].discoveredIn = 0 THEN program.expansions[e].call
    ELSE OuterCall(program, program.expansions[e].discoveredIn)

CallNode(nodes, range) ==
    CHOOSE n \in DOMAIN nodes : /\ Tag(nodes, n) \in {"MacroCall", "MacroExpr", "MacroStmt"}
                                /\ nodes[n].range = range

\* The products of an expansion that are definitions, in order.
ProductsInOrder(seen) ==
    LET Calls(p) == \E k \in p.start .. p.end : seen.output[k].text = <<"!">>
    IN SortedBy({p \in seen.products : ~Calls(p)},
                LAMBDA a, b : a.start < b.start \/ (a.start = b.start /\ a.end > b.end))

DefinitionProducts(inventory, program, e) == ProductsInOrder(Seen(inventory, program, e))

NoProduct == [start |-> 1, end |-> 0, isUse |-> FALSE]

HirDefinition(kind, name, parent, made, range, role, expansion, product, node) ==
    [kind |-> kind, name |-> name, parent |-> parent, made |-> made, range |-> range,
     role |-> role, expansion |-> expansion, product |-> product, node |-> node]

WrittenDefinition(nodes, ids, n) ==
    LET parent == HirParent(nodes, n)
        generated == Tag(nodes, n) = "ElidedLifetime"
    IN HirDefinition(KindOfTag[Tag(nodes, n)], nodes[n].name,
                     IF parent = 0 THEN 0 ELSE CHOOSE k \in DOMAIN ids : ids[k] = parent,
                     IF generated THEN "Generated" ELSE "Written", nodes[n].anchor,
                     IF generated THEN "ElidedLifetime" ELSE "", 0, NoProduct, n)

\* What the products of an expansion define, all in one module.
MadeBy(program, e, products, module) ==
    [p \in DOMAIN products |->
       HirDefinition(IF products[p].isUse THEN "Use" ELSE "Impl", "", module, "Expanded",
                     program.expansions[e].call, "", e, products[p], 0)]

\* A definition's disambiguator counts its siblings of the same kind and name.
Disambiguated(definitions) ==
    Listed([k \in DOMAIN definitions |->
        [kind |-> definitions[k].kind, name |-> definitions[k].name,
         parent |-> definitions[k].parent, made |-> definitions[k].made,
         range |-> definitions[k].range, role |-> definitions[k].role,
         expansion |-> definitions[k].expansion, product |-> definitions[k].product,
         node |-> definitions[k].node,
         disambiguator |-> Cardinality({j \in 1 .. k - 1 :
             /\ definitions[j].parent = definitions[k].parent
             /\ definitions[j].kind = definitions[k].kind
             /\ definitions[j].name = definitions[k].name})]])

HirDefinitions(inventory, nodes, program) ==
    LET ids == SortedBy({n \in DOMAIN nodes : Defines(nodes, n)}, <)
        IdOf(n) == CHOOSE k \in DOMAIN ids : ids[k] = n
        derives == SortedBy({n \in DOMAIN nodes : /\ Tag(nodes, n) = "DeriveName"
                                                  /\ Active(nodes, n)}, <)
        written == [k \in DOMAIN ids |-> WrittenDefinition(nodes, ids, ids[k])]
        derived == [k \in DOMAIN derives |->
            HirDefinition("Impl", "", IdOf(HirParent(nodes, TargetOfName(nodes, derives[k]))),
                          "Derived", nodes[derives[k]].range, "", 0, NoProduct, derives[k])]
        made == FlattenSeq([e \in DOMAIN program.expansions |->
            MadeBy(program, e, DefinitionProducts(inventory, program, e),
                   IdOf(HirParent(nodes, CallNode(nodes, OuterCall(program, e)))))])
        Injected(kind, role) ==
            HirDefinition(kind, "", 1, "Injected", ByteRange(0, 0), role, 0, NoProduct, 0)
    IN Disambiguated(written \o derived \o made
                     \o <<Injected("ExternCrate", "ExternCrate"), Injected("Use", "PreludeImport")>>)

-----------------------------------------------------------------------------
(* Origins.                                                                *)

OriginKey(tag, range, role) == [tag |-> tag, range |-> range, role |-> role]
NowhereRange == ByteRange(0, 0)

\* The smallest active unit around a definition that can hold its kind.
SourceUnitForDefinition(inventory, range, kind) ==
    LET Holds(unit) ==
            CASE kind = "Crate" -> unit.kind = "CrateRoot"
              [] kind = "Use" -> unit.kind \in {"UseLeaf", "UseItem"}
              [] kind = "Macro" -> unit.kind = "MacroDefinition"
              [] OTHER -> unit.kind \notin {"CrateRoot", "MacroInvocation", "UseLeaf"}
        around == {u \in Units(inventory) : /\ inventory.units[u].active
                                            /\ RangeContains(Full(inventory, u), range)
                                            /\ Holds(inventory.units[u])}
        Key(u) == <<Full(inventory, u).end - Full(inventory, u).start,
                    Rank(KindOf(inventory, u)), u>>
        Smaller(a, b) == \E k \in 1 .. 3 : /\ Key(a)[k] < Key(b)[k]
                                           /\ \A j \in 1 .. k - 1 : Key(a)[j] = Key(b)[j]
    IN {u \in around : \A v \in around \ {u} : Smaller(u, v)}

WrittenOrigins(inventory, definition) ==
    {[key |-> OriginKey("Written", definition.range, KindOf(inventory, u)), unit |-> u,
      basis |-> {}] :
        u \in SourceUnitForDefinition(inventory, definition.range, definition.kind)}

\* What an expansion made is known by the nearest call that is written.
ExpandedOrigins(inventory, program, definition, basis) ==
    UNION {{[key |-> OriginKey("Expanded", program.expansions[e].call, definition.role),
             unit |-> r.unit, basis |-> basis] :
               r \in Resolve(inventory, program, e)} :
              e \in NearestEditable(inventory, program, definition.expansion)}

\* What a derive made is known by its name in the list.
DerivedOrigins(inventory, definition) ==
    {[key |-> OriginKey("Expanded", definition.range, definition.role), unit |-> u,
      basis |-> {}] :
        u \in {v \in Units(inventory) : /\ Full(inventory, v) = definition.range
                                        /\ KindOf(inventory, v) = "MacroInvocation"}}

\* The origin of a definition, and its basis if a macro made it; what the
\* compiler generates in what a macro made has the origin of that.
RECURSIVE Origins(_, _, _, _, _)
Origins(inventory, program, hir, bases, d) ==
    LET definition == hir[d]
        around == Origins(inventory, program, hir, bases, definition.parent)
    IN CASE definition.made = "Written" -> WrittenOrigins(inventory, definition)
         [] definition.made = "Expanded" -> ExpandedOrigins(inventory, program, definition, bases[d])
         [] definition.made = "Derived" -> DerivedOrigins(inventory, definition)
         [] definition.made = "Injected" ->
                {[key |-> OriginKey("Injected", NowhereRange, definition.role), unit |-> 0,
                  basis |-> {}]}
         [] definition.made = "Generated" ->
                {IF o.key.tag = "Expanded"
                 THEN [o EXCEPT !.key.role = definition.role]
                 ELSE [key |-> OriginKey("Generated", NowhereRange, definition.role),
                       unit |-> 0, basis |-> {}] : o \in around}

\* The text of a definition for the edges that start at it.
DefinitionSite(origin) ==
    IF origin.tag \in {"Written", "Expanded"} THEN {origin.range} ELSE {}

-----------------------------------------------------------------------------
(* The coordinates of the original.                                        *)

OriginalRanges(coordinates, range) ==
    IF coordinates = {} THEN {range}
    ELSE UNION {OriginalRange(rewrite, range) : rewrite \in coordinates}

\* The range of the crate is that of the whole original.
NormalizedOrigin(coordinates, kind, origin) ==
    IF origin.tag \notin {"Written", "Expanded"} THEN {origin}
    ELSE IF origin.tag = "Written" /\ kind = "Crate" /\ coordinates # {}
    THEN UNION {{[origin EXCEPT !.range = r] : r \in OriginalCrateRange(c, origin.range)} :
                   c \in coordinates}
    ELSE {[origin EXCEPT !.range = r] : r \in OriginalRanges(coordinates, origin.range)}

\* A basis with a source that has no text, or two that have become one, is
\* none.
NormalizedBasis(coordinates, basis) ==
    IF basis = {} THEN {{}}
    ELSE UNION {LET Moved(source) == {[source EXCEPT !.range = r] :
                                         r \in OriginalRanges(coordinates, source.range)}
                    moved == UNION {Moved(s) : s \in sources}
                IN IF /\ \A s \in sources : Moved(s) # {}
                      /\ Cardinality(moved) = Cardinality(sources)
                      /\ \A s \in moved : ~IsEmptyRange(s.range)
                   THEN {{moved}} ELSE {} : sources \in basis}

-----------------------------------------------------------------------------
(* Ordinals and keys.                                                      *)

\* The rank among the definitions of a set, by the compiler's disambiguator.
RankIn(hir, members, d) ==
    Cardinality({m \in members : hir[m].disambiguator < hir[d].disambiguator})

\* Siblings that nothing but the compiler's order tells apart.
PrivateCohort(hir, named, d) ==
    {m \in DOMAIN hir : /\ hir[m].parent = hir[d].parent
                        /\ named[m].origin = named[d].origin
                        /\ named[m].basis = named[d].basis
                        /\ hir[m].kind = hir[d].kind
                        /\ hir[m].name = hir[d].name}

\* The compiler's order says nothing of two definitions with one number.
Ordered(hir, members) ==
    \A a, b \in members : hir[a].disambiguator = hir[b].disambiguator => a = b

\* The identity of a definition: that of its parent, and its own part.
DefinitionIdentities(hir, named) ==
    LET identity[d \in 0 .. Len(hir)] ==
            IF d = 0 THEN <<>>
            ELSE Append(identity[hir[d].parent],
                    [kind |-> hir[d].kind, origin |-> named[d].origin,
                     basis |-> named[d].basis, name |-> hir[d].name,
                     ordinal |-> RankIn(hir, PrivateCohort(hir, named, d), d)])
    IN Listed([d \in DOMAIN hir |-> identity[d]])

\* Siblings that a key tells apart by its ordinal.
PublicCohort(hir, named, identities, d) ==
    {m \in DOMAIN hir : /\ Front(identities[m]) = Front(identities[d])
                        /\ named[m].origin = named[d].origin
                        /\ hir[m].kind = hir[d].kind
                        /\ hir[m].name = hir[d].name}

\* Mutant: a session numbers what it finds, whatever the original had.
OrdinalsAsFound(hir, named, identities, expected, d) ==
    {RankIn(hir, PublicCohort(hir, named, identities, d), d)}

\* The ordinal of a definition: its rank in the original, and from then on what
\* it was in the original.
StructuralOrdinals(hir, named, identities, expected, d) ==
    IF expected = {} THEN {RankIn(hir, PublicCohort(hir, named, identities, d), d)}
    ELSE UNION {{u.ordinal : u \in {v \in universe : v.identity = identities[d]}} :
                   universe \in expected}

-----------------------------------------------------------------------------
(* A session's definitions.                                                *)

NoDefinitions == [ok |-> FALSE, hir |-> <<>>, origins |-> <<>>, keys |-> <<>>, universe |-> {}]

\* The key of a definition: that of its parent, and its own part.
DefinitionKeys(hir, origins, ordinal) ==
    LET key[d \in 0 .. Len(hir)] ==
            IF d = 0 THEN <<>>
            ELSE Append(key[hir[d].parent],
                    [kind |-> hir[d].kind, origin |-> origins[d].key, name |-> hir[d].name,
                     ordinal |-> ordinal[d]])
    IN Listed([d \in DOMAIN hir |-> key[d]])

\* The definitions with their ordinals: every one is known, none is known for
\* another, and no cohort gives one ordinal to two.
WithOrdinals(hir, origins, named, expected) ==
    LET identities == DefinitionIdentities(hir, named)
        ordinals == Listed([d \in DOMAIN hir |->
                        StructuralOrdinals(hir, named, identities, expected, d)])
        ordinal == [d \in DOMAIN hir |-> CHOOSE o \in ordinals[d] : TRUE]
        keys == DefinitionKeys(hir, origins, ordinal)
    IN IF /\ \A d \in DOMAIN hir : Ordered(hir, PrivateCohort(hir, named, d))
          /\ Cardinality(Range(identities)) = Len(hir)
          /\ \A d \in DOMAIN hir : ordinals[d] # {}
          /\ \A d \in DOMAIN hir :
                \A m \in PublicCohort(hir, named, identities, d) \ {d} : ordinal[m] # ordinal[d]
          /\ Cardinality(Range(keys)) = Len(hir)
       THEN [ok |-> TRUE, hir |-> hir, origins |-> origins, keys |-> keys,
             universe |-> {[identity |-> identities[d], ordinal |-> ordinal[d]] :
                              d \in DOMAIN hir}]
       ELSE NoDefinitions

\* One of each: every definition has an origin.
EachFirst(sets) == Listed([d \in DOMAIN sets |-> CHOOSE x \in sets[d] : TRUE])

OriginsOfAll(inventory, program, hir, bases) ==
    Listed([d \in DOMAIN hir |-> Origins(inventory, program, hir, bases, d)])

\* The origin and the basis of each in the coordinates of the original.
NamesOf(hir, origins, coordinates) ==
    Listed([d \in DOMAIN hir |->
        {[origin |-> o, basis |-> b] :
            o \in NormalizedOrigin(coordinates, hir[d].kind, origins[d].key),
            b \in NormalizedBasis(coordinates, origins[d].basis)}])

DefinitionsNamed(hir, origins, names, expected) ==
    IF \E d \in DOMAIN hir : names[d] = {} THEN NoDefinitions
    ELSE WithOrdinals(hir, origins, EachFirst(names), expected)

DefinitionsFound(hir, found, coordinates, expected) ==
    IF \E d \in DOMAIN hir : found[d] = {} THEN NoDefinitions
    ELSE DefinitionsNamed(hir, EachFirst(found),
                          NamesOf(hir, EachFirst(found), coordinates), expected)

DefinitionsOf(inventory, program, hir, coordinates, expected) ==
    DefinitionsFound(hir,
        OriginsOfAll(inventory, program, hir, DefinitionBases(inventory, program, hir)),
        coordinates, expected)

CollectDefinitions(inventory, nodes, program, coordinates, expected) ==
    DefinitionsOf(inventory, program, HirDefinitions(inventory, nodes, program),
                  coordinates, expected)

\* A key in the coordinates of the original; {} if a part of it has none.
NormalizedKey(coordinates, key) ==
    LET parts == [k \in DOMAIN key |->
                    NormalizedOrigin(coordinates, key[k].kind, key[k].origin)]
    IN IF \E k \in DOMAIN key : parts[k] = {} THEN {}
       ELSE {[k \in DOMAIN key |-> [key[k] EXCEPT !.origin = CHOOSE o \in parts[k] : TRUE]]}

\* The unit that a definition is in: what was generated or injected is in the
\* one of its parent.
SourceUnitOf(definitions, d) ==
    LET unit[k \in DOMAIN definitions.hir] ==
            IF definitions.origins[k].unit # 0 THEN definitions.origins[k].unit
            ELSE unit[definitions.hir[k].parent]
    IN unit[d]
=============================================================================
