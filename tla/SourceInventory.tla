--------------------------- MODULE SourceInventory ---------------------------
(***************************************************************************)
(* The written-source inventory (src/src/source.rs): the text, the tree of *)
(* written units with their atomic groups, the lexical pieces and their    *)
(* owners, and the facts about macro repetitions, capture slots and        *)
(* derives.  A unit's number is its SourceUnitId; 1 is the crate root, and *)
(* a parent of 0 is none.  A capture slot and an optional range are sets   *)
(* of at most one element.                                                 *)
(***************************************************************************)
EXTENDS SourceText

Units(inventory) == DOMAIN inventory.units
Full(inventory, u) == inventory.units[u].range
Parent(inventory, u) == inventory.units[u].parent
KindOf(inventory, u) == inventory.units[u].kind
GroupOf(inventory, u) == inventory.units[u].group

\* The number of parents above each unit; the chain of a well-formed tree ends.
UnitDepth(inventory) ==
    LET depth[u \in Units(inventory)] ==
            IF Parent(inventory, u) = 0 THEN 0 ELSE depth[Parent(inventory, u)] + 1
    IN depth

\* Every chain of parents ends.
AcyclicParents(inventory) ==
    LET up[n \in 0 .. Len(inventory.units)] ==
            IF n = 0 THEN [u \in Units(inventory) |-> u]
            ELSE [u \in Units(inventory) |->
                    IF up[n - 1][u] = 0 THEN 0 ELSE Parent(inventory, up[n - 1][u])]
    IN \A u \in Units(inventory) : up[Len(inventory.units)][u] = 0

\* The order of the kinds of units.
Rank(kind) ==
    LET kinds == <<"CrateRoot", "InlineModule", "Item", "TraitMember", "ImplMember",
                   "UseItem", "UseLeaf", "MacroDefinition", "MacroInvocation",
                   "NestedItem", "MacroRule", "NoEffectCfgAttr",
                   "InactiveCfgComponent">>
    IN CHOOSE k \in DOMAIN kinds : kinds[k] = kind

\* Of two units over the same text, the deeper, then the shorter, is inside.
Inner(inventory, a, b) ==
    LET depth == UnitDepth(inventory)
        length(u) == Full(inventory, u).end - Full(inventory, u).start
        Key(u) == <<depth[u], -length(u), Rank(KindOf(inventory, u)), -u>>
    IN \E k \in 1 .. 4 : /\ Key(a)[k] > Key(b)[k]
                         /\ \A j \in 1 .. k - 1 : Key(a)[j] = Key(b)[j]

\* Each lexeme is one piece, owned by the innermost unit around it.
OwnLexicalPieces(inventory) ==
    LET lexemes == Lexemes(inventory.text)
        Around(range) == {u \in Units(inventory) :
                            RangeContains(Full(inventory, u), range)}
    IN [k \in DOMAIN lexemes |->
          [range |-> lexemes[k].range,
           kind |-> IF IsTrivia(lexemes[k].kind) THEN "Trivia" ELSE "Token",
           owner |-> CHOOSE u \in Around(lexemes[k].range) :
                        \A v \in Around(lexemes[k].range) \ {u} :
                            Inner(inventory, u, v)]]

PieceBoundaries(inventory) ==
    LET pieces == inventory.pieces
    IN {0, Len(inventory.text)}
       \cup {pieces[k].range.start : k \in DOMAIN pieces}
       \cup {pieces[k].range.end : k \in DOMAIN pieces}

\* One root over the whole text, every other unit inside its parent.
ValidUnits(inventory) ==
    LET roots == {u \in Units(inventory) : Parent(inventory, u) = 0}
    IN /\ AcyclicParents(inventory)
       /\ \E root \in roots :
            /\ roots = {root}
            /\ KindOf(inventory, root) = "CrateRoot"
            /\ Full(inventory, root) = ByteRange(0, Len(inventory.text))
       /\ \A u \in Units(inventory) : ValidRange(inventory.text, Full(inventory, u))
       /\ \A u \in Units(inventory) \ roots :
            LET unit == inventory.units[u]
                parent == inventory.units[unit.parent]
            IN /\ RangeContains(parent.range, unit.range)
               /\ unit.active => parent.active
               /\ unit.kind = "InactiveCfgComponent" => ~unit.active /\ parent.active

\* The pieces cover the text in order, each inside its owner.
ValidPieces(inventory) ==
    LET pieces == inventory.pieces
        bounds == [k \in 0 .. Len(pieces) |-> IF k = 0 THEN 0 ELSE pieces[k].range.end]
    IN /\ bounds[Len(pieces)] = Len(inventory.text)
       /\ \A k \in DOMAIN pieces :
            /\ pieces[k].range.start = bounds[k - 1]
            /\ pieces[k].range.start < pieces[k].range.end
            /\ RangeContains(Full(inventory, pieces[k].owner), pieces[k].range)

-----------------------------------------------------------------------------
(* Pending units: a sequence whose places are the temporary identifiers.   *)

Pending(kind, range, parent, representative) ==
    [kind |-> kind, range |-> range, parent |-> parent, active |-> TRUE,
     representative |-> representative]

\* A finished inventory's units, about to be joined by others.
PendingUnits(inventory) ==
    [u \in Units(inventory) |->
        [Pending(KindOf(inventory, u), Full(inventory, u), Parent(inventory, u),
                 CHOOSE v \in Units(inventory) :
                    /\ GroupOf(inventory, v) = GroupOf(inventory, u)
                    /\ \A w \in Units(inventory) :
                          GroupOf(inventory, w) = GroupOf(inventory, u) => v <= w)
         EXCEPT !.active = inventory.units[u].active]]

\* Units get their numbers in source order, the outer before the inner; a group
\* the place of its representative; an ordinal counts the kind before it.
FinishPendingUnits(pending) ==
    LET Key(k) == <<pending[k].range.start, -pending[k].range.end,
                    Rank(pending[k].kind), k>>
        Earlier(a, b) == \E k \in 1 .. 4 : /\ Key(a)[k] < Key(b)[k]
                                           /\ \A j \in 1 .. k - 1 : Key(a)[j] = Key(b)[j]
        sorted == SortedBy(DOMAIN pending, Earlier)
        idMap == [t \in DOMAIN pending |-> CHOOSE k \in DOMAIN sorted : sorted[k] = t]
        representatives == {idMap[pending[t].representative] : t \in DOMAIN pending}
    IN [idMap |-> idMap,
        units |->
          [k \in DOMAIN sorted |->
             LET unit == pending[sorted[k]]
             IN [kind |-> unit.kind, range |-> unit.range, active |-> unit.active,
                 parent |-> IF unit.parent = 0 THEN 0 ELSE idMap[unit.parent],
                 group |-> Cardinality({r \in representatives :
                                          r <= idMap[unit.representative]}),
                 sameRoleOrdinal |->
                    Cardinality({j \in 1 .. k - 1 : pending[sorted[j]].kind = unit.kind})]]]

=============================================================================
