----------------------------- MODULE SourceUnits -----------------------------
(***************************************************************************)
(* How the units of a crate are collected from its syntax tree             *)
(* (UnitCollector, src/src/source.rs 2327-2926 and 2978-3362).             *)
(*                                                                         *)
(* A tree is a sequence of nodes in the order of a walk, node 1 the crate: *)
(* [tag, range, anchor, parent, on, name, to, via, impl].  The range has   *)
(* the attributes, the anchor is the header's; on is what the node's own   *)
(* cfg says; to, via and impl are the nodes that a reference names, the    *)
(* import it goes through and the impl it selects, 0 for none.             *)
(***************************************************************************)
EXTENDS SourceInventory

\* A node and the nodes around it, up to the crate.
Chain(nodes, n) ==
    LET chain[k \in 0 .. Len(nodes)] ==
            IF k = 0 THEN <<>> ELSE <<k>> \o chain[nodes[k].parent]
    IN chain[n]

\* No cfg around a node, nor its own, is false.
Active(nodes, n) == \A k \in ToSet(Chain(nodes, n)) : nodes[k].on

Tag(nodes, n) == nodes[n].tag
ParentTag(nodes, n) == IF nodes[n].parent = 0 THEN "" ELSE Tag(nodes, nodes[n].parent)
ChildrenOf(nodes, n) == {k \in DOMAIN nodes : nodes[k].parent = n}

AssociatedTags == {"AssociatedFunction", "AssociatedType", "AssociatedConst"}

\* What is written as an item, in a module, a block, a trait, an impl or a
\* foreign module.
ItemTags ==
    {"Module", "Struct", "Enum", "Trait", "Impl", "Function", "Const", "Static",
     "TypeAlias", "Macro", "Use", "ForeignModule", "MacroCall"} \cup AssociatedTags

\* What a cfg removes alone, up to its end or up to its comma.
StandaloneTags == {"Stmt", "MacroStmt"}
CommaSeparatedTags ==
    {"Expr", "Tuple", "MacroExpr", "Arm", "ExprField", "Field", "TypeParameter",
     "LifetimeParameter", "ConstParameter", "Param", "PatField", "Variant"}

DeriveTags == {"Derive", "DeriveName", "CfgDerive"}

UnitTags ==
    ItemTags \cup DeriveTags
    \cup {"Crate", "UseLeaf", "UseTree", "MacroExpr", "MacroStmt", "NoEffectAttr"}

\* The kind of the unit that a node is.
WrittenUnitKind(nodes, n) ==
    LET tag == Tag(nodes, n)
    IN CASE tag = "Crate" -> "CrateRoot"
         [] tag = "Module" -> "InlineModule"
         [] tag = "Use" -> "UseItem"
         [] tag = "Macro" -> "MacroDefinition"
         [] tag \in DeriveTags \cup {"MacroCall", "MacroExpr", "MacroStmt"} -> "MacroInvocation"
         [] tag \in {"UseLeaf", "UseTree"} -> "UseLeaf"
         [] tag = "NoEffectAttr" -> "NoEffectCfgAttr"
         [] tag \in AssociatedTags /\ ParentTag(nodes, n) = "Trait" -> "TraitMember"
         [] tag \in AssociatedTags /\ ParentTag(nodes, n) = "Impl" -> "ImplMember"
         [] tag \in ItemTags \ AssociatedTags
            /\ ParentTag(nodes, n) # "ForeignModule"
            /\ \E k \in ToSet(Chain(nodes, n)) : Tag(nodes, k) = "Block" -> "NestedItem"
         [] OTHER -> "Item"

\* A cfg that is false on a part of active text makes a component of the part;
\* one on an attribute that has no effect is recorded where the text is active.
HasComponent(nodes, n) ==
    /\ Tag(nodes, n) \in StandaloneTags \cup CommaSeparatedTags
    /\ Active(nodes, nodes[n].parent)
    /\ ~nodes[n].on

HasUnit(nodes, n) ==
    /\ Tag(nodes, n) \in UnitTags
    /\ Tag(nodes, n) = "NoEffectAttr" => Active(nodes, nodes[n].parent)
    /\ Tag(nodes, n) = "CfgDerive" => Active(nodes, n)

\* The entries <<node, role>> that the walk makes.
Entries(nodes) ==
    FlattenSeq([n \in DOMAIN nodes |->
        (IF HasComponent(nodes, n) THEN << <<n, "component">> >> ELSE <<>>)
        \o (IF HasUnit(nodes, n) THEN << <<n, "unit">> >> ELSE <<>>)])

EntryOf(entries, n, role) == CHOOSE k \in DOMAIN entries : entries[k] = <<n, role>>

\* The innermost entry around a node that holds the units inside it.
RECURSIVE Holder(_, _, _)
Holder(nodes, entries, n) ==
    CASE HasComponent(nodes, n) -> EntryOf(entries, n, "component")
      [] ~HasComponent(nodes, n) /\ Tag(nodes, n) \in ItemTags \cup {"Crate", "Derive"} ->
            EntryOf(entries, n, "unit")
      [] OTHER -> Holder(nodes, entries, nodes[n].parent)

CurrentParent(nodes, entries, k) ==
    LET n == entries[k][1]
    IN CASE Tag(nodes, n) = "Crate" -> 0
         [] entries[k][2] = "unit" /\ HasComponent(nodes, n) ->
                EntryOf(entries, n, "component")
         [] OTHER -> Holder(nodes, entries, nodes[n].parent)

\* The first lexeme after a range that is not trivia.
FollowingNontrivia(lexemes, range) ==
    LET after == {k \in DOMAIN lexemes : /\ lexemes[k].range.start >= range.end
                                         /\ ~IsTrivia(lexemes[k].kind)}
    IN {lexemes[k] : k \in {j \in after : \A i \in after : j <= i}}

FollowedByComma(lexemes, range) ==
    {t \in FollowingNontrivia(lexemes, range) : t.kind = ","}

CommaSeparatedRange(lexemes, range) ==
    ByteRange(range.start, Max({range.end} \cup
        {t.range.end : t \in FollowedByComma(lexemes, range)}))

EntryRange(nodes, lexemes, entry) ==
    LET range == nodes[entry[1]].range
    IN IF entry[2] = "component" /\ Tag(nodes, entry[1]) \in CommaSeparatedTags
       THEN CommaSeparatedRange(lexemes, range)
       ELSE range

\* An invocation in an expression belongs to the group of what it is written
\* in, a derive to the one of its item.
RepresentativeOf(nodes, entries, k) ==
    LET n == entries[k][1]
        item == IF Tag(nodes, n) = "DeriveName" THEN nodes[nodes[n].parent].parent
                ELSE nodes[n].parent
    IN CASE entries[k][2] = "unit" /\ Tag(nodes, n) \in {"MacroExpr", "MacroStmt"} ->
                CurrentParent(nodes, entries, k)
         [] Tag(nodes, n) \in DeriveTags -> EntryOf(entries, item, "unit")
         [] OTHER -> k

\* A tuple that a cfg leaves with one element, the last and without a comma,
\* would be no tuple without the text before: that stays with what is around.
TupleLayouts(nodes, lexemes, entries) ==
    UNION {LET elements == SortedBy(ChildrenOf(nodes, t), <)
               active == {k \in DOMAIN elements : Active(nodes, elements[k])}
               last == Len(elements)
           IN IF /\ last >= 2
                 /\ active = {last}
                 /\ FollowedByComma(lexemes, nodes[elements[last]].range) = {}
              THEN {[component |-> EntryOf(entries, elements[last - 1], "component"),
                     parent |-> Holder(nodes, entries, t)]}
              ELSE {} :
              t \in {n \in DOMAIN nodes : Tag(nodes, n) = "Tuple" /\ Active(nodes, n)}}

\* An entry as a unit, its group given by what represents it; the last element
\* of a tuple whose others are not active is in the group of the tuple.
WrittenUnits(nodes, lexemes, entries, layouts) ==
    LET Grouped(representative) ==
            LET merged == {l \in layouts : l.component = representative}
            IN IF merged = {} THEN representative ELSE (CHOOSE l \in merged : TRUE).parent
    IN [k \in DOMAIN entries |->
          [kind |-> IF entries[k][2] = "component" THEN "InactiveCfgComponent"
                    ELSE WrittenUnitKind(nodes, entries[k][1]),
           range |-> EntryRange(nodes, lexemes, entries[k]),
           parent |-> CurrentParent(nodes, entries, k),
           active |-> /\ Active(nodes, entries[k][1])
                      /\ Tag(nodes, entries[k][1]) # "NoEffectAttr",
           representative |-> Grouped(RepresentativeOf(nodes, entries, k))]]

\* The finished units, and what the derives list.
CollectedUnits(nodes, entries, finished) ==
    LET UnitOf(n) == finished.idMap[EntryOf(entries, n, "unit")]
        derives == {n \in DOMAIN nodes : /\ Tag(nodes, n) \in {"Derive", "CfgDerive"}
                                         /\ HasUnit(nodes, n)}
        Names(a) == SortedBy({UnitOf(n) : n \in ChildrenOf(nodes, a)}, <)
    IN [units |-> finished.units,
        unitOf |-> [n \in {m \in DOMAIN nodes : HasUnit(nodes, m)} |-> UnitOf(n)],
        deriveTargets |->
            {[target |-> UnitOf(target), complete |-> FALSE,
              attributes |->
                {[attribute |-> UnitOf(a), elements |-> Names(a),
                  direct |-> Tag(nodes, a) = "Derive"] :
                    a \in {d \in derives : nodes[d].parent = target}},
              influences |-> {}, helpers |-> {}] :
                target \in {nodes[d].parent : d \in derives}}]

UnitsOfEntries(nodes, lexemes, entries) ==
    CollectedUnits(nodes, entries,
        FinishPendingUnits(WrittenUnits(nodes, lexemes, entries,
                                        TupleLayouts(nodes, lexemes, entries))))

\* The units of a crate before any refinement, and what its derives list.
CollectUnits(text, nodes) == UnitsOfEntries(nodes, Lexemes(text), Entries(nodes))

-----------------------------------------------------------------------------
(* Derives that the compiler reports completely (source/derive.rs 111-355   *)
(* and 504-783).  A report is [names, influences, helpers]: the names that  *)
(* are expansions of built-in macros, the pairs <<name, name>> of which the *)
(* first's output needs the second, and the pairs <<attribute, name>> of a  *)
(* helper attribute and the name that understands it.                       *)

\* The attributes that could be helpers: those of the item, of its variants
\* and of its fields.
DeriveHelperCandidates(nodes, target) ==
    {n \in DOMAIN nodes :
        /\ Tag(nodes, n) = "Attr"
        /\ target \in ToSet(Chain(nodes, n))
        /\ \A k \in ToSet(Chain(nodes, nodes[n].parent)) :
              target < k => Tag(nodes, k) \in {"Field", "Variant"}}

TargetOfName(nodes, name) == nodes[nodes[name].parent].parent

NamesOfTarget(nodes, target) ==
    {n \in DOMAIN nodes : Tag(nodes, n) = "DeriveName" /\ TargetOfName(nodes, n) = target}

DeriveTargetNodes(nodes) ==
    {nodes[d].parent : d \in {n \in DOMAIN nodes : Tag(nodes, n) \in {"Derive", "CfgDerive"}}}

\* The active items whose derives are all written as such and whose every name
\* is reported.
FullyReported(nodes, report) ==
    {t \in DeriveTargetNodes(nodes) :
        /\ Active(nodes, t)
        /\ \A d \in ChildrenOf(nodes, t) : Tag(nodes, d) # "CfgDerive"
        /\ NamesOfTarget(nodes, t) \subseteq report.names}

\* The targets of which something is reported that is not about their own
\* names, or two names claim one helper attribute.
StrayTargets(nodes, report) ==
    LET influences == {i \in report.influences :
                          TargetOfName(nodes, i[1]) # TargetOfName(nodes, i[2])}
        helpers ==
            {h \in report.helpers :
                \/ h[1] \notin DeriveHelperCandidates(nodes, TargetOfName(nodes, h[2]))
                \/ \E g \in report.helpers : g # h /\ g[1] = h[1]}
    IN UNION {{TargetOfName(nodes, i[1]), TargetOfName(nodes, i[2])} : i \in influences}
       \cup {TargetOfName(nodes, h[2]) : h \in helpers}

CompleteTargets(nodes, report) == FullyReported(nodes, report) \ StrayTargets(nodes, report)

\* The smallest active unit of a target around one of its attributes; there has
\* to be a single one.
DeriveHelperOwner(units, target, range) ==
    LET length(u) == units[u].range.end - units[u].range.start
        around == {u \in DOMAIN units : /\ units[u].active
                                        /\ RangeContains(units[target].range, units[u].range)
                                        /\ RangeContains(units[u].range, range)}
    IN CHOOSE u \in around : \A v \in around \ {u} : length(u) < length(v)

\* The helper attributes of complete targets, in order, each with its name.
CompleteHelpers(nodes, report, complete) ==
    SortedBy({h \in report.helpers : TargetOfName(nodes, h[2]) \in complete},
             LAMBDA a, b : a[1] < b[1])

\* A complete target's attributes and names leave its group, and its helper
\* attributes become units.
RefinedDeriveUnits(nodes, collected, complete, helpers) ==
    LET UnitOf(n) == collected.unitOf[n]
        split == UNION {{n \in DOMAIN nodes :
                            \/ Tag(nodes, n) = "Derive" /\ nodes[n].parent = t
                            \/ Tag(nodes, n) = "DeriveName" /\ TargetOfName(nodes, n) = t} :
                           t \in complete}
        base == PendingUnits([units |-> collected.units])
    IN [u \in DOMAIN base |->
           IF \E n \in split : UnitOf(n) = u
           THEN [base[u] EXCEPT !.representative = u] ELSE base[u]]
       \o [k \in DOMAIN helpers |->
             Pending("MacroInvocation", nodes[helpers[k][1]].range,
                 DeriveHelperOwner(collected.units,
                     UnitOf(TargetOfName(nodes, helpers[k][2])), nodes[helpers[k][1]].range),
                 Len(base) + k)]

\* The facts about the derives, with the units' new numbers.
WithDeriveUnits(nodes, report, collected, complete, helpers, finished) ==
    LET UnitOf(n) == collected.unitOf[n]
        id == finished.idMap
    IN [units |-> finished.units,
        unitOf |-> [n \in DOMAIN collected.unitOf |-> id[UnitOf(n)]],
        deriveTargets |->
            {LET target == CHOOSE n \in DOMAIN collected.unitOf : UnitOf(n) = t.target
             IN [t EXCEPT
                   !.target = id[@],
                   !.complete = target \in complete,
                   !.attributes = {[a EXCEPT !.attribute = id[@],
                                             !.elements = [k \in DOMAIN @ |-> id[@[k]]]] :
                                      a \in @},
                   !.influences = {<<id[UnitOf(i[1])], id[UnitOf(i[2])]>> :
                        i \in {x \in report.influences :
                                 target \in complete /\ TargetOfName(nodes, x[1]) = target}},
                   !.helpers = {<<id[Len(collected.units) + k], id[UnitOf(helpers[k][2])]>> :
                        k \in {j \in DOMAIN helpers :
                                 TargetOfName(nodes, helpers[j][2]) = target}}] :
                t \in collected.deriveTargets}]

RefineCompleteTargets(nodes, report, collected, complete, helpers) ==
    WithDeriveUnits(nodes, report, collected, complete, helpers,
        FinishPendingUnits(RefinedDeriveUnits(nodes, collected, complete, helpers)))

RefineDeriveTargets(nodes, report, collected) ==
    LET complete == CompleteTargets(nodes, report)
    IN RefineCompleteTargets(nodes, report, collected, complete,
                             CompleteHelpers(nodes, report, complete))

=============================================================================
