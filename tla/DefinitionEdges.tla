--------------------------- MODULE DefinitionEdges ---------------------------
(***************************************************************************)
(* What the definitions of a session need of each other                    *)
(* (src/src/definitions.rs: the HIR visitor, the results of type checking, *)
(* the imports and the parents), and what the written units then need of   *)
(* each other.                                                             *)
(*                                                                         *)
(* A node that refers names its target in to, the use leaf it was found    *)
(* through in via and the impl that its call selects in impl.  Unresolved  *)
(* is the target of a reference that finds nothing.                        *)
(***************************************************************************)
EXTENDS Definitions

Unresolved == -1

-----------------------------------------------------------------------------
(* The visitor's state at a node.                                          *)

\* The node of the definition that a node is visited for.
CurrentNode(nodes, n) ==
    Max({k \in ToSet(Chain(nodes, n)) : Defines(nodes, k)})

ConstLikeTags == {"Const", "AssociatedConst", "AnonConst", "Static"}

\* What each node makes of the context around it.
ContextOf(nodes, n, around) ==
    LET tag == Tag(nodes, n)
        current == Tag(nodes, CurrentNode(nodes, n))
    IN CASE tag = "Impl" -> "ImplSelfType"
         [] tag = "Trait" -> "SuperTrait"
         [] tag = "AssociatedType" /\ ParentTag(nodes, n) = "Trait" -> "AssociatedTypeBound"
         [] \/ tag \in {"AssociatedType"} /\ ParentTag(nodes, n) # "Trait"
            \/ tag \in {"AssociatedFunction", "AssociatedConst", "Input", "ConstType"} ->
                "SignatureType"
         [] tag \in {"Module", "Struct", "Enum", "Function", "Const", "Static", "TypeAlias",
                     "Macro", "Use", "ForeignModule"} ->
                IF ParentTag(nodes, n) = "ForeignModule" THEN "SignatureType" ELSE "TypePath"
         [] tag = "Field" -> "FieldType"
         [] tag = "Default" -> "GenericDefault"
         [] tag = "AnonConst" -> "ConstExpression"
         [] tag = "OpaqueType" -> "AssociatedTypeBound"
         [] tag = "Body" -> IF current \in ConstLikeTags THEN "ConstExpression" ELSE "ValuePath"
         [] tag = "Output" -> "ReturnType"
         [] tag = "Where" -> "Predicate"
         [] tag = "TraitRef" /\ around # "Predicate" ->
                CASE current = "Impl" -> "ImplementedTrait"
                  [] current = "Trait" -> "SuperTrait"
                  [] OTHER -> around
         [] tag = "Ty" /\ around \in {"ValuePath", "ConstExpression"} -> "TypePath"
         [] tag = "Pat" -> "PatternConstructor"
         [] OTHER -> around

Context(nodes, n) ==
    LET context[k \in 0 .. Len(nodes)] ==
            IF k = 0 THEN "TypePath" ELSE ContextOf(nodes, k, context[nodes[k].parent])
    IN context[n]

-----------------------------------------------------------------------------
(* Edges between nodes: [from, to, kind, site].                            *)

NodeEdge(from, to, kind, site) == [from |-> from, to |-> to, kind |-> kind, site |-> site]

ActiveNodes(nodes, tags) == {n \in DOMAIN nodes : Tag(nodes, n) \in tags /\ Active(nodes, n)}

NamespaceKind(nodes, target) ==
    CASE Tag(nodes, target) = "Macro" -> "MacroPath"
      [] Tag(nodes, target) \in {"Function", "Const", "Static"} -> "ValuePath"
      [] OTHER -> "TypePath"

\* What a path resolves to (record_res); it may be nothing with a definition.
ResolvedEdges(nodes) ==
    LET Kind(n, target) ==
            CASE Tag(nodes, CurrentNode(nodes, n)) \in {"Use", "UseLeaf"} ->
                    NamespaceKind(nodes, target)
              [] Tag(nodes, CurrentNode(nodes, n)) \notin {"Use", "UseLeaf"}
                 /\ Tag(nodes, target) = "Macro" -> "MacroPath"
              [] Tag(nodes, CurrentNode(nodes, n)) \notin {"Use", "UseLeaf"}
                 /\ Tag(nodes, target) \in AssociatedTags -> "AssociatedItemTarget"
              [] OTHER -> Context(nodes, n)
    IN {NodeEdge(CurrentNode(nodes, n), nodes[n].to, Kind(n, nodes[n].to), nodes[n].range) :
           n \in {p \in ActiveNodes(nodes, {"Path", "UseLeaf"}) : nodes[p].to > 0}}

\* A visibility that names a module.
VisibilityEdges(nodes) ==
    {NodeEdge(CurrentNode(nodes, n), nodes[n].to, "VisibilityPath", nodes[n].range) :
        n \in {v \in ActiveNodes(nodes, {"Vis"}) : nodes[v].to > 0}}

\* Constants that other definitions have, named lifetimes, and assembly, which
\* may need anything.
PartEdges(nodes) ==
    {NodeEdge(nodes[n].parent, n, "Discriminant", nodes[n].range) :
        n \in {c \in ActiveNodes(nodes, {"AnonConst"}) : ParentTag(nodes, c) = "Variant"}}
    \cup {NodeEdge(CurrentNode(nodes, nodes[n].parent), n, "GenericDefault", nodes[n].range) :
        n \in {c \in ActiveNodes(nodes, {"AnonConst"}) : ParentTag(nodes, c) = "Default"}}
    \cup {NodeEdge(CurrentNode(nodes, n), nodes[n].to, Context(nodes, n), nodes[n].range) :
        n \in {l \in ActiveNodes(nodes, {"Lifetime"}) : nodes[l].to > 0}}
    \cup {NodeEdge(CurrentNode(nodes, n), 1, "OpaqueSource", nodes[n].range) :
        n \in ActiveNodes(nodes, {"InlineAsm"})}

\* Items of a trait or an impl with a name.
ItemsNamed(nodes, container, name) ==
    {k \in ChildrenOf(nodes, container) :
        Defines(nodes, k) /\ Tag(nodes, k) \in AssociatedTags /\ nodes[k].name = name}

\* The traits that a trait or an impl names in its header.
HeaderTraits(nodes, container) ==
    {nodes[p].to : p \in {n \in ActiveNodes(nodes, {"Path"}) :
        /\ ParentTag(nodes, n) = "TraitRef"
        /\ nodes[nodes[n].parent].parent = container}}

\* A trait and all that it requires.
RECURSIVE Supertraits(_, _)
Supertraits(nodes, trait) ==
    {trait} \cup UNION {Supertraits(nodes, t) : t \in HeaderTraits(nodes, trait)}

\* What Self::name means in the signature of an item of a trait or an impl: the
\* container's own item, else the only one among those of its traits.
SelfAssociated(nodes, n) ==
    LET container == nodes[CurrentNode(nodes, n)].parent
        direct == ItemsNamed(nodes, container, nodes[n].name)
        traits == IF Tag(nodes, container) = "Trait" THEN {container}
                  ELSE HeaderTraits(nodes, container)
        scopes == UNION {Supertraits(nodes, t) : t \in traits}
    IN IF direct # {} THEN direct
       ELSE UNION {ItemsNamed(nodes, s, nodes[n].name) : s \in scopes}

\* An inherent impl without the name leaves it to the compiler.
IsLeftToTheCompiler(nodes, n) ==
    LET container == nodes[CurrentNode(nodes, n)].parent
    IN /\ Tag(nodes, container) = "Impl"
       /\ HeaderTraits(nodes, container) = {}
       /\ SelfAssociated(nodes, n) = {}

SelfEdges(nodes) ==
    UNION {{NodeEdge(CurrentNode(nodes, n), target, Context(nodes, n), nodes[n].range) :
               target \in SelfAssociated(nodes, n)} :
              n \in ActiveNodes(nodes, {"SelfPath"})}

\* The kind of edge for what type checking finds at each kind of place.
TypeckKind == [tag \in {"MethodCall", "Operator", "Deref", "Index", "Call", "FieldAccess",
                        "Adjustment", "GenericArgument", "Capture", "HiddenType"} |->
    CASE tag = "MethodCall" -> "MethodTarget"
      [] tag = "Operator" -> "OverloadedOperator"
      [] tag = "Deref" -> "DerefTarget"
      [] tag = "Index" -> "IndexTarget"
      [] tag = "Call" -> "CallableTrait"
      [] tag = "FieldAccess" -> "FieldTarget"
      [] tag = "Adjustment" -> "AdjustmentType"
      [] tag = "GenericArgument" -> "ResolvedGenericArgument"
      [] tag = "Capture" -> "ClosureCaptureType"
      [] tag = "HiddenType" -> "OpaqueHiddenType"]

TypeckEdges(nodes) ==
    {NodeEdge(CurrentNode(nodes, n), nodes[n].to, TypeckKind[Tag(nodes, n)], nodes[n].range) :
        n \in {t \in ActiveNodes(nodes, DOMAIN TypeckKind) : nodes[t].to > 0}}

\* The use leaves through which a node found its target, the nearest first.
RECURSIVE ImportChain(_, _)
ImportChain(nodes, n) ==
    IF nodes[n].via <= 0 THEN {} ELSE {nodes[n].via} \cup ImportChain(nodes, nodes[n].via)

\* The item that a derive is written on needs what its names came through.
ImportOwner(nodes, n) ==
    IF Tag(nodes, n) = "DeriveName" THEN TargetOfName(nodes, n) ELSE CurrentNode(nodes, n)

ImportEdges(nodes) ==
    UNION {{NodeEdge(ImportOwner(nodes, n), leaf, "ImportLeaf", nodes[n].anchor) :
               leaf \in ImportChain(nodes, n)} :
              n \in {m \in DOMAIN nodes : Active(nodes, m) /\ nodes[m].via # 0}}

-----------------------------------------------------------------------------
(* Edges between definitions: [from, to, kind, sites].                     *)

\* A reference that finds nothing, or a Self::name that could mean several
\* items, ends the session.
HasError(nodes) ==
    \/ \E n \in DOMAIN nodes :
          Active(nodes, n) /\ Unresolved \in {nodes[n].to, nodes[n].via, nodes[n].impl}
    \/ \E n \in ActiveNodes(nodes, {"SelfPath"}) :
          Cardinality(SelfAssociated(nodes, n)) # 1 /\ ~IsLeftToTheCompiler(nodes, n)

\* A call of a macro needs the macro where the call is written.
MacroEdges(inventory, nodes, program) ==
    UNION {{NodeEdge(HirParent(nodes, CallNode(nodes, OuterCall(program, e))), macro,
                     "MacroPath", program.expansions[n].call) :
               n \in NearestEditable(inventory, program, e),
               macro \in {k \in ActiveNodes(nodes, {"Macro"}) :
                   nodes[k].range =
                       program.definitions[program.expansions[e].definition].range}} :
              e \in DOMAIN program.expansions}

\* Every definition but the crate needs its parent.
ParentEdges(definitions) ==
    {[from |-> d, to |-> definitions.hir[d].parent, kind |-> "Parent",
      sites |-> DefinitionSite(definitions.origins[d].key)] :
        d \in {c \in DOMAIN definitions.hir : definitions.hir[c].parent # 0}}

\* One edge for all the sites of a kind of need.
MergedEdges(raw) ==
    LET Same(a, b) == a.from = b.from /\ a.to = b.to /\ a.kind = b.kind
    IN {[e EXCEPT !.sites = UNION {f.sites : f \in {g \in raw : Same(e, g)}}] : e \in raw}

CollectEdges(inventory, nodes, program, definitions) ==
    LET IdOf(n) == CHOOSE d \in DOMAIN definitions.hir :
                      definitions.hir[d].node = n /\ definitions.hir[d].made # "Derived"
        found == ResolvedEdges(nodes) \cup VisibilityEdges(nodes) \cup PartEdges(nodes)
                 \cup SelfEdges(nodes) \cup TypeckEdges(nodes) \cup ImportEdges(nodes)
                 \cup MacroEdges(inventory, nodes, program)
    IN MergedEdges({[from |-> IdOf(e.from), to |-> IdOf(e.to), kind |-> e.kind,
                     sites |-> {e.site}] : e \in found}
                   \cup ParentEdges(definitions))

\* A written definition that stays needs what an edge leads to where the text
\* that needs it stays; one without a site is needed in any case.
EdgeRequirements(inventory, definitions, edges) ==
    LET written == {e \in edges : definitions.origins[e.from].key.tag # "Expanded"}
        Needs(e, owners) == [when |-> {SourceUnitOf(definitions, e.from)} \cup owners,
                             required |-> SourceUnitOf(definitions, e.to)]
    IN UNION {IF e.sites = {} THEN {Needs(e, {})}
              ELSE {Needs(e, SourceSiteOwners(inventory, s)) : s \in e.sites} : e \in written}

-----------------------------------------------------------------------------
(* The members of traits and impls (src/src/retention.rs 369-815).         *)

\* The trait items that an impl's item could be the one of.
TraitItems(nodes, item) ==
    UNION {{k \in ItemsNamed(nodes, t, nodes[item].name) : Tag(nodes, k) = Tag(nodes, item)} :
              t \in HeaderTraits(nodes, nodes[item].parent) \cap DOMAIN nodes}

HasDefault(nodes, item) ==
    \E k \in ChildrenOf(nodes, item) : Tag(nodes, k) = "Body" /\ Active(nodes, k)

ImplItems(nodes) == {n \in ActiveNodes(nodes, AssociatedTags) : ParentTag(nodes, n) = "Impl"}

\* An impl's item needs the item of the trait that it is for.
ItemRequirements(nodes, unitOf) ==
    UNION {{[when |-> {unitOf[i]}, required |-> unitOf[t]] : t \in TraitItems(nodes, i)} :
              i \in ImplItems(nodes)}

\* Besides, an impl needs its own item for each item of the trait that stays
\* and has no default; an item needs the items of the trait that its signature
\* names, and a body the impls that its calls select.
MemberRequirements(nodes, unitOf) ==
    ItemRequirements(nodes, unitOf)
    \cup UNION {{[when |-> {unitOf[nodes[i].parent], unitOf[t]}, required |-> unitOf[i]] :
                    t \in {k \in TraitItems(nodes, i) : ~HasDefault(nodes, k)}} :
                   i \in ImplItems(nodes)}
    \cup UNION {{[when |-> {unitOf[CurrentNode(nodes, n)]}, required |-> unitOf[t]] :
                    t \in UNION {TraitItems(nodes, i) : i \in SelfAssociated(nodes, n)}} :
                   n \in ActiveNodes(nodes, {"SelfPath"})}
    \cup UNION {{[when |-> {unitOf[CurrentNode(nodes, n)]}, required |-> unitOf[i]] :
                    i \in {nodes[n].impl} \cup
                          {k \in ChildrenOf(nodes, nodes[n].impl) :
                              nodes[n].to \in TraitItems(nodes, k)}} :
                   n \in {m \in ActiveNodes(nodes, {"MethodCall"}) : nodes[m].impl > 0}}

=============================================================================
