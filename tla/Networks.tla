------------------------------ MODULE Networks ------------------------------
(***************************************************************************)
(* network_design (app/algorithms/graph): minimum spanning trees by        *)
(* Kruskal, by Prim and by NetworkX, with links that must be used.         *)
(*                                                                         *)
(* A network problem has `nodes` nodes 1..nodes and a sequence of links,   *)
(* each with its endpoints a and b and a weight; the ids of the links are  *)
(* their positions.                                                        *)
(***************************************************************************)
EXTENDS Candidates

Sites(p) == 1..p.nodes
Links(p) == DOMAIN p.links
Usable(p) == Links(p) \ ForbiddenItems(p)
Needed(p) == Max({p.nodes - 1, 0})

-----------------------------------------------------------------------------
(* UnionFind: a parent and a rank for every element.                       *)

Singletons(elements) ==
    [parent |-> [x \in elements |-> x], rank |-> [x \in elements |-> 0]]

(* The elements from x up to its root.                                     *)
Upward(parent, x) ==
    LET up[y \in DOMAIN parent] == IF parent[y] = y THEN <<y>> ELSE <<y>> \o up[parent[y]]
    IN  up[x]

Root(parent, x) == Last(Upward(parent, x))

(* find: every element on the way is hung below the root.                  *)
Compressed(parent, x) ==
    [y \in DOMAIN parent |-> IF y \in Range(Upward(parent, x)) THEN Root(parent, x) ELSE parent[y]]

Joins(uf, link) == Root(uf.parent, link.a) # Root(uf.parent, link.b)

(* Mutant: the element itself is hung below the other tree, not its root.  *)
UnionOfElements(uf, link) ==
    [uf EXCEPT !.parent[link.b] = Root(uf.parent, link.a)]

(* union: the tree of lower rank is hung below the other.                  *)
Union(uf, link) ==
    LET hung(parent, top, low) ==
            [parent |-> [parent EXCEPT ![low] = top],
             rank |-> IF uf.rank[top] = uf.rank[low] THEN [uf.rank EXCEPT ![top] = @ + 1] ELSE uf.rank]
        united(parent, ra, rb) ==
            IF ra = rb THEN [uf EXCEPT !.parent = parent]
            ELSE IF uf.rank[ra] < uf.rank[rb] THEN hung(parent, rb, ra) ELSE hung(parent, ra, rb)
        compressed(parent) == united(parent, Root(parent, link.a), Root(parent, link.b))
    IN  compressed(Compressed(Compressed(uf.parent, link.a), link.b))

-----------------------------------------------------------------------------
(* Picking links in a sequence: those that close no cycle.                 *)

Pick(p, state, l) ==
    [uf |-> Union(state.uf, p.links[l]),
     selected |-> IF Joins(state.uf, p.links[l]) THEN Append(state.selected, l) ELSE state.selected,
     refused |-> state.refused \/ ~Joins(state.uf, p.links[l])]

(* resolve_required: the required links first; one that is unknown,        *)
(* forbidden or closes a cycle makes the problem infeasible.               *)
Resolved(p) ==
    FoldLeft(LAMBDA s, l : IF l \in Usable(p) THEN Pick(p, s, l) ELSE [s EXCEPT !.refused = TRUE],
             [uf |-> Singletons(Sites(p)), selected |-> <<>>, refused |-> FALSE],
             Arranged(RequiredItems(p), <))

TreeAnswer(p, selected) ==
    LET weight == SumFunction([i \in DOMAIN selected |-> p.links[selected[i]].weight])
    IN  Answer([links |-> selected, weight |-> weight], [total_weight |-> weight])

Lighter(p, l, m) ==
    p.links[l].weight < p.links[m].weight \/ (p.links[l].weight = p.links[m].weight /\ l < m)

(* KruskalStrategy: the other links by weight.  It stops at V - 1 links.   *)
Kruskal(p) ==
    LET rest == Arranged(Usable(p) \ RequiredItems(p), LAMBDA l, m : Lighter(p, l, m))
        pick(s, l) == IF Len(s.selected) = Needed(p) THEN s ELSE Pick(p, s, l)
        found(resolved, final) ==
            IF resolved.refused \/ Len(final.selected) # Needed(p) THEN {Infeasible({})}
            ELSE {TreeAnswer(p, final.selected)}
        from(resolved) == found(resolved, FoldLeft(pick, resolved, rest))
    IN  from(Resolved(p))

(* The loop of PrimStrategy: the heap holds the links that leave the tree, *)
(* and entries that are skipped, by weight, link and node.                 *)
Grow(p, start, required) ==
    LET out(tree) == {l \in Usable(p) : Cardinality({p.links[l].a, p.links[l].b} \cap tree) = 1
                                          /\ p.links[l].a # p.links[l].b}
        lightest(links) == CHOOSE l \in links : \A m \in links \ {l} : Lighter(p, l, m)
        with(f, next) == [tree |-> f.tree \cup {p.links[next].a, p.links[next].b},
                          selected |-> Append(f.selected, next)]
        grow[f \in [tree : SUBSET Sites(p), selected : Seq(Links(p))]] ==
            IF out(f.tree) = {} \/ Len(f.selected) >= Needed(p) THEN f
            ELSE grow[with(f, lightest(out(f.tree)))]
    IN  grow[[tree |-> start, selected |-> required]]

(* PrimStrategy: the tree begins with the ends of the required links and   *)
(* the first node, whether or not these links hang together.               *)
Prim(p) ==
    LET ends(links) == UNION {{p.links[l].a, p.links[l].b} : l \in Range(links)}
        found(resolved, grown) ==
            IF resolved.refused \/ Len(grown.selected) # Needed(p) \/ grown.tree # Sites(p)
            THEN {Infeasible({})}
            ELSE {TreeAnswer(p, grown.selected)}
        from(resolved) == found(resolved, Grow(p, ends(resolved.selected) \cup {1}, resolved.selected))
    IN  IF p.nodes = 0 THEN {TreeAnswer(p, <<>>)} ELSE from(Resolved(p))

-----------------------------------------------------------------------------
(* Connectivity: reachable_nodes over a set of links, all_nodes_connected  *)
(* and forms_spanning_tree.                                                *)

Spread(p, links, start) ==
    LET ends(ls) == UNION {{p.links[l].a, p.links[l].b} : l \in ls}
        spread[reached \in SUBSET (start \cup ends(links))] ==
            LET touched == ends({l \in links : {p.links[l].a, p.links[l].b} \cap reached # {}})
            IN  IF touched \subseteq reached THEN reached ELSE spread[reached \cup touched]
    IN  spread[start]

AllConnected(p, links) == p.nodes <= 1 \/ Sites(p) \subseteq Spread(p, links, {1})

FormsSpanningTree(p, selected) == Len(selected) = Needed(p) /\ AllConnected(p, Range(selected))

(* NetworkxMST: a required link counts less than every other one, of two   *)
(* parallel links the lighter is kept, and NetworkX returns some spanning  *)
(* tree of least weight of what is left.                                   *)
NetworkxMST(p) ==
    LET base == IF Links(p) = {} THEN 0 ELSE Min({p.links[l].weight : l \in Links(p)})
        bias == base - 1 - Len(p.links)
        weight(l) == IF l \in RequiredItems(p) THEN bias ELSE p.links[l].weight
        parallel(l, m) == {p.links[l].a, p.links[l].b} = {p.links[m].a, p.links[m].b}
        kept == {l \in Usable(p) : \A m \in Usable(p) \ {l} :
                    parallel(l, m) => weight(l) < weight(m) \/ (weight(l) = weight(m) /\ l < m)}
        trees == {t \in kSubset(Needed(p), kept) : AllConnected(p, t)}
        least == {t \in trees : \A u \in trees :
                    MapThenSumSet(weight, t) <= MapThenSumSet(weight, u)}
        right == {t \in least : RequiredItems(p) \subseteq t}
    IN  {TreeAnswer(p, SetToSeq(t)) : t \in right}
        \cup (IF right # least \/ least = {} THEN {Infeasible({})} ELSE {})

-----------------------------------------------------------------------------
(* Validation and the structural verification of a network.                *)

NetworkIntegrity(p) == \A l \in Links(p) : {p.links[l].a, p.links[l].b} \subseteq Sites(p)

NetworkFeasible(p) ==
    /\ p.nodes >= 2 => p.links # <<>>
    /\ AllConnected(p, Usable(p))

NetworkStructure(p, tree) ==
    IF /\ Range(tree.links) \subseteq Links(p)
       /\ Len(tree.links) = Needed(p)
       /\ \A l \in Range(tree.links) : {p.links[l].a, p.links[l].b} \subseteq Sites(p)
       /\ tree.weight = SumFunction([i \in DOMAIN tree.links |-> p.links[tree.links[i]].weight])
       /\ FormsSpanningTree(p, tree.links)
    THEN {} ELSE {Hard("network_structure")}
=============================================================================
