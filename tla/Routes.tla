------------------------------- MODULE Routes -------------------------------
(***************************************************************************)
(* route_planning (app/algorithms/graph): Dijkstra's algorithm, A*,        *)
(* Bellman-Ford and the enumeration of simple paths, with the order of the *)
(* places to pass through.                                                 *)
(*                                                                         *)
(* A route problem has `nodes` nodes 1..nodes, their places `at` on a line *)
(* (NoPlace for a node without coordinates), a sequence of edges with      *)
(* source, target, weight and directed, a start and a goal.  Its           *)
(* constraints forbid edges and require nodes.                             *)
(***************************************************************************)
EXTENDS Candidates

CONSTANT MaxExact  \* _MAX_EXACT: up to so many waypoints, all orders are tried

NoPlace == -1

Nodes(p) == 1..p.nodes
Waypoints(p) == RequiredItems(p) \ {p.start, p.goal}

(* Nodes that a search may be asked about: a required node may be unknown. *)
Stops(p) == {p.start, p.goal} \cup Waypoints(p)
Legs(p) == {ab \in Stops(p) \X Stops(p) : ab[1] # ab[2]}

-----------------------------------------------------------------------------
(* build_adjacency: the arcs out of u, in the order of the edges; an       *)
(* undirected edge gives an arc in each direction.                         *)

ArcsFrom(p, u) ==
    LET forbidden == ForbiddenItems(p)
        arc(e, v) == [edge |-> e, from |-> u, to |-> v, weight |-> p.edges[e].weight]
        arcs(e) ==
            IF e \in forbidden THEN <<>>
            ELSE (IF p.edges[e].source = u THEN <<arc(e, p.edges[e].target)>> ELSE <<>>)
                 \o (IF p.edges[e].target = u /\ ~p.edges[e].directed
                     THEN <<arc(e, p.edges[e].source)>> ELSE <<>>)
    IN  FlattenSeq([e \in DOMAIN p.edges |-> arcs(e)])

AllArcs(p) == FlattenSeq([u \in Nodes(p) |-> ArcsFrom(p, u)])

HasNegativeWeight(p) == \E arc \in Range(AllArcs(p)) : arc.weight < 0

(* reachable_nodes: the breadth-first search from a node.                  *)
ReachableFrom(p, start) ==
    LET arcs == Range(AllArcs(p))
        spread[reached \in SUBSET ({start} \cup {arc.to : arc \in arcs})] ==
            LET next == {arc.to : arc \in {a \in arcs : a.from \in reached}}
            IN  IF next \subseteq reached THEN reached ELSE spread[reached \cup next]
    IN  spread[{start}]

-----------------------------------------------------------------------------
(* One segment: the state of a search is the distance of every node, None  *)
(* for one that is not reached, and the arc by which it was reached.       *)

SearchFrom(p, start) ==
    [dist |-> [n \in Nodes(p) \cup Stops(p) |-> IF n = start THEN 0 ELSE None],
     prev |-> [n \in Nodes(p) \cup Stops(p) |-> None]]

(* Mutant: a distance that was found is never improved.                    *)
ImprovesOnce(dist, arc) == dist[arc.from] # None /\ dist[arc.to] = None

Improves(dist, arc) ==
    /\ dist[arc.from] # None
    /\ dist[arc.to] = None \/ dist[arc.from] + arc.weight < dist[arc.to]

Relax(s, arc) ==
    IF Improves(s.dist, arc)
    THEN [dist |-> [s.dist EXCEPT ![arc.to] = s.dist[arc.from] + arc.weight],
          prev |-> [s.prev EXCEPT ![arc.to] = arc]]
    ELSE s

(* _heuristic: the straight line to the goal, 0 when an end has no place.  *)
Heuristic(p, node, goal) ==
    IF ~({node, goal} \subseteq Nodes(p)) \/ NoPlace \in {p.at[node], p.at[goal]} THEN 0
    ELSE Max({p.at[node] - p.at[goal], p.at[goal] - p.at[node]})

(* The loop of Dijkstra's algorithm, h = 0, and of A*.  The heap holds,    *)
(* for each reached node that is not settled, an entry with its current    *)
(* distance before any older one, so the first entry that is not skipped   *)
(* is the least such node by distance plus h, then by id.  A settled node  *)
(* is not opened again, though its distance may still be lowered; so every *)
(* turn but the last settles a node.                                       *)
Open(s, settled) == {n \in DOMAIN s.dist \ settled : s.dist[n] # None}

FirstOpen(h, s, open) ==
    LET key(n) == s.dist[n] + h[n]
    IN  CHOOSE n \in open : \A m \in open : key(n) < key(m) \/ (key(n) = key(m) /\ n <= m)

BestFirst(p, goal, h, start) ==
    LET settle(r, node) ==
            IF node = goal THEN [r EXCEPT !.found = TRUE]
            ELSE [r EXCEPT !.search = FoldLeft(Relax, @, ArcsFrom(p, node)), !.settled = @ \cup {node}]
        next(r, open) == IF r.found \/ open = {} THEN r ELSE settle(r, FirstOpen(h, r.search, open))
        after(r) == next(r, Open(r.search, r.settled))
        turns[k \in Nat] == IF k = 0 THEN [found |-> FALSE, search |-> SearchFrom(p, start), settled |-> {}]
                            ELSE after(turns[k - 1])
    IN  turns[Cardinality(DOMAIN h)]

(* reconstruct_path: the arcs from start to n, found backwards.            *)
PathTo(prev, start, n) ==
    LET path[m \in {start} \cup {x \in DOMAIN prev : prev[x] # None}] ==
            IF m = start THEN <<>> ELSE Append(path[prev[m].from], prev[m])
    IN  path[n]

NoSegment == [nodes |-> <<>>, edges |-> <<>>, weight |-> None]

Along(start, arcs, weight) ==
    [nodes |-> <<start>> \o [i \in DOMAIN arcs |-> arcs[i].to],
     edges |-> [i \in DOMAIN arcs |-> arcs[i].edge],
     weight |-> weight]

SegmentOf(s, start, goal) == Along(start, PathTo(s.prev, start, goal), s.dist[goal])

SegmentFound(r, start, goal) == IF r.found THEN SegmentOf(r.search, start, goal) ELSE NoSegment

DijkstraSegment(p, start, goal) ==
    SegmentFound(BestFirst(p, goal, [n \in Nodes(p) \cup Stops(p) |-> 0], start), start, goal)

AStarSegment(p, start, goal) ==
    LET h == [n \in Nodes(p) \cup Stops(p) |-> Heuristic(p, n, goal)]
    IN  SegmentFound(BestFirst(p, goal, h, start), start, goal)

(* _bellman_ford_segment: V-1 rounds over all arcs; a round that changes   *)
(* nothing ends the loop, which leaves the same distances.  An arc that    *)
(* would still improve one shows a negative cycle.                         *)
Relaxed(p, start) ==
    LET arcs == AllArcs(p)
        rounds[k \in Nat] ==
            IF k = 0 THEN SearchFrom(p, start) ELSE FoldLeft(Relax, rounds[k - 1], arcs)
    IN  rounds[Max({p.nodes - 1, 0})]

NegativeCycleIn(p, s) == \E arc \in Range(AllArcs(p)) : Improves(s.dist, arc)

NegativeCycleFrom(p, start) == LET s == Relaxed(p, start) IN NegativeCycleIn(p, s)

BellmanFordSegment(p, start, goal) ==
    LET segment(s) == IF s.dist[goal] = None \/ NegativeCycleIn(p, s) THEN NoSegment
                      ELSE SegmentOf(s, start, goal)
    IN  segment(Relaxed(p, start))

-----------------------------------------------------------------------------
(* optimize_waypoint_order over the costs of the segments between stops.   *)

PathTotal(order, cost) ==
    LET legs == [i \in 1..(Len(order) - 1) |-> cost[<<order[i], order[i + 1]>>]]
    IN  IF None \in Range(legs) THEN None ELSE SumFunction(legs)

Cheaper(a, b) == a # None /\ (b = None \/ a < b)

(* _exact_best: an order of least total.  The source keeps the first of    *)
(* them by the order in which the constraints name the waypoints.          *)
ExactOrders(p, cost) ==
    LET orders == {<<p.start>> \o w \o <<p.goal>> : w \in SetToSeqs(Waypoints(p))}
        total == [o \in orders |-> PathTotal(o, cost)]
    IN  {o \in orders : total[o] # None /\ \A q \in orders : ~Cheaper(total[q], total[o])}

(* _approx_best begins with the nearest neighbour, by the iteration order  *)
(* of a set where several are nearest or none can be reached ...           *)
NearestFirst(cost, start, waypoints) ==
    LET from[current \in {start} \cup waypoints, remaining \in SUBSET waypoints] ==
            LET reachable == {w \in remaining : cost[current, w] # None}
                nearest == {w \in reachable : \A v \in reachable : cost[current, w] <= cost[current, v]}
            IN  IF reachable = {} THEN SetToSeqs(remaining)
                ELSE UNION {{<<w>> \o rest : rest \in from[w, remaining \ {w}]} : w \in nearest}
    IN  from[start, waypoints]

(* ... and then reverses stretches between two stops as long as that       *)
(* shortens the total.                                                     *)
Reversed(seq, i, j) == SubSeq(seq, 1, i - 1) \o Reverse(SubSeq(seq, i, j))
                       \o SubSeq(seq, j + 1, Len(seq))

TwoOpt(cost, order) ==
    LET stretches == FlattenSeq([i \in 1..(Len(order) - 3) |->
                         [j \in 1..(Len(order) - 2 - i) |-> <<i + 1, i + 1 + j>>]])
        try(s, ij) ==
            LET cand == Reversed(s, ij[1], ij[2])
            IN  IF Cheaper(PathTotal(cand, cost), PathTotal(s, cost)) THEN cand ELSE s
        improved[s \in Seq(Range(order))] ==
            LET next == FoldLeft(try, s, stretches)
            IN  IF next = s THEN s ELSE improved[next]
    IN  improved[order]

ApproxOrders(p, cost) ==
    {o \in {TwoOpt(cost, <<p.start>> \o w \o <<p.goal>>) :
                w \in NearestFirst(cost, p.start, Waypoints(p))} : PathTotal(o, cost) # None}

WaypointOrders(p, cost) ==
    IF Waypoints(p) = {} THEN {IF p.start = p.goal THEN <<p.start>> ELSE <<p.start, p.goal>>}
    ELSE IF Cardinality(Waypoints(p)) <= MaxExact THEN ExactOrders(p, cost)
    ELSE ApproxOrders(p, cost)

-----------------------------------------------------------------------------
(* plan_route: the segments of the chosen order put end to end.  An order  *)
(* of one stop has no segment, and gives a route without any node.         *)

Joined(order, segment) ==
    LET legs == [i \in 1..(Len(order) - 1) |-> segment[order[i], order[i + 1]]]
        nodes(i) == IF i = 1 THEN legs[i].nodes ELSE Tail(legs[i].nodes)
    IN  [nodes |-> FlattenSeq([i \in DOMAIN legs |-> nodes(i)]),
         edges |-> FlattenSeq([i \in DOMAIN legs |-> legs[i].edges]),
         weight |-> FoldLeft(LAMBDA w, leg : w + leg.weight, 0, legs)]

RouteAnswer(route) == Answer(route, [total_weight |-> route.weight])

(* The answers a strategy may give whose segments are Segment(p, a, b).    *)
PlanRoute(p, Segment(_, _, _)) ==
    LET answers(routes) == IF routes = {} THEN {Infeasible({})} ELSE {RouteAnswer(r) : r \in routes}
        along(segment, cost) ==
            {Joined(o, segment) : o \in {o \in WaypointOrders(p, cost) : PathTotal(o, cost) # None}}
        plan(segment) == answers(along(segment, [ab \in Legs(p) |-> segment[ab].weight]))
    IN  plan([ab \in Legs(p) |-> Segment(p, ab[1], ab[2])])

Dijkstra(p) ==
    IF HasNegativeWeight(p) THEN {Infeasible({"negative_weight"})}
    ELSE PlanRoute(p, DijkstraSegment)

AStar(p) ==
    IF HasNegativeWeight(p) THEN {Infeasible({"negative_weight"})}
    ELSE PlanRoute(p, AStarSegment)

(* The exception of a negative cycle ends the whole route.  A segment that *)
(* counts begins where the start leads, so the first one that is asked for *)
(* raises if any of them does; without a segment none raises.              *)
BellmanFord(p) ==
    IF Stops(p) # {p.start} /\ NegativeCycleFrom(p, p.start)
    THEN {Infeasible({"negative_cycle"})}
    ELSE PlanRoute(p, BellmanFordSegment)

(* NetworkxShortestPath: the distances are NetworkX's, which raises for a  *)
(* negative cycle as well; it looks for one even when start is the goal.   *)
DijkstraNx(p) ==
    IF HasNegativeWeight(p) /\ NegativeCycleFrom(p, p.start)
    THEN {Infeasible({"negative_cycle"})}
    ELSE PlanRoute(p, BellmanFordSegment)

(* BruteForceRouteStrategy: every simple path; the search stops at the     *)
(* goal, so no path passes through it.                                     *)
SimplePaths(p) ==
    LET from[node \in Nodes(p), visited \in SUBSET Nodes(p)] ==
            IF node = p.goal THEN {<<>>}
            ELSE UNION {{<<arc>> \o rest : rest \in from[arc.to, visited \cup {arc.to}]} :
                        arc \in {a \in Range(ArcsFrom(p, node)) : a.to \notin visited}}
    IN  from[p.start, {p.start}]

BruteForceRoute(p) ==
    LET weight(arcs) == FoldLeft(LAMBDA w, arc : w + arc.weight, 0, arcs)
        routes == {Along(p.start, arcs, weight(arcs)) : arcs \in SimplePaths(p)}
        complete == {r \in routes : RequiredItems(p) \subseteq Range(r.nodes)}
        best == {r \in complete : \A q \in complete : r.weight <= q.weight}
    IN  IF best = {} THEN {Infeasible({})} ELSE {RouteAnswer(r) : r \in best}

-----------------------------------------------------------------------------
(* Validation and the structural verification of a route.                  *)

RouteIntegrity(p) ==
    /\ {p.start, p.goal} \subseteq Nodes(p)
    /\ \A e \in Range(p.edges) : {e.source, e.target} \subseteq Nodes(p)

RouteFeasible(p) == p.goal \in ReachableFrom(p, p.start)

Connects(edge, a, b) ==
    \/ {edge.source, edge.target} = {a, b}
    \/ edge.directed /\ edge.source = a /\ edge.target = b

(* Mutant: the claimed weight is not compared with the sum.                *)
RouteStructureUnweighed(p, route) ==
    IF /\ route.nodes # <<>>
       /\ route.nodes[1] = p.start /\ Last(route.nodes) = p.goal
       /\ Len(route.edges) = Len(route.nodes) - 1
       /\ Range(route.edges) \subseteq DOMAIN p.edges
       /\ \A i \in DOMAIN route.edges :
              Connects(p.edges[route.edges[i]], route.nodes[i], route.nodes[i + 1])
    THEN {} ELSE {Hard("route_structure")}

RouteStructure(p, route) ==
    IF /\ route.nodes # <<>>
       /\ route.nodes[1] = p.start /\ Last(route.nodes) = p.goal
       /\ Len(route.edges) = Len(route.nodes) - 1
       /\ Range(route.edges) \subseteq DOMAIN p.edges
       /\ \A i \in DOMAIN route.edges :
              Connects(p.edges[route.edges[i]], route.nodes[i], route.nodes[i + 1])
       /\ route.weight = SumFunction([i \in DOMAIN route.edges |-> p.edges[route.edges[i]].weight])
    THEN {} ELSE {Hard("route_structure")}
=============================================================================
