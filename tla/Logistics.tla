----------------------------- MODULE Logistics -----------------------------
(***************************************************************************)
(* logistics_planning: which vehicle takes which deliveries from a depot,  *)
(* and in which order.                                                     *)
(*                                                                         *)
(* A problem has the nodes and edges of a route problem, none of a weight  *)
(* below 0, for its roads; a depot; a sequence of vehicles, each with the  *)
(* weight and the volume it takes; and a sequence of deliveries, each with *)
(* its node, weight and volume.  Its constraints forbid edges.             *)
(***************************************************************************)
EXTENDS Packing

CONSTANT MaxSearch  \* _MAX_NODES: the nodes that the bounded search expands

ASSUME MaxSearchAssumption == MaxSearch \in Nat

Vehicles(p) == DOMAIN p.vehicles
Deliveries(p) == DOMAIN p.deliveries

(* build_logistics_adjacency, all_pairs.                                   *)
Roads(p) == Range(AllArcs(p))
RoadDistances(p) == FloydWarshall(p.nodes, Roads(p))

(* capacity_ok, for the deliveries of a sequence that there are.           *)
CapacityOk(p, v, stops) ==
    LET known == {i \in DOMAIN stops : stops[i] \in Deliveries(p)}
        load(field) == SumFunction([i \in known |-> p.deliveries[stops[i]][field]])
    IN  load("weight") <= p.vehicles[v].weight /\ load("volume") <= p.vehicles[v].volume

(* route_distance: there and back, None if there is no way.                *)
RouteDistance(p, nodes, dist) ==
    IF nodes = <<>> THEN 0 ELSE PathTotal(<<p.depot>> \o nodes \o <<p.depot>>, dist)

(* route_for_vehicle: the nodes in the order of the shortest tour, and the *)
(* deliveries at each of them.  The depot is no stop of the tour, and the  *)
(* deliveries at the depot are lost with it.                               *)
RouteForVehicle(p, stops, dist) ==
    LET add(nodes, d) == LET n == p.deliveries[d].node
                         IN  IF n \in Range(nodes) \cup {p.depot} THEN nodes ELSE Append(nodes, n)
        at(n) == Picked(stops, {i \in DOMAIN stops : p.deliveries[stops[i]].node = n})
        route(tour) ==
            IF tour = None THEN None
            ELSE [stops |-> FlattenSeq([i \in 1..(Len(tour) - 1) |-> at(tour[i + 1])]),
                  distance |-> RouteDistance(p, Tail(tour), dist)]
    IN  IF stops = <<>> THEN [stops |-> <<>>, distance |-> 0]
        ELSE route(TourFrom(p.depot, FoldLeft(add, <<>>, stops), dist))

Possible(p, v, stops, dist) ==
    CapacityOk(p, v, stops) /\ RouteForVehicle(p, stops, dist) # None

(* logistics_solution: `load` gives every vehicle a sequence of deliveries.*)
LogisticsAnswer(p, load, dist) ==
    LET used == Arranged({v \in Vehicles(p) : load[v] # <<>>}, <)
        route(v, found) == IF found = None THEN None
                           ELSE [vehicle |-> v, stops |-> found.stops, distance |-> found.distance]
        answer(routes) ==
            LET total == SumFunction([i \in DOMAIN routes |-> routes[i].distance])
            IN  IF None \in Range(routes) THEN Infeasible({})
                ELSE Answer([routes |-> routes, total |-> total],
                            [total_distance |-> total, vehicles_used |-> Len(routes)])
    IN  answer([i \in DOMAIN used |-> route(used[i], RouteForVehicle(p, load[used[i]], dist))])

Unloaded(p) == [v \in Vehicles(p) |-> <<>>]
Put(load, v, d) == [load EXCEPT ![v] = Append(@, d)]

(* What the vehicles of a load drive altogether.                           *)
Driven(p, load, dist) ==
    SumFunction([v \in {v \in Vehicles(p) : load[v] # <<>>} |-> RouteForVehicle(p, load[v], dist).distance])

-----------------------------------------------------------------------------
(* GreedyLogisticsStrategy: every delivery, in the order of their ids, on  *)
(* the first vehicle that has least to drive in addition.                  *)
LeastIncrease(load, d, increase) ==
    LET least == {v \in DOMAIN increase : \A u \in DOMAIN increase : increase[v] <= increase[u]}
    IN  IF least = {} THEN None ELSE Put(load, Min(least), d)

PutGreedily(p, dist, load, d) ==
    IF load = None THEN None
    ELSE LeastIncrease(load, d, [v \in {v \in Vehicles(p) : Possible(p, v, Append(load[v], d), dist)} |->
                                    RouteForVehicle(p, Append(load[v], d), dist).distance
                                    - RouteForVehicle(p, load[v], dist).distance])

LoadAnswer(p, load, dist) == IF load = None THEN Infeasible({}) ELSE LogisticsAnswer(p, load, dist)

GreedyOver(p, dist) ==
    LoadAnswer(p, FoldLeft(LAMBDA load, d : PutGreedily(p, dist, load, d), Unloaded(p),
                           [d \in Deliveries(p) |-> d]), dist)

GreedyLogistics(p) == {GreedyOver(p, RoadDistances(p))}

(* KnapsackDpLogisticsStrategy: vehicle after vehicle, as many of the      *)
(* deliveries that remain as it can take, however far they are apart.      *)
KnapsackLogistics(p) ==
    LET light(d, vehicle) == /\ Ceil(p.deliveries[d].weight) <= Floor(vehicle.weight)
                             /\ Ceil(p.deliveries[d].volume) <= Floor(vehicle.volume)
        item(d) == [a |-> Ceil(p.deliveries[d].weight), b |-> Ceil(p.deliveries[d].volume), value |-> 1]
        most(ids, vehicle) ==
            {ids[i] : i \in Knapsack([i \in DOMAIN ids |-> item(ids[i])],
                                     Floor(vehicle.weight), Floor(vehicle.volume))}
        loaded(load) == UNION {Range(load[v]) : v \in Vehicles(p)}
        fill(load, v) ==
            LET fitting == {d \in Deliveries(p) \ loaded(load) : light(d, p.vehicles[v])}
            IN  [load EXCEPT ![v] = Arranged(most(Arranged(fitting, <), p.vehicles[v]), <)]
        answer(load) == IF Deliveries(p) # loaded(load) THEN Infeasible({})
                        ELSE LogisticsAnswer(p, load, RoadDistances(p))
    IN  {answer(FoldLeft(fill, Unloaded(p), [v \in Vehicles(p) |-> v]))}

(* _recurse of branch and bound.  On its way down it has a load, what each *)
(* vehicle drives with it, and the sum of that, `confirmed`.  `found` holds*)
(* the best load and its distance, the nodes expanded and whether there    *)
(* were too many of them.                                                  *)
Loads(p) == [Vehicles(p) -> Seq(Deliveries(p))]
PartialLoads(p) == [load : Loads(p), distances : [Vehicles(p) -> Int], confirmed : Int]
LoadsSearched(p) == [best : {None} \cup Loads(p), total : {None} \cup Int, ops : Nat, truncated : BOOLEAN]

(* Delivery d is put on vehicle v, which then drives this distance.        *)
PutOn(here, v, d, distance) ==
    [load |-> Put(here.load, v, d),
     distances |-> [here.distances EXCEPT ![v] = distance],
     confirmed |-> here.confirmed - here.distances[v] + distance]

(* Visits of the search with so many deliveries left to put on a vehicle.  *)
LoadSearch(p, dist) ==
    LET explore[left \in 0..Len(p.deliveries)] ==
            [at \in [here : PartialLoads(p), found : LoadsSearched(p)] |->
                LET d == Len(p.deliveries) - left + 1
                    more == [at.found EXCEPT !.ops = @ + 1]
                    extended(found, v, trial) ==
                        IF CapacityOk(p, v, Append(at.here.load[v], d)) /\ trial # None
                        THEN explore[left - 1][[here |-> PutOn(at.here, v, d, trial.distance), found |-> found]]
                        ELSE found
                    try(found, v) ==
                        IF found.ops >= MaxSearch THEN [found EXCEPT !.truncated = TRUE]
                        ELSE extended(found, v, RouteForVehicle(p, Append(at.here.load[v], d), dist))
                IN  IF at.found.ops >= MaxSearch THEN [at.found EXCEPT !.truncated = TRUE]
                    ELSE IF at.found.best # None /\ at.here.confirmed >= at.found.total THEN more
                    ELSE IF left = 0 THEN [more EXCEPT !.best = at.here.load, !.total = at.here.confirmed]
                    ELSE FoldLeft(try, more, [v \in Vehicles(p) |-> v])]
    IN  explore[Len(p.deliveries)]
            [[here |-> [load |-> Unloaded(p), distances |-> [v \in Vehicles(p) |-> 0], confirmed |-> 0],
              found |-> [best |-> None, total |-> None, ops |-> 0, truncated |-> FALSE]]]

BestLoadAnswer(p, search, dist) ==
    LET marked(answer) == [answer EXCEPT !.metrics = Updated(@, [f \in {"_truncated"} |-> 1])]
    IN  IF search.truncated /\ search.best # None THEN marked(LoadAnswer(p, search.best, dist))
        ELSE LoadAnswer(p, search.best, dist)

BranchAndBoundOver(p, dist) == BestLoadAnswer(p, LoadSearch(p, dist), dist)

BranchAndBoundLogistics(p) == {BranchAndBoundOver(p, RoadDistances(p))}

-----------------------------------------------------------------------------
(* The loads that a choice of a vehicle for every delivery gives.          *)
LoadOf(p, choice) ==
    [v \in Vehicles(p) |-> Arranged({d \in Deliveries(p) : choice[d] = v}, <)]

(* BruteForceLogisticsStrategy: the first of the choices that drive least. *)
PossibleChoices(p, dist) ==
    {c \in [Deliveries(p) -> Vehicles(p)] : \A v \in Range(c) : Possible(p, v, LoadOf(p, c)[v], dist)}

FirstOfLeast(driven) ==
    CHOOSE c \in DOMAIN driven : \A d \in DOMAIN driven \ {c} :
        driven[c] < driven[d] \/ (driven[c] = driven[d] /\ Before(c, d))

BestChoiceAnswer(p, driven, dist) ==
    IF DOMAIN driven = {} THEN Infeasible({})
    ELSE LogisticsAnswer(p, LoadOf(p, FirstOfLeast(driven)), dist)

BruteForceOver(p, dist) ==
    BestChoiceAnswer(p, [c \in PossibleChoices(p, dist) |-> Driven(p, LoadOf(p, c), dist)], dist)

BruteForceLogistics(p) == {BruteForceOver(p, RoadDistances(p))}

(* PulpMilpLogisticsStrategy: any choice that uses the fewest vehicles.    *)
PulpLogistics(p) ==
    LET choices == {c \in [Deliveries(p) -> Vehicles(p)] :
                       \A v \in Range(c) : CapacityOk(p, v, LoadOf(p, c)[v])}
        fewest(used) == {c \in choices : Cardinality(Range(c)) = Min(used)}
    IN  IF choices = {} THEN {Infeasible({})}
        ELSE {LogisticsAnswer(p, LoadOf(p, c), RoadDistances(p)) :
                 c \in fewest({Cardinality(Range(c)) : c \in choices})}

-----------------------------------------------------------------------------
(* Validation, and the verification of the routes.                         *)

LogisticsFeasible(p) ==
    LET total(items, field) == FoldLeft(LAMBDA sum, x : sum + x[field], 0, items)
        most(field) == Max({vehicle[field] : vehicle \in Range(p.vehicles)})
    IN  /\ p.deliveries # <<>> => p.vehicles # <<>>
        /\ \A field \in {"weight", "volume"} :
               /\ p.vehicles # <<>> => \A d \in Range(p.deliveries) : d[field] <= most(field)
               /\ total(p.deliveries, field) <= total(p.vehicles, field)
        /\ {d.node : d \in Range(p.deliveries)} \subseteq ReachableFrom(p, p.depot)

LogisticsStructure(p, a) ==
    LET dist == RoadDistances(p)
        nodes(r) == [i \in DOMAIN r.stops |-> p.deliveries[r.stops[i]].node]
        vehicles == [i \in DOMAIN a.routes |-> a.routes[i].vehicle]
        stops == [ij \in UNION {{i} \X DOMAIN a.routes[i].stops : i \in DOMAIN a.routes} |->
                      a.routes[ij[1]].stops[ij[2]]]
        right == /\ IsInjective(vehicles) /\ Range(vehicles) \subseteq Vehicles(p)
                 /\ IsInjective(stops) /\ Range(stops) = Deliveries(p)
                 /\ a.total = SumFunction([i \in DOMAIN a.routes |-> a.routes[i].distance])
                 /\ \A r \in Range(a.routes) : r.distance = RouteDistance(p, nodes(r), dist)
        overloaded(r) == r.vehicle \in Vehicles(p) /\ ~CapacityOk(p, r.vehicle, r.stops)
    IN  (IF right THEN {} ELSE {Hard("logistics_structure")})
        \cup IF \E r \in Range(a.routes) : overloaded(r) THEN {Hard("logistics_capacity")} ELSE {}
=============================================================================
