------------------------------- MODULE Optima -------------------------------
(***************************************************************************)
(* Reference definitions: what a solution of each problem type is, and     *)
(* which are best, said without the algorithms that find them.             *)
(***************************************************************************)
EXTENDS Routes, Networks, Projects, Shifts, Travel, Logistics

-----------------------------------------------------------------------------
(* Routes.  Edge e may be used from a to b.                                *)
Passable(p, e, a, b) ==
    /\ e \in DOMAIN p.edges
    /\ \/ p.edges[e].source = a /\ p.edges[e].target = b
       \/ ~p.edges[e].directed /\ p.edges[e].source = b /\ p.edges[e].target = a

IsRoute(p, r) ==
    /\ r.nodes # <<>>
    /\ r.nodes[1] = p.start /\ Last(r.nodes) = p.goal
    /\ Len(r.edges) = Len(r.nodes) - 1
    /\ \A i \in DOMAIN r.edges : Passable(p, r.edges[i], r.nodes[i], r.nodes[i + 1])
    /\ r.weight = SumFunction([i \in DOMAIN r.edges |-> p.edges[r.edges[i]].weight])

Lightest(weights) == IF weights \subseteq {None} THEN None ELSE Min(weights \ {None})

(* The least weight of a step from a to b.                                 *)
Step(p) ==
    [ab \in Nodes(p) \X Nodes(p) |->
        Lightest({p.edges[e].weight :
                    e \in {e \in DOMAIN p.edges \ ForbiddenItems(p) : Passable(p, e, ab[1], ab[2])}})]

(* Shortest walks without a repeated node, which are shortest walks when   *)
(* no cycle is negative.                                                   *)
DistancesOver(nodes, step) ==
    LET between(a, b) == IF a = b THEN {<<a>>}
                         ELSE {<<a>> \o m \o <<b>> : m \in SetToAllKPermutations(nodes \ {a, b})}
    IN  [ab \in nodes \X nodes |-> Lightest({PathTotal(w, step) : w \in between(ab[1], ab[2])})]

Distances(p) == DistancesOver(Nodes(p), Step(p))

NegativeCycle(p) ==
    LET step == Step(p)
        dist == Distances(p)
    IN  \E a, b \in Nodes(p) :
            /\ dist[p.start, a] # None
            /\ step[b, a] # None /\ dist[a, b] # None
            /\ dist[a, b] + step[b, a] < 0

(* The least weight of a route through all required nodes.                 *)
ShortestWeight(p) ==
    LET dist == Distances(p)
    IN  IF ~(RequiredItems(p) \subseteq Nodes(p)) THEN None
        ELSE Lightest({PathTotal(<<p.start>> \o w \o <<p.goal>>, dist) : w \in SetToSeqs(Waypoints(p))})

ShortestSimpleWeight(p) ==
    LET step == Step(p)
        simple == {w \in SetToAllKPermutations(Nodes(p)) :
                      w # <<>> /\ w[1] = p.start /\ Last(w) = p.goal /\ RequiredItems(p) \subseteq Range(w)}
    IN  Lightest({PathTotal(w, step) : w \in simple})

(* No edge is shorter than the difference it makes to the estimate.        *)
ConsistentPlaces(p) ==
    \A t \in Stops(p) : \A arc \in Range(AllArcs(p)) :
        Heuristic(p, arc.from, t) <= arc.weight + Heuristic(p, arc.to, t)

-----------------------------------------------------------------------------
(* Networks: a set of links between nodes connects them if one of the links*)
(* leaves every proper part of the nodes.                                  *)
Crosses(p, l, part) == (p.links[l].a \in part) # (p.links[l].b \in part)

IsTree(p, t) ==
    /\ t \subseteq Links(p)
    /\ \A l \in t : {p.links[l].a, p.links[l].b} \subseteq Sites(p)
    /\ Cardinality(t) = Needed(p)
    /\ \A part \in (SUBSET Sites(p)) \ {{}, Sites(p)} : \E l \in t : Crosses(p, l, part)

TreeWeight(p, t) == SumFunction([l \in t |-> p.links[l].weight])

TreesOf(p) == {t \in kSubset(Needed(p), Usable(p)) : IsTree(p, t) /\ RequiredItems(p) \subseteq t}

-----------------------------------------------------------------------------
(* Projects, with times in parts of a unit.  The tasks' starts keep the    *)
(* dependencies and, at time 0 and whenever one of them starts later, the  *)
(* capacity.                                                               *)
Ends(p, starts, t) == starts[t] + Whole * Duration(p, t)

KeepsDependencies(p, starts) ==
    \A d \in Range(p.dependencies) : Ends(p, starts, d[1]) <= starts[d[2]]

Usage(p, starts, x) ==
    SumFunction([u \in {u \in Tasks(p) : starts[u] <= x /\ x < Ends(p, starts, u)} |-> p.tasks[u].resource])

KeepsCapacity(p, starts) ==
    p.capacity # None =>
        \A x \in {0} \cup {starts[t] : t \in Tasks(p)} : x >= 0 => Usage(p, starts, x) <= p.capacity

StartsOf(p, a) ==
    [t \in Tasks(p) |-> (CHOOSE s \in Range(a.schedule) : s.task = t).start]

IsSchedule(p, a) ==
    /\ {s.task : s \in Range(a.schedule)} = Tasks(p)
    /\ Len(a.schedule) = Len(p.tasks)
    /\ \A s \in Range(a.schedule) : s.finish = s.start + Whole * Duration(p, s.task)
    /\ KeepsDependencies(p, StartsOf(p, a))
    /\ KeepsCapacity(p, StartsOf(p, a))
    /\ a.schedule # <<>> => a.makespan = Max({s.finish : s \in Range(a.schedule)})

(* Sequences of tasks in which each depends on the one before it, and how  *)
(* long the longest one takes, of all or of those through a task.          *)
Chains(p) ==
    {c \in SetToAllKPermutations(Tasks(p)) :
        c # <<>> /\ \A i \in 1..(Len(c) - 1) : <<c[i], c[i + 1]>> \in Range(p.dependencies)}

Length(p, chain) == FoldLeft(LAMBDA sum, t : sum + Whole * Duration(p, t), 0, chain)
Longest(p, chains) == Max({Length(p, c) : c \in chains})

OrderRespects(p, order) ==
    /\ Range(order) = Tasks(p) /\ Len(order) = Len(p.tasks)
    /\ \A d \in Range(p.dependencies) :
           \E i, j \in DOMAIN order : i < j /\ order[i] = d[1] /\ order[j] = d[2]

-----------------------------------------------------------------------------
(* Rosters.  Who works a slot may and can, no week is too long, and nobody *)
(* works on all of more days in a row than allowed.                        *)
Works(p, roster, s, l) == l \in DOMAIN roster /\ s \in Range(roster[l])
WorksOn(p, roster, s, day) == \E l \in Slots(p) : p.slots[l].day = day /\ Works(p, roster, s, l)

HoursWorked(p, roster, s) ==
    SumFunction([l \in Slots(p) |-> IF Works(p, roster, s, l) THEN Hours(p, l) ELSE 0])

IsPartOfRoster(p, roster) ==
    /\ DOMAIN roster \subseteq Slots(p)
    /\ \A l \in DOMAIN roster : \A s \in Range(roster[l]) :
           /\ s \in Staff(p)
           /\ l \in p.staff[s].available /\ p.slots[l].skills \subseteq p.staff[s].skills
    /\ \A s \in Staff(p) : HoursWorked(p, roster, s) <= p.maxHours
    /\ \A s \in Staff(p) : \A l \in {l \in Slots(p) : Works(p, roster, s, l)} :
           \E d \in p.slots[l].day .. p.slots[l].day + p.maxRun : ~WorksOn(p, roster, s, d)

RostersOf(p) ==
    {r \in [Slots(p) -> {SetToSeq(s) : s \in SUBSET Staff(p)}] :
        /\ \A l \in Slots(p) : Len(r[l]) = p.slots[l].headcount
        /\ IsPartOfRoster(p, r)}

PaidWages(p, roster) ==
    SumFunction([s \in Staff(p) |-> p.staff[s].wage * HoursWorked(p, roster, s)])

(* The share of the days off asked for on which nobody who asked works.    *)
DaysOffKept(p, roster) ==
    LET worked == {r \in Requests(p) : WorksOn(p, roster, r[1], r[2])}
        asked == Cardinality(Requests(p))
    IN  IF asked = 0 THEN Unit(p) ELSE (asked - Cardinality(worked)) * (Unit(p) \div asked)

-----------------------------------------------------------------------------
(* Travel plans.  The places are visited in an order, along the legs, and  *)
(* back to where the order begins.                                         *)
LegDistances(p, field) ==
    DistancesOver(Places(p),
        [ab \in Places(p) \X Places(p) |->
            Lightest({leg[field] : leg \in {l \in Range(p.legs) : {l.a, l.b} = {ab[1], ab[2]}}})])

(* What an order takes, None when there is no way around.                  *)
Takes(p, order, field, dist) ==
    LET way == IF order = <<>> THEN 0 ELSE PathTotal(Append(order, order[1]), dist)
    IN  IF way = None THEN None
        ELSE way + SumFunction([x \in Range(order) |-> p.places[x][field]])

ValueOf(p, places) == SumFunction([x \in places |-> Utility(p, x)])

IsPlan(p, a) ==
    /\ p.start # None => a.visit # <<>> /\ a.visit[1] = p.start
    /\ Range(a.visit) \subseteq Places(p) /\ IsInjective(a.visit)
    /\ Range(a.selected) = Range(a.visit)
    /\ a.value = ValueOf(p, Range(a.visit))
    /\ a.cost = Takes(p, a.visit, "cost", LegDistances(p, "cost")) /\ a.cost <= p.budget
    /\ a.time = Takes(p, a.visit, "time", LegDistances(p, "time")) /\ a.time <= p.time

(* The cheapest tours of a set of places.                                  *)
CheapestTours(p, places) ==
    LET dist == LegDistances(p, "cost")
        orders == {o \in SetToSeqs(places) : Takes(p, o, "cost", dist) # None}
    IN  {o \in orders : \A q \in orders : Takes(p, o, "cost", dist) <= Takes(p, q, "cost", dist)}

WithinMeans(p, order) ==
    /\ Takes(p, order, "cost", LegDistances(p, "cost")) <= p.budget
    /\ Takes(p, order, "time", LegDistances(p, "time")) <= p.time

(* Every cheapest tour of the places can be afforded.                      *)
WillBeVisited(p, places) ==
    CheapestTours(p, places) # {} /\ \A o \in CheapestTours(p, places) : WithinMeans(p, o)

(* The places fit, rounded up, whatever lies between them.                 *)
FitsRounded(p, places) ==
    /\ MapThenSumSet(LAMBDA x : Ceil(p.places[x].cost), places) <= Floor(p.budget)
    /\ MapThenSumSet(LAMBDA x : Ceil(p.places[x].time), places) <= Floor(p.time)

-----------------------------------------------------------------------------
(* Deliveries.  A vehicle drives from the depot to its stops and back.     *)
Fit(p, v, stops) ==
    \A field \in {"weight", "volume"} :
        SumFunction([d \in stops |-> p.deliveries[d][field]]) <= p.vehicles[v][field]

Drives(p, stops, dist) ==
    PathTotal(<<p.depot>> \o [i \in DOMAIN stops |-> p.deliveries[stops[i]].node] \o <<p.depot>>, dist)

IsDelivery(p, a) ==
    LET dist == Distances(p)
    IN  /\ \A i, j \in DOMAIN a.routes : a.routes[i].vehicle = a.routes[j].vehicle => i = j
        /\ \A d \in Deliveries(p) :
               Cardinality({i \in DOMAIN a.routes : d \in Range(a.routes[i].stops)}) = 1
        /\ \A r \in Range(a.routes) :
               /\ r.vehicle \in Vehicles(p) /\ Range(r.stops) \subseteq Deliveries(p)
               /\ Cardinality(Range(r.stops)) = Len(r.stops)
               /\ Fit(p, r.vehicle, Range(r.stops))
               /\ r.distance = Drives(p, r.stops, dist)
        /\ a.total = SumFunction([i \in DOMAIN a.routes |-> a.routes[i].distance])

(* The partitions of the deliveries among the vehicles that they fit.      *)
Partitions(p) ==
    {c \in [Deliveries(p) -> Vehicles(p)] :
        \A v \in Vehicles(p) : Fit(p, v, {d \in Deliveries(p) : c[d] = v})}

(* The least that the vehicles of a partition drive, None if one has no    *)
(* way.                                                                    *)
LeastDriven(p, c, dist) ==
    LET least(v) == Lightest({Drives(p, o, dist) : o \in SetToSeqs({d \in Deliveries(p) : c[d] = v})})
    IN  IF \E v \in Vehicles(p) : least(v) = None THEN None ELSE MapThenSumSet(least, Vehicles(p))
=============================================================================
