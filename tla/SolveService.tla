---------------------------- MODULE SolveService ----------------------------
(***************************************************************************)
(* SolveService.solve (app/services/solve.py) between its rate limit and   *)
(* its transaction: a problem is validated, a strategy selected, the       *)
(* strategy's answer computed and then verified.  VerifyService verifies   *)
(* an answer that a client offers, without validating the problem.         *)
(*                                                                         *)
(* Problems is the set of requests considered, Offers that of the problems *)
(* and answers sent to be verified.                                        *)
(***************************************************************************)
EXTENDS Optima, Solving, Schemas

CONSTANTS Problems, Offers

ASSUME ProblemsAssumption == \A p \in Problems : IsProblem(p)

ASSUME OffersAssumption ==
    \A offer \in Offers : IsProblem(offer.problem) /\ IsCandidate(offer.problem.type, offer.solution)

VARIABLES problem, phase, strategy, solution

vars == <<problem, phase, strategy, solution>>

-----------------------------------------------------------------------------

Init ==
    \/ /\ problem \in Problems
       /\ phase = "received"
       /\ strategy = None
       /\ solution = None
    \/ \E offer \in Offers :
           /\ problem = offer.problem
           /\ phase = "computed"
           /\ strategy = "client"
           /\ solution = offer.solution

Validate ==
    /\ phase = "received"
    /\ phase' = IF Integrity(problem) /\ Feasible(problem) THEN "validated" ELSE "refused"
    /\ UNCHANGED <<problem, strategy, solution>>

(* select_strategy: the strategy that was asked for, or else the preferred *)
(* one.  An unknown name is a NoAlgorithmError.                            *)
Select ==
    /\ phase = "validated"
    /\ \E s \in Range(Registered(problem.type)) \cup {Preferred(problem)} : strategy' = s
    /\ phase' = "selected"
    /\ UNCHANGED <<problem, solution>>

(* The chosen strategy; one that has no answer ends with an exception.     *)
Compute ==
    LET finish(answers) ==
            \/ solution' \in answers /\ phase' = "computed"
            \/ answers = {} /\ phase' = "failed" /\ UNCHANGED solution
    IN  /\ phase = "selected"
        /\ finish(Answers(problem, strategy))
        /\ UNCHANGED <<problem, strategy>>

Verify ==
    /\ phase = "computed"
    /\ ~Unverifiable(problem, solution)
    /\ solution' = Verified(problem, solution)
    /\ phase' = "verified"
    /\ UNCHANGED <<problem, strategy>>

(* An exception of the verification ends the request.                      *)
Raise ==
    /\ phase = "computed" /\ Unverifiable(problem, solution)
    /\ phase' = "failed"
    /\ UNCHANGED <<problem, strategy, solution>>

Next == Validate \/ Select \/ Compute \/ Verify \/ Raise

Spec == Init /\ [][Next]_vars

-----------------------------------------------------------------------------
(* The least weight a strategy for routes is to find, None when it is to   *)
(* answer that there is none.                                              *)
LeastWeight(p, s) ==
    CASE s \in {"dijkstra", "a_star"} /\ HasNegativeWeight(p) -> None
      [] s = "brute_force" -> ShortestSimpleWeight(p)
      [] s = "bellman_ford" /\ Stops(p) # {p.start} /\ NegativeCycle(p) -> None
      [] s = "dijkstra_nx" /\ NegativeCycle(p) -> None
      [] OTHER -> ShortestWeight(p)

Within(p, s) == s = "brute_force" \/ Cardinality(Waypoints(p)) <= MaxExact

(* A route's weight is the least there is, and a strategy answers that     *)
(* there is no route only when there is none: for Dijkstra, Bellman-Ford   *)
(* and NetworkX over all walks, for A* if no place contradicts a weight,   *)
(* for the enumeration over simple paths.  With too many waypoints for all *)
(* their orders to be tried, it is only never better than the least.       *)
RoutesAreShortest ==
    phase = "computed" /\ problem.type = "route_planning" /\ strategy # "client"
        /\ (strategy = "a_star" => ConsistentPlaces(problem)) =>
    LET least == LeastWeight(problem, strategy)
    IN  IF solution.status = "valid"
        THEN /\ least # None
             /\ solution.assignments.weight >= least
             /\ Within(problem, strategy) => solution.assignments.weight = least
        ELSE Within(problem, strategy) => least = None

(* The required links and the first node hang together.                    *)
RequiredHangTogether(p) ==
    LET required == RequiredItems(p) \cap Links(p)
    IN  UNION {{p.links[l].a, p.links[l].b} : l \in required} \subseteq Spread(p, required, {1})

(* A network's links are a tree over all nodes with the required links,    *)
(* and no such tree is lighter; a strategy answers that there is none only *)
(* when there is none, except Prim, which needs the required links to hang *)
(* together with the first node.                                           *)
TreesAreMinimal ==
    phase = "computed" /\ problem.type = "network_design" /\ strategy # "client" =>
    LET trees == TreesOf(problem)
    IN  IF solution.status = "valid"
        THEN /\ Range(solution.assignments.links) \in trees
             /\ \A t \in trees : solution.assignments.weight <= TreeWeight(problem, t)
        ELSE trees = {} \/ (strategy = "prim" /\ ~RequiredHangTogether(problem))

-----------------------------------------------------------------------------
(* A schedule keeps the dependencies, and the capacity too unless its      *)
(* strategy ignores it, and no task could start earlier than it does.  The *)
(* makespan is the longest chain of tasks if no capacity is kept.  Slack   *)
(* is what a task lacks to the longest chain, and the critical path is a   *)
(* longest chain.                                                          *)
SchedulesAreTight ==
    phase = "computed" /\ problem.type = "project_scheduling" /\ strategy # "client" =>
    LET a == solution.assignments
        starts == StartsOf(problem, a)
        chains == Chains(problem)
        longest == Longest(problem, chains)
        free == strategy \in {"cpm", "cpm_nx"}
        bounded == IF free THEN [problem EXCEPT !.capacity = None] ELSE problem
        earlier(t, x) == [starts EXCEPT ![t] = x]
    IN  /\ solution.status = "valid"
        /\ IsSchedule(bounded, a)
        /\ free \/ problem.capacity = None => a.makespan = longest
        /\ strategy # "cp_sat" =>
               \A t \in Tasks(problem) : \A x \in 0..(starts[t] - 1) :
                   ~(KeepsDependencies(problem, earlier(t, x)) /\ KeepsCapacity(bounded, earlier(t, x)))
        /\ OrderRespects(problem, a.order)
        /\ \A s \in Range(a.schedule) :
               s.slack = longest - Longest(problem, {c \in chains : s.task \in Range(c)})
        /\ a.critical \in chains /\ Length(problem, a.critical) = longest

-----------------------------------------------------------------------------
(* The bound of branch and bound is one only if what is maximized is a     *)
(* share: of an amount it takes too little.                                *)
Boundable(p) ==
    \A o \in Range(p.objectives) : o.sense = "maximize" => o.target = "day_off_satisfaction"

(* Backtracking finds a roster of least score, or that there is no roster; *)
(* branch and bound does too unless it runs out of nodes, and then what it *)
(* has is a roster; the solver's answer is a roster; the greedy pass finds *)
(* a part of one, whose slots have no more staff than they need.           *)
RostersAreBest ==
    phase = "computed" /\ problem.type = "shift_scheduling" /\ strategy # "client" =>
    LET rosters == RostersOf(problem)
        exact == \/ strategy = "backtracking"
                 \/ /\ strategy = "branch_and_bound" /\ Boundable(problem)
                    /\ "_truncated" \notin DOMAIN solution.metrics
        complete == strategy = "cp_sat" \/ exact
    IN  IF solution.status = "valid"
        THEN /\ IsPartOfRoster(problem, solution.assignments)
             /\ strategy # "greedy" => Staffed(problem, solution.assignments)
             /\ exact => \A r \in rosters : Score(problem, solution.assignments) <= Score(problem, r)
        ELSE complete => rosters = {}

-----------------------------------------------------------------------------
(* A plan that a strategy for travel finds.  The enumeration's is the most *)
(* valuable of those whose cheapest tour can be afforded, up to the choice *)
(* among equally cheap tours that take more or less time.  The greedy one  *)
(* is either no more than what is required or can be afforded, and nothing *)
(* of value can be added.  The knapsack's is worth as much as any places   *)
(* that fit without the ways between them.                                 *)
PlanIsBest(p, s, a) ==
    LET visited == Range(a.visit)
        start == {p.start} \ {None}
        required == start \cup (RequiredItems(p) \cap Places(p))
        kept == start \cup (RequiredItems(p) \cap Allowed(p))
        plans == {v \in SUBSET (Allowed(p) \cup start) : kept \subseteq v}
        affordable == a.cost <= p.budget /\ a.time <= p.time
    IN  CASE s = "brute_force" ->
                 /\ visited \in plans
                 /\ affordable \/ visited = kept
                 /\ \A v \in plans : WillBeVisited(p, v) => affordable /\ ValueOf(p, v) <= a.value
          [] s = "greedy" ->
                 /\ visited \in plans
                 /\ affordable \/ visited = kept
                 /\ \A x \in Allowed(p) \ visited :
                        Utility(p, x) > 0 => ~WillBeVisited(p, visited \cup {x})
          [] s = "knapsack_dp" ->
                 \A v \in SUBSET (Allowed(p) \cup required) :
                     required \subseteq v /\ FitsRounded(p, v) => ValueOf(p, v) <= a.value

(* The deliveries that a strategy for logistics finds: the enumeration and *)
(* branch and bound drive least, the solver uses fewest vehicles, and the  *)
(* knapsack has no vehicle that could take more of what the vehicles       *)
(* before it have left.                                                    *)
DeliveryIsBest(p, s, a) ==
    LET dist == Distances(p)
        able == {c \in Partitions(p) : LeastDriven(p, c, dist) # None}
        vehicle(i) == a.routes[i].vehicle
        left(v) == Deliveries(p) \ UNION {Range(r.stops) : r \in {r \in Range(a.routes) : r.vehicle < v}}
        rounded(field, d) == Ceil(p.deliveries[d][field])
        fits(v, stops) == \A field \in {"weight", "volume"} :
            MapThenSumSet(LAMBDA d : rounded(field, d), stops) <= Floor(p.vehicles[v][field])
        taken(v) == UNION {Range(r.stops) : r \in {r \in Range(a.routes) : r.vehicle = v}}
    IN  /\ IsDelivery(p, a)
        /\ s \in {"brute_force", "branch_and_bound"} =>
               \A c \in able : a.total <= LeastDriven(p, c, dist)
        /\ s = "pulp_milp" => \A c \in Partitions(p) : Len(a.routes) <= Cardinality(Range(c))
        /\ s = "knapsack_dp" =>
               \A v \in Vehicles(p) : \A stops \in SUBSET left(v) :
                   fits(v, stops) => Cardinality(stops) <= Cardinality(taken(v))

(* Branch and bound may run out of nodes, and does not say so when it then *)
(* has nothing.                                                            *)
Exhaustive(p, s) == s = "brute_force" \/ (s = "branch_and_bound" /\ ~LoadSearch(p, RoadDistances(p)).truncated)

(* The plans and deliveries are best as their strategies have it, but for  *)
(* deliveries at the depot, which the routes lose; and a strategy answers  *)
(* that there is none only if there is none, except the knapsacks, the     *)
(* greedy deliveries and the solver, which settle the loads first.         *)
PlansAreBest ==
    phase = "computed" /\ strategy # "client" =>
    /\ problem.type = "travel_planning" =>
           IF solution.status = "valid" THEN PlanIsBest(problem, strategy, solution.assignments)
           ELSE strategy # "knapsack_dp" =>
                    CheapestTours(problem, ({problem.start} \ {None})
                                           \cup (RequiredItems(problem) \cap Allowed(problem))) = {}
    /\ problem.type = "logistics_planning" /\ problem.depot \notin {d.node : d \in Range(problem.deliveries)} =>
           IF solution.status = "valid"
           THEN DeliveryIsBest(problem, IF strategy # "branch_and_bound" \/ Exhaustive(problem, strategy)
                                        THEN strategy ELSE "truncated", solution.assignments)
           ELSE Exhaustive(problem, strategy) =>
                    \A c \in Partitions(problem) : LeastDriven(problem, c, Distances(problem)) = None

-----------------------------------------------------------------------------
(* The figures of an answer.                                               *)
Truth(p, a) ==
    CASE p.type = "project_scheduling" -> [makespan |-> a.makespan]
      [] p.type = "shift_scheduling" ->
             [labor_cost |-> PaidWages(p, a),
              day_off_satisfaction |-> DaysOffKept(p, a),
              hour_variance |-> Variance(p, [s \in Crew(p, a) |-> HoursWorked(p, a, s)])]
      [] p.type = "travel_planning" ->
             [total_value |-> a.value, total_cost |-> a.cost, total_time |-> a.time]
      [] p.type = "logistics_planning" ->
             [total_distance |-> a.total, vehicles_used |-> Len(a.routes)]
      [] OTHER -> [total_weight |-> a.weight]

(* What an answer's bounds are judged by: its metrics, of which a          *)
(* strategy's, and those of a client's roster, are to be the truth.        *)
Figures(p, s) ==
    LET claimed == [f \in DOMAIN s.metrics \ {"soft_penalty"} |-> s.metrics[f]]
    IN  IF strategy # "client" \/ p.type = "shift_scheduling"
        THEN Updated(claimed, Truth(p, s.assignments)) ELSE claimed

(* Days off are reported as a soft violation, whatever the severity.       *)
Respects(p, s, c) ==
    /\ ~Violates(p, s.assignments, Figures(p, s), c)
    /\ p.type = "shift_scheduling" /\ c.kind = "respect_days_off" /\ c.severity = "soft" =>
           \A r \in Requests(p) : ~WorksOn(p, s.assignments, r[1], r[2])

(* An answer solves its problem: it is what its type says, and no hard     *)
(* constraint is broken.                                                   *)
IsAnswer(p, a) ==
    CASE p.type = "route_planning" -> IsRoute(p, a)
      [] p.type = "network_design" ->
             /\ IsTree(p, Range(a.links)) /\ Len(a.links) = Needed(p)
             /\ a.weight = TreeWeight(p, Range(a.links))
      [] p.type = "shift_scheduling" -> IsPartOfRoster(p, a)
      [] p.type = "project_scheduling" ->
             /\ IsSchedule(p, a)
             /\ Range(a.order) = Tasks(p) /\ Len(a.order) = Len(p.tasks)
             /\ \A s \in Range(a.schedule) : s.task \in Range(a.critical) => s.slack = 0
      [] p.type = "travel_planning" -> IsPlan(p, a)
      [] p.type = "logistics_planning" -> IsDelivery(p, a)

Solves(p, s) ==
    /\ IsAnswer(p, s.assignments)
    /\ \A c \in Range(p.constraints) : c.severity = "hard" => Respects(p, s, c)

(* The three answers that the verification takes for what they are not:    *)
(* a route that uses an edge backwards, a plan that does not begin at the  *)
(* start, and a schedule with fractions of units, whose tasks may share a  *)
(* part of a unit that no whole one shows.                                 *)
Backwards(p, a) ==
    /\ p.type = "route_planning"
    /\ Len(a.edges) = Len(a.nodes) - 1
    /\ \E i \in DOMAIN a.edges : /\ a.edges[i] \in DOMAIN p.edges
                                 /\ ~Passable(p, a.edges[i], a.nodes[i], a.nodes[i + 1])
                                 /\ Passable(p, a.edges[i], a.nodes[i + 1], a.nodes[i])

StartsElsewhere(p, a) ==
    /\ p.type = "travel_planning" /\ p.start # None
    /\ a.visit = <<>> \/ a.visit[1] # p.start

SplitsUnits(p, a) ==
    /\ p.type = "project_scheduling" /\ p.capacity # None
    /\ \E s \in Range(a.schedule) : s.start % Whole # 0

(* A bound on the penalty itself, which is computed after the bounds are   *)
(* checked: they see what an answer came with.                             *)
BoundsPenalty(p) == \E c \in OfKind(p, "numeric_bound") : c.field = "soft_penalty"

(* The penalty of the soft constraints an answer breaks.                   *)
Penalty(p, s) ==
    LET due(c) == IF c.severity = "soft" /\ ~Respects(p, s, c) THEN c.penalty ELSE 0
    IN  SumFunction([i \in DOMAIN p.constraints |-> due(p.constraints[i])])

(* The soft constraints of each kind are all broken or all respected.      *)
KindsAgree(p, s) ==
    \A c, d \in Range(p.constraints) :
        c.kind = d.kind /\ c.severity = "soft" /\ d.severity = "soft" => (Respects(p, s, c) <=> Respects(p, s, d))

(* Whoever found an answer, a strategy or a client, a hard violation is    *)
(* reported if and only if it does not solve the problem, unless it uses   *)
(* an edge backwards or is a plan that does not begin at the start; a      *)
(* schedule that splits units may have none and yet not solve it.  What    *)
(* has a hard violation is not confirmed, and a strategy's answer that     *)
(* solves the problem is.                                                  *)
(* Its penalty is that of the soft constraints it breaks, or more if it    *)
(* also respects others of their kind and none has a penalty below 0.      *)
(* Only a place that a travel plan names without there being one ends a    *)
(* request with an exception.                                              *)
VerdictIsRight ==
    /\ phase = "verified" /\ solution.status # "infeasible" /\ ~BoundsPenalty(problem)
           /\ ~Backwards(problem, solution.assignments)
           /\ ~StartsElsewhere(problem, solution.assignments) =>
       LET solves == Solves(problem, solution)
           refused == \E v \in solution.violations : v.severity = "hard"
       IN  /\ solves => ~refused
           /\ solves \/ refused \/ SplitsUnits(problem, solution.assignments)
           /\ solution.status = "valid" => ~refused
           /\ solves /\ strategy # "client" => solution.status = "valid"
           /\ (\A c \in Range(problem.constraints) : c.penalty >= 0) =>
                  solution.metrics.soft_penalty >= Penalty(problem, solution)
           /\ KindsAgree(problem, solution) =>
                  solution.metrics.soft_penalty = Penalty(problem, solution)
    /\ phase = "failed" =>
           /\ problem.type = "travel_planning"
           /\ ~(RequiredItems(problem) \subseteq Places(problem)) \/ strategy = "client"

(* mst_solution (app/algorithms/graph/mst.py) says that no links are       *)
(* answered when the network is not connected: that Prim finds a tree      *)
(* wherever there is one.                                                  *)
PrimFindsTrees ==
    phase = "computed" /\ strategy = "prim" /\ TreesOf(problem) # {} => solution.status = "valid"
=============================================================================
