------------------------------ MODULE Solving ------------------------------
(***************************************************************************)
(* What the services that solve problems share: the registry of            *)
(* strategies and the selection of one, the validation of a problem, the   *)
(* answers of a strategy and their verification.                           *)
(***************************************************************************)
EXTENDS Routes, Networks, Projects, Shifts, Travel, Logistics

CONSTANT MaxCells  \* _MAX_KNAPSACK_DP_CELLS: the size that a preferred knapsack may have

-----------------------------------------------------------------------------
(* The registry and the selection of a strategy.                           *)

Registered(type) ==
    CASE type = "route_planning" ->
             <<"dijkstra", "bellman_ford", "a_star", "dijkstra_nx", "brute_force">>
      [] type = "shift_scheduling" -> <<"greedy", "backtracking", "branch_and_bound", "cp_sat">>
      [] type = "network_design" -> <<"kruskal", "prim", "kruskal_nx">>
      [] type = "project_scheduling" -> <<"cpm", "priority_list", "cp_sat", "cpm_nx">>
      [] type = "travel_planning" -> <<"knapsack_dp", "greedy", "brute_force">>
      [] type = "logistics_planning" ->
             <<"knapsack_dp", "greedy", "branch_and_bound", "brute_force", "pulp_milp">>

(* _preferred_name.                                                        *)
Preferred(p) ==
    CASE p.type = "route_planning" ->
             IF p.allowNegative \/ \E e \in Range(p.edges) : e.weight < 0 THEN "bellman_ford"
             ELSE IF p.nodes > 0 /\ \A n \in Nodes(p) : p.at[n] # NoPlace THEN "a_star"
             ELSE "dijkstra"
      [] p.type = "shift_scheduling" -> "backtracking"
      [] p.type = "network_design" -> "kruskal"
      [] p.type = "project_scheduling" -> IF p.capacity # None THEN "priority_list" ELSE "cpm"
      [] p.type = "travel_planning" ->
             IF Len(p.places) * Floor(p.budget) * Floor(p.time) > MaxCells THEN "greedy" ELSE "knapsack_dp"
      [] p.type = "logistics_planning" -> "knapsack_dp"

(* The answers a strategy may give.                                        *)
Answers(p, s) ==
    CASE p.type = "route_planning" ->
            (CASE s = "dijkstra" -> Dijkstra(p)
               [] s = "bellman_ford" -> BellmanFord(p)
               [] s = "a_star" -> AStar(p)
               [] s = "dijkstra_nx" -> DijkstraNx(p)
               [] s = "brute_force" -> BruteForceRoute(p))
      [] p.type = "shift_scheduling" ->
            (CASE s = "greedy" -> GreedyShift(p)
               [] s = "backtracking" -> BacktrackingShift(p)
               [] s = "branch_and_bound" -> BranchAndBoundShift(p)
               [] s = "cp_sat" -> CpSatShift(p))
      [] p.type = "network_design" ->
            (CASE s = "kruskal" -> Kruskal(p)
               [] s = "prim" -> Prim(p)
               [] s = "kruskal_nx" -> NetworkxMST(p))
      [] p.type = "project_scheduling" ->
            (CASE s = "cpm" -> CpmSchedule(p)
               [] s = "priority_list" -> PriorityList(p)
               [] s = "cp_sat" -> CpSatSchedule(p)
               [] s = "cpm_nx" -> NetworkxCpm(p))
      [] p.type = "travel_planning" ->
            (CASE s = "knapsack_dp" -> KnapsackTravel(p)
               [] s = "greedy" -> GreedyTravel(p)
               [] s = "brute_force" -> BruteForceTravel(p))
      [] p.type = "logistics_planning" ->
            (CASE s = "knapsack_dp" -> KnapsackLogistics(p)
               [] s = "greedy" -> GreedyLogistics(p)
               [] s = "branch_and_bound" -> BranchAndBoundLogistics(p)
               [] s = "brute_force" -> BruteForceLogistics(p)
               [] s = "pulp_milp" -> PulpLogistics(p))

-----------------------------------------------------------------------------
(* ProblemValidationService and SolutionVerificationService.               *)

Integrity(p) ==
    CASE p.type = "route_planning" -> RouteIntegrity(p)
      [] p.type = "shift_scheduling" -> ShiftIntegrity(p)
      [] p.type = "network_design" -> NetworkIntegrity(p)
      [] p.type = "project_scheduling" -> ProjectIntegrity(p)
      [] p.type = "travel_planning" -> TravelIntegrity(p)
      [] p.type = "logistics_planning" -> TRUE

Feasible(p) ==
    CASE p.type = "route_planning" -> RouteFeasible(p)
      [] p.type = "shift_scheduling" -> ShiftFeasible(p)
      [] p.type = "network_design" -> NetworkFeasible(p)
      [] p.type = "project_scheduling" -> ProjectFeasible(p)
      [] p.type = "travel_planning" -> TravelFeasible(p)
      [] p.type = "logistics_planning" -> LogisticsFeasible(p)

Structure(p, a) ==
    CASE p.type = "route_planning" -> RouteStructure(p, a)
      [] p.type = "shift_scheduling" -> ShiftStructure(p, a)
      [] p.type = "network_design" -> NetworkStructure(p, a)
      [] p.type = "project_scheduling" -> ProjectStructure(p, a)
      [] p.type = "travel_planning" -> TravelStructure(p, a)
      [] p.type = "logistics_planning" -> LogisticsStructure(p, a)

(* solution_element_ids: the places and the connections an answer uses.    *)
Visited(p, a) ==
    CASE p.type = "route_planning" -> Range(a.nodes)
      [] p.type = "network_design" -> Range(a.links)
      [] p.type = "travel_planning" -> Range(a.selected)
      [] OTHER -> None

Used(p, a) ==
    CASE p.type = "route_planning" -> Range(a.edges)
      [] p.type = "network_design" -> Range(a.links)
      [] p.type = "travel_planning" -> Range(a.selected)
      [] OTHER -> None

(* _soft_penalty: of every soft constraint of a kind that is violated.     *)
SoftPenalty(p, violations) ==
    LET soft == {v.kind : v \in {v \in violations : v.severity = "soft"}}
        due(c) == IF c.severity = "soft" /\ c.kind \in soft THEN c.penalty ELSE 0
    IN  SumFunction([i \in DOMAIN p.constraints |-> due(p.constraints[i])])

(* The constraint checkers; staffing is counted for rosters only.          *)
Violates(p, a, metrics, c) ==
    \/ Breaks(c, metrics, Visited(p, a), Used(p, a))
    \/ c.kind = "staffing" /\ p.type = "shift_scheduling" /\ ~Staffed(p, a)

(* The metrics that the verification finds for itself override the claimed *)
(* ones before the checkers read them.                                     *)
CheckedMetrics(p, s) ==
    IF p.type = "shift_scheduling" THEN Updated(s.metrics, ShiftMetrics(p, s.assignments)) ELSE s.metrics

ViolationsOf(p, a, metrics) ==
    Structure(p, a) \cup {ViolationOf(c) : c \in {c \in Range(p.constraints) : Violates(p, a, metrics, c)}}

Judged(p, s, metrics, violations) ==
    [s EXCEPT !.status = IF \E v \in violations : v.severity = "hard" THEN "invalid" ELSE @,
              !.violations = violations,
              !.metrics = Updated(metrics, [soft_penalty |-> SoftPenalty(p, violations)])]

Verified(p, s) ==
    LET judged(metrics) == Judged(p, s, metrics, ViolationsOf(p, s.assignments, metrics))
    IN  IF s.status = "infeasible" THEN s ELSE judged(CheckedMetrics(p, s))

(* The solution's own data end its verification with an exception.         *)
Unverifiable(p, s) ==
    /\ p.type = "travel_planning" /\ s.status # "infeasible"
    /\ TravelUnverifiable(p, s.assignments)
=============================================================================
