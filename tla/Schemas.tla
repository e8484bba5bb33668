------------------------------ MODULE Schemas ------------------------------
(***************************************************************************)
(* What the schemas of app/domain let through: the data of each problem    *)
(* type and of the solutions offered for it, as far as the verification of *)
(* a solution rests on them.  A reference to something that does not exist *)
(* is refused where a validator of the schema looks for it: in projects,   *)
(* travel plans and deliveries, not in routes, networks and shifts.        *)
(***************************************************************************)
EXTENDS Candidates

(* The constraints of a problem; no penalty counts as one of 0.            *)
IsConstraint(c) ==
    /\ c.kind \in STRING
    /\ c.severity \in {"hard", "soft"}
    /\ c.penalty \in Int
    /\ c.kind \in {"forbidden", "required_inclusion"} => c.items \subseteq Nat /\ IsFiniteSet(c.items)
    /\ c.kind = "numeric_bound" => c.field \in STRING /\ c.operator \in Operators /\ c.value \in Int

IsRouteData(p) ==
    p.edges \in Seq([source : Nat, target : Nat, weight : Int, directed : BOOLEAN])

IsNetworkData(p) ==
    /\ p.nodes \in Nat
    /\ p.links \in Seq([a : Nat, b : Nat, weight : Int])

IsProjectData(p) ==
    /\ p.tasks \in Seq([duration : Nat \ {0}, resource : Nat])
    /\ p.dependencies \in Seq((DOMAIN p.tasks) \X (DOMAIN p.tasks))
    /\ \A d \in Range(p.dependencies) : d[1] # d[2]
    /\ p.capacity \in {None} \cup Int

IsShiftData(p) ==
    LET staff == [wage : Nat, available : SUBSET Nat, skills : SUBSET STRING, daysOff : SUBSET Int]
        slots == [day : Int, hours : Nat \ {0}, headcount : Nat \ {0}, skills : SUBSET STRING]
    IN  /\ p.staff \in Seq(staff) /\ p.slots \in Seq(slots)
        /\ \A s \in Range(p.staff) : IsFiniteSet(s.daysOff)
        /\ p.objectives \in Seq([sense : {"minimize", "maximize"}, target : STRING, weight : Int])
        /\ p.maxHours \in Int /\ p.maxRun \in Int

IsTravelData(p) ==
    /\ p.places \in Seq([value : Int, liking : Int, cost : Nat, time : Nat])
    /\ p.legs \in Seq([a : DOMAIN p.places, b : DOMAIN p.places, cost : Nat, time : Nat])
    /\ p.budget \in Nat /\ p.time \in Nat
    /\ p.start \in {None} \cup DOMAIN p.places

IsLogisticsData(p) ==
    /\ p.nodes \in Nat /\ p.depot \in 1..p.nodes
    /\ p.edges \in Seq([source : 1..p.nodes, target : 1..p.nodes, weight : Nat, directed : BOOLEAN])
    /\ \A e \in Range(p.edges) : e.source # e.target
    /\ p.vehicles \in Seq([weight : Nat, volume : Nat])
    /\ p.deliveries \in Seq([node : 1..p.nodes, weight : Nat, volume : Nat])

(* OptimizationProblem.                                                    *)
IsProblem(p) ==
    /\ p.constraints \in Seq(Range(p.constraints))
    /\ \A c \in Range(p.constraints) : IsConstraint(c)
    /\ \/ p.type = "route_planning" /\ IsRouteData(p)
       \/ p.type = "network_design" /\ IsNetworkData(p)
       \/ p.type = "project_scheduling" /\ IsProjectData(p)
       \/ p.type = "shift_scheduling" /\ IsShiftData(p)
       \/ p.type = "travel_planning" /\ IsTravelData(p)
       \/ p.type = "logistics_planning" /\ IsLogisticsData(p)

-----------------------------------------------------------------------------
(* The solutions.  What they name need not exist.                          *)

IsRouteSolution(a) ==
    a.nodes \in Seq(Nat) /\ a.edges \in Seq(Nat) /\ a.weight \in Int

IsNetworkSolution(a) ==
    a.links \in Seq(Nat) /\ a.weight \in Int

IsProjectSolution(a) ==
    /\ a.order \in Seq(Nat) /\ a.critical \in Seq(Nat) /\ a.makespan \in Int
    /\ a.schedule \in Seq([task : Nat, start : Int, finish : Int, slack : Int])

IsShiftSolution(a) ==
    a \in [DOMAIN a -> Seq(Nat)] /\ IsFiniteSet(DOMAIN a)

IsTravelSolution(a) ==
    /\ a.selected \in Seq(Nat) /\ a.visit \in Seq(Nat)
    /\ a.value \in Int /\ a.cost \in Int /\ a.time \in Int

IsLogisticsSolution(a) ==
    /\ a.routes \in Seq([vehicle : Nat, stops : Seq(Nat), distance : Int])
    /\ a.total \in Int

IsSolutionFor(type, a) ==
    CASE type = "route_planning" -> IsRouteSolution(a)
      [] type = "network_design" -> IsNetworkSolution(a)
      [] type = "project_scheduling" -> IsProjectSolution(a)
      [] type = "shift_scheduling" -> IsShiftSolution(a)
      [] type = "travel_planning" -> IsTravelSolution(a)
      [] type = "logistics_planning" -> IsLogisticsSolution(a)

(* CandidateSolution, for a problem of its own type.                       *)
IsCandidate(type, s) ==
    /\ DOMAIN s = {"status", "violations", "assignments", "metrics"}
    /\ s.status \in {"valid", "invalid", "infeasible"}
    /\ IsSolutionFor(type, s.assignments)
    /\ s.metrics \in [DOMAIN s.metrics -> Int]
=============================================================================
