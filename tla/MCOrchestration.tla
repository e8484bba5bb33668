--------------------------- MODULE MCOrchestration ---------------------------
(***************************************************************************)
(* Instances of Orchestration: a few requests of each kind, and what the   *)
(* language model may say to them.                                         *)
(***************************************************************************)
EXTENDS Orchestration

Edge(source, target, weight, directed) ==
    [source |-> source, target |-> target, weight |-> weight, directed |-> directed]
Link(a, b, weight) == [a |-> a, b |-> b, weight |-> weight]
Spot(value, cost, time) == [value |-> value, cost |-> cost, time |-> time]
Leg(a, b, cost, time) == [a |-> a, b |-> b, cost |-> cost, time |-> time]
Task(duration, resource) == [duration |-> duration, resource |-> resource]

Staffing == [kind |-> "staffing", severity |-> "hard", penalty |-> 0]

-----------------------------------------------------------------------------
(* Documents.                                                              *)

(* A capacity of 2 suits each task, and 5 all at once.                     *)
Plant(capacity, constraints) ==
    Document("project_scheduling", <<Goal("minimize", "makespan", 1)>>, constraints,
             [tasks |-> Listed(<<Task(2, 2), Task(1, 1), Task(2, 1), Task(1, 1)>>),
              dependencies |-> Listed(<<<<2, 4>>>>), resource_capacity |-> capacity])

(* Three places in a row, the middle one liked; the last one is wanted.    *)
HolidayFrom(start, objectives, constraints) ==
    Document("travel_planning", objectives, constraints,
             [places |-> Listed(<<Spot(3, 2, 2), Spot(2, 2, 0), Spot(5, 4, 2)>>),
              legs |-> Listed(<<Leg(1, 2, 2, 0), Leg(2, 3, 2, 2)>>),
              budget |-> Numeral(10), time_budget |-> Numeral(12), start |-> start,
              preferences |-> Object(Id("places", 2).value :> Numeral(3))])

Holiday(constraints) == HolidayFrom(Null, <<Goal("maximize", "total_value", 1)>>, constraints)

RoadMap(edges, objectives, constraints) ==
    Document("route_planning", objectives, constraints,
             [nodes |-> Listed(<<NoPlace, NoPlace, NoPlace>>), edges |-> Listed(edges),
              start |-> Id("nodes", 1), goal |-> Id("nodes", 3),
              allow_negative |-> Value("flag", \E e \in Range(edges) : e.weight < 0)])

Triangle(w) == <<Edge(1, 2, w, TRUE), Edge(2, 3, 1, FALSE), Edge(3, 1, 3, FALSE)>>

(* The way over the second place is against the direction of an edge.      *)
OneWay == <<Edge(2, 1, 1, TRUE), Edge(2, 3, 1, FALSE), Edge(3, 1, 3, FALSE)>>

CablesFor(objectives, constraints) ==
    Document("network_design", objectives, constraints,
             [nodes |-> Listed(<<NoPlace, NoPlace, NoPlace>>),
              links |-> Listed(<<Link(1, 2, 1), Link(2, 3, 1), Link(1, 3, 3), Link(1, 2, 2)>>)])

Cables(constraints) == CablesFor(<<Goal("minimize", "total_weight", 1)>>, constraints)

Some(catalog, ns) == {<<catalog, n>> : n \in ns}
Least == <<Goal("minimize", "total_weight", 1)>>

-----------------------------------------------------------------------------
(* Simulations.                                                            *)

InData(fields) == Object([data |-> Object(fields)])

(* Patches that change a value, remove one, replace a list, give what is   *)
(* no problem, or nothing at all.                                          *)
PlantPatches ==
    {Object(NoFields), Object([problem_type |-> Value("text", "route_planning")]), Object([data |-> Null]),
     InData([resource_capacity |-> Null]), InData([resource_capacity |-> Numeral(1)]),
     InData([resource_capacity |-> Numeral(5)]),
     InData([resource_capacity |-> Object([limit |-> Null])]),
     InData([dependencies |-> Null, tasks |-> Listed(<<Task(3, 1), Task(1, 2)>>)]),
     Object([constraints |-> Listed(<<AtMost("makespan", 3, "hard")>>), metadata |-> Object(NoFields)])}

HolidayPatches ==
    {InData([preferences |-> Object(Id("places", 3).value :> Numeral(2))]),
     InData([preferences |-> Object(Id("places", 2).value :> Null), budget |-> Numeral(16)]),
     InData([places |-> Listed(<<Spot(3, 2, 2), Spot(2, 2, 0)>>), legs |-> Listed(<<Leg(1, 2, 2, 0)>>)])}

Simulate(doc, algorithm, scenarios, sensitivity) ==
    [kind |-> "simulate", problem |-> doc, algorithm |-> algorithm, scenarios |-> scenarios,
     sensitivity |-> sensitivity]

Sensitivity(field, low, high, metric, threshold, mode) ==
    [path |-> <<"data", field>>, low |-> low, high |-> high, metric |-> metric,
     threshold |-> threshold, mode |-> mode]

Simulations ==
    {Simulate(Plant(Numeral(3), <<>>), algorithm, <<first, second>>, None) :
        algorithm \in {None, "cpm", "dijkstra"}, first \in PlantPatches, second \in PlantPatches}
    \cup {Simulate(Holiday(c), algorithm, <<first, second>>, None) :
            c \in {<<>>, <<Require(Some("places", {3}), "hard")>>, <<Require(Some("legs", {1}), "hard")>>},
            algorithm \in {None, "greedy"}, first \in HolidayPatches, second \in HolidayPatches}

Analyses ==
    {Simulate(Plant(Numeral(3), <<>>), None, <<Object(NoFields)>>,
              Sensitivity("resource_capacity", low, high, "makespan", threshold, mode)) :
        low \in {1, 2}, high \in 2..9, threshold \in {2, 3, 4, 5}, mode \in {"at_most", "at_least"}}
    \cup {Simulate(Plant(Numeral(3), <<>>), None, <<Object(NoFields)>>,
                   Sensitivity(field, 2, 4, metric, 3, "at_most")) :
            field \in {"problem_type", "resource_capacity"}, metric \in {"makespan", "total_cost"}}

-----------------------------------------------------------------------------
(* Benchmarks and comparisons.                                             *)

Benchmark(doc, algorithms) ==
    [kind |-> "benchmark", problem |-> doc, algorithms |-> algorithms, persist |-> TRUE]

Benchmarks ==
    {Benchmark(BaseProblem(type), None) : type \in ProblemTypes \ {"shift_scheduling"}}
    \cup {Benchmark(BaseProblem("shift_scheduling"), {"greedy", "backtracking", "branch_and_bound"})}
    \cup {Benchmark(RoadMap(Triangle(w), objectives, c), algorithms) :
            w \in {-1, 1, 4}, objectives \in {<<>>, Least, <<Goal("maximize", "total_weight", 1)>>},
            c \in {<<>>, <<Require(Some("nodes", {2}), "hard"), AtMost("total_weight", 4, "hard")>>},
            algorithms \in {None, {"a_star", "brute_force"}, {"kruskal"}}}
    \cup {Benchmark(Cables(c), None) :
            c \in {<<>>, <<Require(Some("links", {3}), "hard")>>, <<Forbid(Some("links", {1, 4}), "soft")>>}}
    \cup {Benchmark(HolidayFrom(start, <<objective>>, <<>>), None) :
            start \in {Null, Id("places", 1)},
            objective \in {Goal("minimize", "total_cost", 1), Goal("maximize", "total_time", 1)}}
    \cup {Benchmark(RoadMap(OneWay, <<Goal(sense, "total_weight", 1)>>, <<>>), None) :
            sense \in {"minimize", "maximize"}}
    \cup {Benchmark(Holiday(c), None) :
            c \in {<<>>, <<AtMost("total_cost", 6, "hard")>>, <<Require(Some("places", {3, 5}), "hard")>>}}

Compare(doc, algorithm, runs, llm) ==
    [kind |-> "compare", problem |-> doc, algorithm |-> algorithm, runs |-> runs, llm |-> llm]

(* Routes of up to three nodes and two edges, that claim their weight or   *)
(* another one; spanning trees and others; plans of every kind.            *)
LlmRoutes ==
    [nodes : {<<1, 3>>, <<1, 2, 3>>, <<2, 3>>}, edges : {<<3>>, <<1, 2>>, <<4>>, <<2>>}, weight : {2, 3}]

LlmTrees == [links : {<<1, 2>>, <<2, 3>>, <<1, 4>>, <<1, 2, 3>>, <<1, 5>>}, weight : {2, 4, 3}]

LlmPlans ==
    {[selected |-> selected, visit |-> visit, value |-> value, cost |-> cost, time |-> time] :
        selected \in {<<1, 2>>, <<3, 2>>, <<1>>}, visit \in {<<1, 2>>, <<2, 3>>, <<1>>, <<2, 7>>},
        value \in {9, 11, 3}, cost \in {8, 10, 2}, time \in {2, 6}}

Comparisons ==
    {Compare(RoadMap(Triangle(w), objectives, c), algorithm, 2, LlmRoutes) :
        w \in {1, 4}, objectives \in {<<>>, Least}, algorithm \in {None, "brute_force", "prim"},
        c \in {<<>>, <<Forbid(Some("edges", {3}), "hard")>>, <<Forbid(Some("edges", {1}), "soft")>>,
               <<AtMost("total_weight", 1, "hard")>>}}
    \cup {Compare(CablesFor(objectives, <<>>), "kruskal_nx", 1, LlmTrees) :
            objectives \in {<<>>, <<Goal("maximize", "total_weight", 1)>>,
                            <<Goal("minimize", "total_cost", 1), Goal("minimize", "total_weight", 1)>>}}
    \cup {Compare(Cables(c), None, 2, LlmTrees) :
            c \in {<<>>, <<Require(Some("links", {3}), "hard")>>, <<Require(Some("links", {7}), "hard")>>}}
    \cup {Compare(RoadMap(OneWay, objectives, <<>>), "dijkstra", 2, LlmRoutes) :
            objectives \in {Least, <<Goal("maximize", "total_weight", 1)>>}}
    \cup {Compare(HolidayFrom(start, <<objective>>, <<>>), algorithm, 1, LlmPlans) :
            start \in {Null, Id("places", 1)}, algorithm \in {None, "brute_force"},
            objective \in {Goal("maximize", "total_value", 1), Goal("minimize", "total_cost", 1)}}
    \cup {Compare(Holiday(c), algorithm, 1, LlmPlans) :
            c \in {<<Require(Some("places", {3}), "hard")>>, <<Require(Some("places", {5}), "hard")>>},
            algorithm \in {None, "brute_force"}}

-----------------------------------------------------------------------------
(* Structuring: each constraint names something of a list of the problem,  *)
(* or what does not exist.                                                 *)

Mentionable(type) ==
    LET data == BaseProblem(type).fields.data.fields
        lists == {f \in DOMAIN data : data[f].kind = "list"}
    IN  UNION {{<<f, 1>>, <<f, 2>>, <<f, 9>>} : f \in lists}

SaidConstraints(type) ==
    {<<>>, <<Staffing>>, <<AtMost("makespan", 9, "hard"), [kind |-> "forbidden", severity |-> "hard", penalty |-> 0]>>,
     <<[kind |-> "numeric_bound", severity |-> "soft", penalty |-> 1]>>}
    \cup {<<Forbid({id}, "soft")>> : id \in Mentionable(type)}
    \cup {<<Require({id}, "hard")>> : id \in Mentionable(type)}
    \cup {<<Require({id}, "hard"), Forbid({other}, "hard")>> :
            id \in {<<"nodes", 2>>, <<"places", 3>>}, other \in {<<"edges", 1>>, <<"places", 2>>, <<"segments", 3>>}}

SaidPatches(type) ==
    {NoFields} \cup
    CASE type = "route_planning" ->
            {[start |-> Id("nodes", 2)], [goal |-> Id("edges", 1)], [goal |-> Id("nodes", 9)], [start |-> Null],
             [allow_negative |-> Value("flag", TRUE)], [allow_negative |-> Null, goal |-> Id("nodes", 3)]}
      [] type = "shift_scheduling" -> {[max_weekly_hours |-> Numeral(5)], [max_consecutive_days |-> Numeral(1)]}
      [] type = "network_design" -> {}
      [] type = "travel_planning" ->
            {[budget |-> Numeral(2)], [start |-> Null], [start |-> Id("places", 3)], [start |-> Id("legs", 1)],
             [preferences |-> Null, time_budget |-> Numeral(20)]}
            \cup {[preferences |-> Object(<<"places", n>> :> Numeral(3))] : n \in {2, 9}}
      [] type = "project_scheduling" -> {[resource_capacity |-> Null], [resource_capacity |-> Numeral(2)],
                                         [resource_capacity |-> Numeral(4)]}
      [] type = "logistics_planning" -> {[depot_id |-> Id("nodes", 2)], [depot_id |-> Id("segments", 1)],
                                         [depot_id |-> Null]}

MCSayings ==
    [type \in ProblemTypes |-> [objectives |-> {<<>>, <<Goal("minimize", "total_cost", 1)>>},
                         constraints |-> SaidConstraints(type), patches |-> SaidPatches(type)]]

Rankings ==
    {[kind |-> "recommend", problem |-> Cables(<<>>),
      rankings |-> BoundedSeq({"kruskal", "prim", "kruskal_nx", "simplex"}, 5)]}

-----------------------------------------------------------------------------
(* Measurements.                                                           *)

CONSTANTS firstMeter, secondMeter

MCMeters == {firstMeter, secondMeter}

Measurements == [kind : {"measure"}, mode : {"thread", "process"}]

MCReceived ==
    UNION {Simulations, Analyses, Benchmarks, Comparisons, Rankings, Measurements, {[kind |-> "structure"]}}

MCSearches ==
    {SearchOf(r.problem, "priority_list", r.sensitivity) : r \in Analyses}
=============================================================================
