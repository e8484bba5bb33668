--------------------------- MODULE MCSolveService ---------------------------
(***************************************************************************)
(* Instances of SolveService: families of small problems of each type.     *)
(***************************************************************************)
EXTENDS SolveService

Edge(source, target, weight, directed) ==
    [source |-> source, target |-> target, weight |-> weight, directed |-> directed]

Route(nodes, at, edges, goal, allowNegative, constraints) ==
    [type |-> "route_planning", nodes |-> nodes, at |-> at, edges |-> edges,
     start |-> 1, goal |-> goal, allowNegative |-> allowNegative, constraints |-> constraints]

(* Two triangles that share an edge, with or without one-way edges; places *)
(* that agree with some weights only, on all nodes, on some or on none;    *)
(* node 5 is unknown.                                                      *)
Diamonds ==
    LET edges(w, d) == <<Edge(1, 2, w[1], d), Edge(1, 3, w[2], FALSE), Edge(2, 3, w[3], d),
                         Edge(2, 4, 3, FALSE), Edge(3, 4, w[4], FALSE)>>
        trip == [at : {<<NoPlace, NoPlace, NoPlace, NoPlace>>, <<0, 1, 2, 3>>}, goal : {4}]
                \cup [at : {<<NoPlace, 0, NoPlace, 4>>}, goal : {1, 4}]
    IN  {Route(4, t.at, edges(w, d), t.goal, FALSE, c) :
            t \in trip, w \in [1..4 -> {1, 3}], d \in BOOLEAN,
            c \in {<<>>,
                   <<Require({2, 3}, "hard")>>,
                   <<Forbid({1}, "hard"), Require({2, 4}, "soft")>>,
                   <<Forbid({4, 5}, "hard")>>,
                   <<Require({5}, "hard")>>,
                   <<AtMost("total_weight", 3, "hard"), Require({3}, "hard")>>,
                   <<Bound("total_weight", "==", 4, "hard")>>,
                   <<AtMost("total_weight", 3, "soft"), AtMost("total_weight", 5, "soft"), Forbid({3}, "soft")>>}}

(* Four required nodes, more than MaxExact.                                *)
Tours ==
    LET edges(w) == <<Edge(1, 2, w[1], FALSE), Edge(2, 3, w[2], FALSE), Edge(3, 4, w[3], TRUE),
                      Edge(4, 5, w[4], FALSE), Edge(5, 6, 1, FALSE), Edge(1, 4, 2, FALSE),
                      Edge(2, 6, 2, TRUE)>>
    IN  {Route(6, [n \in 1..6 |-> NoPlace], edges(w), 6, FALSE, <<Require({2, 3, 4, 5}, "hard")>>) :
            w \in {<<1, 1, 4, 4>>, <<4, 1, 1, 4>>, <<4, 4, 1, 1>>, <<1, 4, 4, 1>>}}

(* Negative weights and negative cycles.                                   *)
Slopes ==
    LET edges(w) == <<Edge(1, 2, w[1], TRUE), Edge(2, 3, w[2], TRUE), Edge(3, 2, w[3], TRUE),
                      Edge(1, 3, w[4], FALSE), Edge(4, 3, -1, TRUE)>>
    IN  {Route(4, <<0, 1, 2, 3>>, edges(w), goal, TRUE, c) :
            w \in [1..4 -> {-1, 0, 2}], goal \in {1, 3}, c \in {<<>>, <<Require({2}, "hard")>>}}

(* Defects that the validation of a route refuses.                         *)
Misfits ==
    {Route(2, <<0, 1>>, <<Edge(1, 2, 1, FALSE)>>, 3, FALSE, <<>>),
     Route(2, <<0, 1>>, <<Edge(1, 3, 1, FALSE)>>, 2, FALSE, <<>>),
     Route(2, <<0, 1>>, <<Edge(2, 1, 1, TRUE)>>, 2, FALSE, <<>>)}

Link(a, b, weight) == [a |-> a, b |-> b, weight |-> weight]

Network(nodes, links, constraints) ==
    [type |-> "network_design", nodes |-> nodes, links |-> links, constraints |-> constraints]

(* A ring with a chord and a parallel link; link 7 is unknown, a node of   *)
(* the second family is.                                                   *)
Rings ==
    LET links(w) == <<Link(1, 2, w[1]), Link(2, 3, w[2]), Link(3, 4, w[3]),
                      Link(1, 4, w[4]), Link(1, 3, w[5]), Link(2, 1, 2)>>
    IN  {Network(4, links(w), c) :
            w \in [1..5 -> {1, 3}],
            c \in {<<>>,
                   <<Require({2}, "hard")>>,
                   <<Require({1, 3}, "hard")>>,
                   <<Require({1, 6}, "hard")>>,
                   <<Require({2, 3, 5}, "hard"), Forbid({1}, "hard")>>,
                   <<Forbid({3, 4}, "hard")>>,
                   <<Forbid({1, 2}, "soft"), Require({1}, "soft")>>,
                   <<Forbid({5}, "hard"), Bound("total_weight", ">=", 5, "hard")>>,
                   <<Require({7}, "hard")>>}}

Strays ==
    {Network(n, links, <<>>) :
        n \in 0..3,
        links \in {<<>>, <<Link(1, 2, 1)>>, <<Link(1, 1, 0), Link(1, 2, -1), Link(2, 3, 1), Link(1, 3, 1)>>}}

Project(durations, resources, dependencies, capacity, constraints) ==
    [type |-> "project_scheduling",
     tasks |-> [t \in DOMAIN durations |-> [duration |-> durations[t], resource |-> resources[t]]],
     dependencies |-> dependencies, capacity |-> capacity, constraints |-> constraints]

(* Four tasks, free, in two chains, in a diamond, behind a cycle or after  *)
(* a repeated dependency; tasks that exclude each other and one that fits  *)
(* beside any, or nowhere.                                                 *)
Undertakings ==
    {Project(durations, resources, dependencies, capacity, c) :
        durations \in {<<1, 2, 2, 1>>, <<1, 1, 2, 3>>},
        resources \in {<<1, 2, 1, 0>>, <<1, 2, 2, 1>>},
        dependencies \in {<<>>, <<<<1, 2>>, <<2, 4>>>>, <<<<4, 1>>, <<4, 1>>>>,
                          <<<<1, 2>>, <<1, 3>>, <<2, 4>>, <<3, 4>>>>,
                          <<<<1, 2>>, <<2, 3>>, <<3, 2>>>>},
        capacity \in {None, 1, 2, 3},
        c \in {<<>>, <<Bound("makespan", "<", 10, "hard"), Require({1}, "hard")>>}}

Idle == {Project(<<>>, <<>>, <<>>, None, <<>>)}

Member(wage, available, skills, daysOff) ==
    [wage |-> wage, available |-> available, skills |-> skills, daysOff |-> daysOff]

Slot(day, hours, headcount, skills) ==
    [day |-> day, hours |-> hours, headcount |-> headcount, skills |-> skills]

Shift(staff, slots, maxHours, maxRun, objectives, constraints) ==
    [type |-> "shift_scheduling", staff |-> staff, slots |-> slots, maxHours |-> maxHours,
     maxRun |-> maxRun, objectives |-> objectives, constraints |-> constraints]

Objective(sense, target, weight) == [sense |-> sense, target |-> target, weight |-> weight]

(* Three staff of whom one is skilled and one asks for days off, for slots *)
(* on days in a row, twice on a day or after a gap.                        *)
Weeks ==
    LET staff(available) == <<Member(2, 1..4, {"lead"}, {}), Member(1, 1..4, {}, {2, 3}),
                              Member(3, available, {"lead"}, {1})>>
        slots(days, skills) == <<Slot(days[1], 2, 1, {}), Slot(days[2], 4, 1, skills),
                                 Slot(days[3], 2, 2, {}), Slot(days[4], 3, 1, {})>>
    IN  {Shift(staff(crew[1]), slots(days, crew[2]), maxHours, maxRun, objectives, constraints) :
            crew \in {<<{1, 2, 3, 4}, {"lead"}>>, <<{2, 3}, {}>>},
            days \in {<<3, 1, 2, 4>>, <<1, 1, 2, 4>>}, maxHours \in {3, 6, 12}, maxRun \in {1, 2, 5},
            objectives \in {<<Objective("minimize", "labor_cost", 1)>>,
                            <<Objective("minimize", "labor_cost", 1),
                              Objective("maximize", "day_off_satisfaction", 9)>>,
                            <<Objective("minimize", "hour_variance", 1)>>,
                            <<Objective("maximize", "labor_cost", 1)>>},
            constraints \in {<<>>,
                             <<[kind |-> "staffing", severity |-> "hard", penalty |-> 0],
                               AtMost("labor_cost", 24, "soft")>>,
                             <<Bound("day_off_satisfaction", ">", 9, "hard")>>,
                             <<Bound("hour_variance", "<", 60, "soft")>>}}

NoSlots == {Shift(<<Member(1, {2}, {}, {})>>, <<>>, 1, 1, <<>>, <<>>), Shift(<<>>, <<>>, 1, 1, <<>>, <<>>)}

(* Places with their liking, cost and time in halves; legs whose cheapest  *)
(* way is not the fastest, with a parallel one, in a ring or to an island; *)
(* budgets that leave room for all, for some or for none.                  *)
Spot(value, liking, cost, time) == [value |-> value, liking |-> liking, cost |-> cost, time |-> time]
Leg(a, b, cost, time) == [a |-> a, b |-> b, cost |-> cost, time |-> time]

Trip(places, legs, budget, time, start, constraints) ==
    [type |-> "travel_planning", places |-> places, legs |-> legs, budget |-> budget,
     time |-> time, start |-> start, constraints |-> constraints]

Trips ==
    LET places(v) == <<Spot(v, 1, 1, 2), Spot(3, 2, 4, 2), Spot(5, 1, 5, 3), Spot(4, 1, 2, 4)>>
        ring == <<Leg(1, 2, 1, 3), Leg(2, 3, 2, 0), Leg(3, 4, 1, 1), Leg(4, 1, 2, 1), Leg(1, 2, 2, 1)>>
        island == <<Leg(1, 2, 2, 1), Leg(2, 3, 1, 1)>>
    IN  {Trip(places(v), legs, means[1], means[2], start, c) :
            v \in {1, -1}, legs \in {ring, island},
            means \in {<<4, 12>>, <<11, 6>>, <<20, 12>>}, start \in {None, 1},
            c \in {<<>>,
                   <<Require({3, 4}, "hard")>>,
                   <<Forbid({2}, "hard"), Require({1}, "soft")>>,
                   <<Forbid({1}, "hard"), AtMost("total_cost", 9, "soft")>>,
                   <<Require({5}, "hard")>>}}

(* No place, one too dear, one that takes nothing, and a pair of which the *)
(* more valuable one uses up the budget.                                   *)
Detours == {Trip(<<>>, <<>>, 2, 2, None, <<>>),
            Trip(<<Spot(1, 1, 3, 3)>>, <<>>, 2, 2, None, <<>>),
            Trip(<<Spot(1, 1, 0, 0), Spot(2, 1, 2, 0)>>, <<Leg(1, 2, 0, 0)>>, 2, 0, None, <<>>),
            Trip(<<Spot(2, 1, 2, 0), Spot(3, 1, 4, 0)>>, <<Leg(1, 2, 0, 0)>>, 4, 0, None, <<>>)}

Stop(node, weight, volume) == [node |-> node, weight |-> weight, volume |-> volume]
Truck(weight, volume) == [weight |-> weight, volume |-> volume]

Haul(nodes, edges, depot, vehicles, deliveries, constraints) ==
    [type |-> "logistics_planning", nodes |-> nodes, edges |-> edges, depot |-> depot,
     vehicles |-> vehicles, deliveries |-> deliveries, constraints |-> constraints]

(* Roads with a one-way street, that may be closed; two deliveries at one  *)
(* node, or one at the depot; trucks that hold all, some or one of them,   *)
(* the largest first or last.                                              *)
Hauls ==
    LET edges(w, d) == <<Edge(1, 2, w[1], FALSE), Edge(2, 3, w[2], d), Edge(3, 4, w[3], FALSE),
                         Edge(4, 1, 2, FALSE)>>
    IN  {Haul(4, edges(w, d), 1, vehicles, deliveries, c) :
            w \in {<<1, 4, 1>>, <<4, 1, 1>>, <<1, 1, 4>>, <<4, 4, 1>>}, d \in BOOLEAN,
            vehicles \in {<<Truck(4, 4), Truck(7, 3)>>, <<Truck(2, 2), Truck(8, 8)>>,
                          <<Truck(3, 9), Truck(4, 4), Truck(3, 4)>>},
            deliveries \in {<<Stop(2, 2, 1), Stop(3, 3, 2), Stop(4, 1, 1)>>,
                            <<Stop(2, 2, 2), Stop(3, 2, 2), Stop(2, 3, 2), Stop(4, 0, 0)>>,
                            <<Stop(1, 1, 1), Stop(3, 2, 2)>>},
            c \in {<<>>, <<Forbid({4}, "hard"), AtMost("total_distance", 10, "soft")>>}}

(* No deliveries, no trucks, no room, no way back, and a search that runs  *)
(* out of nodes before it has found anything.                              *)
Strandings ==
    LET road(d) == <<Edge(1, 2, 1, d)>>
    IN  {Haul(2, road(FALSE), 1, <<>>, <<>>, <<>>),
         Haul(2, road(FALSE), 1, <<Truck(1, 1)>>, <<>>, <<>>),
         Haul(2, road(FALSE), 1, <<>>, <<Stop(2, 1, 1)>>, <<>>),
         Haul(2, road(FALSE), 1, <<Truck(1, 9)>>, <<Stop(2, 2, 1)>>, <<>>),
         Haul(2, road(FALSE), 1, <<Truck(2, 2)>>, <<Stop(2, 2, 1), Stop(2, 1, 1)>>, <<>>),
         Haul(2, road(TRUE), 1, <<Truck(2, 2)>>, <<Stop(2, 1, 1)>>, <<>>),
         Haul(2, <<>>, 1, <<Truck(2, 2)>>, <<Stop(2, 1, 1)>>, <<>>),
         Haul(2, road(FALSE), 1, <<Truck(3, 3), Truck(3, 2)>>,
              <<Stop(2, 1, 0), Stop(2, 1, 0), Stop(2, 1, 0), Stop(2, 3, 3)>>, <<>>)}

MCProblems ==
    Diamonds \cup Tours \cup Slopes \cup Misfits \cup Rings \cup Strays \cup Undertakings \cup Idle
        \cup Weeks \cup NoSlots \cup Trips \cup Detours \cup Hauls \cup Strandings

(* Routes that a client may offer for a triangle with a one-way edge.      *)
RouteOffers ==
    {[problem |-> Route(3, <<0, 1, 2>>,
                        <<Edge(1, 2, 1, TRUE), Edge(2, 3, 1, FALSE), Edge(3, 1, 3, TRUE)>>, 3, FALSE, c),
      solution |-> Answer([nodes |-> nodes, edges |-> edges, weight |-> weight],
                          [total_weight |-> weight])] :
        c \in {<<Require({2}, "hard"), Forbid({3}, "soft")>>,
               <<Forbid({2}, "hard"), AtMost("total_weight", 2, "soft")>>},
        nodes \in BoundedSeq(1..3, 3), edges \in BoundedSeq(1..3, 2) \cup {<<4>>, <<1, 4>>}, weight \in 2..3}

(* Trees whose weight is given once more as a metric: as it is, too low or *)
(* not at all; some are sent as invalid by whoever offers them.            *)
NetworkOffers ==
    {[problem |-> Network(3, <<Link(1, 2, 1), Link(2, 3, 1), Link(1, 3, 3), Link(1, 2, 2)>>, c),
      solution |-> [Answer([links |-> links, weight |-> weight], claimed) EXCEPT !.status = status]] :
        c \in {<<Require({2}, "hard"), Forbid({4}, "soft")>>, <<AtMost("total_weight", 3, "hard")>>,
               <<Bound("total_weight", ">", 3, "hard")>>},
        links \in BoundedSeq(1..5, 3), weight \in {2, 3, 4}, status \in {"valid", "invalid"},
        claimed \in {[total_weight |-> 3], [total_weight |-> 4], [f \in {} |-> 0]}}

(* Schedules with times in halves, before time 0 too, whose tasks fit and  *)
(* follow each other or do not.                                            *)
ProjectOffers ==
    LET task(t, start, finish) == [task |-> t, start |-> start, finish |-> finish, slack |-> t - 1]
    IN  {[problem |-> Project(<<1, 2>>, <<1, 1>>, dependencies, capacity,
                              <<Bound("makespan", "==", 4, "soft"), Forbid({1}, "hard")>>),
          solution |-> Answer([order |-> o[1], schedule |-> schedule, critical |-> o[2],
                               makespan |-> makespan],
                              [makespan |-> makespan])] :
            dependencies \in {<<>>, <<<<2, 1>>>>}, capacity \in {None, 1},
            o \in {<<<<1, 2>>, <<1>>>>, <<<<1, 2>>, <<2>>>>, <<<<2, 2>>, <<>>>>}, makespan \in 4..6,
            schedule \in {<<task(1, a, a + 2), task(2, b, f)>> :
                              a \in {-2, -1, 0, 1, 3, 4}, b \in -1..1, f \in {4, 5}}
                        \cup {<<task(1, 4, 6)>>, <<task(2, 0, 4), task(3, 4, 6)>>,
                              <<task(1, 4, 6), task(2, 0, 4), task(2, 0, 4)>>}}

ShiftOffers ==
    {[problem |-> Shift(<<Member(2, {1, 2, 3}, {"lead"}, {2}), Member(1, {1, 3}, {}, {})>>,
                        <<Slot(1, 2, 1, {"lead"}), Slot(2, 3, 1, {}), Slot(3, 2, 1, {})>>,
                        maxHours, 2, <<>>, c),
      solution |-> Answer(domain :> staff[1] @@ 2 :> staff[2] @@ 3 :> staff[3], [labor_cost |-> 0])] :
        maxHours \in {4, 9},
        c \in {<<>>, <<[kind |-> "respect_days_off", severity |-> "soft", penalty |-> 2],
                       AtMost("labor_cost", 9, "hard"), Require({9}, "hard")>>,
               <<Bound("hour_variance", ">=", 4, "hard"), Bound("day_off_satisfaction", "==", 4, "soft")>>,
               <<[kind |-> "staffing", severity |-> "hard", penalty |-> 0]>>},
        domain \in {1, 9},
        staff \in [1..3 -> {<<>>, <<1>>, <<2>>, <<1, 1>>, <<9>>}]}

(* Plans that claim what they take, or one more.                           *)
Outing(start, c) ==
    Trip(<<Spot(2, 1, 1, 2), Spot(1, 3, 2, 1), Spot(1, 1, 0, 1)>>,
         <<Leg(1, 2, 1, 2), Leg(2, 3, 2, 1)>>, 9, 9, start, c)

OutingWays == Ways(Outing(None, <<>>))

TripOffers ==
    LET known(visit) == SelectSeq(visit, LAMBDA x : x \in 1..3)
        claim(visit, field) == TourCost(Outing(None, <<>>), known(visit), field, OutingWays)
        offer(p, selected, visit, more) ==
            LET value == TotalUtility(p, known(visit)) + more[1]
                cost == claim(visit, "cost") + more[2]
                time == claim(visit, "time") + more[3]
            IN  [problem |-> p,
                 solution |-> Answer([selected |-> selected, visit |-> visit, value |-> value,
                                      cost |-> cost, time |-> time],
                                     [total_value |-> value, total_cost |-> cost, total_time |-> time])]
    IN  {offer(Outing(start, c), selected, visit, more) :
            start \in {None, 1}, c \in {<<Require({2}, "hard"), AtMost("total_time", 8, "soft")>>,
                                       <<Forbid({3}, "hard")>>},
            visit \in {<<>>, <<1>>, <<2>>, <<1, 2>>, <<2, 1>>, <<2, 2>>, <<4>>, <<1, 4>>, <<1, 2, 3>>, <<3, 2, 1>>},
            selected \in {<<1, 2>>, <<2, 1, 3>>, <<2>>, <<4>>},
            more \in {<<0, 0, 0>>, <<1, 0, 0>>, <<0, 1, 0>>, <<0, 0, 1>>}}

HaulOffers ==
    LET haul(c) == Haul(3, <<Edge(1, 2, 1, FALSE), Edge(2, 3, 2, TRUE), Edge(3, 1, 4, FALSE)>>, 1,
                        <<Truck(2, 2), Truck(3, 1)>>, <<Stop(2, 1, 1), Stop(3, 2, 1)>>, c)
        lists == {<<>>, <<1>>, <<2>>, <<1, 2>>, <<2, 1>>, <<1, 1>>, <<3>>}
        routes == [vehicle : 1..3, stops : lists, distance : {0, 2, 7}]
    IN  {[problem |-> haul(c),
          solution |-> LET sum == FoldLeft(LAMBDA s, r : s + r.distance, 0, rs) + more
                       IN  Answer([routes |-> rs, total |-> sum],
                                  [total_distance |-> sum, vehicles_used |-> Len(rs)])] :
            c \in {<<>>, <<AtMost("vehicles_used", 1, "hard"), Forbid({1}, "soft")>>},
            rs \in BoundedSeq(routes, 1)
                   \cup {<<r, [vehicle |-> 2, stops |-> stops, distance |-> distance]>> :
                           r \in routes, stops \in {<<1>>, <<2>>}, distance \in {2, 7}},
            more \in {0, 1}}

MCOffers ==
    RouteOffers \cup NetworkOffers \cup ProjectOffers \cup ShiftOffers \cup TripOffers \cup HaulOffers
=============================================================================
