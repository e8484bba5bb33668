------------------------------- MODULE Travel -------------------------------
(***************************************************************************)
(* travel_planning: which places to visit, and in which order, within a    *)
(* budget and a time.                                                      *)
(*                                                                         *)
(* A problem has a sequence of places, each with its value, the traveller's*)
(* liking for it (1 unless told), its cost and its time; a sequence of     *)
(* legs between two places, each with a cost and a time; a budget and a    *)
(* time, both at least 0; and a start, None unless told.  Its constraints  *)
(* forbid and require places.                                              *)
(***************************************************************************)
EXTENDS Packing

Places(p) == DOMAIN p.places
Utility(p, x) == p.places[x].value * p.places[x].liking
TotalUtility(p, order) == SumFunction([i \in DOMAIN order |-> Utility(p, order[i])])

(* all_pairs: the distances by cost and those by time.                     *)
LegArcs(p, field) ==
    UNION {{[from |-> leg.a, to |-> leg.b, weight |-> leg[field]],
            [from |-> leg.b, to |-> leg.a, weight |-> leg[field]]} : leg \in Range(p.legs)}

Ways(p) ==
    [cost |-> FloydWarshall(Len(p.places), LegArcs(p, "cost")),
     time |-> FloydWarshall(Len(p.places), LegArcs(p, "time"))]

(* tour_cost: what the known places take, and the way around all of them.  *)
TourCost(p, order, field, ways) ==
    LET known == {i \in DOMAIN order : order[i] \in Places(p)}
        stays == SumFunction([i \in known |-> p.places[order[i]][field]])
        way == IF Len(order) <= 1 THEN 0 ELSE PathTotal(Append(order, order[1]), ways[field])
    IN  IF way = None THEN None ELSE stays + way

Planned(p, visit, ways) ==
    IF visit = None THEN None
    ELSE [visit |-> visit, cost |-> TourCost(p, visit, "cost", ways),
          time |-> TourCost(p, visit, "time", ways)]

(* order_and_cost: the start, or else the first place selected, and the    *)
(* others in the order of the cheapest tour.  None if there is no tour.    *)
OrderAndCost(p, selected, ways) ==
    LET sel == IF p.start \in Range(selected) \cup {None} THEN selected ELSE <<p.start>> \o selected
        anchor == IF p.start # None THEN p.start ELSE sel[1]
    IN  IF sel = <<>> THEN [visit |-> <<>>, cost |-> 0, time |-> 0]
        ELSE Planned(p, TourFrom(anchor, Picked(sel, {i \in DOMAIN sel : sel[i] # anchor}), ways["cost"]), ways)

Affordable(p, plan) == plan # None /\ plan.cost <= p.budget /\ plan.time <= p.time

(* travel_solution.                                                        *)
PlanAnswer(plan, value) ==
    IF plan = None THEN Infeasible({})
    ELSE Answer([selected |-> plan.visit, visit |-> plan.visit, value |-> value,
                 cost |-> plan.cost, time |-> plan.time],
                [total_value |-> value, total_cost |-> plan.cost, total_time |-> plan.time])

TravelAnswer(p, selected, ways) ==
    LET answer(plan) == PlanAnswer(plan, TotalUtility(p, plan.visit))
    IN  answer(OrderAndCost(p, selected, ways))

-----------------------------------------------------------------------------
(* The strategies.  One that looks up a required place that does not exist *)
(* ends with an exception, and gives no answer at all.                     *)

Allowed(p) == Places(p) \ ForbiddenItems(p)

(* KnapsackDpTravelStrategy: the ways between the places are left out of   *)
(* account; required places are added afterwards, whatever they take.      *)
KnapsackTravel(p) ==
    LET fits(x) == Ceil(p.places[x].cost) <= Floor(p.budget) /\ Ceil(p.places[x].time) <= Floor(p.time)
        ids == Arranged({x \in Allowed(p) : fits(x)}, <)
        items == [i \in DOMAIN ids |-> [a |-> Ceil(p.places[ids[i]].cost),
                                        b |-> Ceil(p.places[ids[i]].time),
                                        value |-> Utility(p, ids[i])]]
        picked == {ids[i] : i \in Knapsack(items, Floor(p.budget), Floor(p.time))}
        late == RequiredItems(p) \ picked
    IN  IF ~(RequiredItems(p) \subseteq Places(p)) THEN {}
        ELSE {TravelAnswer(p, Arranged(picked, <) \o Arranged(late, <), Ways(p))}

(* GreedyTravelStrategy: the place that gains most for what it takes, as   *)
(* long as there is one that gains and can be afforded.  A gain is compared*)
(* as the fraction Utility / share.                                        *)
BestGain(p, trial, spentBefore) ==
    LET spent(x) == trial[x].cost + trial[x].time - spentBefore
        share(x) == IF spent(x) > 0 THEN spent(x) ELSE Whole
        gain(x, y) == Utility(p, x) * share(y)
        gainful == {x \in DOMAIN trial : Utility(p, x) > 0 /\ Affordable(p, trial[x])}
    IN  {x \in gainful : \A y \in gainful :
            gain(x, y) > gain(y, x) \/ (gain(x, y) = gain(y, x) /\ x <= y)}

ExtendGreedily(p, first, ways) ==
    LET spent(plan) == IF plan = None THEN 0 ELSE plan.cost + plan.time
        best(selected) == BestGain(p, [x \in Allowed(p) \ Range(selected) |->
                                           OrderAndCost(p, Append(selected, x), ways)],
                                   spent(OrderAndCost(p, selected, ways)))
        extend[selected \in Seq(Places(p))] ==
            LET with(xs) == IF xs = {} THEN selected ELSE extend[selected \o SetToSeq(xs)]
            IN  with(best(selected))
    IN  extend[first]

GreedyPlan(p, first, ways) ==
    TravelAnswer(p, ExtendGreedily(p, Arranged(first, <), ways), ways)

GreedyTravel(p) ==
    LET first == RequiredItems(p) \ ForbiddenItems(p)
    IN  IF first \subseteq Places(p) THEN {GreedyPlan(p, first, Ways(p))} ELSE {}

(* BruteForceTravelStrategy: the first of the most valuable selections     *)
(* that can be afforded, the required places alone if there is none.  The  *)
(* order of the required places is that of a set.                          *)
BruteForceTravel(p) ==
    LET required == RequiredItems(p) \cap Allowed(p)
        combos == {Arranged(c, <) : c \in SUBSET (Allowed(p) \ required)}
        best(req, plan) ==
            LET possible == {c \in combos : Affordable(p, plan[c])}
                value(c) == TotalUtility(p, plan[c].visit)
            IN  IF possible = {} THEN req
                ELSE req \o CHOOSE c \in possible : \A d \in possible \ {c} :
                                value(c) > value(d) \/ (value(c) = value(d) /\ Before(c, d))
        from(req, ways) == best(req, [c \in combos |-> OrderAndCost(p, req \o c, ways)])
        answers(ways) == {TravelAnswer(p, from(req, ways), ways) : req \in SetToSeqs(required)}
    IN  answers(Ways(p))

-----------------------------------------------------------------------------
(* Validation, and the verification of a plan.                             *)

TravelIntegrity(p) == p.places # <<>>

TravelFeasible(p) ==
    /\ Min({place.cost : place \in Range(p.places)}) <= p.budget
    /\ Min({place.time : place \in Range(p.places)}) <= p.time

(* The way around a place that does not exist is looked up nevertheless,   *)
(* and that ends the verification with an exception.                       *)
TravelUnverifiable(p, a) == Len(a.visit) >= 2 /\ ~(Range(a.visit) \subseteq Places(p))

TravelStructure(p, a) ==
    LET ways == Ways(p)
    IN  IF /\ Range(a.selected) \subseteq Places(p)
           /\ Range(a.visit) = Range(a.selected)
           /\ IsInjective(a.visit)
           /\ a.value = TotalUtility(p, a.visit)
           /\ a.cost <= p.budget /\ a.time <= p.time
           /\ a.cost = TourCost(p, a.visit, "cost", ways)
           /\ a.time = TourCost(p, a.visit, "time", ways)
        THEN {} ELSE {Hard("travel_structure")}
=============================================================================
