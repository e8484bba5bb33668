------------------------------- MODULE Trials -------------------------------
(***************************************************************************)
(* BenchmarkService.run (app/services/benchmark.py), which solves a problem*)
(* with all strategies of its type or those asked for, and                 *)
(* ComparisonService.compare (app/services/comparison.py), which solves it *)
(* with one strategy and then several times with a language model.         *)
(*                                                                         *)
(* What the model answers is any of the assignments that the request comes *)
(* with; a fraction is a pair of its numerator and its denominator.        *)
(***************************************************************************)
EXTENDS Handlers

(* The strategies to run, in the order of the registry.                    *)
Wanted(type, names) ==
    SelectSeq(Registered(type), LAMBDA s : names = None \/ s \in names)

Strategies == Wanted(TypeOf(request.problem), request.algorithms)

-----------------------------------------------------------------------------
(* BenchmarkService.run.                                                   *)

BeginBenchmark ==
    /\ at = "benchmark"
    /\ IF Accepted(Problem) /\ Strategies # <<>>
       THEN Proceed("measure", <<>>)
       ELSE Reply(Refused)

Measuring == at = "measure" /\ Len(log) < Len(Strategies)

Entry(s, v) == [algorithm |-> s, status |-> v.status, metrics |-> MetricsOf(v), ratio |-> None]

(* The last of the runs of a strategy counts; an exception of the strategy *)
(* or of the verification, or a timeout, ends the request.                 *)
Measured(p, s, answers) ==
    \/ \E a \in answers :
          IF Unverifiable(p, a) THEN Reply(Raised)
          ELSE Proceed("measure", Append(log, Entry(s, Verified(p, a))))
    \/ answers = {} /\ Reply(Raised)

MeasureWith(p, s) == Measured(p, s, Answers(p, s))

MeasureNext == Measuring /\ MeasureWith(Problem, Strategies[Len(log) + 1])

MeasureTimesOut == Measuring /\ Reply(TimedOut)

Counts(entry, target) == entry.status = "valid" /\ target \in DOMAIN entry.metrics

(* Mutant: the best is that of all entries, whatever their status.         *)
QualityRatiosOfAll(objectives, entries) ==
    LET target == objectives[1].target
        values == {e.metrics[target] : e \in {e \in Range(entries) : target \in DOMAIN e.metrics}}
        best == IF objectives[1].sense = "minimize" THEN Min(values) ELSE Max(values)
    IN  IF objectives = <<>> THEN entries
        ELSE IF values = {} THEN entries
        ELSE [i \in DOMAIN entries |->
                  IF Counts(entries[i], target) /\ best # 0
                  THEN [entries[i] EXCEPT !.ratio = <<entries[i].metrics[target], best>>]
                  ELSE entries[i]]

(* _annotate_quality_ratio: the value of the first objective over the best *)
(* of those of valid answers.                                              *)
QualityRatios(objectives, entries) ==
    LET target == objectives[1].target
        values == {e.metrics[target] : e \in {e \in Range(entries) : Counts(e, target)}}
        best == IF objectives[1].sense = "minimize" THEN Min(values) ELSE Max(values)
        rated(e) == [e EXCEPT !.ratio = <<e.metrics[target], best>>]
    IN  IF objectives = <<>> THEN entries
        ELSE IF values = {} \/ best = 0 THEN entries
        ELSE [i \in DOMAIN entries |->
                  IF Counts(entries[i], target) THEN rated(entries[i]) ELSE entries[i]]

(* The entries are rated, and saved with the problem if that was asked for.*)
FinishBenchmark ==
    /\ at = "measure" /\ ~Measuring
    /\ Reply(Answered([entries |-> QualityRatios(Problem.objectives, log), saved |-> request.persist]))

-----------------------------------------------------------------------------
(* ComparisonService.compare.                                              *)

BeginComparison ==
    /\ at = "compare"
    /\ IF Accepted(Problem) /\ Known(Problem, Chosen(Problem, request.algorithm))
       THEN Proceed("run", <<>>)
       ELSE Reply(Refused)

(* The figures an answer has of its own, under their names as targets.     *)
Figures(type) ==
    CASE type \in {"route_planning", "network_design"} -> [total_weight |-> "weight"]
      [] type = "shift_scheduling" -> NoFields
      [] type = "travel_planning" -> [total_value |-> "value", total_cost |-> "cost", total_time |-> "time"]
      [] type = "project_scheduling" -> [makespan |-> "makespan"]
      [] type = "logistics_planning" -> [total_distance |-> "total"]

(* _objective_metrics: the targets of the objectives that no metric gives  *)
(* are taken from the answer itself; the empty answer has 0 for each.      *)
ObjectiveMetrics(p, v) ==
    LET targets == {o.target : o \in Range(p.objectives)} \cap DOMAIN Figures(p.type)
        figure(t) == IF v.status = "infeasible" THEN 0 ELSE v.assignments[Figures(p.type)[t]]
    IN  MetricsOf(v) @@ [t \in targets |-> figure(t)]

(* A run, with what identifies the structure of its answer; empty answers  *)
(* have the same one.                                                      *)
Run(p, v) ==
    [status |-> v.status, metrics |-> ObjectiveMetrics(p, v),
     structure |-> IF v.status = "infeasible" THEN None ELSE v.assignments]

Error == [status |-> None, metrics |-> NoFields, structure |-> None]

LlmAnswer(assignments) ==
    [status |-> "valid", violations |-> {}, assignments |-> assignments, metrics |-> NoFields]

(* What is solved with next: the strategy once, and then the model, which  *)
(* may also fail in any way.                                               *)
RunAnswers(p) ==
    IF log = <<>> THEN Answers(p, Chosen(p, request.algorithm))
                  ELSE {LlmAnswer(a) : a \in request.llm}

(* Mutant: the status that an answer claims is taken as it is.             *)
RunOnceUnverified ==
    /\ at = "run" /\ Len(log) <= request.runs
    /\ \/ \E a \in RunAnswers(Problem) : Proceed("run", Append(log, Run(Problem, a)))
       \/ Proceed("run", Append(log, Error))

(* _run_once: an exception while solving, a timeout too, is an error that  *)
(* counts; one of the verification ends the request.                       *)
RunOnce ==
    /\ at = "run" /\ Len(log) <= request.runs
    /\ \/ \E a \in RunAnswers(Problem) :
            IF Unverifiable(Problem, a) THEN Reply(Raised)
            ELSE Proceed("run", Append(log, Run(Problem, Verified(Problem, a))))
       \/ Proceed("run", Append(log, Error))

(* _aggregate: the ratios are those whose mean is given.                   *)
Aggregate(p, first, runs) ==
    LET ok == SelectSeq(runs, LAMBDA r : r.status # None)
        valid == SelectSeq(ok, LAMBDA r : r.status = "valid")
        target == p.objectives[1].target
        known(r) == p.objectives # <<>> /\ target \in DOMAIN r.metrics
        rated == SelectSeq(valid, LAMBDA r :
                     known(r) /\ (p.objectives[1].sense = "minimize" \/ r.metrics[target] # 0))
        ratio(r) == IF p.objectives[1].sense = "minimize" THEN <<r.metrics[target], first.metrics[target]>>
                                                          ELSE <<first.metrics[target], r.metrics[target]>>
        comparable == known(first) /\ first.metrics[target] # 0
    IN  [complied |-> first.status = "valid",
         compliance |-> IF ok = <<>> THEN <<0, 1>> ELSE <<Len(valid), Len(ok)>>,
         ratios |-> IF comparable THEN [i \in DOMAIN rated |-> ratio(rated[i])] ELSE <<>>,
         distinct |-> Cardinality({r.structure : r \in Range(ok)}),
         errors |-> <<Len(runs) - Len(ok), Len(runs)>>]

(* The account of the figures, by the model or else by rule, changes none. *)
FinishComparison ==
    /\ at = "run" /\ Len(log) > request.runs
    /\ Reply(Answered([metrics |-> Aggregate(Problem, Head(log), Tail(log))]))

-----------------------------------------------------------------------------
(* The cheapest way around any places is also the quickest: strategies for *)
(* travel look for the cheapest only.                                      *)
CheapestIsQuickest(p) ==
    LET ways == Ways(p)
        takes(visit, field) == TourCost(p, visit, field, ways)
    IN  \A places \in SUBSET Places(p) : \A v, w \in SetToSeqs(places) :
            {takes(v, "cost"), takes(w, "cost")} \subseteq Int /\ takes(v, "cost") <= takes(w, "cost") =>
                takes(v, "time") <= takes(w, "time")

(* The strategies that find the best there is for the first objective.     *)
(* Each of them has one aim, whatever the objectives ask for: the least    *)
(* weight, or the most value.                                              *)
Exact(p, s) ==
    LET asks(sense, target) ==
            p.objectives # <<>> /\ p.objectives[1].sense = sense /\ p.objectives[1].target = target
    IN  CASE p.type = "route_planning" ->
                /\ asks("minimize", "total_weight")
                /\ ~HasNegativeWeight(p) /\ Cardinality(Waypoints(p)) <= MaxExact
                /\ s \in {"dijkstra", "bellman_ford", "dijkstra_nx"}
          [] p.type = "network_design" -> asks("minimize", "total_weight") /\ s \in {"kruskal", "kruskal_nx"}
          [] p.type = "travel_planning" ->
                asks("maximize", "total_value") /\ s = "brute_force" /\ CheapestIsQuickest(p)
          [] OTHER -> FALSE

(* The answers that the verification takes for what they are not: a route  *)
(* against the direction of an edge, and a plan that does not begin at the *)
(* start.                                                                  *)
Astray(p, a) ==
    \/ /\ p.type = "route_planning"
       /\ \E i \in DOMAIN a.edges \cap DOMAIN a.nodes :
              /\ a.edges[i] \in DOMAIN p.edges
              /\ p.edges[a.edges[i]].directed /\ p.edges[a.edges[i]].source # a.nodes[i]
    \/ /\ p.type = "travel_planning" /\ p.start # None
       /\ a.visit = <<>> \/ a.visit[1] # p.start

(* Where the figures of the first objective are positive, an entry has a  *)
(* ratio exactly if it is valid and has that figure; the ratios are to the *)
(* same one, none is better than 1, and some entry has it: no answer that  *)
(* is not valid decides what the others are compared with.                 *)
RatiosRank ==
    request.kind = "benchmark" /\ at = "done" /\ reply.outcome = "answered" /\ Problem.objectives # <<>> =>
        LET objective == Problem.objectives[1]
            entries == Range(reply.body.entries)
            figured == {e \in entries : e.status = "valid" /\ objective.target \in DOMAIN e.metrics}
        IN  (\A e \in figured : e.metrics[objective.target] \in Nat \ {0}) =>
                /\ {e \in entries : e.ratio # None} = figured
                /\ \A e, f \in figured : e.ratio[2] = f.ratio[2]
                /\ \A e \in figured : IF objective.sense = "minimize" THEN e.ratio[1] >= e.ratio[2]
                                                                     ELSE e.ratio[1] <= e.ratio[2]
                /\ figured # {} => \E e \in figured : e.ratio[1] = e.ratio[2]

(* An exact strategy is beaten only by what goes astray.  In a benchmark,  *)
(* every exact strategy with a valid answer has the best figure: they      *)
(* agree.  In a comparison, no more answers of the model are better than   *)
(* that of an exact strategy than went astray and were confirmed, if the   *)
(* constraints are all hard ones that both are checked for.  A bound on a  *)
(* figure is checked only for strategies, which report the figure as a     *)
(* metric.                                                                 *)
ExactIsNeverBeaten ==
    at = "done" /\ reply.outcome = "answered" =>
        LET p == Problem
            comparable(c) == c.severity = "hard" /\ c.kind # "numeric_bound"
        IN  /\ request.kind = "benchmark" =>
                   LET rated == {e \in Range(reply.body.entries) : e.ratio # None}
                   IN  (\A e \in rated : e.ratio[1] > 0 /\ e.ratio[2] > 0) =>
                           \A e \in rated : Exact(p, e.algorithm) => e.ratio[1] = e.ratio[2]
            /\ request.kind = "compare"
                   /\ Exact(p, Chosen(p, request.algorithm)) /\ (\A c \in Range(p.constraints) : comparable(c)) =>
                       LET ratios == reply.body.metrics.ratios
                           better == {i \in DOMAIN ratios : ratios[i][1] < ratios[i][2]}
                           astray == {i \in 2..Len(log) : log[i].status = "valid" /\ Astray(p, log[i].structure)}
                       IN  Cardinality(better) <= Cardinality(astray)
=============================================================================
