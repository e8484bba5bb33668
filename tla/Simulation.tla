------------------------------ MODULE Simulation ------------------------------
(***************************************************************************)
(* run_simulation (app/services/simulation.py): a problem is solved as it  *)
(* is and under each scenario, which changes it by a merge patch, with one *)
(* algorithm; then a bisection looks for the least value of one field with *)
(* which a metric meets a target.                                          *)
(*                                                                         *)
(* The bisection runs in a thread, and its caller waits for as long as     *)
(* Budget evaluations of full length take.  The wait for a thread and each *)
(* evaluation may take any time, so any of them may be the one that makes  *)
(* the caller give up; the thread goes on, or never begins if it was still *)
(* waited for.  Strategies with one answer are considered here.            *)
(***************************************************************************)
EXTENDS ThresholdSearch, Handlers

(* None is neither a strategy's name nor what is wrong with a scenario.    *)
ASSUME NamesAssumption ==
    /\ None \notin {"refused", "timed_out"}
    /\ \A type \in ProblemTypes : None \notin Range(Registered(type))

(* _solve_once: validation, selection, the strategy and the verification.  *)
SolutionBody(v, s) ==
    Answered([status |-> v.status, metrics |-> MetricsOf(v), algorithm |-> s, error |-> None])

VerifiedBody(p, a, s) ==
    IF Unverifiable(p, a) THEN Raised ELSE SolutionBody(Verified(p, a), s)

FirstVerified(p, answers, s) ==
    IF answers = {} THEN Raised ELSE VerifiedBody(p, CHOOSE a \in answers : TRUE, s)

SolveWith(p, s) ==
    IF Accepted(p) /\ Known(p, s) THEN FirstVerified(p, Answers(p, s), s) ELSE Refused

SolveOnce(p, algorithm) ==
    IF p = Invalid THEN Refused ELSE SolveWith(p, Chosen(p, algorithm))

(* All that the handler starts from is the request and the base's result.  *)
FixedAlgorithm == IF request.algorithm = None THEN log[1].algorithm ELSE request.algorithm

-----------------------------------------------------------------------------

(* The problem as it is: whatever goes wrong with it ends the request.     *)
BaseEnds(base) ==
    IF base.outcome = "answered" THEN Proceed("scenarios", <<base.body>>) ELSE Reply(base)

SolveBase ==
    /\ at = "base"
    /\ BaseEnds(SolveOnce(Problem, request.algorithm))
    /\ UNCHANGED searchVars

BaseTimesOut ==
    /\ at = "base"
    /\ Reply(TimedOut)
    /\ UNCHANGED searchVars

InvalidScenario(why) ==
    [status |-> "invalid_scenario", metrics |-> NoFields, algorithm |-> None, error |-> why]

(* _run_one_scenario: one that is refused is noted as such, and the rest   *)
(* goes on; an exception that no list of them names ends the request.      *)
NoteScenario(result) ==
    CASE result.outcome = "answered" -> Proceed("scenarios", Append(log, result.body))
      [] result.outcome = "raised" -> Reply(result)
      [] OTHER -> Proceed("scenarios", Append(log, InvalidScenario(result.outcome)))

(* Mutant: the algorithm is chosen anew for every scenario.                *)
SolveScenarioAfresh ==
    /\ at = "scenarios" /\ Len(log) <= Len(request.scenarios)
    /\ NoteScenario(SolveOnce(ApplyOverrides(request.problem, request.scenarios[Len(log)]),
                              request.algorithm))
    /\ UNCHANGED searchVars

SolveScenario ==
    /\ at = "scenarios" /\ Len(log) <= Len(request.scenarios)
    /\ NoteScenario(SolveOnce(ApplyOverrides(request.problem, request.scenarios[Len(log)]),
                              FixedAlgorithm))
    /\ UNCHANGED searchVars

ScenarioTimesOut ==
    /\ at = "scenarios" /\ Len(log) <= Len(request.scenarios)
    /\ ApplyOverrides(request.problem, request.scenarios[Len(log)]) # Invalid
    /\ NoteScenario(TimedOut)
    /\ UNCHANGED searchVars

-----------------------------------------------------------------------------
(* _run_sensitivity.                                                       *)

(* _evaluate: the metric with the field set to x, whatever the status.     *)
MetricIn(result, metric) ==
    IF result.outcome = "answered" /\ metric \in DOMAIN result.body.metrics
    THEN result.body.metrics[metric] ELSE Failed

Evaluation(doc, algorithm, spec, x) ==
    MetricIn(SolveOnce(ApplyOverrides(doc, SetPath(spec.path, Numeral(x))), algorithm), spec.metric)

SearchOf(doc, algorithm, spec) ==
    [low |-> spec.low, high |-> spec.high, target |-> spec.threshold, mode |-> spec.mode,
     metric |-> [x \in spec.low..spec.high |-> Evaluation(doc, algorithm, spec, x)]]

Outcome(sensitivity) == Answered([results |-> log, sensitivity |-> sensitivity])
NoSensitivity == [found |-> "nothing"]

WithoutSearch ==
    /\ at = "scenarios" /\ Len(log) > Len(request.scenarios)
    /\ request.sensitivity = None
    /\ Reply(Outcome(NoSensitivity))
    /\ UNCHANGED searchVars

StartSearch ==
    /\ at = "scenarios" /\ Len(log) > Len(request.scenarios)
    /\ request.sensitivity # None
    /\ Start(SearchOf(request.problem, FixedAlgorithm, request.sensitivity))
    /\ Proceed("search", log)

(* The thread, which also runs when nobody waits for it any more.          *)
EvaluateNext == Evaluate /\ UNCHANGED handlerVars

SearchReturns ==
    /\ at = "search" /\ stage \in {"found", "none"}
    /\ Reply(Outcome([found |-> stage, threshold |-> IF stage = "found" THEN lo ELSE None,
                      evaluated |-> [x \in evaluated |-> search.metric[x]]]))
    /\ UNCHANGED searchVars

(* An evaluation that raised leaves out the analysis only.                 *)
SearchFails ==
    /\ at = "search" /\ stage = "raised"
    /\ Reply(Outcome(NoSensitivity))
    /\ UNCHANGED searchVars

BitLength(n) == CHOOSE k \in 0..n : 2^k > n /\ \A j \in 0..n : j < k => 2^j <= n

(* Mutant: the budget is for halving the range only.                       *)
BudgetForHalving == Max({1, BitLength(search.high - search.low)})

(* How many evaluations of full length the caller waits for.               *)
Budget == Max({1, BitLength(search.high - search.low + 1)})

(* The budget runs out before the search has ended: it was late, since one *)
(* of its evaluations took longer than any may alone or no thread was free *)
(* for a while; or there were more evaluations than the budget is for.     *)
SearchTimesOut ==
    /\ at = "search" /\ Running
    /\ \E late \in {TRUE, Cardinality(evaluated) < Budget} :
           Reply(Outcome([found |-> "nothing", late |-> late]))
    /\ UNCHANGED searchVars

-----------------------------------------------------------------------------
(* Each scenario's result is what the one algorithm of the base gives for  *)
(* the base changed by that scenario alone, in the sense of RFC 7386 (but  *)
(* for nulls within what replaces a value); it is called invalid only if   *)
(* the changed problem is, or if it timed out, so a scenario that changes  *)
(* nothing has the base's own result.  Only an exception of a strategy or  *)
(* of a verification leaves the results out.                               *)
SameAlone(result, alone, retyped) ==
    /\ result.error = "refused" => retyped \/ alone = Refused
    /\ result.error = None => result.algorithm = log[1].algorithm /\ alone = Answered(result)

Retyped(patch) == "problem_type" \in DOMAIN patch.fields

ScenarioIsMerged(base, patch) == Retyped(patch) \/ IsMergePatch(base, patch, DeepMerge(base, patch))

ScenarioIsAlone(patch, result) ==
    LET changed == ModelValidate(DeepMerge(request.problem, patch))
    IN  /\ SameAlone(result, SolveOnce(changed, FixedAlgorithm), Retyped(patch))
        /\ patch = Object(NoFields) => result = log[1] \/ result.error = "timed_out"

ScenariosAreAlone ==
    request.kind = "simulate" =>
        \A i \in DOMAIN request.scenarios : i < Len(log) => ScenarioIsAlone(request.scenarios[i], log[i + 1])

ScenariosAreComparable ==
    /\ ScenariosAreAlone
    /\ request.kind = "simulate" =>
           \A i \in DOMAIN request.scenarios : i < Len(log) => ScenarioIsMerged(request.problem, request.scenarios[i])

(* The caller gives up on a search that had a thread at once and none of   *)
(* whose evaluations overran its time only if the number of values in the  *)
(* range is no power of two, and then one evaluation was missing: with the *)
(* end of the range, which is tried first, the bisection takes one         *)
(* evaluation more than the halvings.                                      *)
BudgetSuffices ==
    request.kind = "simulate" /\ at = "done" /\ reply.outcome = "answered" =>
        LET sensitivity == reply.body.sensitivity
            steps == search.high - search.low
        IN  "late" \in DOMAIN sensitivity /\ ~sensitivity.late =>
                /\ \A k \in 0..steps : steps + 1 # 2^k
                /\ Cardinality(evaluated) <= Budget + 1
=============================================================================
