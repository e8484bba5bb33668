---------------------------- MODULE Orchestration ----------------------------
(***************************************************************************)
(* The handlers that solve a problem more than once or ask a language      *)
(* model about one: simulation, benchmark, comparison, structuring and     *)
(* recommendation.  Received is the set of the requests considered; each   *)
(* is handled on its own, for the handlers share nothing that they change  *)
(* but the tracing of a benchmark's measurements: for these a request      *)
(* stands for several, and has the mode they are isolated in.              *)
(***************************************************************************)
EXTENDS Simulation, Trials, Structuring, Recommendation, Measurement

CONSTANT Received

Kinds == {"simulate", "benchmark", "compare", "structure", "recommend", "measure"}

(* What the schemas of the requests see to: a problem is one of a type, an *)
(* object once it is dumped, with data whose preferences are numbers,      *)
(* scenarios are a list of objects, the bounds of a sensitivity search are *)
(* integers, and the ranking that a model returns is a list of names.      *)
ASSUME ReceivedAssumption ==
    \A r \in Received :
        /\ r.kind \in Kinds
        /\ r.kind \notin {"structure", "measure"} =>
               TypeOf(r.problem) \in ProblemTypes /\ ModelValidate(r.problem) # Invalid
        /\ r.kind = "simulate" =>
               /\ r.problem = Object([f \in DOMAIN r.problem.fields |-> r.problem.fields[f]])
               /\ ThreeDeep(r.problem)
               /\ r.scenarios \in Seq(Range(r.scenarios))
               /\ \A patch \in Range(r.scenarios) : patch.kind = "object"
        /\ r.kind = "simulate" /\ r.sensitivity # None =>
               r.sensitivity.low \in Int /\ r.sensitivity.high \in Int
        /\ r.kind = "recommend" => r.rankings \subseteq Seq(STRING)

vars == <<handlerVars, searchVars, meterVars>>

others == <<searchVars, meterVars>>

FirstStep(kind) ==
    CASE kind = "simulate" -> "base"
      [] kind = "benchmark" -> "benchmark"
      [] kind = "compare" -> "compare"
      [] kind = "structure" -> "classify"
      [] kind = "recommend" -> "recommend"
      [] kind = "measure" -> "measurements"

Init ==
    /\ request \in Received
    /\ at = FirstStep(request.kind)
    /\ log = <<>>
    /\ reply = None
    /\ SearchInit
    /\ MeterInit(IF request.kind = "measure" THEN request.mode ELSE "off")

Next ==
    \/ SolveBase /\ UNCHANGED meterVars
    \/ BaseTimesOut /\ UNCHANGED meterVars
    \/ SolveScenario /\ UNCHANGED meterVars
    \/ ScenarioTimesOut /\ UNCHANGED meterVars
    \/ WithoutSearch /\ UNCHANGED meterVars
    \/ StartSearch /\ UNCHANGED meterVars
    \/ EvaluateNext /\ UNCHANGED meterVars
    \/ SearchReturns /\ UNCHANGED meterVars
    \/ SearchFails /\ UNCHANGED meterVars
    \/ SearchTimesOut /\ UNCHANGED meterVars
    \/ BeginBenchmark /\ UNCHANGED others
    \/ MeasureNext /\ UNCHANGED others
    \/ MeasureTimesOut /\ UNCHANGED others
    \/ FinishBenchmark /\ UNCHANGED others
    \/ BeginComparison /\ UNCHANGED others
    \/ RunOnce /\ UNCHANGED others
    \/ FinishComparison /\ UNCHANGED others
    \/ Classify /\ UNCHANGED others
    \/ ExtractObjectivesConstraints /\ UNCHANGED others
    \/ ExtractDomainData /\ UNCHANGED others
    \/ LlmFails /\ UNCHANGED others
    \/ AssembleProblem /\ UNCHANGED others
    \/ ValidateProblem /\ UNCHANGED others
    \/ InvokeLlm /\ UNCHANGED others
    \/ RecommendByRule /\ UNCHANGED others
    \/ RecommendRanked /\ UNCHANGED others
    \/ MeasurementNext /\ UNCHANGED <<handlerVars, searchVars>>

Spec == Init /\ [][Next]_vars
=============================================================================
