--------------------------- MODULE ThresholdSearch ---------------------------
(***************************************************************************)
(* find_threshold (app/algorithms/optimization/threshold_search.py): the   *)
(* bisection for the least parameter of a range that meets a target, where *)
(* an evaluation is a whole solve of a changed problem and may raise.      *)
(*                                                                         *)
(* A search has its range low..high, its target and mode, and the metric   *)
(* as a function of the parameter, Failed where its evaluation raises.     *)
(* Searches is the set of those considered.  Every evaluation is a step,   *)
(* for the search runs in a thread that its caller may give up on.         *)
(***************************************************************************)
EXTENDS Integers

CONSTANTS Failed, Searches

ASSUME FailedAssumption == Failed \notin Int

IsSearch(s) ==
    /\ s.low \in Int /\ s.high \in Int /\ s.target \in Int
    /\ s.mode \in {"at_most", "at_least"}
    /\ s.metric \in [s.low..s.high -> Int \cup {Failed}]

ASSUME SearchesAssumption == \A s \in Searches : IsSearch(s)

VARIABLES
    search,     \* the search that runs, or the idle one
    stage,      \* what it does next, or how it ended
    lo, hi,     \* the section that is left
    evaluated   \* the parameters whose metric the caller has noted

searchVars == <<search, stage, lo, hi, evaluated>>

Idle == [low |-> 0, high |-> 0, target |-> 0, mode |-> "at_most", metric |-> [p \in 0..0 |-> Failed]]

SearchInit ==
    /\ search = Idle
    /\ stage = "off"
    /\ lo = 0 /\ hi = 0
    /\ evaluated = {}

Satisfies(p) ==
    /\ search.metric[p] # Failed
    /\ IF search.mode = "at_most" THEN search.metric[p] <= search.target
                                  ELSE search.metric[p] >= search.target

Running == stage \in {"high", "middle"}

Middle == lo + (hi - lo) \div 2

(* The parameter that is being evaluated.                                  *)
Param == IF stage = "high" THEN search.high ELSE Middle

-----------------------------------------------------------------------------
(* The call; a range that is empty is a ValueError.                        *)
Start(s) ==
    /\ stage = "off"
    /\ search' = s
    /\ stage' = IF s.low > s.high THEN "raised" ELSE "high"
    /\ UNCHANGED <<lo, hi, evaluated>>

(* An exception of the evaluation leaves the search; nothing is noted.     *)
Raise ==
    /\ Running
    /\ search.metric[Param] = Failed
    /\ stage' = "raised"
    /\ UNCHANGED <<search, lo, hi, evaluated>>

Onwards(l, h) == IF l < h THEN "middle" ELSE "found"

(* Mutant: the end of the range is taken to satisfy.                       *)
TrustHigh ==
    /\ stage = "high"
    /\ search.metric[search.high] # Failed
    /\ evaluated' = {search.high}
    /\ lo' = search.low /\ hi' = search.high
    /\ stage' = Onwards(search.low, search.high)
    /\ UNCHANGED search

(* The end of the range first: if it does not satisfy, nothing is taken to.*)
TryHigh ==
    /\ stage = "high"
    /\ search.metric[search.high] # Failed
    /\ evaluated' = {search.high}
    /\ IF Satisfies(search.high)
       THEN /\ lo' = search.low /\ hi' = search.high
            /\ stage' = Onwards(search.low, search.high)
       ELSE stage' = "none" /\ UNCHANGED <<lo, hi>>
    /\ UNCHANGED search

(* Mutant: a middle that satisfies is left out of what is searched on.     *)
TryMiddleExclusive ==
    /\ stage = "middle"
    /\ search.metric[Middle] # Failed
    /\ evaluated' = evaluated \cup {Middle}
    /\ IF Satisfies(Middle) THEN hi' = (IF Middle > lo THEN Middle - 1 ELSE Middle) /\ lo' = lo
                            ELSE lo' = Middle + 1 /\ hi' = hi
    /\ stage' = Onwards(lo', hi')
    /\ UNCHANGED search

(* Then the middle of what is left: it stays in if it satisfies.           *)
TryMiddle ==
    /\ stage = "middle"
    /\ search.metric[Middle] # Failed
    /\ evaluated' = evaluated \cup {Middle}
    /\ IF Satisfies(Middle) THEN hi' = Middle /\ lo' = lo
                            ELSE lo' = Middle + 1 /\ hi' = hi
    /\ stage' = Onwards(lo', hi')
    /\ UNCHANGED search

Evaluate == Raise \/ TryHigh \/ TryMiddle

SearchNext == (\E s \in Searches : Start(s)) \/ Evaluate

SearchSpec == SearchInit /\ [][SearchNext]_searchVars

-----------------------------------------------------------------------------
(* The type of the search's state.                                         *)
SearchTypeOK ==
    /\ IsSearch(search)
    /\ stage \in {"off", "high", "middle", "found", "none", "raised"}
    /\ lo \in Int /\ hi \in Int
    /\ evaluated \subseteq search.low..search.high

(* Whatever the metric, a threshold that is found satisfies, and the value *)
(* before it was tried and does not, unless it begins the range; nothing   *)
(* that was tried below it satisfies and nothing above it fails.  If none  *)
(* is found, the end of the range was tried and does not satisfy.          *)
ThresholdIsBoundary ==
    /\ stage = "found" =>
           /\ lo \in evaluated /\ Satisfies(lo)
           /\ lo # search.low => lo - 1 \in evaluated
           /\ \A p \in evaluated : Satisfies(p) <=> p >= lo
    /\ stage = "none" => search.high \in evaluated /\ ~Satisfies(search.high)

(* The metric is defined and changes towards the target only.              *)
Monotone ==
    \A p, q \in search.low..search.high :
        p <= q /\ Satisfies(p) => Satisfies(q)

(* With a metric that keeps satisfying once it does, the threshold is the  *)
(* least value of the whole range that satisfies, and none is found only   *)
(* if there is none: what the docstring promises its caller.               *)
ThresholdIsLeast ==
    Monotone =>
        /\ stage = "found" =>
               /\ lo \in search.low..search.high /\ Satisfies(lo)
               /\ \A p \in search.low..search.high : Satisfies(p) => lo <= p
        /\ stage = "none" => \A p \in search.low..search.high : ~Satisfies(p)
=============================================================================
