------------------------------- MODULE Shifts -------------------------------
(***************************************************************************)
(* shift_scheduling (app/algorithms/scheduling): rosters that a greedy     *)
(* pass, a depth-first search, a search with a bound and a solver find.    *)
(*                                                                         *)
(* A problem has a sequence of staff, each with an hourly wage, skills,    *)
(* the slots they are available for and the days off they asked for; a     *)
(* sequence of slots, each with its day, its length in hours, a headcount  *)
(* (> 0) and the skills it needs; the hours of a week and the days in a    *)
(* row that one may work at most; and a sequence of objectives.  A roster  *)
(* gives slots the sequence of their staff.                                *)
(***************************************************************************)
EXTENDS Candidates

CONSTANT MaxNodes  \* _MAX_NODES: the nodes that the bounded search expands

ASSUME MaxNodesAssumption == MaxNodes \in Nat

Staff(p) == DOMAIN p.staff
Slots(p) == DOMAIN p.slots
Hours(p, l) == p.slots[l].hours

-----------------------------------------------------------------------------
(* eligible_staff: who is available and skilled, the cheapest first.       *)
IsEligible(p, l, s) ==
    /\ l \in p.staff[s].available
    /\ p.slots[l].skills \subseteq p.staff[s].skills

Eligible(p, l) ==
    LET cheaper(s, t) == \/ p.staff[s].wage < p.staff[t].wage
                         \/ p.staff[s].wage = p.staff[t].wage /\ s < t
    IN  Arranged({s \in Staff(p) : IsEligible(p, l, s)}, cheaper)

(* hours_by_staff and working_days_by_staff.                               *)
SlotsOf(p, roster, s) == {l \in DOMAIN roster \cap Slots(p) : s \in Range(roster[l])}
WeeklyHours(p, roster, s) == SumFunction([l \in SlotsOf(p, roster, s) |-> Hours(p, l)])
WorkingDays(p, roster, s) == {p.slots[l].day : l \in SlotsOf(p, roster, s)}

(* run_length_at: how many days in a row, with this one, include it.       *)
RunAt(days, day) ==
    Cardinality({d \in days \cup {day} :
                    \A x \in (d..day) \cup (day..d) : x \in days \cup {day}})

(* _longest_consecutive_run: from each day to the next, a run grows by one *)
(* or begins anew.                                                         *)
LongestRun(days) ==
    LET run[d \in days] == IF d - 1 \in days THEN run[d - 1] + 1 ELSE 1
    IN  Max({0} \cup Range(run))

(* What all searches ask of one more slot for s: hours and days in a row.  *)
Fits(p, roster, l, s) ==
    LET day == p.slots[l].day
    IN  /\ WeeklyHours(p, roster, s) + Hours(p, l) <= p.maxHours
        /\ RunAt(WorkingDays(p, roster, s), day) <= p.maxRun

-----------------------------------------------------------------------------
(* shift_metrics.  The shares and the variance are fractions: they, and    *)
(* the values of their bounds, are counted in units of one in Unit(p).     *)
Requests(p) == UNION {{<<s, d>> : d \in p.staff[s].daysOff} : s \in Staff(p)}
Unit(p) == Max({1, Len(p.staff)}) * Max({1, Len(p.staff)}) * Max({1, Cardinality(Requests(p))})

Wages(p, l, staff) == SumFunction([s \in staff |-> p.staff[s].wage * Hours(p, l)])

LaborCost(p, roster) ==
    SumFunction([l \in DOMAIN roster \cap Slots(p) |-> Wages(p, l, Range(roster[l]) \cap Staff(p))])

DayOffUnits(p, roster) ==
    LET kept == {r \in Requests(p) : r[2] \notin WorkingDays(p, roster, r[1])}
    IN  IF Requests(p) = {} THEN Unit(p)
        ELSE Cardinality(kept) * (Unit(p) \div Cardinality(Requests(p)))

(* hour_variance, of all staff and of whoever else a roster names; if it   *)
(* names others, rounded down to units.                                    *)
Crew(p, roster) == Staff(p) \cup UNION {Range(roster[l]) : l \in DOMAIN roster}

Variance(p, hours) ==
    LET n == Cardinality(DOMAIN hours)
        sum == SumFunction(hours)
        squares == SumFunction([s \in DOMAIN hours |-> hours[s] * hours[s]])
    IN  IF n = 0 THEN 0 ELSE ((n * squares - sum * sum) * Unit(p)) \div (n * n)

VarianceUnits(p, roster) ==
    Variance(p, [s \in Crew(p, roster) |-> WeeklyHours(p, roster, s)])

(* weighted_sum, in units: the smaller the better; an objective for what   *)
(* is no metric counts for nothing.                                        *)
InUnits(p, roster, target) ==
    CASE target = "labor_cost" -> LaborCost(p, roster) * Unit(p)
      [] target = "day_off_satisfaction" -> DayOffUnits(p, roster)
      [] target = "hour_variance" -> VarianceUnits(p, roster)
      [] OTHER -> 0

Weighed(o) == IF o.sense = "maximize" THEN -o.weight ELSE o.weight

Score(p, roster) ==
    FoldLeft(LAMBDA sum, o : sum + Weighed(o) * InUnits(p, roster, o.target), 0, p.objectives)

(* assignment_metrics.                                                     *)
ShiftMetrics(p, roster) ==
    [labor_cost |-> LaborCost(p, roster),
     day_off_satisfaction |-> DayOffUnits(p, roster),
     hour_variance |-> VarianceUnits(p, roster)]

-----------------------------------------------------------------------------
(* GreedyShiftStrategy: the slots with the fewest eligible staff first,    *)
(* each with the cheapest staff that fit, be it too few.                   *)
GreedyShift(p) ==
    LET harder(l, m) == \/ Len(Eligible(p, l)) < Len(Eligible(p, m))
                        \/ Len(Eligible(p, l)) = Len(Eligible(p, m)) /\ l < m
        pick(roster, l) ==
            LET fitting == SelectSeq(Eligible(p, l), LAMBDA s : Fits(p, roster, l, s))
            IN  Updated(roster, [m \in {l} |-> SubSeq(fitting, 1, Min({Len(fitting), p.slots[l].headcount}))])
        roster == FoldLeft(pick, <<>>, Arranged(Slots(p), harder))
    IN  {Answer(roster, ShiftMetrics(p, roster))}

(* combinations(eligible, headcount), in the order it yields them.         *)
Combinations(staff, k) ==
    LET picks == {Arranged(c, <) : c \in kSubset(k, DOMAIN staff)}
        before(c, d) == \E i \in 1..k : c[i] < d[i] /\ \A j \in 1..(i - 1) : c[j] = d[j]
        ordered == Arranged(picks, before)
    IN  [i \in DOMAIN ordered |-> [j \in 1..k |-> staff[ordered[i][j]]]]

(* Mutant of the bound below: what is maximized is left out.               *)
LowerBoundOfWages(p, roster, l) ==
    LET cheapest(m) == LET staff == Eligible(p, m)
                       IN  Wages(p, m, Range(SubSeq(staff, 1, Min({Len(staff), p.slots[m].headcount}))))
        labor == LaborCost(p, roster) + MapThenSumSet(cheapest, l..Len(p.slots))
        due(o) == IF o.target = "labor_cost" THEN o.weight * labor * Unit(p) ELSE 0
    IN  FoldLeft(LAMBDA sum, o : sum + due(o), 0, p.objectives)

(* _lower_bound: the wages so far and the cheapest for slots l and later;  *)
(* no objective that is maximized counts for more than its weight.         *)
LowerBound(p, roster, l) ==
    LET cheapest(m) == LET staff == Eligible(p, m)
                       IN  Wages(p, m, Range(SubSeq(staff, 1, Min({Len(staff), p.slots[m].headcount}))))
        labor == LaborCost(p, roster) + MapThenSumSet(cheapest, l..Len(p.slots))
        due(o) == IF o.target = "labor_cost" /\ o.sense = "minimize" THEN o.weight * labor * Unit(p)
                  ELSE IF o.sense = "maximize" THEN -(o.weight * Unit(p)) ELSE 0
    IN  FoldLeft(LAMBDA sum, o : sum + due(o), 0, p.objectives)

Undercuts(p, bound, best) == best = None \/ bound < Score(p, best)

(* _recurse, over the slots in the order of their ids, of the backtracking *)
(* search and of branch and bound.  `found` holds the best roster so far,  *)
(* the nodes expanded and whether there were too many of them.             *)
Rosters(p) == Seq(Seq(Staff(p)))
Searched(p) == [best : {None} \cup Rosters(p), ops : Nat, truncated : BOOLEAN]

Found(p, bounded) ==
    LET more(f) == [f EXCEPT !.ops = @ + 1]
        spent(f) == f.ops >= MaxNodes /\ bounded
        explore[roster \in Rosters(p), found \in Searched(p)] ==
            LET l == Len(roster) + 1
                next(f, combo) ==
                    IF spent(more(f)) THEN [more(f) EXCEPT !.truncated = TRUE]
                    ELSE IF \E s \in Range(combo) : ~Fits(p, roster, l, s) THEN more(f)
                    ELSE explore[Append(roster, combo), more(f)]
            IN  IF spent(found) THEN [found EXCEPT !.truncated = TRUE]
                ELSE IF l > Len(p.slots)
                THEN IF Undercuts(p, Score(p, roster), found.best) THEN [found EXCEPT !.best = roster] ELSE found
                ELSE IF bounded /\ ~Undercuts(p, LowerBound(p, roster, l), found.best) THEN more(found)
                ELSE FoldLeft(next, IF bounded THEN more(found) ELSE found,
                              Combinations(Eligible(p, l), p.slots[l].headcount))
    IN  explore[<<>>, [best |-> None, ops |-> 0, truncated |-> FALSE]]

BacktrackingShift(p) ==
    LET answer(roster) == IF roster = None THEN Infeasible({})
                          ELSE Answer(roster, ShiftMetrics(p, roster))
    IN  {answer(Found(p, FALSE).best)}

BranchAndBoundShift(p) ==
    LET answer(best, truncated) ==
            IF best = None THEN Updated(Infeasible({}), [metrics |-> truncated])
            ELSE Answer(best, Updated(truncated, ShiftMetrics(p, best)))
        outcome(found) ==
            answer(found.best, IF found.truncated THEN [f \in {"_truncated"} |-> 1] ELSE <<>>)
    IN  {outcome(Found(p, TRUE))}

-----------------------------------------------------------------------------
(* OrToolsCpSatShiftStrategy: any roster that is best by the solver's own  *)
(* objective, in which the spread of the hours stands for their variance   *)
(* and the weights are scaled to whole numbers.                            *)
CpSatScore(p, roster) ==
    LET weekly == {WeeklyHours(p, roster, s) : s \in Staff(p)}
        worked == {r \in Requests(p) : r[2] \in WorkingDays(p, roster, r[1])}
        due(o) ==
            CASE o.target = "labor_cost" /\ o.sense = "minimize" ->
                     1000 * o.weight * LaborCost(p, roster)
              [] o.target = "day_off_satisfaction" /\ o.sense = "maximize" /\ Requests(p) # {} ->
                     ((1000 * o.weight) \div Cardinality(Requests(p))) * Cardinality(worked)
              [] o.target = "hour_variance" /\ o.sense = "minimize" /\ weekly # {} ->
                     1000 * o.weight * (Max(weekly) - Min(weekly))
              [] OTHER -> 0
    IN  SumFunction([i \in DOMAIN p.objectives |-> due(p.objectives[i])])

CpSatShift(p) ==
    LET inOrder(l, staff) == SelectSeq(Eligible(p, l), LAMBDA s : s \in staff)
        choices(l) == {inOrder(l, c) : c \in kSubset(p.slots[l].headcount, Range(Eligible(p, l)))}
        days == {p.slots[l].day : l \in Slots(p)}
        keepsLimits(r) ==
            \A s \in Staff(p) :
                /\ WeeklyHours(p, r, s) <= p.maxHours
                /\ \A d \in days : LET window == d..(d + p.maxRun)
                                   IN  window \subseteq days => ~(window \subseteq WorkingDays(p, r, s))
        rosters == {r \in [Slots(p) -> UNION {choices(l) : l \in Slots(p)}] :
                       (\A l \in Slots(p) : r[l] \in choices(l)) /\ keepsLimits(r)}
        least == Min({CpSatScore(p, r) : r \in rosters})
    IN  IF rosters = {} THEN {Infeasible({})}
        ELSE {Answer(r, ShiftMetrics(p, r)) : r \in {r \in rosters : CpSatScore(p, r) = least}}

-----------------------------------------------------------------------------
(* Validation, and the verification of a roster.                           *)

ShiftIntegrity(p) == \A s \in Staff(p) : p.staff[s].available \subseteq Slots(p)

ShiftFeasible(p) ==
    \A l \in Slots(p) : /\ Len(Eligible(p, l)) >= p.slots[l].headcount
                        /\ Hours(p, l) <= p.maxHours

ShiftStructure(p, roster) ==
    LET named == UNION {Range(roster[l]) : l \in DOMAIN roster}
        right == /\ DOMAIN roster \subseteq Slots(p) /\ named \subseteq Staff(p)
                 /\ \A l \in DOMAIN roster : \A s \in Range(roster[l]) : IsEligible(p, l, s)
                 /\ \A s \in Staff(p) :
                        /\ WeeklyHours(p, roster, s) <= p.maxHours
                        /\ WorkingDays(p, roster, s) # {} =>
                               LongestRun(WorkingDays(p, roster, s)) <= p.maxRun
        onDayOff == \E r \in Requests(p) : r[2] \in WorkingDays(p, roster, r[1])
    IN  (IF right THEN {} ELSE {Hard("shift_structure")})
        \cup IF onDayOff THEN {[kind |-> "respect_days_off", severity |-> "soft"]} ELSE {}

(* check_staffing.                                                         *)
Staffed(p, roster) ==
    \A l \in Slots(p) :
        p.slots[l].headcount = IF l \in DOMAIN roster THEN Cardinality(Range(roster[l])) ELSE 0
=============================================================================
