------------------------------ MODULE Projects ------------------------------
(***************************************************************************)
(* project_scheduling (app/algorithms/scheduling): topological order,      *)
(* critical path, and the priority list that respects a capacity.          *)
(*                                                                         *)
(* A project has a sequence of tasks, each with its duration (> 0) and the *)
(* resource it occupies, a sequence of dependencies <<pred, succ>> and a   *)
(* capacity, None when resources are not limited.  Durations, and the      *)
(* times that strategies compute with, are in whole units; a solution's    *)
(* times are floats, given in parts of a unit.                             *)
(***************************************************************************)
EXTENDS Candidates

Tasks(p) == DOMAIN p.tasks
Duration(p, t) == p.tasks[t].duration
Predecessors(p, t) == {d[1] : d \in {d \in Range(p.dependencies) : d[2] = t}}
Successors(p, t) == {d[2] : d \in {d \in Range(p.dependencies) : d[1] = t}}

Highest(default, values) == Max({default} \cup values)

-----------------------------------------------------------------------------
(* topological_sort: of the tasks whose predecessors are out, the least    *)
(* comes out next; what never comes out lies on or behind a cycle.         *)
TopologicalOrder(p) ==
    LET from[order \in Seq(Tasks(p))] ==
            LET ready == {t \in Tasks(p) \ Range(order) : Predecessors(p, t) \subseteq Range(order)}
            IN  IF ready = {} THEN order ELSE from[Append(order, Min(ready))]
    IN  from[<<>>]

HasCycle(p) == Len(TopologicalOrder(p)) # Len(p.tasks)

(* critical_chain: from the least critical task that starts at 0, along    *)
(* the least critical successor that starts when the task before it ends.  *)
ChainFrom(p, critical, start, head) ==
    LET from[t \in Tasks(p)] ==
            LET next == {s \in Successors(p, t) \cap critical : start[t] + Duration(p, t) = start[s]}
            IN  <<t>> \o (IF next = {} THEN <<>> ELSE from[Min(next)])
    IN  from[head]

(* cpm: the earliest starts forwards along an order, the latest backwards  *)
(* from the makespan; slack is the difference.                             *)
Earliest(p, order) ==
    FoldLeft(LAMBDA es, t : [es EXCEPT ![t] =
                 Highest(0, {es[q] + Duration(p, q) : q \in Predecessors(p, t)})],
             [t \in Tasks(p) |-> 0], order)

Makespan(p, earliest) == Highest(0, {earliest[t] + Duration(p, t) : t \in Tasks(p)})

Latest(p, order, makespan) ==
    FoldLeft(LAMBDA ls, t : [ls EXCEPT ![t] =
                 Min({makespan} \cup {ls[s] : s \in Successors(p, t)}) - Duration(p, t)],
             [t \in Tasks(p) |-> 0], Reverse(order))

CriticalChain(p, earliest, critical) ==
    LET heads == {t \in critical : earliest[t] = 0}
    IN  IF heads = {} THEN <<>> ELSE ChainFrom(p, critical, earliest, Min(heads))

CpmFrom(p, order, earliest, latest) ==
    [order |-> order, earliest |-> earliest, latest |-> latest,
     slack |-> [t \in Tasks(p) |-> latest[t] - earliest[t]],
     critical |-> CriticalChain(p, earliest, {t \in Tasks(p) : latest[t] = earliest[t]})]

CpmAlong(p, order) ==
    LET from(earliest) == CpmFrom(p, order, earliest, Latest(p, order, Makespan(p, earliest)))
    IN  from(Earliest(p, order))

Cpm(p) == CpmAlong(p, TopologicalOrder(p))

-----------------------------------------------------------------------------
(* range_add: a difference array of `size` cells, then its running sum.    *)
RangeAdd(size, updates) ==
    LET l(u) == Max({u.left, 0})
        r(u) == Min({u.right, size})
        change(i, u) == IF l(u) >= r(u) THEN 0 ELSE IF i = l(u) THEN u.delta ELSE IF i = r(u) THEN -u.delta ELSE 0
        diff == [i \in 0..size |-> SumFunction([k \in DOMAIN updates |-> change(i, updates[k])])]
    IN  [i \in 0..(size - 1) |-> SumFunctionOnSet(diff, 0..i)]

(* int: towards zero.                                                      *)
Trunc(time) == IF time >= 0 THEN time \div Whole ELSE -((-time) \div Whole)

(* resource_profile and its peak, for a sequence of scheduled tasks: of    *)
(* the units of time, each task occupies those between its start and its   *)
(* finish with their fractions cut off.                                    *)
PeakResource(p, schedule) ==
    LET horizon == Trunc(Highest(0, {s.finish : s \in Range(schedule)}))
        demand(s) == IF s.task \in Tasks(p) THEN p.tasks[s.task].resource ELSE 0
        updates == [i \in DOMAIN schedule |->
                        [left |-> Trunc(schedule[i].start), right |-> Trunc(schedule[i].finish),
                         delta |-> demand(schedule[i])]]
        profile == RangeAdd(horizon, updates)
    IN  Highest(0, Range(profile))

(* project_solution.                                                       *)
ScheduleAnswer(p, cpm, schedule, makespan) ==
    Answer([order |-> cpm.order, schedule |-> schedule, critical |-> cpm.critical,
            makespan |-> makespan],
           [makespan |-> makespan, peak_resource |-> PeakResource(p, schedule)])

ProjectAnswer(p, starts, cpm) ==
    LET entry(t) == [task |-> t, start |-> Whole * starts[t],
                     finish |-> Whole * (starts[t] + Duration(p, t)), slack |-> Whole * cpm.slack[t]]
    IN  ScheduleAnswer(p, cpm, [t \in Tasks(p) |-> entry(t)], Whole * Makespan(p, starts))

CpmAnswer(p, cpm) == ProjectAnswer(p, cpm.earliest, cpm)

(* CpmScheduleStrategy: every task at its earliest start, whatever the     *)
(* capacity.                                                               *)
CpmSchedule(p) ==
    IF HasCycle(p) THEN {Infeasible({})}
    ELSE {CpmAnswer(p, Cpm(p))}

(* Mutant: room is looked for at the start of the task only.               *)
PlaceAtStart(p, starts, t) ==
    LET ends(u) == starts[u] + Duration(p, u)
        ready == Highest(0, {ends(u) : u \in Predecessors(p, t)})
        usage(x) == MapThenSumSet(LAMBDA u : p.tasks[u].resource,
                                  {u \in DOMAIN starts : starts[u] <= x /\ x < ends(u)})
        last == Highest(ready, {ends(u) : u \in DOMAIN starts})
    IN  IF p.capacity = None THEN ready
        ELSE Min({s \in ready..last : usage(s) + p.tasks[t].resource <= p.capacity})

(* PriorityListScheduleStrategy: by latest start, each task at the first   *)
(* time from which there is room for it, once its predecessors have ended. *)
Place(p, starts, t) ==
    LET ends(u) == starts[u] + Duration(p, u)
        ready == Highest(0, {ends(u) : u \in Predecessors(p, t)})
        usage(x) == MapThenSumSet(LAMBDA u : p.tasks[u].resource,
                                  {u \in DOMAIN starts : starts[u] <= x /\ x < ends(u)})
        fits(s) == \A x \in s..(s + Duration(p, t) - 1) :
                        usage(x) + p.tasks[t].resource <= p.capacity
        last == Highest(ready, {ends(u) : u \in DOMAIN starts})
    IN  IF p.capacity = None \/ p.tasks[t].resource = 0 THEN ready
        ELSE Min({s \in ready..last : fits(s)})

PriorityStarts(p, latest) ==
    LET before(t, u) == latest[t] < latest[u] \/ (latest[t] = latest[u] /\ t < u)
        placed(starts, t) == LET start == Place(p, starts, t) IN Updated(starts, [u \in {t} |-> start])
    IN  FoldLeft(placed, <<>>, Arranged(Tasks(p), before))

PriorityAnswer(p, cpm) == ProjectAnswer(p, PriorityStarts(p, cpm.latest), cpm)

PriorityList(p) == IF HasCycle(p) THEN {Infeasible({})} ELSE {PriorityAnswer(p, Cpm(p))}

(* OrToolsCpSatProjectStrategy: any schedule of least makespan that keeps  *)
(* the dependencies and the capacity; order and slack are the handwritten  *)
(* ones.                                                                   *)
CpSatSchedule(p) ==
    LET horizon == SumFunction([t \in Tasks(p) |-> Duration(p, t)])
        usage(s, x) == MapThenSumSet(LAMBDA t : p.tasks[t].resource,
                                     {t \in Tasks(p) : s[t] <= x /\ x < s[t] + Duration(p, t)})
        ordered == {s \in [Tasks(p) -> 0..horizon] :
                       \A d \in Range(p.dependencies) : s[d[2]] >= s[d[1]] + Duration(p, d[1])}
        feasible == {s \in ordered :
                        p.capacity = None \/ \A x \in 0..horizon : usage(s, x) <= p.capacity}
        makespan(s) == Max({s[t] + Duration(p, t) : t \in Tasks(p)})
        least == Min({makespan(s) : s \in feasible})
    IN  IF HasCycle(p) \/ feasible = {} THEN {Infeasible({})}
        ELSE {ProjectAnswer(p, s, Cpm(p)) : s \in {s \in feasible : makespan(s) = least}}

(* NetworkxCpmStrategy: the critical path along the topological order of   *)
(* networkx, which may be any.                                             *)
NetworkxCpm(p) ==
    LET orders == {o \in SetToSeqs(Tasks(p)) :
                      \A i, j \in DOMAIN o : o[i] \in Predecessors(p, o[j]) => i < j}
    IN  IF orders = {} THEN {Infeasible({})}
        ELSE {CpmAnswer(p, CpmAlong(p, o)) : o \in orders}

-----------------------------------------------------------------------------
(* Validation, and the verification of a schedule with its resources.      *)

ProjectIntegrity(p) == p.tasks # <<>>

ProjectFeasible(p) ==
    /\ p.capacity # None => \A t \in Tasks(p) : p.tasks[t].resource <= p.capacity
    /\ ~HasCycle(p)

ProjectStructure(p, a) ==
    LET scheduled == {s.task : s \in Range(a.schedule)}
        entry(t) == a.schedule[SelectLastInSeq(a.schedule, LAMBDA s : s.task = t)]
        right == /\ Range(a.order) = Tasks(p) /\ Len(a.order) = Len(p.tasks)
                 /\ scheduled = Tasks(p) /\ Len(a.schedule) = Len(p.tasks)
                 /\ \A s \in Range(a.schedule) : s.finish = s.start + Whole * Duration(p, s.task)
                 /\ \A d \in Range(p.dependencies) : entry(d[2]).start >= entry(d[1]).finish
                 /\ \A t \in Range(a.critical) \cap scheduled : entry(t).slack = 0
                 /\ a.schedule # <<>> => a.makespan = Max({s.finish : s \in Range(a.schedule)})
    IN  (IF right THEN {} ELSE {Hard("project_structure")})
        \cup IF p.capacity # None /\ PeakResource(p, a.schedule) > p.capacity
             THEN {Hard("project_resource")} ELSE {}
=============================================================================
