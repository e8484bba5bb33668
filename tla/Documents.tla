------------------------------ MODULE Documents ------------------------------
(***************************************************************************)
(* OptimizationProblem as a document: the schemas of the six problem types *)
(* (app/domain/problems), which of its values are ids and of what, and the *)
(* base problems that the structuring workflow starts from.                *)
(*                                                                         *)
(* The data of a problem are an object with the lists of its catalogs and  *)
(* the values beside them.  An id is the catalog it is of and its number   *)
(* there.  What validation makes of a document is a problem as the         *)
(* strategies have it, whose ids are numbers; an id of another catalog     *)
(* than they look in is 0, which no catalog has.                           *)
(***************************************************************************)
EXTENDS Overrides, Solving

CONSTANT Invalid  \* a ValidationError

Numeral(n) == Value("number", n)
Listed(seq) == Value("list", seq)
Id(catalog, n) == Value("id", <<catalog, n>>)

Document(type, objectives, constraints, data) ==
    Object([problem_type |-> Value("text", type), objectives |-> Listed(objectives),
            constraints |-> Listed(constraints),
            data |-> Object(Over([problem_type |-> Value("text", type)], data))])

TypeOf(doc) == doc.fields.problem_type.value

ProblemTypes ==
    {"route_planning", "shift_scheduling", "network_design", "travel_planning",
     "project_scheduling", "logistics_planning"}

-----------------------------------------------------------------------------
(* The schemas: which kinds of value a field takes, and what it is unless  *)
(* given.                                                                  *)

Needs(kind) == [kinds |-> {kind}, default |-> Missing]
Takes(kinds, default) == [kinds |-> kinds, default |-> default]

Schema(type) ==
    CASE type = "route_planning" ->
            [nodes |-> Needs("list"), edges |-> Needs("list"), start |-> Needs("id"),
             goal |-> Needs("id"), allow_negative |-> Takes({"flag"}, Value("flag", FALSE))]
      [] type = "shift_scheduling" ->
            [staff |-> Needs("list"), slots |-> Needs("list"),
             max_weekly_hours |-> Takes({"number"}, Numeral(40)),
             max_consecutive_days |-> Takes({"number"}, Numeral(5))]
      [] type = "network_design" -> [nodes |-> Needs("list"), links |-> Needs("list")]
      [] type = "travel_planning" ->
            [places |-> Needs("list"), legs |-> Needs("list"), budget |-> Needs("number"),
             time_budget |-> Needs("number"), start |-> Takes({"id", "null"}, Null),
             preferences |-> Takes({"object"}, Object(NoFields))]
      [] type = "project_scheduling" ->
            [tasks |-> Needs("list"), dependencies |-> Takes({"list"}, Listed(<<>>)),
             resource_capacity |-> Takes({"number", "null"}, Null)]
      [] type = "logistics_planning" ->
            [depot_id |-> Needs("id"), nodes |-> Needs("list"), segments |-> Needs("list"),
             vehicles |-> Needs("list"), deliveries |-> Needs("list")]

(* A constraint that lacks what its kind needs is a generic one, which     *)
(* nothing checks: the union of the kinds takes the first that fits.       *)
Parsed(c) ==
    IF \/ c.kind \in {"forbidden", "required_inclusion"} /\ "items" \notin DOMAIN c
       \/ c.kind = "numeric_bound" /\ "field" \notin DOMAIN c
    THEN [c EXCEPT !.kind = "generic"] ELSE c

(* The data with their defaults, and what the validators of a type refuse. *)
DataOf(type, data) ==
    LET filled(schema) ==
            [f \in DOMAIN schema |->
                 IF Get(data, f).kind = "missing" THEN schema[f].default ELSE Get(data, f)]
    IN  filled(Schema(type))

InCatalog(id, catalog, d) == id[1] = catalog /\ id[2] \in DOMAIN d[catalog].value

DataHolds(type, d) ==
    CASE type = "route_planning" ->
            d.allow_negative.value \/ \A e \in Range(d.edges.value) : e.weight >= 0
      [] type = "travel_planning" ->
            /\ d.budget.value >= 0 /\ d.time_budget.value >= 0
            /\ d.start # Null => InCatalog(d.start.value, "places", d)
            /\ \A id \in DOMAIN d.preferences.fields : InCatalog(id, "places", d)
            /\ \A p \in Range(d.preferences.fields) : p.kind = "number"
      [] type = "logistics_planning" -> InCatalog(d.depot_id.value, "nodes", d)
      [] OTHER -> TRUE

WellFormed(doc) ==
    LET fits(value, field) ==
            \/ value.kind \in field.kinds
            \/ value.kind = "missing" /\ field.default.kind # "missing"
        holds(data, type, schema) ==
            /\ data.kind = "object"
            /\ Get(data, "problem_type").kind = "text" /\ Get(data, "problem_type").value = type
            /\ \A f \in DOMAIN schema : fits(Get(data, f), schema[f])
            /\ DataHolds(type, DataOf(type, data))
    IN  /\ Get(doc, "objectives").kind = "list"
        /\ Get(doc, "constraints").kind \in {"list", "missing"}
        /\ holds(Get(doc, "data"), TypeOf(doc), Schema(TypeOf(doc)))

-----------------------------------------------------------------------------
(* The problem that a document that is well formed describes.              *)

Number(id, catalog) == IF id[1] = catalog THEN id[2] ELSE 0

(* Where the strategies look for the items of a constraint.                *)
ItemCatalog(type, kind) ==
    CASE type = "route_planning" -> IF kind = "forbidden" THEN "edges" ELSE "nodes"
      [] type = "network_design" -> "links"
      [] type = "travel_planning" -> "places"
      [] type = "logistics_planning" -> "segments"
      [] type = "project_scheduling" -> "tasks"
      [] type = "shift_scheduling" -> "slots"

Numbered(type, c) ==
    IF c.kind \in {"forbidden", "required_inclusion"}
    THEN [c EXCEPT !.items = {Number(id, ItemCatalog(type, c.kind)) : id \in c.items}] ELSE c

ConstraintsOf(doc) ==
    LET given == Get(doc, "constraints")
    IN  IF given = Missing THEN <<>> ELSE [i \in DOMAIN given.value |-> Parsed(given.value[i])]

DataAs(type, d) ==
    CASE type = "route_planning" ->
            [nodes |-> Len(d.nodes.value), at |-> d.nodes.value, edges |-> d.edges.value,
             start |-> Number(d.start.value, "nodes"), goal |-> Number(d.goal.value, "nodes"),
             allowNegative |-> d.allow_negative.value]
      [] type = "shift_scheduling" ->
            [staff |-> d.staff.value, slots |-> d.slots.value,
             maxHours |-> d.max_weekly_hours.value, maxRun |-> d.max_consecutive_days.value]
      [] type = "network_design" -> [nodes |-> Len(d.nodes.value), links |-> d.links.value]
      [] type = "travel_planning" ->
            LET liked(x) == Get(d.preferences, <<"places", x>>)
                liking(x) == IF liked(x) = Missing THEN 1 ELSE liked(x).value
            IN  [places |-> [x \in DOMAIN d.places.value |->
                                 Over(d.places.value[x], [liking |-> liking(x)])],
                 legs |-> d.legs.value, budget |-> d.budget.value, time |-> d.time_budget.value,
                 start |-> IF d.start = Null THEN None ELSE Number(d.start.value, "places")]
      [] type = "project_scheduling" ->
            [tasks |-> d.tasks.value, dependencies |-> d.dependencies.value,
             capacity |-> IF d.resource_capacity = Null THEN None ELSE d.resource_capacity.value]
      [] type = "logistics_planning" ->
            [depot |-> Number(d.depot_id.value, "nodes"), nodes |-> Len(d.nodes.value),
             edges |-> d.segments.value, vehicles |-> d.vehicles.value, deliveries |-> d.deliveries.value]

(* OptimizationProblem.model_validate.                                     *)
ModelValidate(doc) ==
    LET type == TypeOf(doc)
        numbered(constraints) == [i \in DOMAIN constraints |-> Numbered(type, constraints[i])]
    IN  IF ~WellFormed(doc) THEN Invalid
        ELSE Over([type |-> type, objectives |-> doc.fields.objectives.value,
                     constraints |-> numbered(ConstraintsOf(doc))],
                    DataAs(type, DataOf(type, doc.fields.data)))

(* apply_overrides: refused if the patch names the problem type, or if the *)
(* result is no problem.                                                   *)
ApplyOverrides(doc, overrides) ==
    IF "problem_type" \in DOMAIN overrides.fields THEN Invalid ELSE ModelValidate(DeepMerge(doc, overrides))

-----------------------------------------------------------------------------
(* BASE_PROBLEMS.  Wages are in hundreds, money in travel is in 500s, and  *)
(* the amounts of travel and logistics in parts of which Whole make one.   *)

BaseData(type) ==
    LET nodes(n) == Listed([i \in 1..n |-> NoPlace])
        edge(a, b, w) == [source |-> a, target |-> b, weight |-> w, directed |-> FALSE]
        link(a, b, w) == [a |-> a, b |-> b, weight |-> w]
        staff(wage, slots) == [wage |-> wage, available |-> slots, skills |-> {}, daysOff |-> {}]
        slot(day) == [day |-> day, hours |-> 5, headcount |-> 1, skills |-> {}]
        place(value, cost, halves) == [value |-> value, cost |-> cost * Whole, time |-> halves]
        legs == [i \in 1..10 |-> [cost |-> Whole, time |-> 1,
                                  a |-> <<1, 1, 1, 1, 2, 2, 2, 3, 3, 4>>[i],
                                  b |-> <<2, 3, 4, 5, 3, 4, 5, 4, 5, 5>>[i]]]
        task(duration, resource) == [duration |-> duration, resource |-> resource]
        load(n, size) == [node |-> n, weight |-> size * Whole, volume |-> size * Whole]
    IN  CASE type = "route_planning" ->
                [nodes |-> nodes(5), start |-> Id("nodes", 1), goal |-> Id("nodes", 5),
                 allow_negative |-> Value("flag", FALSE),
                 edges |-> Listed(<<edge(1, 2, 2), edge(2, 3, 3), edge(2, 4, 1), edge(3, 5, 4), edge(4, 5, 2)>>)]
          [] type = "network_design" ->
                [nodes |-> nodes(5),
                 links |-> Listed(<<link(1, 2, 1), link(2, 3, 2), link(3, 4, 3), link(2, 5, 4),
                                    link(1, 3, 5), link(4, 5, 6), link(1, 5, 7)>>)]
          [] type = "shift_scheduling" ->
                [staff |-> Listed(<<staff(12, 1..4), staff(10, 1..4), staff(11, {1, 3})>>),
                 slots |-> Listed(<<slot(1), slot(1), slot(2), slot(2)>>),
                 max_weekly_hours |-> Numeral(40), max_consecutive_days |-> Numeral(5)]
          [] type = "travel_planning" ->
                [places |-> Listed(<<place(0, 0, 0), place(10, 0, 4), place(8, 3, 4), place(6, 0, 2),
                                     place(12, 6, 3)>>),
                 legs |-> Listed(legs), budget |-> Numeral(30 * Whole), time_budget |-> Numeral(16 * Whole),
                 start |-> Id("places", 1), preferences |-> Object(NoFields)]
          [] type = "project_scheduling" ->
                [tasks |-> Listed(<<task(3, 2), task(2, 1), task(4, 3), task(2, 1), task(1, 2)>>),
                 dependencies |-> Listed(<<<<1, 3>>, <<2, 4>>, <<3, 5>>, <<4, 5>>>>),
                 resource_capacity |-> Numeral(3)]
          [] type = "logistics_planning" ->
                [depot_id |-> Id("nodes", 1), nodes |-> nodes(4),
                 segments |-> Listed(<<edge(1, 2, 4), edge(1, 3, 3), edge(1, 4, 6), edge(2, 3, 2), edge(3, 4, 3)>>),
                 vehicles |-> Listed([v \in 1..2 |-> [weight |-> 10 * Whole, volume |-> 10 * Whole]]),
                 deliveries |-> Listed(<<load(2, 4), load(3, 5), load(4, 7)>>)]

Goal(sense, target, weight) == [sense |-> sense, target |-> target, weight |-> weight]

BaseObjectives(type) ==
    CASE type = "shift_scheduling" ->
            <<Goal("minimize", "labor_cost", 7), Goal("maximize", "day_off_satisfaction", 3)>>
      [] type = "travel_planning" -> <<Goal("maximize", "total_value", 1)>>
      [] type = "project_scheduling" -> <<Goal("minimize", "makespan", 10), Goal("minimize", "peak_resource", 1)>>
      [] type = "logistics_planning" -> <<Goal("minimize", "total_distance", 1)>>
      [] OTHER -> <<Goal("minimize", "total_weight", 1)>>

(* get_base_problem.                                                       *)
BaseProblem(type) ==
    Document(type, BaseObjectives(type),
             IF type = "shift_scheduling"
             THEN <<[kind |-> "staffing", severity |-> "hard", penalty |-> 0]>> ELSE <<>>,
             BaseData(type))
=============================================================================
