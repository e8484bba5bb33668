----------------------------- MODULE Structuring -----------------------------
(***************************************************************************)
(* The structuring workflow (app/ai/graph): a text becomes a problem in    *)
(* five nodes, one after the other.  A language model classifies the text  *)
(* and extracts objectives, constraints and data from it; what it says is  *)
(* merged into the base problem of the type, and validated.                *)
(*                                                                         *)
(* Sayings has what the model may say of a problem of each type: the       *)
(* objectives, the constraints and the patches of the data.  A run of the  *)
(* workflow is one attempt of those in LlmRequests.                        *)
(***************************************************************************)
EXTENDS Handlers

CONSTANT Sayings

(* The schemas that the model fills in have the six types, and of the data *)
(* of a type only what is no list of the base problem; ids are what the    *)
(* preferences name.                                                       *)
ASSUME SayingsAssumption ==
    /\ DOMAIN Sayings \subseteq ProblemTypes
    /\ \A type \in DOMAIN Sayings : \A patch \in Sayings[type].patches : \A f \in DOMAIN patch :
           /\ f \in DOMAIN BaseData(type) /\ BaseData(type)[f].kind # "list"
           /\ \A id \in DOMAIN FieldsOf(patch[f]) : id = <<id[1], id[2]>>

(* catalog_ids: the ids of everything in the lists of a problem.           *)
CatalogIds(doc) ==
    LET data == doc.fields.data.fields
        catalogs == {f \in DOMAIN data : data[f].kind = "list"}
    IN  UNION {{<<f, n>> : n \in DOMAIN data[f].value} : f \in catalogs}

(* Mutant: only the ids in the data are looked up.                         *)
DataReferences(doc) ==
    LET data == doc.fields.data.fields
    IN  {data[f].value : f \in {f \in DOMAIN data : data[f].kind = "id"}}

(* ground_references: the ids in the items of constraints and in the data. *)
References(doc) ==
    LET listing == {c \in Range(ConstraintsOf(doc)) : c.kind \in {"forbidden", "required_inclusion"}}
        data == doc.fields.data.fields
    IN  (UNION {c.items : c \in listing})
        \cup {data[f].value : f \in {f \in DOMAIN data : data[f].kind = "id"}}

Grounded(doc, ids) == References(doc) \subseteq ids

(* build_overrides: no objectives leave those of the base, no constraints  *)
(* leave none.                                                             *)
BuildOverrides(state) ==
    LET objectives == IF state.objectives = <<>> THEN NoFields
                      ELSE [objectives |-> Listed(state.objectives)]
        data == IF DOMAIN state.patch = {} THEN NoFields ELSE [data |-> Object(state.patch)]
    IN  Object(Over([constraints |-> Listed(state.constraints)], Over(objectives, data)))

-----------------------------------------------------------------------------

(* classify_problem_type and load_base_problem.                            *)
Classify ==
    /\ at = "classify"
    /\ \E type \in DOMAIN Sayings : Proceed("extract", [type |-> type])

Base == BaseProblem(log.type)

ExtractObjectivesConstraints ==
    /\ at = "extract"
    /\ \E o \in Sayings[log.type].objectives, c \in Sayings[log.type].constraints :
           Proceed("data", Over(log, [objectives |-> o, constraints |-> c]))

(* A type that has nothing but lists is not asked about.                   *)
Asked(type) == type # "network_design"

ExtractDomainData ==
    /\ at = "data"
    /\ \E patch \in IF Asked(log.type) THEN Sayings[log.type].patches ELSE {NoFields} :
           Proceed("assemble", Over(log, [patch |-> patch]))

(* A call of the model fails, and with it the run.                         *)
LlmFails ==
    /\ at \in {"classify", "extract"} \/ (at = "data" /\ Asked(log.type))
    /\ Reply(Raised)

(* assemble_problem: what cannot be merged into a problem is refused.      *)
AssembleProblem ==
    /\ at = "assemble"
    /\ IF ApplyOverrides(Base, BuildOverrides(log)) = Invalid THEN Reply(Refused)
       ELSE Proceed("validate", Over(log, [doc |-> DeepMerge(Base, BuildOverrides(log))]))

(* Mutant: the references are looked up, the problem is not validated.     *)
ValidateReferences ==
    /\ at = "validate"
    /\ IF Grounded(log.doc, CatalogIds(Base))
       THEN Reply(Answered([problem |-> log.doc]))
       ELSE Reply(Refused)

(* validate_problem.                                                       *)
ValidateProblem ==
    /\ at = "validate"
    /\ IF Accepted(ModelValidate(log.doc)) /\ Grounded(log.doc, CatalogIds(Base))
       THEN Reply(Answered([problem |-> log.doc]))
       ELSE Reply(Refused)

-----------------------------------------------------------------------------
Structured == request.kind = "structure" /\ at = "done" /\ reply.outcome = "answered"

GroundedIn(doc, base, patch) ==
    LET data == doc.fields.data
        given == base.fields.data.fields
        lists == {f \in DOMAIN given : given[f].kind = "list"}
        ids == UNION {{<<f, n>> : n \in DOMAIN given[f].value} : f \in lists}
        listed == UNION {c.items : c \in {c \in Range(ConstraintsOf(doc)) :
                                             c.kind \in {"forbidden", "required_inclusion"}}}
    IN  /\ TypeOf(doc) = TypeOf(base)
        /\ \A f \in lists : Get(data, f) = given[f]
        /\ \A f \in DOMAIN given : f \in DOMAIN patch \/ Get(data, f) = given[f]
        /\ \A f \in DOMAIN data.fields : data.fields[f].kind = "id" => data.fields[f].value \in ids
        /\ DOMAIN FieldsOf(Get(data, "preferences")) \cup listed \subseteq ids
        /\ doc.fields.objectives.value # <<>>

(* Whatever the model says, an answer has the lists of its base problem as *)
(* they are there, only ids of these lists in its constraints and data, at *)
(* least one objective, and every other value of the base that the model   *)
(* did not mention.                                                        *)
StructuredIsGrounded == Structured => GroundedIn(reply.body.problem, Base, log.patch)

Solvable(p) ==
    /\ Accepted(p) /\ Known(p, Preferred(p))
    /\ \/ p.type = "travel_planning" /\ ~(RequiredItems(p) \subseteq Places(p))
       \/ \E a \in Answers(p, Preferred(p)) : ~Unverifiable(p, a)

(* An answer can be sent to be solved as it is, by the strategy preferred: *)
(* it is accepted, and there is an answer that can be verified; unless it  *)
(* requires something of a travel plan that is a leg, no place.            *)
StructuredIsSolvable == Structured => Solvable(ModelValidate(reply.body.problem))
=============================================================================
