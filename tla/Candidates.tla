----------------------------- MODULE Candidates -----------------------------
(***************************************************************************)
(* What the problem types share: the constraints of a problem, the         *)
(* candidate solution a strategy returns, and the checkers of              *)
(* app/domain/constraints.                                                 *)
(*                                                                         *)
(* A problem is a record with its type, the sequence of its constraints    *)
(* and the data of its type.  A constraint has a kind, a severity and a    *)
(* penalty, and then the items it forbids or requires, or the metric it    *)
(* bounds, and how.  Ids are natural numbers in the order of the source's  *)
(* ids.  Numbers are integers: the sums of floats that the source compares *)
(* up to a tolerance are equal or differ by at least one.  Amounts that    *)
(* the source rounds are given in parts, Whole of which make one.          *)
(***************************************************************************)
EXTENDS Integers, SequencesExt

CONSTANTS
    None,  \* the source's None: no weight, no answer
    Whole  \* the parts that make a whole number

ASSUME NoneAssumption == None \notin Int \cup (Int \X Int)

ASSUME WholeAssumption == Whole \in Nat \ {0}

Forbid(items, severity) ==
    [kind |-> "forbidden", severity |-> severity, penalty |-> 1, items |-> items]

Require(items, severity) ==
    [kind |-> "required_inclusion", severity |-> severity, penalty |-> 1, items |-> items]

(* NumericBoundConstraint: a metric, an operator and a value.              *)
Operators == {"<=", ">=", "==", "<", ">"}

Bound(field, operator, value, severity) ==
    [kind |-> "numeric_bound", severity |-> severity, penalty |-> 1,
     field |-> field, operator |-> operator, value |-> value]

AtMost(field, value, severity) == Bound(field, "<=", value, severity)

(* _OPS.                                                                   *)
Holds(actual, operator, value) ==
    CASE operator = "<=" -> actual <= value
      [] operator = ">=" -> actual >= value
      [] operator = "==" -> actual = value
      [] operator = "<" -> actual < value
      [] operator = ">" -> actual > value

(* The constraints of a kind, and the items they name: strategies take all *)
(* of them for hard, whatever their severity.                              *)
OfKind(p, kind) == {c \in Range(p.constraints) : c.kind = kind}
ItemsOf(p, kind) == UNION {c.items : c \in OfKind(p, kind)}
ForbiddenItems(p) == ItemsOf(p, "forbidden")
RequiredItems(p) == ItemsOf(p, "required_inclusion")

(* The elements of a finite set in a strict order of them: the place of    *)
(* each is told by how many come before it.                                *)
Arranged(S, before(_, _)) ==
    [i \in 1..Cardinality(S) |-> CHOOSE x \in S : Cardinality({y \in S : before(y, x)}) = i - 1]

(* What a sequence has at these positions, in their order.                 *)
Picked(s, positions) ==
    LET at == Arranged(positions, <) IN [i \in DOMAIN at |-> s[at[i]]]

-----------------------------------------------------------------------------
(* Candidate solutions: an answer, or none with the reasons given for it.  *)

Infeasible(kinds) ==
    [status |-> "infeasible",
     violations |-> {[kind |-> k, severity |-> "hard"] : k \in kinds}]

Answer(assignments, metrics) ==
    [status |-> "valid", violations |-> {},
     assignments |-> assignments, metrics |-> metrics]

(* The violations that constraint c finds in a solution with these metrics *)
(* which visited the places `nodes` and used the connections `edges`, None *)
(* if its type has none; a metric that nobody computed bounds nothing.     *)
Breaks(c, metrics, nodes, edges) ==
    \/ c.kind = "forbidden" /\ edges # None /\ c.items \cap edges # {}
    \/ c.kind = "required_inclusion" /\ nodes # None /\ ~(c.items \subseteq nodes)
    \/ /\ c.kind = "numeric_bound"
       /\ c.field \in DOMAIN metrics
       /\ ~Holds(metrics[c.field], c.operator, c.value)

(* The metrics, with those in `more` over them.                            *)
Updated(metrics, more) ==
    [f \in DOMAIN more \cup DOMAIN metrics |-> IF f \in DOMAIN more THEN more[f] ELSE metrics[f]]

ViolationOf(c) == [kind |-> c.kind, severity |-> c.severity]
Hard(kind) == [kind |-> kind, severity |-> "hard"]
=============================================================================
