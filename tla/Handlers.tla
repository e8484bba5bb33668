------------------------------ MODULE Handlers ------------------------------
(***************************************************************************)
(* What the handlers of requests share that solve a problem several times  *)
(* or ask a language model about it: each takes a request, goes from step  *)
(* to step, gathers what its calls give, and replies once.                 *)
(*                                                                         *)
(* A request has its kind and the problem as the document that model_dump  *)
(* makes of it, where every field has a value.                             *)
(***************************************************************************)
EXTENDS Documents

VARIABLES
    request,  \* the request that is handled
    at,       \* the next step of its handler
    log,      \* what the calls made so far have given
    reply     \* how it ended, None before that

handlerVars == <<request, at, log, reply>>

(* How a call ends: with what it is for, with an error that says what was  *)
(* wrong with the request, with another exception, or not in time.         *)
Refused == [outcome |-> "refused"]
Raised == [outcome |-> "raised"]
TimedOut == [outcome |-> "timed_out"]
Answered(body) == [outcome |-> "answered", body |-> body]

Reply(r) ==
    /\ reply' = r /\ at' = "done"
    /\ UNCHANGED <<request, log>>

Proceed(step, entries) ==
    /\ at' = step /\ log' = entries
    /\ UNCHANGED <<request, reply>>

Problem == ModelValidate(request.problem)

-----------------------------------------------------------------------------
(* ProblemValidationService.validate, and find_strategy by a name.         *)
Accepted(p) == Integrity(p) /\ Feasible(p)
Known(p, algorithm) == algorithm \in Range(Registered(p.type))

Chosen(p, algorithm) == IF algorithm = None THEN Preferred(p) ELSE algorithm

MetricsOf(s) == IF s.status = "infeasible" THEN NoFields ELSE s.metrics
=============================================================================
