---------------------------- MODULE JobContract ----------------------------
(***************************************************************************)
(* What a client polling GET /jobs/{id} may observe of a job: the promise  *)
(* of models/job.py ("queued -> running -> succeeded/failed"), with the    *)
(* one exception the implementation needs, stated exactly: the status of a *)
(* job may be rewritten after it settled only once the job is disturbed,   *)
(* i.e. delivered to a worker again or enqueued although the request that  *)
(* submitted it reported a failure.                                        *)
(***************************************************************************)
CONSTANT Jobs

VARIABLES view,       \* [Jobs -> Statuses], the status column as polled
          disturbed   \* the jobs whose status may be rewritten

contractVars == <<view, disturbed>>

Terminal == {"succeeded", "failed"}
Statuses == {"none", "queued", "running"} \union Terminal

ContractTypeOK ==
    /\ view \in [Jobs -> Statuses]
    /\ disturbed \subseteq Jobs

ContractInit ==
    /\ view = [j \in Jobs |-> "none"]
    /\ disturbed = {}

Become(j, s) == view' = [view EXCEPT ![j] = s]

Submit(j) == view[j] = "none" /\ Become(j, "queued") /\ UNCHANGED disturbed

\* The broker refused the job: it settles without ever running.
Abort(j) == view[j] = "queued" /\ Become(j, "failed") /\ UNCHANGED disturbed

Start(j) == view[j] = "queued" /\ Become(j, "running") /\ UNCHANGED disturbed

Settle(j) ==
    /\ view[j] = "running"
    /\ \E s \in Terminal : Become(j, s)
    /\ UNCHANGED disturbed

Disturb(j) == disturbed' = disturbed \union {j} /\ UNCHANGED view

\* Even a disturbed job is never queued again, and never disappears.
Rewrite(j) ==
    /\ j \in disturbed
    /\ view[j] # "none"
    /\ \E s \in Terminal \union {"running"} : Become(j, s)
    /\ UNCHANGED disturbed

ContractNext ==
    \E j \in Jobs :
        Submit(j) \/ Abort(j) \/ Start(j) \/ Settle(j) \/ Disturb(j) \/ Rewrite(j)

ContractSpec == ContractInit /\ [][ContractNext]_contractVars
=============================================================================
