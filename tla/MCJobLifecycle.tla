--------------------------- MODULE MCJobLifecycle ---------------------------
(***************************************************************************)
(* Instances of JobLifecycle for TLC: two submissions, of which one        *)
(* persists its solution, and a worker that runs one or both at once.      *)
(***************************************************************************)
EXTENDS JobLifecycle

CONSTANTS solveJob, simulateJob

MCJobs == {solveJob, simulateJob}
MCPersisted == {solveJob}
=============================================================================
