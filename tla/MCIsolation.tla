---------------------------- MODULE MCIsolation ----------------------------
(***************************************************************************)
(* Instances of Isolation: two calls that compete for one place of the     *)
(* semaphore and for the threads of a small pool, in both modes.           *)
(***************************************************************************)
EXTENDS Isolation

CONSTANTS first, second

MCCalls == {first, second}
=============================================================================
