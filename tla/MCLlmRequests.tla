--------------------------- MODULE MCLlmRequests ---------------------------
(***************************************************************************)
(* Instances of LlmRequests: two users, of whom one owns the one solution  *)
(* and the other is a superuser, and three requests over two connections.  *)
(***************************************************************************)
EXTENDS LlmRequests

CONSTANTS one, two, three, alice, admin, plan

MCRequests == {one, two, three}
MCUsers == {alice, admin}
MCSuperusers == {admin}
MCSolutions == {plan}
MCOwner == [s \in MCSolutions |-> alice]
=============================================================================
