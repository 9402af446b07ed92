----------------------------- MODULE MCRequests -----------------------------
(***************************************************************************)
(* Small instances of Requests.                                            *)
(***************************************************************************)
EXTENDS Requests, TLC

CONSTANTS s1, s2, u1, u2

SameTarget == [u \in Updates |-> s1]
=============================================================================
