----------------------------- MODULE MCResponder -----------------------------
(***************************************************************************)
(* A small instance of Responder: a subscription and a fetch of one peer,  *)
(* and two callbacks of the transport at a time.                           *)
(***************************************************************************)
EXTENDS Responder

CONSTANTS sub, fet, h1, h2

\* Two updates of the subscription: in one fragment, or handled at a time.
MostOf == [r \in Requests |-> IF r = sub THEN 2 ELSE 0]
=============================================================================
