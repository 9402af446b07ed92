--------------------------- MODULE MCObjectWriters ---------------------------
(***************************************************************************)
(* A small instance of ObjectWriters.                                      *)
(***************************************************************************)
EXTENDS ObjectWriters, TLC

CONSTANTS t1, t2, r1, f1, f2, plain, properties

Symmetry == Permutations(Tasks)

Serving(r) == \/ \E s \in 1 .. opened : header[s].request = r
              \/ \E t \in Tasks : task[t].request = r

\* The tasks serve one request of the three, and a fetch on one stream: nothing in the
\* state relates the streams of two requests, or two streams of a fetch.
OneRequest ==
  /\ \A r, q \in Subscriptions \cup Fetches : Serving(r) /\ Serving(q) => r = q
  /\ (\E r \in Fetches : Serving(r)) =>
       opened + Cardinality({t \in Tasks : task[t].at = "opening"}) <= 1
=============================================================================
