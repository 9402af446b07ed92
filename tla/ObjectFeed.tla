----------------------------- MODULE ObjectFeed -----------------------------
(***************************************************************************)
(* What objects() of a subscription or of a fetch promises, without saying *)
(* how objects find their way to it: the objects of one data stream come   *)
(* in the order of the stream, each at most once, and none of a request    *)
(* that is not among its sources; what the application was given is never  *)
(* taken back, and an iteration that has ended stays ended.                *)
(***************************************************************************)
EXTENDS Naturals, Sequences, SequencesExt

CONSTANT Requests   \* the requests whose objects the application iterates over

VARIABLES sources,  \* sources[r]: the requests whose objects may come to r
          seen,     \* seen[r]: the objects given to the iteration of r
          over      \* requests whose iteration has ended

feedVars == <<sources, seen, over>>

\* An object is <<request, data stream of the request, number in the stream>>.
InOrder(q) ==
  \A i, j \in 1 .. Len(q) :
    i < j /\ q[i][1] = q[j][1] /\ q[i][2] = q[j][2] => q[i][3] < q[j][3]

From(source, q) == \A i \in 1 .. Len(q) : q[i][1] \in source

Init ==
  /\ sources \in [Requests -> SUBSET Requests]
  /\ seen = [r \in Requests |-> <<>>]
  /\ over = {}

\* The sources are settled before the first object is given.
Give(r) == /\ seen[r] # <<>> => sources'[r] = sources[r]
           /\ IsPrefix(seen[r], seen'[r])
           /\ InOrder(seen'[r]) /\ From(sources'[r], seen'[r])
           /\ r \in over => seen'[r] = seen[r]

Next == over \subseteq over' /\ \A r \in Requests : Give(r)

Spec == Init /\ [][Next]_feedVars
=============================================================================
