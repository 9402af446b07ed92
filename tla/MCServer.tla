------------------------------- MODULE MCServer -------------------------------
(***************************************************************************)
(* A small instance of Server: two sessions of one peer with the same key, *)
(* one after the other, and one more session of that peer.                 *)
(***************************************************************************)
EXTENDS Server, FiniteSets

CONSTANTS w1, w2, w3, peer

KeyOf == [w \in Sessions |-> <<peer, IF w = w3 THEN 4 ELSE 0>>]

\* One callback at a time is under way between its events: nothing in the state
\* relates two of them.
OneHandled == Cardinality({w \in Sessions : handling[w] # Nobody}) <= 1
=============================================================================
