--------------------------- MODULE MCRuntimeInput ---------------------------
(***************************************************************************)
(* Small instances of RuntimeInput.                                        *)
(***************************************************************************)
EXTENDS RuntimeInput, TLC

CONSTANTS control, object, request, d1, d2, d3, track1, track2

Opened == [s \in Streams |->
  CASE s = control -> "control" [] s = object -> "data" [] s = request -> "request"]

\* The stream type of SETUP takes two bytes, those of data streams one.
Lengths == [s \in Streams |-> IF s = control THEN 2 ELSE 1]

Tracks == [d \in Datagrams |-> IF d = d3 THEN track2 ELSE track1]
=============================================================================
