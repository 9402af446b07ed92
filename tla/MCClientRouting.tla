-------------------------- MODULE MCClientRouting --------------------------
(***************************************************************************)
(* Small instances of ClientRouting.  r1 and r2 subscribe to one Track and *)
(* are given one alias; r3 subscribes to another Track and is given that   *)
(* alias when the session has forgotten them; r4 is given the alias 0.     *)
(***************************************************************************)
EXTENDS ClientRouting, TLC

CONSTANTS r1, r2, r3, r4, f1, f2, p1, track1, track2, zero, alias1

Tracks == [r \in Subscribes |-> IF r \in {r1, r2} THEN track1 ELSE track2]
Given == [r \in Subscribes |-> IF r = r4 THEN zero ELSE alias1]
Written(live, held) == [s \in DataStreams |-> IF s = "live" THEN live ELSE held]
Graded == [r \in Readers |->
             CASE r = r1 -> Written(0, 1) [] r = r4 -> Written(1, 2) [] OTHER -> Written(1, 0)]
=============================================================================
