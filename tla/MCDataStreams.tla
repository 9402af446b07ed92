--------------------------- MODULE MCDataStreams ---------------------------
(***************************************************************************)
(* Small instances of DataStreams.                                         *)
(***************************************************************************)
EXTENDS DataStreams, TLC

CONSTANTS s1, s2, s3, a, b

AllSubgroup == [s \in Streams |-> "subgroup"]
AliasOf == [s \in Streams |-> IF s = s2 THEN b ELSE a]
SameAlias == [s \in Streams |-> a]
WithFetch == [s \in Streams |-> IF s = s3 THEN "fetch" ELSE "subgroup"]
WithPadding == [s \in Streams |-> IF s = s3 THEN "padding" ELSE "subgroup"]
TwoObjects == [s \in Streams |-> IF s = s1 THEN 2 ELSE 1]
Graded == [s \in Streams |-> IF s = s1 THEN 2
                              ELSE IF Kind[s] = "padding" THEN 0 ELSE 1]
=============================================================================
