------------------------------- MODULE ObjectIds -------------------------------
(***************************************************************************)
(* What the two modules of the sending side have in common: ObjectWriters, *)
(* where the calls of several tasks interleave, and ObjectEncoding, which  *)
(* has everything that is written.                                         *)
(***************************************************************************)
CONSTANTS Groups,      \* Group IDs
          Objects,     \* Object IDs
          MaxStreams,  \* bound: streams opened
          Nothing      \* None
=============================================================================
