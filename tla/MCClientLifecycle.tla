------------------------- MODULE MCClientLifecycle -------------------------
(***************************************************************************)
(* Small instances of ClientLifecycle.                                     *)
(***************************************************************************)
EXTENDS ClientLifecycle, TLC

CONSTANTS first, second, leave, quit

\* All properties except what follows calls that overlap.
NoOverlap == ~overlapped
=============================================================================
