--------------------------- MODULE StreamDelivery ---------------------------
(***************************************************************************)
(* What the receiving side of a session promises about the objects of a    *)
(* data stream, without saying how bytes are buffered, held or decoded:    *)
(*                                                                         *)
(*   - the objects of a stream are handed over in the order of the stream, *)
(*     each of them once and none of them skipped;                         *)
(*   - a stream that has ended, or that the receiver has decided to        *)
(*     discard, hands over nothing more.                                   *)
(*                                                                         *)
(* spoiled is the set of the streams for which the promise is void.  It    *)
(* only grows, so a stream outside it has kept the promise since its first *)
(* byte.                                                                   *)
(***************************************************************************)
EXTENDS Naturals, Sequences

CONSTANTS Streams,   \* the data streams the peer opens
          Objects    \* Objects[s]: how many objects the peer writes on s

VARIABLES delivered, \* delivered[s]: numbers of the objects handed over from s
          gone,      \* streams that have ended or are discarded
          spoiled    \* streams about which nothing is promised any more

absVars == <<delivered, gone, spoiled>>

InOrder(s, q) == Len(q) <= Objects[s] /\ \A i \in 1 .. Len(q) : q[i] = i

Init == /\ delivered = [s \in Streams |-> <<>>]
        /\ gone = {}
        /\ spoiled = {}

HandOver(s) == /\ Len(delivered[s]) <= Len(delivered'[s])
               /\ InOrder(s, delivered'[s])
               /\ s \in gone => delivered'[s] = delivered[s]

Next == /\ gone \subseteq gone'
        /\ spoiled \subseteq spoiled'
        /\ \A s \in Streams \ spoiled' : HandOver(s)

Spec == Init /\ [][Next]_absVars
=============================================================================
