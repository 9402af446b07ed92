------------------------- MODULE ClientRoutingProofs -------------------------
(***************************************************************************)
(* Proofs about ClientRouting, for any requests, aliases and limits.       *)
(***************************************************************************)
EXTENDS ClientRouting, FiniteSetTheorems, SequenceTheorems,
        WellFoundedInduction, TLAPS

-----------------------------------------------------------------------------
(* Sequences as the tables use them.                                       *)

\* No element comes twice.
Unique(s) == \A i, j \in 1 .. Len(s) : s[i] = s[j] => i = j

LEMMA OfAppend ==
  ASSUME NEW S, NEW s \in Seq(S), NEW e \in S
  PROVE  /\ Append(s, e) \in Seq(S) /\ Len(Append(s, e)) = Len(s) + 1
         /\ \A x : Contains(Append(s, e), x) <=> Contains(s, x) \/ x = e
         /\ Unique(s) /\ ~Contains(s, e) => Unique(Append(s, e))
<1>1. /\ Append(s, e) \in Seq(S) /\ Len(Append(s, e)) = Len(s) + 1 /\ Len(s) \in Nat
      /\ \A i \in 1 .. Len(s) : Append(s, e)[i] = s[i]
      /\ Append(s, e)[Len(s) + 1] = e
  BY AppendProperties, LenProperties
<1>2. \A i \in 1 .. (Len(s) + 1) : i \in 1 .. Len(s) \/ i = Len(s) + 1
  BY <1>1
<1>3. 1 .. Len(s) \subseteq 1 .. (Len(s) + 1) /\ Len(s) + 1 \in 1 .. (Len(s) + 1)
  BY <1>1
<1>4. \A x : Contains(Append(s, e), x) <=> Contains(s, x) \/ x = e
  BY <1>1, <1>2, <1>3 DEF Contains
<1>5. Unique(s) /\ ~Contains(s, e) => Unique(Append(s, e))
  BY <1>1, <1>2 DEF Contains, Unique
<1> QED BY <1>1, <1>4, <1>5

LEMMA OfConcat ==
  ASSUME NEW S, NEW s \in Seq(S), NEW t \in Seq(S)
  PROVE  /\ s \o t \in Seq(S)
         /\ \A x : Contains(s \o t, x) <=> Contains(s, x) \/ Contains(t, x)
<1>1. /\ s \o t \in Seq(S) /\ Len(s \o t) = Len(s) + Len(t) /\ Len(s) \in Nat /\ Len(t) \in Nat
      /\ \A i \in 1 .. Len(s) + Len(t) :
           (s \o t)[i] = IF i <= Len(s) THEN s[i] ELSE t[i - Len(s)]
  BY ConcatProperties, LenProperties
<1>2. ASSUME NEW x, Contains(s \o t, x) PROVE Contains(s, x) \/ Contains(t, x)
  <2>1. PICK i \in 1 .. Len(s) + Len(t) : (s \o t)[i] = x
    BY <1>1, <1>2 DEF Contains
  <2>2. CASE i <= Len(s)
    BY <1>1, <2>1, <2>2 DEF Contains
  <2>3. CASE i > Len(s)
    <3>1. i - Len(s) \in 1 .. Len(t) /\ t[i - Len(s)] = x
      BY <1>1, <2>1, <2>3
    <3> QED BY <3>1 DEF Contains
  <2> QED BY <1>1, <2>2, <2>3
<1>3. ASSUME NEW x, Contains(s, x) PROVE Contains(s \o t, x)
  <2>1. PICK i \in 1 .. Len(s) : s[i] = x
    BY <1>3 DEF Contains
  <2>2. i \in 1 .. Len(s) + Len(t) /\ (s \o t)[i] = x
    BY <1>1, <2>1
  <2> QED BY <1>1, <2>2 DEF Contains
<1>4. ASSUME NEW x, Contains(t, x) PROVE Contains(s \o t, x)
  <2>1. PICK i \in 1 .. Len(t) : t[i] = x
    BY <1>4 DEF Contains
  <2>2. i + Len(s) \in 1 .. Len(s) + Len(t) /\ (s \o t)[i + Len(s)] = x
    BY <1>1, <2>1
  <2> QED BY <1>1, <2>2 DEF Contains
<1> QED BY <1>1, <1>2, <1>3, <1>4

LEMMA OfTail ==
  ASSUME NEW S, NEW s \in Seq(S), s # <<>>
  PROVE  /\ Head(s) \in S /\ Tail(s) \in Seq(S) /\ Len(Tail(s)) = Len(s) - 1
         /\ Len(s) \in Nat \ {0}
         /\ \A x : Contains(s, x) <=> Contains(Tail(s), x) \/ x = Head(s)
         /\ Unique(s) => Unique(Tail(s)) /\ ~Contains(Tail(s), Head(s))
<1>1. /\ Head(s) \in S /\ Tail(s) \in Seq(S) /\ Len(Tail(s)) = Len(s) - 1
      /\ \A i \in 1 .. Len(Tail(s)) : Tail(s)[i] = s[i + 1]
      /\ Len(s) \in Nat \ {0} /\ Head(s) = s[1]
  BY HeadTailProperties, EmptySeq, LenProperties
<1>2. \A i \in 1 .. Len(s) : i = 1 \/ (i - 1 \in 1 .. Len(Tail(s)) /\ Tail(s)[i - 1] = s[i])
  BY <1>1
<1>3. /\ 1 \in 1 .. Len(s)
      /\ \A i \in 1 .. Len(Tail(s)) : i + 1 \in 1 .. Len(s)
  BY <1>1
<1>4. \A x : Contains(s, x) <=> Contains(Tail(s), x) \/ x = Head(s)
  BY <1>1, <1>2, <1>3 DEF Contains
<1>5. Unique(s) => Unique(Tail(s)) /\ ~Contains(Tail(s), Head(s))
  BY <1>1, <1>3 DEF Contains, Unique
<1> QED BY <1>1, <1>4, <1>5

LEMMA OfOne ==
  ASSUME NEW S, NEW e \in S
  PROVE  <<e>> \in Seq(S) /\ \A x : Contains(<<e>>, x) <=> x = e
BY DEF Contains

LEMMA OfNone ==
  /\ \A S : <<>> \in Seq(S)
  /\ Len(<<>>) = 0 /\ Unique(<<>>) /\ \A x : ~Contains(<<>>, x)
BY EmptySeq DEF Contains, Unique

LEMMA Elements ==
  ASSUME NEW S, NEW s \in Seq(S)
  PROVE  /\ \A x : Contains(s, x) => x \in S
         /\ \A x : x \in ToSet(s) <=> Contains(s, x)
         /\ ToSet(s) \subseteq S
BY ElementOfSeq, LenProperties DEF Contains, ToSet

\* A sequence in which no element comes twice has as many as places.
LEMMA UniqueCounts ==
  ASSUME NEW S, NEW s \in Seq(S), Unique(s)
  PROVE  Cardinality(ToSet(s)) = Len(s)
<1>1. /\ Len(s) \in Nat /\ s \in [1 .. Len(s) -> S] /\ DOMAIN s = 1 .. Len(s)
  BY LenProperties
<1>2. s \in Bijection(1 .. Len(s), ToSet(s))
  BY <1>1 DEF Unique, ToSet, Bijection, Injection, IsInjective, Surjection
<1>3. ExistsBijection(1 .. Len(s), ToSet(s))
  BY <1>2 DEF ExistsBijection
<1>4. IsFiniteSet(1 .. Len(s)) /\ Cardinality(1 .. Len(s)) = Len(s)
  BY <1>1, FS_Interval
<1> QED BY <1>3, <1>4, FS_Bijection

LEMMA SmallestIsThere ==
  ASSUME NEW S \in SUBSET Nat, S # {}
  PROVE  \E k \in S : \A i \in S : k <= i
<1>1. PICK k \in S : \A i \in S : ~(<<i, k>> \in OpToRel(<, Nat))
  BY NatLessThanWellFounded, WFMin
<1>2. \A i \in S : i \in Nat /\ k \in Nat /\ ~(i < k)
  BY <1>1 DEF OpToRel
<1> QED BY <1>2

LEMMA OfRemoveFirst ==
  ASSUME NEW S, NEW s \in Seq(S), NEW e
  PROVE  /\ RemoveFirst(s, e) \in Seq(S) /\ Len(RemoveFirst(s, e)) <= Len(s)
         /\ \A x : Contains(s, x) /\ x # e => Contains(RemoveFirst(s, e), x)
         /\ Unique(s) => Unique(RemoveFirst(s, e))
<1>0. Len(s) \in Nat /\ \A i \in 1 .. Len(s) : s[i] \in S
  BY LenProperties, ElementOfSeq
<1>1. CASE ~Contains(s, e)
  BY <1>0, <1>1 DEF RemoveFirst, Contains
<1>2. CASE Contains(s, e)
  <2>1. PICK k \in 1 .. Len(s) : RemoveFirst(s, e) = SubSeq(s, 1, k - 1) \o SubSeq(s, k + 1, Len(s))
                                 /\ s[k] = e
    <3> DEFINE places == {i \in 1 .. Len(s) : s[i] = e}
    <3>1. places # {} /\ places \subseteq Nat
      BY <1>0, <1>2 DEF Contains
    <3>2. \E k \in places : \A i \in places : k <= i
      <4>1. PICK i \in places : TRUE
        BY <3>1
      <4> QED BY <3>1, SmallestIsThere
    <3>3. SelectInSeq(s, LAMBDA v : v = e) \in places
      BY <3>1, <3>2 DEF SelectInSeq, Min
    <3>4. RemoveFirst(s, e) = RemoveAt(s, SelectInSeq(s, LAMBDA v : v = e))
      BY <1>2 DEF RemoveFirst, Contains
    <3> QED BY <3>3, <3>4 DEF RemoveAt
  <2> DEFINE a == SubSeq(s, 1, k - 1)
             b == SubSeq(s, k + 1, Len(s))
             t == a \o b
  <2>2. /\ a \in Seq(S) /\ Len(a) = k - 1 /\ \A i \in 1 .. k - 1 : a[i] = s[i]
        /\ b \in Seq(S) /\ Len(b) = Len(s) - k /\ \A i \in 1 .. Len(s) - k : b[i] = s[k + i]
    <3>1. a \in Seq(S) /\ Len(a) = k - 1 /\ \A i \in 1 .. k - 1 : a[i] = s[i]
      <4>1. k - 1 \in Int /\ 1 \in Int /\ (\A i \in 1 .. k - 1 : s[i] \in S)
        BY <1>0
      <4> QED BY <4>1, SubSeqProperties
    <3>2. b \in Seq(S) /\ Len(b) = Len(s) - k /\ \A i \in 1 .. Len(s) - k : b[i] = s[k + i]
      <4>1. k + 1 \in Int /\ Len(s) \in Int /\ (\A i \in k + 1 .. Len(s) : s[i] \in S)
        BY <1>0
      <4>2. /\ b \in Seq(S) /\ Len(b) = IF k + 1 <= Len(s) THEN Len(s) - (k + 1) + 1 ELSE 0
            /\ \A i \in 1 .. Len(s) - (k + 1) + 1 : b[i] = s[(k + 1) + i - 1]
        BY <4>1, SubSeqProperties
      <4> QED BY <1>0, <4>2
    <3> QED BY <3>1, <3>2
  <2> HIDE DEF a, b
  <2>3. /\ t \in Seq(S) /\ Len(t) = Len(s) - 1
        /\ \A i \in 1 .. Len(s) - 1 : t[i] = IF i < k THEN s[i] ELSE s[i + 1]
    <3>1. /\ t \in Seq(S) /\ Len(t) = Len(a) + Len(b)
          /\ \A i \in 1 .. Len(a) + Len(b) : t[i] = IF i <= Len(a) THEN a[i] ELSE b[i - Len(a)]
      BY <2>2, ConcatProperties
    <3> QED BY <1>0, <2>2, <3>1
  <2> HIDE DEF t
  <2>4. ASSUME NEW x, Contains(s, x), x # e PROVE Contains(t, x)
    <3>1. PICK i \in 1 .. Len(s) : s[i] = x
      BY <2>4 DEF Contains
    <3>2. CASE i < k
      BY <1>0, <2>3, <3>1, <3>2 DEF Contains
    <3>3. CASE i > k
      <4>1. i - 1 \in 1 .. Len(t) /\ t[i - 1] = x
        BY <1>0, <2>3, <3>1, <3>3
      <4> QED BY <4>1 DEF Contains
    <3> QED BY <2>1, <2>4, <3>1, <3>2, <3>3
  <2>5. ASSUME Unique(s) PROVE Unique(t)
    <3>1. SUFFICES ASSUME NEW i \in 1 .. Len(t), NEW j \in 1 .. Len(t), t[i] = t[j] PROVE i = j
      BY DEF Unique
    <3>2. PICK m \in 1 .. Len(s) : m = IF i < k THEN i ELSE i + 1
      BY <1>0, <2>3
    <3>3. PICK n \in 1 .. Len(s) : n = IF j < k THEN j ELSE j + 1
      BY <1>0, <2>3
    <3>4. s[m] = s[n]
      BY <2>3, <3>1, <3>2, <3>3
    <3>5. m = n
      BY <2>5, <3>4 DEF Unique
    <3> QED BY <3>2, <3>3, <3>5
  <2>6. RemoveFirst(s, e) = t
    BY <2>1 DEF t, a, b
  <2> QED BY <1>0, <2>3, <2>4, <2>5, <2>6
<1> QED BY <1>1, <1>2

-----------------------------------------------------------------------------
(* The inductive invariant.                                                *)

\* What the session knows and what the application waits for agree: a call that
\* waits has been sent and not been answered, one that has its result has been
\* accepted, and a subscription is registered by the end of its call.
CallInv ==
  /\ \A r \in Readers : core[r] = "idle" => waiting[r] = "none"
  /\ \A r \in Subscribes :
       /\ waiting[r] = "waiting" => core[r] = "sent"
       /\ waiting[r] \in {"resolved", "returned"} => core[r] \in {"ok", "done", "ended", "gone"}
       /\ r \in subscriptions => waiting[r] \in {"returned", "raised"}

\* The buffers keep to their limits.
LimitsInv ==
  /\ \A a \in Aliases : Len(pending_objects[a]) <= MaxPendingObjects
  /\ Len(pending_terminations) <= MaxPendingTerminations
  /\ Unique(pending_terminations)

\* The end of a subscription is in its queue, or it is remembered for the call
\* that will look for it.
EndInv ==
  \A r \in Subscribes :
    /\ waiting[r] = "resolved" /\ core[r] \in {"done", "ended", "gone"}
         => Contains(pending_terminations, r) \/ r \in forgotten
    /\ waiting[r] = "returned" /\ core[r] \in {"done", "ended", "gone"}
         => Contains(queue[r], End) \/ r \in forgotten
    /\ waiting[r] = "returned" /\ core[r] = "ok" => r \in subscriptions

\* A fetch that lasts is registered and has all of its objects.
FetchInv ==
  \A r \in Fetches :
    /\ core[r] \in {"sent", "ok"} => r \in fetches
    /\ core[r] \in {"idle", "sent", "ok"} =>
         \A k \in 1 .. arrived[r]["live"] : Contains(queue[r], Object(r, "live", k))

\* An alias leads to a subscription whose call is over, and nothing is buffered
\* for it once the application has the Subscription.
AliasInv ==
  \A a \in Aliases :
    by_alias[a] # NoRequest =>
      /\ waiting[by_alias[a]] \in {"returned", "raised"}
      /\ waiting[by_alias[a]] = "returned" => pending_objects[a] = <<>>

IInv == TypeOK /\ CallInv /\ LimitsInv /\ EndInv /\ FetchInv /\ AliasInv

\* The session has accepted r: from now on it may report objects for r.
Answered(r) == core[r] \in {"ok", "done", "ended", "gone"}

\* x is an object that the session has reported for r.
CameFor(r, x) == \E s \in DataStreams : \E k \in 1 .. arrived[r][s] : x = Object(r, s, k)

\* The Subscription of r does not exist yet, and will not if its call is over.
Untouched(r) == waiting[r] # "returned" /\ r \notin subscriptions /\ queue[r] = <<>>

\* The Subscription has the alias the publisher gave or, made too late, the alias 0.
AliasRead(r) == track_alias[r] = TrackAlias[r] \/ (core[r] = "gone" /\ track_alias[r] = Zero)

\* Two live subscriptions of one alias subscribe to one Track and share it.
ShareInv ==
  \A q, r \in Subscribes :
    q # r /\ Live(q) /\ Live(r) /\ TrackAlias[q] = TrackAlias[r]
      => TrackOf[q] = TrackOf[r] /\ r \in sharing

\* Nothing is in the queue of a call that is not over, and nothing comes for a
\* request before its answer.
QueueOK(r) ==
  /\ waiting[r] \in {"none", "waiting", "resolved"} => queue[r] = <<>>
  /\ Untouched(r) \/ (Answered(r) /\ AliasRead(r))
  /\ Answered(r) \/ \A s \in DataStreams : arrived[r][s] = 0

QueueInv == \A r \in Subscribes : QueueOK(r)

\* An alias leads to a registered subscription that has this alias.
TableInv ==
  \A a \in Aliases :
    by_alias[a] # NoRequest => by_alias[a] \in subscriptions /\ track_alias[by_alias[a]] = a

\* Buffers, queues and what was discarded hold what came: a buffer what came for
\* its alias, each once, a queue what came for the alias of its subscription.
ContentInv ==
  /\ \A a \in Aliases :
       /\ Unique(pending_objects[a])
       /\ \A x : Contains(pending_objects[a], x)
                  => \E r \in Subscribes : TrackAlias[r] = a /\ CameFor(r, x)
  /\ \A q \in Subscribes : \A x :
       Contains(queue[q], x)
         => x = End \/ \E r \in Subscribes : TrackAlias[r] = track_alias[q] /\ CameFor(r, x)
  /\ \A x \in dropped : \E r \in Subscribes : CameFor(r, x)

\* An object is in exactly one place.
OnePlace(o) ==
  /\ \/ \E q \in Subscribes : Contains(queue[q], o)
     \/ \E a \in Aliases : Contains(pending_objects[a], o)
     \/ o \in dropped
  /\ \A q \in Subscribes : Contains(queue[q], o) =>
       /\ o \notin dropped
       /\ \A a \in Aliases : ~Contains(pending_objects[a], o)
       /\ \A p \in Subscribes : Contains(queue[p], o) => p = q
  /\ \A a \in Aliases : Contains(pending_objects[a], o) =>
       /\ o \notin dropped
       /\ \A b \in Aliases : Contains(pending_objects[b], o) => b = a

PlaceInv ==
  \A r \in Subscribes : \A s \in DataStreams : \A k \in 1 .. arrived[r][s] :
    OnePlace(Object(r, s, k))

HeldInv == ContentInv /\ PlaceInv

\* The alias of a subscription that lasts and shares it with none leads to it or to
\* a forgotten one, and so nothing is buffered for it.
LastInv ==
  \A r \in Subscribes \ sharing :
    waiting[r] = "returned" /\ core[r] \in {"ok", "done"} =>
      /\ pending_objects[TrackAlias[r]] = <<>>
      /\ by_alias[TrackAlias[r]] # NoRequest
      /\ by_alias[TrackAlias[r]] = r \/ core[by_alias[TrackAlias[r]]] = "gone"

\* The only other queue that gets objects of a subscription that shares its alias
\* with none is that of a forgotten subscription still in the tables.
StrayInv ==
  \A q, r \in Subscribes : \A s \in DataStreams : \A k \in 1 .. arrived[r][s] :
    q # r /\ r \notin sharing /\ core[r] # "gone" /\ Contains(queue[q], Object(r, s, k))
      => q \in subscriptions /\ core[q] = "gone"

RouteInv == ShareInv /\ QueueInv /\ TableInv
KeptInv == RouteInv /\ HeldInv /\ LastInv /\ StrayInv

-----------------------------------------------------------------------------
(* What the operators of the model give.                                   *)

USE RoutingAssumption DEF RoutingAssumption, Readers, Requests

LEMMA Objects3 ==
  /\ \A r, s, k : Object(r, s, k) # End
  /\ \A r, s, k, q, t, m : Object(r, s, k) = Object(q, t, m) <=> r = q /\ s = t /\ k = m
<1>1. \A r, s, k : Len(Object(r, s, k)) = 3 /\ Len(End) = 0
  BY DEF Object, End
<1>2. ASSUME NEW r, NEW s, NEW k, Object(r, s, k) = End PROVE FALSE
  <2>1. Len(Object(r, s, k)) = Len(End)
    BY <1>2
  <2>2. Len(Object(r, s, k)) = 3 /\ Len(End) = 0
    BY <1>1
  <2>3. 3 = 0
    BY <2>1, <2>2, Zenon
  <2> QED BY <2>3, SMT
<1>3. ASSUME NEW r, NEW s, NEW k, NEW q, NEW t, NEW m, Object(r, s, k) = Object(q, t, m)
      PROVE  r = q /\ s = t /\ k = m
  <2>1. /\ Object(r, s, k)[1] = r /\ Object(r, s, k)[2] = s /\ Object(r, s, k)[3] = k
        /\ Object(q, t, m)[1] = q /\ Object(q, t, m)[2] = t /\ Object(q, t, m)[3] = m
    BY DEF Object
  <2> QED BY <1>3, <2>1
<1> QED BY <1>2, <1>3

LEMMA ObjectsAre ==
  /\ \A r \in Readers, s \in DataStreams : Objects[r][s] \in Nat
  /\ \A r \in Readers, s \in DataStreams : \A k \in 1 .. Objects[r][s] : Object(r, s, k) \in AnObject
<1>1. \A r \in Readers, s \in DataStreams : Objects[r][s] \in Nat
  BY DEF DataStreams
<1>2. ASSUME NEW r \in Readers, NEW s \in DataStreams, NEW k \in 1 .. Objects[r][s]
      PROVE  Object(r, s, k) \in AnObject
  <2>1. PICK all : all = {r} \X {s} \X (1 .. Objects[r][s])
    OBVIOUS
  <2>2. Object(r, s, k) \in all
    BY <2>1 DEF Object
  <2>3. all \in {{q} \X {d} \X (1 .. Objects[q][d]) : q \in Readers, d \in DataStreams}
    BY ONLY <2>1, r \in Readers, s \in DataStreams
  <2> QED BY <2>2, <2>3 DEF AnObject
<1> QED BY <1>1, <1>2

LEMMA OfBuffered ==
  ASSUME NEW q \in Seq(AnObject), Len(q) <= MaxPendingObjects, NEW o \in AnObject
  PROVE  /\ Buffered(q, o) \in Seq(AnObject) /\ Len(Buffered(q, o)) <= MaxPendingObjects
         /\ Contains(Buffered(q, o), o)
         /\ \A x : Contains(Buffered(q, o), x) => Contains(q, x) \/ x = o
         /\ \A x : Contains(q, x) => \/ Contains(Buffered(q, o), x)
                                     \/ Len(q) >= MaxPendingObjects /\ x = Head(q)
         /\ Len(q) >= MaxPendingObjects => Head(q) \in AnObject /\ Contains(q, Head(q))
         /\ Unique(q) /\ ~Contains(q, o) =>
              /\ Unique(Buffered(q, o))
              /\ Len(q) >= MaxPendingObjects => ~Contains(Buffered(q, o), Head(q))
<1>0. Len(q) \in Nat /\ MaxPendingObjects \in Nat /\ MaxPendingObjects # 0
  BY LenProperties
<1>1. CASE Len(q) < MaxPendingObjects
  <2>1. Buffered(q, o) = Append(q, o) /\ ~(Len(q) >= MaxPendingObjects)
    BY <1>0, <1>1 DEF Buffered
  <2> QED BY <1>0, <1>1, <2>1, OfAppend
<1>2. CASE Len(q) >= MaxPendingObjects
  <2>1. q # <<>> /\ Buffered(q, o) = Append(Tail(q), o)
    BY <1>0, <1>2, OfNone DEF Buffered
  <2>2. /\ Head(q) \in AnObject /\ Tail(q) \in Seq(AnObject) /\ Len(Tail(q)) = Len(q) - 1
        /\ \A x : Contains(q, x) <=> Contains(Tail(q), x) \/ x = Head(q)
        /\ Unique(q) => Unique(Tail(q)) /\ ~Contains(Tail(q), Head(q))
    BY <2>1, OfTail
  <2>3. PICK t \in Seq(AnObject) : t = Tail(q)
    BY <2>2
  <2>4. /\ Append(t, o) \in Seq(AnObject) /\ Len(Append(t, o)) = Len(t) + 1
        /\ \A x : Contains(Append(t, o), x) <=> Contains(t, x) \/ x = o
        /\ Unique(t) /\ ~Contains(t, o) => Unique(Append(t, o))
    BY OfAppend
  <2>5. Len(Append(t, o)) <= MaxPendingObjects
    BY <1>0, <2>2, <2>3, <2>4
  <2>6. Buffered(q, o) = Append(t, o)
    BY <2>1, <2>3
  <2>7. Contains(q, Head(q)) /\ Head(q) \in AnObject
    BY <2>2
  <2>8. \A x : Contains(Buffered(q, o), x) <=> Contains(t, x) \/ x = o
    BY <2>4, <2>6
  <2>9. \A x : Contains(q, x) <=> Contains(t, x) \/ x = Head(q)
    BY <2>2, <2>3
  <2>10. Unique(q) /\ ~Contains(q, o) =>
           Unique(Buffered(q, o)) /\ ~Contains(Buffered(q, o), Head(q))
    BY <2>2, <2>3, <2>4, <2>6, <2>7, <2>8, <2>9
  <2> QED BY <1>2, <2>4, <2>5, <2>6, <2>7, <2>8, <2>9, <2>10
<1> QED BY <1>0, <1>1, <1>2

LEMMA OfRemember ==
  ASSUME NEW r \in Requests, Remember(r),
         pending_terminations \in Seq(Requests), forgotten \subseteq Requests,
         Len(pending_terminations) <= MaxPendingTerminations, Unique(pending_terminations)
  PROVE  /\ pending_terminations' \in Seq(Requests) /\ forgotten' \subseteq Requests
         /\ Len(pending_terminations') <= MaxPendingTerminations
         /\ Unique(pending_terminations')
         /\ Contains(pending_terminations', r)
         /\ \A x \in forgotten : x \in forgotten'
         /\ \A x : Contains(pending_terminations, x)
                     => Contains(pending_terminations', x) \/ x \in forgotten'
<1> DEFINE p == pending_terminations
           full == Len(p) >= MaxPendingTerminations
<1>0. Len(p) \in Nat /\ MaxPendingTerminations \in Nat /\ MaxPendingTerminations # 0
  BY LenProperties
<1>1. PICK kept : kept = IF full THEN Tail(p) ELSE p
  OBVIOUS
<1>2. /\ pending_terminations' = IF Contains(kept, r) THEN kept ELSE Append(kept, r)
      /\ forgotten' = IF full THEN forgotten \cup {Head(p)} ELSE forgotten
  BY <1>1 DEF Remember
<1>3. /\ kept \in Seq(Requests) /\ Len(kept) < MaxPendingTerminations
      /\ Unique(kept) /\ forgotten' \subseteq Requests
      /\ \A x : Contains(p, x) => Contains(kept, x) \/ x \in forgotten'
  <2>1. CASE ~full
    BY <1>0, <1>1, <1>2, <2>1
  <2>2. CASE full
    <3>1. p # <<>>
      BY <1>0, <2>2, OfNone
    <3>2. /\ Head(p) \in Requests /\ Tail(p) \in Seq(Requests) /\ Len(Tail(p)) = Len(p) - 1
          /\ \A x : Contains(p, x) <=> Contains(Tail(p), x) \/ x = Head(p)
          /\ Unique(Tail(p))
      BY <3>1, OfTail
    <3>3. Len(Tail(p)) < MaxPendingTerminations
      BY <1>0, <3>2
    <3> QED BY <1>1, <1>2, <2>2, <3>2, <3>3
  <2> QED BY <2>1, <2>2
<1>4. Len(kept) \in Nat
  BY <1>3, LenProperties
<1>5. CASE Contains(kept, r)
  BY <1>0, <1>2, <1>3, <1>4, <1>5
<1>6. CASE ~Contains(kept, r)
  <2>1. /\ Append(kept, r) \in Seq(Requests) /\ Len(Append(kept, r)) = Len(kept) + 1
        /\ \A x : Contains(Append(kept, r), x) <=> Contains(kept, x) \/ x = r
        /\ Unique(Append(kept, r))
    BY <1>3, <1>6, OfAppend
  <2>2. Len(Append(kept, r)) <= MaxPendingTerminations
    BY <1>0, <1>3, <1>4, <2>1
  <2> QED BY <1>2, <1>3, <1>6, <2>1, <2>2
<1> QED BY <1>5, <1>6

LEMMA OfReleased ==
  ASSUME NEW r \in Subscribes, NEW n \in Nat, arrived[r]["held"] \in Nat,
         arrived[r]["held"] + n <= Objects[r]["held"]
  PROVE  /\ Released(r, n) \in Seq(AnObject)
         /\ \A x : Contains(Released(r, n), x) <=>
              \E i \in 1 .. n : x = Object(r, "held", arrived[r]["held"] + i)
<1>1. r \in Readers /\ "held" \in DataStreams
  BY DEF DataStreams
<1>2. \A i \in 1 .. n : Object(r, "held", arrived[r]["held"] + i) \in AnObject
  <2>1. \A i \in 1 .. n : arrived[r]["held"] + i \in 1 .. Objects[r]["held"]
    BY <1>1, ObjectsAre
  <2> QED BY <1>1, <2>1, ObjectsAre
<1>3. /\ Released(r, n) \in [1 .. n -> AnObject]
      /\ \A i \in 1 .. n : Released(r, n)[i] = Object(r, "held", arrived[r]["held"] + i)
  BY <1>2 DEF Released
<1>4. Released(r, n) \in Seq(AnObject)
  BY <1>3, SeqDef
<1>5. Len(Released(r, n)) = n
  BY <1>3, <1>4, LenProperties
<1> QED BY <1>3, <1>4, <1>5 DEF Contains

\* The alias that subscribe() reads is an alias.
LEMMA AliasIsRead == \A r \in Subscribes : ReadAlias(r) \in Aliases
BY DEF ReadAlias

LEMMA OfPickedUp ==
  ASSUME NEW r \in Subscribes, NEW n \in Nat, TypeOK,
         arrived[r]["held"] + n <= Objects[r]["held"]
  PROVE  /\ PickedUp(r, n) \in Seq(AnObject \cup {End})
         /\ \A x : Contains(PickedUp(r, n), x) <=>
              \/ \E i \in 1 .. n : x = Object(r, "held", arrived[r]["held"] + i)
              \/ Contains(pending_objects[ReadAlias(r)], x)
              \/ x = End /\ Contains(pending_terminations, r)
<1>1. arrived[r]["held"] \in Nat
  BY DEF TypeOK, DataStreams
<1>2. PICK a : a = Released(r, n)
  OBVIOUS
<1>3. /\ a \in Seq(AnObject)
      /\ \A x : Contains(a, x) <=>
              \E i \in 1 .. n : x = Object(r, "held", arrived[r]["held"] + i)
  BY <1>1, <1>2, OfReleased
<1>4. PICK b : b = pending_objects[ReadAlias(r)]
  OBVIOUS
<1>5. b \in Seq(AnObject)
  BY <1>4, AliasIsRead DEF TypeOK
<1>6. PICK c : c = IF Contains(pending_terminations, r) THEN <<End>> ELSE <<>>
  OBVIOUS
<1>7. /\ c \in Seq(AnObject \cup {End})
      /\ \A x : Contains(c, x) <=> x = End /\ Contains(pending_terminations, r)
  <2>1. <<End>> \in Seq(AnObject \cup {End}) /\ \A x : Contains(<<End>>, x) <=> x = End
    BY OfOne
  <2> QED BY <1>6, <2>1, OfNone
<1>8. a \in Seq(AnObject \cup {End}) /\ b \in Seq(AnObject \cup {End})
  BY <1>3, <1>5, SeqMonotonic
<1>9. PICK ab : ab = a \o b
  OBVIOUS
<1>10. /\ ab \in Seq(AnObject \cup {End})
       /\ \A x : Contains(ab, x) <=> Contains(a, x) \/ Contains(b, x)
  BY <1>8, <1>9, OfConcat
<1>11. /\ ab \o c \in Seq(AnObject \cup {End})
       /\ \A x : Contains(ab \o c, x) <=> Contains(ab, x) \/ Contains(c, x)
  BY <1>7, <1>10, OfConcat
<1>12. PickedUp(r, n) = ab \o c
  BY <1>2, <1>4, <1>6, <1>9 DEF PickedUp
<1> QED BY <1>3, <1>4, <1>7, <1>10, <1>11, <1>12

-----------------------------------------------------------------------------
(* What a step does to the queues and to the counts of what has come.      *)

LEMMA QueueGrows ==
  ASSUME TypeOK, NEW r \in Readers, NEW e \in AnObject \cup {End},
         queue' = [queue EXCEPT ![r] = Append(@, e)]
  PROVE  /\ queue' \in [Readers -> Seq(AnObject \cup {End})]
         /\ \A q \in Readers : \A x :
              Contains(queue'[q], x) <=> Contains(queue[q], x) \/ (q = r /\ x = e)
<1>1. queue \in [Readers -> Seq(AnObject \cup {End})]
  BY DEF TypeOK
<1>2. PICK s \in Seq(AnObject \cup {End}) : s = queue[r]
  BY <1>1
<1>3. /\ Append(s, e) \in Seq(AnObject \cup {End})
      /\ \A x : Contains(Append(s, e), x) <=> Contains(s, x) \/ x = e
  BY OfAppend
<1>4. \A q \in Readers : queue'[q] = IF q = r THEN Append(s, e) ELSE queue[q]
  BY <1>1, <1>2
<1>5. queue' \in [Readers -> Seq(AnObject \cup {End})]
  BY <1>1, <1>2, <1>3
<1>6. ASSUME NEW q \in Readers, NEW x
      PROVE  Contains(queue'[q], x) <=> Contains(queue[q], x) \/ (q = r /\ x = e)
  <2>1. CASE q = r
    <3>1. queue'[q] = Append(s, e) /\ queue[q] = s
      BY <1>2, <1>4, <2>1
    <3>2. Contains(Append(s, e), x) <=> Contains(s, x) \/ x = e
      BY <1>3
    <3> QED BY <2>1, <3>1, <3>2 DEF Contains
  <2>2. CASE q # r
    <3>1. queue'[q] = queue[q]
      BY <1>4, <2>2
    <3> QED BY <2>2, <3>1 DEF Contains
  <2> QED BY <2>1, <2>2
<1> QED BY <1>5, <1>6

LEMMA CountGrows ==
  ASSUME TypeOK, NEW r \in Readers, NEW s \in DataStreams, NEW n \in Nat,
         arrived' = [arrived EXCEPT ![r][s] = @ + n]
  PROVE  /\ arrived' \in [Readers -> [DataStreams -> Nat]]
         /\ \A q \in Readers, t \in DataStreams :
              arrived'[q][t] = IF q = r /\ t = s THEN arrived[q][t] + n ELSE arrived[q][t]
<1>1. arrived \in [Readers -> [DataStreams -> Nat]]
  BY DEF TypeOK
<1>2. PICK c : c = [arrived[r] EXCEPT ![s] = @ + n]
  OBVIOUS
<1>3. arrived' = [arrived EXCEPT ![r] = c]
  BY <1>2
<1>4. c \in [DataStreams -> Nat]
  BY <1>1, <1>2
<1>5. \A t \in DataStreams : c[t] = IF t = s THEN arrived[r][t] + n ELSE arrived[r][t]
  BY <1>1, <1>2
<1>6. \A q \in Readers : arrived'[q] = IF q = r THEN c ELSE arrived[q]
  BY <1>1, <1>3
<1> QED BY <1>1, <1>3, <1>4, <1>5, <1>6

LEMMA ObjectComes ==
  ASSUME TypeOK, NEW r \in Readers, NEW s \in DataStreams, arrived[r][s] < Objects[r][s]
  PROVE  Object(r, s, arrived[r][s] + 1) \in AnObject /\ arrived[r][s] + 1 \in Nat
<1>1. arrived[r][s] \in Nat /\ Objects[r][s] \in Nat
  BY ObjectsAre DEF TypeOK
<1>2. arrived[r][s] + 1 \in 1 .. Objects[r][s]
  BY <1>1
<1> QED BY <1>1, <1>2, ObjectsAre

-----------------------------------------------------------------------------
(* Every step keeps the types.                                             *)

LEMMA InitTypes == Init => TypeOK
<1> SUFFICES ASSUME Init PROVE TypeOK
  OBVIOUS
<1>1. \A S : <<>> \in Seq(S)
  BY EmptySeq
<1>2. queue = [r \in Readers |-> <<>>] /\ pending_objects = [a \in Aliases |-> <<>>]
  BY DEF Init
<1>3. queue \in [Readers -> Seq(AnObject \cup {End})] /\ pending_objects \in [Aliases -> Seq(AnObject)]
  BY <1>1, <1>2
<1>4. pending_terminations \in Seq(Requests)
  BY <1>1 DEF Init
<1> QED BY <1>3, <1>4 DEF Init, TypeOK

LEMMA TypesNext ==
  ASSUME TypeOK, LimitsInv, [Next]_vars PROVE TypeOK'
<1> USE DEF TypeOK
<1>1. ASSUME NEW r \in Subscribes, Subscribe(r) PROVE TypeOK'
  BY <1>1 DEF Subscribe, tables, pending
<1>2. ASSUME NEW r \in Subscribes, SubscribeFails(r) PROVE TypeOK'
  BY <1>2, AliasIsRead DEF SubscribeFails, pending
<1>3. ASSUME NEW r \in Subscribes, PublishDone(r) PROVE TypeOK'
  <2>1. core' \in [Requests -> {"idle", "sent", "ok", "done", "refused", "ended", "gone"}]
    BY <1>3 DEF PublishDone
  <2>2. queue' \in [Readers -> Seq(AnObject \cup {End})]
    BY <1>3, QueueGrows DEF PublishDone
  <2>3. pending_terminations' \in Seq(Requests) /\ forgotten' \subseteq Requests
    BY <1>3, OfRemember DEF PublishDone, LimitsInv
  <2>4. UNCHANGED <<closed, arrived, waiting, tables, pending_objects, sharing, dropped>>
    BY <1>3 DEF PublishDone
  <2> QED BY <2>1, <2>2, <2>3, <2>4 DEF tables
<1>4. ASSUME NEW r \in Subscribes, NEW s \in DataStreams, SubscribedObject(r, s) PROVE TypeOK'
  <2> DEFINE o == Object(r, s, arrived[r][s] + 1)
             a == TrackAlias[r]
  <2>1. o \in AnObject /\ a \in Aliases
    BY <1>4, ObjectComes DEF SubscribedObject
  <2>2. arrived' \in [Readers -> [DataStreams -> Nat]]
    BY <1>4, CountGrows DEF SubscribedObject
  <2>3. UNCHANGED <<closed, core, waiting, tables, pending_terminations, forgotten, sharing>>
    BY <1>4 DEF SubscribedObject
  <2>4. CASE Receiver(r) # NoRequest
    <3>1. Receiver(r) \in Readers
      BY <2>1, <2>4 DEF Receiver
    <3>2. /\ queue' = [queue EXCEPT ![Receiver(r)] = Append(@, o)]
          /\ UNCHANGED <<pending_objects, dropped>>
      BY <1>4, <2>4 DEF SubscribedObject
    <3>3. queue' \in [Readers -> Seq(AnObject \cup {End})]
      BY <2>1, <3>1, <3>2, QueueGrows
    <3> QED BY <2>2, <2>3, <3>2, <3>3 DEF tables
  <2>5. CASE Receiver(r) = NoRequest
    <3>1. /\ pending_objects' = [pending_objects EXCEPT ![a] = Buffered(@, o)]
          /\ dropped' = IF Len(pending_objects[a]) >= MaxPendingObjects
                        THEN dropped \cup {Head(pending_objects[a])} ELSE dropped
          /\ UNCHANGED queue
      BY <1>4, <2>5 DEF SubscribedObject
    <3>2. PICK q \in Seq(AnObject) : q = pending_objects[a]
      BY <2>1
    <3>3. Len(q) <= MaxPendingObjects
      BY <2>1, <3>2 DEF LimitsInv
    <3>4. /\ Buffered(q, o) \in Seq(AnObject)
          /\ Len(q) >= MaxPendingObjects => Head(q) \in AnObject
      BY <2>1, <3>3, OfBuffered
    <3>5. pending_objects' \in [Aliases -> Seq(AnObject)] /\ dropped' \subseteq AnObject
      BY <2>1, <3>1, <3>2, <3>4
    <3> QED BY <2>2, <2>3, <3>1, <3>5 DEF tables
  <2> QED BY <2>4, <2>5
<1>5. ASSUME NEW r \in Subscribes, NEW n \in 0 .. Objects[r]["held"], Subscribed(r, n) PROVE TypeOK'
  <2>1. n \in Nat /\ r \in Readers /\ "held" \in DataStreams
    BY ObjectsAre DEF DataStreams
  <2>2. arrived' \in [Readers -> [DataStreams -> Nat]]
    BY <1>5, <2>1, CountGrows DEF Subscribed
  <2>3. PickedUp(r, n) \in Seq(AnObject \cup {End})
    BY <1>5, <2>1, OfPickedUp DEF Subscribed
  <2>4. queue[r] \o PickedUp(r, n) \in Seq(AnObject \cup {End})
    BY <2>1, <2>3, ConcatProperties
  <2>5. queue' \in [Readers -> Seq(AnObject \cup {End})]
    BY <1>5, <2>1, <2>4 DEF Subscribed
  <2>6. pending_terminations' \in Seq(Requests)
    BY <1>5, OfRemoveFirst DEF Subscribed
  <2>7. pending_objects' \in [Aliases -> Seq(AnObject)]
    BY <1>5, EmptySeq, AliasIsRead DEF Subscribed
  <2>8. /\ subscriptions' \subseteq Subscribes
        /\ by_alias' \in [Aliases -> Subscribes \cup {NoRequest}]
        /\ track_alias' \in [Subscribes -> Aliases]
    BY <1>5, AliasIsRead DEF Subscribed
  <2>9. waiting' \in [Readers -> {"none", "waiting", "resolved", "returned", "raised", "cancelled"}]
    BY <1>5 DEF Subscribed
  <2>10. UNCHANGED <<closed, core, fetches, sharing, dropped, forgotten>>
    BY <1>5 DEF Subscribed
  <2> QED BY <2>2, <2>5, <2>6, <2>7, <2>8, <2>9, <2>10
<1>6. ASSUME NEW r \in Fetches, Fetch(r) PROVE TypeOK'
  BY <1>6 DEF Fetch, pending
<1>7. ASSUME NEW r \in Fetches, FetchedObject(r) PROVE TypeOK'
  <2> DEFINE o == Object(r, "live", arrived[r]["live"] + 1)
  <2>1. "live" \in DataStreams /\ r \in Readers
    BY DEF DataStreams
  <2>2. o \in AnObject \cup {End}
    BY <1>7, <2>1, ObjectComes DEF FetchedObject
  <2>3. \A q \in Readers : Append(queue[q], o) \in Seq(AnObject \cup {End})
    BY <2>2, AppendProperties
  <2>4. queue' = [q \in Readers |-> IF q \in fetches THEN Append(queue[q], o) ELSE queue[q]]
    BY <1>7 DEF FetchedObject
  <2> HIDE DEF o
  <2>5. queue' \in [Readers -> Seq(AnObject \cup {End})]
    BY <2>3, <2>4
  <2>6. arrived' \in [Readers -> [DataStreams -> Nat]]
    BY <1>7, <2>1, CountGrows DEF FetchedObject
  <2> QED BY <1>7, <2>5, <2>6 DEF FetchedObject, tables, pending
<1>8. ASSUME NEW r \in Fetches, Fetched(r) PROVE TypeOK'
  BY <1>8, EmptySeq DEF Fetched, pending
<1>9. ASSUME NEW r \in Readers, Answer(r) \/ Refuse(r) \/ Cancel(r) PROVE TypeOK'
  BY <1>9 DEF Answer, SameAlias, Refuse, Cancel, tables, pending
<1>10. ASSUME NEW r \in Others, Other(r) PROVE TypeOK'
  BY <1>10 DEF Other, tables, pending
<1>11. ASSUME NEW r \in Requests, Terminate(r) PROVE TypeOK'
  <2>1. core' \in [Requests -> {"idle", "sent", "ok", "done", "refused", "ended", "gone"}]
    BY <1>11 DEF Terminate
  <2>2. UNCHANGED <<closed, arrived, waiting, track_alias, sharing>>
    BY <1>11 DEF Terminate
  <2>3. CASE r \in subscriptions
    <3>1. Unregister(r) /\ UNCHANGED <<fetches, pending_terminations, forgotten>>
      BY <1>11, <2>3 DEF Terminate
    <3>2. queue' \in [Readers -> Seq(AnObject \cup {End})]
      BY <2>3, <3>1, QueueGrows DEF Unregister
    <3>3. pending_objects' \in [Aliases -> Seq(AnObject)]
      BY <3>1, EmptySeq DEF Unregister
    <3>4. track_alias[r] \in Aliases
      BY <2>3
    <3>5. PICK q \in Seq(AnObject) : q = pending_objects[track_alias[r]]
      BY <3>4
    <3>6. ToSet(q) \subseteq AnObject
      BY Elements
    <3>7. dropped' \subseteq AnObject
      BY <3>1, <3>5, <3>6 DEF Unregister
    <3>8. subscriptions' \subseteq Subscribes /\ by_alias' \in [Aliases -> Subscribes \cup {NoRequest}]
      BY <3>1, <3>4 DEF Unregister
    <3> QED BY <2>1, <2>2, <3>1, <3>2, <3>3, <3>7, <3>8
  <2>4. CASE r \notin subscriptions /\ r \in fetches
    <3>1. /\ fetches' = fetches \ {r}
          /\ queue' = [queue EXCEPT ![r] = Append(@, End)]
          /\ UNCHANGED <<subscriptions, by_alias, pending>>
      BY <1>11, <2>4 DEF Terminate
    <3>2. queue' \in [Readers -> Seq(AnObject \cup {End})]
      BY <2>4, <3>1, QueueGrows
    <3> QED BY <2>1, <2>2, <3>1, <3>2 DEF pending
  <2>5. CASE r \notin subscriptions /\ r \notin fetches
    <3>1. /\ Remember(r)
          /\ UNCHANGED <<subscriptions, by_alias, fetches, pending_objects, dropped, queue>>
      BY <1>11, <2>5 DEF Terminate
    <3>2. pending_terminations' \in Seq(Requests) /\ forgotten' \subseteq Requests
      BY <3>1, OfRemember DEF LimitsInv
    <3> QED BY <2>1, <2>2, <3>1, <3>2
  <2> QED BY <2>3, <2>4, <2>5
<1>12. ASSUME NEW r \in Requests, Cleanup(r) PROVE TypeOK'
  BY <1>12 DEF Cleanup, tables, pending
<1>13. CASE SessionEnds
  BY <1>13 DEF SessionEnds, tables, pending
<1>14. CASE Close
  <2>1. \A a \in Aliases : ToSet(pending_objects[a]) \subseteq AnObject
    BY Elements
  <2>2. dropped' \subseteq AnObject
    BY <1>14, <2>1 DEF Close
  <2>3. pending_objects' \in [Aliases -> Seq(AnObject)]
    BY <1>14, EmptySeq DEF Close
  <2> QED BY <1>14, <2>2, <2>3 DEF Close, tables
<1>15. CASE UNCHANGED vars
  BY <1>15 DEF vars
<1> QED BY <1>1, <1>2, <1>3, <1>4, <1>5, <1>6, <1>7, <1>8, <1>9, <1>10, <1>11, <1>12, <1>13,
           <1>14, <1>15 DEF Next

-----------------------------------------------------------------------------
(* Every step keeps the rest.                                              *)

LEMMA InitInv == Init => IInv
<1> SUFFICES ASSUME Init PROVE IInv
  OBVIOUS
<1>1. TypeOK
  BY InitTypes
<1>2. CallInv /\ AliasInv
  BY DEF Init, CallInv, AliasInv
<1>3. LimitsInv
  BY OfNone DEF Init, LimitsInv
<1>4. EndInv
  BY DEF Init, EndInv
<1>5. FetchInv
  BY DEF Init, FetchInv, DataStreams
<1> QED BY <1>1, <1>2, <1>3, <1>4, <1>5 DEF IInv

LEMMA CallNext == ASSUME IInv, [Next]_vars PROVE CallInv'
<1> USE DEF IInv, TypeOK, CallInv
<1>1. ASSUME NEW r \in Subscribes, Subscribe(r) PROVE CallInv'
  BY <1>1 DEF Subscribe, Callable, tables
<1>2. ASSUME NEW r \in Subscribes, SubscribeFails(r) PROVE CallInv'
  BY <1>2 DEF SubscribeFails
<1>3. ASSUME NEW r \in Subscribes, PublishDone(r) PROVE CallInv'
  BY <1>3 DEF PublishDone, tables
<1>4. ASSUME NEW r \in Subscribes, NEW s \in DataStreams, SubscribedObject(r, s) PROVE CallInv'
  BY <1>4 DEF SubscribedObject, tables
<1>5. ASSUME NEW r \in Subscribes, NEW n \in 0 .. Objects[r]["held"], Subscribed(r, n) PROVE CallInv'
  BY <1>5 DEF Subscribed
<1>6. ASSUME NEW r \in Fetches, Fetch(r) \/ FetchedObject(r) \/ Fetched(r) PROVE CallInv'
  <2>1. UNCHANGED subscriptions /\ \A q \in Subscribes : core'[q] = core[q] /\ waiting'[q] = waiting[q]
    BY <1>6 DEF Fetch, FetchedObject, Fetched, tables
  <2>2. CASE Fetch(r)
    BY <2>1, <2>2 DEF Fetch
  <2>3. CASE FetchedObject(r)
    BY <2>3 DEF FetchedObject, tables
  <2>4. CASE Fetched(r)
    BY <2>1, <2>4 DEF Fetched
  <2> QED BY <1>6, <2>2, <2>3, <2>4
<1>7. ASSUME NEW r \in Readers, Answer(r) \/ Refuse(r) \/ Cancel(r) PROVE CallInv'
  <2>1. CASE Answer(r)
    BY <2>1 DEF Answer, tables
  <2>2. CASE Refuse(r)
    BY <2>2 DEF Refuse, tables
  <2>3. CASE Cancel(r)
    BY <2>3 DEF Cancel, tables
  <2> QED BY <1>7, <2>1, <2>2, <2>3
<1>8. ASSUME NEW r \in Others, Other(r) PROVE CallInv'
  BY <1>8 DEF Other, tables
<1>9. ASSUME NEW r \in Requests, Terminate(r) PROVE CallInv'
  <2>1. subscriptions' \subseteq subscriptions
    BY <1>9 DEF Terminate, Unregister
  <2>2. UNCHANGED waiting
    BY <1>9 DEF Terminate
  <2>3. \E c \in {"ended", "gone"} : core' = [core EXCEPT ![r] = c]
    BY <1>9 DEF Terminate
  <2>4. r \in Subscribes => core[r] \in {"ok", "done", "refused"}
    BY <1>9 DEF Terminate
  <2> QED BY <2>1, <2>2, <2>3, <2>4
<1>10. ASSUME NEW r \in Requests, Cleanup(r) PROVE CallInv'
  BY <1>10 DEF Cleanup, tables
<1>11. CASE SessionEnds \/ Close
  BY <1>11 DEF SessionEnds, Close, tables
<1>12. CASE UNCHANGED vars
  BY <1>12 DEF vars
<1> QED BY <1>1, <1>2, <1>3, <1>4, <1>5, <1>6, <1>7, <1>8, <1>9, <1>10, <1>11, <1>12 DEF Next

LEMMA LimitsNext == ASSUME IInv, [Next]_vars PROVE LimitsInv'
<1>0. /\ pending_objects \in [Aliases -> Seq(AnObject)] /\ pending_terminations \in Seq(Requests)
      /\ track_alias \in [Subscribes -> Aliases] /\ subscriptions \subseteq Subscribes
      /\ forgotten \subseteq Requests /\ LimitsInv
      /\ Len(<<>>) = 0 /\ 0 <= MaxPendingObjects
  BY OfNone DEF IInv, TypeOK
<1>1. ASSUME NEW r \in Subscribes, PublishDone(r) PROVE LimitsInv'
  BY <1>0, <1>1, OfRemember DEF PublishDone, LimitsInv
<1>2. ASSUME NEW r \in Subscribes, NEW s \in DataStreams, SubscribedObject(r, s) PROVE LimitsInv'
  <2> DEFINE o == Object(r, s, arrived[r][s] + 1)
             a == TrackAlias[r]
  <2>1. UNCHANGED pending_terminations
    BY <1>2 DEF SubscribedObject
  <2>2. \/ UNCHANGED pending_objects
        \/ pending_objects' = [pending_objects EXCEPT ![a] = Buffered(@, o)]
    BY <1>2 DEF SubscribedObject
  <2>3. o \in AnObject /\ a \in Aliases
    BY <1>2, ObjectComes DEF SubscribedObject, IInv
  <2>4. PICK q \in Seq(AnObject) : q = pending_objects[a]
    BY <1>0, <2>3
  <2>5. Len(Buffered(q, o)) <= MaxPendingObjects
    BY <1>0, <2>3, <2>4, OfBuffered DEF LimitsInv
  <2> QED BY <1>0, <2>1, <2>2, <2>3, <2>4, <2>5 DEF LimitsInv
<1>3. ASSUME NEW r \in Subscribes, NEW n \in 0 .. Objects[r]["held"], Subscribed(r, n) PROVE LimitsInv'
  <2>1. /\ pending_terminations' = RemoveFirst(pending_terminations, r)
        /\ pending_objects' = [pending_objects EXCEPT ![ReadAlias(r)] = <<>>]
    BY <1>3 DEF Subscribed
  <2>2. /\ RemoveFirst(pending_terminations, r) \in Seq(Requests)
        /\ Len(RemoveFirst(pending_terminations, r)) <= Len(pending_terminations)
        /\ Unique(RemoveFirst(pending_terminations, r))
    BY <1>0, OfRemoveFirst DEF LimitsInv
  <2>3. /\ Len(RemoveFirst(pending_terminations, r)) \in Nat /\ Len(pending_terminations) \in Nat
    BY <1>0, <2>2, LenProperties
  <2>4. Len(pending_terminations') <= MaxPendingTerminations
    BY <1>0, <2>1, <2>2, <2>3 DEF LimitsInv
  <2> QED BY <1>0, <2>1, <2>2, <2>4, AliasIsRead DEF LimitsInv
<1>4. ASSUME NEW r \in Requests, Terminate(r) PROVE LimitsInv'
  <2>1. CASE r \in subscriptions
    BY <1>0, <1>4, <2>1 DEF Terminate, Unregister, LimitsInv
  <2>2. CASE r \notin subscriptions /\ r \in fetches
    BY <1>0, <1>4, <2>2 DEF Terminate, pending, LimitsInv
  <2>3. CASE r \notin subscriptions /\ r \notin fetches
    BY <1>0, <1>4, <2>3, OfRemember DEF Terminate, LimitsInv
  <2> QED BY <2>1, <2>2, <2>3
<1>5. CASE Close
  BY <1>0, <1>5 DEF Close, LimitsInv
<1>6. ASSUME UNCHANGED <<pending_objects, pending_terminations>> PROVE LimitsInv'
  BY <1>0, <1>6 DEF LimitsInv
<1>7. ASSUME NEW r \in Subscribes, Subscribe(r) \/ SubscribeFails(r) PROVE LimitsInv'
  BY <1>6, <1>7 DEF Subscribe, SubscribeFails, pending
<1>8. ASSUME NEW r \in Fetches, Fetch(r) \/ FetchedObject(r) \/ Fetched(r) PROVE LimitsInv'
  BY <1>6, <1>8 DEF Fetch, FetchedObject, Fetched, pending
<1>9. ASSUME NEW r \in Requests, Answer(r) \/ Refuse(r) \/ Cancel(r) \/ Other(r) \/ Cleanup(r)
      PROVE  LimitsInv'
  BY <1>6, <1>9 DEF Answer, Refuse, Cancel, Other, Cleanup, pending
<1>10. CASE SessionEnds \/ UNCHANGED vars
  BY <1>6, <1>10 DEF SessionEnds, vars, pending
<1> QED BY <1>1, <1>2, <1>3, <1>4, <1>5, <1>7, <1>8, <1>9, <1>10 DEF Next

\* An object reported for a subscription changes no table, and no queue loses.
LEMMA ReportedObject ==
  ASSUME TypeOK, NEW r \in Subscribes, NEW s \in DataStreams, SubscribedObject(r, s)
  PROVE  \A q \in Readers : \A x : Contains(queue[q], x) => Contains(queue'[q], x)
<1>1. CASE Receiver(r) # NoRequest
  <2>1. TrackAlias[r] \in Aliases
    OBVIOUS
  <2>2. Receiver(r) \in Readers
    BY <1>1, <2>1 DEF Receiver, TypeOK
  <2>3. Object(r, s, arrived[r][s] + 1) \in AnObject \cup {End}
    BY ObjectComes DEF SubscribedObject
  <2>4. queue' = [queue EXCEPT ![Receiver(r)] = Append(@, Object(r, s, arrived[r][s] + 1))]
    BY <1>1 DEF SubscribedObject
  <2> QED BY <2>2, <2>3, <2>4, QueueGrows
<1>2. CASE Receiver(r) = NoRequest
  BY <1>2 DEF SubscribedObject
<1> QED BY <1>1, <1>2

\* What the queue of r gets when r is registered.
LEMMA RegisteredQueue ==
  ASSUME TypeOK, NEW r \in Subscribes, NEW n \in 0 .. Objects[r]["held"], Subscribed(r, n)
  PROVE  /\ \A q \in Readers \ {r} : queue'[q] = queue[q]
         /\ \A x : Contains(queue'[r], x) <=>
              \/ Contains(queue[r], x)
              \/ \E i \in 1 .. n : x = Object(r, "held", arrived[r]["held"] + i)
              \/ Contains(pending_objects[ReadAlias(r)], x)
              \/ x = End /\ Contains(pending_terminations, r)
<1>1. n \in Nat /\ r \in Readers /\ "held" \in DataStreams
  BY ObjectsAre DEF DataStreams
<1>2. PICK p : p = PickedUp(r, n)
  OBVIOUS
<1>3. /\ p \in Seq(AnObject \cup {End})
      /\ \A x : Contains(p, x) <=>
              \/ \E i \in 1 .. n : x = Object(r, "held", arrived[r]["held"] + i)
              \/ Contains(pending_objects[ReadAlias(r)], x)
              \/ x = End /\ Contains(pending_terminations, r)
  BY <1>1, <1>2, OfPickedUp DEF Subscribed
<1>4. PICK s \in Seq(AnObject \cup {End}) : s = queue[r]
  BY <1>1 DEF TypeOK
<1>5. \A x : Contains(s \o p, x) <=> Contains(s, x) \/ Contains(p, x)
  BY <1>3, OfConcat
<1>6. queue' = [queue EXCEPT ![r] = s \o p]
  BY <1>2, <1>4 DEF Subscribed
<1>7. queue'[r] = s \o p /\ \A q \in Readers \ {r} : queue'[q] = queue[q]
  BY <1>1, <1>6 DEF TypeOK
<1> QED BY <1>3, <1>4, <1>5, <1>7

LEMMA EndNext == ASSUME IInv, [Next]_vars PROVE EndInv'
<1>0. TypeOK /\ CallInv /\ LimitsInv /\ EndInv
  BY DEF IInv
<1>1. ASSUME NEW r \in Subscribes, Subscribe(r) \/ SubscribeFails(r) PROVE EndInv'
  <2>1. CASE Subscribe(r)
    <3>1. core' = [core EXCEPT ![r] = "sent"] /\ waiting' = [waiting EXCEPT ![r] = "waiting"]
      BY <2>1 DEF Subscribe
    <3>2. UNCHANGED <<tables, pending, queue>>
      BY <2>1 DEF Subscribe
    <3> QED BY <1>0, <3>1, <3>2 DEF TypeOK, EndInv, tables, pending
  <2>2. CASE SubscribeFails(r)
    BY <1>0, <2>2 DEF SubscribeFails, TypeOK, EndInv, pending
  <2> QED BY <1>1, <2>1, <2>2
<1>2. ASSUME NEW r \in Subscribes, PublishDone(r) PROVE EndInv'
  <2>0. /\ core[r] = "ok" /\ core' = [core EXCEPT ![r] = "done"]
        /\ UNCHANGED <<subscriptions, waiting>>
    BY <1>2 DEF PublishDone, tables
  <2>1. CASE r \in subscriptions
    <3>1. /\ queue' = [queue EXCEPT ![r] = Append(@, End)]
          /\ UNCHANGED <<pending_terminations, forgotten>>
      BY <1>2, <2>1 DEF PublishDone
    <3>2. \A q \in Readers : \A x :
              Contains(queue'[q], x) <=> Contains(queue[q], x) \/ (q = r /\ x = End)
      BY <1>0, <3>1, QueueGrows
    <3>3. waiting[r] # "resolved"
      BY <1>0, <2>1 DEF CallInv
    <3> QED BY <1>0, <2>0, <3>1, <3>2, <3>3 DEF TypeOK, EndInv
  <2>2. CASE r \notin subscriptions
    <3>1. Remember(r) /\ UNCHANGED queue
      BY <1>2, <2>2 DEF PublishDone
    <3>2. /\ Contains(pending_terminations', r)
          /\ \A x \in forgotten : x \in forgotten'
          /\ \A x : Contains(pending_terminations, x)
                      => Contains(pending_terminations', x) \/ x \in forgotten'
      BY <1>0, <3>1, OfRemember DEF TypeOK, LimitsInv
    <3>3. waiting[r] # "returned"
      BY <1>0, <2>0, <2>2 DEF EndInv
    <3> QED BY <1>0, <2>0, <3>1, <3>2, <3>3 DEF TypeOK, EndInv
  <2> QED BY <2>1, <2>2
<1>3. ASSUME NEW r \in Subscribes, NEW s \in DataStreams, SubscribedObject(r, s) PROVE EndInv'
  <2>1. UNCHANGED <<core, waiting, tables, pending_terminations, forgotten>>
    BY <1>3 DEF SubscribedObject
  <2>2. \A q \in Readers : \A x : Contains(queue[q], x) => Contains(queue'[q], x)
    BY <1>0, <1>3, ReportedObject
  <2> QED BY <1>0, <2>1, <2>2 DEF EndInv, tables
<1>4. ASSUME NEW r \in Subscribes, NEW n \in 0 .. Objects[r]["held"], Subscribed(r, n) PROVE EndInv'
  <2>1. /\ waiting[r] = "resolved" /\ waiting' = [waiting EXCEPT ![r] = "returned"]
        /\ subscriptions' = subscriptions \cup {r} /\ UNCHANGED <<core, forgotten>>
        /\ pending_terminations' = RemoveFirst(pending_terminations, r)
    BY <1>4 DEF Subscribed
  <2>2. \A x : Contains(pending_terminations, x) /\ x # r => Contains(pending_terminations', x)
    BY <1>0, <2>1, OfRemoveFirst DEF TypeOK
  <2>3. /\ \A q \in Readers \ {r} : queue'[q] = queue[q]
        /\ Contains(pending_terminations, r) => Contains(queue'[r], End)
    BY <1>0, <1>4, RegisteredQueue
  <2> QED BY <1>0, <2>1, <2>2, <2>3 DEF TypeOK, EndInv
<1>5. ASSUME NEW r \in Fetches, Fetch(r) \/ FetchedObject(r) \/ Fetched(r) PROVE EndInv'
  <2>1. /\ UNCHANGED <<subscriptions, pending_terminations, forgotten>>
        /\ \A q \in Subscribes : /\ core'[q] = core[q] /\ waiting'[q] = waiting[q]
                                 /\ queue'[q] = queue[q]
    BY <1>0, <1>5 DEF Fetch, FetchedObject, Fetched, TypeOK, tables, pending
  <2> QED BY <1>0, <2>1 DEF EndInv
<1>6. ASSUME NEW r \in Readers, Answer(r) \/ Refuse(r) \/ Cancel(r) PROVE EndInv'
  <2>1. CASE Answer(r)
    <3>1. /\ core[r] = "sent" /\ core' = [core EXCEPT ![r] = "ok"]
          /\ waiting' = [waiting EXCEPT ![r] = IF @ = "waiting" THEN "resolved" ELSE @]
          /\ UNCHANGED <<subscriptions, pending_terminations, forgotten, queue>>
      BY <2>1 DEF Answer, tables, pending
    <3> QED BY <1>0, <3>1 DEF TypeOK, CallInv, EndInv
  <2>2. CASE Refuse(r) \/ Cancel(r)
    BY <1>0, <2>2 DEF Refuse, Cancel, TypeOK, CallInv, EndInv, tables, pending
  <2> QED BY <1>6, <2>1, <2>2
<1>7. ASSUME NEW r \in Others, Other(r) PROVE EndInv'
  BY <1>0, <1>7 DEF Other, TypeOK, EndInv, tables, pending
<1>8. ASSUME NEW r \in Requests, Terminate(r) PROVE EndInv'
  <2>0. /\ \E c \in {"ended", "gone"} : core' = [core EXCEPT ![r] = c]
        /\ UNCHANGED waiting
        /\ r \in Subscribes => core[r] \in {"ok", "done", "refused"}
    BY <1>8 DEF Terminate
  <2>1. CASE r \in subscriptions
    <3>1. /\ subscriptions' = subscriptions \ {r} /\ queue' = [queue EXCEPT ![r] = Append(@, End)]
          /\ UNCHANGED <<pending_terminations, forgotten>>
      BY <1>8, <2>1 DEF Terminate, Unregister
    <3>2. r \in Subscribes /\ waiting[r] # "resolved"
      BY <1>0, <2>1 DEF TypeOK, CallInv
    <3>3. \A q \in Readers : \A x :
              Contains(queue'[q], x) <=> Contains(queue[q], x) \/ (q = r /\ x = End)
      BY <1>0, <3>1, <3>2, QueueGrows
    <3> QED BY <1>0, <2>0, <3>1, <3>2, <3>3 DEF TypeOK, EndInv
  <2>2. CASE r \notin subscriptions /\ r \in fetches
    <3>1. /\ queue' = [queue EXCEPT ![r] = Append(@, End)]
          /\ UNCHANGED <<subscriptions, pending>>
      BY <1>8, <2>2 DEF Terminate
    <3>2. r \in Fetches /\ r \notin Subscribes
      BY <1>0, <2>2 DEF TypeOK
    <3>3. \A q \in Readers : \A x :
              Contains(queue'[q], x) <=> Contains(queue[q], x) \/ (q = r /\ x = End)
      BY <1>0, <3>1, <3>2, QueueGrows
    <3> QED BY <1>0, <2>0, <3>1, <3>2, <3>3 DEF TypeOK, EndInv, pending
  <2>3. CASE r \notin subscriptions /\ r \notin fetches
    <3>1. Remember(r) /\ UNCHANGED <<subscriptions, queue>>
      BY <1>8, <2>3 DEF Terminate
    <3>2. /\ Contains(pending_terminations', r)
          /\ \A x \in forgotten : x \in forgotten'
          /\ \A x : Contains(pending_terminations, x)
                      => Contains(pending_terminations', x) \/ x \in forgotten'
      BY <1>0, <3>1, OfRemember DEF TypeOK, LimitsInv
    <3>3. r \in Subscribes /\ waiting[r] = "returned" => core[r] = "done"
      BY <1>0, <2>0, <2>3 DEF CallInv, EndInv
    <3> QED BY <1>0, <2>0, <3>1, <3>2, <3>3 DEF TypeOK, EndInv
  <2> QED BY <2>1, <2>2, <2>3
<1>9. ASSUME NEW r \in Requests, Cleanup(r) PROVE EndInv'
  BY <1>0, <1>9 DEF Cleanup, TypeOK, EndInv, tables, pending
<1>10. CASE SessionEnds \/ Close
  BY <1>0, <1>10 DEF SessionEnds, Close, TypeOK, EndInv, tables, pending
<1>11. CASE UNCHANGED vars
  BY <1>0, <1>11 DEF vars, EndInv
<1> QED BY <1>1, <1>2, <1>3, <1>4, <1>5, <1>6, <1>7, <1>8, <1>9, <1>10, <1>11 DEF Next

LEMMA FetchNext == ASSUME IInv, [Next]_vars PROVE FetchInv'
<1>0. /\ TypeOK /\ CallInv /\ FetchInv
      /\ "live" \in DataStreams /\ \A r \in Fetches : r \in Readers /\ arrived[r]["live"] \in Nat
  BY DEF IInv, TypeOK, DataStreams
<1>1. ASSUME NEW r \in Subscribes,
             Subscribe(r) \/ SubscribeFails(r) \/ PublishDone(r) PROVE FetchInv'
  <2>1. /\ UNCHANGED <<fetches, arrived>>
        /\ \A q \in Fetches : core'[q] = core[q] /\ queue'[q] = queue[q]
    BY <1>0, <1>1 DEF Subscribe, SubscribeFails, PublishDone, TypeOK, tables
  <2> QED BY <1>0, <2>1 DEF FetchInv
<1>2. ASSUME NEW r \in Subscribes, NEW s \in DataStreams, SubscribedObject(r, s) PROVE FetchInv'
  <2>1. UNCHANGED <<fetches, core>>
    BY <1>2 DEF SubscribedObject, tables
  <2>2. \A q \in Readers : \A x : Contains(queue[q], x) => Contains(queue'[q], x)
    BY <1>0, <1>2, ReportedObject
  <2>3. \A q \in Fetches : arrived'[q] = arrived[q]
    BY <1>0, <1>2 DEF SubscribedObject, TypeOK
  <2> QED BY <1>0, <2>1, <2>2, <2>3 DEF FetchInv
<1>3. ASSUME NEW r \in Subscribes, NEW n \in 0 .. Objects[r]["held"], Subscribed(r, n) PROVE FetchInv'
  <2>1. UNCHANGED <<fetches, core>>
    BY <1>3 DEF Subscribed
  <2>2. \A q \in Fetches : arrived'[q] = arrived[q] /\ queue'[q] = queue[q]
    BY <1>0, <1>3 DEF Subscribed, TypeOK
  <2> QED BY <1>0, <2>1, <2>2 DEF FetchInv
<1>4. ASSUME NEW r \in Fetches, Fetch(r) PROVE FetchInv'
  BY <1>0, <1>4 DEF Fetch, Callable, TypeOK, FetchInv
<1>5. ASSUME NEW r \in Fetches, FetchedObject(r) PROVE FetchInv'
  <2> DEFINE o == Object(r, "live", arrived[r]["live"] + 1)
  <2>1. UNCHANGED <<core, fetches>> /\ core[r] \in {"sent", "ok"} /\ r \in fetches
    BY <1>0, <1>5 DEF FetchedObject, FetchInv, tables
  <2>2. o \in AnObject \cup {End}
    BY <1>0, <1>5, ObjectComes DEF FetchedObject
  <2>3. queue' = [q \in Readers |-> IF q \in fetches THEN Append(queue[q], o) ELSE queue[q]]
    BY <1>5 DEF FetchedObject
  <2>4. \A q \in Readers, t \in DataStreams :
              arrived'[q][t] = IF q = r /\ t = "live" THEN arrived[q][t] + 1 ELSE arrived[q][t]
    <3>1. PICK s \in DataStreams, n \in Nat : s = "live" /\ n = 1
      BY <1>0
    <3>2. arrived' = [arrived EXCEPT ![r][s] = @ + n]
      BY <1>5, <3>1 DEF FetchedObject
    <3>3. \A q \in Readers, t \in DataStreams :
              arrived'[q][t] = IF q = r /\ t = s THEN arrived[q][t] + n ELSE arrived[q][t]
      <4>1. TypeOK /\ r \in Readers
        BY <1>0
      <4> QED BY ONLY <4>1, <3>1, <3>2, CountGrows
    <3> QED BY <3>1, <3>3
  <2> HIDE DEF o
  <2>5. ASSUME NEW q \in Readers, NEW x
        PROVE  /\ Contains(queue[q], x) => Contains(queue'[q], x)
               /\ q \in fetches => Contains(queue'[q], o)
    <3>1. PICK s \in Seq(AnObject \cup {End}) : s = queue[q]
      BY <1>0 DEF TypeOK
    <3>2. \A y : Contains(Append(s, o), y) <=> Contains(s, y) \/ y = o
      BY <2>2, OfAppend
    <3>3. queue'[q] = IF q \in fetches THEN Append(s, o) ELSE s
      BY <2>3, <3>1
    <3> QED BY <3>1, <3>2, <3>3
  <2>6. ASSUME NEW q \in Fetches, core'[q] \in {"idle", "sent", "ok"},
               NEW k \in 1 .. arrived'[q]["live"]
        PROVE  Contains(queue'[q], Object(q, "live", k))
    <3>1. CASE q = r /\ k = arrived[r]["live"] + 1
      BY <1>0, <2>1, <2>5, <3>1 DEF o
    <3>2. CASE ~(q = r /\ k = arrived[r]["live"] + 1)
      <4>1. arrived'[q]["live"] = IF q = r THEN arrived[q]["live"] + 1 ELSE arrived[q]["live"]
        BY <1>0, <2>4
      <4>2. k \in Nat /\ arrived[q]["live"] \in Nat /\ 1 <= k /\ k <= arrived'[q]["live"]
        BY <1>0, <2>6, <4>1
      <4>3. k \in 1 .. arrived[q]["live"]
        BY <3>2, <4>1, <4>2
      <4>4. Contains(queue[q], Object(q, "live", k))
        BY <1>0, <2>1, <2>6, <4>3 DEF FetchInv
      <4> QED BY <1>0, <2>5, <4>4
    <3> QED BY <3>1, <3>2
  <2> QED BY <1>0, <2>1, <2>6 DEF FetchInv
<1>6. ASSUME NEW r \in Fetches, Fetched(r) PROVE FetchInv'
  <2>1. /\ waiting[r] = "resolved" /\ fetches' = fetches \cup {r}
        /\ queue' = (IF r \in fetches THEN queue ELSE [queue EXCEPT ![r] = <<>>])
        /\ UNCHANGED <<core, arrived>>
    BY <1>6 DEF Fetched
  <2>2. r \notin fetches => core[r] \notin {"idle", "sent", "ok"}
    BY <1>0, <2>1 DEF CallInv, FetchInv
  <2> QED BY <1>0, <2>1, <2>2 DEF TypeOK, FetchInv
<1>7. ASSUME NEW r \in Readers, Answer(r) \/ Refuse(r) \/ Cancel(r) PROVE FetchInv'
  <2>1. /\ UNCHANGED <<fetches, arrived, queue>>
        /\ \A q \in Fetches : \/ core'[q] = core[q]
                              \/ core[q] = "sent" /\ core'[q] \in {"ok", "refused"}
    BY <1>0, <1>7 DEF Answer, Refuse, Cancel, TypeOK, tables
  <2> QED BY <1>0, <2>1 DEF FetchInv
<1>8. ASSUME NEW r \in Others, Other(r) PROVE FetchInv'
  <2>1. /\ UNCHANGED <<fetches, arrived, queue>>
        /\ \A q \in Fetches : core'[q] = core[q]
    BY <1>0, <1>8 DEF Other, TypeOK, tables
  <2> QED BY <1>0, <2>1 DEF FetchInv
<1>9. ASSUME NEW r \in Requests, Terminate(r) PROVE FetchInv'
  <2>1. /\ UNCHANGED arrived
        /\ \A q \in Fetches \ {r} : q \in fetches => q \in fetches'
        /\ \E c \in {"ended", "gone"} : core' = [core EXCEPT ![r] = c]
        /\ \/ queue' = [queue EXCEPT ![r] = Append(@, End)]
           \/ UNCHANGED queue
    BY <1>9 DEF Terminate, Unregister
  <2> QED BY <1>0, <2>1 DEF TypeOK, FetchInv
<1>10. ASSUME NEW r \in Requests, Cleanup(r) PROVE FetchInv'
  BY <1>0, <1>10 DEF Cleanup, TypeOK, FetchInv, tables
<1>11. CASE SessionEnds \/ Close \/ UNCHANGED vars
  BY <1>0, <1>11 DEF SessionEnds, Close, FetchInv, vars, tables
<1> QED BY <1>1, <1>2, <1>3, <1>4, <1>5, <1>6, <1>7, <1>8, <1>9, <1>10, <1>11 DEF Next

LEMMA AliasNext == ASSUME IInv, [Next]_vars PROVE AliasInv'
<1>0. TypeOK /\ CallInv /\ AliasInv /\ NoRequest \notin Subscribes
  BY DEF IInv
\* A waiting coroutine that goes on does not concern an alias.
<1>1. ASSUME UNCHANGED <<by_alias, pending_objects>>,
             \A q \in Subscribes : waiting'[q] = waiting[q] \/ waiting[q] \in {"none", "waiting", "resolved"}
      PROVE  AliasInv'
  <2> SUFFICES ASSUME NEW a \in Aliases, by_alias'[a] # NoRequest
               PROVE  /\ waiting'[by_alias'[a]] \in {"returned", "raised"}
                      /\ waiting'[by_alias'[a]] = "returned" => pending_objects'[a] = <<>>
    BY DEF AliasInv
  <2>1. PICK q \in Subscribes : q = by_alias[a]
    BY <1>0, <1>1 DEF TypeOK
  <2>2. /\ waiting[q] \in {"returned", "raised"}
        /\ waiting[q] = "returned" => pending_objects[a] = <<>>
    BY <1>0, <1>1, <2>1 DEF AliasInv
  <2>3. waiting'[q] = waiting[q]
    BY <1>1, <2>2
  <2> QED BY <1>1, <2>1, <2>2, <2>3
<1>2. ASSUME NEW r \in Subscribes, Subscribe(r) PROVE AliasInv'
  <2>1. waiting[r] = "none"
    BY <1>0, <1>2 DEF Subscribe, Callable, CallInv
  <2> QED BY <1>0, <1>1, <1>2, <2>1 DEF Subscribe, TypeOK, tables, pending
<1>3. ASSUME NEW r \in Subscribes, SubscribeFails(r) PROVE AliasInv'
  <2>1. /\ waiting[r] = "resolved" /\ waiting' = [waiting EXCEPT ![r] = "raised"]
        /\ by_alias' = [by_alias EXCEPT ![ReadAlias(r)] = r] /\ UNCHANGED pending_objects
    BY <1>3 DEF SubscribeFails, pending
  <2>2. waiting'[r] = "raised" /\ \A q \in Readers \ {r} : waiting'[q] = waiting[q]
    BY <1>0, <2>1 DEF TypeOK
  <2>3. ReadAlias(r) \in Aliases
    BY AliasIsRead
  <2> QED BY <1>0, <2>1, <2>2, <2>3 DEF TypeOK, AliasInv
<1>4. ASSUME NEW r \in Subscribes, PublishDone(r) PROVE AliasInv'
  BY <1>1, <1>4 DEF PublishDone, tables
<1>5. ASSUME NEW r \in Subscribes, NEW s \in DataStreams, SubscribedObject(r, s) PROVE AliasInv'
  <2>1. UNCHANGED <<waiting, by_alias>>
    BY <1>5 DEF SubscribedObject, tables
  <2>2. \A a \in Aliases : by_alias[a] # NoRequest => pending_objects'[a] = pending_objects[a]
    <3>1. CASE Receiver(r) # NoRequest
      BY <1>5, <3>1 DEF SubscribedObject
    <3>2. CASE Receiver(r) = NoRequest
      BY <1>0, <1>5, <3>2 DEF SubscribedObject, Receiver, TypeOK
    <3> QED BY <3>1, <3>2
  <2> QED BY <1>0, <2>1, <2>2 DEF AliasInv
<1>6. ASSUME NEW r \in Subscribes, NEW n \in 0 .. Objects[r]["held"], Subscribed(r, n) PROVE AliasInv'
  <2>1. /\ waiting[r] = "resolved" /\ waiting' = [waiting EXCEPT ![r] = "returned"]
        /\ by_alias' = [by_alias EXCEPT ![ReadAlias(r)] = r]
        /\ pending_objects' = [pending_objects EXCEPT ![ReadAlias(r)] = <<>>]
    BY <1>6 DEF Subscribed
  <2>2. waiting'[r] = "returned" /\ \A q \in Readers \ {r} : waiting'[q] = waiting[q]
    BY <1>0, <2>1 DEF TypeOK
  <2>3. ReadAlias(r) \in Aliases
    BY AliasIsRead
  <2> QED BY <1>0, <2>1, <2>2, <2>3 DEF TypeOK, AliasInv
<1>7. ASSUME NEW r \in Fetches, Fetch(r) \/ FetchedObject(r) \/ Fetched(r) PROVE AliasInv'
  <2>1. UNCHANGED <<by_alias, pending_objects>> /\ \A q \in Subscribes : waiting'[q] = waiting[q]
    BY <1>0, <1>7 DEF Fetch, FetchedObject, Fetched, TypeOK, tables, pending
  <2> QED BY <1>1, <2>1
<1>8. ASSUME NEW r \in Readers, Answer(r) \/ Refuse(r) \/ Cancel(r) PROVE AliasInv'
  <2>1. UNCHANGED <<by_alias, pending_objects>>
    BY <1>8 DEF Answer, Refuse, Cancel, tables, pending
  <2>2. \A q \in Subscribes : waiting'[q] = waiting[q] \/ waiting[q] \in {"none", "waiting", "resolved"}
    BY <1>0, <1>8 DEF Answer, Refuse, Cancel, TypeOK
  <2> QED BY <1>1, <2>1, <2>2
<1>9. ASSUME NEW r \in Requests, Other(r) \/ Cleanup(r) PROVE AliasInv'
  BY <1>1, <1>9 DEF Other, Cleanup, tables, pending
<1>10. ASSUME NEW r \in Requests, Terminate(r) PROVE AliasInv'
  <2>1. CASE r \in subscriptions
    <3>1. /\ by_alias' = [by_alias EXCEPT ![track_alias[r]] = NoRequest]
          /\ pending_objects' = [pending_objects EXCEPT ![track_alias[r]] = <<>>]
          /\ UNCHANGED waiting
      BY <1>10, <2>1 DEF Terminate, Unregister
    <3> QED BY <1>0, <3>1 DEF TypeOK, AliasInv
  <2>2. CASE r \notin subscriptions
    BY <1>1, <1>10, <2>2 DEF Terminate, pending
  <2> QED BY <2>1, <2>2
<1>11. CASE SessionEnds
  <2>1. \A q \in Subscribes : waiting'[q] = waiting[q] \/ waiting[q] \in {"none", "waiting", "resolved"}
    BY <1>11 DEF SessionEnds
  <2> QED BY <1>1, <1>11, <2>1 DEF SessionEnds, tables, pending
<1>12. CASE Close
  BY <1>0, <1>12 DEF Close, AliasInv, tables
<1>13. CASE UNCHANGED vars
  BY <1>1, <1>13 DEF vars
<1> QED BY <1>2, <1>3, <1>4, <1>5, <1>6, <1>7, <1>8, <1>9, <1>10, <1>11, <1>12, <1>13 DEF Next

-----------------------------------------------------------------------------
(* What holds whatever the aliases.                                        *)

\* The invariant holds in every state.
THEOREM Invariant == Spec => []IInv
<1>1. Init => IInv
  BY InitInv
<1>2. IInv /\ [Next]_vars => IInv'
  <2> SUFFICES ASSUME IInv, [Next]_vars PROVE IInv'
    OBVIOUS
  <2>1. TypeOK'
    BY TypesNext DEF IInv
  <2> QED BY <2>1, CallNext, LimitsNext, EndNext, FetchNext, AliasNext DEF IInv
<1> QED BY <1>1, <1>2, PTL DEF Spec

\* All variables keep their types.
THEOREM TypeCorrect == Spec => []TypeOK
<1>1. IInv => TypeOK
  BY DEF IInv
<1> QED BY <1>1, Invariant, PTL

\* The two buffers of Client keep to MAX_PENDING_OBJECTS_PER_ALIAS and
\* MAX_PENDING_TERMINATIONS, and a request is remembered once.
THEOREM LimitsAreKept == Spec => []LimitsHold
<1>1. IInv => LimitsHold
  <2> SUFFICES ASSUME IInv PROVE LimitsHold
    OBVIOUS
  <2>1. pending_terminations \in Seq(Requests) /\ LimitsInv
    BY DEF IInv, TypeOK
  <2>2. Cardinality(ToSet(pending_terminations)) = Len(pending_terminations)
    BY <2>1, UniqueCounts DEF LimitsInv
  <2> QED BY <2>1, <2>2 DEF LimitsInv, LimitsHold
<1> QED BY <1>1, Invariant, PTL

\* An iteration over a subscription that has ended sees the end unless it was
\* discarded at the limit, and a fetch gets every object while it lasts.
THEOREM NothingIsMissed == Spec => []NothingMissed
<1>1. IInv => NothingMissed
  <2> SUFFICES ASSUME IInv PROVE NothingMissed
    OBVIOUS
  <2>1. EndSeen
    BY DEF IInv, EndInv, EndSeen
  <2>2. FetchMissesNothing
    BY DEF IInv, FetchInv, FetchMissesNothing
  <2> QED BY <2>1, <2>2 DEF NothingMissed
<1> QED BY <1>1, Invariant, PTL

-----------------------------------------------------------------------------
(* Who has an alias, and which subscriptions are in the tables.            *)

\* What a step may do to the state of a subscription in the session.
LEMMA CoreStep ==
  ASSUME TypeOK, [Next]_vars, NEW r \in Subscribes
  PROVE  /\ sharing \subseteq sharing'
         /\ \/ core'[r] = core[r]
            \/ core[r] = "idle" /\ core'[r] = "sent"
            \/ Answer(r) /\ core[r] = "sent" /\ core'[r] = "ok"
            \/ core[r] = "sent" /\ core'[r] = "refused"
            \/ core[r] = "ok" /\ core'[r] = "done"
            \/ core[r] \in {"ok", "done"} /\ core'[r] \in {"ended", "gone"}
            \/ core[r] \in {"refused", "ended"} /\ core'[r] = "gone"
<1> USE DEF TypeOK
<1>1. ASSUME NEW q \in Subscribes, Subscribe(q) \/ SubscribeFails(q) \/ PublishDone(q)
      PROVE  /\ UNCHANGED sharing
             /\ \/ core'[r] = core[r]
                \/ core[r] = "idle" /\ core'[r] = "sent"
                \/ core[r] = "ok" /\ core'[r] = "done"
  BY <1>1 DEF Subscribe, Callable, SubscribeFails, PublishDone
<1>2. ASSUME NEW q \in Subscribes, \/ \E s \in DataStreams : SubscribedObject(q, s)
                                   \/ \E n \in 0 .. Objects[q]["held"] : Subscribed(q, n)
      PROVE  UNCHANGED <<core, sharing>>
  BY <1>2 DEF SubscribedObject, Subscribed
<1>3. ASSUME NEW q \in Fetches, Fetch(q) \/ FetchedObject(q) \/ Fetched(q)
      PROVE  UNCHANGED sharing /\ core'[r] = core[r]
  BY <1>3 DEF Fetch, FetchedObject, Fetched
<1>4. ASSUME NEW q \in Readers, Answer(q)
      PROVE  /\ sharing \subseteq sharing'
             /\ \/ core'[r] = core[r]
                \/ Answer(r) /\ core[r] = "sent" /\ core'[r] = "ok"
  <2>1. /\ core[q] = "sent" /\ core' = [core EXCEPT ![q] = "ok"]
        /\ sharing' = IF q \in Subscribes /\ SameAlias(q) # {}
                      THEN sharing \cup {q} \cup SameAlias(q) ELSE sharing
    BY <1>4 DEF Answer
  <2>2. core'[r] = IF r = q THEN "ok" ELSE core[r]
    BY <2>1
  <2> QED BY <1>4, <2>1, <2>2
<1>5. ASSUME NEW q \in Readers, Refuse(q) \/ Cancel(q)
      PROVE  /\ UNCHANGED sharing
             /\ core'[r] = core[r] \/ (core[r] = "sent" /\ core'[r] = "refused")
  BY <1>5 DEF Refuse, Cancel
<1>6. ASSUME NEW q \in Others, Other(q) PROVE UNCHANGED sharing /\ core'[r] = core[r]
  BY <1>6 DEF Other
<1>7. ASSUME NEW q \in Requests, Terminate(q)
      PROVE  /\ UNCHANGED sharing
             /\ \/ core'[r] = core[r]
                \/ core[r] \in {"ok", "done"} /\ core'[r] \in {"ended", "gone"}
                \/ core[r] = "refused" /\ core'[r] = "gone"
  <2>1. PICK c \in IF core[q] = "refused" THEN {"gone"} ELSE {"ended", "gone"} :
          core' = [core EXCEPT ![q] = c]
    BY <1>7 DEF Terminate
  <2>2. core[q] \in {"ok", "done", "refused"} \/ q \in Fetches
    BY <1>7 DEF Terminate
  <2>3. core'[r] = IF r = q THEN c ELSE core[r]
    BY <2>1
  <2> QED BY <1>7, <2>1, <2>2, <2>3 DEF Terminate
<1>8. ASSUME NEW q \in Requests, Cleanup(q)
      PROVE  UNCHANGED sharing /\ (core'[r] = core[r] \/ (core[r] = "ended" /\ core'[r] = "gone"))
  BY <1>8 DEF Cleanup
<1>9. ASSUME SessionEnds \/ Close \/ UNCHANGED vars PROVE UNCHANGED <<core, sharing>>
  BY <1>9 DEF SessionEnds, Close, vars
<1> QED BY <1>1, <1>2, <1>3, <1>4, <1>5, <1>6, <1>7, <1>8, <1>9 DEF Next

LEMMA ShareNext == ASSUME TypeOK, ShareInv, [Next]_vars PROVE ShareInv'
<1> SUFFICES ASSUME NEW q \in Subscribes, NEW r \in Subscribes,
                    q # r, Live(q)', Live(r)', TrackAlias[q] = TrackAlias[r]
             PROVE  TrackOf[q] = TrackOf[r] /\ r \in sharing'
  BY DEF ShareInv
<1>1. sharing \subseteq sharing'
  BY CoreStep
<1>2. \A p \in Subscribes : Live(p)' => Live(p) \/ Answer(p)
  BY CoreStep DEF Live
<1>3. CASE Live(q) /\ Live(r)
  BY <1>1, <1>3 DEF ShareInv
<1>4. ASSUME NEW p \in Subscribes, NEW o \in Subscribes, p # o, Answer(p), Live(o)',
             TrackAlias[p] = TrackAlias[o]
      PROVE  TrackOf[p] = TrackOf[o] /\ p \in sharing' /\ o \in sharing'
  <2>1. core' = [core EXCEPT ![p] = "ok"]
    BY <1>4 DEF Answer
  <2>2. core'[o] = core[o]
    BY <1>4, <2>1 DEF TypeOK
  <2>3. o \in SameAlias(p)
    BY <1>4, <2>2 DEF SameAlias, Live
  <2>4. /\ \A x \in SameAlias(p) : TrackOf[x] = TrackOf[p]
        /\ sharing' = IF p \in Subscribes /\ SameAlias(p) # {}
                      THEN sharing \cup {p} \cup SameAlias(p) ELSE sharing
    BY <1>4 DEF Answer
  <2> QED BY <2>3, <2>4
<1> QED BY <1>2, <1>3, <1>4

\* A step that registers neither r nor anything else under its name.
LEMMA QueueStays ==
  ASSUME IInv, [Next]_vars, NEW r \in Subscribes, QueueOK(r),
         queue'[r] = queue[r] \/ r \in subscriptions,
         arrived'[r] = arrived[r] \/ Answered(r),
         track_alias'[r] = track_alias[r],
         r \in subscriptions' => r \in subscriptions,
         \/ waiting'[r] = waiting[r]
         \/ waiting'[r] \in {"raised", "cancelled"}
         \/ waiting[r] \in {"none", "waiting"} /\ waiting'[r] \in {"waiting", "resolved"}
  PROVE  QueueOK(r)'
<1>1. /\ Answered(r) => Answered(r)'
      /\ core[r] = "gone" => core'[r] = "gone"
  BY CoreStep DEF IInv, Answered
<1>2. r \in subscriptions => waiting[r] \in {"returned", "raised"}
  BY DEF IInv, CallInv
<1> QED BY <1>1, <1>2 DEF QueueOK, Untouched, AliasRead

\* subscribe() registers r, with what it picks up or with nothing.
LEMMA Registers ==
  ASSUME IInv, NEW r \in Subscribes, QueueOK(r),
         waiting[r] = "resolved", UNCHANGED core,
         waiting'[r] \in {"returned", "raised"},
         track_alias' = [track_alias EXCEPT ![r] = ReadAlias(r)]
  PROVE  QueueOK(r)'
<1>1. Answered(r) /\ Answered(r)'
  BY DEF IInv, CallInv, Answered
<1>2. AliasRead(r)'
  BY DEF IInv, TypeOK, AliasRead, ReadAlias
<1> QED BY <1>1, <1>2 DEF QueueOK

LEMMA QueueNext == ASSUME IInv, QueueInv, TableInv, [Next]_vars PROVE QueueInv'
<1>0. TypeOK
  BY DEF IInv
<1> SUFFICES ASSUME NEW r \in Subscribes PROVE QueueOK(r)'
  BY DEF QueueInv
<1>1. QueueOK(r) /\ r \in Readers /\ r \notin Fetches
  BY DEF QueueInv
<1>2. ASSUME NEW q \in Subscribes, Subscribe(q) PROVE QueueOK(r)'
  <2>1. waiting[q] = "none"
    BY <1>2 DEF Subscribe, Callable, IInv, CallInv
  <2>2. waiting'[r] = waiting[r] \/ (waiting[r] = "none" /\ waiting'[r] = "waiting")
    BY <1>0, <1>2, <2>1 DEF Subscribe, TypeOK
  <2> QED BY <1>1, <1>2, <2>2, QueueStays DEF Subscribe, tables
<1>3. ASSUME NEW q \in Subscribes, SubscribeFails(q) PROVE QueueOK(r)'
  <2>1. /\ waiting[q] = "resolved" /\ waiting' = [waiting EXCEPT ![q] = "raised"]
        /\ subscriptions' = subscriptions \cup {q}
        /\ track_alias' = [track_alias EXCEPT ![q] = ReadAlias(q)]
        /\ UNCHANGED <<core, arrived, queue>>
    BY <1>3 DEF SubscribeFails
  <2>2. CASE q = r
    BY <1>0, <1>1, <2>1, <2>2, Registers DEF TypeOK
  <2>3. CASE q # r
    BY <1>0, <1>1, <2>1, <2>3, QueueStays DEF TypeOK
  <2> QED BY <2>2, <2>3
<1>4. ASSUME NEW q \in Subscribes, PublishDone(q) PROVE QueueOK(r)'
  <2>1. UNCHANGED <<arrived, waiting, subscriptions, track_alias>>
    BY <1>4 DEF PublishDone, tables
  <2>2. queue'[r] = queue[r] \/ r \in subscriptions
    BY <1>0, <1>4 DEF PublishDone, TypeOK
  <2> QED BY <1>1, <2>1, <2>2, QueueStays
<1>5. ASSUME NEW q \in Subscribes, NEW s \in DataStreams, SubscribedObject(q, s) PROVE QueueOK(r)'
  <2>1. UNCHANGED <<waiting, subscriptions, track_alias>> /\ Live(q)
    BY <1>5 DEF SubscribedObject, tables
  <2>2. arrived'[r] = arrived[r] \/ Answered(r)
    BY <1>0, <1>5, <2>1 DEF SubscribedObject, TypeOK, Live, Answered
  <2>3. queue'[r] = queue[r] \/ r \in subscriptions
    <3>1. CASE Receiver(q) # NoRequest
      <4>1. Receiver(q) \in subscriptions
        BY <3>1 DEF Receiver, TableInv
      <4>2. queue' = [queue EXCEPT ![Receiver(q)] = Append(@, Object(q, s, arrived[q][s] + 1))]
        BY <1>5, <3>1 DEF SubscribedObject
      <4> QED BY <1>0, <1>1, <4>1, <4>2 DEF TypeOK
    <3>2. CASE Receiver(q) = NoRequest
      BY <1>5, <3>2 DEF SubscribedObject
    <3> QED BY <3>1, <3>2
  <2> QED BY <1>1, <2>1, <2>2, <2>3, QueueStays
<1>6. ASSUME NEW q \in Subscribes, NEW n \in 0 .. Objects[q]["held"], Subscribed(q, n)
      PROVE  QueueOK(r)'
  <2>1. /\ waiting[q] = "resolved" /\ waiting' = [waiting EXCEPT ![q] = "returned"]
        /\ subscriptions' = subscriptions \cup {q}
        /\ track_alias' = [track_alias EXCEPT ![q] = ReadAlias(q)]
        /\ queue' = [queue EXCEPT ![q] = @ \o PickedUp(q, n)]
        /\ arrived' = [arrived EXCEPT ![q]["held"] = @ + n]
        /\ UNCHANGED core
    BY <1>6 DEF Subscribed
  <2>2. CASE q = r
    BY <1>0, <1>1, <2>1, <2>2, Registers DEF TypeOK
  <2>3. CASE q # r
    <3>1. /\ queue'[r] = queue[r] /\ arrived'[r] = arrived[r] /\ waiting'[r] = waiting[r]
          /\ track_alias'[r] = track_alias[r]
          /\ r \in subscriptions' => r \in subscriptions
      BY <1>0, <1>1, <2>1, <2>3 DEF TypeOK
    <3> QED BY <1>1, <3>1, QueueStays
  <2> QED BY <2>2, <2>3
<1>7. ASSUME NEW q \in Fetches, Fetch(q) \/ FetchedObject(q) \/ Fetched(q) PROVE QueueOK(r)'
  <2>1. UNCHANGED <<subscriptions, track_alias>>
    BY <1>7 DEF Fetch, FetchedObject, Fetched, tables
  <2>2. r # q /\ r \notin fetches
    BY <1>0, <1>1, <1>7 DEF TypeOK
  <2>3. arrived'[r] = arrived[r] /\ queue'[r] = queue[r] /\ waiting'[r] = waiting[r]
    BY <1>0, <1>1, <1>7, <2>2 DEF Fetch, FetchedObject, Fetched, TypeOK
  <2> QED BY <1>1, <2>1, <2>3, QueueStays
<1>8. ASSUME NEW q \in Readers, Answer(q) PROVE QueueOK(r)'
  <2>1. /\ UNCHANGED <<arrived, subscriptions, track_alias, queue>>
        /\ waiting' = [waiting EXCEPT ![q] = IF @ = "waiting" THEN "resolved" ELSE @]
    BY <1>8 DEF Answer, tables
  <2>2. waiting'[r] = waiting[r] \/ (waiting[r] = "waiting" /\ waiting'[r] = "resolved")
    BY <1>0, <1>1, <2>1 DEF TypeOK
  <2> QED BY <1>1, <2>1, <2>2, QueueStays
<1>9. ASSUME NEW q \in Readers, Refuse(q) \/ Cancel(q) PROVE QueueOK(r)'
  <2>1. UNCHANGED <<arrived, subscriptions, track_alias, queue>>
    BY <1>9 DEF Refuse, Cancel, tables
  <2>2. waiting'[r] = waiting[r] \/ waiting'[r] \in {"raised", "cancelled"}
    BY <1>0, <1>1, <1>9 DEF Refuse, Cancel, TypeOK
  <2> QED BY <1>1, <2>1, <2>2, QueueStays
<1>10. ASSUME NEW q \in Requests, Other(q) \/ Cleanup(q) PROVE QueueOK(r)'
  BY <1>1, <1>10, QueueStays DEF Other, Cleanup, tables
<1>11. ASSUME NEW q \in Requests, Terminate(q) PROVE QueueOK(r)'
  <2>1. UNCHANGED <<arrived, waiting, track_alias>>
    BY <1>11 DEF Terminate
  <2>2. r \in subscriptions' => r \in subscriptions
    BY <1>11 DEF Terminate, Unregister
  <2>3. queue'[r] = queue[r] \/ r \in subscriptions
    <3>1. \/ queue' = queue
          \/ queue' = [queue EXCEPT ![q] = Append(@, End)] /\ (q \in subscriptions \/ q \in fetches)
      BY <1>11 DEF Terminate, Unregister
    <3> QED BY <1>0, <1>1, <3>1 DEF TypeOK
  <2> QED BY <1>1, <2>1, <2>2, <2>3, QueueStays
<1>12. CASE SessionEnds
  <2>1. UNCHANGED <<arrived, subscriptions, track_alias, queue>>
    BY <1>12 DEF SessionEnds, tables
  <2>2. waiting'[r] = waiting[r] \/ waiting'[r] \in {"raised", "cancelled"}
    BY <1>1, <1>12 DEF SessionEnds
  <2> QED BY <1>1, <2>1, <2>2, QueueStays
<1>13. CASE Close \/ UNCHANGED vars
  BY <1>1, <1>13, QueueStays DEF Close, vars, tables
<1> QED BY <1>2, <1>3, <1>4, <1>5, <1>6, <1>7, <1>8, <1>9, <1>10, <1>11, <1>12, <1>13 DEF Next

LEMMA TableNext == ASSUME IInv, TableInv, [Next]_vars PROVE TableInv'
<1>0. TypeOK
  BY DEF IInv
<1>1. ASSUME UNCHANGED <<subscriptions, by_alias, track_alias>> PROVE TableInv'
  BY <1>1 DEF TableInv
<1>2. ASSUME NEW r \in Subscribes,
             SubscribeFails(r) \/ \E n \in 0 .. Objects[r]["held"] : Subscribed(r, n)
      PROVE  TableInv'
  <2>1. /\ waiting[r] = "resolved"
        /\ subscriptions' = subscriptions \cup {r}
        /\ by_alias' = [by_alias EXCEPT ![ReadAlias(r)] = r]
        /\ track_alias' = [track_alias EXCEPT ![r] = ReadAlias(r)]
    BY <1>2 DEF SubscribeFails, Subscribed
  <2>2. r \notin subscriptions
    BY <2>1 DEF IInv, CallInv
  <2>3. ASSUME NEW a \in Aliases, by_alias'[a] # NoRequest
        PROVE  by_alias'[a] \in subscriptions' /\ track_alias'[by_alias'[a]] = a
    <3>1. CASE a = ReadAlias(r)
      BY <1>0, <2>1, <3>1, AliasIsRead DEF TypeOK
    <3>2. CASE a # ReadAlias(r)
      <4>1. by_alias'[a] = by_alias[a]
        BY <1>0, <2>1, <3>2 DEF TypeOK
      <4>2. by_alias[a] \in subscriptions /\ track_alias[by_alias[a]] = a
        BY <2>3, <4>1 DEF TableInv
      <4>3. track_alias'[by_alias[a]] = track_alias[by_alias[a]]
        BY <1>0, <2>1, <2>2, <4>2 DEF TypeOK
      <4> QED BY <2>1, <4>1, <4>2, <4>3
    <3> QED BY <3>1, <3>2
  <2> QED BY <2>3 DEF TableInv
<1>3. ASSUME NEW r \in Requests, Terminate(r) PROVE TableInv'
  <2>1. CASE r \in subscriptions
    <3>1. /\ subscriptions' = subscriptions \ {r}
          /\ by_alias' = [by_alias EXCEPT ![track_alias[r]] = NoRequest]
          /\ UNCHANGED track_alias
      BY <1>3, <2>1 DEF Terminate, Unregister
    <3>2. ASSUME NEW a \in Aliases, by_alias'[a] # NoRequest
          PROVE  by_alias'[a] \in subscriptions' /\ track_alias'[by_alias'[a]] = a
      <4>1. a # track_alias[r] /\ by_alias'[a] = by_alias[a]
        BY <1>0, <3>1, <3>2 DEF TypeOK
      <4>2. by_alias[a] \in subscriptions /\ track_alias[by_alias[a]] = a
        BY <3>2, <4>1 DEF TableInv
      <4> QED BY <3>1, <4>1, <4>2
    <3> QED BY <3>2 DEF TableInv
  <2>2. CASE r \notin subscriptions
    BY <1>1, <1>3, <2>2 DEF Terminate, pending
  <2> QED BY <2>1, <2>2
<1>4. ASSUME NEW r \in Requests,
             \/ Subscribe(r) \/ PublishDone(r) \/ Fetch(r) \/ FetchedObject(r) \/ Fetched(r)
             \/ Answer(r) \/ Refuse(r) \/ Cancel(r) \/ Other(r) \/ Cleanup(r)
             \/ \E s \in DataStreams : SubscribedObject(r, s)
      PROVE  TableInv'
  BY <1>1, <1>4 DEF Subscribe, PublishDone, Fetch, FetchedObject, Fetched, Answer, Refuse, Cancel,
                    Other, Cleanup, SubscribedObject, tables
<1>5. CASE SessionEnds \/ Close \/ UNCHANGED vars
  BY <1>1, <1>5 DEF SessionEnds, Close, vars, tables
<1> QED BY <1>2, <1>3, <1>4, <1>5 DEF Next

LEMMA RouteNext == ASSUME IInv, RouteInv, [Next]_vars PROVE RouteInv'
BY ShareNext, QueueNext, TableNext DEF IInv, RouteInv

-----------------------------------------------------------------------------
(* Where the objects are.                                                  *)

LEMMA Came ==
  \A r, s, k : s \in DataStreams => (CameFor(r, Object(r, s, k)) <=> k \in 1 .. arrived[r][s])
BY Objects3 DEF CameFor

\* What has come stays come.
LEMMA StillCame ==
  ASSUME TypeOK, NEW q \in Readers, NEW x, CameFor(q, x),
         \A t \in DataStreams : arrived'[q][t] \in Nat /\ arrived'[q][t] >= arrived[q][t]
  PROVE  CameFor(q, x)'
<1>1. PICK t \in DataStreams : \E k \in 1 .. arrived[q][t] : x = Object(q, t, k)
  BY DEF CameFor
<1>2. PICK k \in 1 .. arrived[q][t] : x = Object(q, t, k)
  BY <1>1
<1>3. arrived[q][t] \in Nat
  BY DEF TypeOK
<1>4. k \in 1 .. arrived'[q][t]
  BY <1>3
<1> QED BY <1>2, <1>4 DEF CameFor

\* An object that is somewhere came for its own request, whose alias it is there for.
LEMMA Whose ==
  ASSUME ContentInv, NEW r \in Subscribes, NEW s \in DataStreams, NEW k
  PROVE  /\ \A q \in Subscribes : Contains(queue[q], Object(r, s, k))
               => k \in 1 .. arrived[r][s] /\ TrackAlias[r] = track_alias[q]
         /\ \A a \in Aliases : Contains(pending_objects[a], Object(r, s, k))
               => k \in 1 .. arrived[r][s] /\ TrackAlias[r] = a
         /\ Object(r, s, k) \in dropped => k \in 1 .. arrived[r][s]
<1>1. \A q : CameFor(q, Object(r, s, k)) => q = r /\ k \in 1 .. arrived[r][s]
  BY Objects3 DEF CameFor
<1>2. PICK o : o = Object(r, s, k) /\ o # End
  BY Objects3
<1>3. \A q \in Subscribes : CameFor(q, o) => q = r /\ k \in 1 .. arrived[r][s]
  BY <1>1, <1>2
<1>4. ASSUME NEW q \in Subscribes, Contains(queue[q], o)
      PROVE  k \in 1 .. arrived[r][s] /\ TrackAlias[r] = track_alias[q]
  <2>1. PICK u \in Subscribes : TrackAlias[u] = track_alias[q] /\ CameFor(u, o)
    BY <1>2, <1>4 DEF ContentInv
  <2> QED BY <1>3, <2>1
<1>5. ASSUME NEW a \in Aliases, Contains(pending_objects[a], o)
      PROVE  k \in 1 .. arrived[r][s] /\ TrackAlias[r] = a
  <2>1. PICK u \in Subscribes : TrackAlias[u] = a /\ CameFor(u, o)
    BY <1>5 DEF ContentInv
  <2> QED BY <1>3, <2>1
<1>6. o \in dropped => k \in 1 .. arrived[r][s]
  BY <1>3 DEF ContentInv
<1> QED BY <1>2, <1>4, <1>5, <1>6

\* A step that brings no object and moves none.
LEMMA QuietStep ==
  ASSUME HeldInv,
         UNCHANGED <<pending_objects, dropped>>,
         \A r \in Subscribes : arrived'[r] = arrived[r],
         \A r \in Subscribes : \A x :
           x # End => (Contains(queue'[r], x) <=> Contains(queue[r], x)),
         \A r \in Subscribes : track_alias'[r] = track_alias[r] \/ queue[r] = <<>>
  PROVE  HeldInv'
<1>1. \A r \in Subscribes : \A x : CameFor(r, x)' <=> CameFor(r, x)
  BY DEF CameFor
<1>2. ContentInv'
  <2>1. ASSUME NEW q \in Subscribes, NEW x, Contains(queue'[q], x), x # End
        PROVE  \E r \in Subscribes : TrackAlias[r] = track_alias'[q] /\ CameFor(r, x)'
    <3>1. Contains(queue[q], x) /\ queue[q] # <<>>
      BY <2>1, OfNone
    <3>2. PICK r \in Subscribes : TrackAlias[r] = track_alias[q] /\ CameFor(r, x)
      BY <2>1, <3>1 DEF HeldInv, ContentInv
    <3> QED BY <1>1, <3>1, <3>2
  <2> QED BY <1>1, <2>1 DEF HeldInv, ContentInv
<1>3. PlaceInv'
  <2> SUFFICES ASSUME NEW r \in Subscribes, NEW s \in DataStreams, NEW k \in 1 .. arrived'[r][s]
               PROVE  OnePlace(Object(r, s, k))'
    BY DEF PlaceInv
  <2>1. OnePlace(Object(r, s, k)) /\ Object(r, s, k) # End
    BY Objects3 DEF HeldInv, PlaceInv
  <2> QED BY <2>1 DEF OnePlace
<1> QED BY <1>2, <1>3 DEF HeldInv

\* An object of r comes: what had come is where it was, the new one is nowhere yet.
LEMMA NewObject ==
  ASSUME IInv, HeldInv, NEW r \in Subscribes, NEW s \in DataStreams, SubscribedObject(r, s),
         NEW o, o = Object(r, s, arrived[r][s] + 1)
  PROVE  /\ o \in AnObject /\ o # End
         /\ \A q \in Subscribes : ~Contains(queue[q], o)
         /\ \A a \in Aliases : ~Contains(pending_objects[a], o)
         /\ o \notin dropped
         /\ \A q \in Subscribes : \A x : CameFor(q, x) => CameFor(q, x)'
         /\ CameFor(r, o)'
         /\ \A q \in Subscribes : \A t \in DataStreams : \A k \in 1 .. arrived'[q][t] :
              \/ Object(q, t, k) = o
              \/ Object(q, t, k) # o /\ k \in 1 .. arrived[q][t]
<1>1. PICK m : m = arrived[r][s] + 1
  OBVIOUS
<1>2. /\ TypeOK /\ r \in Readers /\ arrived[r][s] \in Nat /\ m \in Nat
      /\ arrived[r][s] < Objects[r][s]
  BY <1>1 DEF IInv, TypeOK, SubscribedObject
<1>3. o \in AnObject /\ o # End
  BY <1>2, ObjectComes, Objects3
<1>4. \A q \in Readers, t \in DataStreams :
        arrived'[q][t] = IF q = r /\ t = s THEN arrived[q][t] + 1 ELSE arrived[q][t]
  <2>1. arrived' = [arrived EXCEPT ![r][s] = @ + 1]
    BY DEF SubscribedObject
  <2> QED BY ONLY <1>2, <2>1, r \in Readers, s \in DataStreams, CountGrows
<1>5. m \notin 1 .. arrived[r][s]
  BY <1>1, <1>2
<1>6. /\ \A q \in Subscribes : ~Contains(queue[q], o)
      /\ \A a \in Aliases : ~Contains(pending_objects[a], o)
      /\ o \notin dropped
  BY <1>1, <1>5, Whose DEF HeldInv
<1>7. \A q \in Subscribes : \A x : CameFor(q, x) => CameFor(q, x)'
  <2> SUFFICES ASSUME NEW q \in Subscribes, NEW x, CameFor(q, x) PROVE CameFor(q, x)'
    OBVIOUS
  <2>1. q \in Readers /\ \A t \in DataStreams : arrived[q][t] \in Nat
    BY <1>2 DEF TypeOK
  <2>2. \A t \in DataStreams : arrived'[q][t] \in Nat /\ arrived'[q][t] >= arrived[q][t]
    BY <1>2, <1>4, <2>1
  <2> QED BY <1>2, <2>1, <2>2, StillCame
<1>8. CameFor(r, o)'
  <2>1. m \in 1 .. arrived'[r][s]
    BY <1>1, <1>2, <1>4
  <2> QED BY <1>1, <2>1 DEF CameFor
<1>9. ASSUME NEW q \in Subscribes, NEW t \in DataStreams, NEW k \in 1 .. arrived'[q][t]
      PROVE  Object(q, t, k) = o \/ (Object(q, t, k) # o /\ k \in 1 .. arrived[q][t])
  <2>1. CASE q = r /\ t = s /\ k = m
    BY <1>1, <2>1
  <2>2. CASE ~(q = r /\ t = s /\ k = m)
    <3>1. Object(q, t, k) # o
      BY <1>1, <2>2, Objects3
    <3>2. q \in Readers /\ arrived[q][t] \in Nat
      BY <1>2 DEF TypeOK
    <3>3. arrived'[q][t] = IF q = r /\ t = s THEN arrived[q][t] + 1 ELSE arrived[q][t]
      BY <1>4, <3>2
    <3> QED BY <1>1, <1>2, <2>2, <3>1, <3>2, <3>3
  <2> QED BY <2>1, <2>2
<1> QED BY <1>3, <1>6, <1>7, <1>8, <1>9

LEMMA SubscribedObjectHeld ==
  ASSUME IInv, TableInv, HeldInv,
         NEW r \in Subscribes, NEW s \in DataStreams, SubscribedObject(r, s)
  PROVE  HeldInv'
<1>1. PICK o, a : o = Object(r, s, arrived[r][s] + 1) /\ a = TrackAlias[r]
  OBVIOUS
<1>2. /\ o \in AnObject /\ o # End /\ a \in Aliases /\ TypeOK
      /\ \A q \in Subscribes : ~Contains(queue[q], o)
      /\ \A c \in Aliases : ~Contains(pending_objects[c], o)
      /\ o \notin dropped
  BY <1>1, NewObject DEF IInv
<1>3. /\ \A q \in Subscribes : \A x : CameFor(q, x) => CameFor(q, x)'
      /\ CameFor(r, o)'
  BY <1>1, NewObject
<1>4. ASSUME NEW q \in Subscribes, NEW t \in DataStreams, NEW k \in 1 .. arrived'[q][t]
      PROVE  Object(q, t, k) = o \/ (Object(q, t, k) # o /\ OnePlace(Object(q, t, k)))
  BY <1>1, NewObject DEF HeldInv, PlaceInv
<1>5. UNCHANGED track_alias
  BY DEF SubscribedObject, tables
<1>6. CASE Receiver(r) # NoRequest
  <2>1. PICK p \in Subscribes : p = Receiver(r) /\ track_alias[p] = a
    BY <1>1, <1>2, <1>6 DEF Receiver, TableInv, TypeOK
  <2>2. queue' = [queue EXCEPT ![p] = Append(@, o)] /\ UNCHANGED <<pending_objects, dropped>>
    BY <1>1, <1>6, <2>1 DEF SubscribedObject
  <2>3. \A q \in Readers : \A x :
          Contains(queue'[q], x) <=> Contains(queue[q], x) \/ (q = p /\ x = o)
    BY <1>2, <2>1, <2>2, QueueGrows
  <2>4. ContentInv'
    <3>1. ASSUME NEW q \in Subscribes, NEW x, Contains(queue'[q], x), x # End
          PROVE  \E u \in Subscribes : TrackAlias[u] = track_alias'[q] /\ CameFor(u, x)'
      <4>1. CASE Contains(queue[q], x)
        BY <1>3, <1>5, <3>1, <4>1 DEF HeldInv, ContentInv
      <4>2. CASE q = p /\ x = o
        BY <1>1, <1>3, <1>5, <2>1, <4>2
      <4> QED BY <2>3, <3>1, <4>1, <4>2
    <3> QED BY <1>3, <2>2, <3>1 DEF HeldInv, ContentInv
  <2>5. PlaceInv'
    <3> SUFFICES ASSUME NEW q \in Subscribes, NEW t \in DataStreams, NEW k \in 1 .. arrived'[q][t]
                 PROVE  OnePlace(Object(q, t, k))'
      BY DEF PlaceInv
    <3>1. CASE Object(q, t, k) = o
      <4>1. /\ Contains(queue'[p], o) /\ o \notin dropped'
            /\ \A u \in Subscribes : Contains(queue'[u], o) => u = p
            /\ \A c \in Aliases : ~Contains(pending_objects'[c], o)
        BY <1>2, <2>1, <2>2, <2>3
      <4>2. OnePlace(o)'
        BY <4>1 DEF OnePlace
      <4> QED BY <3>1, <4>2
    <3>2. CASE Object(q, t, k) # o /\ OnePlace(Object(q, t, k))
      BY <2>2, <2>3, <3>2 DEF OnePlace
    <3> QED BY <1>4, <3>1, <3>2
  <2> QED BY <2>4, <2>5 DEF HeldInv
<1>7. CASE Receiver(r) = NoRequest
  <2>1. PICK b \in Seq(AnObject) : b = pending_objects[a]
    BY <1>2 DEF TypeOK
  <2>2. PICK new : new = Buffered(b, o)
    OBVIOUS
  <2>3. /\ pending_objects' = [pending_objects EXCEPT ![a] = new]
        /\ dropped' = IF Len(b) >= MaxPendingObjects THEN dropped \cup {Head(b)} ELSE dropped
        /\ UNCHANGED queue
    BY <1>1, <1>7, <2>1, <2>2 DEF SubscribedObject
  <2>4. Unique(b) /\ ~Contains(b, o) /\ Len(b) <= MaxPendingObjects
    BY <1>2, <2>1 DEF HeldInv, ContentInv, IInv, LimitsInv
  <2>5. /\ Contains(new, o) /\ Unique(new)
        /\ \A x : Contains(new, x) => Contains(b, x) \/ x = o
        /\ \A x : Contains(b, x) => \/ Contains(new, x)
                                    \/ Len(b) >= MaxPendingObjects /\ x = Head(b)
        /\ Len(b) >= MaxPendingObjects => Contains(b, Head(b)) /\ ~Contains(new, Head(b))
    BY <1>2, <2>2, <2>4, OfBuffered
  <2>6. pending_objects'[a] = new /\ \A c \in Aliases \ {a} : pending_objects'[c] = pending_objects[c]
    BY <1>2, <2>3 DEF TypeOK
  <2>7. ContentInv'
    <3>1. ASSUME NEW c \in Aliases
          PROVE  /\ Unique(pending_objects'[c])
                 /\ \A x : Contains(pending_objects'[c], x)
                       => \E q \in Subscribes : TrackAlias[q] = c /\ CameFor(q, x)'
      <4>1. CASE c = a
        <5>1. \A x : Contains(b, x) => \E q \in Subscribes : TrackAlias[q] = a /\ CameFor(q, x)'
          BY <1>2, <1>3, <2>1 DEF HeldInv, ContentInv
        <5> QED BY <1>1, <1>3, <2>5, <2>6, <4>1, <5>1
      <4>2. CASE c # a
        BY <1>3, <2>6, <4>2 DEF HeldInv, ContentInv
      <4> QED BY <4>1, <4>2
    <3>2. \A q \in Subscribes : \A x : Contains(queue'[q], x) => x = End
            \/ \E u \in Subscribes : TrackAlias[u] = track_alias'[q] /\ CameFor(u, x)'
      BY <1>3, <1>5, <2>3 DEF HeldInv, ContentInv
    <3>3. \A x \in dropped' : \E q \in Subscribes : CameFor(q, x)'
      <4>1. Len(b) >= MaxPendingObjects => \E q \in Subscribes : CameFor(q, Head(b))'
        BY <1>2, <1>3, <2>1, <2>5 DEF HeldInv, ContentInv
      <4> QED BY <1>3, <2>3, <4>1 DEF HeldInv, ContentInv
    <3> QED BY <3>1, <3>2, <3>3 DEF ContentInv
  <2>8. PlaceInv'
    <3> SUFFICES ASSUME NEW q \in Subscribes, NEW t \in DataStreams, NEW k \in 1 .. arrived'[q][t]
                 PROVE  OnePlace(Object(q, t, k))'
      BY DEF PlaceInv
    <3>1. PICK x : x = Object(q, t, k)
      OBVIOUS
    <3>2. CASE x = o
      <4>1. o \notin dropped'
        BY <1>2, <2>1, <2>3, <2>5
      <4>2. OnePlace(o)'
        BY <1>2, <2>3, <2>5, <2>6, <4>1 DEF OnePlace
      <4> QED BY <3>1, <3>2, <4>2
    <3>3. CASE x # o /\ OnePlace(x) /\ Len(b) >= MaxPendingObjects /\ x = Head(b)
      <4>1. /\ Contains(pending_objects[a], x) /\ x \in dropped'
            /\ \A p \in Subscribes : ~Contains(queue[p], x)
            /\ \A c \in Aliases : Contains(pending_objects[c], x) => c = a
        BY <1>2, <2>1, <2>3, <2>5, <3>3 DEF OnePlace
      <4>2. \A c \in Aliases : ~Contains(pending_objects'[c], x)
        BY <2>5, <2>6, <3>3, <4>1
      <4>3. OnePlace(x)'
        BY <2>3, <4>1, <4>2 DEF OnePlace
      <4> QED BY <3>1, <4>3
    <3>4. CASE x # o /\ OnePlace(x) /\ ~(Len(b) >= MaxPendingObjects /\ x = Head(b))
      <4>1. \A c \in Aliases : Contains(pending_objects'[c], x) <=> Contains(pending_objects[c], x)
        BY <2>1, <2>5, <2>6, <3>4
      <4>2. x \in dropped' <=> x \in dropped
        BY <2>3, <3>4
      <4>3. OnePlace(x)'
        BY <2>3, <3>4, <4>1, <4>2 DEF OnePlace
      <4> QED BY <3>1, <4>3
    <3> QED BY <1>4, <3>1, <3>2, <3>3, <3>4
  <2> QED BY <2>7, <2>8 DEF HeldInv
<1> QED BY <1>6, <1>7

LEMMA SubscribedHeld ==
  ASSUME IInv, QueueInv, HeldInv, NEW r \in Subscribes, NEW n \in 0 .. Objects[r]["held"],
         Subscribed(r, n)
  PROVE  HeldInv'
<1>0. PICK a, m : a = ReadAlias(r) /\ m = arrived[r]["held"]
  OBVIOUS
<1>1. /\ TypeOK /\ r \in Readers /\ n \in Nat /\ m \in Nat /\ a \in Aliases
      /\ "held" \in DataStreams
  <2>1. TypeOK /\ r \in Readers /\ "held" \in DataStreams
    BY DEF IInv, DataStreams
  <2>2. n \in Nat /\ m \in Nat
    BY <1>0, <2>1, ObjectsAre DEF TypeOK
  <2> QED BY <1>0, <2>1, <2>2, AliasIsRead
<1>2. /\ track_alias' = [track_alias EXCEPT ![r] = a]
      /\ pending_objects' = [pending_objects EXCEPT ![a] = <<>>]
      /\ UNCHANGED dropped
  BY <1>0 DEF Subscribed
<1>3. \A q \in Readers, t \in DataStreams :
        arrived'[q][t] = IF q = r /\ t = "held" THEN arrived[q][t] + n ELSE arrived[q][t]
  <2>1. PICK s \in DataStreams : s = "held"
    BY <1>1
  <2>2. arrived' = [arrived EXCEPT ![r][s] = @ + n]
    BY <2>1 DEF Subscribed
  <2>3. \A q \in Readers, t \in DataStreams :
          arrived'[q][t] = IF q = r /\ t = s THEN arrived[q][t] + n ELSE arrived[q][t]
    BY ONLY <1>1, <2>2, s \in DataStreams, CountGrows
  <2> QED BY <2>1, <2>3
\* The queue was empty and takes over the buffer of the alias.
<1>4. /\ \A q \in Readers \ {r} : queue'[q] = queue[q]
      /\ \A x : Contains(queue'[r], x) <=>
           \/ \E i \in 1 .. n : x = Object(r, "held", m + i)
           \/ Contains(pending_objects[a], x)
           \/ x = End /\ Contains(pending_terminations, r)
      /\ \A x : ~Contains(queue[r], x)
  <2>1. /\ \A q \in Readers \ {r} : queue'[q] = queue[q]
        /\ \A x : Contains(queue'[r], x) <=>
              \/ Contains(queue[r], x)
              \/ \E i \in 1 .. n : x = Object(r, "held", arrived[r]["held"] + i)
              \/ Contains(pending_objects[ReadAlias(r)], x)
              \/ x = End /\ Contains(pending_terminations, r)
    <3>1. TypeOK /\ Subscribed(r, n)
      BY <1>1
    <3> QED BY ONLY <3>1, r \in Subscribes, n \in 0 .. Objects[r]["held"], RegisteredQueue
  <2>2. queue[r] = <<>>
    BY DEF Subscribed, QueueInv, QueueOK
  <2>3. \A x : ~Contains(queue[r], x)
    BY <2>2, OfNone
  <2> QED BY <1>0, <2>1, <2>3, Zenon
<1>5. /\ pending_objects'[a] = <<>>
      /\ \A c \in Aliases \ {a} : pending_objects'[c] = pending_objects[c]
      /\ \A x : ~Contains(pending_objects'[a], x)
  <2>1. /\ pending_objects'[a] = <<>>
        /\ \A c \in Aliases \ {a} : pending_objects'[c] = pending_objects[c]
    BY <1>1, <1>2 DEF TypeOK
  <2> QED BY <2>1, OfNone
\* A held stream is there only as long as the session knows the subscription.
<1>6. /\ track_alias'[r] = a /\ \A q \in Subscribes \ {r} : track_alias'[q] = track_alias[q]
      /\ n > 0 => a = TrackAlias[r]
  <2>1. n > 0 => core[r] # "gone"
    BY DEF Subscribed, Live
  <2> QED BY <1>0, <1>1, <1>2, <2>1 DEF TypeOK, ReadAlias
<1>8. \A q \in Subscribes : \A x : CameFor(q, x) => CameFor(q, x)'
  <2> SUFFICES ASSUME NEW q \in Subscribes, NEW x, CameFor(q, x) PROVE CameFor(q, x)'
    OBVIOUS
  <2>1. q \in Readers /\ \A t \in DataStreams : arrived[q][t] \in Nat
    BY <1>1 DEF TypeOK
  <2>2. \A t \in DataStreams : arrived'[q][t] \in Nat /\ arrived'[q][t] >= arrived[q][t]
    BY <1>1, <1>3, <2>1
  <2> QED BY <1>1, <2>1, <2>2, StillCame
<1>9. \A i \in 1 .. n : CameFor(r, Object(r, "held", m + i))'
  <2> SUFFICES ASSUME NEW i \in 1 .. n PROVE CameFor(r, Object(r, "held", m + i))'
    OBVIOUS
  <2>1. arrived'[r]["held"] = m + n
    BY <1>0, <1>1, <1>3
  <2>2. m + i \in 1 .. arrived'[r]["held"]
    BY <1>1, <2>1
  <2> QED BY <1>1, <2>2 DEF CameFor
<1>11. ContentInv'
  <2>1. ASSUME NEW c \in Aliases
        PROVE  /\ Unique(pending_objects'[c])
               /\ \A x : Contains(pending_objects'[c], x)
                     => \E q \in Subscribes : TrackAlias[q] = c /\ CameFor(q, x)'
    <3>1. CASE c = a
      BY <1>5, <3>1, OfNone
    <3>2. CASE c # a
      BY <1>5, <1>8, <3>2 DEF HeldInv, ContentInv
    <3> QED BY <3>1, <3>2
  <2>2. ASSUME NEW q \in Subscribes, NEW x, Contains(queue'[q], x), x # End
        PROVE  \E u \in Subscribes : TrackAlias[u] = track_alias'[q] /\ CameFor(u, x)'
    <3>1. CASE q # r
      <4>1. Contains(queue[q], x) /\ track_alias'[q] = track_alias[q]
        BY <1>4, <1>6, <2>2, <3>1
      <4> QED BY <1>8, <2>2, <4>1 DEF HeldInv, ContentInv
    <3>2. CASE q = r /\ Contains(pending_objects[a], x)
      <4>1. PICK p \in Subscribes : TrackAlias[p] = a /\ CameFor(p, x)
        BY <1>1, <3>2 DEF HeldInv, ContentInv
      <4> QED BY <1>6, <1>8, <3>2, <4>1
    <3>3. CASE q = r /\ ~Contains(pending_objects[a], x)
      <4>1. PICK i \in 1 .. n : x = Object(r, "held", m + i)
        BY <1>4, <2>2, <3>3
      <4>2. track_alias'[r] = TrackAlias[r]
        BY <1>1, <1>6, <4>1
      <4> QED BY <1>9, <3>3, <4>1, <4>2
    <3> QED BY <3>1, <3>2, <3>3
  <2>3. \A x \in dropped' : \E q \in Subscribes : CameFor(q, x)'
    BY <1>2, <1>8 DEF HeldInv, ContentInv
  <2> QED BY <2>1, <2>2, <2>3 DEF ContentInv
<1>12. PlaceInv'
  <2> SUFFICES ASSUME NEW q \in Subscribes, NEW t \in DataStreams, NEW k \in 1 .. arrived'[q][t]
               PROVE  OnePlace(Object(q, t, k))'
    BY DEF PlaceInv
  <2>1. PICK o : o = Object(q, t, k) /\ o # End
    BY Objects3
  <2>2. q \in Readers /\ arrived[q][t] \in Nat
    BY <1>1 DEF TypeOK
  <2>3. arrived'[q][t] = IF q = r /\ t = "held" THEN arrived[q][t] + n ELSE arrived[q][t]
    BY <1>3, <2>2
  <2>4. CASE k \in 1 .. arrived[q][t]
    <3>1. OnePlace(o)
      BY <2>1, <2>4 DEF HeldInv, PlaceInv
    <3>2. \A i \in 1 .. n : o # Object(r, "held", m + i)
      <4> SUFFICES ASSUME NEW i \in 1 .. n, o = Object(r, "held", m + i) PROVE FALSE
        OBVIOUS
      <4>1. q = r /\ t = "held" /\ k = m + i
        BY <2>1, Objects3
      <4> QED BY <1>0, <1>1, <2>4, <4>1
    <3>3. Contains(queue'[r], o) <=> Contains(pending_objects[a], o)
      BY <1>4, <2>1, <3>2
    <3>4. CASE Contains(pending_objects[a], o)
      <4>1. /\ Contains(queue'[r], o) /\ o \notin dropped'
            /\ \A p \in Subscribes : Contains(queue'[p], o) => p = r
            /\ \A c \in Aliases : ~Contains(pending_objects'[c], o)
        BY <1>1, <1>2, <1>4, <1>5, <3>1, <3>3, <3>4 DEF OnePlace
      <4>2. OnePlace(o)'
        BY <4>1 DEF OnePlace
      <4> QED BY <2>1, <4>2
    <3>5. CASE ~Contains(pending_objects[a], o)
      <4>1. /\ \A p \in Subscribes : Contains(queue'[p], o) <=> Contains(queue[p], o)
            /\ \A c \in Aliases : Contains(pending_objects'[c], o) <=> Contains(pending_objects[c], o)
            /\ o \in dropped' <=> o \in dropped
        BY <1>2, <1>4, <1>5, <3>3, <3>5
      <4>2. OnePlace(o)'
        BY <3>1, <4>1 DEF OnePlace
      <4> QED BY <2>1, <4>2
    <3> QED BY <3>4, <3>5
  <2>5. CASE k \notin 1 .. arrived[q][t]
    <3>1. q = r /\ t = "held"
      BY <2>3, <2>5
    <3>2. k - m \in 1 .. n /\ k = m + (k - m)
      BY <1>0, <1>1, <2>2, <2>3, <2>5, <3>1
    <3>3. Contains(queue'[r], o)
      BY <1>4, <2>1, <3>1, <3>2
    <3>4. /\ \A p \in Subscribes : ~Contains(queue[p], o)
          /\ \A c \in Aliases : ~Contains(pending_objects[c], o)
          /\ o \notin dropped
      BY <2>1, <2>5, Whose DEF HeldInv
    <3>5. /\ \A p \in Subscribes : Contains(queue'[p], o) => p = r
          /\ \A c \in Aliases : ~Contains(pending_objects'[c], o)
          /\ o \notin dropped'
      BY <1>2, <1>4, <1>5, <3>4
    <3>6. OnePlace(o)'
      BY <3>3, <3>5 DEF OnePlace
    <3> QED BY <2>1, <3>6
  <2> QED BY <2>4, <2>5
<1> QED BY <1>11, <1>12 DEF HeldInv

\* Buffers that are given up, one or all: what they held is discarded.
LEMMA GivenUpHeld ==
  ASSUME HeldInv, NEW A \in SUBSET Aliases,
         \A a \in Aliases : pending_objects'[a] = IF a \in A THEN <<>> ELSE pending_objects[a],
         \A x : x \in dropped' <=> x \in dropped \/ \E a \in A : Contains(pending_objects[a], x),
         UNCHANGED <<arrived, track_alias>>,
         \A r \in Subscribes : \A x :
           x # End => (Contains(queue'[r], x) <=> Contains(queue[r], x))
  PROVE  HeldInv'
<1>1. \A r \in Subscribes : \A x : CameFor(r, x)' <=> CameFor(r, x)
  BY DEF CameFor
<1>2. \A x : \A a \in Aliases :
        Contains(pending_objects'[a], x) <=> a \notin A /\ Contains(pending_objects[a], x)
  BY OfNone
<1>3. ContentInv'
  <2>1. ASSUME NEW c \in Aliases
        PROVE  /\ Unique(pending_objects'[c])
               /\ \A x : Contains(pending_objects'[c], x)
                     => \E q \in Subscribes : TrackAlias[q] = c /\ CameFor(q, x)'
    <3>1. CASE c \in A
      BY <3>1, OfNone
    <3>2. CASE c \notin A
      BY <1>1, <3>2 DEF HeldInv, ContentInv
    <3> QED BY <3>1, <3>2
  <2>2. ASSUME NEW q \in Subscribes, NEW x, Contains(queue'[q], x), x # End
        PROVE  \E r \in Subscribes : TrackAlias[r] = track_alias'[q] /\ CameFor(r, x)'
    <3>1. PICK r \in Subscribes : TrackAlias[r] = track_alias[q] /\ CameFor(r, x)
      BY <2>2 DEF HeldInv, ContentInv
    <3> QED BY <1>1, <3>1
  <2>3. ASSUME NEW x \in dropped' PROVE \E r \in Subscribes : CameFor(r, x)'
    <3>1. CASE x \in dropped
      BY <1>1, <3>1 DEF HeldInv, ContentInv
    <3>2. CASE x \notin dropped
      <4>1. PICK a \in A : Contains(pending_objects[a], x)
        BY <3>2
      <4> QED BY <1>1, <4>1 DEF HeldInv, ContentInv
    <3> QED BY <3>1, <3>2
  <2> QED BY <2>1, <2>2, <2>3 DEF ContentInv
<1>4. PlaceInv'
  <2> SUFFICES ASSUME NEW r \in Subscribes, NEW s \in DataStreams, NEW k \in 1 .. arrived[r][s]
               PROVE  OnePlace(Object(r, s, k))'
    BY DEF PlaceInv
  <2>1. PICK o : o = Object(r, s, k) /\ o # End
    BY Objects3
  <2>2. OnePlace(o)
    BY <2>1 DEF HeldInv, PlaceInv
  <2>3. \A q \in Subscribes : Contains(queue'[q], o) <=> Contains(queue[q], o)
    BY <2>1
  <2>4. CASE \E a \in A : Contains(pending_objects[a], o)
    <3>1. PICK a \in A : Contains(pending_objects[a], o)
      BY <2>4
    <3>2. /\ \A q \in Subscribes : ~Contains(queue'[q], o)
          /\ \A c \in Aliases : ~Contains(pending_objects'[c], o)
          /\ o \in dropped'
      BY <1>2, <2>2, <2>3, <3>1 DEF OnePlace
    <3>3. OnePlace(o)'
      BY <3>2 DEF OnePlace
    <3> QED BY <2>1, <3>3
  <2>5. CASE \A a \in A : ~Contains(pending_objects[a], o)
    <3>1. /\ o \in dropped' <=> o \in dropped
          /\ \A c \in Aliases : Contains(pending_objects'[c], o) <=> Contains(pending_objects[c], o)
      BY <1>2, <2>5
    <3>2. OnePlace(o)'
      BY <2>2, <2>3, <3>1 DEF OnePlace
    <3> QED BY <2>1, <3>2
  <2> QED BY <2>4, <2>5
<1> QED BY <1>3, <1>4 DEF HeldInv

LEMMA HeldNext ==
  ASSUME IInv, QueueInv, TableInv, HeldInv, [Next]_vars PROVE HeldInv'
<1>0. TypeOK /\ IInv
  BY DEF IInv
\* The shape of most steps.
<1>1. ASSUME UNCHANGED <<track_alias, pending_objects, dropped>>,
             \A r \in Subscribes : arrived'[r] = arrived[r] /\ queue'[r] = queue[r]
      PROVE  HeldInv'
  <2>1. \A r \in Subscribes : \A x :
           x # End => (Contains(queue'[r], x) <=> Contains(queue[r], x))
    BY <1>1 DEF Contains
  <2> QED BY <1>1, <2>1, QuietStep
\* An end that is added to a queue is no object.
<1>2. ASSUME NEW r \in Readers, queue' = [queue EXCEPT ![r] = Append(@, End)]
      PROVE  \A q \in Subscribes : \A x :
               x # End => (Contains(queue'[q], x) <=> Contains(queue[q], x))
  <2>1. \A q \in Readers : \A x :
          Contains(queue'[q], x) <=> Contains(queue[q], x) \/ (q = r /\ x = End)
    BY <1>0, <1>2, QueueGrows
  <2> QED BY <2>1
<1>3. ASSUME NEW r \in Subscribes, Subscribe(r) PROVE HeldInv'
  BY <1>1, <1>3 DEF Subscribe, tables, pending
<1>4. ASSUME NEW r \in Subscribes, SubscribeFails(r) PROVE HeldInv'
  <2>1. /\ waiting[r] = "resolved"
        /\ track_alias' = [track_alias EXCEPT ![r] = ReadAlias(r)]
        /\ UNCHANGED <<arrived, pending_objects, dropped, queue>>
    BY <1>4 DEF SubscribeFails, pending
  <2>2. queue[r] = <<>>
    BY <2>1 DEF QueueInv, QueueOK
  <2>3. \A q \in Subscribes : track_alias'[q] = track_alias[q] \/ queue[q] = <<>>
    BY <1>0, <2>1, <2>2 DEF TypeOK
  <2>4. \A q \in Subscribes : \A x :
           x # End => (Contains(queue'[q], x) <=> Contains(queue[q], x))
    BY <2>1 DEF Contains
  <2> QED BY <2>1, <2>3, <2>4, QuietStep
<1>5. ASSUME NEW r \in Subscribes, PublishDone(r) PROVE HeldInv'
  <2>1. UNCHANGED <<arrived, track_alias, pending_objects, dropped>>
    BY <1>5 DEF PublishDone, tables
  <2>2. CASE r \in subscriptions
    <3>1. queue' = [queue EXCEPT ![r] = Append(@, End)]
      BY <1>5, <2>2 DEF PublishDone
    <3> QED BY <1>2, <2>1, <3>1, QuietStep
  <2>3. CASE r \notin subscriptions
    BY <1>1, <1>5, <2>1, <2>3 DEF PublishDone
  <2> QED BY <2>2, <2>3
<1>6. ASSUME NEW r \in Subscribes, NEW s \in DataStreams, SubscribedObject(r, s) PROVE HeldInv'
  BY <1>6, SubscribedObjectHeld
<1>7. ASSUME NEW r \in Subscribes, NEW n \in 0 .. Objects[r]["held"], Subscribed(r, n) PROVE HeldInv'
  BY <1>7, SubscribedHeld
<1>8. ASSUME NEW r \in Fetches, Fetch(r) \/ FetchedObject(r) \/ Fetched(r) PROVE HeldInv'
  <2>1. UNCHANGED <<track_alias, pending_objects, dropped>>
    BY <1>8 DEF Fetch, FetchedObject, Fetched, tables, pending
  <2>2. \A q \in Subscribes : q \in Readers /\ q \notin Fetches /\ q \notin fetches
    BY <1>0 DEF TypeOK
  <2>3. \A q \in Subscribes : arrived'[q] = arrived[q] /\ queue'[q] = queue[q]
    BY <1>0, <1>8, <2>2 DEF Fetch, FetchedObject, Fetched, TypeOK
  <2> QED BY <1>1, <2>1, <2>3
<1>9. ASSUME NEW r \in Requests, Answer(r) \/ Refuse(r) \/ Cancel(r) \/ Other(r) \/ Cleanup(r)
      PROVE  HeldInv'
  BY <1>1, <1>9 DEF Answer, Refuse, Cancel, Other, Cleanup, tables, pending
<1>10. ASSUME NEW r \in Requests, Terminate(r) PROVE HeldInv'
  <2>1. UNCHANGED <<arrived, track_alias>>
    BY <1>10 DEF Terminate
  <2>2. CASE r \in subscriptions
    <3>1. Unregister(r)
      BY <1>10, <2>2 DEF Terminate
    <3>2. PICK a \in Aliases : a = track_alias[r]
      BY <1>0, <2>2 DEF TypeOK
    <3>3. /\ pending_objects' = [pending_objects EXCEPT ![a] = <<>>]
          /\ dropped' = dropped \cup ToSet(pending_objects[a])
          /\ queue' = [queue EXCEPT ![r] = Append(@, End)]
      BY <3>1, <3>2 DEF Unregister
    <3>4. \A x : x \in ToSet(pending_objects[a]) <=> Contains(pending_objects[a], x)
      BY <1>0, Elements DEF TypeOK
    <3>5. \A x : x \in dropped' <=> x \in dropped \/ \E c \in {a} : Contains(pending_objects[c], x)
      BY <3>3, <3>4
    <3>6. \A c \in Aliases : pending_objects'[c] = IF c \in {a} THEN <<>> ELSE pending_objects[c]
      BY <1>0, <3>3 DEF TypeOK
    <3>7. r \in Readers
      BY <1>0, <2>2 DEF TypeOK
    <3>8. \A q \in Subscribes : \A x :
            x # End => (Contains(queue'[q], x) <=> Contains(queue[q], x))
      BY <1>2, <3>3, <3>7
    <3>9. PICK A \in SUBSET Aliases : A = {a}
      OBVIOUS
    <3> QED BY <2>1, <3>5, <3>6, <3>8, <3>9, GivenUpHeld
  <2>3. CASE r \notin subscriptions /\ r \in fetches
    <3>1. /\ queue' = [queue EXCEPT ![r] = Append(@, End)]
          /\ UNCHANGED pending
      BY <1>10, <2>3 DEF Terminate
    <3>2. r \in Readers
      BY <1>0, <2>3 DEF TypeOK
    <3> QED BY <1>2, <2>1, <3>1, <3>2, QuietStep DEF pending
  <2>4. CASE r \notin subscriptions /\ r \notin fetches
    BY <1>1, <1>10, <2>1, <2>4 DEF Terminate
  <2> QED BY <2>2, <2>3, <2>4
<1>11. CASE SessionEnds \/ UNCHANGED vars
  BY <1>1, <1>11 DEF SessionEnds, vars, tables, pending
<1>12. CASE Close
  <2>1. /\ dropped' = dropped \cup UNION {ToSet(pending_objects[a]) : a \in Aliases}
        /\ pending_objects' = [a \in Aliases |-> <<>>]
        /\ UNCHANGED <<arrived, track_alias, queue>>
    BY <1>12 DEF Close, tables
  <2>2. \A a \in Aliases : \A x : x \in ToSet(pending_objects[a]) <=> Contains(pending_objects[a], x)
    BY <1>0, Elements DEF TypeOK
  <2>3. \A x : x \in dropped' <=> x \in dropped \/ \E a \in Aliases : Contains(pending_objects[a], x)
    <3> SUFFICES ASSUME NEW x
                 PROVE  x \in dropped' <=>
                          x \in dropped \/ \E a \in Aliases : Contains(pending_objects[a], x)
      OBVIOUS
    <3>1. x \in UNION {ToSet(pending_objects[a]) : a \in Aliases}
            <=> \E a \in Aliases : x \in ToSet(pending_objects[a])
      BY Zenon
    <3>2. (\E a \in Aliases : x \in ToSet(pending_objects[a]))
            <=> \E a \in Aliases : Contains(pending_objects[a], x)
      BY <2>2
    <3>3. x \in dropped' <=> x \in dropped \/ x \in UNION {ToSet(pending_objects[a]) : a \in Aliases}
      BY <2>1
    <3> QED BY <3>1, <3>2, <3>3
  <2>4. PICK A \in SUBSET Aliases : A = Aliases
    OBVIOUS
  <2>5. \A q \in Subscribes : \A x :
           x # End => (Contains(queue'[q], x) <=> Contains(queue[q], x))
    BY <2>1 DEF Contains
  <2>6. \A a \in Aliases : pending_objects'[a] = IF a \in A THEN <<>> ELSE pending_objects[a]
    BY <2>1, <2>4
  <2> QED BY <2>1, <2>3, <2>4, <2>5, <2>6, GivenUpHeld
<1> QED BY <1>3, <1>4, <1>5, <1>6, <1>7, <1>8, <1>9, <1>10, <1>11, <1>12 DEF Next

-----------------------------------------------------------------------------
(* Where the objects of a subscription that lasts may be.                  *)

\* Two live subscriptions do not have one alias unless they share it.
LEMMA OneLives ==
  ASSUME ShareInv, NEW q \in Subscribes, NEW r \in Subscribes, q # r, r \notin sharing,
         Live(q), Live(r)
  PROVE  TrackAlias[q] # TrackAlias[r]
BY DEF ShareInv

\* One that is registered for the alias of a live one is forgotten, or shares it.
LEMMA OtherIsForgotten ==
  ASSUME RouteInv, NEW q \in Subscribes, NEW r \in Subscribes, q # r, r \notin sharing,
         Live(r), q \in subscriptions, track_alias[q] = TrackAlias[r]
  PROVE  core[q] = "gone"
<1>1. Answered(q) /\ AliasRead(q)
  BY DEF RouteInv, QueueInv, QueueOK, Untouched
<1>2. core[q] # "gone" => Live(q) /\ TrackAlias[q] = TrackAlias[r]
  BY <1>1 DEF Answered, AliasRead, Live
<1> QED BY <1>2, OneLives DEF RouteInv

\* The same of one that registers now.
LEMMA OtherWasForgotten ==
  ASSUME IInv, RouteInv, NEW q \in Subscribes, NEW r \in Subscribes, q # r, r \notin sharing,
         Live(r), waiting[q] = "resolved", ReadAlias(q) = TrackAlias[r]
  PROVE  core[q] = "gone"
<1>1. core[q] # "gone" => Live(q) /\ TrackAlias[q] = TrackAlias[r]
  BY DEF IInv, CallInv, Live, ReadAlias
<1> QED BY <1>1, OneLives DEF RouteInv

LEMMA LastNext == ASSUME IInv, RouteInv, LastInv, [Next]_vars PROVE LastInv'
<1>0. TypeOK
  BY DEF IInv
<1> SUFFICES ASSUME NEW r \in Subscribes, r \notin sharing',
                    waiting'[r] = "returned", core'[r] \in {"ok", "done"}
             PROVE  /\ pending_objects'[TrackAlias[r]] = <<>>
                    /\ by_alias'[TrackAlias[r]] # NoRequest
                    /\ \/ by_alias'[TrackAlias[r]] = r
                       \/ core'[by_alias'[TrackAlias[r]]] = "gone"
  BY DEF LastInv
<1>1. PICK a \in Aliases : a = TrackAlias[r]
  OBVIOUS
<1>2. r \in Readers /\ r \notin sharing
  BY <1>0, CoreStep
<1>3. \A q \in Subscribes : core[q] = "gone" => core'[q] = "gone"
  BY <1>0, CoreStep
<1> DEFINE Good == /\ pending_objects'[a] = <<>>
                   /\ by_alias'[a] # NoRequest
                   /\ by_alias'[a] = r \/ core'[by_alias'[a]] = "gone"
<1>4. ASSUME waiting[r] = "returned", core[r] \in {"ok", "done"}
      PROVE  /\ Live(r)
             /\ pending_objects[a] = <<>>
             /\ by_alias[a] # NoRequest
             /\ by_alias[a] = r \/ core[by_alias[a]] = "gone"
  BY <1>1, <1>2, <1>4 DEF LastInv, Live
\* The buffer and its alias stay as they are.
<1>5. ASSUME waiting[r] = "returned", core[r] \in {"ok", "done"},
             pending_objects'[a] = pending_objects[a], by_alias'[a] = by_alias[a]
      PROVE  Good
  <2>1. by_alias[a] \in Subscribes
    BY <1>0, <1>4, <1>5 DEF TypeOK
  <2> QED BY <1>3, <1>4, <1>5, <2>1
\* Another one registers.
<1>6. ASSUME NEW q \in Subscribes, q # r, waiting[q] = "resolved",
             waiting'[r] = waiting[r], UNCHANGED core,
             by_alias' = [by_alias EXCEPT ![ReadAlias(q)] = q],
             pending_objects'[a] = pending_objects[a] \/ pending_objects'[a] = <<>>
      PROVE  Good
  <2>1. waiting[r] = "returned" /\ core[r] \in {"ok", "done"}
    BY <1>6
  <2>2. CASE ReadAlias(q) = a
    <3>1. core[q] = "gone"
      BY <1>1, <1>2, <1>4, <1>6, <2>1, <2>2, OtherWasForgotten
    <3>2. by_alias'[a] = q /\ q # NoRequest
      BY <1>0, <1>6, <2>2 DEF TypeOK
    <3> QED BY <1>4, <1>6, <2>1, <3>1, <3>2
  <2>3. CASE ReadAlias(q) # a
    <3>1. by_alias'[a] = by_alias[a]
      BY <1>0, <1>6, <2>3 DEF TypeOK
    <3> QED BY <1>4, <1>6, <2>1, <3>1
  <2> QED BY <2>2, <2>3
<1>10. ASSUME NEW q \in Subscribes, Subscribe(q) \/ PublishDone(q) PROVE Good
  <2>1. /\ UNCHANGED <<by_alias, pending_objects>>
        /\ waiting[r] = "returned" /\ core[r] \in {"ok", "done"}
    BY <1>0, <1>2, <1>10 DEF Subscribe, PublishDone, tables, pending, TypeOK
  <2> QED BY <1>5, <2>1
<1>11. ASSUME NEW q \in Subscribes, SubscribeFails(q) PROVE Good
  <2>1. /\ waiting[q] = "resolved" /\ waiting' = [waiting EXCEPT ![q] = "raised"]
        /\ by_alias' = [by_alias EXCEPT ![ReadAlias(q)] = q]
        /\ UNCHANGED <<core, pending_objects>>
    BY <1>11 DEF SubscribeFails, pending
  <2>2. q # r /\ waiting'[r] = waiting[r]
    BY <1>0, <1>2, <2>1 DEF TypeOK
  <2> QED BY <1>6, <2>1, <2>2
<1>12. ASSUME NEW q \in Subscribes, NEW s \in DataStreams, SubscribedObject(q, s) PROVE Good
  <2>1. UNCHANGED <<core, waiting, by_alias>>
    BY <1>12 DEF SubscribedObject, tables
  <2>2. waiting[r] = "returned" /\ core[r] \in {"ok", "done"}
    BY <2>1
  <2>3. pending_objects'[a] = pending_objects[a]
    <3>1. CASE Receiver(q) # NoRequest
      BY <1>12, <3>1 DEF SubscribedObject
    <3>2. CASE Receiver(q) = NoRequest
      <4>1. TrackAlias[q] # a
        BY <1>4, <2>2, <3>2 DEF Receiver
      <4> QED BY <1>0, <1>12, <3>2, <4>1 DEF SubscribedObject, TypeOK
    <3> QED BY <3>1, <3>2
  <2> QED BY <1>5, <2>1, <2>2, <2>3
<1>13. ASSUME NEW q \in Subscribes, NEW n \in 0 .. Objects[q]["held"], Subscribed(q, n) PROVE Good
  <2>1. /\ waiting[q] = "resolved" /\ waiting' = [waiting EXCEPT ![q] = "returned"]
        /\ by_alias' = [by_alias EXCEPT ![ReadAlias(q)] = q]
        /\ pending_objects' = [pending_objects EXCEPT ![ReadAlias(q)] = <<>>]
        /\ UNCHANGED core
    BY <1>13 DEF Subscribed
  <2>2. CASE q = r
    <3>1. ReadAlias(r) = a
      BY <1>1, <2>1 DEF ReadAlias
    <3> QED BY <1>0, <2>1, <2>2, <3>1 DEF TypeOK
  <2>3. CASE q # r
    <3>1. waiting'[r] = waiting[r]
      BY <1>0, <1>2, <2>1, <2>3 DEF TypeOK
    <3>2. pending_objects'[a] = pending_objects[a] \/ pending_objects'[a] = <<>>
      BY <1>0, <2>1 DEF TypeOK
    <3> QED BY <1>6, <2>1, <2>3, <3>1, <3>2
  <2> QED BY <2>2, <2>3
<1>14. ASSUME NEW q \in Fetches, Fetch(q) \/ FetchedObject(q) \/ Fetched(q) PROVE Good
  <2>1. /\ UNCHANGED <<by_alias, pending_objects>>
        /\ waiting[r] = "returned" /\ core[r] \in {"ok", "done"}
    BY <1>0, <1>2, <1>14 DEF Fetch, FetchedObject, Fetched, tables, pending, TypeOK
  <2> QED BY <1>5, <2>1
<1>15. ASSUME NEW q \in Readers, Answer(q) PROVE Good
  <2>1. /\ UNCHANGED <<by_alias, pending_objects>> /\ core[q] = "sent"
        /\ core' = [core EXCEPT ![q] = "ok"]
        /\ waiting' = [waiting EXCEPT ![q] = IF @ = "waiting" THEN "resolved" ELSE @]
    BY <1>15 DEF Answer, tables, pending
  <2>2. waiting[r] = "returned"
    BY <1>0, <1>2, <2>1 DEF TypeOK
  <2>3. core[r] \in {"ok", "done"}
    BY <1>0, <1>2, <2>1, <2>2 DEF TypeOK, IInv, CallInv
  <2> QED BY <1>5, <2>1, <2>2, <2>3
<1>16. ASSUME NEW q \in Readers, Refuse(q) \/ Cancel(q) PROVE Good
  <2>1. /\ UNCHANGED <<by_alias, pending_objects>>
        /\ waiting[r] = "returned" /\ core[r] \in {"ok", "done"}
    BY <1>0, <1>2, <1>16 DEF Refuse, Cancel, tables, pending, TypeOK
  <2> QED BY <1>5, <2>1
<1>17. ASSUME NEW q \in Requests, Other(q) \/ Cleanup(q) PROVE Good
  <2>0. q # r \/ Cleanup(q) \/ core[r] = "idle"
    BY <1>17 DEF Other, Callable
  <2>1. UNCHANGED <<waiting, by_alias, pending_objects>>
    BY <1>17 DEF Other, Cleanup, tables, pending
  <2>2. core[r] # "idle"
    BY <2>1 DEF IInv, CallInv
  <2>3. core[r] \in {"ok", "done"}
    BY <1>0, <1>2, <1>17, <2>0, <2>2 DEF Other, Cleanup, TypeOK
  <2> QED BY <1>5, <2>1, <2>3
<1>18. ASSUME NEW q \in Requests, Terminate(q) PROVE Good
  <2>1. PICK c \in {"ended", "gone"} : core' = [core EXCEPT ![q] = c]
    BY <1>18 DEF Terminate
  <2>2. q # r /\ core[r] \in {"ok", "done"} /\ waiting[r] = "returned"
    BY <1>0, <1>2, <1>18, <2>1 DEF Terminate, TypeOK
  <2>3. CASE q \in subscriptions
    <3>1. /\ q \in Subscribes
          /\ core[q] \in {"ok", "done", "refused"} \/ (q \in Fetches /\ core[q] = "sent")
      BY <1>0, <1>18, <2>3 DEF Terminate, TypeOK
    <3>2. core[q] # "gone"
      BY <3>1
    <3>3. track_alias[q] # a
      BY <1>1, <1>2, <1>4, <2>2, <2>3, <3>1, <3>2, OtherIsForgotten
    <3>4. /\ by_alias' = [by_alias EXCEPT ![track_alias[q]] = NoRequest]
          /\ pending_objects' = [pending_objects EXCEPT ![track_alias[q]] = <<>>]
      BY <1>18, <2>3 DEF Terminate, Unregister
    <3>5. by_alias'[a] = by_alias[a] /\ pending_objects'[a] = pending_objects[a]
      BY <1>0, <3>3, <3>4 DEF TypeOK
    <3> QED BY <1>5, <2>2, <3>5
  <2>4. CASE q \notin subscriptions
    <3>1. UNCHANGED <<by_alias, pending_objects>>
      BY <1>18, <2>4 DEF Terminate, pending
    <3> QED BY <1>5, <2>2, <3>1
  <2> QED BY <2>3, <2>4
<1>19. ASSUME SessionEnds PROVE Good
  <2>1. /\ UNCHANGED <<core, by_alias, pending_objects>>
        /\ waiting[r] = "returned"
    BY <1>2, <1>19 DEF SessionEnds, tables, pending
  <2> QED BY <1>5, <2>1
<1>20. ASSUME Close PROVE Good
  <2>1. UNCHANGED <<core, waiting, by_alias>> /\ pending_objects'[a] = <<>>
    BY <1>20 DEF Close, tables
  <2>2. waiting[r] = "returned" /\ core[r] \in {"ok", "done"}
    BY <2>1
  <2> QED BY <1>4, <1>5, <2>1, <2>2
<1>21. ASSUME UNCHANGED vars PROVE Good
  BY <1>5, <1>21 DEF vars
<1>22. Good
  BY <1>10, <1>11, <1>12, <1>13, <1>14, <1>15, <1>16, <1>17, <1>18, <1>19, <1>20, <1>21 DEF Next
<1> QED BY <1>1, <1>22

\* An object gets into a queue when it comes, or from the buffer when subscribe()
\* picks up.
LEMMA WaysIntoQueue ==
  ASSUME IInv, [Next]_vars, NEW q \in Subscribes, NEW x, x # End,
         Contains(queue'[q], x), ~Contains(queue[q], x)
  PROVE  \/ \E r \in Subscribes : \E s \in DataStreams :
              SubscribedObject(r, s) /\ Receiver(r) = q /\ x = Object(r, s, arrived[r][s] + 1)
         \/ \E n \in 0 .. Objects[q]["held"] :
              /\ Subscribed(q, n)
              /\ \/ \E i \in 1 .. n : x = Object(q, "held", arrived[q]["held"] + i)
                 \/ Contains(pending_objects[ReadAlias(q)], x)
<1>0. TypeOK /\ q \in Readers /\ q \notin Fetches
  BY DEF IInv
<1>1. ASSUME queue'[q] = queue[q] PROVE FALSE
  BY <1>1 DEF Contains
<1>2. ASSUME NEW r \in Readers, queue' = [queue EXCEPT ![r] = Append(@, End)] PROVE FALSE
  <2>1. \A p \in Readers : \A y :
          Contains(queue'[p], y) <=> Contains(queue[p], y) \/ (p = r /\ y = End)
    BY <1>0, <1>2, QueueGrows
  <2> QED BY <1>0, <2>1
<1>3. ASSUME NEW r \in Requests,
             \/ Subscribe(r) \/ SubscribeFails(r) \/ Fetch(r)
             \/ Answer(r) \/ Refuse(r) \/ Cancel(r) \/ Other(r) \/ Cleanup(r)
      PROVE  FALSE
  BY <1>1, <1>3 DEF Subscribe, SubscribeFails, Fetch, Answer, Refuse, Cancel, Other, Cleanup
<1>4. ASSUME NEW r \in Subscribes, PublishDone(r) PROVE FALSE
  BY <1>1, <1>2, <1>4 DEF PublishDone
<1>5. ASSUME NEW r \in Requests, Terminate(r) PROVE FALSE
  <2>1. \/ queue' = queue
        \/ queue' = [queue EXCEPT ![r] = Append(@, End)] /\ r \in Readers
    BY <1>0, <1>5 DEF Terminate, Unregister, TypeOK
  <2> QED BY <1>1, <1>2, <2>1
<1>6. ASSUME NEW r \in Fetches, FetchedObject(r) \/ Fetched(r) PROVE FALSE
  <2>1. q \notin fetches /\ q # r
    BY <1>0, <1>6 DEF TypeOK
  <2>2. queue'[q] = queue[q]
    BY <1>0, <1>6, <2>1 DEF FetchedObject, Fetched, TypeOK
  <2> QED BY <1>1, <2>2
<1>7. ASSUME NEW r \in Subscribes, NEW s \in DataStreams, SubscribedObject(r, s)
      PROVE  Receiver(r) = q /\ x = Object(r, s, arrived[r][s] + 1)
  <2>1. PICK o \in AnObject : o = Object(r, s, arrived[r][s] + 1)
    BY <1>0, <1>7, ObjectComes DEF SubscribedObject
  <2>2. CASE Receiver(r) # NoRequest
    <3>1. PICK p \in Readers : p = Receiver(r)
      BY <1>0, <2>2 DEF Receiver, TypeOK
    <3>2. queue' = [queue EXCEPT ![p] = Append(@, o)]
      BY <1>7, <2>1, <2>2, <3>1 DEF SubscribedObject
    <3>3. Contains(queue'[q], x) <=> Contains(queue[q], x) \/ (q = p /\ x = o)
      BY <1>0, <3>2, QueueGrows
    <3> QED BY <2>1, <3>1, <3>3
  <2>3. CASE Receiver(r) = NoRequest
    BY <1>1, <1>7, <2>3 DEF SubscribedObject
  <2> QED BY <2>2, <2>3
<1>8. ASSUME NEW r \in Subscribes, NEW n \in 0 .. Objects[r]["held"], Subscribed(r, n)
      PROVE  /\ r = q
             /\ \/ \E i \in 1 .. n : x = Object(q, "held", arrived[q]["held"] + i)
                \/ Contains(pending_objects[ReadAlias(q)], x)
  BY <1>0, <1>1, <1>8, RegisteredQueue
<1>9. CASE SessionEnds \/ Close \/ UNCHANGED vars
  BY <1>1, <1>9 DEF SessionEnds, Close, vars
<1> QED BY <1>3, <1>4, <1>5, <1>6, <1>7, <1>8, <1>9 DEF Next

LEMMA StrayNext ==
  ASSUME IInv, RouteInv, HeldInv, StrayInv, [Next]_vars PROVE StrayInv'
<1>0. TypeOK
  BY DEF IInv
<1> SUFFICES ASSUME NEW q \in Subscribes, NEW r \in Subscribes, NEW s \in DataStreams,
                    NEW k \in 1 .. arrived'[r][s],
                    q # r, r \notin sharing', core'[r] # "gone",
                    Contains(queue'[q], Object(r, s, k))
             PROVE  q \in subscriptions' /\ core'[q] = "gone"
  BY DEF StrayInv
<1>1. PICK o : o = Object(r, s, k) /\ o # End
  BY Objects3
<1>2. r \notin sharing /\ core[r] # "gone"
  BY <1>0, CoreStep
<1>3. core[q] = "gone" => core'[q] = "gone"
  BY <1>0, CoreStep
<1>4. ASSUME q \in subscriptions, core[q] = "gone" PROVE q \in subscriptions'
  <2>1. ASSUME NEW p \in Requests, Terminate(p) PROVE q \in subscriptions'
    <3>1. p # q
      BY <1>4, <2>1 DEF Terminate
    <3> QED BY <1>4, <2>1, <3>1 DEF Terminate, Unregister, pending
  <2>2. ASSUME NEW p \in Requests,
               \/ Subscribe(p) \/ SubscribeFails(p) \/ PublishDone(p)
               \/ Fetch(p) \/ FetchedObject(p) \/ Fetched(p)
               \/ Answer(p) \/ Refuse(p) \/ Cancel(p) \/ Other(p) \/ Cleanup(p)
               \/ \E t \in DataStreams : SubscribedObject(p, t)
               \/ \E n \in 0 .. Objects[p]["held"] : Subscribed(p, n)
        PROVE  q \in subscriptions'
    BY <1>4, <2>2 DEF Subscribe, SubscribeFails, PublishDone, Fetch, FetchedObject, Fetched, Answer,
                      Refuse, Cancel, Other, Cleanup, SubscribedObject, Subscribed, tables
  <2>3. CASE SessionEnds \/ Close \/ UNCHANGED vars
    BY <1>4, <2>3 DEF SessionEnds, Close, vars, tables
  <2> QED BY <2>1, <2>2, <2>3 DEF Next
<1>5. CASE Contains(queue[q], o)
  <2>1. k \in 1 .. arrived[r][s]
    BY <1>1, <1>5, Whose DEF HeldInv
  <2>2. q \in subscriptions /\ core[q] = "gone"
    BY <1>1, <1>2, <1>5, <2>1 DEF StrayInv
  <2> QED BY <1>3, <1>4, <2>2
<1>6. CASE ~Contains(queue[q], o)
  <2>1. ASSUME NEW p \in Subscribes, NEW t \in DataStreams,
               SubscribedObject(p, t), Receiver(p) = q, o = Object(p, t, arrived[p][t] + 1)
        PROVE  q \in subscriptions /\ core[q] = "gone"
    <3>0. PICK m : Object(p, t, m) = Object(r, s, k)
      BY <1>1, <2>1
    <3>1. p = r
      BY ONLY <3>0, Objects3
    <3>2. Live(r) /\ q \in subscriptions /\ track_alias[q] = TrackAlias[r]
      BY <2>1, <3>1 DEF SubscribedObject, Receiver, RouteInv, TableInv
    <3> QED BY <1>2, <3>2, OtherIsForgotten
  <2>2. ASSUME NEW n \in 0 .. Objects[q]["held"], Subscribed(q, n),
               \/ \E i \in 1 .. n : o = Object(q, "held", arrived[q]["held"] + i)
               \/ Contains(pending_objects[ReadAlias(q)], o)
        PROVE  q \in subscriptions' /\ core[q] = "gone"
    <3>1. Contains(pending_objects[ReadAlias(q)], o)
      BY <1>1, <2>2, Objects3
    <3>2. k \in 1 .. arrived[r][s] /\ TrackAlias[r] = ReadAlias(q)
      BY <1>1, <3>1, AliasIsRead, Whose DEF HeldInv
    <3>3. Answered(r)
      <4>1. arrived[r][s] # 0
        BY <3>2
      <4> QED BY <4>1 DEF RouteInv, QueueInv, QueueOK
    <3>4. Live(r)
      BY <1>2, <3>3 DEF Answered, Live
    <3>5. waiting[q] = "resolved" /\ q \in subscriptions'
      BY <2>2 DEF Subscribed
    <3> QED BY <1>2, <3>2, <3>4, <3>5, OtherWasForgotten
  <2>3. \/ \E p \in Subscribes : \E t \in DataStreams :
              SubscribedObject(p, t) /\ Receiver(p) = q /\ o = Object(p, t, arrived[p][t] + 1)
        \/ \E n \in 0 .. Objects[q]["held"] :
              /\ Subscribed(q, n)
              /\ \/ \E i \in 1 .. n : o = Object(q, "held", arrived[q]["held"] + i)
                 \/ Contains(pending_objects[ReadAlias(q)], o)
    <3>1. Contains(queue'[q], o)
      BY <1>1
    <3> QED BY <1>1, <1>6, <3>1, WaysIntoQueue
  <2> QED BY <1>3, <1>4, <2>1, <2>2, <2>3
<1> QED BY <1>5, <1>6

LEMMA KeptNext == ASSUME IInv, KeptInv, [Next]_vars PROVE KeptInv'
BY RouteNext, HeldNext, LastNext, StrayNext DEF KeptInv, RouteInv

LEMMA InitKept == Init => KeptInv
<1> SUFFICES ASSUME Init PROVE KeptInv
  OBVIOUS
<1>1. ShareInv /\ TableInv
  BY DEF Init, ShareInv, TableInv, Live
<1>2. QueueInv
  BY DEF Init, QueueInv, QueueOK, Untouched
<1>3. ContentInv
  BY OfNone DEF Init, ContentInv
<1>4. PlaceInv /\ LastInv /\ StrayInv
  BY DEF Init, PlaceInv, LastInv, StrayInv
<1> QED BY <1>1, <1>2, <1>3, <1>4 DEF KeptInv, RouteInv, HeldInv

\* The two invariants together are inductive.
THEOREM ObjectsInvariant == Spec => [](IInv /\ KeptInv)
<1>1. Init => IInv /\ KeptInv
  BY InitInv, InitKept
<1>2. (IInv /\ KeptInv) /\ [Next]_vars => (IInv /\ KeptInv)'
  <2> SUFFICES ASSUME IInv, KeptInv, [Next]_vars PROVE IInv' /\ KeptInv'
    OBVIOUS
  <2>1. TypeOK'
    BY TypesNext DEF IInv
  <2>2. IInv'
    BY <2>1, CallNext, LimitsNext, EndNext, FetchNext, AliasNext DEF IInv
  <2> QED BY <2>2, KeptNext
<1> QED BY <1>1, <1>2, PTL DEF Spec

LEMMA IsConserved == KeptInv => Conserved
<1> SUFFICES ASSUME KeptInv, NEW r \in Subscribes, NEW s \in DataStreams,
                    NEW k \in 1 .. arrived[r][s]
             PROVE  Cardinality(Places(Object(r, s, k))) = 1
  BY DEF Conserved
<1>1. PICK o : o = Object(r, s, k) /\ OnePlace(o)
  BY DEF KeptInv, HeldInv, PlaceInv
<1>2. \E p : Places(o) = {p}
  <2>1. ASSUME NEW q \in Subscribes, Contains(queue[q], o) PROVE Places(o) = {<<"queue", q>>}
    <3>1. /\ {p \in Subscribes : Contains(queue[p], o)} = {q}
          /\ {a \in Aliases : Contains(pending_objects[a], o)} = {}
          /\ dropped \cap {o} = {}
      BY <1>1, <2>1 DEF OnePlace
    <3> QED BY <3>1 DEF Places
  <2>2. ASSUME NEW a \in Aliases, Contains(pending_objects[a], o)
        PROVE  Places(o) = {<<"buffer", a>>}
    <3>1. /\ {p \in Subscribes : Contains(queue[p], o)} = {}
          /\ {b \in Aliases : Contains(pending_objects[b], o)} = {a}
          /\ dropped \cap {o} = {}
      BY <1>1, <2>2 DEF OnePlace
    <3> QED BY <3>1 DEF Places
  <2>3. ASSUME o \in dropped PROVE Places(o) = {<<"dropped", o>>}
    <3>1. /\ {p \in Subscribes : Contains(queue[p], o)} = {}
          /\ {b \in Aliases : Contains(pending_objects[b], o)} = {}
          /\ dropped \cap {o} = {o}
      BY <1>1, <2>3 DEF OnePlace
    <3> QED BY <3>1 DEF Places
  <2> QED BY <1>1, <2>1, <2>2, <2>3 DEF OnePlace
<1> QED BY <1>1, <1>2, FS_Singleton

LEMMA IsDelivered == KeptInv => Delivered
<1> SUFFICES ASSUME KeptInv, NEW r \in Subscribes, r \notin sharing, NEW s \in DataStreams,
                    NEW k \in 1 .. arrived[r][s],
                    waiting[r] = "returned", core[r] \in {"ok", "done"}
             PROVE  LET o == Object(r, s, k)
                    IN Contains(queue[r], o) \/ o \in dropped \/ WithForgotten(o)
  BY DEF Delivered
<1>1. PICK o : o = Object(r, s, k) /\ OnePlace(o)
  BY DEF KeptInv, HeldInv, PlaceInv
\* The buffer of its alias is empty.
<1>2. ASSUME NEW a \in Aliases, Contains(pending_objects[a], o) PROVE FALSE
  <2>1. TrackAlias[r] = a
    BY <1>1, <1>2, Whose DEF KeptInv, HeldInv
  <2>2. pending_objects[a] = <<>>
    BY <2>1 DEF KeptInv, LastInv
  <2> QED BY <1>2, <2>2, OfNone
<1>3. ASSUME NEW q \in Subscribes, q # r, Contains(queue[q], o) PROVE WithForgotten(o)
  <2>1. q \in subscriptions /\ core[q] = "gone"
    BY <1>1, <1>3 DEF KeptInv, StrayInv
  <2> QED BY <1>3, <2>1 DEF WithForgotten
<1>4. Contains(queue[r], o) \/ o \in dropped \/ WithForgotten(o)
  BY <1>1, <1>2, <1>3 DEF OnePlace
<1> QED BY <1>1, <1>4

\* An object lies where the alias of its subscription leads, and the subscriptions of
\* one alias that the session knows at a time are to one Track.
LEMMA IsApart == IInv /\ KeptInv => TracksApart
<1> SUFFICES ASSUME IInv, KeptInv, NEW q \in Subscribes, NEW r \in Subscribes,
                    NEW s \in DataStreams, NEW k \in 1 .. arrived[r][s],
                    TrackOf[q] # TrackOf[r], core[q] # "gone", core[r] # "gone",
                    Contains(queue[q], Object(r, s, k))
             PROVE  FALSE
  BY DEF TracksApart
<1>1. TrackAlias[r] = track_alias[q]
  BY Whose DEF KeptInv, HeldInv
<1>2. queue[q] # <<>>
  BY OfNone
<1>3. Live(q) /\ track_alias[q] = TrackAlias[q]
  BY <1>2 DEF KeptInv, RouteInv, QueueInv, QueueOK, Untouched, Answered, AliasRead, Live
<1>4. Live(r)
  <2>1. arrived[r][s] # 0
    OBVIOUS
  <2> QED BY <2>1 DEF KeptInv, RouteInv, QueueInv, QueueOK, Answered, Live
<1> QED BY <1>1, <1>3, <1>4 DEF KeptInv, RouteInv, ShareInv

\* Whatever aliases the publisher chooses, shared, used again or 0, every object of a
\* subscription is in exactly one place, and one that lasts has got all of its objects
\* but those discarded, those of a shared alias and those that went to a forgotten
\* subscription which stayed in the tables, and none goes to a subscription to another
\* Track while the session knows both, however answers, objects and ends interleave.
THEOREM ObjectsAreKept == Spec => []ObjectsKept
<1>1. IInv /\ KeptInv => ObjectsKept
  BY IsConserved, IsDelivered, IsApart DEF ObjectsKept
<1> QED BY <1>1, ObjectsInvariant, PTL

\* Whatever aliases the publisher chooses, no subscription that the session knows is
\* given an object of a subscription to another Track that it knows too.
THEOREM TracksAreApart == Spec => []TracksApart
BY IsApart, ObjectsInvariant, PTL

-----------------------------------------------------------------------------
(* What an iteration is given: the order of objects in a sequence.         *)

\* y may come after x: if both are objects of one data stream, it is a later one.
Before(x, y) == x # End /\ y # End /\ x[1] = y[1] /\ x[2] = y[2] => x[3] < y[3]

\* Objects of one data stream stand in the order of the stream, each once.
Ascends(s) == \A i, j \in 1 .. Len(s) : i < j => Before(s[i], s[j])

LEMMA AscendsConcat ==
  ASSUME NEW S, NEW s \in Seq(S), NEW t \in Seq(S), Ascends(s), Ascends(t),
         \A x, y : Contains(s, x) /\ Contains(t, y) => Before(x, y)
  PROVE  Ascends(s \o t)
<1> SUFFICES ASSUME NEW i \in 1 .. Len(s \o t), NEW j \in 1 .. Len(s \o t), i < j
             PROVE  Before((s \o t)[i], (s \o t)[j])
  BY DEF Ascends
<1>1. /\ Len(s \o t) = Len(s) + Len(t) /\ Len(s) \in Nat /\ Len(t) \in Nat
      /\ \A k \in 1 .. Len(s) + Len(t) :
           (s \o t)[k] = IF k <= Len(s) THEN s[k] ELSE t[k - Len(s)]
  BY ConcatProperties, LenProperties
<1>2. CASE j <= Len(s)
  <2>1. /\ (s \o t)[i] = s[i] /\ (s \o t)[j] = s[j]
        /\ i \in 1 .. Len(s) /\ j \in 1 .. Len(s)
    BY <1>1, <1>2
  <2> QED BY <2>1 DEF Ascends
<1>3. CASE i <= Len(s) /\ j > Len(s)
  <2>1. PICK m : m = j - Len(s)
    OBVIOUS
  <2>2. /\ (s \o t)[i] = s[i] /\ (s \o t)[j] = t[m]
        /\ i \in 1 .. Len(s) /\ m \in 1 .. Len(t)
    BY <1>1, <1>3, <2>1
  <2>3. Contains(s, s[i]) /\ Contains(t, t[m])
    BY <2>2 DEF Contains
  <2> QED BY <2>2, <2>3
<1>4. CASE i > Len(s)
  <2>1. PICK m, n : m = j - Len(s) /\ n = i - Len(s)
    OBVIOUS
  <2>2. /\ (s \o t)[i] = t[n] /\ (s \o t)[j] = t[m] /\ n < m
        /\ n \in 1 .. Len(t) /\ m \in 1 .. Len(t)
    BY <1>1, <1>4, <2>1
  <2> QED BY <2>2 DEF Ascends
<1> QED BY <1>1, <1>2, <1>3, <1>4

LEMMA AscendsAppend ==
  ASSUME NEW S, NEW s \in Seq(S), NEW e \in S, Ascends(s),
         \A x : Contains(s, x) => Before(x, e)
  PROVE  Ascends(Append(s, e))
<1>1. <<e>> \in Seq(S) /\ \A x : Contains(<<e>>, x) <=> x = e
  BY OfOne
<1>2. Ascends(<<e>>)
  BY DEF Ascends
<1>3. Append(s, e) = s \o <<e>>
  OBVIOUS
<1>4. PICK one : one = <<e>>
  OBVIOUS
<1>5. \A x, y : Contains(s, x) /\ Contains(one, y) => Before(x, y)
  BY <1>1, <1>4
<1>6. one \in Seq(S) /\ Ascends(one)
  BY <1>1, <1>2, <1>4
<1>7. Ascends(s \o one)
  BY <1>5, <1>6, AscendsConcat
<1> QED BY <1>3, <1>4, <1>7

LEMMA AscendsTail ==
  ASSUME NEW S, NEW s \in Seq(S), s # <<>>, Ascends(s)
  PROVE  Ascends(Tail(s))
<1>1. /\ Len(Tail(s)) = Len(s) - 1 /\ Len(s) \in Nat
      /\ \A i \in 1 .. Len(Tail(s)) : Tail(s)[i] = s[i + 1]
  BY HeadTailProperties, EmptySeq, LenProperties
<1>2. \A i \in 1 .. Len(Tail(s)) : i + 1 \in 1 .. Len(s)
  BY <1>1
<1> QED BY <1>1, <1>2 DEF Ascends

LEMMA AscendsNone == Ascends(<<>>)
BY DEF Ascends

\* The End of an iteration may come after everything.
LEMMA EndIsLast == \A x : Before(x, End) /\ Before(End, x)
BY DEF Before

LEMMA AscendsEnd ==
  ASSUME NEW S, NEW s \in Seq(S \cup {End}), Ascends(s)
  PROVE  Ascends(Append(s, End))
<1>1. PICK T : T = S \cup {End}
  OBVIOUS
<1>2. s \in Seq(T) /\ End \in T
  BY <1>1
<1>3. \A x : Contains(s, x) => Before(x, End)
  BY EndIsLast
<1> QED BY <1>2, <1>3, AscendsAppend

\* An iteration over s yields a prefix of s without End, and stops before an End.
LEMMA OfYielded ==
  ASSUME NEW S, NEW s \in Seq(S)
  PROVE  /\ Yielded(s) \in Seq(S) /\ Len(Yielded(s)) <= Len(s)
         /\ Len(Yielded(s)) \in Nat /\ Len(s) \in Nat
         /\ \A i \in 1 .. Len(Yielded(s)) : Yielded(s)[i] = s[i] /\ s[i] # End
         /\ Contains(s, End) => /\ Len(Yielded(s)) + 1 \in 1 .. Len(s)
                                /\ s[Len(Yielded(s)) + 1] = End
         /\ ~Contains(s, End) => Yielded(s) = s
<1>0. Len(s) \in Nat /\ \A i \in 1 .. Len(s) : s[i] \in S
  BY LenProperties, ElementOfSeq
<1>1. PICK ends : ends = {i \in 1 .. Len(s) : s[i] = End}
  OBVIOUS
<1>2. CASE ~Contains(s, End)
  <2>1. ends = {} /\ \A i \in 1 .. Len(s) : s[i] # End
    BY <1>1, <1>2 DEF Contains
  <2>2. Yielded(s) = s
    BY <1>1, <2>1 DEF Yielded
  <2> QED BY <1>0, <1>2, <2>1, <2>2
<1>3. CASE Contains(s, End)
  <2>1. ends # {} /\ ends \in SUBSET Nat
    BY <1>0, <1>1, <1>3 DEF Contains
  <2>2. PICK k : k = CHOOSE i \in ends : \A j \in ends : i <= j
    OBVIOUS
  <2>3. k \in ends /\ \A j \in ends : k <= j
    BY <2>1, <2>2, SmallestIsThere
  <2>4. Yielded(s) = SubSeq(s, 1, k - 1)
    BY <1>1, <2>1, <2>2 DEF Yielded
  <2>5. k \in 1 .. Len(s) /\ s[k] = End /\ \A i \in 1 .. k - 1 : s[i] # End
    BY <1>0, <1>1, <2>3
  <2>6. k - 1 \in Int /\ 1 \in Int /\ \A i \in 1 .. k - 1 : s[i] \in S
    BY <1>0, <2>5
  <2>7. PICK u : u = SubSeq(s, 1, k - 1)
    OBVIOUS
  <2>8. /\ u \in Seq(S) /\ Len(u) = IF 1 <= k - 1 THEN (k - 1) - 1 + 1 ELSE 0
        /\ \A i \in 1 .. (k - 1) - 1 + 1 : u[i] = s[1 + i - 1]
    BY <2>6, <2>7, SubSeqProperties
  <2>9. Len(u) = k - 1 /\ \A i \in 1 .. k - 1 : u[i] = s[i]
    BY <2>5, <2>8
  <2> QED BY <1>0, <1>3, <2>4, <2>5, <2>7, <2>8, <2>9
<1> QED BY <1>2, <1>3

LEMMA PrefixIs ==
  ASSUME NEW S, NEW s \in Seq(S), NEW t \in Seq(S), Len(s) <= Len(t),
         \A i \in 1 .. Len(s) : s[i] = t[i]
  PROVE  IsPrefix(s, t)
<1>1. Len(s) \in Nat /\ Len(t) \in Nat
  BY LenProperties
<1>2. \A i \in 1 .. Len(s) : s[i] \in S /\ t[i] \in S
  BY <1>1, ElementOfSeq
<1>3. PICK n : n = Len(s)
  OBVIOUS
<1>4. PICK a, b : a = SubSeq(s, 1, n) /\ b = SubSeq(t, 1, n)
  OBVIOUS
<1>5. /\ a \in Seq(S) /\ Len(a) = IF 1 <= n THEN n - 1 + 1 ELSE 0
      /\ \A i \in 1 .. n - 1 + 1 : a[i] = s[1 + i - 1]
  <2>1. n \in Int /\ 1 \in Int /\ \A i \in 1 .. n : s[i] \in S
    BY <1>1, <1>2, <1>3
  <2> QED BY <1>4, <2>1, SubSeqProperties
<1>6. /\ b \in Seq(S) /\ Len(b) = IF 1 <= n THEN n - 1 + 1 ELSE 0
      /\ \A i \in 1 .. n - 1 + 1 : b[i] = t[1 + i - 1]
  <2>1. n \in Int /\ 1 \in Int /\ \A i \in 1 .. n : t[i] \in S
    BY <1>1, <1>2, <1>3
  <2> QED BY <1>4, <2>1, SubSeqProperties
<1>7. Len(a) = Len(b) /\ \A i \in 1 .. Len(a) : a[i] = b[i]
  BY <1>1, <1>3, <1>5, <1>6
<1>8. a = b
  BY <1>5, <1>6, <1>7, SeqEqual
<1> QED BY <1>3, <1>4, <1>8 DEF IsPrefix

\* What is put into a queue later takes nothing back, and nothing comes after End.
LEMMA YieldedGrows ==
  ASSUME NEW S, NEW s \in Seq(S), NEW e \in S
  PROVE  /\ IsPrefix(Yielded(s), Yielded(Append(s, e)))
         /\ Contains(s, End) => Yielded(Append(s, e)) = Yielded(s)
<1>1. PICK p, u, v : p = Append(s, e) /\ u = Yielded(s) /\ v = Yielded(p)
  OBVIOUS
<1>2. /\ p \in Seq(S) /\ Len(p) = Len(s) + 1 /\ \A i \in 1 .. Len(s) : p[i] = s[i]
      /\ p[Len(s) + 1] = e
      /\ \A x : Contains(p, x) <=> Contains(s, x) \/ x = e
  BY <1>1, AppendProperties, OfAppend
<1>3. /\ u \in Seq(S) /\ Len(u) <= Len(s) /\ Len(u) \in Nat /\ Len(s) \in Nat
      /\ \A i \in 1 .. Len(u) : u[i] = s[i] /\ s[i] # End
      /\ Contains(s, End) => Len(u) + 1 \in 1 .. Len(s) /\ s[Len(u) + 1] = End
      /\ ~Contains(s, End) => u = s
  BY <1>1, OfYielded
<1>4. /\ v \in Seq(S) /\ Len(v) <= Len(p) /\ Len(v) \in Nat
      /\ \A i \in 1 .. Len(v) : v[i] = p[i] /\ p[i] # End
      /\ Contains(p, End) => Len(v) + 1 \in 1 .. Len(p) /\ p[Len(v) + 1] = End
      /\ ~Contains(p, End) => v = p
  <2>1. p \in Seq(S)
    BY <1>2
  <2>2. v = Yielded(p)
    BY <1>1
  <2> QED BY ONLY <2>1, <2>2, OfYielded
<1>5. Len(u) <= Len(v)
  <2>1. CASE Contains(p, End)
    <3> SUFFICES ASSUME Len(v) < Len(u) PROVE FALSE
      BY <1>3, <1>4
    <3>1. Len(v) + 1 \in 1 .. Len(u) /\ Len(v) + 1 \in 1 .. Len(s)
      BY <1>3, <1>4
    <3>2. p[Len(v) + 1] = s[Len(v) + 1] /\ s[Len(v) + 1] # End
      BY <1>2, <1>3, <3>1
    <3> QED BY <1>4, <2>1, <3>2
  <2>2. CASE ~Contains(p, End)
    BY <1>2, <1>3, <1>4, <2>2
  <2> QED BY <2>1, <2>2
<1>6. \A i \in 1 .. Len(u) : u[i] = v[i]
  <2> SUFFICES ASSUME NEW i \in 1 .. Len(u) PROVE u[i] = v[i]
    OBVIOUS
  <2>1. i \in 1 .. Len(s) /\ i \in 1 .. Len(v)
    BY <1>3, <1>4, <1>5
  <2> QED BY <1>2, <1>3, <1>4, <2>1
<1>7. IsPrefix(u, v)
  BY <1>3, <1>4, <1>5, <1>6, PrefixIs
<1>8. ASSUME Contains(s, End) PROVE v = u
  <2>1. Len(v) <= Len(u)
    <3> SUFFICES ASSUME Len(u) < Len(v) PROVE FALSE
      BY <1>3, <1>4
    <3>1. Len(u) + 1 \in 1 .. Len(v) /\ Len(u) + 1 \in 1 .. Len(s) /\ s[Len(u) + 1] = End
      BY <1>3, <1>4, <1>8
    <3>2. p[Len(u) + 1] = End
      BY <1>2, <3>1
    <3> QED BY <1>4, <3>1, <3>2
  <2>2. Len(u) = Len(v)
    BY <1>3, <1>4, <1>5, <2>1
  <2> QED BY <1>3, <1>4, <1>6, <2>2, SeqEqual
<1> QED BY <1>1, <1>7, <1>8

-----------------------------------------------------------------------------
(* Queues and buffers are in order.                                        *)

\* Every queue and every buffer is in order, and the queue of a fetch holds objects of
\* fetches.
FeedInv ==
  /\ \A r \in Readers : Ascends(queue[r])
  /\ \A a \in Aliases : Ascends(pending_objects[a])
  /\ \A r \in Fetches : \A x :
       Contains(queue[r], x) => x = End \/ \E q \in Fetches : CameFor(q, x)

\* What comes next on a stream comes after all that came.
LEMMA Newer ==
  ASSUME TypeOK, NEW r \in Readers, NEW s \in DataStreams, NEW q \in Readers, NEW x,
         CameFor(q, x)
  PROVE  Before(x, Object(r, s, arrived[r][s] + 1))
<1>0. PICK t \in DataStreams : \E k \in 1 .. arrived[q][t] : x = Object(q, t, k)
  BY DEF CameFor
<1>1. PICK k \in 1 .. arrived[q][t] : x = Object(q, t, k)
  BY <1>0
<1>2. arrived[r][s] \in Nat /\ arrived[q][t] \in Nat
  BY DEF TypeOK
<1>3. PICK m : m = arrived[r][s] + 1
  OBVIOUS
<1>4. q = r /\ t = s => k < m
  BY <1>2, <1>3
<1>5. /\ x[1] = q /\ x[2] = t /\ x[3] = k
      /\ Object(r, s, m)[1] = r /\ Object(r, s, m)[2] = s /\ Object(r, s, m)[3] = m
  BY <1>1 DEF Object
<1>6. Before(x, Object(r, s, m))
  BY <1>4, <1>5 DEF Before
<1> QED BY <1>3, <1>6

LEMMA AscendsBuffered ==
  ASSUME NEW q \in Seq(AnObject), NEW o \in AnObject, Ascends(q),
         \A x : Contains(q, x) => Before(x, o)
  PROVE  Ascends(Buffered(q, o))
<1>1. CASE Len(q) < MaxPendingObjects
  <2>1. Buffered(q, o) = Append(q, o)
    BY <1>1, LenProperties DEF Buffered
  <2> QED BY <2>1, AscendsAppend
<1>2. CASE Len(q) >= MaxPendingObjects
  <2>1. q # <<>> /\ Buffered(q, o) = Append(Tail(q), o)
    BY <1>2, OfNone, LenProperties DEF Buffered
  <2>2. PICK u : u = Tail(q)
    OBVIOUS
  <2>3. u \in Seq(AnObject) /\ \A x : Contains(u, x) => Contains(q, x)
    BY <2>1, <2>2, OfTail
  <2>4. Ascends(u)
    BY <2>1, <2>2, AscendsTail
  <2>5. Ascends(Append(u, o))
    BY <2>3, <2>4, AscendsAppend
  <2> QED BY <2>1, <2>2, <2>5
<1> QED BY <1>1, <1>2, LenProperties

\* What a retry gives comes in the order of the stream.
LEMMA AscendsReleased ==
  ASSUME NEW r \in Subscribes, NEW n \in Nat, arrived[r]["held"] \in Nat
  PROVE  Ascends(Released(r, n))
<1>1. PICK m : m = arrived[r]["held"] /\ m \in Nat
  OBVIOUS
<1>2. PICK s : s = Released(r, n)
  OBVIOUS
<1>3. s = [i \in 1 .. n |-> Object(r, "held", m + i)]
  BY <1>1, <1>2 DEF Released
<1>4. Len(s) = n /\ \A i \in 1 .. n : s[i] = Object(r, "held", m + i)
  BY <1>3
<1> SUFFICES ASSUME NEW i \in 1 .. n, NEW j \in 1 .. n, i < j PROVE Before(s[i], s[j])
  BY <1>2, <1>4 DEF Ascends
<1>5. s[i][3] = m + i /\ s[j][3] = m + j
  BY <1>4 DEF Object
<1>6. m + i < m + j
  BY <1>1
<1> QED BY <1>5, <1>6 DEF Before

\* A step that brings no object.
LEMMA QuietFeed ==
  ASSUME TypeOK, FeedInv,
         \A r \in Fetches : arrived'[r] = arrived[r],
         \A r \in Readers : \/ queue'[r] = queue[r] \/ queue'[r] = <<>>
                             \/ queue'[r] = Append(queue[r], End),
         \A a \in Aliases : pending_objects'[a] = pending_objects[a] \/ pending_objects'[a] = <<>>
  PROVE  FeedInv'
<1>1. ASSUME NEW r \in Readers
      PROVE  /\ Ascends(queue'[r])
             /\ \A x : Contains(queue'[r], x) => x = End \/ Contains(queue[r], x)
  <2>1. PICK s \in Seq(AnObject \cup {End}) : s = queue[r] /\ Ascends(s)
    BY DEF TypeOK, FeedInv
  <2>2. CASE queue'[r] = queue[r]
    BY <2>1, <2>2
  <2>3. CASE queue'[r] = <<>>
    BY <2>3, AscendsNone, OfNone
  <2>4. CASE queue'[r] = Append(queue[r], End)
    <3>1. \A x : Contains(Append(s, End), x) <=> Contains(s, x) \/ x = End
      BY OfAppend
    <3>2. Ascends(Append(s, End))
      BY <2>1, AscendsEnd
    <3> QED BY <2>1, <2>4, <3>1, <3>2
  <2> QED BY <2>2, <2>3, <2>4
<1>2. \A a \in Aliases : Ascends(pending_objects'[a])
  BY AscendsNone DEF FeedInv
<1>3. \A q \in Fetches : \A x : CameFor(q, x)' <=> CameFor(q, x)
  BY DEF CameFor
<1>4. \A r \in Fetches : \A x :
        Contains(queue'[r], x) => x = End \/ \E q \in Fetches : CameFor(q, x)'
  BY <1>1, <1>3 DEF FeedInv
<1> QED BY <1>1, <1>2, <1>4 DEF FeedInv

LEMMA SubscribedObjectFeed ==
  ASSUME IInv, KeptInv, FeedInv, NEW r \in Subscribes, NEW s \in DataStreams,
         SubscribedObject(r, s)
  PROVE  FeedInv'
<1>0. TypeOK /\ ContentInv
  BY DEF IInv, KeptInv, HeldInv
<1>1. PICK o, a : o = Object(r, s, arrived[r][s] + 1) /\ a = TrackAlias[r]
  OBVIOUS
<1>2. o \in AnObject /\ o \in AnObject \cup {End} /\ a \in Aliases /\ r \in Readers
  BY <1>0, <1>1, ObjectComes DEF SubscribedObject
<1>3. \A q \in Readers : \A x : CameFor(q, x) => Before(x, o)
  BY <1>0, <1>1, <1>2, Newer
<1>4. \A q \in Fetches : arrived'[q] = arrived[q]
  <2>1. arrived' = [arrived EXCEPT ![r][s] = @ + 1]
    BY DEF SubscribedObject
  <2> QED BY <1>0, <2>1 DEF TypeOK
<1>5. \A q \in Fetches : \A x : CameFor(q, x)' <=> CameFor(q, x)
  BY <1>4 DEF CameFor
\* Whoever the alias leads to, what it has been given came before.
<1>6. CASE Receiver(r) # NoRequest
  <2>1. PICK p \in Subscribes : p = Receiver(r)
    BY <1>0, <1>2, <1>1, <1>6 DEF Receiver, TypeOK
  <2>2. queue' = [queue EXCEPT ![p] = Append(@, o)] /\ UNCHANGED pending_objects
    BY <1>1, <1>6, <2>1 DEF SubscribedObject
  <2>3. PICK b \in Seq(AnObject \cup {End}) : b = queue[p] /\ Ascends(b)
    BY <1>0 DEF TypeOK, FeedInv
  <2>4. ASSUME NEW x, Contains(b, x) PROVE Before(x, o)
    <3>1. CASE x = End
      BY <3>1, EndIsLast
    <3>2. CASE x # End
      <4>1. PICK u \in Subscribes : CameFor(u, x)
        BY <1>0, <2>3, <2>4, <3>2 DEF ContentInv
      <4> QED BY <1>3, <4>1
    <3> QED BY <3>1, <3>2
  <2>5. Ascends(Append(b, o))
    BY <1>2, <2>3, <2>4, AscendsAppend
  <2>6. queue'[p] = Append(b, o) /\ \A q \in Readers \ {p} : queue'[q] = queue[q]
    BY <1>0, <2>2, <2>3 DEF TypeOK
  <2>7. \A q \in Readers : Ascends(queue'[q])
    BY <2>5, <2>6 DEF FeedInv
  <2>8. \A q \in Fetches : queue'[q] = queue[q]
    BY <2>6
  <2> QED BY <1>5, <2>2, <2>7, <2>8 DEF FeedInv
<1>7. CASE Receiver(r) = NoRequest
  <2>1. pending_objects' = [pending_objects EXCEPT ![a] = Buffered(@, o)] /\ UNCHANGED queue
    BY <1>1, <1>7 DEF SubscribedObject
  <2>2. PICK b \in Seq(AnObject) : b = pending_objects[a] /\ Ascends(b)
    BY <1>0, <1>2 DEF TypeOK, FeedInv
  <2>3. \A x : Contains(b, x) => Before(x, o)
    BY <1>0, <1>2, <1>3, <2>2 DEF ContentInv
  <2>4. Ascends(Buffered(b, o))
    BY <1>2, <2>2, <2>3, AscendsBuffered
  <2>5. \A c \in Aliases : Ascends(pending_objects'[c])
    BY <1>0, <1>2, <2>1, <2>2, <2>4 DEF TypeOK, FeedInv
  <2> QED BY <1>5, <2>1, <2>5 DEF FeedInv
<1> QED BY <1>6, <1>7

LEMMA FetchedObjectFeed ==
  ASSUME IInv, FeedInv, NEW r \in Fetches, FetchedObject(r)
  PROVE  FeedInv'
<1>0. TypeOK /\ fetches \subseteq Fetches
  BY DEF IInv, TypeOK
<1>1. PICK o, s : o = Object(r, s, arrived[r][s] + 1) /\ s = "live"
  OBVIOUS
<1>2. r \in Readers /\ s \in DataStreams /\ arrived[r][s] \in Nat
  BY <1>0, <1>1 DEF DataStreams, TypeOK
<1>3. o \in AnObject \cup {End}
  BY <1>0, <1>1, <1>2, ObjectComes DEF FetchedObject
<1>4. /\ arrived' = [arrived EXCEPT ![r][s] = @ + 1]
      /\ queue' = [q \in Readers |-> IF q \in fetches THEN Append(queue[q], o) ELSE queue[q]]
      /\ UNCHANGED <<waiting, pending_objects>>
  BY <1>1 DEF FetchedObject, pending
<1>5. \A q \in Readers, t \in DataStreams :
        arrived'[q][t] = IF q = r /\ t = s THEN arrived[q][t] + 1 ELSE arrived[q][t]
  <2>1. arrived' = [arrived EXCEPT ![r][s] = @ + 1] /\ TypeOK
    BY <1>0, <1>4
  <2> QED BY ONLY <1>2, <2>1, CountGrows
<1>6. ASSUME NEW q \in Fetches, NEW x, CameFor(q, x) PROVE CameFor(q, x)'
  <2>1. q \in Readers /\ \A t \in DataStreams : arrived[q][t] \in Nat
    BY <1>0 DEF TypeOK
  <2>2. \A t \in DataStreams : arrived'[q][t] \in Nat /\ arrived'[q][t] >= arrived[q][t]
    BY <1>5, <2>1
  <2> QED BY <1>0, <1>6, <2>1, <2>2, StillCame
<1>7. CameFor(r, o)'
  <2>1. arrived'[r][s] = arrived[r][s] + 1
    BY <1>2, <1>5
  <2>2. PICK m : m = arrived[r][s] + 1
    OBVIOUS
  <2>3. m \in 1 .. arrived'[r][s]
    BY <1>2, <2>1, <2>2
  <2> QED BY <1>1, <1>2, <2>2, <2>3 DEF CameFor
<1>8. ASSUME NEW q \in Fetches
      PROVE  /\ Ascends(Append(queue[q], o))
             /\ \A x : Contains(Append(queue[q], o), x) <=> Contains(queue[q], x) \/ x = o
  <2>1. PICK b \in Seq(AnObject \cup {End}) : b = queue[q] /\ Ascends(b)
    BY <1>0 DEF TypeOK, FeedInv
  <2>2. ASSUME NEW x, Contains(b, x) PROVE Before(x, o)
    <3>1. CASE x = End
      BY <3>1, EndIsLast
    <3>2. CASE x # End
      <4>1. PICK p \in Fetches : CameFor(p, x)
        BY <2>1, <2>2, <3>2 DEF FeedInv
      <4> QED BY <1>0, <1>1, <1>2, <4>1, Newer
    <3> QED BY <3>1, <3>2
  <2>3. Ascends(Append(b, o))
    BY <1>3, <2>1, <2>2, AscendsAppend
  <2>4. \A x : Contains(Append(b, o), x) <=> Contains(b, x) \/ x = o
    BY <1>3, OfAppend
  <2> QED BY <2>1, <2>3, <2>4
<1>9. \A q \in Readers : Ascends(queue'[q])
  BY <1>0, <1>4, <1>8 DEF FeedInv
<1>10. ASSUME NEW q \in Fetches, NEW x, Contains(queue'[q], x)
       PROVE  x = End \/ \E p \in Fetches : CameFor(p, x)'
  <2>1. Contains(queue[q], x) \/ x = o
    <3>1. queue'[q] = queue[q] \/ queue'[q] = Append(queue[q], o)
      BY <1>4
    <3> QED BY <1>8, <1>10, <3>1
  <2>2. CASE x = o
    BY <1>7, <2>2
  <2>3. CASE Contains(queue[q], x) /\ x # End
    <3>1. PICK p \in Fetches : CameFor(p, x)
      BY <2>3 DEF FeedInv
    <3> QED BY <1>6, <3>1
  <2> QED BY <2>1, <2>2, <2>3
<1> QED BY <1>4, <1>9, <1>10 DEF FeedInv

LEMMA SubscribedFeed ==
  ASSUME IInv, KeptInv, FeedInv,
         NEW r \in Subscribes, NEW n \in 0 .. Objects[r]["held"], Subscribed(r, n)
  PROVE  FeedInv'
<1>0. TypeOK /\ n \in Nat /\ r \in Readers /\ r \notin Fetches /\ "held" \in DataStreams
      /\ arrived[r]["held"] \in Nat
  BY DEF IInv, TypeOK, DataStreams
<1>1. /\ waiting[r] = "resolved" /\ waiting' = [waiting EXCEPT ![r] = "returned"]
      /\ n > 0 => Live(r) /\ arrived[r]["held"] = 0
      /\ arrived[r]["held"] + n <= Objects[r]["held"]
      /\ arrived' = [arrived EXCEPT ![r]["held"] = @ + n]
      /\ queue' = [queue EXCEPT ![r] = @ \o PickedUp(r, n)]
      /\ pending_objects' = [pending_objects EXCEPT ![ReadAlias(r)] = <<>>]
  BY DEF Subscribed
<1>2. PICK a, b : a = ReadAlias(r) /\ b = pending_objects[a]
  OBVIOUS
<1>3. a \in Aliases /\ b \in Seq(AnObject) /\ Ascends(b)
  BY <1>0, <1>2, AliasIsRead DEF TypeOK, FeedInv
<1>4. PICK h : h = Released(r, n)
  OBVIOUS
<1>5. /\ h \in Seq(AnObject) /\ Ascends(h)
      /\ \A x : Contains(h, x) <=> \E i \in 1 .. n : x = Object(r, "held", arrived[r]["held"] + i)
  BY <1>0, <1>1, <1>4, OfReleased, AscendsReleased
\* What was buffered came for others or on other streams than what the retry gives.
<1>6. ASSUME NEW x, NEW y, Contains(h, x), Contains(b, y) PROVE Before(x, y)
  <2>1. PICK i \in 1 .. n : x = Object(r, "held", arrived[r]["held"] + i)
    BY <1>5, <1>6
  <2>2. n > 0 /\ Live(r) /\ arrived[r]["held"] = 0
    BY <1>0, <1>1, <2>1
  <2>3. PICK q \in Subscribes : CameFor(q, y)
    BY <1>2, <1>3, <1>6 DEF KeptInv, HeldInv, ContentInv
  <2>4. PICK t \in DataStreams : \E k \in 1 .. arrived[q][t] : y = Object(q, t, k)
    BY <2>3 DEF CameFor
  <2>5. PICK k \in 1 .. arrived[q][t] : y = Object(q, t, k)
    BY <2>4
  <2>6. q = r => t # "held"
    BY <2>2, <2>5
  <2>7. x[1] = r /\ y[1] = q /\ x[2] = "held" /\ y[2] = t
    BY <2>1, <2>5 DEF Object
  <2> QED BY <2>6, <2>7 DEF Before
<1>7. PICK c : c = IF Contains(pending_terminations, r) THEN <<End>> ELSE <<>>
  OBVIOUS
<1>8. /\ c \in Seq(AnObject \cup {End}) /\ Ascends(c)
      /\ \A x : Contains(c, x) => x = End
  <2>1. CASE c = <<>>
    BY <2>1, OfNone, AscendsNone
  <2>2. CASE c = <<End>>
    <3>1. <<End>> \in Seq(AnObject \cup {End}) /\ \A x : Contains(<<End>>, x) <=> x = End
      BY OfOne
    <3>2. Ascends(<<End>>)
      BY DEF Ascends
    <3> QED BY <2>2, <3>1, <3>2
  <2> QED BY <1>7, <2>1, <2>2
<1>9. PICK hb : hb = h \o b
  OBVIOUS
<1>10. Ascends(hb)
  BY <1>3, <1>5, <1>6, <1>9, AscendsConcat
<1>11. hb \in Seq(AnObject) /\ hb \in Seq(AnObject \cup {End})
  BY <1>3, <1>5, <1>9, OfConcat, SeqMonotonic
<1>12. Ascends(hb \o c) /\ hb \o c \in Seq(AnObject \cup {End})
  BY <1>8, <1>10, <1>11, EndIsLast, AscendsConcat, OfConcat
<1>13. PickedUp(r, n) = hb \o c
  BY <1>2, <1>4, <1>7, <1>9 DEF PickedUp
<1>14. queue'[r] = hb \o c /\ \A q \in Readers \ {r} : queue'[q] = queue[q]
  <2>1. queue[r] = <<>>
    BY <1>1 DEF KeptInv, RouteInv, QueueInv, QueueOK
  <2>2. <<>> \o (hb \o c) = hb \o c
    BY <1>12, ConcatEmptySeq
  <2> QED BY <1>0, <1>1, <1>13, <2>1, <2>2 DEF TypeOK
<1>15. \A q \in Readers : Ascends(queue'[q])
  BY <1>12, <1>14 DEF FeedInv
<1>16. \A d \in Aliases : Ascends(pending_objects'[d])
  BY <1>0, <1>1, AscendsNone DEF TypeOK, FeedInv
<1>17. \A q \in Fetches : queue'[q] = queue[q] /\ arrived'[q] = arrived[q]
  BY <1>0, <1>1, <1>14 DEF TypeOK
<1>18. \A q \in Fetches : \A x : CameFor(q, x)' <=> CameFor(q, x)
  BY <1>17 DEF CameFor
<1> QED BY <1>15, <1>16, <1>17, <1>18 DEF FeedInv

LEMMA FeedNext == ASSUME IInv, KeptInv, FeedInv, [Next]_vars PROVE FeedInv'
<1>0. TypeOK
  BY DEF IInv
<1>1. ASSUME UNCHANGED <<queue, pending_objects>>, \A q \in Fetches : arrived'[q] = arrived[q]
      PROVE  FeedInv'
  BY <1>0, <1>1, QuietFeed
\* An end is put into a queue.
<1>2. ASSUME NEW r \in Readers, queue' = [queue EXCEPT ![r] = Append(@, End)], UNCHANGED arrived,
             \A a \in Aliases : pending_objects'[a] = pending_objects[a] \/ pending_objects'[a] = <<>>
      PROVE  FeedInv'
  <2>1. \A q \in Readers : queue'[q] = IF q = r THEN Append(queue[q], End) ELSE queue[q]
    BY <1>0, <1>2 DEF TypeOK
  <2> QED BY <1>0, <1>2, <2>1, QuietFeed
<1>3. ASSUME NEW r \in Subscribes, Subscribe(r) \/ SubscribeFails(r) PROVE FeedInv'
  BY <1>1, <1>3 DEF Subscribe, SubscribeFails, pending
<1>4. ASSUME NEW r \in Subscribes, PublishDone(r) PROVE FeedInv'
  <2>1. UNCHANGED <<arrived, pending_objects>>
    BY <1>4 DEF PublishDone
  <2>2. CASE r \in subscriptions
    BY <1>2, <1>4, <2>1, <2>2 DEF PublishDone
  <2>3. CASE r \notin subscriptions
    BY <1>1, <1>4, <2>1, <2>3 DEF PublishDone
  <2> QED BY <2>2, <2>3
<1>5. ASSUME NEW r \in Subscribes, NEW s \in DataStreams, SubscribedObject(r, s) PROVE FeedInv'
  BY <1>5, SubscribedObjectFeed
<1>6. ASSUME NEW r \in Subscribes, NEW n \in 0 .. Objects[r]["held"], Subscribed(r, n) PROVE FeedInv'
  BY <1>6, SubscribedFeed
<1>7. ASSUME NEW r \in Fetches, FetchedObject(r) PROVE FeedInv'
  BY <1>7, FetchedObjectFeed
<1>8. ASSUME NEW r \in Fetches, Fetched(r) PROVE FeedInv'
  <2>1. /\ queue' = IF r \in fetches THEN queue ELSE [queue EXCEPT ![r] = <<>>]
        /\ UNCHANGED <<arrived, pending_objects>>
    BY <1>8 DEF Fetched, pending
  <2>2. \A q \in Readers : queue'[q] = queue[q] \/ queue'[q] = <<>>
    BY <1>0, <2>1 DEF TypeOK
  <2> QED BY <1>0, <2>1, <2>2, QuietFeed
<1>9. ASSUME NEW r \in Requests,
             Fetch(r) \/ Answer(r) \/ Refuse(r) \/ Cancel(r) \/ Other(r) \/ Cleanup(r)
      PROVE  FeedInv'
  BY <1>1, <1>9 DEF Fetch, Answer, Refuse, Cancel, Other, Cleanup, pending
<1>10. ASSUME NEW r \in Requests, Terminate(r) PROVE FeedInv'
  <2>1. UNCHANGED arrived
    BY <1>10 DEF Terminate
  <2>2. CASE r \in subscriptions
    <3>1. Unregister(r)
      BY <1>10, <2>2 DEF Terminate
    <3>2. r \in Readers /\ \A a \in Aliases : pending_objects'[a] = pending_objects[a] \/ pending_objects'[a] = <<>>
      BY <1>0, <2>2, <3>1 DEF Unregister, TypeOK
    <3>3. queue' = [queue EXCEPT ![r] = Append(@, End)]
      BY <3>1 DEF Unregister
    <3> QED BY <1>2, <2>1, <3>2, <3>3
  <2>3. CASE r \notin subscriptions /\ r \in fetches
    <3>1. queue' = [queue EXCEPT ![r] = Append(@, End)] /\ UNCHANGED pending_objects
      BY <1>10, <2>3 DEF Terminate, pending
    <3>2. r \in Readers
      BY <1>0, <2>3 DEF TypeOK
    <3> QED BY <1>2, <2>1, <3>1, <3>2
  <2>4. CASE r \notin subscriptions /\ r \notin fetches
    BY <1>1, <1>10, <2>1, <2>4 DEF Terminate
  <2> QED BY <2>2, <2>3, <2>4
<1>11. CASE SessionEnds \/ UNCHANGED vars
  BY <1>1, <1>11 DEF SessionEnds, vars, pending
<1>12. CASE Close
  BY <1>0, <1>12, QuietFeed DEF Close
<1> QED BY <1>3, <1>4, <1>5, <1>6, <1>7, <1>8, <1>9, <1>10, <1>11, <1>12 DEF Next

LEMMA InitFeed == Init => FeedInv
BY OfNone, AscendsNone DEF Init, FeedInv

-----------------------------------------------------------------------------
(* ClientRouting implements ObjectFeed.                                    *)

\* What an iteration has been given is in order and of its own sources.
FeedPromise ==
  \A r \in Readers : Feed!InOrder(Seen[r]) /\ Feed!From(OfItsAlias[r], Seen[r])

LEMMA FeedIsPromised == IInv /\ KeptInv /\ FeedInv => FeedPromise
<1> SUFFICES ASSUME IInv, KeptInv, FeedInv, NEW r \in Readers
             PROVE  Feed!InOrder(Seen[r]) /\ Feed!From(OfItsAlias[r], Seen[r])
  BY DEF FeedPromise
<1>1. PICK s \in Seq(AnObject \cup {End}) : s = queue[r]
  BY DEF IInv, TypeOK
<1>2. PICK u : u = Seen[r]
  OBVIOUS
<1>3. CASE waiting[r] # "returned"
  <2>1. u = <<>>
    BY <1>2, <1>3 DEF Seen
  <2> QED BY <1>2, <2>1 DEF Feed!InOrder, Feed!From
<1>4. CASE waiting[r] = "returned"
  <2>1. u = Yielded(s)
    BY <1>1, <1>2, <1>4 DEF Seen
  <2>2. /\ Len(u) \in Nat /\ Len(s) \in Nat /\ Len(u) <= Len(s)
        /\ \A i \in 1 .. Len(u) : u[i] = s[i] /\ s[i] # End
    BY <2>1, OfYielded
  <2>3. 1 .. Len(u) \subseteq 1 .. Len(s)
    BY <2>2
  <2>4. \A i, j \in 1 .. Len(u) : i < j => Before(u[i], u[j])
    BY <1>1, <2>2, <2>3 DEF FeedInv, Ascends
  <2>5. Feed!InOrder(u)
    BY <2>2, <2>4 DEF Feed!InOrder, Before
  <2>6. ASSUME NEW i \in 1 .. Len(u) PROVE u[i][1] \in OfItsAlias[r]
    <3>1. Contains(s, u[i]) /\ u[i] # End
      BY <2>2, <2>3 DEF Contains
    <3>2. \A q : CameFor(q, u[i]) => u[i][1] = q
      BY DEF CameFor, Object
    <3>3. CASE r \in Subscribes
      <4>1. PICK q \in Subscribes : TrackAlias[q] = track_alias[r] /\ CameFor(q, u[i])
        BY <1>1, <3>1, <3>3 DEF KeptInv, HeldInv, ContentInv
      <4> QED BY <3>2, <3>3, <4>1 DEF OfItsAlias
    <3>4. CASE r \in Fetches
      <4>1. PICK q \in Fetches : CameFor(q, u[i])
        BY <1>1, <3>1, <3>4 DEF FeedInv
      <4> QED BY <3>2, <3>4, <4>1 DEF OfItsAlias
    <3> QED BY <3>3, <3>4
  <2>7. Feed!From(OfItsAlias[r], u)
    BY <2>6 DEF Feed!From
  <2> QED BY <1>2, <2>5, <2>7
<1> QED BY <1>3, <1>4

\* A queue that the application iterates over only grows.
LEMMA GivenOnlyGrows ==
  ASSUME IInv, [Next]_vars, NEW r \in Readers, waiting[r] = "returned"
  PROVE  /\ waiting'[r] = "returned"
         /\ \/ queue'[r] = queue[r]
            \/ \E e \in AnObject \cup {End} : queue'[r] = Append(queue[r], e)
<1> DEFINE Grows == /\ waiting'[r] = "returned"
                    /\ \/ queue'[r] = queue[r]
                       \/ \E e \in AnObject \cup {End} : queue'[r] = Append(queue[r], e)
<1>0. TypeOK /\ CallInv
  BY DEF IInv
<1>1. ASSUME NEW q \in Readers, NEW e \in AnObject \cup {End},
             queue' = [queue EXCEPT ![q] = Append(@, e)], UNCHANGED waiting
      PROVE  Grows
  <2>1. queue'[r] = queue[r] \/ queue'[r] = Append(queue[r], e)
    BY <1>0, <1>1 DEF TypeOK
  <2> QED BY <1>1, <2>1
<1>2. ASSUME NEW q \in Subscribes, Subscribe(q) \/ SubscribeFails(q) PROVE Grows
  <2>1. UNCHANGED queue /\ waiting[q] \in {"none", "resolved"}
    BY <1>0, <1>2 DEF Subscribe, SubscribeFails, Callable, CallInv
  <2>2. q # r
    BY <2>1
  <2>3. waiting'[r] = waiting[r]
    BY <1>0, <1>2, <2>2 DEF Subscribe, SubscribeFails, TypeOK
  <2> QED BY <2>1, <2>3
<1>3. ASSUME NEW q \in Subscribes, PublishDone(q) PROVE Grows
  <2>1. UNCHANGED waiting /\ (UNCHANGED queue \/ queue' = [queue EXCEPT ![q] = Append(@, End)])
    BY <1>3 DEF PublishDone
  <2> QED BY <1>1, <2>1
<1>4. ASSUME NEW q \in Subscribes, NEW s \in DataStreams, SubscribedObject(q, s) PROVE Grows
  <2>1. PICK o : o = Object(q, s, arrived[q][s] + 1)
    OBVIOUS
  <2>2. o \in AnObject /\ UNCHANGED waiting
    BY <1>0, <1>4, <2>1, ObjectComes DEF SubscribedObject
  <2>3. \/ UNCHANGED queue
        \/ Receiver(q) # NoRequest /\ queue' = [queue EXCEPT ![Receiver(q)] = Append(@, o)]
    BY <1>4, <2>1 DEF SubscribedObject
  <2>4. Receiver(q) # NoRequest => Receiver(q) \in Readers
    BY <1>0 DEF Receiver, TypeOK
  <2> QED BY <1>1, <2>2, <2>3, <2>4
<1>5. ASSUME NEW q \in Subscribes, NEW n \in 0 .. Objects[q]["held"], Subscribed(q, n) PROVE Grows
  <2>1. /\ waiting[q] = "resolved" /\ waiting' = [waiting EXCEPT ![q] = "returned"]
        /\ queue' = [queue EXCEPT ![q] = @ \o PickedUp(q, n)]
    BY <1>5 DEF Subscribed
  <2>2. q # r
    BY <2>1
  <2> QED BY <1>0, <2>1, <2>2 DEF TypeOK
<1>6. ASSUME NEW q \in Fetches, Fetch(q) PROVE Grows
  <2>1. waiting[q] = "none" /\ UNCHANGED queue /\ waiting' = [waiting EXCEPT ![q] = "waiting"]
    BY <1>0, <1>6 DEF Fetch, Callable, CallInv
  <2> QED BY <1>0, <2>1 DEF TypeOK
<1>7. ASSUME NEW q \in Fetches, FetchedObject(q) PROVE Grows
  <2>1. PICK o : o = Object(q, "live", arrived[q]["live"] + 1)
    OBVIOUS
  <2>2. "live" \in DataStreams /\ q \in Readers
    BY DEF DataStreams
  <2>3. o \in AnObject
    BY <1>0, <1>7, <2>1, <2>2, ObjectComes DEF FetchedObject
  <2>4. UNCHANGED waiting /\ (queue'[r] = queue[r] \/ queue'[r] = Append(queue[r], o))
    BY <1>7, <2>1 DEF FetchedObject
  <2> QED BY <2>3, <2>4
<1>8. ASSUME NEW q \in Fetches, Fetched(q) PROVE Grows
  <2>1. /\ waiting[q] = "resolved" /\ waiting' = [waiting EXCEPT ![q] = "returned"]
        /\ UNCHANGED queue \/ queue' = [queue EXCEPT ![q] = <<>>]
    BY <1>8 DEF Fetched
  <2>2. q # r
    BY <2>1
  <2> QED BY <1>0, <2>1, <2>2 DEF TypeOK
<1>9. ASSUME NEW q \in Readers, Answer(q) \/ Refuse(q) \/ Cancel(q) PROVE Grows
  <2>1. UNCHANGED queue
    BY <1>9 DEF Answer, Refuse, Cancel
  <2>2. waiting'[r] = "returned"
    BY <1>0, <1>9 DEF Answer, Refuse, Cancel, TypeOK
  <2> QED BY <2>1, <2>2
<1>10. ASSUME NEW q \in Requests, Other(q) \/ Cleanup(q) PROVE Grows
  BY <1>10 DEF Other, Cleanup
<1>11. ASSUME NEW q \in Requests, Terminate(q) PROVE Grows
  <2>1. UNCHANGED waiting
    BY <1>11 DEF Terminate
  <2>2. CASE q \in subscriptions \/ q \in fetches
    <3>1. queue' = [queue EXCEPT ![q] = Append(@, End)]
      BY <1>11, <2>2 DEF Terminate, Unregister
    <3>2. q \in Readers
      BY <1>0, <2>2 DEF TypeOK
    <3> QED BY <1>1, <2>1, <3>1, <3>2
  <2>3. CASE q \notin subscriptions /\ q \notin fetches
    BY <1>11, <2>1, <2>3 DEF Terminate
  <2> QED BY <2>2, <2>3
<1>12. CASE SessionEnds \/ Close
  BY <1>12 DEF SessionEnds, Close
<1>13. CASE UNCHANGED vars
  BY <1>13 DEF vars
<1> QED BY <1>2, <1>3, <1>4, <1>5, <1>6, <1>7, <1>8, <1>9, <1>10, <1>11, <1>12, <1>13 DEF Next

\* The alias of a subscription that the application has does not change.
LEMMA AliasStays ==
  ASSUME IInv, [Next]_vars, NEW r \in Readers, waiting[r] = "returned"
  PROVE  OfItsAlias'[r] = OfItsAlias[r]
<1>0. TypeOK
  BY DEF IInv
<1>1. ASSUME r \in Subscribes => track_alias'[r] = track_alias[r]
      PROVE  OfItsAlias'[r] = OfItsAlias[r]
  BY <1>1 DEF OfItsAlias
<1>2. ASSUME NEW q \in Subscribes,
             SubscribeFails(q) \/ \E n \in 0 .. Objects[q]["held"] : Subscribed(q, n)
      PROVE  r \in Subscribes => track_alias'[r] = track_alias[r]
  <2>1. waiting[q] = "resolved" /\ track_alias' = [track_alias EXCEPT ![q] = ReadAlias(q)]
    BY <1>2 DEF SubscribeFails, Subscribed
  <2>2. q # r
    BY <2>1
  <2> QED BY <1>0, <2>1, <2>2 DEF TypeOK
<1>3. ASSUME NEW q \in Requests,
             \/ Subscribe(q) \/ PublishDone(q) \/ Fetch(q) \/ FetchedObject(q) \/ Fetched(q)
             \/ Answer(q) \/ Refuse(q) \/ Cancel(q) \/ Other(q) \/ Cleanup(q) \/ Terminate(q)
             \/ \E s \in DataStreams : SubscribedObject(q, s)
      PROVE  UNCHANGED track_alias
  BY <1>3 DEF Subscribe, PublishDone, Fetch, FetchedObject, Fetched, Answer, Refuse, Cancel,
              Other, Cleanup, Terminate, SubscribedObject, tables
<1>4. SessionEnds \/ Close \/ UNCHANGED vars => UNCHANGED track_alias
  BY DEF SessionEnds, Close, vars, tables
<1> QED BY <1>1, <1>2, <1>3, <1>4 DEF Next

\* Every step gives the iterations something that the abstract feed may give.
LEMMA FeedSteps ==
  ASSUME IInv, FeedPromise', [Next]_vars PROVE Feed!Next
<1>1. ASSUME NEW r \in Readers, waiting[r] = "returned"
      PROVE  /\ waiting'[r] = "returned"
             /\ IsPrefix(Seen[r], Seen'[r])
             /\ Contains(queue[r], End) => Contains(queue'[r], End) /\ Seen'[r] = Seen[r]
  <2>1. PICK s \in Seq(AnObject \cup {End}) : s = queue[r]
    BY DEF IInv, TypeOK
  <2>2. /\ waiting'[r] = "returned"
        /\ queue'[r] = s \/ \E e \in AnObject \cup {End} : queue'[r] = Append(s, e)
    BY <1>1, <2>1, GivenOnlyGrows
  <2>3. Seen[r] = Yielded(s) /\ Seen'[r] = Yielded(queue'[r])
    BY <1>1, <2>1, <2>2 DEF Seen
  <2>4. CASE queue'[r] = s
    <3>1. Yielded(s) \in Seq(AnObject \cup {End})
      BY OfYielded
    <3>2. IsPrefix(Yielded(s), Yielded(s))
      BY <3>1, LenProperties, PrefixIs
    <3> QED BY <2>1, <2>2, <2>3, <2>4, <3>2
  <2>5. ASSUME NEW e \in AnObject \cup {End}, queue'[r] = Append(s, e)
        PROVE  /\ IsPrefix(Seen[r], Seen'[r])
               /\ Contains(s, End) => Contains(queue'[r], End) /\ Seen'[r] = Seen[r]
    <3>1. \A x : Contains(Append(s, e), x) <=> Contains(s, x) \/ x = e
      BY OfAppend
    <3> QED BY <2>3, <2>5, <3>1, YieldedGrows
  <2> QED BY <2>1, <2>2, <2>4, <2>5
<1>2. ASSUME NEW r \in Readers, waiting[r] # "returned"
      PROVE  IsPrefix(Seen[r], Seen'[r]) /\ r \notin Over
  <2>1. Seen[r] = <<>>
    BY <1>2 DEF Seen
  <2>2. PICK u : u = Seen'[r]
    OBVIOUS
  <2>3. PICK s \in Seq(AnObject \cup {End}) : s = queue'[r]
    <3>1. TypeOK'
      BY TypesNext DEF IInv
    <3> QED BY <3>1 DEF TypeOK
  <2>4. u = Yielded(s) \/ u = <<>>
    BY <2>2, <2>3 DEF Seen
  <2>5. u \in Seq(AnObject \cup {End}) /\ <<>> \in Seq(AnObject \cup {End})
    <3>1. Yielded(s) \in Seq(AnObject \cup {End})
      BY OfYielded
    <3>2. <<>> \in Seq(AnObject \cup {End})
      BY OfNone
    <3> QED BY <2>4, <3>1, <3>2
  <2>6. PICK none : none = <<>>
    OBVIOUS
  <2>7. Len(none) = 0 /\ Len(u) \in Nat /\ none \in Seq(AnObject \cup {End})
    BY <2>5, <2>6, LenProperties
  <2>8. IsPrefix(none, u)
    <3>1. Len(none) <= Len(u) /\ \A i \in 1 .. Len(none) : none[i] = u[i]
      BY <2>7
    <3> QED BY <2>5, <2>7, <3>1, PrefixIs
  <2>9. r \notin Over
    BY <1>2 DEF Over
  <2> QED BY <2>1, <2>2, <2>6, <2>8, <2>9
<1>3. Over \subseteq Over'
  BY <1>1 DEF Over
<1>4. ASSUME NEW r \in Readers PROVE Feed!Give(r)
  <2>1. Feed!InOrder(Seen'[r]) /\ Feed!From(OfItsAlias'[r], Seen'[r])
    BY DEF FeedPromise, Feed!InOrder, Feed!From
  <2>2. IsPrefix(Seen[r], Seen'[r])
    BY <1>1, <1>2
  <2>3. r \in Over => Seen'[r] = Seen[r]
    BY <1>1, <1>2 DEF Over
  <2>4. Feed!IsPrefix(Seen[r], Seen'[r])
    BY <2>2 DEF Feed!IsPrefix, IsPrefix
  <2>5. Seen[r] # <<>> => OfItsAlias'[r] = OfItsAlias[r]
    BY AliasStays DEF Seen
  <2> QED BY <2>1, <2>3, <2>4, <2>5 DEF Feed!Give
<1> QED BY <1>3, <1>4 DEF Feed!Next

LEMMA InitIsFeed == Init => Feed!Init
<1> SUFFICES ASSUME Init
             PROVE  /\ OfItsAlias \in [Readers -> SUBSET Readers]
                    /\ Seen = [r \in Readers |-> <<>>] /\ Over = {}
  BY DEF Feed!Init
<1>1. \A r \in Readers : waiting[r] = "none"
  BY DEF Init
<1>2. Seen = [r \in Readers |-> <<>>]
  BY <1>1 DEF Seen
<1>3. Over = {}
  BY <1>1 DEF Over
<1>4. OfItsAlias \in [Readers -> SUBSET Readers]
  BY DEF OfItsAlias
<1> QED BY <1>2, <1>3, <1>4

\* The iterations get what objects() promises, whatever Track Aliases the publisher
\* chooses: the objects of one data stream in order and at most once, a subscription
\* those of its alias alone, nothing after the end and nothing taken back, however
\* buffering, retry and registration interleave.
THEOREM FeedIsImplemented == Spec => ImplementsFeed
<1> DEFINE Inv == IInv /\ KeptInv /\ FeedInv
<1>1. Init => Inv
  BY InitInv, InitKept, InitFeed
<1>2. Inv /\ [Next]_vars => Inv'
  <2> SUFFICES ASSUME IInv, KeptInv, FeedInv, [Next]_vars PROVE IInv' /\ KeptInv' /\ FeedInv'
    OBVIOUS
  <2>1. TypeOK'
    BY TypesNext DEF IInv
  <2>2. IInv'
    BY <2>1, CallNext, LimitsNext, EndNext, FetchNext, AliasNext DEF IInv
  <2> QED BY <2>2, KeptNext, FeedNext
<1>3. Inv => IInv /\ FeedPromise
  BY FeedIsPromised
<1>4. IInv /\ FeedPromise' /\ [Next]_vars => [Feed!Next]_(Feed!feedVars)
  BY FeedSteps
<1>5. Init => Feed!Init
  BY InitIsFeed
<1> HIDE DEF Inv
<1> QED BY <1>1, <1>2, <1>3, <1>4, <1>5, PTL DEF Spec, ImplementsFeed, Feed!Spec

=============================================================================
