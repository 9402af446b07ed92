-------------------------- MODULE RuntimeInputProofs --------------------------
(***************************************************************************)
(* Proofs about RuntimeInput, for any number of streams and datagrams and  *)
(* any fragmentation: what the session is given of each stream, which      *)
(* datagrams are given up, and what becomes of those that are held.        *)
(***************************************************************************)
EXTENDS RuntimeInput, SequenceTheorems, WellFoundedInduction, TLAPS

USE InputAssumption DEF InputAssumption

-----------------------------------------------------------------------------
(* The inductive invariant, of the streams alone.                          *)

StreamTypes ==
  /\ streams \in [Streams -> Kinds \cup {"none"}]
  /\ written \in [Streams -> Nat]
  /\ ended \subseteq Streams /\ told \subseteq ended
  /\ fed \in [Streams -> Seq(Nat)]

\* A stream is registered exactly if the session was given something of it, until it
\* ends; what has not been written has not been given.
RegisteredInv ==
  \A s \in Streams :
    /\ s \notin ended => (streams[s] = "none" <=> fed[s] = <<>>)
    /\ written[s] = 0 => fed[s] = <<>>
    /\ Kind[s] = "request" \/ TypeLen[s] = 1 => (fed[s] = <<>> => written[s] = 0)
    /\ fed[s] # <<>> => fed[s][1] \in 1 .. written[s]

IInv == StreamTypes /\ RegisteredInv /\ StreamsWhole /\ EndsTold

LEMMA InitInv == Init => IInv
<1> SUFFICES ASSUME Init PROVE IInv
  OBVIOUS
<1>1. \A s \in Streams : written[s] = 0 /\ fed[s] = <<>> /\ streams[s] = "none"
  BY DEF Init
<1>2. <<>> \in Seq(Nat) /\ [i \in 1 .. 0 |-> i] = <<>>
  OBVIOUS
<1>3. StreamTypes
  BY <1>2 DEF Init, StreamTypes
<1>4. RegisteredInv /\ EndsTold
  BY <1>1 DEF Init, RegisteredInv, EndsTold
<1>5. StreamsWhole
  BY <1>1, <1>2 DEF StreamsWhole
<1> QED BY <1>3, <1>4, <1>5 DEF IInv

\* The first m units of a stream, and the n units that follow them.
Beginning(m) == [i \in 1 .. m |-> i]
Fragment(m, n) == [i \in 1 .. n |-> m + i]

\* A fragment appended to the units of a stream that have been given.
LEMMA Appended ==
  ASSUME NEW q \in Seq(Nat), NEW m \in Nat, NEW n \in Nat \ {0}
  PROVE  /\ q \o Fragment(m, n) \in Seq(Nat) /\ q \o Fragment(m, n) # <<>>
         /\ q = <<>> => (q \o Fragment(m, n))[1] = m + 1
         /\ q # <<>> => (q \o Fragment(m, n))[1] = q[1]
         /\ q = Beginning(m) => q \o Fragment(m, n) = Beginning(m + n)
<1> DEFINE tail == Fragment(m, n)
           new == q \o tail
<1>1. /\ tail \in Seq(Nat) /\ Len(tail) = n
      /\ \A i \in 1 .. n : tail[i] = m + i
  BY DEF Fragment
<1> HIDE DEF tail
<1>2. /\ new \in Seq(Nat) /\ Len(new) = Len(q) + n /\ Len(q) \in Nat
      /\ \A i \in 1 .. Len(q) + n : new[i] = IF i <= Len(q) THEN q[i] ELSE tail[i - Len(q)]
  <2>1. /\ q \o tail \in Seq(Nat) /\ Len(q \o tail) = Len(q) + Len(tail)
        /\ \A i \in 1 .. Len(q) + Len(tail) :
             (q \o tail)[i] = IF i <= Len(q) THEN q[i] ELSE tail[i - Len(q)]
    BY <1>1, ConcatProperties, ZenonT(60)
  <2> QED BY <1>1, <2>1
<1> HIDE DEF new
<1>3. 1 \in 1 .. Len(q) + n /\ Len(new) >= 1
  BY <1>2
<1>4. new # <<>>
  BY <1>2, <1>3, EmptySeq
<1>5. ASSUME q = <<>> PROVE new[1] = m + 1
  <2>1. Len(q) = 0
    BY <1>5
  <2> QED BY <1>1, <1>2, <1>3, <2>1
<1>6. ASSUME q # <<>> PROVE new[1] = q[1]
  <2>1. 1 <= Len(q)
    BY <1>6, EmptySeq
  <2> QED BY <1>2, <1>3, <2>1
<1>7. ASSUME q = Beginning(m) PROVE new = Beginning(m + n)
  <2>1. Len(q) = m /\ \A i \in 1 .. m : q[i] = i
    BY <1>7 DEF Beginning
  <2>2. \A i \in 1 .. (m + n) : new[i] = i
    BY <1>1, <1>2, <2>1
  <2>3. DOMAIN new = 1 .. (m + n)
    BY <1>2, <2>1
  <2>4. Beginning(m + n) \in Seq(Nat) /\ Len(Beginning(m + n)) = m + n
        /\ \A i \in 1 .. (m + n) : Beginning(m + n)[i] = i
    BY DEF Beginning
  <2> HIDE DEF Beginning
  <2> QED BY <1>2, <2>1, <2>2, <2>4, SeqEqual
<1> QED BY <1>2, <1>4, <1>5, <1>6, <1>7 DEF new, tail

LEMMA ReceiveInv ==
  ASSUME IInv, NEW s \in Streams, NEW n \in 1 .. MaxUnits, ReceiveStream(s, n)
  PROVE  IInv'
<1> DEFINE new == fed[s] \o [i \in 1 .. n |-> written[s] + i]
<1>0. n \in Nat \ {0} /\ written[s] \in Nat /\ fed[s] \in Seq(Nat)
  BY DEF IInv, StreamTypes
<1>1. PICK k \in IF streams[s] = "none" THEN Classified(s, n) ELSE {streams[s]} :
        /\ streams' = [streams EXCEPT ![s] = k]
        /\ fed' = IF k = "none" THEN fed ELSE [fed EXCEPT ![s] = new]
  BY DEF ReceiveStream
<1>2. s \notin ended /\ ended' = ended /\ told' = told
      /\ written' = [written EXCEPT ![s] = @ + n]
  BY DEF ReceiveStream
<1>3. k \in Kinds \cup {"none"}
  BY <1>1 DEF IInv, StreamTypes, Classified, Kinds
<1>4. /\ new \in Seq(Nat) /\ new # <<>>
      /\ fed[s] = <<>> => new[1] = written[s] + 1
      /\ fed[s] # <<>> => new[1] = fed[s][1]
      /\ fed[s] = Beginning(written[s]) => new = Beginning(written[s] + n)
  <2>1. new = fed[s] \o Fragment(written[s], n)
    BY DEF Fragment
  <2> HIDE DEF new
  <2> DEFINE q == fed[s]
             m == written[s]
  <2>2. q \in Seq(Nat) /\ m \in Nat /\ n \in Nat \ {0}
    BY <1>0
  <2> HIDE DEF q, m
  <2>3. /\ q \o Fragment(m, n) \in Seq(Nat) /\ q \o Fragment(m, n) # <<>>
        /\ q = <<>> => (q \o Fragment(m, n))[1] = m + 1
        /\ q # <<>> => (q \o Fragment(m, n))[1] = q[1]
        /\ q = Beginning(m) => q \o Fragment(m, n) = Beginning(m + n)
    BY <2>2, Appended, ZenonT(60)
  <2> QED BY <2>1, <2>3 DEF q, m
<1> HIDE DEF new
<1>5. /\ streams'[s] = k /\ fed'[s] = IF k = "none" THEN fed[s] ELSE new
      /\ written'[s] = written[s] + n
      /\ \A r \in Streams \ {s} : /\ streams'[r] = streams[r] /\ fed'[r] = fed[r]
                                  /\ written'[r] = written[r]
  BY <1>1, <1>2 DEF IInv, StreamTypes
<1>6. StreamTypes'
  <2>1. written' \in [Streams -> Nat]
    BY <1>0, <1>2 DEF IInv, StreamTypes
  <2> QED BY <1>1, <1>2, <1>3, <1>4, <2>1 DEF IInv, StreamTypes
<1>7. k = "none" => streams[s] = "none" /\ fed[s] = <<>>
  BY <1>1, <1>2 DEF IInv, RegisteredInv
<1>8. /\ Kind[s] = "request" \/ TypeLen[s] = 1
      /\ streams[s] = "none"
      => written[s] = 0 /\ k = Kind[s] /\ k # "none"
  <2>1. SUFFICES ASSUME Kind[s] = "request" \/ TypeLen[s] = 1, streams[s] = "none"
                 PROVE  written[s] = 0 /\ k = Kind[s] /\ k # "none"
    OBVIOUS
  <2>2. written[s] = 0
    BY <1>2, <2>1 DEF IInv, RegisteredInv
  <2>3. Kind[s] \in Kinds /\ ~ (n < TypeLen[s] /\ Kind[s] # "request")
    BY <1>0, <2>1
  <2> QED BY <1>1, <2>1, <2>2, <2>3 DEF Classified, Kinds
<1>9. RegisteredInv'
  <2> SUFFICES ASSUME NEW r \in Streams
               PROVE  /\ r \notin ended' => (streams'[r] = "none" <=> fed'[r] = <<>>)
                      /\ written'[r] = 0 => fed'[r] = <<>>
                      /\ Kind[r] = "request" \/ TypeLen[r] = 1
                           => (fed'[r] = <<>> => written'[r] = 0)
                      /\ fed'[r] # <<>> => fed'[r][1] \in 1 .. written'[r]
    BY DEF RegisteredInv
  <2>1. CASE r # s
    BY <1>2, <1>5, <2>1 DEF IInv, RegisteredInv
  <2>2. CASE r = s /\ k = "none"
    <3>1. streams[s] = "none" /\ fed'[s] = <<>> /\ streams'[s] = "none"
      BY <1>5, <1>7, <2>2
    <3>2. ~ (Kind[s] = "request" \/ TypeLen[s] = 1)
      BY <1>8, <2>2, <3>1
    <3> QED BY <2>2, <3>1, <3>2
  <2>3. CASE r = s /\ k # "none"
    <3>1. fed'[s] = new /\ streams'[s] # "none" /\ new # <<>>
      BY <1>4, <1>5, <2>3
    <3>2. new[1] \in 1 .. written'[s] /\ written'[s] # 0
      BY <1>0, <1>4, <1>5, SMTT(30) DEF IInv, RegisteredInv
    <3> QED BY <2>3, <3>1, <3>2
  <2> QED BY <2>1, <2>2, <2>3
<1>10. StreamsWhole'
  <2> SUFFICES ASSUME NEW r \in Streams,
                      \/ Kind[r] = "request"
                      \/ TypeLen[r] = 1
                      \/ fed'[r] # <<>> /\ fed'[r][1] = 1
               PROVE  /\ fed'[r] = Beginning(written'[r])
                      /\ written'[r] > 0 /\ r \notin ended' => streams'[r] = Kind[r]
    BY DEF StreamsWhole, Beginning
  <2>1. CASE r # s
    BY <1>2, <1>5, <2>1 DEF IInv, StreamsWhole, Beginning
  <2>2. CASE r = s
    <3>1. k # "none" /\ fed'[s] = new
      BY <1>5, <1>7, <1>8, <2>2
    <3>2. CASE written[s] = 0
      <4>1. fed[s] = <<>> /\ streams[s] = "none" /\ <<>> = Beginning(0)
        BY <1>2, <3>2 DEF IInv, RegisteredInv, Beginning
      <4>2. k = Kind[s]
        BY <1>1, <3>1, <3>2, <4>1 DEF Classified
      <4> QED BY <1>0, <1>4, <1>5, <2>2, <3>1, <3>2, <4>1, <4>2
    <3>3. CASE written[s] # 0
      <4>1. fed[s] # <<>>
        BY <1>0, <1>4, <2>2, <3>1, <3>3 DEF IInv, RegisteredInv
      <4>2. \/ Kind[s] = "request" \/ TypeLen[s] = 1 \/ fed[s][1] = 1
        BY <1>4, <2>2, <3>1, <4>1
      <4>3. fed[s] = Beginning(written[s]) /\ streams[s] = Kind[s]
        <5>1. written[s] > 0
          BY <1>0, <3>3
        <5> QED BY <1>2, <4>1, <4>2, <5>1 DEF IInv, StreamsWhole, Beginning
      <4>4. k = Kind[s]
        BY <1>1, <4>3 DEF Kinds
      <4> QED BY <1>4, <1>5, <2>2, <3>1, <4>3, <4>4
    <3> QED BY <3>2, <3>3
  <2> QED BY <2>1, <2>2
<1>11. EndsTold'
  BY <1>2, <1>5 DEF IInv, EndsTold, StreamTypes
<1> QED BY <1>6, <1>9, <1>10, <1>11 DEF IInv

LEMMA StreamClosedInv ==
  ASSUME IInv, NEW s \in Streams, StreamClosed(s)
  PROVE  IInv'
<1>1. /\ s \notin ended /\ ended' = ended \cup {s}
      /\ streams' = [streams EXCEPT ![s] = "none"]
      /\ told' = IF streams[s] = "none" THEN told ELSE told \cup {s}
      /\ written' = written /\ fed' = fed
  BY DEF StreamClosed
<1>2. \A r \in Streams \ {s} : streams'[r] = streams[r]
  BY <1>1 DEF IInv, StreamTypes
<1>3. StreamTypes'
  BY <1>1 DEF IInv, StreamTypes
<1>4. RegisteredInv' /\ StreamsWhole'
  BY <1>1, <1>2 DEF IInv, RegisteredInv, StreamsWhole
<1>5. EndsTold'
  <2>1. streams[s] = "none" <=> fed[s] = <<>>
    BY <1>1 DEF IInv, RegisteredInv
  <2>2. told \subseteq ended
    BY DEF IInv, StreamTypes
  <2> QED BY <1>1, <2>1, <2>2 DEF IInv, EndsTold
<1> QED BY <1>3, <1>4, <1>5 DEF IInv

\* Everything else leaves the streams as they are.
LEMMA OtherInv == ASSUME IInv, UNCHANGED input PROVE IInv'
BY DEF IInv, StreamTypes, RegisteredInv, StreamsWhole, EndsTold, input

LEMMA NextInv == IInv /\ [Next]_vars => IInv'
<1> SUFFICES ASSUME IInv, [Next]_vars PROVE IInv'
  OBVIOUS
<1>1. \/ \E s \in Streams, n \in 1 .. MaxUnits : ReceiveStream(s, n)
      \/ \E s \in Streams : StreamClosed(s)
      \/ UNCHANGED input
  BY DEF Next, vars, ReceiveDatagram, Tick, Bind, Unbind, SessionFails, Close
<1> QED BY <1>1, ReceiveInv, StreamClosedInv, OtherInv

-----------------------------------------------------------------------------
(* The theorems.                                                           *)

\* The inductive invariant holds of every reachable state.
THEOREM Invariant == Spec => []IInv
BY InitInv, NextInv, PTL DEF Spec

\* The session gets every stream whose first fragment holds its stream type as it was
\* sent, and is told of its end (receive_stream, receive_stream_closed).
THEOREM StreamsAreTold == Spec => []StreamsTold
<1>1. IInv => StreamsTold
  BY DEF IInv, StreamsTold
<1> QED BY <1>1, Invariant, PTL

-----------------------------------------------------------------------------
(* Datagrams.                                                              *)

\* One step gives up only datagrams whose alias is unknown.
GivesUpUnknown == \A d \in dropped' \ dropped : Alias[d] \notin bound'

\* What is thrown away in a retry has been tried without success.
LEMMA TakenUnknown ==
  ASSUME NEW q, Taken(q)
  PROVE  \A d \in dropped' \ dropped : Alias[d] \notin bound
BY DEF Taken, Known

LEMMA StepGivesUpUnknown == [Next]_vars => GivesUpUnknown
<1> SUFFICES ASSUME [Next]_vars PROVE GivesUpUnknown
  OBVIOUS
<1>1. CASE dropped' = dropped
  BY <1>1 DEF GivesUpUnknown
<1>2. ASSUME NEW d \in Datagrams, ReceiveDatagram(d) PROVE GivesUpUnknown
  BY <1>2 DEF ReceiveDatagram, Held, GivesUpUnknown
<1>3. CASE Tick /\ dropped' # dropped
  <2>1. RetryDatagrams \/ \E i \in 1 .. Len(pending_datagrams) : RetryFails(i)
    BY <1>3 DEF Tick, datagrams
  <2>2. \E q : Taken(q)
    BY <2>1 DEF RetryDatagrams, RetryFails
  <2>3. bound' = bound
    BY <1>3 DEF Tick
  <2> QED BY <2>2, <2>3, TakenUnknown DEF GivesUpUnknown
<1>4. \/ \E d \in Datagrams : ReceiveDatagram(d)
      \/ Tick
      \/ dropped' = dropped
  BY DEF Next, vars, ReceiveStream, StreamClosed, Bind, Unbind, SessionFails, Close, datagrams
<1> QED BY <1>1, <1>2, <1>3, <1>4

\* A datagram is given up only while the session does not know its alias
\* (_hold_datagram, retry_pending_datagrams).
THEOREM OnlyUnknownGivenUp == Spec => GivenUpUnknown
<1>1. [Next]_vars => [GivesUpUnknown]_vars
  BY StepGivesUpUnknown
<1> QED BY <1>1, PTL DEF Spec, GivenUpUnknown, GivesUpUnknown

-----------------------------------------------------------------------------
(* What a retry holds again.                                               *)

HeldOnes == [datagram: Datagrams, attempts: 0 .. MaxAttempts - 1]

\* Induction up to m, over a set.
LEMMA UpTo ==
  ASSUME NEW m \in Nat, NEW T, 0 \in T, \A n \in 0 .. m - 1 : n \in T => n + 1 \in T
  PROVE  \A n \in 0 .. m : n \in T
<1> DEFINE S == {n \in 0 .. m : n \notin T}
<1> SUFFICES ASSUME S # {} PROVE FALSE
  OBVIOUS
<1>1. S \subseteq Nat
  OBVIOUS
<1>2. PICK k \in S : \A i \in S : ~(<<i, k>> \in OpToRel(<, Nat))
  <2> HIDE DEF S
  <2> QED BY <1>1, NatLessThanWellFounded, WFMin
<1>3. \A i \in S : ~(i < k)
  BY <1>1, <1>2 DEF OpToRel
<1>4. k \in 0 .. m /\ k \notin T /\ k # 0
  BY <1>2
<1>5. k - 1 \in 0 .. m - 1 /\ k - 1 < k /\ (k - 1) + 1 = k /\ k - 1 \in 0 .. m
  BY <1>4
<1>6. k - 1 \in T
  BY <1>3, <1>5
<1> QED BY <1>4, <1>5, <1>6

\* What is held again of p.
Again(p) == [p EXCEPT !.attempts = @ + 1]

Given(p) == Known(p) \/ LastAttempt(p)

\* The loop of the retry, from its own results.
Loop(q, n, f) ==
  f = [i \in 0 .. n |-> IF i = 0 THEN <<>>
                        ELSE IF Known(q[i]) \/ LastAttempt(q[i]) THEN f[i - 1]
                        ELSE Append(f[i - 1], [q[i] EXCEPT !.attempts = @ + 1])]

\* The loop is defined for every number of datagrams.
LEMMA LoopExists ==
  ASSUME NEW q, NEW m \in Nat
  PROVE  \E f : Loop(q, m, f)
<1> DEFINE T == {n \in 0 .. m : \E f : Loop(q, n, f)}
<1>1. 0 \in T
  <2> DEFINE f == [i \in 0 .. 0 |-> <<>>]
  <2>1. \A i \in 0 .. 0 : i = 0
    OBVIOUS
  <2>2. Loop(q, 0, f)
    BY <2>1 DEF Loop
  <2> QED BY <2>2
<1>2. ASSUME NEW n \in 0 .. m - 1, n \in T PROVE n + 1 \in T
  <2>1. PICK f : Loop(q, n, f)
    BY <1>2
  <2> DEFINE Next1(h, i) == IF i = 0 THEN <<>>
                            ELSE IF Known(q[i]) \/ LastAttempt(q[i]) THEN h[i - 1]
                            ELSE Append(h[i - 1], [q[i] EXCEPT !.attempts = @ + 1])
             g == [i \in 0 .. n + 1 |-> IF i <= n THEN f[i] ELSE Next1(f, i)]
  <2>2. \A i \in 0 .. n : g[i] = f[i] /\ f[i] = Next1(f, i)
    <3>1. \A i \in 0 .. n : i \in 0 .. n + 1 /\ i <= n
      OBVIOUS
    <3>2. \A i \in 0 .. n : g[i] = f[i]
      BY <3>1
    <3>3. f = [i \in 0 .. n |-> Next1(f, i)]
      BY <2>1 DEF Loop
    <3> HIDE DEF g, Next1
    <3>4. \A i \in 0 .. n : f[i] = Next1(f, i)
      BY <3>3
    <3> QED BY <3>2, <3>4
  <2>3. \A i \in 0 .. n + 1 : i = 0 \/ i - 1 \in 0 .. n
    OBVIOUS
  <2>4. \A i \in 0 .. n + 1 : Next1(f, i) = Next1(g, i)
    <3> HIDE DEF g
    <3> QED BY <2>2, <2>3
  <2>5. \A i \in 0 .. n + 1 : g[i] = Next1(g, i)
    <3> SUFFICES ASSUME NEW i \in 0 .. n + 1 PROVE g[i] = Next1(g, i)
      OBVIOUS
    <3>1. CASE i <= n
      <4>1. i \in 0 .. n
        BY <3>1
      <4> HIDE DEF g, Next1
      <4> QED BY <2>2, <2>4, <4>1
    <3>2. CASE ~(i <= n)
      <4>1. g[i] = Next1(f, i)
        BY <3>2
      <4> HIDE DEF g, Next1
      <4> QED BY <2>4, <4>1
    <3> QED BY <3>1, <3>2
  <2>6. g = [i \in 0 .. n + 1 |-> Next1(g, i)]
    <3>1. g = [i \in 0 .. n + 1 |-> g[i]]
      OBVIOUS
    <3> HIDE DEF g, Next1
    <3> QED BY <2>5, <3>1
  <2>7. Loop(q, n + 1, g)
    <3> HIDE DEF g
    <3> QED BY <2>6 DEF Loop
  <2> HIDE DEF g
  <2> QED BY <2>7
<1> HIDE DEF T
<1>3. m \in T
  BY <1>1, <1>2, UpTo
<1> QED BY <1>3 DEF T

\* t is what is held again of the first n of q: the datagrams the session does not know
\* and that have attempts left, with one attempt more, in their order; at[i] is where the
\* one at i stood.
KeptFrom(q, n, t, at) ==
  /\ at \in [1 .. Len(t) -> 1 .. n]
  /\ \A i, j \in 1 .. Len(t) : i < j => at[i] < at[j]
  /\ \A i \in 1 .. Len(t) :
       /\ ~Given(q[at[i]])
       /\ t[i].datagram = q[at[i]].datagram
       /\ t[i].attempts = q[at[i]].attempts + 1
  /\ \A k \in 1 .. n : Given(q[k]) \/ \E i \in 1 .. Len(t) : at[i] = k

KeptOf(q, n, t) ==
  /\ t \in Seq(HeldOnes) /\ Len(t) <= n
  /\ \E at : KeptFrom(q, n, t, at)

LEMMA AgainHeld ==
  ASSUME NEW p \in HeldOnes, ~LastAttempt(p)
  PROVE  /\ Again(p) \in HeldOnes /\ Again(p).datagram = p.datagram
         /\ Again(p).attempts = p.attempts + 1
<1>1. p = [datagram |-> p.datagram, attempts |-> p.attempts]
      /\ p.datagram \in Datagrams /\ p.attempts \in 0 .. MaxAttempts - 1
  BY DEF HeldOnes
<1>2. Again(p) = [datagram |-> p.datagram, attempts |-> p.attempts + 1]
  BY <1>1 DEF Again
<1>3. p.attempts + 1 \in 0 .. MaxAttempts - 1
  BY <1>1 DEF LastAttempt
<1> QED BY <1>1, <1>2, <1>3 DEF HeldOnes

LEMMA KeptOneMore ==
  ASSUME NEW q \in Seq(HeldOnes), NEW n \in Nat, n + 1 \in 1 .. Len(q), NEW t,
         KeptOf(q, n, t), ~Given(q[n + 1])
  PROVE  KeptOf(q, n + 1, Append(t, Again(q[n + 1])))
<1> DEFINE e == Again(q[n + 1])
           k == Len(t)
           new == Append(t, e)
<1>1. t \in Seq(HeldOnes) /\ k \in Nat /\ k <= n
  BY DEF KeptOf
<1>2. /\ e \in HeldOnes /\ e.datagram = q[n + 1].datagram
      /\ e.attempts = q[n + 1].attempts + 1
  BY AgainHeld, ElementOfSeq DEF Given
<1> HIDE DEF e
<1>3. /\ new \in Seq(HeldOnes) /\ Len(new) = k + 1
      /\ \A i \in 1 .. k : new[i] = t[i]
      /\ new[k + 1] = e
  BY <1>1, <1>2
<1>4. PICK at :
        /\ at \in [1 .. k -> 1 .. n]
        /\ \A i, j \in 1 .. k : i < j => at[i] < at[j]
        /\ \A i \in 1 .. k : /\ ~Given(q[at[i]])
                             /\ t[i].datagram = q[at[i]].datagram
                             /\ t[i].attempts = q[at[i]].attempts + 1
        /\ \A l \in 1 .. n : Given(q[l]) \/ \E i \in 1 .. k : at[i] = l
  BY DEF KeptOf, KeptFrom
<1> HIDE DEF k, new
<1> DEFINE to == [i \in 1 .. k + 1 |-> IF i = k + 1 THEN n + 1 ELSE at[i]]
<1>5. /\ \A i \in 1 .. k : to[i] = at[i] /\ at[i] \in 1 .. n
      /\ to[k + 1] = n + 1
      /\ \A i \in 1 .. k + 1 : i \in 1 .. k \/ i = k + 1
      /\ to \in [1 .. k + 1 -> 1 .. n + 1]
  <2>1. \A i \in 1 .. k : i # k + 1
    BY <1>1
  <2>2. k + 1 \in 1 .. k + 1 /\ \A i \in 1 .. k + 1 : i \in 1 .. k \/ i = k + 1
    BY <1>1
  <2>3. \A i \in 1 .. k : i \in 1 .. k + 1 /\ at[i] \in 1 .. n /\ at[i] \in 1 .. n + 1
    BY <1>1, <1>4
  <2> QED BY <2>1, <2>2, <2>3
<1> HIDE DEF to
<1>6. \A i, j \in 1 .. k + 1 : i < j => to[i] < to[j]
  <2> SUFFICES ASSUME NEW i \in 1 .. k + 1, NEW j \in 1 .. k + 1, i < j PROVE to[i] < to[j]
    OBVIOUS
  <2>1. i \in 1 .. k
    BY <1>1
  <2>2. CASE j \in 1 .. k
    BY <1>4, <1>5, <2>1, <2>2
  <2>3. CASE j = k + 1
    BY <1>5, <2>1, <2>3
  <2> QED BY <1>5, <2>2, <2>3
<1>7. \A i \in 1 .. k + 1 : /\ ~Given(q[to[i]])
                            /\ new[i].datagram = q[to[i]].datagram
                            /\ new[i].attempts = q[to[i]].attempts + 1
  BY <1>2, <1>3, <1>4, <1>5
<1>8. \A l \in 1 .. n + 1 : Given(q[l]) \/ \E i \in 1 .. k + 1 : to[i] = l
  <2> SUFFICES ASSUME NEW l \in 1 .. n + 1, ~Given(q[l]) PROVE \E i \in 1 .. k + 1 : to[i] = l
    OBVIOUS
  <2>1. CASE l = n + 1
    BY <1>1, <1>5, <2>1
  <2>2. CASE l \in 1 .. n
    <3>1. PICK i \in 1 .. k : at[i] = l
      BY <1>4, <2>2
    <3>2. i \in 1 .. k + 1
      BY <1>1
    <3> QED BY <1>5, <3>1, <3>2
  <2> QED BY <2>1, <2>2
<1>9. Len(new) <= n + 1
  BY <1>1, <1>3
<1>10. KeptOf(q, n + 1, new)
  <2>1. 1 .. Len(new) = 1 .. k + 1
    BY <1>3
  <2>2. KeptFrom(q, n + 1, new, to)
    BY ONLY <1>5, <1>6, <1>7, <1>8, <2>1 DEF KeptFrom
  <2> QED BY <1>3, <1>9, <2>2 DEF KeptOf
<1> QED BY <1>10 DEF new, e

LEMMA KeptNoMore ==
  ASSUME NEW q \in Seq(HeldOnes), NEW n \in Nat, NEW t, KeptOf(q, n, t), Given(q[n + 1])
  PROVE  KeptOf(q, n + 1, t)
<1> DEFINE k == Len(t)
<1>1. t \in Seq(HeldOnes) /\ k \in Nat /\ k <= n /\ k <= n + 1
  BY DEF KeptOf
<1>2. PICK at :
        /\ at \in [1 .. k -> 1 .. n]
        /\ \A i, j \in 1 .. k : i < j => at[i] < at[j]
        /\ \A i \in 1 .. k : /\ ~Given(q[at[i]])
                             /\ t[i].datagram = q[at[i]].datagram
                             /\ t[i].attempts = q[at[i]].attempts + 1
        /\ \A l \in 1 .. n : Given(q[l]) \/ \E i \in 1 .. k : at[i] = l
  BY DEF KeptOf, KeptFrom
<1> HIDE DEF k
<1>3. at \in [1 .. k -> 1 .. n + 1]
  <2>1. 1 .. n \subseteq 1 .. n + 1
    OBVIOUS
  <2> QED BY <1>2, <2>1
<1>4. \A l \in 1 .. n + 1 : Given(q[l]) \/ \E i \in 1 .. k : at[i] = l
  <2>1. \A l \in 1 .. n + 1 : l \in 1 .. n \/ l = n + 1
    OBVIOUS
  <2> QED BY <1>2, <2>1
<1>5. KeptFrom(q, n + 1, t, at)
  BY ONLY <1>2, <1>3, <1>4 DEF KeptFrom, k
<1> QED BY <1>1, <1>5 DEF KeptOf, k

\* A retry of q holds the right ones again, in their order.
LEMMA RetriedKept ==
  ASSUME NEW q \in Seq(HeldOnes)
  PROVE  KeptOf(q, Len(q), Retried(q))
<1> DEFINE m == Len(q)
<1>1. m \in Nat
  OBVIOUS
<1>2. PICK f : f = CHOOSE h : h = [i \in 0 .. Len(q) |-> IF i = 0 THEN <<>>
                ELSE IF Known(q[i]) \/ LastAttempt(q[i]) THEN h[i - 1]
                ELSE Append(h[i - 1], [q[i] EXCEPT !.attempts = @ + 1])]
  OBVIOUS
<1>3. Retried(q) = f[m]
  BY <1>2 DEF Retried
<1>4. Loop(q, m, f)
  <2>1. \E h : Loop(q, m, h)
    <3> HIDE DEF m
    <3> QED BY <1>1, LoopExists
  <2> QED BY <1>2, <2>1 DEF Loop
<1> HIDE DEF m
<1>5. f[0] = <<>> /\ \A n \in 0 .. m - 1 :
        f[n + 1] = IF Given(q[n + 1]) THEN f[n] ELSE Append(f[n], Again(q[n + 1]))
  <2>1. 0 \in 0 .. m /\ f[0] = <<>>
    BY <1>1, <1>4 DEF Loop
  <2>2. ASSUME NEW n \in 0 .. m - 1
        PROVE  f[n + 1] = IF Given(q[n + 1]) THEN f[n] ELSE Append(f[n], Again(q[n + 1]))
    <3>1. n + 1 \in 0 .. m /\ n + 1 # 0 /\ (n + 1) - 1 = n
      BY <1>1
    <3> DEFINE l == n + 1
    <3>2. l \in 0 .. m /\ l # 0 /\ l - 1 = n
      BY <3>1
    <3> HIDE DEF l
    <3>3. f[l] = IF Known(q[l]) \/ LastAttempt(q[l]) THEN f[l - 1]
                 ELSE Append(f[l - 1], [q[l] EXCEPT !.attempts = @ + 1])
      BY <1>4, <3>2 DEF Loop
    <3>4. f[l] = IF Given(q[l]) THEN f[n] ELSE Append(f[n], Again(q[l]))
      BY ONLY <3>2, <3>3 DEF Given, Again
    <3> QED BY <3>4 DEF l
  <2> QED BY <2>1, <2>2
<1> DEFINE T == {n \in 0 .. m : KeptOf(q, n, f[n])}
<1>6. 0 \in T
  <2>1. <<>> \in Seq(HeldOnes) /\ Len(<<>>) = 0 /\ 1 .. 0 = {}
    OBVIOUS
  <2>2. PICK at : at \in [1 .. 0 -> 1 .. 0]
    <3>1. [i \in 1 .. 0 |-> 0] \in [1 .. 0 -> 1 .. 0]
      BY <2>1
    <3> QED BY <3>1
  <2>3. KeptFrom(q, 0, <<>>, at)
    BY <2>1, <2>2 DEF KeptFrom
  <2>4. KeptOf(q, 0, <<>>)
    BY <2>1, <2>3 DEF KeptOf
  <2> QED BY <1>1, <1>5, <2>4
<1>7. ASSUME NEW n \in 0 .. m - 1, n \in T PROVE n + 1 \in T
  <2>1. n \in Nat /\ n + 1 \in 1 .. m /\ n + 1 \in 0 .. m /\ KeptOf(q, n, f[n])
    BY <1>1, <1>7
  <2>2. KeptOf(q, n + 1, f[n + 1])
    <3>1. CASE Given(q[n + 1])
      BY <1>5, <2>1, <3>1, KeptNoMore
    <3>2. CASE ~Given(q[n + 1])
      BY <1>5, <2>1, <3>2, KeptOneMore DEF m
    <3> QED BY <3>1, <3>2
  <2> QED BY <2>1, <2>2
<1> HIDE DEF T
<1>8. m \in T
  <2>1. \A n \in 0 .. m : n \in T
    BY <1>1, <1>6, <1>7, UpTo
  <2> QED BY <1>1, <2>1
<1> QED BY <1>3, <1>8 DEF T, m

-----------------------------------------------------------------------------
(* Where the datagrams are.                                                *)

\* The units the session has are units that the peer may write.
StreamLimits ==
  /\ written \in [Streams -> 0 .. MaxUnits]
  /\ fed \in [Streams -> Seq(1 .. MaxUnits)]

DatagramTypes ==
  /\ closed \in BOOLEAN /\ core_closed \in BOOLEAN
  /\ pending_datagrams \in Seq(HeldOnes) /\ Len(pending_datagrams) <= MaxPending
  /\ bound \subseteq Aliases
  /\ arrived \in Seq(Datagrams)
  /\ processed \subseteq Datagrams /\ dropped \subseteq Datagrams /\ lost \subseteq Datagrams
  /\ aborts \in 0 .. MaxAborts

Places == processed \cup HeldDatagrams \cup dropped \cup lost

\* The four places of a datagram exclude each other, and only what has arrived is in one.
PlacesInv ==
  /\ closed => core_closed /\ pending_datagrams = <<>>
  /\ \A i, j \in 1 .. Len(pending_datagrams) :
       pending_datagrams[i].datagram = pending_datagrams[j].datagram => i = j
  /\ processed \cap HeldDatagrams = {} /\ processed \cap dropped = {}
  /\ processed \cap lost = {} /\ HeldDatagrams \cap dropped = {}
  /\ HeldDatagrams \cap lost = {} /\ dropped \cap lost = {}
  /\ Places \subseteq ToSet(arrived)
  /\ ~closed => ToSet(arrived) \subseteq Places

KeptInv == DatagramTypes /\ PlacesInv /\ HeldInOrder

LEMMA HeldAt ==
  ASSUME pending_datagrams \in Seq(HeldOnes)
  PROVE  /\ DOMAIN pending_datagrams = 1 .. Len(pending_datagrams)
         /\ HeldDatagrams = {pending_datagrams[i].datagram : i \in 1 .. Len(pending_datagrams)}
         /\ \A i \in 1 .. Len(pending_datagrams) :
              /\ pending_datagrams[i] \in HeldOnes
              /\ pending_datagrams[i].datagram \in Datagrams
              /\ pending_datagrams[i].attempts \in 0 .. MaxAttempts - 1
<1>1. DOMAIN pending_datagrams = 1 .. Len(pending_datagrams)
  OBVIOUS
<1>2. \A i \in 1 .. Len(pending_datagrams) : pending_datagrams[i] \in HeldOnes
  BY ElementOfSeq
<1> QED BY <1>1, <1>2 DEF HeldDatagrams, HeldOnes

\* The parts of a set H that go to three sets and the rest keep four sets apart.
LEMMA Shared ==
  ASSUME NEW P, NEW H, NEW D, NEW L, NEW NK, NEW ND, NEW NL, NEW NI,
         H = NK \cup ND \cup NL \cup NI,
         P \cap H = {}, P \cap D = {}, P \cap L = {}, H \cap D = {}, H \cap L = {},
         D \cap L = {},
         NK \cap ND = {}, NK \cap NL = {}, ND \cap NL = {},
         NI \cap NK = {}, NI \cap ND = {}, NI \cap NL = {}
  PROVE  /\ (P \cup NK) \cap NI = {} /\ (P \cup NK) \cap (D \cup ND) = {}
         /\ (P \cup NK) \cap (L \cup NL) = {} /\ NI \cap (D \cup ND) = {}
         /\ NI \cap (L \cup NL) = {} /\ (D \cup ND) \cap (L \cup NL) = {}
         /\ (P \cup NK) \cup NI \cup (D \cup ND) \cup (L \cup NL) = P \cup H \cup D \cup L
<1>1. /\ (P \cup NK) \cap NI = {} /\ (P \cup NK) \cap (D \cup ND) = {}
  OBVIOUS
<1>2. /\ (P \cup NK) \cap (L \cup NL) = {} /\ NI \cap (D \cup ND) = {}
  OBVIOUS
<1>3. NI \cap (L \cup NL) = {} /\ (D \cup ND) \cap (L \cup NL) = {}
  OBVIOUS
<1>4. (P \cup NK) \cup NI \cup (D \cup ND) \cup (L \cup NL) = P \cup H \cup D \cup L
  OBVIOUS
<1> QED BY <1>1, <1>2, <1>3, <1>4

\* The step takes the datagrams at K, D and L out of q, what is held, each to its place,
\* and keeps all others: r holds them, and at[i] is where the one at i stood.
Moving(q, r, at, K, D, L) ==
  /\ q = pending_datagrams /\ r = pending_datagrams'
  /\ at \in [1 .. Len(r) -> 1 .. Len(q)]
  /\ \A i, j \in 1 .. Len(r) : at[i] = at[j] => i = j
  /\ \A i \in 1 .. Len(r) : r[i].datagram = q[at[i]].datagram
  /\ K \subseteq 1 .. Len(q) /\ D \subseteq 1 .. Len(q) /\ L \subseteq 1 .. Len(q)
  /\ K \cap D = {} /\ K \cap L = {} /\ D \cap L = {}
  /\ \A i \in 1 .. Len(r) : at[i] \notin K \cup D \cup L
  /\ \A k \in 1 .. Len(q) : k \in K \cup D \cup L \/ \E i \in 1 .. Len(r) : at[i] = k
  /\ processed' = processed \cup {q[k].datagram : k \in K}
  /\ dropped' = dropped \cup {q[k].datagram : k \in D}
  /\ lost' = lost \cup {q[k].datagram : k \in L}
  /\ ~closed /\ closed' = closed /\ arrived' = arrived

\* Such a step leaves each datagram in one place.
LEMMA Moved ==
  ASSUME DatagramTypes, DatagramTypes', PlacesInv,
         NEW q, NEW r, NEW at, NEW K, NEW D, NEW L, Moving(q, r, at, K, D, L)
  PROVE  PlacesInv'
<1> USE DEF Moving
<1> DEFINE m == Len(q)
           n == Len(r)
<1> DEFINE Names(S) == {q[k].datagram : k \in S}
           I == {at[i] : i \in 1 .. n}
<1>0. \A i, j \in 1 .. m : q[i].datagram = q[j].datagram => i = j
  BY DEF PlacesInv
<1>1. HeldDatagrams = Names(1 .. m)
  BY HeldAt DEF DatagramTypes
<1>2. HeldDatagrams' = Names(I)
  <2>1. DOMAIN r = 1 .. n
    BY DEF DatagramTypes
  <2>2. HeldDatagrams' = {r[i].datagram : i \in DOMAIN r}
    BY DEF HeldDatagrams
  <2>3. \A i \in 1 .. n : r[i].datagram = q[at[i]].datagram
    OBVIOUS
  <2>4. \A d : d \in Names(I) <=> \E i \in 1 .. n : d = q[at[i]].datagram
    <3>1. \A k : k \in I <=> \E i \in 1 .. n : k = at[i]
      OBVIOUS
    <3> HIDE DEF I
    <3> QED BY ONLY <3>1 DEF Names
  <2> HIDE DEF Names, I
  <2> QED BY ONLY <2>1, <2>2, <2>3, <2>4
<1>3. \A A, B \in SUBSET (1 .. m) : A \cap B = {} => Names(A) \cap Names(B) = {}
  BY <1>0
<1>4. I \in SUBSET (1 .. m) /\ I \cap K = {} /\ I \cap D = {} /\ I \cap L = {}
      /\ 1 .. m = K \cup D \cup L \cup I
  <2>1. I \in SUBSET (1 .. m)
    OBVIOUS
  <2>2. I \cap K = {} /\ I \cap D = {} /\ I \cap L = {}
    OBVIOUS
  <2>3. \A k \in 1 .. m : k \in K \cup D \cup L \cup I
    OBVIOUS
  <2> HIDE DEF I
  <2> QED BY <2>1, <2>2, <2>3
<1>5. Names(1 .. m) = Names(K) \cup Names(D) \cup Names(L) \cup Names(I)
  <2> HIDE DEF I
  <2>1. \A k : k \in 1 .. m <=> k \in K \/ k \in D \/ k \in L \/ k \in I
    BY ONLY <1>4
  <2> DEFINE M == 1 .. m
  <2> HIDE DEF M
  <2>2. \A k : k \in M <=> k \in K \/ k \in D \/ k \in L \/ k \in I
    BY <2>1 DEF M
  <2>3. Names(M) = Names(K) \cup Names(D) \cup Names(L) \cup Names(I)
    BY ONLY <2>2 DEF Names
  <2> QED BY <2>3 DEF M
<1> DEFINE NK == Names(K)
           ND == Names(D)
           NL == Names(L)
           NI == Names(I)
<1>6. /\ NK \cap ND = {} /\ NK \cap NL = {} /\ ND \cap NL = {}
      /\ NI \cap NK = {} /\ NI \cap ND = {} /\ NI \cap NL = {}
  BY <1>3, <1>4
<1>7. /\ HeldDatagrams = NK \cup ND \cup NL \cup NI /\ HeldDatagrams' = NI
      /\ processed' = processed \cup NK /\ dropped' = dropped \cup ND /\ lost' = lost \cup NL
  BY <1>1, <1>2, <1>5
<1>8. \A i, j \in 1 .. n : r[i].datagram = r[j].datagram => i = j
  <2> SUFFICES ASSUME NEW i \in 1 .. n, NEW j \in 1 .. n, r[i].datagram = r[j].datagram
               PROVE  i = j
    OBVIOUS
  <2>1. at[i] \in 1 .. m /\ at[j] \in 1 .. m /\ q[at[i]].datagram = q[at[j]].datagram
    OBVIOUS
  <2>2. at[i] = at[j]
    BY <1>0, <2>1
  <2> QED BY <2>2
<1> HIDE DEF NK, ND, NL, NI
<1> DEFINE H == HeldDatagrams
           G == HeldDatagrams'
<1>9. /\ processed \cap H = {} /\ processed \cap dropped = {}
      /\ processed \cap lost = {} /\ H \cap dropped = {}
      /\ H \cap lost = {} /\ dropped \cap lost = {}
      /\ Places \subseteq ToSet(arrived) /\ ToSet(arrived) \subseteq Places
      /\ Places = processed \cup H \cup dropped \cup lost
      /\ Places' = processed' \cup G \cup dropped' \cup lost'
      /\ H = NK \cup ND \cup NL \cup NI /\ G = NI
      /\ ToSet(arrived)' = ToSet(arrived)
  BY <1>7 DEF PlacesInv, Places
<1> HIDE DEF H, G
<1>10. /\ processed' \cap G = {} /\ processed' \cap dropped' = {}
       /\ processed' \cap lost' = {} /\ G \cap dropped' = {}
       /\ G \cap lost' = {} /\ dropped' \cap lost' = {}
       /\ Places' = Places
  <2>1. /\ (processed \cup NK) \cap NI = {} /\ (processed \cup NK) \cap (dropped \cup ND) = {}
        /\ (processed \cup NK) \cap (lost \cup NL) = {} /\ NI \cap (dropped \cup ND) = {}
        /\ NI \cap (lost \cup NL) = {} /\ (dropped \cup ND) \cap (lost \cup NL) = {}
        /\ (processed \cup NK) \cup NI \cup (dropped \cup ND) \cup (lost \cup NL)
             = processed \cup H \cup dropped \cup lost
    BY ONLY <1>6, <1>9, Shared, ZenonT(60)
  <2> QED BY ONLY <1>7, <1>9, <2>1
<1>11. /\ \A i, j \in 1 .. Len(pending_datagrams') :
             pending_datagrams'[i].datagram = pending_datagrams'[j].datagram => i = j
       /\ ~closed' /\ Places' \subseteq ToSet(arrived)' /\ ToSet(arrived)' \subseteq Places'
  <2>1. \A i, j \in 1 .. Len(pending_datagrams') :
          pending_datagrams'[i].datagram = pending_datagrams'[j].datagram => i = j
    BY <1>8
  <2>2. ~closed'
    OBVIOUS
  <2>3. Places' \subseteq ToSet(arrived)' /\ ToSet(arrived)' \subseteq Places'
    BY ONLY <1>9, <1>10
  <2> QED BY ONLY <2>1, <2>2, <2>3
<1> QED BY ONLY <1>10, <1>11 DEF PlacesInv, G

\* The places that a retry of q gives the datagrams it does not hold again.
Processed(q) == {k \in 1 .. Len(q) : Known(q[k])}
Dropped(q) == {k \in 1 .. Len(q) : ~Known(q[k]) /\ LastAttempt(q[k])}

LEMMA TakenAt ==
  ASSUME NEW q \in Seq(HeldOnes), Taken(q)
  PROVE  /\ processed' = processed \cup {q[k].datagram : k \in Processed(q)}
         /\ dropped' = dropped \cup {q[k].datagram : k \in Dropped(q)}
         /\ \A k \in 1 .. Len(q) : q[k].datagram \in Datagrams
<1>1. DOMAIN q = 1 .. Len(q) /\ \A k \in 1 .. Len(q) : q[k] \in HeldOnes
  BY ElementOfSeq
<1>2. ToSet(q) = {q[k] : k \in 1 .. Len(q)}
  BY <1>1 DEF ToSet
<1>3. \A d : (\E p \in ToSet(q) : Known(p) /\ d = p.datagram)
               <=> \E k \in Processed(q) : d = q[k].datagram
  BY <1>2 DEF Processed
<1>4. \A d : (\E p \in ToSet(q) : ~Known(p) /\ LastAttempt(p) /\ d = p.datagram)
               <=> \E k \in Dropped(q) : d = q[k].datagram
  BY <1>2 DEF Dropped
<1>5. processed' = processed \cup {q[k].datagram : k \in Processed(q)}
  BY <1>3 DEF Taken
<1>6. dropped' = dropped \cup {q[k].datagram : k \in Dropped(q)}
  <2> DEFINE A == {p.datagram : p \in {z \in ToSet(q) : ~Known(z) /\ LastAttempt(z)}}
             B == {q[k].datagram : k \in Dropped(q)}
  <2>1. dropped' = dropped \cup A
    BY DEF Taken
  <2>2. \A d : d \in A <=> \E p \in ToSet(q) : ~Known(p) /\ LastAttempt(p) /\ d = p.datagram
    <3> HIDE DEF Known, LastAttempt
    <3> QED OBVIOUS
  <2>3. \A d : d \in B <=> \E k \in Dropped(q) : d = q[k].datagram
    OBVIOUS
  <2> HIDE DEF A, B
  <2>4. A = B
    BY <1>4, <2>2, <2>3
  <2> QED BY <2>1, <2>4 DEF B
<1> QED BY <1>1, <1>5, <1>6 DEF HeldOnes

\* Where a datagram stood does not tell two of them apart.
LEMMA KeptOnce ==
  ASSUME NEW q, NEW m \in Nat, NEW t \in Seq(HeldOnes), NEW at, KeptFrom(q, m, t, at)
  PROVE  \A i, j \in 1 .. Len(t) : at[i] = at[j] => i = j
<1> SUFFICES ASSUME NEW i \in 1 .. Len(t), NEW j \in 1 .. Len(t), at[i] = at[j], i # j
             PROVE  FALSE
  OBVIOUS
<1>1. i < j \/ j < i
  <2>1. i \in Int /\ j \in Int /\ i # j
    OBVIOUS
  <2> QED BY ONLY <2>1
<1>2. at[i] \in 1 .. m /\ at[j] \in 1 .. m
  BY DEF KeptFrom
<1>3. at[i] < at[j] \/ at[j] < at[i]
  BY <1>1 DEF KeptFrom
<1> QED BY <1>2, <1>3

LEMMA RetryDatagramsKept ==
  ASSUME KeptInv, ~closed, ~core_closed, RetryDatagrams,
         UNCHANGED <<closed, arrived, bound, aborts>>
  PROVE  KeptInv'
<1>1. PICK q : q = pending_datagrams
  OBVIOUS
<1>2. PICK r : r = pending_datagrams'
  OBVIOUS
<1>3. q \in Seq(HeldOnes) /\ Len(q) \in Nat /\ Len(q) <= MaxPending
  BY <1>1 DEF KeptInv, DatagramTypes
<1>4. Taken(q) /\ r = Retried(q) /\ lost' = lost /\ core_closed' = core_closed
  BY <1>1, <1>2 DEF RetryDatagrams
<1>5. KeptOf(q, Len(q), r)
  BY <1>3, <1>4, RetriedKept
<1>6. r \in Seq(HeldOnes) /\ Len(r) \in Nat /\ Len(r) <= Len(q) /\ Len(r) <= MaxPending
  BY <1>3, <1>5 DEF KeptOf
<1>7. PICK at : KeptFrom(q, Len(q), r, at)
  BY <1>5 DEF KeptOf
<1>8. /\ at \in [1 .. Len(r) -> 1 .. Len(q)]
      /\ \A i \in 1 .. Len(r) : /\ at[i] \in 1 .. Len(q) /\ ~Given(q[at[i]])
                                 /\ r[i].datagram = q[at[i]].datagram
                                 /\ r[i].attempts = q[at[i]].attempts + 1
      /\ \A i, j \in 1 .. Len(r) : i < j => at[i] < at[j]
      /\ \A k \in 1 .. Len(q) : Given(q[k]) \/ \E i \in 1 .. Len(r) : at[i] = k
  BY <1>7 DEF KeptFrom
<1>9. /\ processed' = processed \cup {q[k].datagram : k \in Processed(q)}
      /\ dropped' = dropped \cup {q[k].datagram : k \in Dropped(q)}
      /\ \A k \in 1 .. Len(q) : q[k].datagram \in Datagrams
  BY <1>3, <1>4, TakenAt
<1>10. DatagramTypes'
  <2>1. processed' \subseteq Datagrams /\ dropped' \subseteq Datagrams
    BY <1>9 DEF KeptInv, DatagramTypes, Processed, Dropped
  <2> QED BY <1>2, <1>4, <1>6, <2>1 DEF KeptInv, DatagramTypes
<1>11. PlacesInv'
  <2> DEFINE K == Processed(q)
             D == Dropped(q)
             L == {}
  <2>1. /\ K \in SUBSET (1 .. Len(q)) /\ D \in SUBSET (1 .. Len(q)) /\ K \cap D = {}
        /\ \A k \in 1 .. Len(q) : Given(q[k]) <=> k \in K \cup D
    BY DEF Processed, Dropped, Given
  <2>2. \A i \in 1 .. Len(r) : at[i] \notin K \cup D \cup L
    BY <1>8, <2>1
  <2>3. \A k \in 1 .. Len(q) : k \in K \cup D \cup L \/ \E i \in 1 .. Len(r) : at[i] = k
    <3> HIDE DEF K, D
    <3> QED BY <1>8, <2>1
  <2>4. \A i, j \in 1 .. Len(r) : at[i] = at[j] => i = j
    BY <1>3, <1>6, <1>7, KeptOnce
  <2>5. /\ processed' = processed \cup {q[k].datagram : k \in K}
        /\ dropped' = dropped \cup {q[k].datagram : k \in D}
        /\ lost' = lost \cup {q[k].datagram : k \in L}
        /\ L \in SUBSET (1 .. Len(q)) /\ K \cap L = {} /\ D \cap L = {}
    BY <1>4, <1>9
  <2>6. DatagramTypes /\ PlacesInv
    BY DEF KeptInv
  <2> HIDE DEF K, D, L
  <2>7. Moving(q, r, at, K, D, L)
    BY <1>1, <1>2, <1>8, <2>1, <2>2, <2>3, <2>4, <2>5 DEF Moving
  <2> QED BY <1>10, <2>6, <2>7, Moved
<1>12. HeldInOrder'
  <2>1. DOMAIN r = 1 .. Len(r) /\ DOMAIN q = 1 .. Len(q) /\ arrived' = arrived
    BY <1>3, <1>6
  <2> SUFFICES ASSUME NEW i \in 1 .. Len(r), NEW j \in 1 .. Len(r), i < j
               PROVE  /\ \E m, n \in DOMAIN arrived :
                           /\ m < n /\ arrived[m] = r[i].datagram /\ arrived[n] = r[j].datagram
                      /\ r[i].attempts >= r[j].attempts
    BY <1>2, <2>1 DEF HeldInOrder
  <2>2. /\ at[i] \in DOMAIN q /\ at[j] \in DOMAIN q /\ at[i] < at[j]
        /\ r[i].datagram = q[at[i]].datagram /\ r[j].datagram = q[at[j]].datagram
        /\ r[i].attempts = q[at[i]].attempts + 1 /\ r[j].attempts = q[at[j]].attempts + 1
    BY <1>8, <2>1
  <2>3. /\ \E m, n \in DOMAIN arrived : m < n /\ arrived[m] = q[at[i]].datagram
                                              /\ arrived[n] = q[at[j]].datagram
        /\ q[at[i]].attempts >= q[at[j]].attempts
    BY <1>1, <2>2 DEF KeptInv, HeldInOrder
  <2>4. q[at[i]] \in HeldOnes /\ q[at[j]] \in HeldOnes
    BY <1>3, <2>1, <2>2, ElementOfSeq
  <2>5. q[at[i]].attempts \in Nat /\ q[at[j]].attempts \in Nat
    BY <2>4 DEF HeldOnes
  <2> QED BY <2>2, <2>3, <2>5
<1> QED BY <1>10, <1>11, <1>12 DEF KeptInv

\* What was behind the datagram at i comes before what is held again of those before it.
LEMMA RetryFailsKept ==
  ASSUME KeptInv, ~closed, NEW i \in 1 .. Len(pending_datagrams), RetryFails(i),
         UNCHANGED <<closed, arrived, bound, aborts>>
  PROVE  KeptInv'
<1>1. PICK q : q = pending_datagrams
  OBVIOUS
<1>2. PICK r : r = pending_datagrams'
  OBVIOUS
<1>3. PICK b : b = SubSeq(q, 1, i - 1)
  OBVIOUS
<1>4. PICK t : t = Retried(b)
  OBVIOUS
<1>5. PICK c : c = SubSeq(q, i + 1, Len(q))
  OBVIOUS
<1> DEFINE m == Len(q)
           l == m - i
<1>6. q \in Seq(HeldOnes) /\ m \in Nat /\ m <= MaxPending /\ i \in 1 .. m /\ l \in 0 .. m - 1
  BY <1>1 DEF KeptInv, DatagramTypes
<1>7. /\ Taken(b) /\ r = c \o t /\ core_closed' = TRUE
      /\ lost' = lost \cup {q[i].datagram}
      /\ closed' = closed /\ arrived' = arrived /\ bound' = bound /\ aborts' = aborts
  BY <1>1, <1>2, <1>3, <1>4, <1>5 DEF RetryFails
<1>8. /\ b \in Seq(HeldOnes) /\ Len(b) = i - 1 /\ i - 1 \in Nat
      /\ \A k \in 1 .. i - 1 : b[k] = q[k]
  BY <1>3, <1>6, SubSeqProperties
<1>9. /\ c \in Seq(HeldOnes) /\ Len(c) = l
      /\ \A x \in 1 .. l : c[x] = q[x + i]
  <2> DEFINE k == i + 1
  <2>1. k \in 1 .. m + 1 /\ m - k + 1 = l /\ \A x \in 1 .. l : k + x - 1 = x + i
    BY <1>6
  <2>2. c = SubSeq(q, k, m)
    BY <1>5
  <2> HIDE DEF k, l
  <2>3. /\ c \in Seq(HeldOnes)
        /\ Len(c) = IF k <= m THEN m - k + 1 ELSE 0
        /\ \A x \in 1 .. m - k + 1 : c[x] = q[k + x - 1]
    BY <1>6, <2>1, <2>2, SubSeqProperties
  <2>4. Len(c) = l
    BY <1>6, <2>1, <2>3
  <2> QED BY <2>1, <2>3, <2>4
<1>10. KeptOf(b, i - 1, t)
  BY <1>4, <1>8, RetriedKept
<1> DEFINE u == Len(t)
<1>11. t \in Seq(HeldOnes) /\ u \in Nat /\ u <= i - 1
  BY <1>10 DEF KeptOf
<1>12. PICK bt : KeptFrom(b, i - 1, t, bt)
  BY <1>10 DEF KeptOf
<1>13. /\ \A x \in 1 .. u : /\ bt[x] \in 1 .. i - 1 /\ ~Given(b[bt[x]])
                            /\ t[x].datagram = b[bt[x]].datagram
       /\ \A k \in 1 .. i - 1 : Given(b[k]) \/ \E x \in 1 .. u : bt[x] = k
       /\ \A x, y \in 1 .. u : bt[x] = bt[y] => x = y
  <2>1. \A x, y \in 1 .. u : bt[x] = bt[y] => x = y
    BY <1>8, <1>11, <1>12, KeptOnce
  <2> QED BY <1>12, <2>1 DEF KeptFrom
<1> HIDE DEF m, l, u
<1>14. /\ r \in Seq(HeldOnes) /\ Len(r) = l + u /\ l + u <= m
       /\ \A x \in 1 .. l : r[x] = c[x]
       /\ \A x \in 1 .. u : r[l + x] = t[x]
  <2>1. /\ c \o t \in Seq(HeldOnes) /\ Len(c \o t) = Len(c) + Len(t)
        /\ \A x \in 1 .. Len(c) + Len(t) :
             (c \o t)[x] = IF x <= Len(c) THEN c[x] ELSE t[x - Len(c)]
    BY <1>9, <1>11, ConcatProperties, ZenonT(60)
  <2>2. l + u <= m
    BY <1>6, <1>11 DEF l
  <2>3. \A x \in 1 .. l : x \in 1 .. l + u /\ x <= l
    BY <1>6, <1>11
  <2>4. \A x \in 1 .. u : l + x \in 1 .. l + u /\ ~(l + x <= l) /\ (l + x) - l = x
    BY <1>6, <1>11
  <2> QED BY <1>7, <1>9, <2>1, <2>2, <2>3, <2>4 DEF u
<1> DEFINE at == [x \in 1 .. l + u |-> IF x <= l THEN x + i ELSE bt[x - l]]
<1>15. /\ \A x \in 1 .. l : x \in 1 .. l + u /\ at[x] = x + i /\ x + i \in i + 1 .. m
       /\ \A x \in 1 .. u : l + x \in 1 .. l + u /\ at[l + x] = bt[x] /\ bt[x] \in 1 .. i - 1
       /\ \A x \in 1 .. l + u : x \in 1 .. l \/ \E y \in 1 .. u : x = l + y
  <2>1. \A x \in 1 .. l : x \in 1 .. l + u /\ x <= l /\ x + i \in i + 1 .. m
    BY <1>6, <1>11 DEF l
  <2>2. \A x \in 1 .. u : l + x \in 1 .. l + u /\ ~(l + x <= l) /\ (l + x) - l = x
    BY <1>6, <1>11
  <2>3. ASSUME NEW x \in 1 .. l + u, x \notin 1 .. l PROVE \E y \in 1 .. u : x = l + y
    <3>1. x - l \in 1 .. u /\ x = l + (x - l)
      BY <1>6, <1>11, <2>3
    <3> QED BY <3>1
  <2> QED BY <1>13, <2>1, <2>2, <2>3
<1> HIDE DEF at
<1> DEFINE K == Processed(b)
           D == Dropped(b)
           L == {i}
<1>16. /\ processed' = processed \cup {b[k].datagram : k \in K}
       /\ dropped' = dropped \cup {b[k].datagram : k \in D}
       /\ \A k \in 1 .. i - 1 : b[k].datagram \in Datagrams
  BY <1>7, <1>8, TakenAt
<1>17. /\ K \subseteq 1 .. i - 1 /\ D \subseteq 1 .. i - 1 /\ K \cap D = {}
       /\ \A k \in 1 .. i - 1 : Given(b[k]) <=> k \in K \cup D
  BY <1>8 DEF Processed, Dropped, Given
<1> HIDE DEF K, D
<1>18. DatagramTypes'
  <2>1. processed' \subseteq Datagrams /\ dropped' \subseteq Datagrams
    BY <1>16, <1>17 DEF KeptInv, DatagramTypes
  <2>2. q[i].datagram \in Datagrams
    <3>1. q[i] \in HeldOnes
      BY <1>6, ElementOfSeq DEF m
    <3> QED BY <3>1 DEF HeldOnes
  <2>3. Len(r) <= MaxPending
    BY <1>6, <1>11, <1>14
  <2> QED BY <1>2, <1>7, <1>14, <2>1, <2>2, <2>3 DEF KeptInv, DatagramTypes
<1>19. PlacesInv'
  <2>1. at \in [1 .. Len(r) -> 1 .. m]
    <3>1. ASSUME NEW x \in 1 .. l + u PROVE at[x] \in 1 .. m
      <4>1. CASE x \in 1 .. l
        <5>1. at[x] \in i + 1 .. m
          BY <1>15, <4>1
        <5> QED BY <1>6, <5>1
      <4>2. CASE x \notin 1 .. l
        <5>1. PICK y \in 1 .. u : x = l + y
          BY <1>15, <4>2
        <5>2. at[x] \in 1 .. i - 1
          BY <1>15, <5>1
        <5> QED BY <1>6, <5>2
      <4> QED BY <4>1, <4>2
    <3>2. at = [x \in 1 .. l + u |-> at[x]]
      BY DEF at
    <3> QED BY <1>14, <3>1, <3>2
  <2>2. \A x, y \in 1 .. l + u : at[x] = at[y] => x = y
    <3> SUFFICES ASSUME NEW x \in 1 .. l + u, NEW y \in 1 .. l + u, at[x] = at[y]
                 PROVE  x = y
      OBVIOUS
    <3>1. CASE x \in 1 .. l /\ y \in 1 .. l
      BY <1>6, <1>15, <3>1
    <3>2. CASE x \in 1 .. l /\ y \notin 1 .. l
      BY <1>6, <1>15, <3>2
    <3>3. CASE x \notin 1 .. l /\ y \in 1 .. l
      BY <1>6, <1>15, <3>3
    <3>4. CASE x \notin 1 .. l /\ y \notin 1 .. l
      <4>1. PICK v \in 1 .. u, w \in 1 .. u : x = l + v /\ y = l + w
        BY <1>15, <3>4
      <4>2. bt[v] = bt[w]
        BY <1>15, <4>1
      <4> QED BY <1>13, <4>1, <4>2
    <3> QED BY <3>1, <3>2, <3>3, <3>4
  <2>3. \A x \in 1 .. l + u : r[x].datagram = q[at[x]].datagram
    <3>1. \A x \in 1 .. l : r[x] = q[at[x]]
      BY <1>9, <1>14, <1>15
    <3>2. ASSUME NEW x \in 1 .. u PROVE r[l + x].datagram = q[at[l + x]].datagram
      <4>1. r[l + x] = t[x] /\ at[l + x] = bt[x] /\ bt[x] \in 1 .. i - 1
        BY <1>14, <1>15
      <4>2. t[x].datagram = b[bt[x]].datagram /\ b[bt[x]] = q[bt[x]]
        BY <1>8, <1>13, <4>1
      <4> QED BY <4>1, <4>2
    <3> QED BY <1>15, <3>1, <3>2
  <2>4. \A x \in 1 .. l + u : at[x] \notin K \cup D \cup L
    <3>1. \A x \in 1 .. l : at[x] \notin 1 .. i - 1 /\ at[x] # i
      BY <1>6, <1>15
    <3>2. ASSUME NEW x \in 1 .. u PROVE at[l + x] \notin K \cup D /\ at[l + x] # i
      <4>1. at[l + x] = bt[x] /\ bt[x] \in 1 .. i - 1 /\ ~Given(b[bt[x]])
        BY <1>13, <1>15
      <4>2. at[l + x] # i
        BY <1>6, <4>1
      <4> QED BY <1>17, <4>1, <4>2
    <3> QED BY <1>15, <1>17, <3>1, <3>2
  <2>5. \A k \in 1 .. m : k \in K \cup D \cup L \/ \E x \in 1 .. l + u : at[x] = k
    <3> SUFFICES ASSUME NEW k \in 1 .. m, k \notin K \cup D \cup L
                 PROVE  \E x \in 1 .. l + u : at[x] = k
      OBVIOUS
    <3>1. CASE k \in 1 .. i - 1
      <4>1. ~Given(b[k])
        BY <1>17, <3>1
      <4>2. PICK x \in 1 .. u : bt[x] = k
        BY <1>13, <3>1, <4>1
      <4> QED BY <1>15, <4>2
    <3>2. CASE k \in i + 1 .. m
      <4>1. k - i \in 1 .. l /\ (k - i) + i = k
        BY <1>6, <3>2 DEF l
      <4> QED BY <1>15, <4>1
    <3>3. k \in 1 .. i - 1 \/ k = i \/ k \in i + 1 .. m
      BY <1>6
    <3> QED BY <3>1, <3>2, <3>3
  <2>6. K \subseteq 1 .. m /\ D \subseteq 1 .. m /\ L \subseteq 1 .. m
        /\ K \cap D = {} /\ K \cap L = {} /\ D \cap L = {}
    BY <1>6, <1>17
  <2>7. /\ processed' = processed \cup {q[k].datagram : k \in K}
        /\ dropped' = dropped \cup {q[k].datagram : k \in D}
        /\ lost' = lost \cup {q[k].datagram : k \in L}
    <3>1. /\ {b[k].datagram : k \in K} = {q[k].datagram : k \in K}
          /\ {b[k].datagram : k \in D} = {q[k].datagram : k \in D}
      BY <1>8, <1>17
    <3> QED BY <1>7, <1>16, <3>1
  <2>8. DatagramTypes /\ PlacesInv
    BY DEF KeptInv
  <2> HIDE DEF L
  <2>9. Moving(q, r, at, K, D, L)
    BY <1>1, <1>2, <1>7, <1>14, <2>1, <2>2, <2>3, <2>4, <2>5, <2>6, <2>7 DEF Moving, m
  <2> QED BY <1>18, <2>8, <2>9, Moved
<1>20. HeldInOrder'
  BY <1>7 DEF HeldInOrder
<1> QED BY <1>18, <1>19, <1>20 DEF KeptInv

LEMMA ReceiveDatagramKept ==
  ASSUME KeptInv, NEW d \in Datagrams, ReceiveDatagram(d)
  PROVE  KeptInv'
<1>1. /\ ~core_closed /\ core_closed' = core_closed /\ ~closed /\ closed' = closed
      /\ arrived' = Append(arrived, d) /\ lost' = lost /\ bound' = bound /\ aborts' = aborts
  BY DEF ReceiveDatagram, KeptInv, PlacesInv
<1>2. arrived \in Seq(Datagrams) /\ arrived' \in Seq(Datagrams)
      /\ Len(arrived') = Len(arrived) + 1 /\ Len(arrived) \in Nat
  BY <1>1 DEF KeptInv, DatagramTypes
<1>3. /\ \A x \in 1 .. Len(arrived) : arrived'[x] = arrived[x]
      /\ arrived'[Len(arrived) + 1] = d
  BY <1>1, <1>2
<1>4. /\ DOMAIN arrived = 1 .. Len(arrived) /\ DOMAIN arrived' = 1 .. Len(arrived) + 1
      /\ ToSet(arrived') = ToSet(arrived) \cup {d} /\ ToSet(arrived)' = ToSet(arrived')
  <2>1. DOMAIN arrived = 1 .. Len(arrived) /\ DOMAIN arrived' = 1 .. Len(arrived) + 1
    BY <1>2
  <2>2. \A x : x \in 1 .. Len(arrived) + 1 <=> x \in 1 .. Len(arrived) \/ x = Len(arrived) + 1
    BY <1>2
  <2>3. ToSet(arrived') = ToSet(arrived) \cup {d}
    BY <1>3, <2>1, <2>2 DEF ToSet
  <2> QED BY <2>1, <2>3 DEF ToSet
<1>5. d \notin ToSet(arrived) /\ d \notin Places
  <2>1. \A x \in 1 .. Len(arrived) : arrived[x] # d
    BY DEF ReceiveDatagram, Contains
  <2> QED BY <1>4, <2>1 DEF ToSet, KeptInv, PlacesInv
<1>6. CASE UNCHANGED pending_datagrams
           /\ processed \cup dropped \cup {d} = processed' \cup dropped'
           /\ \/ processed' = processed /\ dropped' = dropped \cup {d}
              \/ processed' = processed \cup {d} /\ dropped' = dropped
  <2>1. HeldDatagrams' = HeldDatagrams
    BY <1>6 DEF HeldDatagrams
  <2>2. DatagramTypes'
    BY <1>1, <1>2, <1>6 DEF KeptInv, DatagramTypes
  <2>3. PlacesInv'
    BY <1>1, <1>4, <1>5, <1>6, <2>1 DEF KeptInv, PlacesInv, Places
  <2>4. HeldInOrder'
    <3>1. \A x \in DOMAIN arrived : x \in DOMAIN arrived' /\ arrived'[x] = arrived[x]
      BY <1>2, <1>3, <1>4
    <3> QED BY <1>1, <1>6, <3>1 DEF KeptInv, HeldInOrder
  <2> QED BY <2>2, <2>3, <2>4 DEF KeptInv
<1>7. CASE /\ Len(pending_datagrams) < MaxPending
           /\ pending_datagrams' = Append(pending_datagrams, [datagram |-> d, attempts |-> 0])
           /\ UNCHANGED <<processed, dropped>>
  <2>1. PICK q : q = pending_datagrams
    OBVIOUS
  <2>2. PICK r : r = pending_datagrams'
    OBVIOUS
  <2>3. PICK e : e = [datagram |-> d, attempts |-> 0]
    OBVIOUS
  <2> DEFINE m == Len(q)
  <2>4. e \in HeldOnes /\ e.datagram = d /\ e.attempts = 0
    BY <2>3 DEF HeldOnes
  <2>5. q \in Seq(HeldOnes) /\ m \in Nat /\ m < MaxPending
    BY <1>7, <2>1 DEF KeptInv, DatagramTypes
  <2>6. /\ r \in Seq(HeldOnes) /\ Len(r) = m + 1
        /\ \A x \in 1 .. m : r[x] = q[x]
        /\ r[m + 1] = e
    BY <1>7, <2>1, <2>2, <2>3, <2>4, <2>5
  <2>7. DOMAIN q = 1 .. m /\ DOMAIN r = 1 .. m + 1
    BY <2>5, <2>6
  <2> HIDE DEF m
  <2>8. \A x : x \in 1 .. m + 1 <=> x \in 1 .. m \/ x = m + 1
    BY <2>5
  <2>9. HeldDatagrams = {q[x].datagram : x \in 1 .. m} /\ HeldDatagrams' = HeldDatagrams \cup {d}
    <3>1. HeldDatagrams = {q[x].datagram : x \in 1 .. m}
      BY <2>1, <2>7 DEF HeldDatagrams
    <3>2. HeldDatagrams' = {r[x].datagram : x \in 1 .. m + 1}
      BY <2>2, <2>7 DEF HeldDatagrams
    <3> QED BY <2>4, <2>6, <2>8, <3>1, <3>2
  <2>10. DatagramTypes'
    BY <1>1, <1>2, <1>7, <2>2, <2>5, <2>6 DEF KeptInv, DatagramTypes
  <2>11. PlacesInv'
    <3>1. \A x, y \in 1 .. m + 1 : r[x].datagram = r[y].datagram => x = y
      <4>1. \A x \in 1 .. m : r[x].datagram = q[x].datagram /\ r[x].datagram # d
        BY <1>5, <2>6, <2>9 DEF Places
      <4>2. \A x, y \in 1 .. m : q[x].datagram = q[y].datagram => x = y
        BY <2>1 DEF KeptInv, PlacesInv, m
      <4> QED BY <2>4, <2>6, <2>8, <4>1, <4>2
    <3>2. d \notin processed \cup dropped \cup lost /\ d \notin ToSet(arrived)
      BY <1>5 DEF Places
    <3>3. /\ processed' = processed /\ dropped' = dropped /\ lost' = lost
          /\ ToSet(arrived)' = ToSet(arrived) \cup {d}
          /\ HeldDatagrams' = HeldDatagrams \cup {d}
          /\ Places' = Places \cup {d}
      BY <1>1, <1>4, <1>7, <2>9 DEF Places
    <3>4. \A x, y \in 1 .. Len(pending_datagrams') :
            pending_datagrams'[x].datagram = pending_datagrams'[y].datagram => x = y
      BY <2>2, <2>6, <3>1
    <3> QED BY <1>1, <3>2, <3>3, <3>4 DEF KeptInv, PlacesInv
  <2>12. HeldInOrder'
    <3> SUFFICES ASSUME NEW x \in 1 .. m + 1, NEW y \in 1 .. m + 1, x < y
                 PROVE  /\ \E v, w \in DOMAIN arrived' :
                             /\ v < w /\ arrived'[v] = r[x].datagram
                             /\ arrived'[w] = r[y].datagram
                        /\ r[x].attempts >= r[y].attempts
      BY <2>2, <2>7 DEF HeldInOrder
    <3>1. x \in 1 .. m
      BY <2>5
    <3>2. CASE y \in 1 .. m
      <4>1. /\ \E v, w \in DOMAIN arrived :
                 v < w /\ arrived[v] = q[x].datagram /\ arrived[w] = q[y].datagram
            /\ q[x].attempts >= q[y].attempts
        BY <1>1, <2>1, <2>7, <3>1, <3>2 DEF KeptInv, HeldInOrder
      <4>2. \A v \in DOMAIN arrived : v \in DOMAIN arrived' /\ arrived'[v] = arrived[v]
        BY <1>2, <1>3, <1>4
      <4> QED BY <2>6, <3>1, <3>2, <4>1, <4>2
    <3>3. CASE y = m + 1
      <4>1. q[x].datagram \in ToSet(arrived)
        BY <2>9, <3>1 DEF KeptInv, PlacesInv, Places
      <4>2. PICK v \in 1 .. Len(arrived) : arrived[v] = q[x].datagram
        BY <1>4, <4>1 DEF ToSet
      <4>3. v < Len(arrived) + 1 /\ v \in DOMAIN arrived' /\ Len(arrived) + 1 \in DOMAIN arrived'
        BY <1>2, <1>4
      <4>4. q[x] \in HeldOnes
        BY <2>5, <3>1, ElementOfSeq DEF m
      <4>5. q[x].attempts >= 0
        BY <4>4 DEF HeldOnes
      <4>6. arrived'[v] = r[x].datagram /\ arrived'[Len(arrived) + 1] = r[y].datagram
        BY <1>3, <2>4, <2>6, <3>1, <3>3, <4>2
      <4> QED BY <2>4, <2>6, <3>1, <3>3, <4>3, <4>5, <4>6
    <3> QED BY <2>8, <3>2, <3>3
  <2> QED BY <2>10, <2>11, <2>12 DEF KeptInv
<1> QED
  <2>1. Len(pending_datagrams) \in Nat
    BY DEF KeptInv, DatagramTypes
  <2> QED BY <1>6, <1>7, <2>1 DEF ReceiveDatagram, Held

\* When the runtime closes, it holds nothing.
LEMMA FinishedKept ==
  ASSUME KeptInv, Finished, core_closed' = TRUE,
         UNCHANGED <<arrived, processed, dropped, lost, bound, aborts>>
  PROVE  KeptInv'
<1>1. pending_datagrams' = <<>> /\ closed' = TRUE /\ HeldDatagrams' = {}
  BY DEF Finished, HeldDatagrams
<1>2. <<>> \in Seq(HeldOnes) /\ Len(<<>>) = 0 /\ 0 <= MaxPending
  OBVIOUS
<1>3. DatagramTypes'
  BY <1>1, <1>2 DEF KeptInv, DatagramTypes
<1>4. PlacesInv' /\ HeldInOrder'
  BY <1>1, <1>2 DEF KeptInv, PlacesInv, Places, ToSet, HeldInOrder
<1> QED BY <1>3, <1>4 DEF KeptInv

\* A step that moves no datagram.
LEMMA StayKept ==
  ASSUME KeptInv, UNCHANGED <<closed, datagrams>>,
         core_closed' = core_closed \/ core_closed' = TRUE,
         bound' \subseteq Aliases, aborts' \in 0 .. MaxAborts
  PROVE  KeptInv'
<1>1. HeldDatagrams' = HeldDatagrams /\ Places' = Places /\ ToSet(arrived)' = ToSet(arrived)
  BY DEF HeldDatagrams, Places, datagrams, ToSet
<1>2. DatagramTypes'
  BY DEF KeptInv, DatagramTypes, datagrams
<1>3. PlacesInv'
  BY <1>1 DEF KeptInv, PlacesInv, datagrams
<1>4. HeldInOrder'
  <2>1. pending_datagrams' = pending_datagrams /\ arrived' = arrived
        /\ (~core_closed' => ~core_closed) /\ HeldInOrder
    BY DEF KeptInv, datagrams
  <2> QED BY ONLY <2>1 DEF HeldInOrder
<1> QED BY <1>2, <1>3, <1>4 DEF KeptInv

LEMMA TickKept == ASSUME KeptInv, Tick PROVE KeptInv'
<1>1. CASE /\ core_closed
           /\ Finished
           /\ UNCHANGED <<core_closed, arrived, processed, dropped, lost, aborts>>
  BY <1>1, FinishedKept DEF Tick, KeptInv, DatagramTypes
<1>2. CASE /\ aborts < MaxAborts
           /\ aborts' = aborts + 1
           /\ UNCHANGED <<closed, core_closed, datagrams>>
  <2>1. bound' \subseteq Aliases /\ aborts' \in 0 .. MaxAborts
    BY <1>2 DEF Tick, KeptInv, DatagramTypes
  <2> QED BY <1>2, <2>1, StayKept
<1>3. ASSUME ~core_closed, RetryDatagrams, UNCHANGED <<closed, arrived, aborts>>
      PROVE  KeptInv'
  BY <1>3, RetryDatagramsKept DEF Tick
<1>4. ASSUME NEW i \in 1 .. Len(pending_datagrams), RetryFails(i),
             UNCHANGED <<closed, arrived, aborts>>
      PROVE  KeptInv'
  BY <1>4, RetryFailsKept DEF Tick
<1> QED BY <1>1, <1>2, <1>3, <1>4 DEF Tick

LEMMA InitKept == Init => KeptInv
<1> SUFFICES ASSUME Init PROVE KeptInv
  OBVIOUS
<1>1. <<>> \in Seq(HeldOnes) /\ <<>> \in Seq(Datagrams) /\ Len(<<>>) = 0 /\ 0 <= MaxPending
      /\ 0 \in 0 .. MaxAborts
  OBVIOUS
<1>2. DatagramTypes
  BY <1>1 DEF Init, DatagramTypes
<1>3. HeldDatagrams = {} /\ ToSet(arrived) = {}
  BY DEF Init, HeldDatagrams, ToSet
<1>4. PlacesInv /\ HeldInOrder
  BY <1>1, <1>3 DEF Init, PlacesInv, Places, HeldInOrder
<1> QED BY <1>2, <1>4 DEF KeptInv

LEMMA NextKept == KeptInv /\ [Next]_vars => KeptInv'
<1> SUFFICES ASSUME KeptInv, [Next]_vars PROVE KeptInv'
  OBVIOUS
<1>0. bound \subseteq Aliases /\ aborts \in 0 .. MaxAborts
  BY DEF KeptInv, DatagramTypes
<1>1. ASSUME NEW s \in Streams, NEW n \in 1 .. MaxUnits, ReceiveStream(s, n) PROVE KeptInv'
  BY <1>0, <1>1, StayKept DEF ReceiveStream
<1>2. ASSUME NEW s \in Streams, StreamClosed(s) PROVE KeptInv'
  <2>1. CASE streams[s] = "control"
    BY <1>2, <2>1, FinishedKept DEF StreamClosed
  <2>2. CASE streams[s] # "control"
    BY <1>0, <1>2, <2>2, StayKept DEF StreamClosed, datagrams
  <2> QED BY <2>1, <2>2
<1>3. ASSUME NEW alias \in Aliases, Bind(alias) \/ Unbind(alias) PROVE KeptInv'
  BY <1>0, <1>3, StayKept DEF Bind, Unbind
<1>4. CASE SessionFails
  BY <1>0, <1>4, StayKept DEF SessionFails
<1>5. CASE Close
  BY <1>5, FinishedKept DEF Close
<1>6. CASE UNCHANGED vars
  BY <1>0, <1>6, StayKept DEF vars
<1> QED BY <1>1, <1>2, <1>3, <1>4, <1>5, <1>6, ReceiveDatagramKept, TickKept DEF Next

\* Every datagram that has arrived is in one place, and what is held is held in order,
\* in every reachable state.
THEOREM KeptInvariant == Spec => []KeptInv
BY InitKept, NextKept, PTL DEF Spec

\* No datagram is lost, doubled or overtaken while it is held (_hold_datagram,
\* retry_pending_datagrams, tick), for any number of datagrams and any limits.
THEOREM DatagramsAreKept == Spec => []DatagramsKept
<1>1. KeptInv => DatagramsKept
  <2> SUFFICES ASSUME KeptInv PROVE DatagramsKept
    OBVIOUS
  <2> DEFINE places == <<processed, HeldDatagrams, dropped, lost>>
  <2>1. UNION ToSet(places) = Places
    <3>1. DOMAIN places = 1 .. 4
      OBVIOUS
    <3>2. \A i \in 1 .. 4 : i = 1 \/ i = 2 \/ i = 3 \/ i = 4
      OBVIOUS
    <3>3. ToSet(places) = {processed, HeldDatagrams, dropped, lost}
      BY <3>1, <3>2 DEF ToSet
    <3> QED BY <3>3 DEF Places
  <2>2. \A i, j \in 1 .. 4 : i # j => places[i] \cap places[j] = {}
    <3>1. \A i \in 1 .. 4 : i = 1 \/ i = 2 \/ i = 3 \/ i = 4
      OBVIOUS
    <3> QED BY <3>1 DEF KeptInv, PlacesInv
  <2>3. \A i, j \in DOMAIN pending_datagrams :
          pending_datagrams[i].datagram = pending_datagrams[j].datagram => i = j
    BY HeldAt DEF KeptInv, DatagramTypes, PlacesInv
  <2> HIDE DEF places
  <2>4. /\ UNION ToSet(places) \subseteq ToSet(arrived)
        /\ ~closed => ToSet(arrived) = UNION ToSet(places)
    BY <2>1 DEF KeptInv, PlacesInv
  <2>5. DatagramsConserved
    BY <2>2, <2>3, <2>4 DEF DatagramsConserved, places
  <2> QED BY <2>5 DEF DatagramsKept, KeptInv
<1> QED BY <1>1, KeptInvariant, PTL

-----------------------------------------------------------------------------
(* The attempts of what is held.                                           *)

\* What is held of a datagram after a step, from what was held of it before.
Counted(p, r) ==
  p.datagram = r.datagram =>
    /\ r.attempts \in {p.attempts, p.attempts + 1}
    /\ RetryDatagrams => r.attempts = p.attempts + 1

AttemptsCounted ==
  \A i \in DOMAIN pending_datagrams, j \in DOMAIN pending_datagrams' :
    Counted(pending_datagrams[i], pending_datagrams'[j])

\* What a retry of q holds again comes from q, with one attempt more.
LEMMA RetriedFrom ==
  ASSUME NEW q \in Seq(HeldOnes), NEW x \in 1 .. Len(Retried(q))
  PROVE  \E k \in 1 .. Len(q) : /\ Retried(q)[x].datagram = q[k].datagram
                                /\ Retried(q)[x].attempts = q[k].attempts + 1
<1>1. PICK t : t = Retried(q)
  OBVIOUS
<1>2. KeptOf(q, Len(q), t)
  BY <1>1, RetriedKept
<1>3. PICK at : KeptFrom(q, Len(q), t, at)
  BY <1>2 DEF KeptOf
<1>4. PICK k : k = at[x]
  OBVIOUS
<1>5. x \in 1 .. Len(t)
  BY <1>1
<1>6. k \in 1 .. Len(q) /\ t[x].datagram = q[k].datagram /\ t[x].attempts = q[k].attempts + 1
  BY <1>3, <1>4, <1>5 DEF KeptFrom
<1> QED BY <1>1, <1>6

\* A step whose held datagrams come from those held before it.
LEMMA CountedFrom ==
  ASSUME KeptInv, NEW j \in DOMAIN pending_datagrams', NEW k \in DOMAIN pending_datagrams,
         pending_datagrams'[j].datagram = pending_datagrams[k].datagram,
         Counted(pending_datagrams[k], pending_datagrams'[j]),
         NEW i \in DOMAIN pending_datagrams
  PROVE  Counted(pending_datagrams[i], pending_datagrams'[j])
<1>1. DOMAIN pending_datagrams = 1 .. Len(pending_datagrams)
  BY HeldAt DEF KeptInv, DatagramTypes
<1>2. pending_datagrams[i].datagram = pending_datagrams[k].datagram => i = k
  BY <1>1 DEF KeptInv, PlacesInv
<1> QED BY <1>2 DEF Counted

LEMMA RetryCounted ==
  ASSUME KeptInv, RetryDatagrams
  PROVE  AttemptsCounted
<1>1. PICK q : q = pending_datagrams
  OBVIOUS
<1>2. PICK r : r = pending_datagrams'
  OBVIOUS
<1>3. q \in Seq(HeldOnes) /\ r = Retried(q)
  BY <1>1, <1>2 DEF KeptInv, DatagramTypes, RetryDatagrams
<1>4. r \in Seq(HeldOnes)
  BY <1>3, RetriedKept DEF KeptOf
<1>5. DOMAIN q = 1 .. Len(q) /\ DOMAIN r = 1 .. Len(r)
  BY <1>3, <1>4
<1>6. ASSUME NEW j \in DOMAIN r, NEW i \in DOMAIN q
      PROVE  Counted(q[i], r[j])
  <2>1. PICK k \in 1 .. Len(q) : /\ r[j].datagram = q[k].datagram
                                 /\ r[j].attempts = q[k].attempts + 1
    BY <1>3, <1>5, RetriedFrom
  <2>2. Counted(q[k], r[j])
    BY <2>1 DEF Counted
  <2> QED BY <1>1, <1>2, <1>5, <2>1, <2>2, CountedFrom
<1> QED BY <1>1, <1>2, <1>6 DEF AttemptsCounted

\* When the session fails on one, those behind it have the attempts they had and those
\* before it one more.
LEMMA FailCounted ==
  ASSUME KeptInv, ~RetryDatagrams, NEW n \in 1 .. Len(pending_datagrams), RetryFails(n)
  PROVE  AttemptsCounted
<1>1. PICK q : q = pending_datagrams
  OBVIOUS
<1>2. PICK r : r = pending_datagrams'
  OBVIOUS
<1>3. PICK b, c : b = SubSeq(q, 1, n - 1) /\ c = SubSeq(q, n + 1, Len(q))
  OBVIOUS
<1>4. PICK t : t = Retried(b)
  OBVIOUS
<1>5. q \in Seq(HeldOnes) /\ Len(q) \in Nat /\ n \in 1 .. Len(q) /\ r = c \o t
  BY <1>1, <1>2, <1>3, <1>4 DEF KeptInv, DatagramTypes, RetryFails
<1>6. /\ b \in Seq(HeldOnes) /\ Len(b) = n - 1
      /\ \A k \in 1 .. n - 1 : b[k] = q[k]
  BY <1>3, <1>5, SubSeqProperties
<1>7. /\ c \in Seq(HeldOnes) /\ Len(c) \in Nat
      /\ \A x \in 1 .. Len(c) : \E k \in 1 .. Len(q) : c[x] = q[k]
  <2>1. PICK m : m = n + 1
    OBVIOUS
  <2>2. m \in 1 .. Len(q) + 1 /\ c = SubSeq(q, m, Len(q))
    BY <1>3, <1>5, <2>1
  <2>3. /\ c \in Seq(HeldOnes)
        /\ Len(c) = IF m <= Len(q) THEN Len(q) - m + 1 ELSE 0
        /\ \A x \in 1 .. Len(q) - m + 1 : c[x] = q[m + x - 1]
    BY <1>5, <2>2, SubSeqProperties
  <2>4. ASSUME NEW x \in 1 .. Len(c) PROVE \E k \in 1 .. Len(q) : c[x] = q[k]
    <3>1. x \in 1 .. Len(q) - m + 1 /\ m + x - 1 \in 1 .. Len(q)
      BY <1>5, <2>2, <2>3
    <3>2. c[x] = q[m + x - 1]
      BY <2>3, <3>1
    <3> QED BY <3>1, <3>2
  <2> QED BY <1>5, <2>2, <2>3, <2>4
<1>8. t \in Seq(HeldOnes) /\ Len(t) \in Nat
  BY <1>4, <1>6, RetriedKept DEF KeptOf
<1>9. /\ r \in Seq(HeldOnes) /\ Len(r) = Len(c) + Len(t)
      /\ \A x \in 1 .. Len(c) + Len(t) : r[x] = IF x <= Len(c) THEN c[x] ELSE t[x - Len(c)]
  BY <1>5, <1>7, <1>8, ConcatProperties, ZenonT(60)
<1>10. DOMAIN q = 1 .. Len(q) /\ DOMAIN r = 1 .. Len(r)
  BY <1>5, <1>9
<1>11. ASSUME NEW j \in DOMAIN r
       PROVE  \E k \in 1 .. Len(q) : /\ r[j].datagram = q[k].datagram
                                     /\ r[j].attempts \in {q[k].attempts, q[k].attempts + 1}
  <2>1. CASE j <= Len(c)
    <3>1. r[j] = c[j] /\ j \in 1 .. Len(c)
      BY <1>7, <1>9, <1>10, <2>1
    <3> QED BY <1>7, <3>1
  <2>2. CASE ~(j <= Len(c))
    <3>1. PICK x : x = j - Len(c)
      OBVIOUS
    <3>2. r[j] = t[x] /\ x \in 1 .. Len(t)
      BY <1>7, <1>8, <1>9, <1>10, <2>2, <3>1
    <3>3. PICK k \in 1 .. Len(b) : /\ t[x].datagram = b[k].datagram
                                   /\ t[x].attempts = b[k].attempts + 1
      BY <1>4, <1>6, <3>2, RetriedFrom
    <3>4. k \in 1 .. n - 1 /\ k \in 1 .. Len(q) /\ b[k] = q[k]
      BY <1>5, <1>6, <3>3
    <3> QED BY <3>2, <3>3, <3>4
  <2> QED BY <2>1, <2>2
<1>12. ASSUME NEW j \in DOMAIN r, NEW i \in DOMAIN q
       PROVE  Counted(q[i], r[j])
  <2>1. PICK k \in 1 .. Len(q) : /\ r[j].datagram = q[k].datagram
                                 /\ r[j].attempts \in {q[k].attempts, q[k].attempts + 1}
    BY <1>11
  <2>2. Counted(q[k], r[j])
    BY <2>1 DEF Counted
  <2> QED BY <1>1, <1>2, <1>10, <2>1, <2>2, CountedFrom
<1> QED BY <1>1, <1>2, <1>12 DEF AttemptsCounted

\* A step that may add a datagram not held, and retries none.
LEMMA OtherCounted ==
  ASSUME KeptInv, ~RetryDatagrams,
         \/ pending_datagrams' = pending_datagrams
         \/ pending_datagrams' = <<>>
         \/ \E d \in Datagrams : ReceiveDatagram(d)
  PROVE  AttemptsCounted
<1>1. DOMAIN pending_datagrams = 1 .. Len(pending_datagrams)
      /\ pending_datagrams \in Seq(HeldOnes) /\ Len(pending_datagrams) \in Nat
      /\ \A i \in 1 .. Len(pending_datagrams) : pending_datagrams[i].datagram \in HeldDatagrams
  BY HeldAt DEF KeptInv, DatagramTypes
<1>2. CASE pending_datagrams' = pending_datagrams
  <2> SUFFICES ASSUME NEW i \in DOMAIN pending_datagrams, NEW j \in DOMAIN pending_datagrams'
               PROVE  Counted(pending_datagrams[i], pending_datagrams'[j])
    BY DEF AttemptsCounted
  <2>1. j \in DOMAIN pending_datagrams /\ pending_datagrams'[j] = pending_datagrams[j]
    BY <1>2
  <2>2. Counted(pending_datagrams[j], pending_datagrams'[j])
    BY <2>1 DEF Counted
  <2> QED BY <2>1, <2>2, CountedFrom
<1>3. CASE pending_datagrams' = <<>>
  BY <1>3 DEF AttemptsCounted
<1>4. ASSUME NEW d \in Datagrams, ReceiveDatagram(d), pending_datagrams' # pending_datagrams
      PROVE  AttemptsCounted
  <2>1. pending_datagrams' = Append(pending_datagrams, [datagram |-> d, attempts |-> 0])
    BY <1>4 DEF ReceiveDatagram, Held
  <2>2. d \notin HeldDatagrams
    <3>1. \A x \in DOMAIN arrived : arrived[x] # d
      BY <1>4 DEF ReceiveDatagram, Contains, KeptInv, DatagramTypes
    <3>2. d \notin ToSet(arrived)
      BY <3>1 DEF ToSet
    <3> QED BY <3>2 DEF KeptInv, PlacesInv, Places
  <2>3. /\ DOMAIN pending_datagrams' = 1 .. Len(pending_datagrams) + 1
        /\ \A j \in 1 .. Len(pending_datagrams) : pending_datagrams'[j] = pending_datagrams[j]
        /\ pending_datagrams'[Len(pending_datagrams) + 1] = [datagram |-> d, attempts |-> 0]
    <3>1. PICK q, e : q = pending_datagrams /\ e = [datagram |-> d, attempts |-> 0]
      OBVIOUS
    <3>2. q \in Seq(HeldOnes) /\ e \in HeldOnes
      BY <1>1, <3>1 DEF HeldOnes
    <3>3. /\ Append(q, e) \in Seq(HeldOnes) /\ Len(Append(q, e)) = Len(q) + 1
          /\ \A j \in 1 .. Len(q) : Append(q, e)[j] = q[j]
          /\ Append(q, e)[Len(q) + 1] = e
      BY <3>2, AppendProperties
    <3> QED BY <2>1, <3>1, <3>3
  <2> SUFFICES ASSUME NEW i \in DOMAIN pending_datagrams, NEW j \in DOMAIN pending_datagrams'
               PROVE  Counted(pending_datagrams[i], pending_datagrams'[j])
    BY DEF AttemptsCounted
  <2>4. CASE j \in 1 .. Len(pending_datagrams)
    <3>1. pending_datagrams'[j] = pending_datagrams[j] /\ j \in DOMAIN pending_datagrams
      BY <1>1, <2>3, <2>4
    <3>2. Counted(pending_datagrams[j], pending_datagrams'[j])
      BY <3>1 DEF Counted
    <3> QED BY <3>1, <3>2, CountedFrom
  <2>5. CASE j = Len(pending_datagrams) + 1
    <3>1. pending_datagrams'[j].datagram = d
      BY <2>3, <2>5
    <3> QED BY <1>1, <2>2, <3>1 DEF Counted
  <2> QED BY <1>1, <2>3, <2>4, <2>5
<1> QED BY <1>2, <1>3, <1>4

\* Every retry that the session survives counts an attempt of every datagram it holds
\* again, and no other step takes an attempt back (retry_pending_datagrams): with the
\* limit of TypeCorrect, the MAX_DATAGRAM_RETRY_ATTEMPTS-th of them holds it no more.
THEOREM RetriesAreCounted == Spec => [][AttemptsCounted]_vars
<1>1. KeptInv /\ [Next]_vars => AttemptsCounted
  <2> SUFFICES ASSUME KeptInv, [Next]_vars, ~RetryDatagrams PROVE AttemptsCounted
    BY RetryCounted
  <2>1. ASSUME NEW s \in Streams, StreamClosed(s)
        PROVE  pending_datagrams' = pending_datagrams \/ pending_datagrams' = <<>>
    BY <2>1 DEF StreamClosed, Finished
  <2>2. CASE Tick
    <3>1. \/ pending_datagrams' = pending_datagrams
          \/ pending_datagrams' = <<>>
          \/ \E n \in 1 .. Len(pending_datagrams) : RetryFails(n)
      BY <2>2 DEF Tick, Finished, datagrams
    <3> QED BY <3>1, FailCounted, OtherCounted
  <2>3. \/ Tick
        \/ pending_datagrams' = pending_datagrams
        \/ pending_datagrams' = <<>>
        \/ \E d \in Datagrams : ReceiveDatagram(d)
    BY <2>1 DEF Next, vars, ReceiveStream, Bind, Unbind, SessionFails, Close, Finished, datagrams
  <2> QED BY <2>2, <2>3, OtherCounted
<1> QED BY <1>1, KeptInvariant, PTL DEF Spec

-----------------------------------------------------------------------------
(* The limits.                                                             *)

LEMMA InitLimits == Init => StreamLimits
<1>1. <<>> \in Seq(1 .. MaxUnits) /\ 0 \in 0 .. MaxUnits
  OBVIOUS
<1> QED BY <1>1 DEF Init, StreamLimits

LEMMA NextLimits == StreamLimits /\ [Next]_vars => StreamLimits'
<1> SUFFICES ASSUME StreamLimits, [Next]_vars PROVE StreamLimits'
  OBVIOUS
<1>1. ASSUME NEW s \in Streams, NEW n \in 1 .. MaxUnits, ReceiveStream(s, n)
      PROVE  StreamLimits'
  <2>1. PICK m : m = written[s]
    OBVIOUS
  <2>2. m \in 0 .. MaxUnits /\ m + n <= MaxUnits /\ fed[s] \in Seq(1 .. MaxUnits)
    BY <1>1, <2>1 DEF ReceiveStream, StreamLimits
  <2>3. Fragment(m, n) \in Seq(1 .. MaxUnits)
    BY <2>2 DEF Fragment
  <2>4. fed[s] \o Fragment(m, n) \in Seq(1 .. MaxUnits)
    BY <2>2, <2>3, ConcatProperties
  <2>5. fed' \in [Streams -> Seq(1 .. MaxUnits)]
    <3>1. \/ fed' = fed
          \/ fed' = [fed EXCEPT ![s] = fed[s] \o Fragment(m, n)]
      BY <1>1, <2>1 DEF ReceiveStream, Fragment
    <3> QED BY <2>4, <3>1 DEF StreamLimits
  <2>6. written' \in [Streams -> 0 .. MaxUnits]
    <3>1. written' = [written EXCEPT ![s] = m + n] /\ m + n \in 0 .. MaxUnits
      BY <1>1, <2>1, <2>2 DEF ReceiveStream
    <3> QED BY <3>1 DEF StreamLimits
  <2> QED BY <2>5, <2>6 DEF StreamLimits
<1>2. CASE UNCHANGED <<written, fed>>
  BY <1>2 DEF StreamLimits
<1>3. \/ \E s \in Streams, n \in 1 .. MaxUnits : ReceiveStream(s, n)
      \/ UNCHANGED <<written, fed>>
  BY DEF Next, vars, input, StreamClosed, ReceiveDatagram, Tick, Bind, Unbind,
         SessionFails, Close
<1> QED BY <1>1, <1>2, <1>3

\* The types of all variables, with the limits of what is held and of how often it is
\* tried (MAX_PENDING_DATAGRAMS, MAX_DATAGRAM_RETRY_ATTEMPTS).
THEOREM TypeCorrect == Spec => []TypeOK
<1>1. IInv /\ KeptInv /\ StreamLimits => TypeOK
  BY DEF IInv, StreamTypes, KeptInv, DatagramTypes, StreamLimits, TypeOK, HeldOnes
<1>2. Spec => []StreamLimits
  BY InitLimits, NextLimits, PTL DEF Spec
<1> QED BY <1>1, <1>2, Invariant, KeptInvariant, PTL

=============================================================================
