-------------------------- MODULE RequestsProofs --------------------------
(***************************************************************************)
(* Proofs about Requests, for any number of requests and updates.          *)
(***************************************************************************)
EXTENDS Requests, TLAPS

USE RequestsAssumption DEF RequestsAssumption

-----------------------------------------------------------------------------
(* The inductive invariant.                                                *)

\* How a call ended agrees with its future, and the future of a call whose
\* answer cannot be confused agrees with the peer's answer.
FutureInv ==
  \A c \in Calls :
    /\ place[c] = "answered" => future[c] = "ok"
    /\ place[c] = "refused" => future[c] = "error"
    /\ Own(c) /\ future[c] = "ok" => answers[c] = "ok"
    /\ Own(c) /\ future[c] = "error" => answers[c] = "error"

\* Only futures without a result are entered.
EntryInv == \A r \in Starts : entry[r] # Nobody => future[entry[r]] = "pending"

\* What the peer has to answer has been sent, once, and is not answered.
AskedInv ==
  \A r \in Starts : \A i \in 1 .. Len(asked[r]) :
    /\ place[asked[r][i]] \notin {"idle", "opening"}
    /\ answers[asked[r][i]] = "none"
    /\ \A j \in 1 .. Len(asked[r]) : asked[r][i] = asked[r][j] => i = j

\* The peer answers what has been sent.
UnaskedInv == \A c \in Calls : place[c] \in {"idle", "opening"} => answers[c] = "none"

\* A request is updated after it has been answered.
OrderInv == \A u \in Updates : place[u] # "idle" => place[Target[u]] = "answered"

IInv == /\ TypeOK /\ FutureInv /\ EntryInv /\ AskedInv /\ UnaskedInv /\ OrderInv
        /\ WaitersKept /\ LeftBehind

\* The invariant holds at first.
LEMMA InitInv == Init => IInv
<1> SUFFICES ASSUME Init PROVE IInv
  OBVIOUS
<1>1. TypeOK
  <2>1. <<>> \in Seq(Calls) /\ Len(<<>>) = 0
    OBVIOUS
  <2>2. /\ future \in [Calls -> {"none", "pending", "ok", "error", "closed"}]
        /\ place \in [Calls -> {"idle"} \cup Suspended \cup Ended]
        /\ answers \in [Calls -> {"none", "ok", "error"}]
    BY DEF Init
  <2>3. /\ entry \in [Starts -> Calls \cup {Nobody}]
        /\ asked \in [Starts -> Seq(Calls)]
    BY <2>1 DEF Init
  <2>4. /\ \A c \in Calls : place[c] = "idle" <=> future[c] = "none"
        /\ \A r \in Starts : entry[r] = Nobody \/ Request(entry[r]) = r
        /\ \A r \in Starts : \A i \in 1 .. Len(asked[r]) : Request(asked[r][i]) = r
    BY <2>1 DEF Init
  <2> QED BY <2>2, <2>3, <2>4 DEF Init, TypeOK
<1>2. FutureInv /\ EntryInv /\ AskedInv /\ UnaskedInv /\ OrderInv
  BY DEF Init, FutureInv, EntryInv, AskedInv, UnaskedInv, OrderInv, Calls
<1>3. WaitersKept /\ LeftBehind
  BY DEF Init, WaitersKept, LeftBehind, Calls, Suspended
<1> QED BY <1>1, <1>2, <1>3 DEF IInv

-----------------------------------------------------------------------------
(* Helpers.                                                                *)

\* The request of a call.
LEMMA RequestType ==
  /\ \A c \in Starts : c \in Calls /\ Request(c) = c /\ c # Nobody /\ c \notin Updates
  /\ \A c \in Updates : c \in Calls /\ Request(c) = Target[c] /\ c # Nobody /\ c \notin Starts
  /\ \A c \in Calls : Request(c) \in Starts
BY DEF Calls, Request

\* No call becomes idle again, so a call that owns its answer has always done so.
LEMMA OwnShrinks ==
  ASSUME \A c \in Calls : place[c] # "idle" => place'[c] # "idle", NEW c \in Calls, Own(c)'
  PROVE  Own(c)
<1>1. Updates \subseteq Calls
  BY DEF Calls
<1> QED BY <1>1 DEF Own, Alone

\* While the future of a call that owns its answer is entered, the next answer on
\* the stream is for this call.
LEMMA NextIsOwn ==
  ASSUME IInv, NEW c \in Calls, Own(c), entry[Request(c)] = c, asked[Request(c)] # <<>>
  PROVE  Head(asked[Request(c)]) = c
<1> DEFINE r == Request(c)
           h == Head(asked[r])
<1>1. r \in Starts /\ asked[r] \in Seq(Calls)
  BY RequestType DEF IInv, TypeOK
<1>2. Len(asked[r]) >= 1 /\ h = asked[r][1] /\ h \in Calls
  BY <1>1
<1>3. Request(h) = r /\ place[h] \notin {"idle", "opening"} /\ answers[h] = "none"
  BY <1>1, <1>2 DEF IInv, TypeOK, AskedInv
<1>4. future[c] = "pending"
  BY <1>1, RequestType DEF IInv, EntryInv, Calls
<1>5. CASE c \in Starts
  <2>1. r = c /\ place[c] # "answered"
    BY <1>4, <1>5, RequestType DEF IInv, FutureInv
  <2>2. h \notin Updates
    BY <1>3, <2>1, RequestType DEF IInv, OrderInv
  <2> QED BY <1>2, <1>3, <2>1, <2>2, RequestType DEF Calls
<1>6. CASE c \in Updates
  <2>1. Alone(c) /\ r = Target[c]
    BY <1>6, RequestType DEF Own
  <2>2. h \in Updates => h = c
    BY <1>3, <2>1, RequestType DEF Alone
  <2>3. place[c] # "idle"
    BY <1>4 DEF IInv, TypeOK
  <2>4. h \notin Starts
    <3> SUFFICES ASSUME h \in Starts PROVE FALSE
      OBVIOUS
    <3>1. h = r
      BY <1>3, RequestType
    <3>2. place[r] = "answered"
      BY <1>6, <2>1, <2>3 DEF IInv, OrderInv
    <3>3. answers[r] = "ok"
      BY <1>2, <3>1, <3>2 DEF IInv, FutureInv, Own
    <3> QED BY <1>3, <3>1, <3>3
  <2> QED BY <1>2, <2>2, <2>4 DEF Calls
<1> QED BY <1>5, <1>6 DEF Calls

-----------------------------------------------------------------------------
(* The steps.                                                              *)

\* A call is made: its future is new and entered under its request, which has no
\* other call under way that owns its answer.
LEMMA StartKeeps ==
  ASSUME IInv, NEW c \in Starts, Start(c)
  PROVE  IInv'
<1> USE DEF Start, session
<1>1. c \in Calls /\ Request(c) = c /\ c # Nobody /\ c \notin Updates
  BY RequestType
<1>2. \A d \in Calls : place[d] # "idle" => place'[d] # "idle"
  BY <1>1 DEF IInv, TypeOK
<1>3. \A d \in Calls : d # c => place'[d] = place[d] /\ future'[d] = future[d]
  BY <1>1 DEF IInv, TypeOK
<1>4. place'[c] = "opening" /\ future'[c] = "pending" /\ entry'[c] = c
  BY <1>1 DEF IInv, TypeOK
<1>5. \A r \in Starts : r # c => entry'[r] = entry[r]
  BY DEF IInv, TypeOK
<1>6. TypeOK'
  <2>1. /\ entry' \in [Starts -> Calls \cup {Nobody}]
        /\ future' \in [Calls -> {"none", "pending", "ok", "error", "closed"}]
        /\ place' \in [Calls -> {"idle"} \cup Suspended \cup Ended]
    BY <1>1 DEF IInv, TypeOK, Suspended
  <2>2. \A d \in Calls : place'[d] = "idle" <=> future'[d] = "none"
    BY <1>3, <1>4 DEF IInv, TypeOK
  <2>3. \A r \in Starts : entry'[r] = Nobody \/ Request(entry'[r]) = r
    BY <1>1, <1>4, <1>5 DEF IInv, TypeOK
  <2> QED BY <2>1, <2>2, <2>3 DEF IInv, TypeOK
<1>7. FutureInv'
  BY <1>2, <1>3, <1>4, OwnShrinks DEF IInv, FutureInv
<1>8. EntryInv'
  BY <1>3, <1>4, <1>5 DEF IInv, EntryInv, TypeOK
<1>9. AskedInv'
  <2>1. \A r \in Starts : \A i \in 1 .. Len(asked[r]) : asked[r][i] \in Calls
    BY DEF IInv, TypeOK
  <2> QED BY <1>3, <2>1 DEF IInv, AskedInv
<1>10. OrderInv' /\ UnaskedInv'
  BY <1>1, <1>3, RequestType DEF IInv, OrderInv, UnaskedInv
<1>11. WaitersKept'
  <2> SUFFICES ASSUME NEW d \in Calls, Own(d)', place'[d] \in Suspended, future'[d] = "pending"
               PROVE  entry'[Request(d)] = d
    BY DEF WaitersKept
  <2>1. CASE d = c
    BY <1>1, <1>4, <2>1
  <2>2. CASE d # c
    <3>1. entry[Request(d)] = d
      BY <1>2, <1>3, <2>2, OwnShrinks DEF IInv, WaitersKept
    <3>2. Request(d) # c
      BY <1>1, <1>3, <2>2, RequestType DEF IInv, OrderInv, Calls, Suspended
    <3> QED BY <1>5, <3>1, <3>2, RequestType
  <2> QED BY <2>1, <2>2
<1>12. LeftBehind'
  BY <1>1, <1>3, <1>4, <1>5 DEF IInv, TypeOK, LeftBehind, Ended
<1> QED BY <1>6, <1>7, <1>8, <1>9, <1>10, <1>11, <1>12 DEF IInv

\* A message joins the ones that the peer has to answer.
LEMMA AppendedAsked ==
  ASSUME IInv, NEW r \in Starts, NEW c \in Calls,
         Request(c) = r, place[c] \in {"idle", "opening"}, answers[c] = "none",
         place'[c] = "sending", answers' = answers,
         \A d \in Calls : d # c => place'[d] = place[d],
         asked' = [asked EXCEPT ![r] = Append(@, c)]
  PROVE  /\ asked' \in [Starts -> Seq(Calls)]
         /\ \A t \in Starts : \A i \in 1 .. Len(asked'[t]) : Request(asked'[t][i]) = t
         /\ AskedInv'
<1> DEFINE q == asked[r]
<1>1. asked \in [Starts -> Seq(Calls)] /\ q \in Seq(Calls) /\ Len(q) \in Nat
  BY DEF IInv, TypeOK
<1>2. \A i \in 1 .. Len(q) : q[i] \in Calls /\ q[i] # c
  BY <1>1 DEF IInv, AskedInv
<1>3. /\ Append(q, c) \in Seq(Calls) /\ Len(Append(q, c)) = Len(q) + 1
      /\ Append(q, c)[Len(q) + 1] = c
      /\ \A i \in 1 .. Len(q) : Append(q, c)[i] = q[i]
  BY <1>1
<1>4. asked'[r] = Append(q, c) /\ \A t \in Starts \ {r} : asked'[t] = asked[t]
  BY <1>1
<1>5. \A t \in Starts : \A i \in 1 .. Len(asked[t]) : asked[t][i] \in Calls
  BY <1>1
<1>6. asked' \in [Starts -> Seq(Calls)]
  BY <1>1, <1>3
<1> HIDE DEF q
<1>7. \A t \in Starts : \A i \in 1 .. Len(asked'[t]) : Request(asked'[t][i]) = t
  <2>1. \A i \in 1 .. Len(asked'[r]) : Request(asked'[r][i]) = r
    <3> SUFFICES ASSUME NEW i \in 1 .. Len(asked'[r]) PROVE Request(asked'[r][i]) = r
      OBVIOUS
    <3>1. CASE i \in 1 .. Len(q)
      BY <1>3, <1>4, <3>1 DEF IInv, TypeOK, q
    <3>2. CASE i = Len(q) + 1
      BY <1>3, <1>4, <3>2
    <3> QED BY <1>1, <1>3, <1>4, <3>1, <3>2
  <2> QED BY <1>4, <2>1 DEF IInv, TypeOK
<1>8. AskedInv'
  <2>1. ASSUME NEW t \in Starts \ {r}, NEW i \in 1 .. Len(asked[t])
        PROVE  /\ place'[asked[t][i]] \notin {"idle", "opening"}
               /\ answers[asked[t][i]] = "none"
               /\ \A j \in 1 .. Len(asked[t]) : asked[t][i] = asked[t][j] => i = j
    BY <1>5, <2>1 DEF IInv, AskedInv
  <2>2. ASSUME NEW i \in 1 .. Len(q)
        PROVE  /\ place'[q[i]] \notin {"idle", "opening"}
               /\ answers[q[i]] = "none"
               /\ \A j \in 1 .. Len(q) : q[i] = q[j] => i = j
    BY <1>2, <2>2 DEF IInv, AskedInv, q
  <2>3. ASSUME NEW i \in 1 .. Len(asked'[r])
        PROVE  /\ place'[asked'[r][i]] \notin {"idle", "opening"}
               /\ answers[asked'[r][i]] = "none"
               /\ \A j \in 1 .. Len(asked'[r]) : asked'[r][i] = asked'[r][j] => i = j
    <3> DEFINE w == asked'[r]
    <3>1. /\ Len(w) = Len(q) + 1 /\ w[Len(q) + 1] = c
          /\ \A j \in 1 .. Len(q) : w[j] = q[j] /\ w[j] # c
      <4>1. w = Append(q, c)
        BY <1>4
      <4>2. \A j \in 1 .. Len(q) : w[j] = q[j]
        BY <1>3, <4>1
      <4>3. Len(w) = Len(q) + 1 /\ w[Len(q) + 1] = c
        BY <1>3, <4>1
      <4> QED BY <1>2, <4>2, <4>3
    <3> HIDE DEF w
    <3>2. i \in 1 .. Len(q) \/ i = Len(q) + 1
      BY <1>1, <3>1 DEF w
    <3>3. place'[w[i]] \notin {"idle", "opening"} /\ answers[w[i]] = "none"
      BY <2>2, <3>1, <3>2
    <3>4. ASSUME NEW j \in 1 .. Len(w), w[i] = w[j]
          PROVE  i = j
      <4>1. j \in 1 .. Len(q) \/ j = Len(q) + 1
        BY <1>1, <3>1
      <4> QED BY <2>2, <3>1, <3>2, <3>4, <4>1
    <3> QED BY <3>3, <3>4 DEF w
  <2> QED BY <1>4, <2>1, <2>3 DEF AskedInv
<1> QED BY <1>6, <1>7, <1>8

\* The stream of a request is open and its message on the way.
LEMMA StreamOpenedKeeps ==
  ASSUME IInv, NEW c \in Starts, StreamOpened(c)
  PROVE  IInv'
<1> USE DEF StreamOpened, session
<1>1. c \in Calls /\ Request(c) = c /\ c \notin Updates
  BY RequestType
<1>2. \A d \in Calls : place[d] # "idle" => place'[d] # "idle"
  BY <1>1 DEF IInv, TypeOK
<1>3. \A d \in Calls : d # c => place'[d] = place[d]
  BY <1>1 DEF IInv, TypeOK
<1>4. place'[c] = "sending"
  BY <1>1 DEF IInv, TypeOK
<1>5. /\ asked' \in [Starts -> Seq(Calls)]
      /\ \A t \in Starts : \A i \in 1 .. Len(asked'[t]) : Request(asked'[t][i]) = t
      /\ AskedInv'
  <2>1. answers[c] = "none"
    BY <1>1 DEF IInv, UnaskedInv
  <2> QED BY <1>1, <1>3, <1>4, <2>1, AppendedAsked
<1>6. TypeOK'
  <2>1. place' \in [Calls -> {"idle"} \cup Suspended \cup Ended]
    BY <1>1 DEF IInv, TypeOK, Suspended
  <2>2. \A d \in Calls : place'[d] = "idle" <=> future'[d] = "none"
    BY <1>1, <1>3, <1>4 DEF IInv, TypeOK
  <2> QED BY <1>5, <2>1, <2>2 DEF IInv, TypeOK
<1>7. FutureInv' /\ EntryInv'
  BY <1>2, <1>3, <1>4, OwnShrinks DEF IInv, FutureInv, EntryInv
<1>8. OrderInv' /\ UnaskedInv'
  BY <1>1, <1>3, <1>4, RequestType DEF IInv, OrderInv, UnaskedInv
<1>9. WaitersKept'
  BY <1>2, <1>3, <1>4, OwnShrinks DEF IInv, WaitersKept, Suspended
<1>10. LeftBehind'
  BY <1>1, <1>3, <1>4 DEF IInv, TypeOK, LeftBehind, Ended
<1> QED BY <1>5, <1>6, <1>7, <1>8, <1>9, <1>10 DEF IInv

\* An update is sent.  It takes the entry of its request over: from the request
\* itself, which is answered, or from an update that no longer owns its answer.
LEMMA UpdateKeeps ==
  ASSUME IInv, NEW c \in Updates, Update(c)
  PROVE  IInv'
<1> USE DEF Update, session
<1> DEFINE r == Target[c]
<1>1. c \in Calls /\ Request(c) = r /\ r \in Starts /\ r # c /\ c # Nobody
  BY RequestType
<1>2. \A d \in Calls : place[d] # "idle" => place'[d] # "idle"
  BY <1>1 DEF IInv, TypeOK
<1>3. \A d \in Calls : d # c => place'[d] = place[d] /\ future'[d] = future[d]
  BY <1>1 DEF IInv, TypeOK
<1>4. place'[c] = "sending" /\ future'[c] = "pending" /\ entry'[r] = c
  BY <1>1 DEF IInv, TypeOK
<1>5. \A t \in Starts : t # r => entry'[t] = entry[t]
  BY DEF IInv, TypeOK
<1>6. /\ asked' \in [Starts -> Seq(Calls)]
      /\ \A t \in Starts : \A i \in 1 .. Len(asked'[t]) : Request(asked'[t][i]) = t
      /\ AskedInv'
  <2>1. answers[c] = "none"
    BY <1>1 DEF IInv, UnaskedInv
  <2>2. /\ asked' = [asked EXCEPT ![r] = Append(@, c)] /\ answers' = answers
        /\ place[c] \in {"idle", "opening"}
    OBVIOUS
  <2> HIDE DEF Update, session, r
  <2> QED BY <1>1, <1>3, <1>4, <2>1, <2>2, AppendedAsked
<1>7. TypeOK'
  <2>1. /\ entry' \in [Starts -> Calls \cup {Nobody}]
        /\ future' \in [Calls -> {"none", "pending", "ok", "error", "closed"}]
        /\ place' \in [Calls -> {"idle"} \cup Suspended \cup Ended]
    BY <1>1 DEF IInv, TypeOK, Suspended
  <2>2. \A d \in Calls : place'[d] = "idle" <=> future'[d] = "none"
    BY <1>3, <1>4 DEF IInv, TypeOK
  <2>3. \A t \in Starts : entry'[t] = Nobody \/ Request(entry'[t]) = t
    BY <1>1, <1>4, <1>5 DEF IInv, TypeOK
  <2> QED BY <1>6, <2>1, <2>2, <2>3 DEF IInv, TypeOK
<1>8. FutureInv'
  BY <1>2, <1>3, <1>4, OwnShrinks DEF IInv, FutureInv
<1>9. EntryInv'
  <2>1. \A t \in Starts : entry[t] = Nobody \/ entry[t] \in Calls
    BY DEF IInv, TypeOK
  <2> QED BY <1>3, <1>4, <1>5, <2>1 DEF IInv, EntryInv
<1>10. OrderInv' /\ UnaskedInv'
  BY <1>1, <1>3, <1>4, RequestType DEF IInv, OrderInv, UnaskedInv
<1>11. WaitersKept'
  <2> SUFFICES ASSUME NEW d \in Calls, Own(d)', place'[d] \in Suspended, future'[d] = "pending"
               PROVE  entry'[Request(d)] = d
    BY DEF WaitersKept
  <2>1. CASE d = c
    BY <1>1, <1>4, <2>1
  <2>2. CASE d # c
    <3>1. entry[Request(d)] = d
      BY <1>2, <1>3, <2>2, OwnShrinks DEF IInv, WaitersKept
    <3>2. d # r
      BY <1>1, <1>3, <2>2 DEF Suspended
    <3>3. Request(d) # r
      <4> SUFFICES ASSUME Request(d) = r PROVE FALSE
        OBVIOUS
      <4>1. d \in Updates /\ d \notin Starts
        BY <3>2, RequestType DEF Calls
      <4>2. c \in Updates \ {d} /\ Target[c] = Request(d)
        BY <2>2
      <4>3. place'[c] = "idle"
        BY <4>1, <4>2 DEF Own, Alone
      <4> QED BY <1>4, <4>3
    <3> QED BY <1>5, <3>1, <3>3, RequestType
  <2> QED BY <2>1, <2>2
<1>12. LeftBehind'
  <2> SUFFICES ASSUME NEW t \in Starts, entry'[t] # Nobody, place'[entry'[t]] \in Ended
               PROVE  entry'[t] = t /\ place'[t] \in {"failed", "cancelled"}
    BY DEF LeftBehind
  <2>1. t # r
    BY <1>1, <1>4 DEF Ended
  <2>2. entry'[t] = entry[t] /\ entry[t] \in Calls
    BY <1>5, <2>1 DEF IInv, TypeOK
  <2>3. entry[t] # c
    BY <1>1, <2>1, <2>2 DEF IInv, TypeOK
  <2>4. place[entry[t]] \in Ended
    BY <1>3, <2>2, <2>3
  <2>5. entry[t] = t /\ place[t] \in {"failed", "cancelled"}
    BY <2>2, <2>4 DEF IInv, LeftBehind
  <2> QED BY <1>3, <2>2, <2>3, <2>5
<1> QED BY <1>6, <1>7, <1>8, <1>9, <1>10, <1>11, <1>12 DEF IInv

\* c goes on from an await, to its wait or to its end.
Moves(c) ==
  /\ place[c] \in Suspended
  /\ place' = [place EXCEPT ![c] = place'[c]]
  /\ place'[c] \in {"waiting"} \cup Ended
  /\ entry' \in {entry, Popped(c)}
  /\ place'[c] = "waiting" => entry' = entry
  /\ place'[c] \in Ended /\ c \in Updates => entry' = Popped(c)
  /\ place'[c] \in Ended /\ c \in Starts /\ entry'[c] = c => place'[c] \in {"failed", "cancelled"}
  /\ place'[c] = "answered" => future[c] = "ok"
  /\ place'[c] = "refused" => future[c] = "error"
  /\ UNCHANGED <<session, future, asked, over, answers>>

\* The steps that only move a coroutine.
LEMMA AreMoves ==
  ASSUME IInv, NEW c \in Calls, Raises(c) \/ Cancel(c) \/ Sent(c) \/ Resume(c)
  PROVE  Moves(c)
<1>1. /\ place \in [Calls -> {"idle"} \cup Suspended \cup Ended]
      /\ entry \in [Starts -> Calls \cup {Nobody}]
      /\ future[c] \in {"none", "pending", "ok", "error", "closed"}
      /\ place[c] = "idle" <=> future[c] = "none"
  BY DEF IInv, TypeOK
<1>2. Request(c) \in Starts /\ (c \in Starts => Request(c) = c /\ c # Nobody)
  BY RequestType
<1>3. c \in Starts => Popped(c)[c] # c
  BY <1>1, <1>2 DEF Popped
<1>4. CASE Raises(c) \/ Cancel(c)
  <2>1. place'[c] \in {"failed", "cancelled"} /\ place' = [place EXCEPT ![c] = place'[c]]
    BY <1>1, <1>4 DEF Raises, Cancel
  <2>2. place[c] \in Suspended
    BY <1>4 DEF Raises, Cancel, Suspended
  <2>3. entry' \in {entry, Popped(c)} /\ (c \in Updates => entry' = Popped(c))
    BY <1>4 DEF Raises, Cancel, Failed
  <2>4. UNCHANGED <<session, future, asked, over, answers>>
    BY <1>4 DEF Raises, Cancel
  <2> QED BY <2>1, <2>2, <2>3, <2>4 DEF Moves, Ended
<1>5. ASSUME Returned(c), place[c] \in {"sending", "waiting"},
             UNCHANGED <<session, future, asked, over, answers>>
      PROVE  Moves(c)
  <2>1. future[c] \in {"ok", "error", "closed"}
    BY <1>1, <1>5 DEF Returned
  <2>2. /\ Outcome(c) \in {"answered", "refused", "closed"}
        /\ Outcome(c) = "answered" <=> future[c] = "ok"
        /\ Outcome(c) = "refused" <=> future[c] = "error"
    BY <2>1 DEF Outcome
  <2>3. place' = [place EXCEPT ![c] = Outcome(c)] /\ place'[c] = Outcome(c)
    BY <1>1, <1>5 DEF Returned
  <2>4. /\ entry' \in {entry, Popped(c)}
        /\ c \in Updates => entry' = Popped(c)
        /\ c \in Starts => entry' = Popped(c) \/ (Outcome(c) = "answered" /\ entry' = entry)
    BY <1>5 DEF Returned
  <2>5. c \in Starts => entry'[c] # c
    <3> SUFFICES ASSUME c \in Starts, entry' = entry PROVE entry[c] # c
      BY <1>3, <2>4
    <3> QED BY <1>2, <2>1 DEF IInv, EntryInv
  <2> HIDE DEF Outcome
  <2>6. Outcome(c) \in Ended /\ Outcome(c) # "waiting" /\ place[c] \in Suspended
    BY <1>5, <2>2 DEF Ended, Suspended
  <2> QED BY <1>5, <2>2, <2>3, <2>4, <2>5, <2>6 DEF Moves
<1>6. CASE Sent(c)
  <2>1. CASE Returned(c)
    BY <1>5, <1>6, <2>1 DEF Sent
  <2>2. CASE ~Returned(c)
    BY <1>1, <1>6, <2>2 DEF Sent, Moves, Suspended, Ended
  <2> QED BY <2>1, <2>2
<1>7. CASE Resume(c)
  BY <1>5, <1>7 DEF Resume
<1> QED BY <1>4, <1>6, <1>7

\* A coroutine that moves takes no entry but its own away.
LEMMA MovesKeep ==
  ASSUME IInv, NEW c \in Calls, Moves(c)
  PROVE  IInv'
<1> DEFINE r == Request(c)
           p == place'[c]
<1>1. /\ place \in [Calls -> {"idle"} \cup Suspended \cup Ended]
      /\ entry \in [Starts -> Calls \cup {Nobody}]
  BY DEF IInv, TypeOK
<1>2. /\ r \in Starts /\ place' = [place EXCEPT ![c] = p]
      /\ p \in {"waiting"} \cup Ended /\ place[c] \in Suspended
      /\ entry' \in {entry, Popped(c)}
      /\ core_closed' = core_closed /\ closed' = closed /\ left' = left
      /\ future' = future /\ asked' = asked /\ over' = over /\ answers' = answers
  BY RequestType DEF Moves, session
<1>3. \A d \in Calls : d # c => place'[d] = place[d]
  BY <1>1, <1>2
<1>4. \A d \in Calls : place[d] # "idle" => place'[d] # "idle"
  BY <1>2, <1>3 DEF Ended
<1>5. /\ \A t \in Starts : t # r => entry'[t] = entry[t]
      /\ entry'[r] \in {entry[r], Nobody}
  BY <1>1, <1>2 DEF Popped
<1>6. TypeOK'
  <2>1. entry' \in [Starts -> Calls \cup {Nobody}]
    BY <1>1, <1>2 DEF Popped
  <2>2. place' \in [Calls -> {"idle"} \cup Suspended \cup Ended]
    BY <1>1, <1>2 DEF Suspended
  <2>3. \A d \in Calls : place'[d] = "idle" <=> future'[d] = "none"
    <3>1. place[c] # "idle"
      BY <1>2 DEF Suspended
    <3> QED BY <1>2, <1>3, <1>4, <3>1 DEF IInv, TypeOK
  <2>4. \A t \in Starts : entry'[t] = Nobody \/ Request(entry'[t]) = t
    BY <1>5 DEF IInv, TypeOK
  <2> QED BY <1>2, <2>1, <2>2, <2>3, <2>4 DEF IInv, TypeOK
<1>7. FutureInv'
  <2>1. /\ p = "answered" => future[c] = "ok"
        /\ p = "refused" => future[c] = "error"
    BY DEF Moves
  <2> QED BY <1>2, <1>3, <1>4, <2>1, OwnShrinks DEF IInv, FutureInv
<1>8. EntryInv'
  BY <1>2, <1>5 DEF IInv, EntryInv
<1>9. AskedInv'
  <2>1. \A t \in Starts : \A i \in 1 .. Len(asked[t]) : asked[t][i] \in Calls
    BY DEF IInv, TypeOK
  <2>2. p \notin {"idle", "opening"}
    BY <1>2 DEF Ended
  <2> QED BY <1>2, <1>3, <2>1, <2>2 DEF IInv, AskedInv
<1>10. OrderInv' /\ UnaskedInv'
  <2>1. place[c] \notin {"idle", "answered"} /\ p \notin {"idle", "opening"}
    BY <1>2 DEF Suspended, Ended
  <2> QED BY <1>2, <1>3, <2>1, RequestType DEF IInv, OrderInv, UnaskedInv
<1>11. WaitersKept'
  <2> SUFFICES ASSUME NEW d \in Calls, Own(d)', place'[d] \in Suspended, future'[d] = "pending"
               PROVE  entry'[Request(d)] = d
    BY DEF WaitersKept
  <2>1. Own(d) /\ future[d] = "pending" /\ Request(d) \in Starts
    BY <1>2, <1>4, OwnShrinks, RequestType
  <2>2. CASE d = c
    <3>1. p = "waiting"
      BY <1>2, <2>2 DEF Suspended, Ended
    <3>2. entry' = entry
      BY <3>1 DEF Moves
    <3> QED BY <1>2, <2>1, <2>2, <3>2 DEF IInv, WaitersKept
  <2>3. CASE d # c
    <3>1. entry[Request(d)] = d /\ place[d] \in Suspended
      BY <1>3, <2>1, <2>3 DEF IInv, WaitersKept
    <3>2. Request(d) # r
      <4> SUFFICES ASSUME Request(d) = r PROVE FALSE
        OBVIOUS
      <4>1. CASE c \in Starts
        <5>1. d \in Updates /\ Target[d] = c
          BY <2>3, <4>1, RequestType DEF Calls
        <5>2. place[c] = "answered"
          BY <3>1, <5>1 DEF IInv, OrderInv, Suspended
        <5> QED BY <1>2, <5>2 DEF Suspended
      <4>2. CASE d \in Starts
        <5>1. c \in Updates /\ Target[c] = d
          BY <2>3, <4>2, RequestType DEF Calls
        <5>2. place[d] = "answered"
          BY <1>2, <5>1 DEF IInv, OrderInv, Suspended
        <5> QED BY <3>1, <5>2 DEF Suspended
      <4>3. CASE c \in Updates /\ d \in Updates
        <5>1. Alone(d) /\ Target[c] = Request(d)
          BY <2>1, <4>3, RequestType DEF Own
        <5>2. place[c] = "idle"
          BY <2>3, <4>3, <5>1 DEF Alone
        <5> QED BY <1>2, <5>2 DEF Suspended
      <4> QED BY <4>1, <4>2, <4>3 DEF Calls
    <3> QED BY <1>5, <2>1, <3>1, <3>2
  <2> QED BY <2>2, <2>3
<1>12. LeftBehind'
  <2> SUFFICES ASSUME NEW t \in Starts, entry'[t] # Nobody, place'[entry'[t]] \in Ended
               PROVE  entry'[t] = t /\ place'[t] \in {"failed", "cancelled"}
    BY DEF LeftBehind
  <2>1. entry'[t] = entry[t] /\ entry[t] \in Calls /\ Request(entry[t]) = t
    BY <1>1, <1>5 DEF IInv, TypeOK
  <2>2. CASE entry[t] = c
    <3>1. t = r /\ p \in Ended
      BY <2>1, <2>2
    <3>2. c \notin Updates
      <4> SUFFICES ASSUME c \in Updates PROVE FALSE
        OBVIOUS
      <4>1. entry' = Popped(c)
        BY <3>1 DEF Moves
      <4> QED BY <1>1, <1>2, <3>1, <4>1 DEF Popped
    <3>3. c \in Starts /\ r = c
      BY <3>2, RequestType DEF Calls
    <3> QED BY <2>1, <2>2, <3>1, <3>3 DEF Moves
  <2>3. CASE entry[t] # c
    <3>1. entry[t] = t /\ place[t] \in {"failed", "cancelled"}
      BY <1>3, <2>1, <2>3 DEF IInv, LeftBehind
    <3> QED BY <1>3, <2>1, <2>3, <3>1
  <2> QED BY <2>2, <2>3
<1> QED BY <1>6, <1>7, <1>8, <1>9, <1>10, <1>11, <1>12 DEF IInv

\* What is left to be answered on a stream after an answer or after its end.
LEMMA ShortenedAsked ==
  ASSUME IInv, NEW r \in Starts, NEW q \in {Tail(asked[r]), <<>>}, q = <<>> \/ asked[r] # <<>>,
         asked' = [asked EXCEPT ![r] = q], place' = place,
         \A d \in Calls : answers'[d] = answers[d] \/ (asked[r] # <<>> /\ d = Head(asked[r]))
  PROVE  /\ asked' \in [Starts -> Seq(Calls)]
         /\ \A t \in Starts : \A i \in 1 .. Len(asked'[t]) : Request(asked'[t][i]) = t
         /\ AskedInv'
<1> DEFINE w == asked[r]
<1>1. asked \in [Starts -> Seq(Calls)] /\ w \in Seq(Calls) /\ Len(w) \in Nat
  BY DEF IInv, TypeOK
<1>2. /\ q \in Seq(Calls) /\ Len(q) \in Nat
      /\ \A i \in 1 .. Len(q) : q[i] = w[i + 1] /\ i + 1 \in 1 .. Len(w) /\ w # <<>>
  <2>1. CASE q = <<>>
    BY <2>1
  <2>2. CASE q = Tail(w) /\ w # <<>>
    BY <1>1, <2>2
  <2> QED BY <2>1, <2>2
<1>3. w # <<>> => Head(w) = w[1] /\ 1 \in 1 .. Len(w) /\ Head(w) \in Calls
  BY <1>1
<1>4. asked' \in [Starts -> Seq(Calls)] /\ asked'[r] = q
      /\ \A t \in Starts \ {r} : asked'[t] = asked[t]
  BY <1>1, <1>2
<1>5. \A i \in 1 .. Len(w) :
        /\ w[i] \in Calls /\ Request(w[i]) = r
        /\ place[w[i]] \notin {"idle", "opening"} /\ answers[w[i]] = "none"
        /\ \A j \in 1 .. Len(w) : w[i] = w[j] => i = j
  BY <1>1 DEF IInv, TypeOK, AskedInv
<1> HIDE DEF w
<1>6. ASSUME NEW i \in 1 .. Len(q)
      PROVE  /\ Request(q[i]) = r
             /\ place'[q[i]] \notin {"idle", "opening"}
             /\ answers'[q[i]] = "none"
             /\ \A j \in 1 .. Len(q) : q[i] = q[j] => i = j
  <2>1. q[i] = w[i + 1] /\ i + 1 \in 1 .. Len(w) /\ w # <<>> /\ i \in Nat /\ i # 0
    BY <1>2
  <2>2. q[i] # Head(w)
    BY <1>3, <1>5, <2>1
  <2>3. answers'[q[i]] = "none"
    BY <1>5, <2>1, <2>2 DEF w
  <2>4. ASSUME NEW j \in 1 .. Len(q), q[i] = q[j]
        PROVE  i = j
    <3>1. q[j] = w[j + 1] /\ j + 1 \in 1 .. Len(w)
      BY <1>2
    <3>2. i + 1 = j + 1
      BY <1>5, <2>1, <2>4, <3>1
    <3> QED BY <1>2, <3>2
  <2> QED BY <1>5, <2>1, <2>3, <2>4
<1>7. ASSUME NEW t \in Starts \ {r}, NEW i \in 1 .. Len(asked[t])
      PROVE  /\ Request(asked[t][i]) = t
             /\ place'[asked[t][i]] \notin {"idle", "opening"}
             /\ answers'[asked[t][i]] = "none"
             /\ \A j \in 1 .. Len(asked[t]) : asked[t][i] = asked[t][j] => i = j
  <2>1. asked[t][i] \in Calls /\ Request(asked[t][i]) = t
    BY <1>1 DEF IInv, TypeOK
  <2>2. w # <<>> => Request(Head(w)) = r
    BY <1>3, <1>5
  <2>3. answers'[asked[t][i]] = answers[asked[t][i]]
    BY <2>1, <2>2 DEF w
  <2> QED BY <2>1, <2>3 DEF IInv, AskedInv
<1>8. AskedInv'
  <2> SUFFICES ASSUME NEW t \in Starts, NEW i \in 1 .. Len(asked'[t])
               PROVE  /\ place'[asked'[t][i]] \notin {"idle", "opening"}
                      /\ answers'[asked'[t][i]] = "none"
                      /\ \A j \in 1 .. Len(asked'[t]) : asked'[t][i] = asked'[t][j] => i = j
    BY DEF AskedInv
  <2> QED BY <1>4, <1>6, <1>7
<1>9. \A t \in Starts : \A i \in 1 .. Len(asked'[t]) : Request(asked'[t][i]) = t
  BY <1>4, <1>6, <1>7
<1> QED BY <1>4, <1>8, <1>9

\* The oldest message on a stream is answered.  If a call that owns its answer has
\* the entry, the message is its own.
LEMMA ResolvedKeeps ==
  ASSUME IInv, NEW r \in Starts, NEW result \in {"ok", "error"}, asked[r] # <<>>,
         Resolved(r, result), place' = place,
         answers' = [answers EXCEPT ![Head(asked[r])] = result],
         UNCHANGED session, over' \subseteq Starts,
         asked' \in [Starts -> Seq(Calls)],
         \A t \in Starts : \A i \in 1 .. Len(asked'[t]) : Request(asked'[t][i]) = t,
         AskedInv'
  PROVE  IInv'
<1> DEFINE h == Head(asked[r])
           e == entry[r]
<1>1. /\ place \in [Calls -> {"idle"} \cup Suspended \cup Ended]
      /\ entry \in [Starts -> Calls \cup {Nobody}]
      /\ future \in [Calls -> {"none", "pending", "ok", "error", "closed"}]
      /\ answers \in [Calls -> {"none", "ok", "error"}]
      /\ asked[r] \in Seq(Calls)
  BY DEF IInv, TypeOK
<1>2. h \in Calls /\ h = asked[r][1] /\ 1 \in 1 .. Len(asked[r])
  BY <1>1
<1>3. Request(h) = r /\ answers[h] = "none" /\ place[h] \notin {"idle", "opening"}
  BY <1>2 DEF IInv, TypeOK, AskedInv
<1>4. entry' = [entry EXCEPT ![r] = Nobody]
  BY DEF Resolved
<1>5. e # Nobody => e \in Calls /\ future[e] = "pending" /\ Request(e) = r
                    /\ future' = [future EXCEPT ![e] = result]
  BY <1>1 DEF Resolved, IInv, EntryInv, TypeOK
<1>6. e = Nobody => future' = future
  BY DEF Resolved
<1> HIDE DEF h, e
<1>7. \A d \in Calls : future'[d] = future[d] \/ (d = e /\ e # Nobody /\ future'[d] = result)
  BY <1>1, <1>5, <1>6
<1>8. answers'[h] = result /\ \A d \in Calls : d # h => answers'[d] = answers[d]
  BY <1>1, <1>2 DEF h
<1>9. TypeOK'
  <2>1. /\ entry' \in [Starts -> Calls \cup {Nobody}]
        /\ answers' \in [Calls -> {"none", "ok", "error"}]
    BY <1>1, <1>4 DEF h
  <2>2. future' \in [Calls -> {"none", "pending", "ok", "error", "closed"}]
    BY <1>1, <1>5, <1>6
  <2>3. \A d \in Calls : place'[d] = "idle" <=> future'[d] = "none"
    BY <1>5, <1>7 DEF IInv, TypeOK
  <2>4. \A t \in Starts : entry'[t] = Nobody \/ Request(entry'[t]) = t
    BY <1>1, <1>4 DEF IInv, TypeOK
  <2> QED BY <2>1, <2>2, <2>3, <2>4 DEF IInv, TypeOK, session
<1>10. \A d \in Calls : Own(d)' <=> Own(d)
  BY DEF Own, Alone
<1>11. FutureInv'
  <2> SUFFICES ASSUME NEW d \in Calls
               PROVE  /\ place'[d] = "answered" => future'[d] = "ok"
                      /\ place'[d] = "refused" => future'[d] = "error"
                      /\ Own(d) /\ future'[d] = "ok" => answers'[d] = "ok"
                      /\ Own(d) /\ future'[d] = "error" => answers'[d] = "error"
    BY <1>10 DEF FutureInv
  <2>1. CASE d = e /\ e # Nobody
    <3>1. future[d] = "pending" /\ entry[Request(d)] = d /\ future'[d] = result
      BY <1>1, <1>5, <2>1 DEF e
    <3>2. Own(d) => d = h
      BY <1>5, <2>1, <3>1, NextIsOwn DEF h
    <3>3. place[d] # "answered" /\ place[d] # "refused"
      BY <3>1 DEF IInv, FutureInv
    <3> QED BY <1>8, <3>1, <3>2, <3>3
  <2>2. CASE ~(d = e /\ e # Nobody)
    <3>1. future'[d] = future[d]
      BY <1>7, <2>2
    <3>2. CASE d # h
      BY <1>8, <3>1, <3>2 DEF IInv, FutureInv
    <3>3. CASE d = h
      BY <1>3, <3>1, <3>3 DEF IInv, FutureInv
    <3> QED BY <3>2, <3>3
  <2> QED BY <2>1, <2>2
<1>12. EntryInv'
  <2> SUFFICES ASSUME NEW t \in Starts, entry'[t] # Nobody PROVE future'[entry'[t]] = "pending"
    BY DEF EntryInv
  <2>1. t # r /\ entry'[t] = entry[t] /\ entry[t] \in Calls
    BY <1>1, <1>4
  <2>2. entry[t] # e \/ e = Nobody
    BY <1>5, <2>1 DEF IInv, TypeOK
  <2> QED BY <1>7, <2>1, <2>2 DEF IInv, EntryInv
<1>13. OrderInv' /\ UnaskedInv'
  BY <1>3, <1>8 DEF IInv, OrderInv, UnaskedInv
<1>14. WaitersKept'
  <2> SUFFICES ASSUME NEW d \in Calls, Own(d), place[d] \in Suspended, future'[d] = "pending"
               PROVE  entry'[Request(d)] = d
    BY <1>10 DEF WaitersKept
  <2>1. future[d] = "pending" /\ d # e
    <3>1. d # Nobody
      BY RequestType DEF Calls
    <3>2. d # e
      <4> SUFFICES ASSUME d = e PROVE FALSE
        OBVIOUS
      <4>1. future'[e] = result
        BY <1>1, <1>5, <3>1
      <4> QED BY <4>1
    <3> QED BY <1>7, <3>2
  <2>2. entry[Request(d)] = d /\ Request(d) \in Starts
    BY <2>1, RequestType DEF IInv, WaitersKept
  <2>3. Request(d) # r
    BY <2>1, <2>2 DEF e
  <2> QED BY <1>1, <1>4, <2>2, <2>3
<1>15. LeftBehind'
  BY <1>1, <1>4 DEF IInv, LeftBehind
<1> QED BY <1>9, <1>11, <1>12, <1>13, <1>14, <1>15 DEF IInv

\* The peer answers.
LEMMA AnswerKeeps ==
  ASSUME IInv, NEW r \in Starts, NEW result \in {"ok", "error"}, Answer(r, result)
  PROVE  IInv'
<1>1. /\ asked[r] # <<>> /\ asked' = [asked EXCEPT ![r] = Tail(asked[r])]
      /\ answers' = [answers EXCEPT ![Head(asked[r])] = result]
      /\ Resolved(r, result) /\ UNCHANGED session /\ place' = place /\ over' = over
  BY DEF Answer
<1>2. \A d \in Calls : answers'[d] = answers[d] \/ (asked[r] # <<>> /\ d = Head(asked[r]))
  BY <1>1 DEF IInv, TypeOK
<1>3. over' \subseteq Starts
  BY <1>1 DEF IInv, TypeOK
<1> DEFINE q == Tail(asked[r])
<1>4. q \in {Tail(asked[r]), <<>>} /\ asked' = [asked EXCEPT ![r] = q]
  BY <1>1
<1> HIDE DEF q
<1> QED BY <1>1, <1>2, <1>3, <1>4, ShortenedAsked, ResolvedKeeps, ZenonT(60)

\* The peer ends the stream of a request.
LEMMA PeerEndsKeeps ==
  ASSUME IInv, NEW r \in Starts, PeerEnds(r)
  PROVE  IInv'
<1> DEFINE q == <<>>
<1>1. /\ q \in {Tail(asked[r]), <<>>} /\ asked' = [asked EXCEPT ![r] = q]
      /\ UNCHANGED session /\ place' = place /\ over' \subseteq Starts
  BY DEF PeerEnds, IInv, TypeOK
<1>2. \A d \in Calls : answers'[d] = answers[d] \/ (asked[r] # <<>> /\ d = Head(asked[r]))
  BY DEF PeerEnds, IInv, TypeOK
<1>3. /\ asked' \in [Starts -> Seq(Calls)]
      /\ \A t \in Starts : \A i \in 1 .. Len(asked'[t]) : Request(asked'[t][i]) = t
      /\ AskedInv'
  BY <1>1, <1>2, ShortenedAsked
<1>4. CASE UNCHANGED <<entry, future, answers>>
  <2>1. TypeOK'
    BY <1>1, <1>3, <1>4 DEF IInv, TypeOK, session
  <2>2. FutureInv' /\ EntryInv' /\ OrderInv' /\ UnaskedInv'
    BY <1>1, <1>4 DEF IInv, FutureInv, EntryInv, OrderInv, UnaskedInv, Own, Alone
  <2>3. WaitersKept' /\ LeftBehind'
    BY <1>1, <1>4 DEF IInv, WaitersKept, LeftBehind, Own, Alone
  <2> QED BY <1>3, <2>1, <2>2, <2>3 DEF IInv
<1>5. CASE ~UNCHANGED <<entry, future, answers>>
  <2>1. /\ asked[r] # <<>> /\ Resolved(r, "error")
        /\ answers' = [answers EXCEPT ![Head(asked[r])] = "error"]
    BY <1>5 DEF PeerEnds
  <2> QED BY <1>1, <1>3, <2>1, ResolvedKeeps
<1> QED BY <1>4, <1>5

\* The session ends: every entered future gets a result, and none stays entered.
LEMMA FinishKeeps ==
  ASSUME IInv, SessionEnds \/ Tick
  PROVE  IInv'
<1>1. /\ Finish /\ core_closed' \in BOOLEAN /\ left' = left
      /\ UNCHANGED <<place, asked, over, answers>>
  BY DEF SessionEnds, Tick, IInv, TypeOK
<1>2. future' = Released /\ closed' = TRUE /\ entry' = [r \in Starts |-> Nobody]
  BY <1>1 DEF Finish
<1>3. \A d \in Calls : \/ future'[d] = future[d]
                       \/ entry[Request(d)] = d /\ future[d] = "pending" /\ future'[d] = "closed"
  BY <1>2 DEF Released
<1>4. \A d \in Calls : Own(d)' <=> Own(d)
  BY <1>1 DEF Own, Alone
<1>5. TypeOK'
  <2>1. future' \in [Calls -> {"none", "pending", "ok", "error", "closed"}]
    BY <1>2 DEF Released, IInv, TypeOK
  <2>2. entry' \in [Starts -> Calls \cup {Nobody}] /\ \A t \in Starts : entry'[t] = Nobody
    BY <1>2
  <2>3. \A d \in Calls : place'[d] = "idle" <=> future'[d] = "none"
    BY <1>1, <1>3 DEF IInv, TypeOK
  <2> QED BY <1>1, <1>2, <2>1, <2>2, <2>3 DEF IInv, TypeOK
<1>6. FutureInv'
  BY <1>1, <1>3, <1>4 DEF IInv, FutureInv
<1>7. EntryInv' /\ LeftBehind'
  BY <1>2 DEF EntryInv, LeftBehind
<1>8. AskedInv' /\ OrderInv' /\ UnaskedInv'
  BY <1>1 DEF IInv, AskedInv, OrderInv, UnaskedInv
<1>9. WaitersKept'
  <2> SUFFICES ASSUME NEW d \in Calls, Own(d), place[d] \in Suspended, future'[d] = "pending"
               PROVE  FALSE
    BY <1>1, <1>4 DEF WaitersKept
  <2>1. future[d] = "pending" /\ Request(d) \in Starts
    BY <1>3, RequestType
  <2>2. entry[Request(d)] = d
    BY <2>1 DEF IInv, WaitersKept
  <2>3. future'[d] = "closed"
    BY <1>2, <2>1, <2>2 DEF Released
  <2> QED BY <2>3
<1> QED BY <1>5, <1>6, <1>7, <1>8, <1>9 DEF IInv

\* Steps that touch nothing but the state of the session.
LEMMA OthersKeep ==
  ASSUME IInv, ReceiveFails \/ Close \/ UNCHANGED vars
  PROVE  IInv'
<1>1. UNCHANGED <<entry, future, place, asked, over, answers>>
  BY DEF ReceiveFails, Close, vars
<1>2. core_closed' \in BOOLEAN /\ closed' \in BOOLEAN /\ left' \in BOOLEAN
  BY DEF ReceiveFails, Close, vars, IInv, TypeOK
<1>3. TypeOK'
  BY <1>1, <1>2 DEF IInv, TypeOK
<1>4. FutureInv' /\ EntryInv' /\ AskedInv' /\ OrderInv' /\ UnaskedInv'
  BY <1>1 DEF IInv, FutureInv, EntryInv, AskedInv, OrderInv, UnaskedInv, Own, Alone
<1>5. WaitersKept' /\ LeftBehind'
  BY <1>1 DEF IInv, WaitersKept, LeftBehind, Own, Alone
<1> QED BY <1>3, <1>4, <1>5 DEF IInv

\* Every step keeps the invariant.
LEMMA NextKeeps == IInv /\ [Next]_vars => IInv'
<1> SUFFICES ASSUME IInv, [Next]_vars PROVE IInv'
  OBVIOUS
<1>1. CASE \E c \in Starts : Start(c) \/ StreamOpened(c)
  BY <1>1, StartKeeps, StreamOpenedKeeps
<1>2. CASE \E c \in Updates : Update(c)
  BY <1>2, UpdateKeeps
<1>3. CASE \E c \in Calls : Raises(c) \/ Cancel(c) \/ Sent(c) \/ Resume(c)
  BY <1>3, AreMoves, MovesKeep
<1>4. CASE \E r \in Starts, result \in {"ok", "error"} : Answer(r, result)
  BY <1>4, AnswerKeeps
<1>5. CASE \E r \in Starts : PeerEnds(r)
  BY <1>5, PeerEndsKeeps
<1>6. CASE SessionEnds \/ Tick
  BY <1>6, FinishKeeps
<1>7. CASE ReceiveFails \/ Close \/ UNCHANGED vars
  BY <1>7, OthersKeep
<1> QED BY <1>1, <1>2, <1>3, <1>4, <1>5, <1>6, <1>7 DEF Next

-----------------------------------------------------------------------------
(* The theorems.                                                           *)

\* The invariant holds always.
THEOREM Invariant == Spec => []IInv
BY InitInv, NextKeeps, PTL DEF Spec

\* Types; a future is made for every call and filed under its own request.
THEOREM TypeCorrect == Spec => []TypeOK
<1>1. IInv => TypeOK
  BY DEF IInv
<1> QED BY <1>1, Invariant, PTL

\* Answers carry no Request ID, and yet a call that returns or is refused has got
\* the peer's own answer to it, for any number of requests under way.
THEOREM AnswersAreOwn == Spec => []AnsweredByOwn
<1>1. IInv => AnsweredByOwn
  BY DEF IInv, FutureInv, AnsweredByOwn
<1> QED BY <1>1, Invariant, PTL

\* No answer and no end of the session passes a call by.
THEOREM WaitersAreKept == Spec => []WaitersKept
<1>1. IInv => WaitersKept
  BY DEF IInv
<1> QED BY <1>1, Invariant, PTL

\* Only a start that did not get to its wait leaves its entry behind.
THEOREM OnlyFailedStartsStay == Spec => []LeftBehind
<1>1. IInv => LeftBehind
  BY DEF IInv
<1> QED BY <1>1, Invariant, PTL

\* Who waits has an entry, and who is done has none.
THEOREM EntriesDoAgree == Spec => []EntriesAgree
<1>1. WaitersKept /\ LeftBehind => EntriesAgree
  BY DEF EntriesAgree
<1> QED BY <1>1, WaitersAreKept, OnlyFailedStartsStay, PTL
=============================================================================
