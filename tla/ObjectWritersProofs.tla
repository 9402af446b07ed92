-------------------------- MODULE ObjectWritersProofs --------------------------
(***************************************************************************)
(* Proofs about ObjectWriters, for any number of tasks, requests, streams  *)
(* and objects.                                                            *)
(***************************************************************************)
EXTENDS ObjectWriters, ObjectEncoding, SequenceTheorems, WellFoundedInduction, TLAPS

USE WritersAssumption DEF WritersAssumption, Fetches, Streams

-----------------------------------------------------------------------------
(* The inductive invariant.                                                *)

Requests == Subscriptions \cup Fetches
Kinds == Headers \cup {Nothing}
Opened1 == 1 .. opened
Places == {"idle", "replacing", "opening", "header", "writing", "ending"}

Calls == [at: Places, request: Requests \cup {Nothing}, stream: Streams \cup {Nothing},
          location: Locations \cup {Nothing}, kind: Kinds, delta: Nat \cup {Nothing}]

\* What is asked for and what is read.
Items == [location: Locations, kind: Kinds]
Read == [location: Int \X Int, kind: Kinds]

Types ==
  /\ opened \in 0 .. MaxStreams
  /\ header \in [Streams -> [request: Requests, kind: Kinds, group: Groups \cup {Nothing}]
                              \cup {Nothing}]
  /\ \A s \in Streams : header[s] = Nothing <=> s > opened
  /\ subgroups \in [Subscriptions -> Streams \cup {Nothing}]
  /\ fetch_streams \subseteq Streams
  /\ last \in [Streams -> Locations \cup {Nothing}]
  /\ ended \in [Streams -> {"no", "fin", "reset"}]
  /\ core_open \subseteq Streams
  /\ task \in [Tasks -> Calls]
  /\ asked \in [Streams -> Seq(Items)]
  /\ decoded \in [Streams -> Seq(Read)]
  /\ \A s \in Streams : Len(decoded[s]) = Len(asked[s])
  /\ stale \subseteq Streams /\ cut \subseteq Streams /\ crossed \subseteq Subscriptions

Open(s) == s \in Streams /\ s <= opened

\* Only streams that were opened are registered, counted or written.
OpenedInv ==
  /\ fetch_streams \cup core_open \subseteq Opened1
  /\ \A r \in Subscriptions : subgroups[r] # Nothing => Open(subgroups[r])
  /\ \A t \in Tasks : /\ task[t].stream # Nothing => Open(task[t].stream)
                      /\ task[t].at \in {"replacing", "header", "writing", "ending"} =>
                           task[t].stream # Nothing
  /\ \A s \in Streams : s > opened => asked[s] = <<>> /\ last[s] = Nothing /\ ended[s] = "no"

\* What a call that opens a stream carries with it.
CallInv ==
  \A t \in Tasks :
    /\ task[t].at \in {"replacing", "opening", "header"} => task[t].request \in Requests
    /\ task[t].at \in {"replacing", "opening", "header"} /\ task[t].request \in Subscriptions =>
         task[t].location \in Locations /\ task[t].kind \in Headers
         /\ task[t].delta = task[t].location[2]
    /\ task[t].at \in {"opening", "header"} /\ task[t].request \in Fetches =>
         task[t].kind = Nothing
    /\ task[t].at = "replacing" => task[t].request \in Subscriptions

\* The header of a subgroup stream names its group and its kind.
HeadersInv ==
  \A s \in Opened1 :
    /\ header[s].request \in Subscriptions =>
         header[s].group \in Groups /\ header[s].kind \in Headers
    /\ header[s].request \in Fetches => header[s].kind = Nothing

\* A stream whose header is being written is the business of one call.
NewInv ==
  \A t \in Tasks : task[t].at = "header" =>
    LET s == task[t].stream IN
    /\ header[s].request = task[t].request
    /\ task[t].request \in Subscriptions =>
         header[s].group = task[t].location[1] /\ header[s].kind = task[t].kind
    /\ asked[s] = <<>> /\ last[s] = Nothing /\ ended[s] = "no"
    /\ s \notin fetch_streams /\ \A r \in Subscriptions : subgroups[r] # s
    /\ \A u \in Tasks : task[u].at \in {"header", "writing"} /\ task[u].stream = s => u = t

\* A stream that is registered has not ended, and is of that request.
RegisteredInv ==
  /\ \A r \in Subscriptions : subgroups[r] # Nothing =>
       header[subgroups[r]].request = r /\ ended[subgroups[r]] = "no"
  /\ \A s \in fetch_streams : header[s].request \in Fetches /\ ended[s] = "no"

\* A FIN that is being written has been given to the transport.
FinInv ==
  \A t \in Tasks : task[t].at \in {"replacing", "ending"} => ended[task[t].stream] # "no"

\* Calls that do not cross open one stream at a time, when none is registered.
OneOpener ==
  \A r \in Subscriptions \ crossed : \A t \in Openers(r) :
    subgroups[r] = Nothing /\ \A u \in Openers(r) : u = t

\* The session counts a stream as open until its end.
CountedInv == \A s \in Opened1 : ended[s] = "no" => s \in core_open

\* The last object that was asked for.
LastAsked(s) == IF asked[s] = <<>> THEN Nothing ELSE asked[s][Len(asked[s])].location

\* On a subgroup stream the differences start from the object that was sent last.
SubgroupInv ==
  \A s \in Opened1 : header[s].request \in Subscriptions =>
    /\ decoded[s] = asked[s]
    /\ last[s] = LastAsked(s)
    /\ \A i, j \in 1 .. Len(asked[s]) :
         i < j => asked[s][i].location[2] < asked[s][j].location[2]

Writers(s) == {t \in Tasks : task[t].at = "writing" /\ task[t].stream = s}

\* On a fetch stream the one call that writes has the base of the next difference.
FetchOf(s) ==
  /\ asked[s] = <<>> => last[s] = Nothing /\ Writers(s) = {}
  /\ \A t \in Writers(s) : task[t].location \in Locations
  /\ s \notin stale =>
       /\ decoded[s] = asked[s]
       /\ \A t \in Writers(s) :
            task[t].location = LastAsked(s) /\ \A u \in Writers(s) : u = t
       /\ Writers(s) = {} => last[s] = LastAsked(s)

FetchInv == \A s \in Opened1 : header[s].request \in Fetches => FetchOf(s)

IInv ==
  /\ Types /\ OpenedInv /\ CallInv /\ HeadersInv /\ NewInv /\ RegisteredInv /\ FinInv
  /\ OneOpener /\ CountedInv /\ SubgroupInv /\ FetchInv /\ NoStreamLeft /\ SessionAgrees

\* The invariant holds at first.
LEMMA InitInv == Init => IInv
<1> SUFFICES ASSUME Init PROVE IInv
  OBVIOUS
<1>1. /\ opened = 0 /\ subgroups = [r \in Subscriptions |-> Nothing]
      /\ fetch_streams = {} /\ core_open = {} /\ stale = {} /\ cut = {} /\ crossed = {}
      /\ \A t \in Tasks : task[t] = Idle
      /\ \A s \in Streams : /\ header[s] = Nothing /\ last[s] = Nothing /\ ended[s] = "no"
                            /\ asked[s] = <<>> /\ decoded[s] = <<>>
      /\ Opened1 = {} /\ ~\E s \in Streams : s <= opened
  BY DEF Init, Opened1
<1>2. Idle \in Calls /\ Idle.at = "idle" /\ Idle.stream = Nothing
  BY DEF Idle, Calls, Places, Kinds
<1>3. Types
  <2>1. <<>> \in Seq(Items) /\ <<>> \in Seq(Read)
    OBVIOUS
  <2> QED BY <1>1, <1>2, <2>1 DEF Init, Types
<1>4. OpenedInv /\ CallInv /\ HeadersInv /\ NewInv /\ RegisteredInv /\ FinInv /\ OneOpener
  BY <1>1, <1>2 DEF OpenedInv, CallInv, HeadersInv, NewInv, RegisteredInv, FinInv, OneOpener,
                    Openers
<1>5. CountedInv /\ SubgroupInv /\ FetchInv /\ NoStreamLeft /\ SessionAgrees
  BY <1>1 DEF CountedInv, SubgroupInv, FetchInv, FetchOf, NoStreamLeft, SessionAgrees, Subgroups, Opened1
<1> QED BY <1>3, <1>4, <1>5 DEF IInv

\* The types of the model and its properties follow.
LEMMA Parts ==
  ASSUME IInv
  PROVE  TypeOK /\ PeerDecodes /\ OpenStreamsKnown
<1>1. TypeOK
  <2>1. \A s \in Streams : s \in 1 .. opened => header[s] # Nothing
    BY DEF IInv, Types
  <2>2. \A s \in 1 .. opened : s \in Streams
    BY DEF IInv, Types
  <2>3. \A s \in 1 .. opened :
          header[s] \in [request: Subscriptions \cup Fetches, kind: Headers \cup {Nothing},
                        group: Groups \cup {Nothing}]
    BY <2>1, <2>2 DEF IInv, Types, Requests, Kinds
  <2>4. subgroups \in [Subscriptions -> (1 .. opened) \cup {Nothing}]
    BY DEF IInv, Types, OpenedInv, Open
  <2>5. task \in [Tasks ->
          [at: {"idle", "replacing", "opening", "header", "writing", "ending"},
           request: Subscriptions \cup Fetches \cup {Nothing},
           stream: (1 .. opened) \cup {Nothing}, location: Locations \cup {Nothing},
           kind: Headers \cup {Nothing}, delta: Nat \cup {Nothing}]]
    <3>1. ASSUME NEW t \in Tasks
          PROVE  task[t].stream \in (1 .. opened) \cup {Nothing} /\ task[t] \in Calls
      BY DEF IInv, Types, OpenedInv, Open, Calls
    <3> QED BY <3>1 DEF IInv, Types, Calls, Places, Requests, Kinds
  <2>6. asked \in [Streams -> Seq([location: Locations, kind: Headers \cup {Nothing}])]
    BY DEF IInv, Types, Items, Kinds
  <2> QED BY <2>3, <2>4, <2>5, <2>6 DEF IInv, Types, OpenedInv, Opened1, TypeOK
<1>2. PeerDecodes
  BY DEF IInv, SubgroupInv, FetchInv, FetchOf, PeerDecodes, SubgroupsDecode, FetchesDecode, Subgroups,
         Opened1
<1> QED BY <1>1, <1>2 DEF IInv, OpenStreamsKnown


-----------------------------------------------------------------------------
(* What the steps do, in general.                                          *)

\* One call goes on.
LEMMA TaskChanges ==
  ASSUME Types, NEW t \in Tasks, NEW new \in Calls, task' = [task EXCEPT ![t] = new]
  PROVE  /\ task' \in [Tasks -> Calls] /\ task'[t] = new
         /\ \A u \in Tasks \ {t} : task'[u] = task[u]
BY DEF Types

LEMMA IdleCall == Idle \in Calls /\ Idle.at = "idle" /\ Idle.stream = Nothing
BY DEF Idle, Calls, Places, Kinds

\* A call that waits for the write of an object or of a FIN.
LEMMA WaitingCall ==
  ASSUME NEW at \in {"writing", "ending"}, NEW s \in Streams,
         NEW location \in Locations \cup {Nothing}
  PROVE  LET new == [Idle EXCEPT !.at = at, !.stream = s, !.location = location] IN
         new \in Calls /\ new.at = at /\ new.stream = s /\ new.location = location
         /\ new.request = Nothing /\ new.kind = Nothing /\ new.delta = Nothing
BY DEF Idle, Calls, Places, Kinds

\* The parts of the invariant that speak of the content of streams.
ContentInv == SubgroupInv /\ FetchInv

\* A call leaves its place, and writes no object: what is sent does not change.
LEMMA ContentKept ==
  ASSUME IInv, NEW t \in Tasks, NEW new \in Calls, task' = [task EXCEPT ![t] = new],
         task[t].at # "writing", new.at # "writing",
         UNCHANGED <<opened, header, last, asked, decoded, stale>>
  PROVE  ContentInv'
<1>1. /\ task'[t] = new /\ \A u \in Tasks \ {t} : task'[u] = task[u]
  BY TaskChanges DEF IInv
<1>2. \A s \in Streams : Writers(s)' = Writers(s)
  BY <1>1 DEF Writers
<1>3. \A s \in Streams : LastAsked(s)' = LastAsked(s)
  BY DEF LastAsked
<1>4. Opened1' = Opened1 /\ Opened1 \subseteq Streams
  BY DEF Opened1, IInv, Types
<1>5. SubgroupInv'
  BY <1>3, <1>4 DEF IInv, SubgroupInv
<1>6. FetchInv'
  <2>1. \A s \in Streams : \A u \in Writers(s) : u # t /\ u \in Tasks
    BY DEF Writers
  <2> QED BY <1>1, <1>2, <1>3, <1>4, <2>1 DEF IInv, FetchInv, FetchOf
<1> QED BY <1>5, <1>6 DEF ContentInv

-----------------------------------------------------------------------------
(* Ends of streams.                                                        *)

LEMMA ReplacedInv ==
  ASSUME IInv, NEW t \in Tasks, Replaced(t)
  PROVE  IInv'
<1> DEFINE new == [task[t] EXCEPT !.at = "opening", !.stream = Nothing]
<1>1. /\ task[t].at = "replacing" /\ task[t] \in Calls
      /\ core_open' = core_open \ {task[t].stream}
      /\ UNCHANGED <<opened, header, subgroups, fetch_streams, last, ended, asked, decoded,
                     stale, cut, crossed>>
  BY DEF Replaced, content, observers, IInv, Types
<1>2. /\ task' = [task EXCEPT ![t] = new] /\ new \in Calls
      /\ new.at = "opening" /\ new.stream = Nothing /\ new.request = task[t].request
      /\ new.location = task[t].location /\ new.kind = task[t].kind
      /\ new.delta = task[t].delta
  BY <1>1 DEF Replaced, Calls, Places, IInv, Types
<1> HIDE DEF new
<1>3. /\ task' \in [Tasks -> Calls] /\ task'[t] = new
      /\ \A u \in Tasks \ {t} : task'[u] = task[u]
  BY <1>2, TaskChanges DEF IInv
<1>4. Types'
  BY <1>1, <1>3 DEF IInv, Types
<1>5. OpenedInv' /\ CallInv' /\ HeadersInv'
  BY <1>1, <1>2, <1>3 DEF IInv, OpenedInv, CallInv, HeadersInv, Open, Opened1
<1>6. NewInv' /\ RegisteredInv' /\ FinInv'
  BY <1>1, <1>2, <1>3 DEF IInv, NewInv, RegisteredInv, FinInv
<1>7. OneOpener'
  <2>1. \A r \in Subscriptions : Openers(r)' = Openers(r)
    BY <1>1, <1>2, <1>3 DEF Openers
  <2> QED BY <1>1, <2>1 DEF IInv, OneOpener
<1>8. CountedInv'
  BY <1>1 DEF IInv, CountedInv, FinInv, Opened1
<1>9. ContentInv'
  BY <1>1, <1>2, ContentKept
<1>10. NoStreamLeft'
  BY <1>1, <1>2, <1>3 DEF IInv, NoStreamLeft, Subgroups
<1>11. SessionAgrees'
  BY <1>1, <1>2, <1>3, <1>8 DEF IInv, SessionAgrees, CountedInv, Opened1
<1> QED BY <1>4, <1>5, <1>6, <1>7, <1>8, <1>9, <1>10, <1>11 DEF IInv, ContentInv

LEMMA EndWrittenInv ==
  ASSUME IInv, NEW t \in Tasks, EndWritten(t)
  PROVE  IInv'
<1>1. /\ task[t].at = "ending" /\ task' = [task EXCEPT ![t] = Idle]
      /\ core_open' = core_open \ {task[t].stream}
      /\ UNCHANGED <<opened, header, subgroups, fetch_streams, last, ended, asked, decoded,
                     stale, cut, crossed>>
  BY DEF EndWritten, content, observers
<1>2. /\ task' \in [Tasks -> Calls] /\ task'[t] = Idle
      /\ \A u \in Tasks \ {t} : task'[u] = task[u]
  BY <1>1, IdleCall, TaskChanges DEF IInv
<1>3. Types'
  BY <1>1, <1>2 DEF IInv, Types
<1>4. OpenedInv' /\ CallInv' /\ HeadersInv'
  BY <1>1, <1>2, IdleCall DEF IInv, OpenedInv, CallInv, HeadersInv, Open, Opened1
<1>5. NewInv' /\ RegisteredInv' /\ FinInv'
  BY <1>1, <1>2, IdleCall DEF IInv, NewInv, RegisteredInv, FinInv
<1>6. OneOpener'
  <2>1. \A r \in Subscriptions : Openers(r)' = Openers(r)
    BY <1>1, <1>2, IdleCall DEF Openers
  <2> QED BY <1>1, <2>1 DEF IInv, OneOpener
<1>7. CountedInv'
  BY <1>1 DEF IInv, CountedInv, FinInv, Opened1
<1>8. ContentInv'
  BY <1>1, IdleCall, ContentKept
<1>9. NoStreamLeft'
  BY <1>1, <1>2, IdleCall DEF IInv, NoStreamLeft, Subgroups
<1>10. SessionAgrees'
  BY <1>1, <1>2, <1>7 DEF IInv, SessionAgrees, CountedInv, Opened1
<1> QED BY <1>3, <1>4, <1>5, <1>6, <1>7, <1>8, <1>9, <1>10 DEF IInv, ContentInv


\* A stream that is registered ends with a FIN, which the call waits for.
LEMMA EndsInv ==
  ASSUME IInv, NEW t \in Tasks,
         (\E r \in Subscriptions : FinishSubgroup(t, r)) \/ (\E s \in Streams : CloseFetch(t, s))
  PROVE  IInv'
<1>1. PICK s \in Streams :
        /\ task[t] = Idle /\ s <= opened /\ ended[s] = "no"
        /\ ended' = [ended EXCEPT ![s] = "fin"]
        /\ task' = [task EXCEPT ![t] = [Idle EXCEPT !.at = "ending", !.stream = s]]
        /\ \/ \E r \in Subscriptions : /\ subgroups[r] = s /\ header[s].request = r
                                       /\ subgroups' = [subgroups EXCEPT ![r] = Nothing]
                                       /\ fetch_streams' = fetch_streams
           \/ /\ header[s].request \in Fetches /\ subgroups' = subgroups
              /\ s \in fetch_streams /\ fetch_streams' = fetch_streams \ {s}
        /\ UNCHANGED <<opened, header, last, core_open, asked, decoded, stale, cut, crossed>>
  <2>1. CASE \E r \in Subscriptions : FinishSubgroup(t, r)
    <3>1. PICK r \in Subscriptions : FinishSubgroup(t, r)
      BY <2>1
    <3>2. subgroups[r] \in Streams /\ subgroups[r] <= opened
      BY <3>1 DEF FinishSubgroup, IInv, Types, OpenedInv, Open
    <3>3. header[subgroups[r]].request = r /\ ended[subgroups[r]] = "no"
      BY <3>1 DEF FinishSubgroup, IInv, RegisteredInv
    <3> QED BY <3>1, <3>2, <3>3 DEF FinishSubgroup, content, observers
  <2>2. CASE \E s \in Streams : CloseFetch(t, s)
    <3>1. PICK s \in Streams : CloseFetch(t, s)
      BY <2>2
    <3>2. s <= opened /\ header[s].request \in Fetches /\ ended[s] = "no"
      <4>1. s \in fetch_streams
        BY <3>1 DEF CloseFetch
      <4>2. s \in 1 .. opened
        BY <4>1 DEF IInv, OpenedInv, Opened1
      <4>3. header[s].request \in Fetches /\ ended[s] = "no"
        BY <4>1 DEF IInv, RegisteredInv
      <4> QED BY <4>2, <4>3
    <3> QED BY <3>1, <3>2 DEF CloseFetch, content, observers
  <2> QED BY <2>1, <2>2
<1> DEFINE new == [Idle EXCEPT !.at = "ending", !.stream = s]
<1>2. new \in Calls /\ new.at = "ending" /\ new.stream = s
  BY DEF Idle, Calls, Places, Kinds
<1>3. task' = [task EXCEPT ![t] = new]
  BY <1>1
<1> HIDE DEF new
<1>4. /\ task' \in [Tasks -> Calls] /\ task'[t] = new
      /\ \A u \in Tasks \ {t} : task'[u] = task[u]
  BY <1>2, <1>3, TaskChanges DEF IInv
<1>5. /\ ended'[s] = "fin" /\ \A q \in Streams \ {s} : ended'[q] = ended[q]
      /\ ended' \in [Streams -> {"no", "fin", "reset"}]
      /\ subgroups' \in [Subscriptions -> Streams \cup {Nothing}]
      /\ \A r \in Subscriptions : \/ subgroups'[r] = subgroups[r] /\ subgroups[r] # s
                                  \/ subgroups'[r] = Nothing /\ header[s].request = r
      /\ \A q \in Streams : q \in fetch_streams' <=> q \in fetch_streams /\ q # s
  BY <1>1 DEF IInv, Types, RegisteredInv
<1>6. Types'
  BY <1>1, <1>4, <1>5 DEF IInv, Types
<1>7. OpenedInv' /\ CallInv' /\ HeadersInv'
  BY <1>1, <1>2, <1>4, <1>5, <1>6 DEF IInv, Types, OpenedInv, CallInv, HeadersInv, Open, Opened1
<1>8. NewInv'
  BY <1>1, <1>2, <1>4, <1>5, SMTT(30) DEF IInv, Types, NewInv, OpenedInv, Open
<1>9. RegisteredInv'
  BY <1>1, <1>5, <1>6 DEF IInv, RegisteredInv, Types
<1>10. FinInv'
  BY <1>1, <1>2, <1>4, <1>5 DEF IInv, Types, FinInv, OpenedInv, Open
<1>11. OneOpener'
  <2>1. \A r \in Subscriptions : Openers(r)' = Openers(r)
    BY <1>1, <1>2, <1>4, IdleCall DEF Openers
  <2> QED BY <1>1, <1>5, <2>1 DEF IInv, OneOpener
<1>12. CountedInv'
  BY <1>1, <1>5 DEF IInv, Types, CountedInv, Opened1
<1>13. ContentInv'
  BY <1>1, <1>2, <1>3, IdleCall, ContentKept
<1>14. NoStreamLeft'
  BY <1>1, <1>2, <1>4, <1>5, IdleCall DEF IInv, Types, NoStreamLeft, Subgroups
<1>15. SessionAgrees'
  BY <1>1, <1>2, <1>4, <1>5, <1>12, IdleCall DEF IInv, Types, SessionAgrees, CountedInv, Opened1
<1> QED BY <1>6, <1>7, <1>8, <1>9, <1>10, <1>11, <1>12, <1>13, <1>14, <1>15 DEF IInv, ContentInv

LEMMA ResetSubgroupInv ==
  ASSUME IInv, NEW r \in Subscriptions, ResetSubgroup(r)
  PROVE  IInv'
<1> DEFINE s == subgroups[r]
<1>1. /\ s \in Streams /\ s <= opened /\ header[s].request = r /\ ended[s] = "no"
      /\ subgroups' = [subgroups EXCEPT ![r] = Nothing]
      /\ core_open' = core_open \ {s} /\ ended' = [ended EXCEPT ![s] = "reset"]
      /\ UNCHANGED <<opened, header, fetch_streams, last, task, asked, decoded, stale, cut,
                     crossed>>
  BY DEF ResetSubgroup, content, observers, IInv, Types, RegisteredInv, OpenedInv, Open
<1>2. /\ ended'[s] = "reset" /\ \A q \in Streams \ {s} : ended'[q] = ended[q]
      /\ ended' \in [Streams -> {"no", "fin", "reset"}]
      /\ subgroups' \in [Subscriptions -> Streams \cup {Nothing}]
      /\ subgroups'[r] = Nothing
      /\ \A q \in Subscriptions \ {r} : subgroups'[q] = subgroups[q] /\ subgroups[q] # s
  BY <1>1 DEF IInv, Types, RegisteredInv
<1>3. s \notin fetch_streams
  BY <1>1 DEF IInv, RegisteredInv
<1>4. \A t \in Tasks : task[t].at = "header" => task[t].stream # s
  BY DEF IInv, NewInv
<1> HIDE DEF s
<1>5. Types'
  BY <1>1, <1>2 DEF IInv, Types
<1>6. OpenedInv' /\ CallInv' /\ HeadersInv'
  <2>1. OpenedInv'
    <3>1. \A q \in Streams : q > opened => q # s
      BY <1>1 DEF IInv, Types
    <3>2. \A q \in Subscriptions : subgroups'[q] # Nothing =>
           subgroups'[q] \in Streams /\ subgroups'[q] <= opened'
      BY <1>1, <1>2 DEF IInv, OpenedInv, Open
    <3> QED BY <1>1, <1>2, <3>1, <3>2 DEF IInv, OpenedInv, Open, Opened1
  <2>2. CallInv' /\ HeadersInv'
    BY <1>1 DEF IInv, CallInv, HeadersInv, Opened1
  <2> QED BY <2>1, <2>2
<1>7. NewInv' /\ RegisteredInv' /\ FinInv'
  <2>1. NewInv'
    BY <1>1, <1>2, <1>4 DEF IInv, NewInv, OpenedInv, Open
  <2>2. RegisteredInv'
    BY <1>1, <1>2, <1>3 DEF IInv, Types, RegisteredInv
  <2>3. FinInv'
    BY <1>1, <1>2 DEF IInv, Types, FinInv, OpenedInv, Open
  <2> QED BY <2>1, <2>2, <2>3
<1>8. OneOpener'
  <2>1. \A q \in Subscriptions : Openers(q)' = Openers(q)
    BY <1>1 DEF Openers
  <2> QED BY <1>1, <1>2, <2>1 DEF IInv, OneOpener
<1>9. CountedInv'
  BY <1>1, <1>2 DEF IInv, Types, CountedInv, Opened1
<1>10. ContentInv'
  <2>1. \A q \in Streams : Writers(q)' = Writers(q) /\ LastAsked(q)' = LastAsked(q)
    BY <1>1 DEF Writers, LastAsked
  <2>2. \A q \in Opened1 : q \in Streams
    BY DEF Opened1, IInv, Types
  <2>3. SubgroupInv'
    BY <1>1, <2>1, <2>2 DEF IInv, SubgroupInv, Opened1
  <2>4. \A q \in Opened1 : FetchOf(q) => FetchOf(q)'
    BY <1>1, <2>1, <2>2 DEF FetchOf
  <2> QED BY <1>1, <2>3, <2>4 DEF IInv, ContentInv, FetchInv, Opened1
<1>11. NoStreamLeft' /\ SessionAgrees'
  <2>1. NoStreamLeft'
    <3>1. \A q \in Subgroups : q \in Streams
      BY DEF Subgroups, IInv, Types
    <3>2. Subgroups' = Subgroups
      BY <1>1 DEF Subgroups
    <3>3. ASSUME NEW q \in Subgroups \ cut, ended'[q] = "no"
          PROVE  ended[q] = "no" /\ q # s
      BY <1>2, <3>1, <3>3
    <3>4. \A q \in Subgroups : subgroups[header[q].request] = q /\ q # s =>
                                subgroups'[header[q].request] = q
      BY <1>1, <1>2 DEF Subgroups, s
    <3> QED BY <1>1, <3>2, <3>3, <3>4 DEF IInv, NoStreamLeft
  <2>2. SessionAgrees'
    BY <1>1, <1>2, <1>9 DEF IInv, SessionAgrees, CountedInv, Opened1
  <2> QED BY <2>1, <2>2
<1> QED BY <1>5, <1>6, <1>7, <1>8, <1>9, <1>10, <1>11 DEF IInv, ContentInv

-----------------------------------------------------------------------------
(* Streams are opened.                                                     *)

LEMMA OpenFetchInv ==
  ASSUME IInv, NEW t \in Tasks, NEW r \in Fetches, OpenFetch(t, r)
  PROVE  IInv'
<1> DEFINE new == [Idle EXCEPT !.at = "opening", !.request = r]
<1>1. /\ task[t] = Idle /\ task' = [task EXCEPT ![t] = new]
      /\ UNCHANGED <<opened, header, subgroups, fetch_streams, last, ended, core_open, asked,
                     decoded, stale, cut, crossed>>
  BY DEF OpenFetch, content, observers
<1>2. new \in Calls /\ new.at = "opening" /\ new.request = r /\ new.stream = Nothing
      /\ new.kind = Nothing
  BY DEF Idle, Calls, Places, Kinds, Requests
<1> HIDE DEF new
<1>3. /\ task' \in [Tasks -> Calls] /\ task'[t] = new
      /\ \A u \in Tasks \ {t} : task'[u] = task[u]
  BY <1>1, <1>2, TaskChanges DEF IInv
<1>4. Types' /\ OpenedInv' /\ CallInv' /\ HeadersInv'
  BY <1>1, <1>2, <1>3 DEF IInv, Types, OpenedInv, CallInv, HeadersInv, Open, Opened1, Requests
<1>5. NewInv' /\ RegisteredInv' /\ FinInv' /\ CountedInv'
  BY <1>1, <1>2, <1>3 DEF IInv, NewInv, RegisteredInv, FinInv, CountedInv, Opened1
<1>6. OneOpener'
  <2>1. \A q \in Subscriptions : Openers(q)' = Openers(q)
    BY <1>1, <1>2, <1>3, IdleCall DEF Openers
  <2> QED BY <1>1, <2>1 DEF IInv, OneOpener
<1>7. ContentInv'
  BY <1>1, <1>2, IdleCall, ContentKept
<1>8. NoStreamLeft' /\ SessionAgrees'
  BY <1>1, <1>2, <1>3, IdleCall DEF IInv, NoStreamLeft, SessionAgrees, Subgroups
<1> QED BY <1>4, <1>5, <1>6, <1>7, <1>8 DEF IInv, ContentInv

LEMMA FetchOpenedInv ==
  ASSUME IInv, NEW t \in Tasks, FetchOpened(t)
  PROVE  IInv'
<1> DEFINE s == task[t].stream
<1>1. /\ task[t].at = "header" /\ header[s].request \in Fetches
      /\ s \in Streams /\ s <= opened /\ ended[s] = "no"
      /\ task' = [task EXCEPT ![t] = Idle] /\ fetch_streams' = fetch_streams \cup {s}
      /\ UNCHANGED <<opened, header, subgroups, last, ended, core_open, asked, decoded, stale,
                     cut, crossed>>
  BY DEF FetchOpened, content, observers, IInv, NewInv, OpenedInv, Open
<1>2. /\ task' \in [Tasks -> Calls] /\ task'[t] = Idle
      /\ \A u \in Tasks \ {t} : task'[u] = task[u]
  BY <1>1, IdleCall, TaskChanges DEF IInv
<1>3. \A u \in Tasks \ {t} : task[u].at = "header" => task[u].stream # s
  BY <1>1 DEF IInv, NewInv
<1>4. Types' /\ OpenedInv' /\ CallInv' /\ HeadersInv'
  <2>1. Types'
    BY <1>1, <1>2 DEF IInv, Types
  <2>2. OpenedInv'
    BY <1>1, <1>2, <2>1, IdleCall DEF IInv, OpenedInv, Open, Opened1
  <2>3. CallInv' /\ HeadersInv'
    BY <1>1, <1>2, IdleCall DEF IInv, CallInv, HeadersInv, Opened1
  <2> QED BY <2>1, <2>2, <2>3
<1>5. NewInv'
  BY <1>1, <1>2, <1>3, IdleCall DEF IInv, NewInv
<1>6. RegisteredInv' /\ FinInv' /\ CountedInv'
  BY <1>1, <1>2, IdleCall DEF IInv, RegisteredInv, FinInv, CountedInv, Opened1
<1>7. OneOpener'
  <2>1. \A q \in Subscriptions : /\ Openers(q)' \subseteq Openers(q)
                                 /\ Openers(q) \subseteq Tasks
    BY <1>1, <1>2, IdleCall DEF Openers
  <2> QED BY <1>1, <2>1 DEF IInv, OneOpener
<1>8. ContentInv'
  BY <1>1, IdleCall, ContentKept
<1>9. NoStreamLeft' /\ SessionAgrees'
  BY <1>1, <1>2, IdleCall DEF IInv, NoStreamLeft, SessionAgrees, Subgroups
<1> QED BY <1>4, <1>5, <1>6, <1>7, <1>8, <1>9 DEF IInv, ContentInv

LEMMA OpenedStreamInv ==
  ASSUME IInv, NEW t \in Tasks, Opened(t)
  PROVE  IInv'
<1> DEFINE s == opened + 1
           r == task[t].request
           top == [request |-> r, kind |-> task[t].kind,
                   group |-> IF r \in Fetches THEN Nothing ELSE task[t].location[1]]
           new == [task[t] EXCEPT !.at = "header", !.stream = s]
<1>1. /\ task[t].at = "opening" /\ task[t] \in Calls /\ r \in Requests
      /\ opened' = s /\ s \in Streams /\ opened \in Nat
      /\ header' = [header EXCEPT ![s] = top] /\ core_open' = core_open \cup {s}
      /\ UNCHANGED <<subgroups, fetch_streams, last, ended, asked, decoded, stale, cut, crossed>>
  BY DEF Opened, content, observers, IInv, Types, CallInv
<1>2. /\ task' = [task EXCEPT ![t] = new] /\ new \in Calls /\ new.at = "header"
      /\ new.stream = s /\ new.request = r /\ new.location = task[t].location
      /\ new.kind = task[t].kind /\ new.delta = task[t].delta
  BY <1>1 DEF Opened, Calls, Places, IInv, Types
<1>3. /\ top.request = r /\ top.kind = task[t].kind
      /\ r \in Subscriptions => /\ top.group = task[t].location[1] /\ top.group \in Groups
                                /\ top.kind \in Headers
      /\ r \in Fetches => top.kind = Nothing
      /\ top \in [request: Requests, kind: Kinds, group: Groups \cup {Nothing}]
  <2>1. task[t].kind \in Kinds
    BY <1>1 DEF Calls
  <2>2. r \in Subscriptions => task[t].location \in Locations /\ task[t].kind \in Headers
    BY <1>1 DEF IInv, CallInv
  <2>3. r \in Fetches => task[t].kind = Nothing
    BY <1>1 DEF IInv, CallInv
  <2> QED BY <1>1, <2>1, <2>2, <2>3 DEF Requests, Locations
<1>4. s > opened /\ asked[s] = <<>> /\ last[s] = Nothing /\ ended[s] = "no"
  BY <1>1 DEF IInv, OpenedInv
<1> HIDE DEF s, r, top, new
<1>5. /\ task' \in [Tasks -> Calls] /\ task'[t] = new
      /\ \A u \in Tasks \ {t} : task'[u] = task[u]
  BY <1>2, TaskChanges DEF IInv
<1>6. /\ header'[s] = top /\ \A q \in Streams \ {s} : header'[q] = header[q]
      /\ header' \in [Streams -> [request: Requests, kind: Kinds, group: Groups \cup {Nothing}]
                                  \cup {Nothing}]
  BY <1>1, <1>3 DEF IInv, Types
<1>7. \A q \in Opened1 : q \in Streams /\ q # s /\ q <= opened
  BY <1>1, <1>4 DEF IInv, Types, Opened1
<1>8. Opened1' = Opened1 \cup {s}
  BY <1>1 DEF Opened1, s
<1>9. /\ \A u \in Tasks : task[u].stream # s
      /\ \A q \in Subscriptions : subgroups[q] # s
      /\ s \notin fetch_streams
  BY <1>1, <1>4, <1>7 DEF IInv, OpenedInv, Open
<1>10. Types'
  <2>1. opened' \in 0 .. MaxStreams
    BY <1>1
  <2>2. \A q \in Streams : header'[q] = Nothing <=> q > opened'
    <3>1. top # Nothing
      BY <1>3 DEF Requests, Kinds
    <3>2. \A q \in Streams \ {s} : q > opened' <=> q > opened
      BY <1>1 DEF s
    <3> QED BY <1>1, <1>6, <3>1, <3>2 DEF IInv, Types, s
  <2> QED BY <1>1, <1>5, <1>6, <2>1, <2>2 DEF IInv, Types
<1>11. OpenedInv'
  <2>1. \A q \in Streams : q <= opened => q <= opened'
    BY <1>1 DEF s
  <2>2. Types /\ OpenedInv
    BY DEF IInv
  <2>3. (fetch_streams \cup core_open)' \subseteq Opened1'
    BY <1>1, <1>8, <2>2 DEF OpenedInv
  <2>4. \A q \in Subscriptions : (subgroups[q] # Nothing => Open(subgroups[q]))'
    BY <1>1, <2>1, <2>2 DEF OpenedInv, Open
  <2>5. s \in Streams /\ s <= opened'
    BY <1>1 DEF s
  <2>6. ASSUME NEW u \in Tasks
        PROVE  (/\ task[u].stream # Nothing => Open(task[u].stream)
                /\ task[u].at \in {"replacing", "header", "writing", "ending"} =>
                     task[u].stream # Nothing)'
    <3>1. CASE u = t
      BY <1>2, <1>5, <2>5, <3>1 DEF Open
    <3>2. CASE u # t
      BY <1>5, <2>1, <2>2, <3>2 DEF OpenedInv, Open
    <3> QED BY <3>1, <3>2
  <2>7. ASSUME NEW q \in Streams, q > opened'
        PROVE  asked'[q] = <<>> /\ last'[q] = Nothing /\ ended'[q] = "no"
    <3>1. q > opened
      BY <1>1, <2>7 DEF s
    <3> QED BY <1>1, <2>2, <3>1 DEF OpenedInv
  <2> QED BY <2>3, <2>4, <2>6, <2>7 DEF OpenedInv
<1>12. CallInv' /\ HeadersInv'
  <2>1. CallInv'
    BY <1>1, <1>2, <1>5 DEF IInv, CallInv, r
  <2>2. HeadersInv'
    BY <1>1, <1>3, <1>6, <1>7, <1>8 DEF IInv, HeadersInv
  <2> QED BY <2>1, <2>2
<1>13. NewInv'
  <2>1. ASSUME NEW u \in Tasks \ {t}, task[u].at = "header"
        PROVE  task[u].stream \in Streams \ {s}
    BY <1>9, <2>1 DEF IInv, OpenedInv, Open
  <2> QED BY <1>1, <1>2, <1>3, <1>4, <1>5, <1>6, <1>9, <2>1 DEF IInv, NewInv
<1>14. RegisteredInv' /\ FinInv'
  BY <1>1, <1>2, <1>5, <1>6, <1>9 DEF IInv, Types, RegisteredInv, FinInv
<1>15. OneOpener'
  <2>1. \A q \in Subscriptions : Openers(q)' = Openers(q)
    BY <1>1, <1>2, <1>5 DEF Openers, r
  <2> QED BY <1>1, <2>1 DEF IInv, OneOpener
<1>16. CountedInv'
  BY <1>1, <1>8 DEF IInv, CountedInv
<1>17. ContentInv'
  <2>1. \A q \in Streams : Writers(q)' = Writers(q) /\ LastAsked(q)' = LastAsked(q)
    BY <1>1, <1>2, <1>5 DEF Writers, LastAsked
  <2>2. Writers(s) = {} /\ LastAsked(s) = Nothing /\ decoded[s] = asked[s]
    <3>1. decoded[s] \in Seq(Read) /\ Len(decoded[s]) = 0
      BY <1>1, <1>4 DEF IInv, Types
    <3>2. decoded[s] = <<>>
      BY <3>1, EmptySeq
    <3> QED BY <1>4, <1>9, <3>2 DEF Writers, LastAsked
  <2>3. SubgroupInv'
    <3>1. 1 .. Len(asked[s]) = {}
      BY <1>4
    <3> QED BY <1>1, <1>4, <1>6, <1>7, <1>8, <2>1, <2>2, <3>1 DEF IInv, SubgroupInv
  <2>4. FetchInv'
    <3>1. \A q \in Opened1 : \A u \in Writers(q) : u # t /\ u \in Tasks
      BY <1>1 DEF Writers
    <3> QED BY <1>1, <1>4, <1>5, <1>6, <1>7, <1>8, <2>1, <2>2, <3>1 DEF IInv, FetchInv, FetchOf
  <2> QED BY <2>3, <2>4 DEF ContentInv
<1>18. NoStreamLeft'
  <2>1. ASSUME NEW q \in Subgroups', q # s PROVE q \in Subgroups /\ q \in Streams
    BY <1>6, <1>7, <1>8, <2>1 DEF Subgroups, Opened1
  <2>2. \A u \in Tasks : task[u].at = "header" => u # t
    BY <1>1
  <2> QED BY <1>1, <1>2, <1>5, <1>6, <2>1, <2>2 DEF IInv, NoStreamLeft
<1>19. SessionAgrees'
  BY <1>1, <1>2, <1>4, <1>5, <1>7, <1>8, <1>16 DEF IInv, SessionAgrees, CountedInv, Opened1
<1> QED BY <1>10, <1>11, <1>12, <1>13, <1>14, <1>15, <1>16, <1>17, <1>18, <1>19
        DEF IInv, ContentInv


LEMMA SendInNewSubgroupInv ==
  ASSUME IInv, NEW t \in Tasks, NEW r \in Subscriptions, NEW location \in Locations,
         NEW kind \in Headers, SendInNewSubgroup(t, r, location, kind)
  PROVE  IInv'
<1>3. PICK s \in Streams \cup {Nothing} : s = subgroups[r]
  BY DEF IInv, Types
<1>1. PICK new \in Calls :
        /\ task[t] = Idle /\ task' = [task EXCEPT ![t] = new]
        /\ new.request = r /\ new.location = location /\ new.kind = kind
        /\ new.delta = location[2] /\ new.stream = s
        /\ \/ /\ s = Nothing /\ new.at = "opening" /\ subgroups' = subgroups /\ ended' = ended
           \/ /\ s # Nothing /\ new.at = "replacing"
              /\ subgroups' = [subgroups EXCEPT ![r] = Nothing]
              /\ ended' = [ended EXCEPT ![s] = "fin"]
        /\ crossed' = IF Openers(r) = {} THEN crossed ELSE crossed \cup {r}
        /\ UNCHANGED <<opened, header, fetch_streams, last, core_open, asked, decoded, stale, cut>>
  <2>1. location[2] \in Nat /\ s \in Streams \cup {Nothing}
    BY DEF Locations
  <2>2. ASSUME NEW at \in {"opening", "replacing"}
        PROVE  LET new == Opening(at, r, location, kind, s) IN
               /\ new \in Calls /\ new.at = at /\ new.request = r /\ new.location = location
               /\ new.kind = kind /\ new.delta = location[2] /\ new.stream = s
    BY <2>1 DEF Opening, SubgroupDelta, Calls, Places, Kinds, Requests
  <2>3. CASE s = Nothing
    BY <1>3, <2>2, <2>3 DEF SendInNewSubgroup, content
  <2>4. CASE s # Nothing
    BY <1>3, <2>2, <2>4 DEF SendInNewSubgroup, content
  <2> QED BY <2>3, <2>4
<1>2. s # Nothing => s \in Streams /\ s <= opened /\ header[s].request = r /\ ended[s] = "no"
                     /\ s \notin fetch_streams
                     /\ (\A q \in Subscriptions \ {r} : subgroups[q] # s)
                     /\ \A u \in Tasks : task[u].at = "header" => task[u].stream # s
  <2>1. s # Nothing => s \in Streams /\ s <= opened /\ header[s].request = r /\ ended[s] = "no"
    BY <1>3 DEF IInv, Types, OpenedInv, Open, RegisteredInv
  <2>2. s # Nothing => \A q \in Subscriptions \ {r} : subgroups[q] # s
    BY <1>3, <2>1 DEF IInv, RegisteredInv
  <2>3. s # Nothing => s \notin fetch_streams
    BY <2>1 DEF IInv, RegisteredInv
  <2>4. s # Nothing => \A u \in Tasks : task[u].at = "header" => task[u].stream # s
    BY <1>3 DEF IInv, NewInv
  <2> QED BY <2>1, <2>2, <2>3, <2>4
<1>4. /\ task' \in [Tasks -> Calls] /\ task'[t] = new
      /\ \A u \in Tasks \ {t} : task'[u] = task[u]
  BY <1>1, TaskChanges DEF IInv
<1>5. /\ subgroups'[r] = Nothing /\ \A q \in Subscriptions \ {r} : subgroups'[q] = subgroups[q]
      /\ \A q \in Streams : \/ ended'[q] = ended[q] /\ q # s
                            \/ q = s /\ ended'[q] = "fin"
      /\ subgroups' \in [Subscriptions -> Streams \cup {Nothing}]
      /\ ended' \in [Streams -> {"no", "fin", "reset"}]
  <2>1. Nothing \notin Streams
    OBVIOUS
  <2>2. CASE s = Nothing
    BY <1>1, <1>3, <2>1, <2>2 DEF IInv, Types
  <2>3. CASE s # Nothing
    BY <1>1, <1>3, <2>3 DEF IInv, Types
  <2> QED BY <2>2, <2>3
<1>6. Types'
  <2>1. Types
    BY DEF IInv
  <2> QED BY <1>1, <1>4, <1>5, <2>1 DEF Types
<1>7. OpenedInv' /\ CallInv' /\ HeadersInv'
  <2>1. OpenedInv'
    <3>1. \A q \in Streams : q > opened => q # s
      BY <1>2 DEF IInv, Types
    <3> QED BY <1>1, <1>2, <1>4, <1>5, <3>1 DEF IInv, OpenedInv, Open, Opened1
  <2>2. CallInv'
    BY <1>1, <1>4 DEF IInv, CallInv, Requests
  <2>3. HeadersInv'
    BY <1>1 DEF IInv, HeadersInv, Opened1
  <2> QED BY <2>1, <2>2, <2>3
<1>8. NewInv'
  <2>1. ASSUME NEW u \in Tasks, task'[u].at = "header"
        PROVE  u # t /\ task[u].at = "header" /\ task[u].stream # s
               /\ task[u].stream \in Streams
    <3>1. u # t /\ task[u].at = "header"
      BY <1>1, <1>4, <2>1
    <3>2. task[u].stream \in Streams /\ task[u].stream # Nothing
      BY <3>1 DEF IInv, OpenedInv, Open
    <3>3. task[u].stream # s
      BY <1>2, <3>1, <3>2
    <3> QED BY <3>1, <3>2, <3>3
  <2> QED BY <1>1, <1>4, <1>5, <2>1, IdleCall DEF IInv, NewInv
<1>9. RegisteredInv'
  <2>1. \A q \in fetch_streams : q \in Streams /\ q # s
    <3>1. Nothing \notin Streams
      OBVIOUS
    <3> QED BY <1>2, <3>1 DEF IInv, Types
  <2>2. ASSUME NEW q \in Subscriptions, subgroups'[q] # Nothing
        PROVE  header'[subgroups'[q]].request = q /\ ended'[subgroups'[q]] = "no"
    <3>1. /\ q # r /\ subgroups'[q] = subgroups[q] /\ subgroups[q] # s
          /\ subgroups[q] \in Streams
      BY <1>2, <1>3, <1>5, <2>2 DEF IInv, Types
    <3> QED BY <1>1, <1>5, <3>1, <2>2 DEF IInv, RegisteredInv
  <2> QED BY <1>1, <1>5, <2>1, <2>2 DEF IInv, RegisteredInv
<1>10. FinInv'
  BY <1>1, <1>2, <1>4, <1>5, IdleCall DEF IInv, FinInv, OpenedInv, Open
<1>11. OneOpener'
  <2>1. \A q \in Subscriptions \ {r} : Openers(q)' = Openers(q)
    BY <1>1, <1>4, IdleCall DEF Openers
  <2>2. Openers(r)' = Openers(r) \cup {t}
    BY <1>1, <1>4, IdleCall DEF Openers
  <2> QED BY <1>1, <1>5, <2>1, <2>2 DEF IInv, OneOpener
<1>12. CountedInv'
  BY <1>1, <1>5 DEF IInv, Types, CountedInv, Opened1
<1>13. ContentInv'
  BY <1>1, IdleCall, ContentKept
<1>14. NoStreamLeft'
  <2>1. Subgroups' = Subgroups /\ \A q \in Subgroups : q \in Streams
    BY <1>1 DEF Subgroups, IInv, Types
  <2>2. ASSUME NEW q \in Subgroups \ cut, ended'[q] = "no", header[q].request \notin crossed'
        PROVE  \/ subgroups'[header[q].request] = q
               \/ \E u \in Tasks : task'[u].at = "header" /\ task'[u].stream = q
    <3>1. q # s /\ ended[q] = "no" /\ header[q].request \notin crossed
      BY <1>1, <1>5, <2>1, <2>2
    <3>2. CASE subgroups[header[q].request] = q
      BY <1>3, <1>5, <3>1, <3>2 DEF Subgroups
    <3>3. CASE \E u \in Tasks : task[u].at = "header" /\ task[u].stream = q
      BY <1>1, <1>4, <3>3, IdleCall
    <3> QED BY <3>1, <3>2, <3>3 DEF IInv, NoStreamLeft
  <2> QED BY <1>1, <2>1, <2>2 DEF NoStreamLeft
<1>15. SessionAgrees'
  <2>1. ASSUME NEW q \in Opened1 \ cut, q \in core_open, ended'[q] # "no"
        PROVE  \E u \in Tasks : task'[u].at \in {"replacing", "ending"} /\ task'[u].stream = q
    <3>1. q \in Streams
      BY DEF IInv, Types, Opened1
    <3>2. CASE q = s
      BY <1>1, <1>3, <1>4, <3>1, <3>2
    <3>3. CASE q # s
      BY <1>1, <1>4, <1>5, <2>1, <3>1, <3>3, IdleCall DEF IInv, SessionAgrees, Opened1
    <3> QED BY <3>2, <3>3
  <2> QED BY <1>1, <1>12, <2>1 DEF SessionAgrees, CountedInv, Opened1
<1> QED BY <1>6, <1>7, <1>8, <1>9, <1>10, <1>11, <1>12, <1>13, <1>14, <1>15 DEF IInv, ContentInv

-----------------------------------------------------------------------------
(* Writes are over, or interrupted.                                        *)

LEMMA WrittenInv ==
  ASSUME IInv, NEW t \in Tasks, Written(t)
  PROVE  IInv'
<1>0. PICK s \in Streams : s = task[t].stream
  BY DEF Written, IInv, OpenedInv, Open
<1>1. /\ task[t].at = "writing" /\ s \in Streams /\ s <= opened
      /\ task' = [task EXCEPT ![t] = Idle]
      /\ last' = IF header[s].request \in Fetches THEN [last EXCEPT ![s] = task[t].location]
                                                  ELSE last
      /\ UNCHANGED <<opened, header, subgroups, fetch_streams, ended, core_open, asked, decoded,
                     stale, cut, crossed>>
  BY <1>0 DEF Written, content, observers, IInv, OpenedInv, Open
<1>2. /\ task' \in [Tasks -> Calls] /\ task'[t] = Idle
      /\ \A u \in Tasks \ {t} : task'[u] = task[u]
  BY <1>1, IdleCall, TaskChanges DEF IInv
<1>3. s \in Opened1 /\ t \in Writers(s)
  BY <1>0, <1>1 DEF Opened1, Writers, IInv, Types
<1>4. header[s].request \in Fetches => task[t].location \in Locations /\ asked[s] # <<>>
  BY <1>3 DEF IInv, FetchInv, FetchOf
<1>5. /\ last' \in [Streams -> Locations \cup {Nothing}]
      /\ \A q \in Streams \ {s} : last'[q] = last[q]
      /\ last'[s] = IF header[s].request \in Fetches THEN task[t].location ELSE last[s]
  BY <1>1, <1>4 DEF IInv, Types
<1>6. Types'
  BY <1>1, <1>2, <1>5 DEF IInv, Types
<1>7. OpenedInv' /\ CallInv' /\ HeadersInv'
  <2>1. OpenedInv'
    <3>1. \A q \in Streams : q > opened => q # s
      BY <1>1 DEF IInv, Types
    <3> QED BY <1>1, <1>2, <1>5, <3>1, IdleCall DEF IInv, OpenedInv, Open, Opened1
  <2>2. CallInv' /\ HeadersInv'
    BY <1>1, <1>2, IdleCall DEF IInv, CallInv, HeadersInv, Opened1
  <2> QED BY <2>1, <2>2
<1>8. NewInv'
  <2>1. ASSUME NEW u \in Tasks, task'[u].at = "header"
        PROVE  u # t /\ task[u].at = "header" /\ task[u].stream # s
               /\ task[u].stream \in Streams
    BY <1>0, <1>1, <1>2, <2>1, IdleCall DEF IInv, OpenedInv, Open, NewInv
  <2> QED BY <1>1, <1>2, <1>5, <2>1, IdleCall DEF IInv, NewInv
<1>9. RegisteredInv' /\ FinInv' /\ CountedInv'
  BY <1>1, <1>2, IdleCall DEF IInv, RegisteredInv, FinInv, CountedInv, Opened1
<1>10. OneOpener'
  <2>1. \A q \in Subscriptions : Openers(q)' = Openers(q)
    BY <1>1, <1>2, IdleCall DEF Openers
  <2> QED BY <1>1, <2>1 DEF IInv, OneOpener
<1>11. SubgroupInv'
  <2>1. ASSUME NEW q \in Opened1, header[q].request \in Subscriptions
        PROVE  last'[q] = last[q]
    BY <1>5, <2>1 DEF Opened1, IInv, Types
  <2> QED BY <1>1, <2>1 DEF IInv, SubgroupInv, LastAsked, Opened1
<1>12. FetchInv'
  <2>1. \A q \in Streams : Writers(q)' = Writers(q) \ {t}
    BY <1>1, <1>2, IdleCall DEF Writers
  <2>2. \A q \in Streams \ {s} : Writers(q)' = Writers(q)
    BY <1>0, <1>1, <1>2, IdleCall DEF Writers
  <2>3. \A q \in Streams : LastAsked(q)' = LastAsked(q)
    BY <1>1 DEF LastAsked
  <2>4. \A q \in Opened1 : q \in Streams
    BY DEF Opened1, IInv, Types
  <2>5. \A q \in Streams : \A u \in Writers(q)' : u \in Writers(q) /\ task'[u] = task[u]
    BY <1>2, <2>1 DEF Writers
  <2>6. ASSUME NEW q \in Opened1, header[q].request \in Fetches, q # s
        PROVE  FetchOf(q)'
    <3>1. FetchOf(q)
      BY <2>6 DEF IInv, FetchInv
    <3> QED BY <1>1, <1>5, <2>2, <2>3, <2>4, <2>5, <2>6, <3>1 DEF FetchOf
  <2>7. ASSUME header[s].request \in Fetches PROVE FetchOf(s)'
    <3>1. FetchOf(s)
      BY <1>3, <2>7 DEF IInv, FetchInv
    <3>2. asked[s] # <<>> /\ \A u \in Writers(s)' : task'[u].location \in Locations
      BY <1>4, <1>1, <2>5, <2>7, <3>1 DEF FetchOf
    <3>3. s \notin stale => /\ decoded[s] = asked[s] /\ task[t].location = LastAsked(s)
                            /\ Writers(s)' = {}
      BY <1>1, <1>3, <2>1, <3>1 DEF FetchOf
    <3> QED BY <1>1, <1>5, <2>3, <2>7, <3>2, <3>3 DEF FetchOf
  <2> QED BY <1>1, <2>6, <2>7 DEF FetchInv, Opened1
<1>13. NoStreamLeft' /\ SessionAgrees'
  BY <1>1, <1>2, IdleCall DEF IInv, NoStreamLeft, SessionAgrees, Subgroups
<1> QED BY <1>6, <1>7, <1>8, <1>9, <1>10, <1>11, <1>12, <1>13 DEF IInv

LEMMA InterruptedInv ==
  ASSUME IInv, NEW t \in Tasks, Interrupted(t)
  PROVE  IInv'
<1> DEFINE s == task[t].stream
<1>1. /\ task' = [task EXCEPT ![t] = Idle]
      /\ stale' = IF task[t].at = "writing" /\ header[s].request \in Fetches
                  THEN stale \cup {s} ELSE stale
      /\ cut' = IF task[t].at \in {"replacing", "header", "ending"} THEN cut \cup {s} ELSE cut
      /\ task[t].at \in {"replacing", "header", "writing", "ending"} => s \in Streams
      /\ UNCHANGED <<opened, header, subgroups, fetch_streams, last, ended, core_open, asked,
                     decoded, crossed>>
  BY DEF Interrupted, content, IInv, OpenedInv, Open
<1>2. /\ task' \in [Tasks -> Calls] /\ task'[t] = Idle
      /\ \A u \in Tasks \ {t} : task'[u] = task[u]
  BY <1>1, IdleCall, TaskChanges DEF IInv
<1>3. Types'
  BY <1>1, <1>2 DEF IInv, Types
<1>4. OpenedInv' /\ CallInv' /\ HeadersInv'
  <2>1. OpenedInv'
    BY <1>1, <1>2, IdleCall DEF IInv, OpenedInv, Open, Opened1
  <2>2. CallInv' /\ HeadersInv'
    BY <1>1, <1>2, IdleCall DEF IInv, CallInv, HeadersInv, Opened1
  <2> QED BY <2>1, <2>2
<1>5. NewInv'
  BY <1>1, <1>2, IdleCall DEF IInv, NewInv
<1>6. RegisteredInv' /\ FinInv' /\ CountedInv'
  BY <1>1, <1>2, IdleCall DEF IInv, RegisteredInv, FinInv, CountedInv, Opened1
<1>7. OneOpener'
  <2>1. \A q \in Subscriptions : Openers(q)' \subseteq Openers(q)
    BY <1>1, <1>2, IdleCall DEF Openers
  <2> QED BY <1>1, <2>1 DEF IInv, OneOpener
<1>8. SubgroupInv'
  BY <1>1 DEF IInv, SubgroupInv, LastAsked, Opened1
<1>9. FetchInv'
  <2>1. \A q \in Streams : /\ Writers(q)' = Writers(q) \ {t}
                           /\ LastAsked(q)' = LastAsked(q)
                           /\ \A u \in Writers(q)' : u \in Writers(q) /\ task'[u] = task[u]
    BY <1>1, <1>2, IdleCall DEF Writers, LastAsked
  <2>2. ASSUME NEW q \in Streams, q \notin stale', header[q].request \in Fetches
        PROVE  q \notin stale /\ Writers(q)' = Writers(q)
    BY <1>1, <2>1, <2>2 DEF Writers
  <2>3. \A q \in Opened1 : q \in Streams
    BY DEF Opened1, IInv, Types
  <2> QED BY <1>1, <2>1, <2>2, <2>3 DEF IInv, FetchInv, FetchOf, Opened1
<1>10. NoStreamLeft'
  BY <1>1, <1>2, IdleCall DEF IInv, NoStreamLeft, Subgroups
<1>11. SessionAgrees'
  BY <1>1, <1>2, IdleCall DEF IInv, SessionAgrees
<1> QED BY <1>3, <1>4, <1>5, <1>6, <1>7, <1>8, <1>9, <1>10, <1>11 DEF IInv

-----------------------------------------------------------------------------
(* Objects are sent.                                                       *)

\* An object goes out.
LEMMA Wired ==
  ASSUME Types, NEW s \in Streams, NEW location \in Locations, NEW kind \in Kinds,
         NEW there \in Int \X Int, header[s] # Nothing, Wire(s, location, kind, there)
  PROVE  /\ asked' \in [Streams -> Seq(Items)] /\ decoded' \in [Streams -> Seq(Read)]
         /\ \A q \in Streams \ {s} : asked'[q] = asked[q] /\ decoded'[q] = decoded[q]
         /\ asked'[s] = Append(asked[s], [location |-> location, kind |-> kind])
         /\ decoded'[s] = Append(decoded[s], [location |-> there, kind |-> header[s].kind])
         /\ \A q \in Streams : Len(decoded'[q]) = Len(asked'[q])
         /\ asked'[s] # <<>> /\ LastAsked(s)' = location
         /\ \A q \in Streams \ {s} : LastAsked(q)' = LastAsked(q)
<1> DEFINE item == [location |-> location, kind |-> kind]
           read == [location |-> there, kind |-> header[s].kind]
<1>1. item \in Items /\ read \in Read /\ item.location = location
  BY DEF Types, Items, Read
<1>2. /\ asked' = [asked EXCEPT ![s] = Append(asked[s], item)]
      /\ decoded' = [decoded EXCEPT ![s] = Append(decoded[s], read)]
  BY DEF Wire
<1>3. /\ asked[s] \in Seq(Items) /\ decoded[s] \in Seq(Read)
      /\ Len(decoded[s]) = Len(asked[s])
  BY DEF Types
<1> HIDE DEF item, read
<1>4. /\ Append(asked[s], item) \in Seq(Items) /\ Append(decoded[s], read) \in Seq(Read)
      /\ Len(Append(asked[s], item)) = Len(asked[s]) + 1 /\ Len(asked[s]) \in Nat
      /\ Len(Append(decoded[s], read)) = Len(asked[s]) + 1
      /\ Append(asked[s], item)[Len(asked[s]) + 1] = item
  <2>1. /\ Append(asked[s], item) \in Seq(Items) /\ Len(asked[s]) \in Nat
        /\ Len(Append(asked[s], item)) = Len(asked[s]) + 1
        /\ Append(asked[s], item)[Len(asked[s]) + 1] = item
    BY ONLY <1>1, <1>3, AppendProperties, LenProperties
  <2>2. /\ Append(decoded[s], read) \in Seq(Read)
        /\ Len(Append(decoded[s], read)) = Len(decoded[s]) + 1
    BY ONLY <1>1, <1>3, AppendProperties
  <2> QED BY ONLY <1>3, <2>1, <2>2
<1>5. /\ asked' \in [Streams -> Seq(Items)] /\ decoded' \in [Streams -> Seq(Read)]
      /\ \A q \in Streams \ {s} : asked'[q] = asked[q] /\ decoded'[q] = decoded[q]
      /\ asked'[s] = Append(asked[s], item) /\ decoded'[s] = Append(decoded[s], read)
  BY <1>2, <1>4 DEF Types
<1>6. \A q \in Streams : Len(decoded'[q]) = Len(asked'[q])
  BY <1>4, <1>5 DEF Types
<1>7. asked'[s] # <<>> /\ asked'[s][Len(asked'[s])].location = location
  BY <1>1, <1>4, <1>5, EmptySeq
<1> QED BY <1>5, <1>6, <1>7 DEF LastAsked, item, read

\* The difference that is written on a subgroup stream.
Difference(s, object) == IF asked[s] = <<>> THEN object ELSE object - last[s][2] - 1

LEMMA Pairs ==
  ASSUME NEW A, NEW B, NEW p \in A \X B
  PROVE  p[1] \in A /\ p[2] \in B /\ p = <<p[1], p[2]>>
OBVIOUS

LEMMA LocationsAreInts ==
  \A location \in Locations :
    location \in Int \X Int /\ location[1] \in Nat /\ location[2] \in Nat
    /\ location = <<location[1], location[2]>>
<1> SUFFICES ASSUME NEW location \in Locations
             PROVE  location \in Int \X Int /\ location[1] \in Nat /\ location[2] \in Nat
                    /\ location = <<location[1], location[2]>>
  OBVIOUS
<1>1. location \in Groups \X Objects
  BY DEF Locations
<1>2. location[1] \in Groups /\ location[2] \in Objects /\ location = <<location[1], location[2]>>
  BY ONLY <1>1, Pairs
<1>3. location[1] \in Nat /\ location[2] \in Nat
  BY <1>2
<1>4. <<location[1], location[2]>> \in Int \X Int
  BY <1>3
<1> QED BY <1>2, <1>3, <1>4

LEMMA NothingNowhere == Nothing \notin Locations
BY DEF Locations

\* The peer resolves it to the object.
LEMMA PeerFinds ==
  ASSUME IInv, NEW s \in Opened1, header[s].request \in Subscriptions,
         NEW location \in Locations, location[1] = header[s].group
  PROVE  /\ PeerSubgroup(s, Difference(s, location[2])) = location
         /\ asked[s] = <<>> <=> last[s] = Nothing
<1>1. /\ s \in Streams /\ decoded[s] = asked[s] /\ asked[s] \in Seq(Items)
      /\ last[s] = LastAsked(s)
  BY DEF IInv, Types, SubgroupInv, Opened1
<1>2. location[2] \in Nat /\ location = <<location[1], location[2]>>
  BY LocationsAreInts
<1>3. CASE asked[s] = <<>>
  BY <1>1, <1>2, <1>3 DEF PeerSubgroup, Difference, LastAsked
<1>4. CASE asked[s] # <<>>
  <2>1. Len(asked[s]) \in 1 .. Len(asked[s])
    BY <1>1, <1>4, EmptySeq, LenProperties
  <2>2. asked[s][Len(asked[s])] \in Items
    BY <1>1, <2>1, ElementOfSeq
  <2>3. /\ last[s] \in Locations /\ last[s][2] \in Nat
        /\ Last(decoded[s]).location = last[s]
    BY <1>1, <1>4, <2>2 DEF LastAsked, Items, Locations, Last
  <2> QED BY <1>1, <1>2, <1>4, <2>3 DEF PeerSubgroup, Difference, Locations
<1> QED BY <1>3, <1>4

\* An object is sent on a subgroup stream, or filtered: its content stays right.
LEMMA SentContent ==
  ASSUME IInv, NEW t \in Tasks, NEW s \in Opened1, header[s].request \in Subscriptions,
         NEW location \in Locations, location[1] = header[s].group,
         NEW kind \in Headers, header[s].kind = kind,
         NEW delta \in Nat, delta = Difference(s, location[2]),
         task[t].at \in {"idle", "header"}, Sent(t, s, location, kind, delta),
         UNCHANGED <<opened, header, stale>>
  PROVE  /\ \E new \in Calls : /\ task' = [task EXCEPT ![t] = new]
                               /\ new.request = Nothing
                               /\ \/ new.at = "idle" /\ new.stream = Nothing
                                  \/ new.at = "writing" /\ new.stream = s
         /\ last' \in [Streams -> Locations \cup {Nothing}]
         /\ asked' \in [Streams -> Seq(Items)] /\ decoded' \in [Streams -> Seq(Read)]
         /\ \A q \in Streams : Len(decoded'[q]) = Len(asked'[q])
         /\ \A q \in Streams \ {s} : asked'[q] = asked[q] /\ last'[q] = last[q]
         /\ ContentInv'
<1>1. CASE task' = [task EXCEPT ![t] = Idle] /\ UNCHANGED <<last, content>>
  <2>1. ContentInv'
    <3>1. task[t].at # "writing" /\ UNCHANGED <<opened, header, last, asked, decoded, stale>>
      BY <1>1 DEF content
    <3> QED BY <1>1, <3>1, IdleCall, ContentKept
  <2>2. Idle.request = Nothing
    BY DEF Idle
  <2> QED BY <1>1, <2>1, <2>2, IdleCall DEF content, IInv, Types
<1>2. CASE /\ last' = [last EXCEPT ![s] = location]
           /\ Wire(s, location, kind, PeerSubgroup(s, delta))
           /\ task' = [task EXCEPT ![t] = [Idle EXCEPT !.at = "writing", !.stream = s]]
  <2>1. PICK new \in Calls : /\ task' = [task EXCEPT ![t] = new] /\ new.request = Nothing
                             /\ new.at = "writing" /\ new.stream = s
    <3>1. s \in Streams
      BY DEF Opened1, IInv, Types
    <3>2. [Idle EXCEPT !.at = "writing", !.stream = s] \in Calls
      BY <3>1 DEF Idle, Calls, Places, Kinds
    <3> QED BY <1>2, <3>2 DEF Idle
  <2>2. /\ task'[t] = new /\ \A u \in Tasks \ {t} : task'[u] = task[u]
    BY <2>1, TaskChanges DEF IInv
  <2>3. s \in Streams /\ header[s] # Nothing
    BY DEF IInv, Types, Opened1
  <2>4. PeerSubgroup(s, delta) = location /\ (asked[s] = <<>> <=> last[s] = Nothing)
    BY PeerFinds
  <2>5. location \in Int \X Int /\ location[2] \in Nat
    BY LocationsAreInts
  <2>6. Wire(s, location, kind, location) /\ kind \in Kinds
    BY <1>2, <2>4 DEF Kinds
  <2>7. /\ asked' \in [Streams -> Seq(Items)] /\ decoded' \in [Streams -> Seq(Read)]
        /\ \A q \in Streams \ {s} : asked'[q] = asked[q] /\ decoded'[q] = decoded[q]
        /\ asked'[s] = Append(asked[s], [location |-> location, kind |-> kind])
        /\ decoded'[s] = Append(decoded[s], [location |-> location, kind |-> header[s].kind])
        /\ \A q \in Streams : Len(decoded'[q]) = Len(asked'[q])
        /\ asked'[s] # <<>> /\ LastAsked(s)' = location
        /\ \A q \in Streams \ {s} : LastAsked(q)' = LastAsked(q)
    <3>1. PICK there \in Int \X Int : there = location
      BY <2>5
    <3>2. Types /\ header[s] # Nothing /\ Wire(s, location, kind, there)
      BY <2>3, <2>6, <3>1 DEF IInv
    <3>3. s \in Streams /\ kind \in Kinds
      BY <2>3, <2>6
    <3>4. /\ asked' \in [Streams -> Seq(Items)] /\ decoded' \in [Streams -> Seq(Read)]
          /\ \A q \in Streams \ {s} : asked'[q] = asked[q] /\ decoded'[q] = decoded[q]
          /\ asked'[s] = Append(asked[s], [location |-> location, kind |-> kind])
          /\ decoded'[s] = Append(decoded[s], [location |-> there, kind |-> header[s].kind])
          /\ \A q \in Streams : Len(decoded'[q]) = Len(asked'[q])
          /\ asked'[s] # <<>> /\ LastAsked(s)' = location
          /\ \A q \in Streams \ {s} : LastAsked(q)' = LastAsked(q)
      BY ONLY <3>2, <3>3, location \in Locations, there \in Int \X Int, Wired
    <3> QED BY <3>1, <3>4
  <2>8. /\ last' \in [Streams -> Locations \cup {Nothing}] /\ last'[s] = location
        /\ \A q \in Streams \ {s} : last'[q] = last[q]
    BY <1>2, <2>3 DEF IInv, Types
  <2>9. decoded[s] = asked[s] /\ last[s] = LastAsked(s) /\ asked[s] \in Seq(Items)
        /\ \A i, j \in 1 .. Len(asked[s]) :
             i < j => asked[s][i].location[2] < asked[s][j].location[2]
    BY <2>3 DEF IInv, Types, SubgroupInv
  <2>10. ASSUME NEW i \in 1 .. Len(asked'[s]), NEW j \in 1 .. Len(asked'[s]), i < j
         PROVE  asked'[s][i].location[2] < asked'[s][j].location[2]
    <3>1. /\ Len(asked[s]) \in Nat /\ Len(asked'[s]) = Len(asked[s]) + 1
          /\ \A k \in 1 .. Len(asked[s]) : asked'[s][k] = asked[s][k]
          /\ asked'[s][Len(asked[s]) + 1].location = location
      <4>1. [location |-> location, kind |-> kind] \in Items
        BY <2>6 DEF Items
      <4> QED BY <2>7, <2>9, <4>1, AppendProperties, LenProperties
    <3>2. \A k \in 1 .. Len(asked[s]) : asked[s][k].location[2] \in Nat
      <4>1. \A k \in 1 .. Len(asked[s]) : asked[s][k] \in Items
        BY <2>9, ElementOfSeq
      <4> QED BY <4>1 DEF Items, Locations
    <3>3. CASE j <= Len(asked[s])
      <4>1. i \in 1 .. Len(asked[s]) /\ j \in 1 .. Len(asked[s])
        BY <2>10, <3>1, <3>3
      <4> QED BY <2>9, <2>10, <3>1, <4>1
    <3>4. CASE j > Len(asked[s])
      <4>1. j = Len(asked[s]) + 1 /\ i \in 1 .. Len(asked[s])
            /\ Len(asked[s]) \in 1 .. Len(asked[s])
        BY <2>10, <3>1, <3>4
      <4>2. asked[s] # <<>> /\ last[s] = asked[s][Len(asked[s])].location
        BY <2>9, <4>1 DEF LastAsked
      <4>3. location[2] > last[s][2]
        <5>1. last[s][2] \in Nat
          BY <3>2, <4>1, <4>2
        <5>2. Difference(s, location[2]) = location[2] - last[s][2] - 1
          BY <4>2 DEF Difference
        <5> QED BY <2>5, <5>1, <5>2
      <4>4. asked[s][i].location[2] <= last[s][2]
        BY <2>9, <3>2, <4>1, <4>2, SMTT(30)
      <4>5. asked[s][i].location[2] < location[2]
        <5>1. asked[s][i].location[2] \in Nat
          BY <3>2, <4>1
        <5>2. last[s][2] \in Nat
          BY <3>2, <4>1, <4>2
        <5> QED BY <2>5, <4>3, <4>4, <5>1, <5>2
      <4>6. asked'[s][i] = asked[s][i] /\ asked'[s][j].location = location
        BY <3>1, <4>1
      <4> QED BY <4>5, <4>6
    <3> QED BY <3>1, <3>3, <3>4
  <2>11. Opened1' = Opened1 /\ \A q \in Opened1 : q \in Streams
    BY DEF Opened1, IInv, Types
  <2>12. SubgroupInv'
    <3>1. ASSUME NEW q \in Opened1, q # s, header[q].request \in Subscriptions
          PROVE  asked'[q] = asked[q] /\ decoded'[q] = decoded[q] /\ last'[q] = last[q]
                 /\ LastAsked(q)' = LastAsked(q)
      BY <2>7, <2>8, <2>11, <3>1
    <3> QED BY <2>7, <2>8, <2>9, <2>10, <2>11, <3>1, ZenonT(60) DEF IInv, SubgroupInv
  <2>13. FetchInv'
    <3>1. ASSUME NEW q \in Opened1, header[q].request \in Fetches
          PROVE  FetchOf(q)'
      <4>1. q # s /\ q \in Streams
        BY <2>11, <3>1
      <4>2. /\ Writers(q)' = Writers(q) /\ LastAsked(q)' = LastAsked(q)
            /\ asked'[q] = asked[q] /\ decoded'[q] = decoded[q] /\ last'[q] = last[q]
            /\ \A u \in Writers(q) : task'[u] = task[u]
        BY <2>1, <2>2, <2>7, <2>8, <4>1 DEF Writers
      <4>3. FetchOf(q)
        BY <3>1 DEF IInv, FetchInv
      <4> QED BY <4>2, <4>3 DEF FetchOf
    <3> QED BY <2>11, <3>1 DEF FetchInv
  <2> QED BY <2>1, <2>7, <2>8, <2>12, <2>13 DEF ContentInv
<1> QED BY <1>1, <1>2 DEF Sent

LEMMA SendSubgroupInv ==
  ASSUME IInv, NEW t \in Tasks, NEW r \in Subscriptions, NEW location \in Locations,
         NEW kind \in Headers, SendSubgroup(t, r, location, kind)
  PROVE  IInv'
<1>1. PICK s \in Opened1 : s = subgroups[r]
  BY DEF SendSubgroup, IInv, OpenedInv, Open, Opened1, Types
<1>2. /\ task[t] = Idle /\ task[t].at = "idle" /\ header[s].group = location[1]
      /\ header[s].kind = kind /\ header[s].request = r /\ ended[s] = "no" /\ s \in Streams
      /\ UNCHANGED <<opened, header, subgroups, fetch_streams, ended, core_open,
                     stale, cut, crossed>>
  BY <1>1, IdleCall DEF SendSubgroup, observers, IInv, RegisteredInv, Types, Opened1
<1>3. PICK delta \in Nat : delta = Difference(s, location[2]) /\ Sent(t, s, location, kind, delta)
  <2>1. asked[s] = <<>> <=> last[s] = Nothing
    BY <1>2, PeerFinds
  <2>2. SubgroupDelta(FALSE, s, location[2]) = Difference(s, location[2])
    BY <2>1 DEF SubgroupDelta, Difference
  <2>3. Difference(s, location[2]) \in Int
    <3>1. last[s] # Nothing => last[s] \in Locations
      BY <1>2 DEF IInv, Types
    <3> QED BY <2>1, <3>1, LocationsAreInts DEF Difference
  <2>4. /\ SubgroupDelta(FALSE, s, location[2]) >= 0
        /\ Sent(t, s, location, kind, SubgroupDelta(FALSE, s, location[2]))
    BY <1>1 DEF SendSubgroup
  <2>5. Difference(s, location[2]) >= 0 /\ Sent(t, s, location, kind, Difference(s, location[2]))
    BY <2>2, <2>4
  <2>6. Difference(s, location[2]) \in Nat
    BY <2>3, <2>5
  <2> QED BY <2>5, <2>6
<1>4. PICK new \in Calls :
        /\ task' = [task EXCEPT ![t] = new] /\ new.request = Nothing
        /\ \/ new.at = "idle" /\ new.stream = Nothing
           \/ new.at = "writing" /\ new.stream = s
        /\ last' \in [Streams -> Locations \cup {Nothing}]
        /\ asked' \in [Streams -> Seq(Items)] /\ decoded' \in [Streams -> Seq(Read)]
        /\ \A q \in Streams : Len(decoded'[q]) = Len(asked'[q])
        /\ \A q \in Streams \ {s} : asked'[q] = asked[q] /\ last'[q] = last[q]
        /\ ContentInv'
  BY <1>2, <1>3, SentContent
<1>5. /\ task' \in [Tasks -> Calls] /\ task'[t] = new
      /\ \A u \in Tasks \ {t} : task'[u] = task[u]
  BY <1>4, TaskChanges DEF IInv
<1>6. Types'
  BY <1>2, <1>4, <1>5 DEF IInv, Types
<1>7. OpenedInv'
  <2>1. \A q \in Streams : q > opened => q # s
    BY DEF IInv, Types, Opened1
  <2>2. Open(s)
    BY <1>2 DEF Open, Opened1, IInv, Types
  <2>3. \A u \in Tasks : /\ task'[u].stream # Nothing => Open(task'[u].stream)
                         /\ task'[u].at \in {"replacing", "header", "writing", "ending"} =>
                              task'[u].stream # Nothing
    BY <1>2, <1>4, <1>5, <2>2 DEF IInv, OpenedInv
  <2> QED BY <1>2, <1>4, <2>1, <2>3, ZenonT(60) DEF IInv, OpenedInv, Open, Opened1
<1>8. CallInv' /\ HeadersInv' /\ RegisteredInv' /\ FinInv' /\ CountedInv'
  BY <1>2, <1>4, <1>5 DEF IInv, CallInv, HeadersInv, RegisteredInv, FinInv, CountedInv, Opened1
<1>9. NewInv'
  <2>1. ASSUME NEW u \in Tasks, task'[u].at = "header"
        PROVE  /\ u # t /\ task[u].at = "header" /\ task[u].stream # s
               /\ task[u].stream \in Streams
    BY <1>1, <1>4, <1>5, <2>1 DEF IInv, NewInv, OpenedInv, Open
  <2>2. ASSUME NEW u \in Tasks, task'[u].at = "header"
        PROVE  /\ task'[u] = task[u] /\ task[u].at = "header"
               /\ \A v \in Tasks : task'[v].at \in {"header", "writing"}
                                 /\ task'[v].stream = task[u].stream => v = u
    <3>1. u # t /\ task'[u] = task[u] /\ task[u].at = "header" /\ task[u].stream # s
      BY <1>2, <1>4, <1>5, <2>1, <2>2
    <3>2. \A v \in Tasks : task[v].at \in {"header", "writing"}
                         /\ task[v].stream = task[u].stream => v = u
      BY <3>1 DEF IInv, NewInv
    <3> QED BY <1>4, <1>5, <3>1, <3>2
  <2>3. ASSUME NEW u \in Tasks, task'[u].at = "header", NEW q \in Streams, q = task[u].stream
        PROVE  /\ asked'[q] = <<>> /\ last'[q] = Nothing
               /\ \A p \in Subscriptions : subgroups'[p] # q
    <3>1. task[u].at = "header" /\ q # s
      BY <2>1, <2>3
    <3>2. asked[q] = <<>> /\ last[q] = Nothing /\ \A p \in Subscriptions : subgroups[p] # q
      BY <2>3, <3>1 DEF IInv, NewInv
    <3> QED BY <1>2, <1>4, <3>1, <3>2
  <2> QED BY <1>2, <2>1, <2>2, <2>3 DEF IInv, NewInv
<1>10. OneOpener'
  <2>1. \A q \in Subscriptions : Openers(q)' = Openers(q)
    BY <1>2, <1>4, <1>5 DEF Openers
  <2> QED BY <1>2, <2>1 DEF IInv, OneOpener
<1>11. NoStreamLeft' /\ SessionAgrees'
  BY <1>2, <1>4, <1>5, ZenonT(60) DEF IInv, NoStreamLeft, SessionAgrees, Subgroups
<1> QED BY <1>4, <1>6, <1>7, <1>8, <1>9, <1>10, <1>11 DEF IInv, ContentInv

LEMMA SubgroupOpenedInv ==
  ASSUME IInv, NEW t \in Tasks, SubgroupOpened(t)
  PROVE  IInv'
<1>1. PICK s \in Opened1 : s = task[t].stream
  BY DEF SubgroupOpened, IInv, OpenedInv, Open, Opened1, Types
<1>2. PICK r \in Subscriptions : r = task[t].request
  BY DEF SubgroupOpened
<1>3. /\ task[t].at = "header" /\ s \in Streams /\ header[s].request = r
      /\ header[s].group = task[t].location[1] /\ header[s].kind = task[t].kind
      /\ asked[s] = <<>> /\ ended[s] = "no" /\ s \notin fetch_streams
      /\ (\A q \in Subscriptions : subgroups[q] # s)
      /\ (\A u \in Tasks : task[u].at \in {"header", "writing"} /\ task[u].stream = s => u = t)
      /\ task[t].location \in Locations /\ task[t].kind \in Headers
      /\ task[t].delta = task[t].location[2]
  BY <1>1, <1>2 DEF SubgroupOpened, IInv, NewInv, CallInv, Types, Opened1
<1>4. /\ subgroups' = [subgroups EXCEPT ![r] = s]
      /\ UNCHANGED <<opened, header, fetch_streams, ended, core_open, stale, cut, crossed>>
  BY <1>1, <1>2 DEF SubgroupOpened, observers
<1>5. PICK new \in Calls :
        /\ task' = [task EXCEPT ![t] = new] /\ new.request = Nothing
        /\ \/ new.at = "idle" /\ new.stream = Nothing
           \/ new.at = "writing" /\ new.stream = s
        /\ last' \in [Streams -> Locations \cup {Nothing}]
        /\ asked' \in [Streams -> Seq(Items)] /\ decoded' \in [Streams -> Seq(Read)]
        /\ \A q \in Streams : Len(decoded'[q]) = Len(asked'[q])
        /\ \A q \in Streams \ {s} : asked'[q] = asked[q] /\ last'[q] = last[q]
        /\ ContentInv'
  <2>1. task[t].delta = Difference(s, task[t].location[2]) /\ task[t].delta \in Nat
    BY <1>3, LocationsAreInts DEF Difference
  <2>2. Sent(t, s, task[t].location, task[t].kind, task[t].delta)
    BY <1>1 DEF SubgroupOpened
  <2>3. PICK location \in Locations, kind \in Headers, delta \in Nat :
          location = task[t].location /\ kind = task[t].kind /\ delta = task[t].delta
    BY <1>3, <2>1
  <2>4. /\ Sent(t, s, location, kind, delta) /\ delta = Difference(s, location[2])
        /\ location[1] = header[s].group /\ header[s].kind = kind
    BY <1>3, <2>1, <2>2, <2>3
  <2>5. IInv /\ s \in Opened1 /\ header[s].request \in Subscriptions
        /\ task[t].at \in {"idle", "header"} /\ UNCHANGED <<opened, header, stale>>
    BY <1>3, <1>4
  <2> QED BY ONLY <2>4, <2>5, t \in Tasks, s \in Opened1, location \in Locations,
                  kind \in Headers, delta \in Nat, SentContent
<1>6. /\ task' \in [Tasks -> Calls] /\ task'[t] = new
      /\ \A u \in Tasks \ {t} : task'[u] = task[u]
  BY <1>5, TaskChanges DEF IInv
<1>7. /\ subgroups' \in [Subscriptions -> Streams \cup {Nothing}] /\ subgroups'[r] = s
      /\ \A q \in Subscriptions \ {r} : subgroups'[q] = subgroups[q]
  BY <1>3, <1>4 DEF IInv, Types
<1>8. Types'
  BY <1>4, <1>5, <1>6, <1>7 DEF IInv, Types
<1>9. OpenedInv'
  <2>1. \A q \in Streams : q > opened => q # s
    BY DEF IInv, Types, Opened1
  <2>2. Open(s)
    BY <1>3 DEF Open, Opened1, IInv, Types
  <2>3. \A u \in Tasks : /\ task'[u].stream # Nothing => Open(task'[u].stream)
                         /\ task'[u].at \in {"replacing", "header", "writing", "ending"} =>
                              task'[u].stream # Nothing
    BY <1>3, <1>5, <1>6, <2>2 DEF IInv, OpenedInv
  <2>4. \A q \in Subscriptions : subgroups'[q] # Nothing => Open(subgroups'[q])
    BY <1>7, <2>2 DEF IInv, OpenedInv
  <2> QED BY <1>4, <1>5, <2>1, <2>3, <2>4, ZenonT(60) DEF IInv, OpenedInv, Open, Opened1
<1>10. CallInv' /\ HeadersInv' /\ FinInv' /\ CountedInv'
  BY <1>3, <1>4, <1>5, <1>6, SMTT(30) DEF IInv, CallInv, HeadersInv, FinInv, CountedInv, Opened1
<1>11. RegisteredInv'
  BY <1>3, <1>4, <1>7 DEF IInv, RegisteredInv
<1>12. NewInv'
  <2>1. ASSUME NEW u \in Tasks, task'[u].at = "header"
        PROVE  /\ u # t /\ task[u].at = "header" /\ task[u].stream # s
               /\ task[u].stream \in Streams
    BY <1>3, <1>5, <1>6, <2>1 DEF IInv, OpenedInv, Open
  <2>2. ASSUME NEW u \in Tasks, task'[u].at = "header"
        PROVE  /\ task'[u] = task[u] /\ task[u].at = "header"
               /\ \A v \in Tasks : task'[v].at \in {"header", "writing"}
                                 /\ task'[v].stream = task[u].stream => v = u
    <3>1. u # t /\ task'[u] = task[u] /\ task[u].at = "header" /\ task[u].stream # s
      BY <1>5, <1>6, <2>1, <2>2
    <3>2. \A v \in Tasks : task[v].at \in {"header", "writing"}
                         /\ task[v].stream = task[u].stream => v = u
      BY <3>1 DEF IInv, NewInv
    <3> QED BY <1>5, <1>6, <3>1, <3>2
  <2>3. ASSUME NEW u \in Tasks, task'[u].at = "header", NEW q \in Streams, q = task[u].stream
        PROVE  /\ asked'[q] = <<>> /\ last'[q] = Nothing
               /\ \A p \in Subscriptions : subgroups'[p] # q
    BY <1>4, <1>5, <1>6, <1>7, <2>1, <2>2, <2>3 DEF IInv, NewInv
  <2> QED BY <1>4, <2>1, <2>2, <2>3 DEF IInv, NewInv
<1>13. t \in Openers(r) /\ Openers(r)' = Openers(r) \ {t}
       /\ \A q \in Subscriptions \ {r} : Openers(q)' = Openers(q)
  BY <1>2, <1>3, <1>5, <1>6 DEF Openers
<1>14. OneOpener'
  <2>1. r \notin crossed => Openers(r)' = {}
    BY <1>13 DEF IInv, OneOpener
  <2> QED BY <1>4, <1>7, <1>13, <2>1 DEF IInv, OneOpener
<1>15. NoStreamLeft'
  <2>1. Subgroups' = Subgroups /\ \A q \in Subgroups : q \in Streams
    BY <1>4 DEF Subgroups, IInv, Types
  <2>2. ASSUME NEW q \in Subgroups \ cut, ended[q] = "no", header[q].request \notin crossed
        PROVE  \/ subgroups'[header[q].request] = q
               \/ \E u \in Tasks : task'[u].at = "header" /\ task'[u].stream = q
    <3>1. header[q].request \in Subscriptions
      BY DEF Subgroups
    <3>2. CASE q = s
      BY <1>3, <1>7, <3>2
    <3>3. CASE q # s /\ header[q].request = r
      <4>1. subgroups[r] = Nothing /\ \A u \in Openers(r) : u = t
        BY <1>13, <2>2, <3>3 DEF IInv, OneOpener
      <4>2. q # Nothing
        BY <2>1
      <4>3. PICK u \in Tasks : task[u].at = "header" /\ task[u].stream = q
        BY <2>2, <3>3, <4>1, <4>2 DEF IInv, NoStreamLeft
      <4>4. task[u].request = r
        BY <3>3, <4>3 DEF IInv, NewInv
      <4>5. u \in Openers(r)
        BY <4>3, <4>4 DEF Openers
      <4> QED BY <1>1, <3>3, <4>1, <4>3, <4>5
    <3>4. CASE q # s /\ header[q].request # r
      <4>1. CASE subgroups[header[q].request] = q
        BY <1>7, <3>1, <3>4, <4>1
      <4>2. CASE \E u \in Tasks : task[u].at = "header" /\ task[u].stream = q
        BY <1>1, <1>6, <3>4, <4>2
      <4> QED BY <2>2, <4>1, <4>2 DEF IInv, NoStreamLeft
    <3> QED BY <3>2, <3>3, <3>4
  <2> QED BY <1>4, <2>1, <2>2 DEF NoStreamLeft
<1>16. SessionAgrees'
  BY <1>3, <1>4, <1>5, <1>6 DEF IInv, SessionAgrees
<1> QED BY <1>5, <1>8, <1>9, <1>10, <1>11, <1>12, <1>14, <1>15, <1>16 DEF IInv, ContentInv

\* The peer reads a Location of the fields of an object on a fetch stream, and the one
\* that was sent when the differences start from the object before.
LEMMA PeerFindsFetched ==
  ASSUME IInv, NEW s \in Streams, FetchOf(s), NEW location \in Locations
  PROVE  /\ PeerFetch(s, FetchFields(s, location)) \in Int \X Int
         /\ s \notin stale /\ Writers(s) = {} =>
              PeerFetch(s, FetchFields(s, location)) = location
<1>1. /\ location[1] \in Nat /\ location[2] \in Nat /\ location = <<location[1], location[2]>>
  BY LocationsAreInts
<1>2. /\ asked[s] \in Seq(Items) /\ decoded[s] \in Seq(Read) /\ Len(decoded[s]) = Len(asked[s])
      /\ last[s] \in Locations \cup {Nothing}
  BY DEF IInv, Types
<1>3. Nothing \notin Int
  OBVIOUS
<1>4. CASE decoded[s] = <<>>
  <2>1. asked[s] = <<>> /\ last[s] = Nothing
    BY <1>2, <1>4, EmptySeq DEF FetchOf
  <2>2. FetchFields(s, location) = [group |-> location[1], object |-> location[2]]
    BY <2>1 DEF FetchFields
  <2>3. PeerFetch(s, FetchFields(s, location)) = <<location[1], location[2]>>
    BY <1>4, <2>2 DEF PeerFetch
  <2> QED BY <1>1, <2>3, LocationsAreInts
<1>5. CASE decoded[s] # <<>>
  <2> DEFINE fields == FetchFields(s, location)
  <2>1. PICK before : /\ before = Last(decoded[s]).location /\ before[1] \in Int /\ before[2] \in Int
                      /\ decoded[s] = asked[s] => before = LastAsked(s)
    <3>1. Len(decoded[s]) \in 1 .. Len(decoded[s])
      BY <1>2, <1>5, EmptySeq, LenProperties
    <3>2. decoded[s][Len(decoded[s])] \in Read
      BY <1>2, <3>1, ElementOfSeq
    <3>3. Last(decoded[s]).location \in Int \X Int
      BY <3>2 DEF Read, Last
    <3>4. Last(decoded[s]).location[1] \in Int /\ Last(decoded[s]).location[2] \in Int
      BY ONLY <3>3, Pairs
    <3> QED BY <1>5, <3>4 DEF LastAsked, Last
  <2>2. last[s] # Nothing => last[s][1] \in Nat /\ last[s][2] \in Nat
                             /\ last[s] = <<last[s][1], last[s][2]>>
    BY <1>2, LocationsAreInts
  <2>3. CASE last[s] = Nothing
    <3>1. fields.group = location[1] /\ fields.object = location[2]
      BY <2>3 DEF FetchFields
    <3>2. PeerFetch(s, fields) = <<IF header[s].request \in Descending
                                   THEN before[1] - location[1] - 1
                                   ELSE before[1] + location[1] + 1, location[2]>>
      BY <1>1, <1>3, <1>5, <2>1, <3>1 DEF PeerFetch
    <3>3. ~(s \notin stale /\ Writers(s) = {})
      <4>1. LastAsked(s) = Nothing => asked[s] = <<>>
        <5>1. ASSUME asked[s] # <<>> PROVE LastAsked(s) \in Locations
          <6>1. Len(asked[s]) \in 1 .. Len(asked[s])
            BY <1>2, <5>1, EmptySeq, LenProperties
          <6>2. asked[s][Len(asked[s])] \in Items
            BY <1>2, <6>1, ElementOfSeq
          <6> QED BY <5>1, <6>2 DEF LastAsked, Items
        <5> QED BY <5>1, NothingNowhere
      <4>2. asked[s] # <<>>
        BY <1>2, <1>5, EmptySeq
      <4> QED BY <2>3, <4>1, <4>2 DEF FetchOf
    <3> QED BY <1>1, <2>1, <3>2, <3>3
  <2>4. CASE last[s] # Nothing /\ location[1] = last[s][1]
    <3>1. fields.group = Nothing /\ fields.object = location[2] - last[s][2]
      BY <2>4 DEF FetchFields
    <3>2. PeerFetch(s, fields) = <<before[1], before[2] + (location[2] - last[s][2])>>
      BY <1>5, <2>1, <3>1 DEF PeerFetch
    <3>3. s \notin stale /\ Writers(s) = {} => before = last[s]
      BY <2>1 DEF FetchOf
    <3> QED BY <1>1, <2>1, <2>2, <2>4, <3>2, <3>3
  <2>5. CASE last[s] # Nothing /\ location[1] # last[s][1]
    <3>1. /\ fields.group = IF header[s].request \in Descending
                            THEN last[s][1] - location[1] - 1 ELSE location[1] - last[s][1] - 1
          /\ fields.object = location[2]
      BY <2>5 DEF FetchFields
    <3>2. fields.group \in Int
      BY <1>1, <2>2, <2>5, <3>1
    <3>3. PeerFetch(s, fields) = <<IF header[s].request \in Descending
                                   THEN before[1] - fields.group - 1
                                   ELSE before[1] + fields.group + 1, location[2]>>
      BY <1>3, <1>5, <2>1, <3>1, <3>2 DEF PeerFetch
    <3>4. s \notin stale /\ Writers(s) = {} => before = last[s]
      BY <2>1 DEF FetchOf
    <3> QED BY <1>1, <2>1, <2>2, <2>5, <3>1, <3>2, <3>3, <3>4
  <2> QED BY <2>3, <2>4, <2>5
<1> QED BY <1>4, <1>5

\* A write on a fetch stream begins.
LEMMA WritingInv ==
  ASSUME IInv, NEW t \in Tasks, NEW s \in fetch_streams, NEW location \in Locations,
         NEW there \in Int \X Int, task[t] = Idle, Writing(t, s, location, there),
         s \notin stale /\ Writers(s) = {} => there = location
  PROVE  IInv'
<1>1. /\ s \in Streams /\ s \in Opened1 /\ s <= opened /\ header[s].request \in Fetches
      /\ header[s].kind = Nothing /\ ended[s] = "no" /\ header[s] # Nothing
      /\ (\A r \in Subscriptions : subgroups[r] # s)
  BY DEF IInv, Types, OpenedInv, Opened1, RegisteredInv, HeadersInv
<1>2. PICK new \in Calls : /\ task' = [task EXCEPT ![t] = new] /\ new.at = "writing"
                           /\ new.stream = s /\ new.location = location /\ new.request = Nothing
  <2> DEFINE call == [Idle EXCEPT !.at = "writing", !.stream = s, !.location = location]
  <2>1. call \in Calls /\ call.at = "writing" /\ call.stream = s /\ call.location = location
        /\ call.request = Nothing
    BY <1>1 DEF Idle, Calls, Places, Kinds
  <2>2. task' = [task EXCEPT ![t] = call]
    BY DEF Writing
  <2> QED BY <2>1, <2>2
<1>3. /\ stale' = IF Writers(s) # {} THEN stale \cup {s} ELSE stale
      /\ Wire(s, location, Nothing, there) /\ task[t].at = "idle" /\ task[t].stream = Nothing
      /\ UNCHANGED <<opened, header, subgroups, fetch_streams, last, ended, core_open,
                     cut, crossed>>
  BY IdleCall DEF Writing, Writers
<1>4. /\ asked' \in [Streams -> Seq(Items)] /\ decoded' \in [Streams -> Seq(Read)]
      /\ \A q \in Streams \ {s} : asked'[q] = asked[q] /\ decoded'[q] = decoded[q]
      /\ asked'[s] = Append(asked[s], [location |-> location, kind |-> Nothing])
      /\ decoded'[s] = Append(decoded[s], [location |-> there, kind |-> header[s].kind])
      /\ \A q \in Streams : Len(decoded'[q]) = Len(asked'[q])
      /\ asked'[s] # <<>> /\ LastAsked(s)' = location
      /\ \A q \in Streams \ {s} : LastAsked(q)' = LastAsked(q)
  <2>1. Nothing \in Kinds
    BY DEF Kinds
  <2> QED BY <1>1, <1>3, <2>1, Wired DEF IInv
<1>5. /\ task' \in [Tasks -> Calls] /\ task'[t] = new
      /\ \A u \in Tasks \ {t} : task'[u] = task[u]
  BY <1>2, TaskChanges DEF IInv
<1>6. Types'
  BY <1>1, <1>3, <1>4, <1>5 DEF IInv, Types
<1>7. OpenedInv'
  <2>1. \A q \in Streams : q > opened => q # s
    BY <1>1 DEF IInv, Types
  <2>2. \A u \in Tasks : /\ task'[u].stream # Nothing => Open(task'[u].stream)
                         /\ task'[u].at \in {"replacing", "header", "writing", "ending"} =>
                              task'[u].stream # Nothing
    <3>1. Open(s) /\ s # Nothing
      BY <1>1 DEF Open
    <3> QED BY <1>2, <1>3, <1>5, <3>1 DEF IInv, OpenedInv
  <2> QED BY <1>3, <1>4, <2>1, <2>2 DEF IInv, OpenedInv, Open, Opened1
<1>8. CallInv' /\ HeadersInv' /\ RegisteredInv' /\ FinInv' /\ CountedInv'
  BY <1>2, <1>3, <1>5 DEF IInv, CallInv, HeadersInv, RegisteredInv, FinInv, CountedInv, Opened1
<1>9. NewInv'
  <2>1. ASSUME NEW u \in Tasks, task'[u].at = "header"
        PROVE  /\ u # t /\ task'[u] = task[u] /\ task[u].at = "header"
               /\ task[u].stream # s /\ task[u].stream \in Streams
    BY <1>2, <1>5, <2>1 DEF IInv, NewInv, OpenedInv, Open
  <2>2. ASSUME NEW u \in Tasks, task'[u].at = "header"
        PROVE  \A v \in Tasks : task'[v].at \in {"header", "writing"}
                                /\ task'[v].stream = task[u].stream => v = u
    <3>1. \A v \in Tasks : task[v].at \in {"header", "writing"}
                         /\ task[v].stream = task[u].stream => v = u
      BY <2>1, <2>2 DEF IInv, NewInv
    <3> QED BY <1>2, <1>5, <2>1, <2>2, <3>1
  <2>3. ASSUME NEW u \in Tasks, task'[u].at = "header"
        PROVE  asked'[task[u].stream] = <<>>
    BY <1>4, <2>1, <2>3, ZenonT(60) DEF IInv, NewInv
  <2> QED BY <1>3, <2>1, <2>2, <2>3 DEF IInv, NewInv
<1>10. OneOpener'
  <2>1. \A q \in Subscriptions : Openers(q)' = Openers(q)
    BY <1>2, <1>3, <1>5 DEF Openers
  <2> QED BY <1>3, <2>1 DEF IInv, OneOpener
<1>11. SubgroupInv'
  <2>1. ASSUME NEW q \in Opened1, header[q].request \in Subscriptions
        PROVE  q # s /\ q \in Streams
    BY <1>1, <2>1 DEF Opened1, IInv, Types
  <2> QED BY <1>3, <1>4, <2>1, ZenonT(60) DEF IInv, SubgroupInv, Opened1
<1>12. FetchInv'
  <2>1. ASSUME NEW q \in Opened1, header[q].request \in Fetches, q # s
        PROVE  FetchOf(q)'
    <3>1. q \in Streams
      BY DEF Opened1, IInv, Types
    <3>2. /\ Writers(q)' = Writers(q)
          /\ \A u \in Writers(q) : task'[u] = task[u]
      BY <1>2, <1>3, <1>5, <2>1 DEF Writers
    <3>3. FetchOf(q) /\ (q \notin stale' => q \notin stale)
      BY <1>3, <2>1 DEF IInv, FetchInv
    <3>4. /\ asked'[q] = asked[q] /\ decoded'[q] = decoded[q] /\ last'[q] = last[q]
          /\ LastAsked(q)' = LastAsked(q)
      BY <1>3, <1>4, <2>1, <3>1
    <3> QED BY <3>2, <3>3, <3>4 DEF FetchOf
  <2>2. FetchOf(s)'
    <3>1. FetchOf(s)
      BY <1>1 DEF IInv, FetchInv
    <3>2. Writers(s)' = Writers(s) \cup {t} /\ t \notin Writers(s)
      BY <1>2, <1>3, <1>5 DEF Writers
    <3>3. \A u \in Writers(s) : task'[u] = task[u]
      BY <1>5, <3>2 DEF Writers
    <3>4. \A u \in Writers(s)' : task'[u].location \in Locations
      BY <1>2, <1>5, <3>1, <3>2, <3>3 DEF FetchOf
    <3>5. s \notin stale' => /\ s \notin stale /\ Writers(s) = {} /\ decoded'[s] = asked'[s]
                             /\ Writers(s)' = {t} /\ task'[t].location = LastAsked(s)'
      <4>1. s \notin stale' => s \notin stale /\ Writers(s) = {}
        BY <1>3
      <4>2. s \notin stale => Writers(s) # {} \/ decoded[s] = asked[s]
        BY <3>1 DEF FetchOf
      <4> QED BY <1>1, <1>2, <1>4, <1>5, <3>2, <4>1, <4>2
    <3> QED BY <1>4, <3>2, <3>4, <3>5 DEF FetchOf
  <2> QED BY <1>3, <2>1, <2>2 DEF FetchInv, Opened1
<1>13. NoStreamLeft' /\ SessionAgrees'
  BY <1>2, <1>3, <1>5 DEF IInv, NoStreamLeft, SessionAgrees, Subgroups
<1> QED BY <1>6, <1>7, <1>8, <1>9, <1>10, <1>11, <1>12, <1>13 DEF IInv

LEMMA FetchedInv ==
  ASSUME IInv, NEW t \in Tasks, NEW s \in Streams, NEW location \in Locations,
         SendFetched(t, s, location) \/ SendEndOfRange(t, s, location)
  PROVE  IInv'
<1>1. s \in fetch_streams /\ task[t] = Idle /\ FetchOf(s)
  BY DEF SendFetched, SendEndOfRange, IInv, OpenedInv, RegisteredInv, FetchInv
<1>2. CASE SendFetched(t, s, location)
  <2>1. PICK there \in Int \X Int : there = PeerFetch(s, FetchFields(s, location))
    BY <1>1, PeerFindsFetched
  <2>2. Writing(t, s, location, there)
    BY <1>2, <2>1 DEF SendFetched
  <2>3. s \notin stale /\ Writers(s) = {} => there = location
    BY <1>1, <2>1, PeerFindsFetched
  <2> QED BY <1>1, <2>2, <2>3, WritingInv
<1>3. CASE SendEndOfRange(t, s, location)
  <2>1. Writing(t, s, location, location) /\ location \in Int \X Int
    BY <1>3, LocationsAreInts DEF SendEndOfRange
  <2> QED BY <1>1, <2>1, WritingInv
<1> QED BY <1>2, <1>3

-----------------------------------------------------------------------------
(* The theorems.                                                           *)

LEMMA StutterInv ==
  ASSUME IInv, UNCHANGED vars
  PROVE  IInv'
<1>1. UNCHANGED <<opened, header, subgroups, fetch_streams, last, ended, core_open, task,
                  asked, decoded, stale, cut, crossed>>
  BY DEF vars
<1>2. Types' /\ OpenedInv' /\ CallInv' /\ HeadersInv' /\ NewInv' /\ RegisteredInv' /\ FinInv'
  BY <1>1 DEF IInv, Types, OpenedInv, Open, Opened1, CallInv, HeadersInv, NewInv,
              RegisteredInv, FinInv
<1>3. OneOpener' /\ CountedInv' /\ SubgroupInv' /\ FetchInv'
  BY <1>1 DEF IInv, OneOpener, Openers, CountedInv, SubgroupInv, FetchInv, FetchOf, Writers,
              LastAsked, Opened1
<1>4. NoStreamLeft' /\ SessionAgrees'
  BY <1>1 DEF IInv, NoStreamLeft, SessionAgrees, Subgroups
<1> QED BY <1>2, <1>3, <1>4 DEF IInv

\* Every step keeps the invariant.
LEMMA NextInv ==
  ASSUME IInv, [Next]_vars
  PROVE  IInv'
<1>1. ASSUME NEW t \in Tasks, NEW r \in Subscriptions, NEW location \in Locations,
             NEW kind \in Headers,
             SendSubgroup(t, r, location, kind) \/ SendInNewSubgroup(t, r, location, kind)
      PROVE  IInv'
  BY <1>1, SendSubgroupInv, SendInNewSubgroupInv
<1>2. ASSUME NEW t \in Tasks, NEW r \in Subscriptions, FinishSubgroup(t, r)
      PROVE  IInv'
  BY <1>2, EndsInv
<1>3. ASSUME NEW r \in Subscriptions, ResetSubgroup(r)
      PROVE  IInv'
  BY <1>3, ResetSubgroupInv
<1>4. ASSUME NEW t \in Tasks, NEW r \in Fetches, OpenFetch(t, r)
      PROVE  IInv'
  BY <1>4, OpenFetchInv
<1>5. ASSUME NEW t \in Tasks, NEW s \in Streams, CloseFetch(t, s)
      PROVE  IInv'
  BY <1>5, EndsInv
<1>6. ASSUME NEW t \in Tasks, NEW s \in Streams, NEW location \in Locations,
             SendFetched(t, s, location) \/ SendEndOfRange(t, s, location)
      PROVE  IInv'
  BY <1>6, FetchedInv
<1>7. ASSUME NEW t \in Tasks,
             \/ Replaced(t) \/ Opened(t) \/ SubgroupOpened(t) \/ FetchOpened(t)
             \/ Written(t) \/ EndWritten(t) \/ Interrupted(t)
      PROVE  IInv'
  BY <1>7, ReplacedInv, OpenedStreamInv, SubgroupOpenedInv, FetchOpenedInv, WrittenInv,
     EndWrittenInv, InterruptedInv
<1>8. CASE UNCHANGED vars
  BY <1>8, StutterInv
<1> QED BY <1>1, <1>2, <1>3, <1>4, <1>5, <1>6, <1>7, <1>8 DEF Next

\* A stream that has ended is not one that objects are sent on, and not ended again: it
\* is not registered, and no header is being written on it.
LEMMA NextNothingAfterEnd ==
  ASSUME IInv, Next
  PROVE  \A s \in Streams : ended[s] # "no" => asked'[s] = asked[s] /\ ended'[s] = ended[s]
<1> SUFFICES ASSUME NEW s \in Streams, ended[s] # "no"
             PROVE  asked'[s] = asked[s] /\ ended'[s] = ended[s]
  OBVIOUS
<1>1. /\ \A r \in Subscriptions : subgroups[r] # s
      /\ s \notin fetch_streams
      /\ \A t \in Tasks : task[t].at = "header" => task[t].stream # s
      /\ asked \in [Streams -> Seq(Items)] /\ ended \in [Streams -> {"no", "fin", "reset"}]
  BY DEF IInv, Types, RegisteredInv, NewInv
<1>2. ASSUME NEW q \in Streams, q # s, NEW location, NEW kind, NEW there,
             Wire(q, location, kind, there)
      PROVE  asked'[s] = asked[s]
  BY <1>1, <1>2 DEF Wire
<1>3. ASSUME NEW t \in Tasks, NEW r \in Subscriptions, NEW location \in Locations,
             NEW kind \in Headers, SendSubgroup(t, r, location, kind)
      PROVE  asked'[s] = asked[s] /\ ended'[s] = ended[s]
  <2>1. PICK q \in Streams : q = subgroups[r] /\ q # s
    BY <1>1, <1>3 DEF SendSubgroup, IInv, Types
  <2>2. UNCHANGED content \/ Wire(q, location, kind, PeerSubgroup(q, SubgroupDelta(FALSE, q, location[2])))
    BY <1>3, <2>1 DEF SendSubgroup, Sent
  <2> QED BY <1>2, <1>3, <2>1, <2>2 DEF SendSubgroup, content
<1>4. ASSUME NEW t \in Tasks, SubgroupOpened(t)
      PROVE  asked'[s] = asked[s] /\ ended'[s] = ended[s]
  <2>1. PICK q \in Streams : q = task[t].stream /\ q # s
    BY <1>1, <1>4 DEF SubgroupOpened, IInv, OpenedInv, Open
  <2>2. UNCHANGED content \/ Wire(q, task[t].location, task[t].kind, PeerSubgroup(q, task[t].delta))
    BY <1>4, <2>1 DEF SubgroupOpened, Sent
  <2> QED BY <1>2, <1>4, <2>1, <2>2 DEF SubgroupOpened, content
<1>5. ASSUME NEW t \in Tasks, NEW q \in Streams, NEW location \in Locations,
             SendFetched(t, q, location) \/ SendEndOfRange(t, q, location)
      PROVE  asked'[s] = asked[s] /\ ended'[s] = ended[s]
  <2>1. q # s /\ ended' = ended
    BY <1>1, <1>5 DEF SendFetched, SendEndOfRange, Writing
  <2>2. \E there : Wire(q, location, Nothing, there)
    BY <1>5 DEF SendFetched, SendEndOfRange, Writing
  <2> QED BY <1>2, <2>1, <2>2
<1>6. ASSUME NEW t \in Tasks, NEW r \in Subscriptions, NEW location \in Locations,
             NEW kind \in Headers, SendInNewSubgroup(t, r, location, kind)
      PROVE  asked'[s] = asked[s] /\ ended'[s] = ended[s]
  BY <1>1, <1>6 DEF SendInNewSubgroup, content
<1>7. ASSUME NEW t \in Tasks, NEW r \in Subscriptions, FinishSubgroup(t, r)
      PROVE  asked'[s] = asked[s] /\ ended'[s] = ended[s]
  BY <1>1, <1>7 DEF FinishSubgroup, content
<1>8. ASSUME NEW r \in Subscriptions, ResetSubgroup(r)
      PROVE  asked'[s] = asked[s] /\ ended'[s] = ended[s]
  BY <1>1, <1>8 DEF ResetSubgroup, content
<1>9. ASSUME NEW t \in Tasks, NEW q \in Streams, CloseFetch(t, q)
      PROVE  asked'[s] = asked[s] /\ ended'[s] = ended[s]
  BY <1>1, <1>9 DEF CloseFetch, content
<1>10. ASSUME NEW t \in Tasks, NEW r \in Fetches, OpenFetch(t, r)
       PROVE  asked'[s] = asked[s] /\ ended'[s] = ended[s]
  BY <1>10 DEF OpenFetch, content
<1>11. ASSUME NEW t \in Tasks,
              \/ Replaced(t) \/ Opened(t) \/ FetchOpened(t) \/ Written(t) \/ EndWritten(t)
              \/ Interrupted(t)
       PROVE  asked'[s] = asked[s] /\ ended'[s] = ended[s]
  BY <1>11 DEF Replaced, Opened, FetchOpened, Written, EndWritten, Interrupted, content
<1> QED BY <1>3, <1>4, <1>5, <1>6, <1>7, <1>8, <1>9, <1>10, <1>11 DEF Next

\* The invariant holds in every behaviour.
THEOREM Invariant == Spec => []IInv
BY InitInv, NextInv, PTL DEF Spec

\* The variables keep their types (ObjectWriters!TypeOK).
THEOREM TypeCorrect == Spec => []TypeOK
BY Invariant, Parts, PTL

\* The peer resolves the differences to what the application asked for: a difference that
\* send_subgroup_object or send_fetch_stream_object computes before it awaits is right when
\* it is written, in either group order.
THEOREM WritersDecode == Spec => []PeerDecodes
BY Invariant, Parts, PTL

\* No stream that the application opened is forgotten by _subgroups or by the session,
\* apart from the ones whose opening crossed another or was interrupted.
THEOREM StreamsAreKnown == Spec => []OpenStreamsKnown
BY Invariant, Parts, PTL

\* Nothing is written on a stream after its FIN or its reset, and it ends once.
THEOREM EndIsFinal == Spec => NothingAfterEnd
<1>1. IInv /\ [Next]_vars =>
        [\A s \in Streams : ended[s] # "no" => asked'[s] = asked[s] /\ ended'[s] = ended[s]]_vars
  BY NextNothingAfterEnd
<1> QED BY Invariant, <1>1, PTL DEF Spec, NothingAfterEnd


-----------------------------------------------------------------------------
(* What is written on the streams (ObjectEncoding): PeerReads.             *)

HIDE WritersAssumption DEF WritersAssumption, Fetches, Streams

-----------------------------------------------------------------------------
(* Sequences that are put together and taken apart.                        *)

\* What holds of 0 and is passed on by every number below m holds up to m.
LEMMA UpTo ==
  ASSUME NEW m \in Nat, NEW T, 0 \in T, \A n \in 0 .. m - 1 : n \in T => n + 1 \in T
  PROVE  \A n \in 0 .. m : n \in T
<1> DEFINE S == {n \in 0 .. m : n \notin T}
<1> SUFFICES ASSUME S # {} PROVE FALSE
  OBVIOUS
<1>1. S \subseteq Nat
  OBVIOUS
<1>2. PICK k \in S : \A i \in S : ~(<<i, k>> \in OpToRel(<, Nat))
  <2> HIDE DEF S
  <2> QED BY <1>1, NatLessThanWellFounded, WFMin
<1>3. \A i \in S : ~(i < k)
  BY <1>1, <1>2 DEF OpToRel
<1>4. k \in 0 .. m /\ k \notin T /\ k # 0
  BY <1>2
<1>5. k - 1 \in 0 .. m - 1 /\ k - 1 < k /\ (k - 1) + 1 = k /\ k - 1 \in 0 .. m
  BY <1>4
<1>6. k - 1 \in T
  BY <1>3, <1>5
<1> QED BY <1>4, <1>5, <1>6

\* One number, and what follows it.
LEMMA AfterFirst ==
  ASSUME NEW S, NEW x \in S, NEW z \in Seq(S), NEW w, w = <<x>> \o z
  PROVE  /\ w \in Seq(S) /\ w # <<>> /\ Len(w) = Len(z) + 1
         /\ Head(w) = x /\ w[1] = x /\ Tail(w) = z
<1>1. <<x>> \in Seq(S) /\ Len(<<x>>) = 1 /\ <<x>>[1] = x
  OBVIOUS
<1>2. /\ w \in Seq(S) /\ Len(w) = Len(<<x>>) + Len(z)
      /\ \A i \in 1 .. Len(<<x>>) + Len(z) :
           w[i] = IF i <= Len(<<x>>) THEN <<x>>[i] ELSE z[i - Len(<<x>>)]
  BY <1>1, ConcatProperties
<1>3. Len(z) \in Nat /\ Len(w) = Len(z) + 1 /\ w[1] = x
      /\ \A i \in 1 .. Len(z) : w[i + 1] = z[i]
  BY <1>1, <1>2, LenProperties
<1>4. w # <<>>
  BY <1>3, EmptySeq
<1>5. /\ Tail(w) \in Seq(S) /\ Len(Tail(w)) = Len(w) - 1
      /\ \A i \in 1 .. Len(Tail(w)) : Tail(w)[i] = w[i + 1]
  BY <1>2, <1>4, HeadTailProperties
<1>6. Tail(w) = z
  BY <1>3, <1>5, SeqEqual
<1>7. Head(w) = w[1]
  BY <1>2, <1>4
<1> QED BY <1>2, <1>3, <1>4, <1>6, <1>7

\* A part of known length, and what follows it.
LEMMA Cut1 ==
  ASSUME NEW S, NEW b \in Seq(S), NEW z \in Seq(S), NEW w, w = b \o z
  PROVE  /\ w \in Seq(S) /\ Len(w) = Len(b) + Len(z)
         /\ Len(b) \in Nat /\ Len(z) \in Nat
         /\ \A i \in 1 .. Len(b) : w[i] = b[i]
         /\ SubSeq(w, 1, Len(b)) = b /\ SubSeq(w, Len(b) + 1, Len(w)) = z
<1>0. PICK m, n : m = Len(b) /\ n = Len(z)
  OBVIOUS
<1>1. m \in Nat /\ n \in Nat
  BY <1>0, LenProperties
<1>2. /\ w \in Seq(S) /\ Len(w) = m + n
      /\ \A i \in 1 .. m + n : w[i] = IF i <= m THEN b[i] ELSE z[i - m]
  BY <1>0, ConcatProperties
<1>3. \A i \in 1 .. m : w[i] = b[i]
  BY ONLY <1>1, <1>2
<1>4. \A i \in 1 .. n : w[m + i] = z[i]
  BY ONLY <1>1, <1>2
<1>5. \A i \in 1 .. m + n : w[i] \in S
  BY ONLY <1>1, <1>2, ElementOfSeq
<1>6. SubSeq(w, 1, m) = b
  <2>1. PICK v : v = SubSeq(w, 1, m)
    OBVIOUS
  <2>2. /\ v \in Seq(S) /\ Len(v) = IF 1 <= m THEN m - 1 + 1 ELSE 0
        /\ \A i \in 1 .. m - 1 + 1 : v[i] = w[1 + i - 1]
    <3>1. 1 \in Int /\ m \in Int /\ \A i \in 1 .. m : w[i] \in S
      BY ONLY <1>1, <1>5
    <3> QED BY ONLY <2>1, <3>1, SubSeqProperties
  <2>3. Len(v) = m /\ \A i \in 1 .. m : v[i] = b[i]
    BY ONLY <1>1, <1>3, <2>2
  <2>4. Len(v) = Len(b) /\ \A i \in 1 .. Len(v) : v[i] = b[i]
    BY <1>0, <2>3
  <2>5. v = b
    BY <2>2, <2>4, SeqEqual
  <2> QED BY <2>1, <2>5
<1>7. SubSeq(w, m + 1, m + n) = z
  <2>0. PICK l, h : l = m + 1 /\ h = m + n
    OBVIOUS
  <2>1. PICK v : v = SubSeq(w, l, h)
    OBVIOUS
  <2>2. /\ v \in Seq(S) /\ Len(v) = IF l <= h THEN h - l + 1 ELSE 0
        /\ \A i \in 1 .. h - l + 1 : v[i] = w[l + i - 1]
    <3>1. l \in Int /\ h \in Int /\ \A i \in l .. h : w[i] \in S
      BY ONLY <1>1, <1>5, <2>0
    <3> QED BY ONLY <2>1, <3>1, SubSeqProperties
  <2>3. Len(v) = n /\ h - l + 1 = n
    BY <1>1, <2>0, <2>2
  <2>4. \A i \in 1 .. n : v[i] = z[i]
    <3> SUFFICES ASSUME NEW i \in 1 .. n PROVE v[i] = z[i]
      OBVIOUS
    <3>1. i \in 1 .. h - l + 1 /\ l + i - 1 = m + i
      BY <1>1, <2>0, <2>3
    <3> QED BY <1>4, <2>2, <3>1
  <2>5. Len(v) = Len(z) /\ \A i \in 1 .. Len(v) : v[i] = z[i]
    BY <1>0, <2>3, <2>4
  <2>6. v = z
    BY <2>2, <2>5, SeqEqual
  <2> QED BY <2>0, <2>1, <2>6
<1> QED BY <1>0, <1>1, <1>2, <1>3, <1>6, <1>7


\* What is written: numbers, and what follows them.
Words == Seq(Nat)
Join(a, b) == a \o b
One(x) == <<x>>

\* Putting words together: the unit, and in which order does not matter.
LEMMA Joins ==
  /\ <<>> \in Words
  /\ \A x \in Nat : One(x) \in Words /\ One(x) # <<>>
  /\ \A a, b \in Words : Join(a, b) \in Words
  /\ \A a \in Words : Join(a, <<>>) = a /\ Join(<<>>, a) = a
  /\ \A a, b, c \in Words : Join(Join(a, b), c) = Join(a, Join(b, c))
<1>1. <<>> \in Words
  BY DEF Words
<1>2. \A x \in Nat : One(x) \in Words /\ One(x) # <<>>
  BY DEF Words, One
<1>3. ASSUME NEW a \in Words, NEW b \in Words PROVE Join(a, b) \in Words
  <2>1. a \in Seq(Nat) /\ b \in Seq(Nat)
    BY DEF Words
  <2> QED BY <2>1, ConcatProperties DEF Words, Join
<1>4. ASSUME NEW a \in Words PROVE Join(a, <<>>) = a /\ Join(<<>>, a) = a
  BY ConcatEmptySeq DEF Words, Join
<1>5. ASSUME NEW a \in Words, NEW b \in Words, NEW c \in Words
      PROVE  Join(Join(a, b), c) = Join(a, Join(b, c))
  <2>1. PICK S : S = Nat
    OBVIOUS
  <2>2. a \in Seq(S) /\ b \in Seq(S) /\ c \in Seq(S)
    BY <2>1 DEF Words
  <2> QED BY ONLY <2>2, ConcatAssociative DEF Join
<1> QED BY <1>1, <1>2, <1>3, <1>4, <1>5

\* Three and four parts, and what follows them.
LEMMA Three ==
  ASSUME NEW a \in Words, NEW b \in Words, NEW c \in Words, NEW z \in Words
  PROVE  Join(Join(Join(a, b), c), z) = Join(a, Join(b, Join(c, z)))
<1>1. PICK d : d = Join(a, b)
  OBVIOUS
<1>2. d \in Words /\ Join(c, z) \in Words
  BY <1>1, Joins
<1> QED BY <1>1, <1>2, Joins

\* The same of four parts.
LEMMA Four ==
  ASSUME NEW a \in Words, NEW b \in Words, NEW c \in Words, NEW e \in Words, NEW z \in Words
  PROVE  Join(Join(Join(Join(a, b), c), e), z) = Join(a, Join(b, Join(c, Join(e, z))))
<1>1. PICK d : d = Join(a, b)
  OBVIOUS
<1>2. d \in Words
  BY <1>1, Joins
<1>3. Join(Join(Join(d, c), e), z) = Join(d, Join(c, Join(e, z))) /\ Join(c, Join(e, z)) \in Words
  BY <1>2, Three, Joins
<1> QED BY <1>1, <1>3, Joins

\* What follows one number, and what follows a part of known length.
LEMMA AfterOne ==
  ASSUME NEW x \in Nat, NEW z \in Words, NEW w, w = Join(One(x), z)
  PROVE  w \in Words /\ w # <<>> /\ Head(w) = x /\ w[1] = x /\ Tail(w) = z /\ Len(w) = Len(z) + 1
<1>1. z \in Seq(Nat) /\ w = <<x>> \o z
  BY DEF Words, Join, One
<1>2. w \in Seq(Nat) /\ w # <<>> /\ Head(w) = x /\ w[1] = x /\ Tail(w) = z /\ Len(w) = Len(z) + 1
  BY ONLY <1>1, AfterFirst, x \in Nat
<1> QED BY <1>2 DEF Words

CutAt(w, b, z) ==
  /\ w \in Words /\ Len(w) = Len(b) + Len(z)
  /\ Len(b) \in Nat /\ Len(z) \in Nat
  /\ \A i \in 1 .. Len(b) : w[i] = b[i]
  /\ SubSeq(w, 1, Len(b)) = b /\ SubSeq(w, Len(b) + 1, Len(w)) = z

\* A part of known length comes off the front.
LEMMA Cut == ASSUME NEW b \in Words, NEW z \in Words PROVE CutAt(Join(b, z), b, z)
<1>1. PICK w : w = Join(b, z)
  OBVIOUS
<1>2. b \in Seq(Nat) /\ z \in Seq(Nat) /\ w = b \o z
  BY <1>1 DEF Words, Join
<1>3. CutAt(w, b, z)
  BY ONLY <1>2, Cut1 DEF CutAt, Words
<1> QED BY <1>1, <1>3

\* A length is a number, and zero for nothing only.
LEMMA WordsLen == \A a \in Words : Len(a) \in Nat /\ (a = <<>> <=> Len(a) = 0)
BY LenProperties, EmptySeq DEF Words

-----------------------------------------------------------------------------
(* What is written piece by piece.                                         *)

\* w is the pieces one after the other: z[n] is what is left of it after n of them.
ChainOf(w, pieces, z) ==
  /\ z \in [0 .. Len(pieces) -> Words]
  /\ z[0] = w /\ z[Len(pieces)] = <<>>
  /\ \A n \in 1 .. Len(pieces) : pieces[n] # <<>> /\ z[n - 1] = Join(pieces[n], z[n])
  /\ \A n \in 0 .. Len(pieces) : Len(z[n]) >= Len(pieces) - n

Chained(w, pieces) == pieces \in Seq(Words) /\ \E z : ChainOf(w, pieces, z)

\* Nothing is written as no pieces.
LEMMA ChainNone == Chained(<<>>, <<>>)
<1>1. <<>> \in Words /\ <<>> \in Seq(Words) /\ Len(<<>>) = 0
  BY Joins
<1> DEFINE z == [n \in 0 .. 0 |-> <<>>]
<1>2. z \in [0 .. 0 -> Words] /\ z[0] = <<>>
  BY <1>1
<1>3. \A n \in 0 .. 0 : n = 0 /\ z[n] = <<>>
  OBVIOUS
<1> HIDE DEF z
<1>4. ChainOf(<<>>, <<>>, z)
  BY <1>1, <1>2, <1>3 DEF ChainOf
<1> QED BY <1>1, <1>4 DEF Chained

\* One piece more is written at the end.
LEMMA ChainMore ==
  ASSUME NEW w, NEW pieces, Chained(w, pieces), NEW d \in Words, d # <<>>
  PROVE  /\ Chained(Join(w, d), Append(pieces, d))
         /\ w \in Words /\ pieces \in Seq(Words) /\ Len(pieces) \in Nat
<1>1. pieces \in Seq(Words) /\ Len(pieces) \in Nat
  BY LenProperties DEF Chained
<1>2. PICK z : ChainOf(w, pieces, z)
  BY DEF Chained
<1>3. PICK k : k = Len(pieces)
  OBVIOUS
<1>0. PICK more : more = Append(pieces, d)
  OBVIOUS
<1>4. /\ more \in Seq(Words) /\ Len(more) = k + 1
      /\ \A n \in 1 .. k : more[n] = pieces[n]
      /\ more[k + 1] = d
  BY <1>0, <1>1, <1>3, AppendProperties
<1>5. k \in Nat
  BY <1>1, <1>3
<1>6. z \in [0 .. k -> Words]
  BY <1>2, <1>3 DEF ChainOf
<1>7. z[0] = w /\ z[k] = <<>>
  BY <1>2, <1>3 DEF ChainOf
<1>8. \A n \in 1 .. k : pieces[n] # <<>> /\ z[n - 1] = Join(pieces[n], z[n])
  BY <1>2, <1>3 DEF ChainOf
<1>9. \A n \in 0 .. k : Len(z[n]) >= k - n
  BY <1>2, <1>3 DEF ChainOf
<1>10. Len(d) \in Nat \ {0}
  BY WordsLen
<1>11. w \in Words /\ \A n \in 0 .. k : z[n] \in Words
  BY <1>5, <1>6, <1>7
<1>12. PICK y : y = [n \in 0 .. k + 1 |-> IF n <= k THEN Join(z[n], d) ELSE <<>>]
  OBVIOUS
<1>13. \A n \in 0 .. k : y[n] = Join(z[n], d)
  BY <1>5, <1>12
<1>14. y[k + 1] = <<>>
  BY <1>5, <1>12
<1>15. ASSUME NEW n \in 0 .. k
       PROVE  y[n] \in Words /\ Len(y[n]) = Len(z[n]) + Len(d) /\ Len(z[n]) \in Nat
  <2>1. PICK u, v : u = z[n] /\ v = y[n]
    OBVIOUS
  <2>2. u \in Words /\ v = Join(u, d)
    BY <1>11, <1>13, <2>1
  <2>3. v \in Words /\ Len(v) = Len(u) + Len(d) /\ Len(u) \in Nat
    BY ONLY <2>2, Cut, d \in Words DEF CutAt
  <2> QED BY <2>1, <2>3
<1>16. \A n \in 0 .. k + 1 : n \in 0 .. k \/ n = k + 1
  BY <1>5
<1>17. y \in [0 .. k + 1 -> Words]
  <2>1. \A n \in 0 .. k + 1 : y[n] \in Words
    BY <1>14, <1>15, <1>16, Joins
  <2>2. y = [n \in 0 .. k + 1 |-> y[n]]
    BY <1>12
  <2> QED BY <2>1, <2>2
<1>18. y[0] = Join(w, d)
  <2>1. 0 \in 0 .. k
    BY <1>5
  <2>2. y[0] = Join(z[0], d)
    BY <1>13, <2>1
  <2> QED BY <1>7, <2>2
<1>19. ASSUME NEW n \in 1 .. k PROVE more[n] # <<>> /\ y[n - 1] = Join(more[n], y[n])
  <2>1. n \in 0 .. k /\ n - 1 \in 0 .. k
    BY <1>5
  <2>2. PICK p, u : p = pieces[n] /\ u = z[n]
    OBVIOUS
  <2>3. p \in Words /\ u \in Words /\ p # <<>>
    BY <1>1, <1>3, <1>8, <1>11, <2>1, <2>2, ElementOfSeq
  <2>4. more[n] = p /\ y[n] = Join(u, d) /\ y[n - 1] = Join(z[n - 1], d) /\ z[n - 1] = Join(p, u)
    BY <1>4, <1>8, <1>13, <2>1, <2>2
  <2>5. Join(Join(p, u), d) = Join(p, Join(u, d))
    BY <2>3, Joins
  <2> QED BY <2>3, <2>4, <2>5
<1>20. more[k + 1] # <<>> /\ y[(k + 1) - 1] = Join(more[k + 1], y[k + 1])
  <2>1. (k + 1) - 1 = k /\ k \in 0 .. k
    BY <1>5
  <2>2. y[k] = Join(<<>>, d)
    BY <1>7, <1>13, <2>1
  <2>3. Join(<<>>, d) = d /\ Join(d, <<>>) = d
    BY Joins
  <2> QED BY <1>4, <1>14, <2>1, <2>2, <2>3
<1>21. \A n \in 1 .. k + 1 : more[n] # <<>> /\ y[n - 1] = Join(more[n], y[n])
  <2>1. \A n \in 1 .. k + 1 : n \in 1 .. k \/ n = k + 1
    BY <1>5
  <2> QED BY <1>19, <1>20, <2>1
<1>22. \A n \in 0 .. k + 1 : Len(y[n]) >= (k + 1) - n
  <2>1. ASSUME NEW n \in 0 .. k PROVE Len(y[n]) >= (k + 1) - n
    <3>1. PICK a, b : a = Len(z[n]) /\ b = Len(d)
      OBVIOUS
    <3>2. Len(y[n]) = a + b /\ a \in Nat /\ b \in Nat \ {0} /\ a >= k - n
      BY <1>9, <1>10, <1>15, <3>1
    <3> QED BY <1>5, <3>2
  <2>2. Len(y[k + 1]) = 0
    BY <1>14, WordsLen, Joins
  <2>3. (k + 1) - (k + 1) = 0
    BY <1>5
  <2> QED BY <1>16, <2>1, <2>2, <2>3
<1>23. ChainOf(Join(w, d), more, y)
  BY <1>4, <1>14, <1>17, <1>18, <1>21, <1>22 DEF ChainOf
<1> QED BY <1>0, <1>1, <1>4, <1>11, <1>23 DEF Chained

\* One more element of a sequence given by a function.
LEMMA AppendOne ==
  ASSUME NEW F, NEW l \in Nat, NEW q, q = l + 1
  PROVE  Append([n \in 1 .. l |-> F[n]], F[q]) = [n \in 1 .. q |-> F[n]]
<1>1. PICK S : S = {F[n] : n \in 1 .. q}
  OBVIOUS
<1>2. PICK s, t, u : s = [n \in 1 .. l |-> F[n]] /\ t = [n \in 1 .. q |-> F[n]] /\ u = Append(s, F[q])
  OBVIOUS
<1>3. s \in Seq(S) /\ Len(s) = l
  BY <1>1, <1>2
<1>4. t \in Seq(S) /\ Len(t) = q
  BY <1>1, <1>2
<1>5. F[q] \in S
  BY <1>1
<1>6. u \in Seq(S) /\ Len(u) = l + 1 /\ (\A n \in 1 .. l : u[n] = s[n]) /\ u[l + 1] = F[q]
  BY <1>2, <1>3, <1>5, AppendProperties
<1>7. \A n \in 1 .. q : u[n] = t[n]
  BY <1>2, <1>6
<1>8. u = t
  BY <1>4, <1>6, <1>7, SeqEqual
<1> QED BY <1>2, <1>8

\* A loop of N rounds goes through k known fronts, and stays at the last.
LEMMA LoopEnds ==
  ASSUME NEW N \in Nat, NEW k \in 0 .. N, NEW f, NEW e, f[0] = e[0],
         \A n \in 0 .. N - 1 : \A m \in 0 .. k :
           f[n] = e[m] => f[n + 1] = e[IF m < k THEN m + 1 ELSE k]
  PROVE  f[N] = e[k]
<1> DEFINE T == {n \in 0 .. N : f[n] = e[IF n <= k THEN n ELSE k]}
<1>1. 0 \in T
  OBVIOUS
<1>2. ASSUME NEW n \in 0 .. N - 1, n \in T PROVE n + 1 \in T
  <2>1. CASE n < k
    <3>1. n \in 0 .. k /\ f[n] = e[n]
      BY <1>2, <2>1
    <3>2. f[n + 1] = e[n + 1]
      BY <2>1, <3>1
    <3> QED BY <2>1, <3>2
  <2>2. CASE n >= k
    <3>1. k \in 0 .. k /\ f[n] = e[k] /\ ~(n + 1 <= k)
      BY <1>2, <2>2
    <3>2. f[n + 1] = e[k]
      BY <3>1
    <3> QED BY <3>1, <3>2
  <2> QED BY <2>1, <2>2
<1>3. N \in T
  <2> HIDE DEF T
  <2> QED BY <1>1, <1>2, UpTo
<1> QED BY <1>3
-----------------------------------------------------------------------------
(* The fields, and how they are read.                                      *)

\* A field that may be left out is read back.
LEMMA FieldRead ==
  ASSUME EncodingTypes, NEW v, v = Nothing \/ v \in Nat, NEW z \in Words, NEW w,
         w = Join(Field(v), z)
  PROVE  /\ w \in Words /\ Field(v) \in Words
         /\ v = Nothing => w = z
         /\ v # Nothing => Head(w) = v /\ Tail(w) = z
<1>1. CASE v = Nothing
  <2>1. Field(v) = <<>>
    BY <1>1 DEF Field
  <2> QED BY <1>1, <2>1, Joins
<1>2. CASE v # Nothing
  <2>1. Field(v) = One(v) /\ v \in Nat
    BY <1>2 DEF Field, One
  <2>2. w \in Words /\ Head(w) = v /\ Tail(w) = z
    BY <2>1, AfterOne
  <2> QED BY <1>2, <2>1, <2>2, Joins
<1> QED BY <1>1, <1>2

\* A block of Properties that is accepted is read back, and what follows it is left.
LEMMA PropertiesRead ==
  ASSUME EncodingTypes, NEW block \in Option(Blocks), BlockAccepted(block),
         NEW present \in BOOLEAN, present <=> block # Nothing,
         NEW z \in Words, NEW w, w = Join(Blob(block), z)
  PROVE  /\ w \in Words /\ Blob(block) \in Words
         /\ Peer!Properties(present, w) = [value |-> block, rest |-> z]
<1>1. CASE present
  <2>1. block # Nothing /\ block \in Blocks
    BY <1>1 DEF Option
  <2>2. block \in Words /\ block # <<>> /\ Head(block) = Len(block) - 1
    BY <2>1 DEF EncodingTypes, BlockAccepted, Words
  <2>3. Blob(block) = block
    BY <2>1 DEF Blob
  <2>4. w = Join(block, z)
    BY <2>3
  <2>5. /\ w \in Words /\ Len(w) = Len(block) + Len(z)
        /\ Len(block) \in Nat /\ Len(z) \in Nat
        /\ \A i \in 1 .. Len(block) : w[i] = block[i]
        /\ SubSeq(w, 1, Len(block)) = block /\ SubSeq(w, Len(block) + 1, Len(w)) = z
    <3>1. CutAt(w, block, z)
      BY <2>2, <2>4, Cut
    <3> QED BY ONLY <3>1 DEF CutAt
  <2>6. PICK h : h = Head(w)
    OBVIOUS
  <2>7. h = Head(block)
    <3>1. Len(block) > 0
      BY <2>2, WordsLen
    <3>2. w[1] = block[1]
      BY <2>5, <3>1
    <3>3. Head(w) = w[1] /\ Head(block) = block[1]
      BY <2>2, <2>5, <3>1
    <3> QED BY <2>6, <3>2, <3>3
  <2>8. h + 1 = Len(block) /\ h + 2 = Len(block) + 1
    BY <2>2, <2>5, <2>7
  <2>9. SubSeq(w, 1, h + 1) = block /\ SubSeq(w, h + 2, Len(w)) = z
    BY <2>5, <2>8
  <2> QED BY <1>1, <2>2, <2>3, <2>5, <2>6, <2>9 DEF Peer!Properties
<1>2. CASE ~ present
  <2>1. block = Nothing /\ Blob(block) = <<>>
    BY <1>2 DEF Blob
  <2>2. w = z /\ <<>> \in Words
    BY <2>1, Joins
  <2> QED BY <1>2, <2>1, <2>2 DEF Peer!Properties
<1> QED BY <1>1, <1>2

ContentIs(w, payload, status, contents, z) ==
  /\ payload \in Words /\ Len(payload) \in Nat /\ contents \in Words /\ w \in Words
  /\ SubSeq(w, 1, Len(payload)) = payload
  /\ Len(payload) # 0 => SubSeq(w, Len(payload) + 1, Len(w)) = z
                         /\ StatusToWrite(status, payload) = Nothing
  /\ Len(payload) = 0 => SubSeq(w, 2, Len(w)) = z /\ StatusToWrite(status, payload) = Head(w)
  /\ (IF Len(payload) = 0 THEN Head(w) ELSE 0) = IF status = Nothing THEN 0 ELSE status

\* The length and the payload of an object, or its status in place of a payload.
LEMMA ContentRead ==
  ASSUME EncodingTypes, NEW payload \in Payloads, NEW status \in Option(Statuses),
         StatusAccepted(status, payload),
         NEW z \in Words, NEW contents, NEW w, w = Join(contents, z),
         contents = IF StatusToWrite(status, payload) = Nothing THEN payload
                   ELSE One(StatusToWrite(status, payload))
  PROVE  ContentIs(w, payload, status, contents, z)
<1>1. payload \in Words /\ Len(payload) \in Nat /\ Nothing \notin Nat
  BY WordsLen DEF EncodingTypes, Words
<1>2. payload = <<>> <=> Len(payload) = 0
  BY <1>1, WordsLen
<1>3. CASE payload # <<>>
  <2>1. StatusToWrite(status, payload) = Nothing
    BY <1>3 DEF StatusToWrite
  <2>2. status \in {Nothing, 0}
    BY <1>3 DEF StatusAccepted, Normal
  <2>3. contents = payload /\ w = Join(payload, z)
    BY <2>1
  <2>4. /\ w \in Words /\ SubSeq(w, 1, Len(payload)) = payload
        /\ SubSeq(w, Len(payload) + 1, Len(w)) = z
    <3>1. CutAt(w, payload, z)
      BY <1>1, <2>3, Cut
    <3> QED BY ONLY <3>1 DEF CutAt
  <2> QED BY <1>1, <1>2, <1>3, <2>1, <2>2, <2>3, <2>4 DEF ContentIs
<1>4. CASE payload = <<>>
  <2>1. PICK s : s = StatusToWrite(status, payload)
    OBVIOUS
  <2>2. s = IF status = Nothing THEN 0 ELSE status
    BY <1>4, <2>1 DEF StatusToWrite, Normal
  <2>3. s \in Nat
    BY <2>2 DEF EncodingTypes, Option
  <2>4. contents = One(s) /\ w = Join(One(s), z)
    BY <1>1, <2>1, <2>3
  <2>5. w \in Words /\ w # <<>> /\ Head(w) = s /\ Tail(w) = z
    BY <2>3, <2>4, AfterOne
  <2>6. SubSeq(w, 2, Len(w)) = z
    <3>1. One(s) \in Words /\ Len(One(s)) = 1
      BY <2>3, Joins DEF One
    <3>2. CutAt(w, One(s), z)
      BY <2>4, <3>1, Cut
    <3>3. SubSeq(w, Len(One(s)) + 1, Len(w)) = z
      BY <3>2 DEF CutAt
    <3> QED BY <3>1, <3>3
  <2>7. SubSeq(w, 1, 0) = <<>>
    BY SubSeqProperties, <2>5 DEF Words
  <2>8. contents \in Words
    BY <2>3, <2>4, Joins
  <2> QED BY <1>1, <1>2, <1>4, <2>1, <2>2, <2>5, <2>6, <2>7, <2>8 DEF ContentIs
<1> QED BY <1>3, <1>4

\* What the reader makes of an object of a subgroup stream.
ReadAs(call) ==
  [object |-> call.object, properties |-> call.properties, payload |-> call.payload,
   status |-> StatusOf(call)]

\* An object of a subgroup stream is read as it was asked for.
LEMMA SubgroupObjectRead ==
  ASSUME EncodingTypes, NEW call \in SubgroupCalls, BlockAccepted(call.properties),
         StatusAccepted(call.status, call.payload),
         NEW delta \in Nat, NEW before,
         call.object = IF before = Nothing THEN delta ELSE before + delta + 1,
         NEW present \in BOOLEAN, present <=> call.properties # Nothing,
         NEW z \in Words, NEW w, w = Join(SubgroupObject(delta, call), z)
  PROVE  /\ w \in Words /\ w # <<>>
         /\ SubgroupObject(delta, call) \in Words /\ SubgroupObject(delta, call) # <<>>
         /\ Peer!SubgroupObjectAt(w, present, before)
              = [entry |-> ReadAs(call), before |-> call.object, rest |-> z]
<1>0. PICK payload, status : payload = call.payload /\ status = call.status
  OBVIOUS
<1>1. /\ call.object \in Objects /\ call.properties \in Option(Blocks)
      /\ payload \in Payloads /\ status \in Option(Statuses)
      /\ StatusAccepted(status, payload)
  BY <1>0 DEF SubgroupCalls
<1>2. PICK block, n, contents :
        /\ block = Blob(call.properties) /\ n = Len(payload)
        /\ contents = IF StatusToWrite(status, payload) = Nothing THEN payload
                     ELSE One(StatusToWrite(status, payload))
  OBVIOUS
<1>3. SubgroupObject(delta, call) = Join(Join(Join(One(delta), block), One(n)), contents)
  BY <1>0, <1>2 DEF SubgroupObject, Join, One
<1>4. PICK z1 : z1 = Join(contents, z)
  OBVIOUS
<1>5. /\ n \in Nat /\ contents \in Words /\ z1 \in Words
      /\ SubSeq(z1, 1, n) = payload
      /\ n # 0 => SubSeq(z1, n + 1, Len(z1)) = z
      /\ n = 0 => SubSeq(z1, 2, Len(z1)) = z
      /\ (IF n = 0 THEN Head(z1) ELSE 0) = IF status = Nothing THEN 0 ELSE status
  <2>1. ContentIs(z1, payload, status, contents, z)
    BY <1>1, <1>2, <1>4, ContentRead
  <2> QED BY ONLY <2>1, <1>2 DEF ContentIs
<1>6. PICK z2 : z2 = Join(One(n), z1)
  OBVIOUS
<1>7. z2 \in Words /\ Head(z2) = n /\ Tail(z2) = z1
  BY ONLY <1>5, <1>6, AfterOne
<1>8. PICK z3 : z3 = Join(block, z2)
  OBVIOUS
<1>9. z3 \in Words /\ block \in Words
      /\ Peer!Properties(present, z3) = [value |-> call.properties, rest |-> z2]
  BY <1>1, <1>2, <1>7, <1>8, PropertiesRead
<1>10. w = Join(One(delta), z3)
  <2>1. One(delta) \in Words /\ One(n) \in Words
    BY <1>5, Joins
  <2> QED BY <1>3, <1>4, <1>5, <1>6, <1>8, <1>9, <2>1, Four
<1>11. w \in Words /\ w # <<>> /\ Head(w) = delta /\ Tail(w) = z3
  BY <1>9, <1>10, AfterOne
<1>12. SubgroupObject(delta, call) \in Words /\ SubgroupObject(delta, call) # <<>>
  <2>1. PICK d, l, u : d = One(delta) /\ l = One(n) /\ u = Join(block, Join(l, contents))
    OBVIOUS
  <2>2. d \in Words /\ l \in Words
    BY <1>5, <2>1, Joins
  <2>3. u \in Words
    BY <1>5, <1>9, <2>1, <2>2, Joins
  <2>4. SubgroupObject(delta, call) = Join(d, u)
    BY <1>3, <1>5, <1>9, <2>1, <2>2, Three
  <2> QED BY ONLY <2>1, <2>3, <2>4, AfterOne, delta \in Nat
<1>13. Peer!SubgroupObjectAt(w, present, before)
         = [entry |-> [object |-> call.object, properties |-> call.properties,
                       payload |-> call.payload,
                       status |-> IF n = 0 THEN Head(z1) ELSE 0],
            before |-> call.object, rest |-> z]
  <2>1. PICK p : p = Peer!Properties(present, Tail(w))
    OBVIOUS
  <2>2. p = [value |-> call.properties, rest |-> z2]
    BY ONLY <1>9, <1>11, <2>1, Zenon
  <2>3. p.value = call.properties /\ Head(p.rest) = n /\ Tail(p.rest) = z1
    BY ONLY <1>7, <2>2
  <2>4. (IF before = Nothing THEN Head(w) ELSE before + Head(w) + 1) = call.object
    BY <1>11
  <2>5. PICK size : size = IF n = 0 THEN 1 ELSE n
    OBVIOUS
  <2>6. SubSeq(z1, size + 1, Len(z1)) = z
    <3>1. n = 0 => size + 1 = 2
      BY <2>5
    <3>2. n # 0 => size = n
      BY <2>5
    <3> QED BY ONLY <1>5, <3>1, <3>2, Zenon
  <2>7. Peer!SubgroupObjectAt(w, present, before)
         = [entry |-> [object |-> IF before = Nothing THEN Head(w) ELSE before + Head(w) + 1,
                       properties |-> p.value, payload |-> SubSeq(Tail(p.rest), 1, Head(p.rest)),
                       status |-> IF Head(p.rest) = 0 THEN Head(Tail(p.rest)) ELSE 0],
            before |-> IF before = Nothing THEN Head(w) ELSE before + Head(w) + 1,
            rest |-> SubSeq(Tail(p.rest), (IF Head(p.rest) = 0 THEN 1 ELSE Head(p.rest)) + 1,
                            Len(Tail(p.rest)))]
    BY <2>1 DEF Peer!SubgroupObjectAt
  <2> QED BY ONLY <1>5, <1>0, <2>3, <2>4, <2>5, <2>6, <2>7
<1> QED BY <1>0, <1>5, <1>11, <1>12, <1>13 DEF ReadAs, StatusOf, Normal

-----------------------------------------------------------------------------
(* The loops of the readers.                                               *)

Start(w) == [entries |-> <<>>, before |-> Nothing, rest |-> w]

\* What is read next, in a subgroup stream or in a fetch stream.
NextOf(in_subgroup, rest, before, flag) ==
  IF in_subgroup THEN Peer!SubgroupObjectAt(rest, flag, before)
  ELSE IF rest[1] \in DOMAIN Peer!RangeKinds THEN Peer!RangeAt(rest)
  ELSE Peer!FetchObjectAt(rest, flag, before)

After(in_subgroup, front, flag) ==
  LET next == NextOf(in_subgroup, front.rest, front.before, flag)
  IN  IF front.rest = <<>> THEN front
      ELSE [entries |-> Append(front.entries, next.entry), before |-> next.before,
            rest |-> next.rest]

Reads(in_subgroup, f, w, flag) ==
  f = [n \in 0 .. Len(w) |-> IF n = 0 THEN Start(w) ELSE After(in_subgroup, f[n - 1], flag)]

\* Piece n is read as entry n, and becomes the base of the next.
PiecesRead(in_subgroup, pieces, entry, before, flag) ==
  /\ before[0] = Nothing
  /\ \A n \in 1 .. Len(pieces) : \A r \in Words :
       NextOf(in_subgroup, Join(pieces[n], r), before[n - 1], flag)
         = [entry |-> entry[n], before |-> before[n], rest |-> r]

Entries(k, entry) == [n \in 1 .. k |-> entry[n]]

AllRead(in_subgroup, w, flag, entries) ==
  /\ \E f : Reads(in_subgroup, f, w, flag)
  /\ \A f : Reads(in_subgroup, f, w, flag) => f[Len(w)].entries = entries

\* A reader that reads each piece reads all of them, and then nothing.
LEMMA LoopReads ==
  ASSUME NEW in_subgroup, NEW w, NEW pieces, Chained(w, pieces), NEW entry, NEW before, NEW flag,
         PiecesRead(in_subgroup, pieces, entry, before, flag)
  PROVE  AllRead(in_subgroup, w, flag, Entries(Len(pieces), entry))
<1>1. PICK k, N : k = Len(pieces) /\ N = Len(w)
  OBVIOUS
<1>2. PICK z : ChainOf(w, pieces, z)
  BY DEF Chained
<1>3. pieces \in Seq(Words) /\ k \in Nat
  BY <1>1, LenProperties DEF Chained
<1>4. /\ z \in [0 .. k -> Words] /\ z[0] = w /\ z[k] = <<>>
      /\ \A n \in 1 .. k : pieces[n] # <<>> /\ z[n - 1] = Join(pieces[n], z[n])
  BY <1>1, <1>2 DEF ChainOf
<1>5. N \in Nat /\ k \in 0 .. N /\ w \in Words
  <2>1. w \in Words /\ Len(z[0]) >= k - 0
    BY <1>1, <1>2, <1>3, <1>4 DEF ChainOf
  <2> QED BY <1>1, <1>3, <1>4, <2>1, WordsLen
<1> DEFINE entries(m) == [n \in 1 .. m |-> entry[n]]
           e == [m \in 0 .. k |-> [entries |-> entries(m), before |-> before[m], rest |-> z[m]]]
           Step(front) == After(in_subgroup, front, flag)
<1>6. e[0] = Start(w) /\ e[k].entries = entries(k) /\ e[k].rest = <<>>
  <2>1. 0 \in 0 .. k /\ k \in 0 .. k
    BY <1>3
  <2>2. entries(0) = <<>>
    <3>1. 1 .. 0 = {}
      OBVIOUS
    <3> QED BY <3>1
  <2> HIDE DEF entries
  <2> QED BY <1>4, <2>1, <2>2 DEF Start, PiecesRead
<1>7. ASSUME NEW m \in 0 .. k, m < k PROVE e[m + 1] = Step(e[m])
  <2>1. PICK q, l : q = m + 1 /\ l = m
    OBVIOUS
  <2>2. q \in 1 .. k /\ q \in 0 .. k /\ l \in 0 .. k /\ q - 1 = l /\ l < q /\ q = l + 1 /\ l \in Nat
    BY <1>3, <1>7, <2>1
  <2>3. PICK r, v, b : r = z[q] /\ v = z[l] /\ b = before[l]
    OBVIOUS
  <2>4. r \in Words /\ v = Join(pieces[q], r)
    BY <1>4, <2>2, <2>3
  <2>5. v # <<>>
    <3>1. pieces[q] \in Words /\ pieces[q] # <<>>
      BY <1>1, <1>3, <1>4, <2>2, ElementOfSeq
    <3>2. CutAt(v, pieces[q], r)
      BY <2>4, <3>1, Cut
    <3>3. Len(pieces[q]) # 0
      BY <3>1, WordsLen
    <3>4. Len(v) # 0
      BY <3>2, <3>3 DEF CutAt
    <3> QED BY <3>2, <3>4, WordsLen DEF CutAt
  <2>6. NextOf(in_subgroup, v, b, flag) = [entry |-> entry[q], before |-> before[q], rest |-> r]
    BY <1>1, <2>2, <2>3, <2>4 DEF PiecesRead
  <2>7. PICK front, read, next : front = e[l] /\ read = entries(l)
          /\ next = NextOf(in_subgroup, v, b, flag)
    OBVIOUS
  <2>8. front.rest = v /\ front.before = b /\ front.entries = read
    <3> HIDE DEF entries
    <3> QED BY <2>2, <2>3, <2>7
  <2>9. NextOf(in_subgroup, front.rest, front.before, flag) = next
    BY ONLY <2>7, <2>8, Zenon
  <2>10. Step(front) = [entries |-> Append(read, next.entry), before |-> next.before,
                        rest |-> next.rest]
    BY ONLY <2>5, <2>8, <2>9 DEF After
  <2>11. Append(read, entry[q]) = entries(q)
    BY ONLY <2>2, <2>7, AppendOne
  <2>12. e[q] = [entries |-> entries(q), before |-> before[q], rest |-> r]
    <3> HIDE DEF entries
    <3> QED BY <2>2, <2>3
  <2>13. next.entry = entry[q] /\ next.before = before[q] /\ next.rest = r
    BY ONLY <2>6, <2>7
  <2> HIDE DEF entries, e, Step
  <2>14. Step(front) = e[q]
    BY ONLY <2>10, <2>11, <2>12, <2>13, Zenon
  <2>15. e[m + 1] = e[q] /\ e[m] = front
    BY <2>1, <2>7
  <2> QED BY ONLY <2>14, <2>15, Zenon
<1>8. Step(e[k]) = e[k]
  <2> HIDE DEF e
  <2> QED BY <1>6 DEF After
<1> HIDE DEF e, entries
<1>9. PICK g : g = [n \in 0 .. N |-> e[IF n <= k THEN n ELSE k]]
  OBVIOUS
<1>10. Reads(in_subgroup, g, w, flag)
  <2> HIDE DEF Step
  <2>1. \A n \in 0 .. N : g[n] = IF n = 0 THEN Start(w) ELSE Step(g[n - 1])
    <3> SUFFICES ASSUME NEW n \in 0 .. N PROVE g[n] = IF n = 0 THEN Start(w) ELSE Step(g[n - 1])
      OBVIOUS
    <3>1. CASE n = 0
      BY <1>5, <1>6, <1>9, <3>1
    <3>2. CASE n # 0 /\ n <= k
      <4>1. n - 1 \in 0 .. k /\ n - 1 < k /\ (n - 1) + 1 = n /\ n - 1 \in 0 .. N /\ n - 1 <= k
        BY <1>5, <3>2
      <4>2. g[n] = e[n] /\ g[n - 1] = e[n - 1]
        BY <1>9, <3>2, <4>1
      <4>3. e[n] = Step(e[n - 1])
        BY <1>7, <4>1
      <4> QED BY <3>2, <4>2, <4>3
    <3>3. CASE n > k
      <4>1. n # 0 /\ ~ (n <= k) /\ n - 1 \in 0 .. N /\ (n - 1 <= k => n - 1 = k)
        BY <1>5, <3>3
      <4>2. g[n] = e[k] /\ g[n - 1] = e[k]
        BY <1>9, <4>1
      <4> QED BY <1>8, <4>1, <4>2
    <3> QED BY <1>5, <3>1, <3>2, <3>3
  <2>2. g = [n \in 0 .. N |-> g[n]]
    BY <1>9
  <2>3. g = [n \in 0 .. N |-> IF n = 0 THEN Start(w) ELSE Step(g[n - 1])]
    BY <2>1, <2>2
  <2> USE DEF Step
  <2> QED BY ONLY <1>1, <2>3 DEF Reads
<1>11. ASSUME NEW f, Reads(in_subgroup, f, w, flag) PROVE f[N].entries = entries(k)
  <2>1. f = [n \in 0 .. N |-> IF n = 0 THEN Start(w) ELSE Step(f[n - 1])]
    BY ONLY <1>1, <1>11 DEF Reads
  <2> HIDE DEF Step
  <2>2. f[0] = e[0] /\ \A n \in 0 .. N - 1 : f[n + 1] = Step(f[n])
    <3>1. 0 \in 0 .. N /\ \A n \in 0 .. N - 1 : n + 1 \in 0 .. N /\ n + 1 # 0 /\ (n + 1) - 1 = n
      BY <1>5
    <3> QED BY <1>6, <2>1, <3>1
  <2>3. ASSUME NEW n \in 0 .. N - 1, NEW m \in 0 .. k, f[n] = e[m]
        PROVE  f[n + 1] = e[IF m < k THEN m + 1 ELSE k]
    <3>1. CASE m < k
      <4>1. f[n + 1] = Step(e[m])
        BY <2>2, <2>3
      <4>2. Step(e[m]) = e[m + 1]
        BY <1>7, <3>1
      <4> QED BY <3>1, <4>1, <4>2
    <3>2. CASE ~ (m < k)
      <4>1. m = k
        BY <1>5, <3>2
      <4> QED BY <1>8, <2>2, <2>3, <3>2, <4>1
    <3> QED BY <3>1, <3>2
  <2>4. f[N] = e[k]
    BY <1>5, <2>2, <2>3, LoopEnds
  <2> QED BY <1>6, <2>4
<1> QED BY <1>1, <1>10, <1>11 DEF entries, Entries, AllRead

\* A loop that a reader defines by recursion, and what it returns.
ObjectLoop(f, w, present) ==
  f = [n \in 0 .. Len(w) |->
        IF n = 0 THEN [entries |-> <<>>, before |-> Nothing, rest |-> w]
        ELSE LET front == f[n - 1]
                 next == Peer!SubgroupObjectAt(front.rest, present, front.before)
             IN IF front.rest = <<>> THEN front
                ELSE [entries |-> Append(front.entries, next.entry),
                      before |-> next.before, rest |-> next.rest]]

EntryLoop(f, w, descending) ==
  f = [n \in 0 .. Len(w) |->
        IF n = 0 THEN [entries |-> <<>>, before |-> Nothing, rest |-> w]
        ELSE LET front == f[n - 1]
                 next == IF front.rest[1] \in DOMAIN Peer!RangeKinds
                         THEN Peer!RangeAt(front.rest)
                         ELSE Peer!FetchObjectAt(front.rest, descending, front.before)
             IN IF front.rest = <<>> THEN front
                ELSE [entries |-> Append(front.entries, next.entry),
                      before |-> next.before, rest |-> next.rest]]

\* The readers of the layout are these loops.
LEMMA Loops ==
  ASSUME NEW w, NEW flag
  PROVE  /\ Peer!SubgroupObjects(w, flag) = (CHOOSE f : ObjectLoop(f, w, flag))[Len(w)].entries
         /\ Peer!FetchEntries(w, flag) = (CHOOSE f : EntryLoop(f, w, flag))[Len(w)].entries
         /\ \A f : ObjectLoop(f, w, flag) <=> Reads(TRUE, f, w, flag)
         /\ \A f : EntryLoop(f, w, flag) <=> Reads(FALSE, f, w, flag)
<1>1. Peer!SubgroupObjects(w, flag) = (CHOOSE f : ObjectLoop(f, w, flag))[Len(w)].entries
  BY DEF Peer!SubgroupObjects, ObjectLoop
<1>2. Peer!FetchEntries(w, flag) = (CHOOSE f : EntryLoop(f, w, flag))[Len(w)].entries
  BY DEF Peer!FetchEntries, EntryLoop
<1>3. \A f : ObjectLoop(f, w, flag) <=> Reads(TRUE, f, w, flag)
  BY DEF ObjectLoop, Reads, Start, After, NextOf
<1>4. \A f : EntryLoop(f, w, flag) <=> Reads(FALSE, f, w, flag)
  BY DEF EntryLoop, Reads, Start, After, NextOf
<1> QED BY <1>1, <1>2, <1>3, <1>4

\* The reader of a subgroup stream finds the entries of its pieces.
LEMMA ObjectsRead ==
  ASSUME NEW w, NEW pieces, Chained(w, pieces), NEW entry, NEW before, NEW flag,
         PiecesRead(TRUE, pieces, entry, before, flag)
  PROVE  Peer!SubgroupObjects(w, flag) = Entries(Len(pieces), entry)
<1>1. PICK s : s = Entries(Len(pieces), entry)
  OBVIOUS
<1>2. AllRead(TRUE, w, flag, s)
  BY <1>1, LoopReads
<1>3. \E f : ObjectLoop(f, w, flag)
  BY <1>2, Loops DEF AllRead
<1>4. \A f : ObjectLoop(f, w, flag) => f[Len(w)].entries = s
  BY <1>2, Loops DEF AllRead
<1>5. PICK f : f = CHOOSE g : ObjectLoop(g, w, flag)
  OBVIOUS
<1>6. ObjectLoop(f, w, flag)
  BY ONLY <1>3, <1>5
<1> QED BY <1>1, <1>4, <1>5, <1>6, Loops

\* The reader of a fetch stream finds the entries of its pieces.
LEMMA EntriesRead ==
  ASSUME NEW w, NEW pieces, Chained(w, pieces), NEW entry, NEW before, NEW flag,
         PiecesRead(FALSE, pieces, entry, before, flag)
  PROVE  Peer!FetchEntries(w, flag) = Entries(Len(pieces), entry)
<1>1. PICK s : s = Entries(Len(pieces), entry)
  OBVIOUS
<1>2. AllRead(FALSE, w, flag, s)
  BY <1>1, LoopReads
<1>3. \E f : EntryLoop(f, w, flag)
  BY <1>2, Loops DEF AllRead
<1>4. \A f : EntryLoop(f, w, flag) => f[Len(w)].entries = s
  BY <1>2, Loops DEF AllRead
<1>5. PICK f : f = CHOOSE g : EntryLoop(g, w, flag)
  OBVIOUS
<1>6. EntryLoop(f, w, flag)
  BY ONLY <1>3, <1>5
<1> QED BY <1>1, <1>4, <1>5, <1>6, Loops

\* What is written before object n of a subgroup stream.
DeltaAt(objects, n) ==
  IF n = 1 THEN objects[n].object ELSE objects[n].object - objects[n - 1].object - 1

\* The objects of a stream that can be read, and the pieces that stand for them.
WrittenAs(objects, pieces, present) ==
  /\ Len(objects) = Len(pieces)
  /\ \A n \in 1 .. Len(objects) :
       /\ objects[n] \in SubgroupCalls
       /\ BlockAccepted(objects[n].properties)
       /\ StatusAccepted(objects[n].status, objects[n].payload)
       /\ DeltaAt(objects, n) \in Nat
       /\ present <=> objects[n].properties # Nothing
       /\ pieces[n] = SubgroupObject(DeltaAt(objects, n), objects[n])

\* The objects of a subgroup stream are read as they were asked for, in order.
LEMMA SubgroupObjectsRead ==
  ASSUME EncodingTypes, NEW w, NEW objects, NEW pieces, NEW present \in BOOLEAN,
         Chained(w, pieces), WrittenAs(objects, pieces, present)
  PROVE  Peer!SubgroupObjects(w, present) = [n \in 1 .. Len(objects) |-> ReadAs(objects[n])]
<1>1. PICK k : k = Len(pieces)
  OBVIOUS
<1>2. k \in Nat /\ Len(objects) = k
  BY <1>1, LenProperties DEF Chained, WrittenAs
<1>3. PICK entry, before :
        /\ entry = [n \in 1 .. k |-> ReadAs(objects[n])]
        /\ before = [n \in 0 .. k |-> IF n = 0 THEN Nothing ELSE objects[n].object]
  OBVIOUS
<1>4. ASSUME NEW q \in 1 .. k, NEW r \in Words
      PROVE  NextOf(TRUE, Join(pieces[q], r), before[q - 1], present)
               = [entry |-> entry[q], before |-> before[q], rest |-> r]
  <2>1. PICK l : l = q - 1
    OBVIOUS
  <2>2. l \in 0 .. k /\ l \in Nat /\ q \in 0 .. k /\ q # 0 /\ (l = 0 <=> q = 1)
    BY <1>2, <2>1
  <2>3. PICK call, delta, b, v : call = objects[q] /\ delta = DeltaAt(objects, q) /\ b = before[l]
          /\ v = Join(pieces[q], r)
    OBVIOUS
  <2>4. /\ call \in SubgroupCalls /\ BlockAccepted(call.properties)
        /\ StatusAccepted(call.status, call.payload) /\ delta \in Nat
        /\ present <=> call.properties # Nothing
        /\ pieces[q] = SubgroupObject(delta, call)
    BY <1>2, <2>2, <2>3 DEF WrittenAs
  <2>5. v = Join(SubgroupObject(delta, call), r)
    BY <2>3, <2>4
  <2>6. call.object = IF b = Nothing THEN delta ELSE b + delta + 1
    <3>1. CASE l = 0
      BY <1>3, <2>2, <2>3, <3>1 DEF DeltaAt
    <3>2. CASE l # 0
      <4>1. objects[l] \in SubgroupCalls /\ b = objects[l].object
        BY <1>2, <1>3, <2>2, <2>3, <3>2 DEF WrittenAs
      <4>2. b \in Nat /\ call.object \in Nat /\ Nothing \notin Nat
        BY <2>4, <4>1 DEF SubgroupCalls, EncodingTypes
      <4>3. delta = call.object - b - 1
        BY <2>1, <2>2, <2>3, <3>2, <4>1 DEF DeltaAt
      <4> QED BY <3>2, <4>2, <4>3
    <3> QED BY <3>1, <3>2
  <2>7. Peer!SubgroupObjectAt(v, present, b)
             = [entry |-> ReadAs(call), before |-> call.object, rest |-> r]
    BY <2>4, <2>5, <2>6, SubgroupObjectRead
  <2>8. entry[q] = ReadAs(call) /\ before[q] = call.object
    BY <1>3, <2>2, <2>3
  <2> QED BY ONLY <2>1, <2>3, <2>7, <2>8 DEF NextOf
<1>5. PiecesRead(TRUE, pieces, entry, before, present)
  <2>1. before[0] = Nothing
    BY <1>2, <1>3
  <2> QED BY <1>1, <1>4, <2>1 DEF PiecesRead
<1>6. Entries(Len(pieces), entry) = [n \in 1 .. Len(objects) |-> ReadAs(objects[n])]
  BY <1>1, <1>2, <1>3 DEF Entries
<1>7. Peer!SubgroupObjects(w, present) = Entries(Len(pieces), entry)
  BY <1>5, ObjectsRead
<1> QED BY ONLY <1>6, <1>7, Zenon

-----------------------------------------------------------------------------
(* A subgroup stream.                                                      *)

Trio(x, y, v) == <<x, y, v>>

\* Three numbers, and what follows them.
TrioAt(w, x, y, v, z) ==
  /\ w \in Words /\ Trio(x, y, v) \in Words /\ w # <<>> /\ Trio(x, y, v) # <<>>
  /\ w[1] = x /\ w[2] = y /\ w[3] = v /\ SubSeq(w, 4, Len(w)) = z

\* Three numbers come off the front.
LEMMA AfterTrio ==
  ASSUME NEW x \in Nat, NEW y \in Nat, NEW v \in Nat, NEW z \in Words
  PROVE  TrioAt(Join(Trio(x, y, v), z), x, y, v, z)
<1>0. PICK w : w = Join(Trio(x, y, v), z)
  OBVIOUS
<1>1. PICK b : b = Trio(x, y, v)
  OBVIOUS
<1>2. b \in Words /\ Len(b) = 3 /\ b[1] = x /\ b[2] = y /\ b[3] = v
  BY <1>1 DEF Trio, Words
<1>3. CutAt(w, b, z)
  BY <1>0, <1>1, <1>2, Cut
<1>4. w[1] = b[1] /\ w[2] = b[2] /\ w[3] = b[3] /\ SubSeq(w, 4, Len(w)) = z /\ w \in Words
      /\ Len(w) = 3 + Len(z) /\ Len(z) \in Nat
  BY ONLY <1>2, <1>3 DEF CutAt
<1>5. w # <<>> /\ b # <<>>
  BY <1>2, <1>4, WordsLen
<1> QED BY <1>0, <1>1, <1>2, <1>4, <1>5 DEF TrioAt

\* The bits of the type of a subgroup stream say what they are for.
LEMMA TypeBits ==
  ASSUME NEW has_properties \in BOOLEAN, NEW mode \in Modes, NEW end_of_group \in BOOLEAN,
         NEW default \in BOOLEAN, NEW type,
         type = SubgroupTypeByte(has_properties, mode, end_of_group, default)
  PROVE  /\ type \in Nat /\ type \div 64 = 0 /\ Peer!Bit(type, 16)
         /\ Peer!Bit(type, 1) <=> has_properties
         /\ Peer!Bit(type, 2) <=> mode = "first_object_id"
         /\ Peer!Bit(type, 4) <=> mode = "explicit"
         /\ Peer!Bit(type, 8) <=> end_of_group
         /\ Peer!Bit(type, 32) <=> default
BY DEF SubgroupTypeByte, Peer!Bit, Flag, Modes

\* The header of a stream, by what it was asked to say.
HeaderWords(by, has_properties) ==
  Join(Join(Trio(SubgroupTypeByte(has_properties, by.mode, by.end_of_group,
                                      by.priority = Nothing), Alias, by.group),
            Field(by.subgroup)), Field(by.priority))

HeaderOk(by) ==
  /\ by.group \in Groups /\ by.mode \in Modes /\ by.end_of_group \in BOOLEAN
  /\ by.subgroup \in Option(SubgroupIds) /\ by.priority \in Option(Priorities)
  /\ by.subgroup # Nothing <=> by.mode = "explicit"

\* What is read of the header, and the objects after it.
HeaderReadAs(w, by, objects) ==
  /\ Peer!ReadSubgroup(w).legal
  /\ Peer!ReadSubgroup(w).alias = Alias
  /\ Peer!ReadSubgroup(w).group = by.group
  /\ Peer!ReadSubgroup(w).objects = objects
  /\ Peer!ReadSubgroup(w).subgroup = CASE by.mode = "explicit" -> by.subgroup
       [] by.mode = "zero" -> 0
       [] by.mode = "first_object_id" -> IF objects = <<>> THEN Nothing ELSE objects[1].object
  /\ Peer!ReadSubgroup(w).priority = by.priority
  /\ Peer!ReadSubgroup(w).end_of_group = by.end_of_group

\* The header of a subgroup stream is read as it was asked for.
LEMMA SubgroupHeaderRead ==
  ASSUME EncodingTypes, NEW by, HeaderOk(by), NEW present \in BOOLEAN,
         NEW z \in Words, NEW w, w = Join(HeaderWords(by, present), z), NEW objects,
         objects = Peer!SubgroupObjects(z, present)
  PROVE  /\ w \in Words /\ HeaderWords(by, present) \in Words
         /\ HeaderReadAs(w, by, objects)
<1>1. PICK type, default : default \in BOOLEAN /\ (default <=> by.priority = Nothing)
         /\ type = SubgroupTypeByte(present, by.mode, by.end_of_group, by.priority = Nothing)
  OBVIOUS
<1>2. /\ by.group \in Nat /\ Alias \in Nat
      /\ by.subgroup = Nothing \/ by.subgroup \in Nat
      /\ by.priority = Nothing \/ by.priority \in Nat
  BY DEF HeaderOk, EncodingTypes, Option
<1>3. /\ type \in Nat /\ type \div 64 = 0 /\ Peer!Bit(type, 16)
      /\ Peer!Bit(type, 1) <=> present
      /\ Peer!Bit(type, 2) <=> by.mode = "first_object_id"
      /\ Peer!Bit(type, 4) <=> by.mode = "explicit"
      /\ Peer!Bit(type, 8) <=> by.end_of_group
      /\ Peer!Bit(type, 32) <=> by.priority = Nothing
  <2>1. type = SubgroupTypeByte(present, by.mode, by.end_of_group, default)
    BY <1>1 DEF SubgroupTypeByte, Flag
  <2>2. by.mode \in Modes /\ by.end_of_group \in BOOLEAN
    BY DEF HeaderOk
  <2> QED BY <1>1, <2>1, <2>2, TypeBits
<1>4. PICK z1 : z1 = Join(Field(by.priority), z)
  OBVIOUS
<1>5. /\ z1 \in Words /\ Field(by.priority) \in Words
      /\ by.priority = Nothing => z1 = z
      /\ by.priority # Nothing => Head(z1) = by.priority /\ Tail(z1) = z
  BY <1>2, <1>4, FieldRead
<1>6. PICK z2 : z2 = Join(Field(by.subgroup), z1)
  OBVIOUS
<1>7. /\ z2 \in Words /\ Field(by.subgroup) \in Words
      /\ by.subgroup = Nothing => z2 = z1
      /\ by.subgroup # Nothing => Head(z2) = by.subgroup /\ Tail(z2) = z1
  BY <1>2, <1>5, <1>6, FieldRead
<1>8. PICK t : t = Trio(type, Alias, by.group)
  OBVIOUS
<1>9. t \in Words
  BY <1>2, <1>3, <1>8 DEF Trio, Words
<1>10. HeaderWords(by, present) = Join(Join(t, Field(by.subgroup)), Field(by.priority))
  BY <1>1, <1>8 DEF HeaderWords
<1>11. w = Join(t, z2) /\ HeaderWords(by, present) \in Words
  BY <1>4, <1>5, <1>6, <1>7, <1>9, <1>10, Three, Joins
<1>12. /\ w \in Words /\ w[1] = type /\ w[2] = Alias /\ w[3] = by.group
       /\ SubSeq(w, 4, Len(w)) = z2
  <2>1. PICK g : g = by.group
    OBVIOUS
  <2>2. TrioAt(w, type, Alias, g, z2)
    BY <1>2, <1>3, <1>7, <1>8, <1>11, <2>1, AfterTrio
  <2> QED BY <2>1, <2>2 DEF TrioAt
<1>13. PICK s : s = Peer!Optional(Peer!Bit(type, 4), z2)
  OBVIOUS
<1>14. s.value = by.subgroup /\ s.rest = z1
  BY <1>3, <1>7, <1>13 DEF HeaderOk, Peer!Optional
<1>15. PICK p : p = Peer!Optional(~ Peer!Bit(type, 32), z1)
  OBVIOUS
<1>16. p.value = by.priority /\ p.rest = z
  BY <1>3, <1>5, <1>15 DEF Peer!Optional
<1>17. Peer!SubgroupObjects(p.rest, Peer!Bit(type, 1)) = objects
  <2>1. Peer!Bit(type, 1) = present
    BY <1>3 DEF Peer!Bit
  <2>2. p.rest = z
    BY <1>16
  <2> QED BY ONLY <2>1, <2>2, objects = Peer!SubgroupObjects(z, present), Zenon
<1>18. PICK o : o = Peer!SubgroupObjects(p.rest, Peer!Bit(type, 1))
  OBVIOUS
<1>19. Peer!ReadSubgroup(w) =
         [alias |-> w[2], group |-> w[3],
          legal |-> type \div 64 = 0 /\ Peer!Bit(type, 16)
                    /\ ~ (Peer!Bit(type, 2) /\ Peer!Bit(type, 4)),
          subgroup |-> IF Peer!Bit(type, 4) THEN s.value
                       ELSE IF ~ Peer!Bit(type, 2) THEN 0
                       ELSE IF o = <<>> THEN Nothing ELSE o[1].object,
          priority |-> p.value,
          end_of_group |-> Peer!Bit(type, 8),
          objects |-> o]
  <2>1. s = Peer!Optional(Peer!Bit(w[1], 4), SubSeq(w, 4, Len(w)))
    BY ONLY <1>12, <1>13, Zenon
  <2>2. p = Peer!Optional(~ Peer!Bit(w[1], 32), s.rest)
    BY ONLY <1>12, <1>14, <1>15, Zenon
  <2>3. o = Peer!SubgroupObjects(p.rest, Peer!Bit(w[1], 1))
    BY ONLY <1>12, <1>18, Zenon
  <2>4. w[1] = type
    BY <1>12
  <2> QED BY ONLY <2>1, <2>2, <2>3, <2>4, Zenon DEF Peer!ReadSubgroup
<1>20. PICK read : read = Peer!ReadSubgroup(w)
  OBVIOUS
<1>21. /\ read.alias = Alias /\ read.group = by.group /\ read.objects = objects
       /\ read.priority = by.priority
  BY ONLY <1>12, <1>16, <1>17, <1>18, <1>19, <1>20
<1>22. read.legal
  <2>1. read.legal = (type \div 64 = 0 /\ Peer!Bit(type, 16)
                      /\ ~ (Peer!Bit(type, 2) /\ Peer!Bit(type, 4)))
    BY ONLY <1>19, <1>20
  <2>2. type \div 64 = 0 /\ Peer!Bit(type, 16)
        /\ ~ (Peer!Bit(type, 2) /\ Peer!Bit(type, 4))
    BY <1>3
  <2> QED BY ONLY <2>1, <2>2, Zenon
<1>23. read.end_of_group = by.end_of_group
  <2>1. read.end_of_group = Peer!Bit(type, 8)
    BY ONLY <1>19, <1>20
  <2>2. Peer!Bit(type, 8) = by.end_of_group
    BY <1>3 DEF HeaderOk, Peer!Bit
  <2> QED BY ONLY <2>1, <2>2, Zenon
<1>24. read.subgroup = IF Peer!Bit(type, 4) THEN by.subgroup
                       ELSE IF ~ Peer!Bit(type, 2) THEN 0
                       ELSE IF objects = <<>> THEN Nothing ELSE objects[1].object
  BY ONLY <1>14, <1>17, <1>18, <1>19, <1>20
<1>25. read.subgroup = CASE by.mode = "explicit" -> by.subgroup
              [] by.mode = "zero" -> 0
              [] by.mode = "first_object_id" -> IF objects = <<>> THEN Nothing ELSE objects[1].object
  BY <1>3, <1>24 DEF HeaderOk, Modes
<1>26. HeaderReadAs(w, by, objects)
  BY ONLY <1>20, <1>21, <1>22, <1>23, <1>25, Zenon DEF HeaderReadAs
<1> QED BY <1>11, <1>12, <1>26

-----------------------------------------------------------------------------
(* A fetch stream.                                                         *)

Couple(x, y) == <<x, y>>

\* Two numbers are one and then the other.
LEMMA Couples ==
  ASSUME NEW x \in Nat, NEW y \in Nat
  PROVE  Couple(x, y) \in Words /\ Couple(x, y) = Join(One(x), One(y))
<1>1. PICK a, b, c : a = One(x) /\ b = One(y) /\ c = Couple(x, y)
  OBVIOUS
<1>2. /\ a \in Seq(Nat) /\ Len(a) = 1 /\ a[1] = x
      /\ b \in Seq(Nat) /\ Len(b) = 1 /\ b[1] = y
      /\ c \in Seq(Nat) /\ Len(c) = 2 /\ c[1] = x /\ c[2] = y
  BY <1>1 DEF One, Couple
<1>3. PICK d : d = a \o b
  OBVIOUS
<1>4. /\ d \in Seq(Nat) /\ Len(d) = Len(a) + Len(b)
      /\ \A i \in 1 .. Len(a) + Len(b) : d[i] = IF i <= Len(a) THEN a[i] ELSE b[i - Len(a)]
  BY <1>2, <1>3, ConcatProperties
<1>5. Len(d) = Len(c) /\ \A i \in 1 .. Len(c) : d[i] = c[i]
  BY ONLY <1>2, <1>4
<1>6. d = c
  BY <1>2, <1>4, <1>5, SeqEqual
<1> QED BY <1>1, <1>2, <1>3, <1>6 DEF Words, Join

\* The bits of the flags of a fetch object say what they are for, and no End of Range has them.
LEMMA FlagBits ==
  ASSUME NEW named \in BOOLEAN, NEW has_properties \in BOOLEAN, NEW same \in BOOLEAN, NEW flags,
         flags = (IF ~ named THEN 64 ELSE 3) + Flag(has_properties, 32)
                 + Flag(~ same, 8) + 4 + 16
  PROVE  /\ flags \in Nat /\ flags \notin DOMAIN Peer!RangeKinds
         /\ Peer!Bit(flags, 8) <=> ~ same
         /\ ~ Peer!Bit(flags, 64) /\ flags % 4 = 3 <=> named
         /\ Peer!Bit(flags, 4) /\ Peer!Bit(flags, 16)
         /\ Peer!Bit(flags, 32) <=> has_properties
BY DEF Peer!Bit, Flag, Peer!RangeKinds

FetchReadAt(w, descending, from, call, z) ==
  /\ w \in Words /\ w # <<>> /\ w[1] \notin DOMAIN Peer!RangeKinds
  /\ FetchObject(from, call) \in Words /\ FetchObject(from, call) # <<>>
  /\ Peer!FetchObjectAt(w, descending, from.last)
       = [entry |-> call, before |-> <<call.group, call.object>>, rest |-> z]

\* A fetch stream's object can be read after the object before.
LEMMA FetchObjectRead ==
  ASSUME EncodingTypes, NEW call \in FetchCalls, BlockAccepted(call.properties),
         NEW from, from.last \in Option(Groups \X Objects), InOrder(from, call),
         NEW descending \in BOOLEAN, descending <=> from.order = GROUP_ORDER_DESCENDING,
         NEW z \in Words, NEW w, w = Join(FetchObject(from, call), z)
  PROVE  FetchReadAt(w, descending, from, call, z)
<1>1. /\ call.group \in Nat /\ call.object \in Nat /\ call.priority \in Nat
      /\ call.properties \in Option(Blocks)
      /\ call.payload \in Words
      /\ call.subgroup = Nothing \/ call.subgroup \in Nat
      /\ Nothing \notin Nat
  BY DEF FetchCalls, EncodingTypes, Option, Words
<1>2. from.last # Nothing => from.last[1] \in Nat /\ from.last[2] \in Nat
  BY DEF EncodingTypes, Option
<1>3. PICK same, named, present :
        /\ same \in BOOLEAN /\ named \in BOOLEAN /\ present \in BOOLEAN
        /\ same <=> SameGroup(from, call)
        /\ named <=> call.subgroup # Nothing
        /\ present <=> call.properties # Nothing
  <2>1. \E s \in BOOLEAN : s <=> SameGroup(from, call)
    OBVIOUS
  <2>2. \E s \in BOOLEAN : s <=> call.subgroup # Nothing
    OBVIOUS
  <2>3. \E s \in BOOLEAN : s <=> call.properties # Nothing
    OBVIOUS
  <2> QED BY <2>1, <2>2, <2>3
<1>4. PICK flags, group, number :
        /\ flags = FetchFlags(from, call)
        /\ group = IF same THEN Nothing ELSE IF from.last = Nothing THEN call.group
                   ELSE GroupDelta(from, call.group)
        /\ number = IF same THEN call.object - from.last[2] ELSE call.object
  OBVIOUS
<1>5. PICK block, payload, n : block = Blob(call.properties) /\ payload = call.payload
        /\ n = Len(call.payload)
  OBVIOUS
<1>6. FetchObject(from, call) =
        Join(Join(Join(Join(Join(Join(One(flags), Field(group)), Field(call.subgroup)),
          Couple(number, call.priority)), block), One(n)), payload)
  BY <1>3, <1>4, <1>5 DEF FetchObject, Join, One, Couple
<1>7. /\ flags \in Nat /\ flags \notin DOMAIN Peer!RangeKinds
      /\ Peer!Bit(flags, 8) <=> ~ same
      /\ ~ Peer!Bit(flags, 64) /\ flags % 4 = 3 <=> named
      /\ Peer!Bit(flags, 4) /\ Peer!Bit(flags, 16)
      /\ Peer!Bit(flags, 32) <=> present
  <2>1. flags = (IF ~ named THEN 64 ELSE 3) + Flag(present, 32) + Flag(~ same, 8) + 4 + 16
    BY <1>3, <1>4 DEF FetchFlags, Flag
  <2> QED BY <2>1, <1>3, FlagBits
<1>8. /\ same => group = Nothing /\ from.last # Nothing /\ call.group = from.last[1]
                 /\ number \in Nat /\ call.object = from.last[2] + number
      /\ ~ same => group \in Nat /\ number = call.object
      /\ ~ same /\ from.last = Nothing => group = call.group
      /\ ~ same /\ from.last # Nothing =>
           call.group = IF descending THEN from.last[1] - group - 1 ELSE from.last[1] + group + 1
  <2>1. CASE same
    <3>1. from.last # Nothing /\ from.last[1] = call.group
      BY <1>3, <2>1 DEF SameGroup
    <3>2. call.object >= from.last[2]
      BY <3>1 DEF InOrder
    <3> QED BY <1>1, <1>2, <1>4, <2>1, <3>1, <3>2
  <2>2. CASE ~ same /\ from.last = Nothing
    BY <1>1, <1>4, <2>2
  <2>3. CASE ~ same /\ from.last # Nothing
    <3>1. from.last[1] # call.group
      BY <1>3, <2>3 DEF SameGroup
    <3>2. group = GroupDelta(from, call.group) /\ group >= 0
      BY <1>4, <2>3, <3>1 DEF InOrder
    <3>3. group = IF descending THEN from.last[1] - call.group - 1 ELSE call.group - from.last[1] - 1
      BY <3>2 DEF GroupDelta
    <3> QED BY <1>1, <1>2, <1>4, <2>3, <3>2, <3>3
  <2> QED BY <2>1, <2>2, <2>3
<1>9. n \in Nat /\ payload \in Words /\ number \in Nat /\ (group = Nothing \/ group \in Nat)
  BY <1>1, <1>5, <1>8, WordsLen
<1>10. PICK z1 : z1 = Join(payload, z)
  OBVIOUS
<1>11. z1 \in Words /\ SubSeq(z1, 1, n) = payload /\ SubSeq(z1, n + 1, Len(z1)) = z
  <2>1. CutAt(z1, payload, z) /\ n = Len(payload)
    BY <1>5, <1>9, <1>10, Cut
  <2> QED BY ONLY <2>1 DEF CutAt
<1>12. PICK z2 : z2 = Join(One(n), z1)
  OBVIOUS
<1>13. z2 \in Words /\ Head(z2) = n /\ Tail(z2) = z1
  BY ONLY <1>9, <1>11, <1>12, AfterOne
<1>14. PICK z3 : z3 = Join(block, z2)
  OBVIOUS
<1>15. z3 \in Words /\ block \in Words
       /\ Peer!Properties(present, z3) = [value |-> call.properties, rest |-> z2]
  BY <1>1, <1>3, <1>5, <1>13, <1>14, PropertiesRead
<1>16. PICK priority : priority = call.priority
  OBVIOUS
<1>17. PICK z4 : z4 = Join(One(priority), z3)
  OBVIOUS
<1>18. z4 \in Words /\ Head(z4) = priority /\ Tail(z4) = z3
  BY ONLY <1>1, <1>15, <1>16, <1>17, AfterOne
<1>19. PICK z5 : z5 = Join(One(number), z4)
  OBVIOUS
<1>20. z5 \in Words /\ Head(z5) = number /\ Tail(z5) = z4
  BY ONLY <1>9, <1>18, <1>19, AfterOne
<1>21. z5 = Join(Couple(number, priority), z3) /\ Couple(number, priority) \in Words
  <2>1. One(number) \in Words /\ One(priority) \in Words
    BY <1>1, <1>9, <1>16, Joins
  <2>2. Couple(number, priority) = Join(One(number), One(priority))
        /\ Couple(number, priority) \in Words
    BY <1>1, <1>9, <1>16, Couples
  <2> QED BY <1>15, <1>17, <1>19, <2>1, <2>2, Joins
<1>22. PICK z6 : z6 = Join(Field(call.subgroup), z5)
  OBVIOUS
<1>23. /\ z6 \in Words /\ Field(call.subgroup) \in Words
       /\ call.subgroup = Nothing => z6 = z5
       /\ call.subgroup # Nothing => Head(z6) = call.subgroup /\ Tail(z6) = z5
  BY <1>1, <1>20, <1>22, FieldRead
<1>24. PICK z7 : z7 = Join(Field(group), z6)
  OBVIOUS
<1>25. /\ z7 \in Words /\ Field(group) \in Words
       /\ group = Nothing => z7 = z6
       /\ group # Nothing => Head(z7) = group /\ Tail(z7) = z6
  BY <1>9, <1>23, <1>24, FieldRead
<1>26. w = Join(One(flags), z7) /\ FetchObject(from, call) \in Words
       /\ FetchObject(from, call) # <<>>
  <2>1. PICK a, b, c, d, l : a = One(flags) /\ b = Field(group) /\ c = Field(call.subgroup)
          /\ d = Couple(number, priority) /\ l = One(n)
    OBVIOUS
  <2>2. /\ a \in Words /\ b \in Words /\ c \in Words /\ d \in Words /\ l \in Words
        /\ block \in Words /\ payload \in Words
    BY <1>7, <1>9, <1>15, <1>21, <1>23, <1>25, <2>1, Joins
  <2>3. PICK f : f = Join(Join(Join(a, b), c), d)
    OBVIOUS
  <2>4. f \in Words
    <3>1. Join(a, b) \in Words
      BY <2>2, Joins
    <3>2. Join(Join(a, b), c) \in Words
      BY <2>2, <3>1, Joins
    <3> QED BY <2>2, <2>3, <3>2, Joins
  <2>5. FetchObject(from, call) = Join(Join(Join(f, block), l), payload)
    BY <1>6, <1>16, <2>1, <2>3
  <2>6. w = Join(f, z3)
    BY <1>10, <1>12, <1>14, <2>1, <2>2, <2>4, <2>5, Four
  <2>7. w = Join(a, z7)
    <3>1. Join(f, z3) = Join(a, Join(b, Join(c, Join(d, z3))))
      BY <1>15, <2>2, <2>3, Four
    <3>2. Join(d, z3) = z5 /\ Join(c, z5) = z6 /\ Join(b, z6) = z7
      BY <1>21, <1>22, <1>24, <2>1
    <3> QED BY ONLY <2>6, <3>1, <3>2
  <2>8. PICK r, s, t : r = Join(block, Join(l, payload)) /\ s = Join(Join(b, c), d)
          /\ t = Join(s, r)
    OBVIOUS
  <2>9. r \in Words /\ s \in Words
    <3>1. Join(l, payload) \in Words /\ Join(b, c) \in Words
      BY <2>2, Joins
    <3> QED BY <2>2, <2>8, <3>1, Joins
  <2>10. t \in Words
    BY <2>8, <2>9, Joins
  <2>11. f = Join(a, s)
    <3>1. Join(Join(Join(a, b), c), d) = Join(a, Join(b, Join(c, d)))
      BY <2>2, Three
    <3>2. Join(b, Join(c, d)) = s
      BY <2>2, <2>8, Joins
    <3> QED BY <2>3, <3>1, <3>2
  <2>12. FetchObject(from, call) = Join(f, r)
    BY <2>2, <2>4, <2>5, <2>8, Three
  <2>13. FetchObject(from, call) = Join(One(flags), t)
    BY <2>1, <2>2, <2>8, <2>9, <2>11, <2>12, Joins
  <2>14. FetchObject(from, call) \in Words /\ FetchObject(from, call) # <<>>
    BY ONLY <1>7, <2>10, <2>13, AfterOne
  <2> QED BY <2>1, <2>7, <2>14
<1>27. w \in Words /\ w # <<>> /\ w[1] = flags /\ Tail(w) = z7
  <2>1. flags \in Nat /\ z7 \in Words /\ w = Join(One(flags), z7)
    BY <1>7, <1>25, <1>26
  <2> QED BY ONLY <2>1, AfterOne
<1>28. PICK delta : delta = Peer!Optional(Peer!Bit(flags, 8), z7)
  OBVIOUS
<1>29. delta.value = group /\ delta.rest = z6
  BY <1>1, <1>7, <1>8, <1>25, <1>28 DEF Peer!Optional
<1>30. PICK sub : sub = Peer!Optional(~ Peer!Bit(flags, 64) /\ flags % 4 = 3, z6)
  OBVIOUS
<1>31. sub.value = call.subgroup /\ sub.rest = z5
  BY <1>3, <1>7, <1>23, <1>30 DEF Peer!Optional
<1>32. PICK num : num = Peer!Optional(Peer!Bit(flags, 4), z5)
  OBVIOUS
<1>33. num.value = number /\ num.rest = z4
  BY <1>7, <1>20, <1>32 DEF Peer!Optional
<1>34. PICK prio : prio = Peer!Optional(Peer!Bit(flags, 16), z4)
  OBVIOUS
<1>35. prio.value = call.priority /\ prio.rest = z3
  BY <1>7, <1>16, <1>18, <1>34 DEF Peer!Optional
<1>36. PICK props : props = Peer!Properties(Peer!Bit(flags, 32), z3)
  OBVIOUS
<1>37. props.value = call.properties /\ Head(props.rest) = n /\ Tail(props.rest) = z1
  <2>1. Peer!Bit(flags, 32) = present
    <3>1. Peer!Bit(flags, 32) <=> present
      BY <1>7
    <3> QED BY ONLY <3>1, <1>3 DEF Peer!Bit
  <2>2. props = [value |-> call.properties, rest |-> z2]
    BY ONLY <1>15, <1>36, <2>1, Zenon
  <2>3. props.value = call.properties /\ props.rest = z2
    BY ONLY <2>2
  <2> QED BY ONLY <1>13, <2>3
<1>38. PICK before, g, o : before = from.last
         /\ g = (IF before = Nothing THEN delta.value
                 ELSE IF delta.value = Nothing THEN before[1]
                 ELSE IF descending THEN before[1] - delta.value - 1
                 ELSE before[1] + delta.value + 1)
         /\ o = IF delta.value = Nothing THEN before[2] + num.value ELSE num.value
  OBVIOUS
<1>39. g = call.group /\ o = call.object
  BY <1>1, <1>8, <1>29, <1>33, <1>38
<1>40. Peer!FetchObjectAt(w, descending, before)
         = [entry |-> [group |-> g, object |-> o, subgroup |-> sub.value,
                       priority |-> prio.value, properties |-> props.value,
                       payload |-> SubSeq(Tail(props.rest), 1, Head(props.rest))],
            before |-> <<g, o>>,
            rest |-> SubSeq(Tail(props.rest), Head(props.rest) + 1, Len(Tail(props.rest)))]
  <2>1. w[1] = flags /\ Tail(w) = z7
    BY <1>27
  <2>2. delta = Peer!Optional(Peer!Bit(w[1], 8), Tail(w))
    BY ONLY <1>28, <2>1, Zenon
  <2>3. sub = Peer!Optional(~ Peer!Bit(w[1], 64) /\ w[1] % 4 = 3, delta.rest)
    BY ONLY <1>29, <1>30, <2>1, Zenon
  <2>4. num = Peer!Optional(Peer!Bit(w[1], 4), sub.rest)
    BY ONLY <1>31, <1>32, <2>1, Zenon
  <2>5. prio = Peer!Optional(Peer!Bit(w[1], 16), num.rest)
    BY ONLY <1>33, <1>34, <2>1, Zenon
  <2>6. props = Peer!Properties(Peer!Bit(w[1], 32), prio.rest)
    BY ONLY <1>35, <1>36, <2>1, Zenon
  <2>7. g = (IF before = Nothing THEN delta.value
                 ELSE IF delta.value = Nothing THEN before[1]
                 ELSE IF descending THEN before[1] - delta.value - 1
                 ELSE before[1] + delta.value + 1)
        /\ o = IF delta.value = Nothing THEN before[2] + num.value ELSE num.value
    BY <1>38
  <2> QED BY ONLY <2>2, <2>3, <2>4, <2>5, <2>6, <2>7, Zenon DEF Peer!FetchObjectAt
<1>41. call = [group |-> call.group, object |-> call.object, subgroup |-> call.subgroup,
               priority |-> call.priority, properties |-> call.properties,
               payload |-> call.payload]
  BY DEF FetchCalls
<1>42. SubSeq(Tail(props.rest), 1, Head(props.rest)) = call.payload
       /\ SubSeq(Tail(props.rest), Head(props.rest) + 1, Len(Tail(props.rest))) = z
  BY ONLY <1>5, <1>11, <1>37, Zenon
<1>43. Peer!FetchObjectAt(w, descending, from.last)
         = [entry |-> call, before |-> <<call.group, call.object>>, rest |-> z]
  BY ONLY <1>31, <1>35, <1>37, <1>38, <1>39, <1>40, <1>41, <1>42
<1> QED BY <1>7, <1>26, <1>27, <1>43 DEF FetchReadAt

\* An End of Range is read as it was asked for.
LEMMA RangeRead ==
  ASSUME EncodingTypes, NEW kind \in DOMAIN RangeFlags, NEW group \in Groups,
         NEW object \in Objects,
         NEW z \in Words, NEW w, w = Join(<<RangeFlags[kind], group, object>>, z)
  PROVE  /\ w \in Words /\ w[1] \in DOMAIN Peer!RangeKinds
         /\ <<RangeFlags[kind], group, object>> \in Words
         /\ <<RangeFlags[kind], group, object>> # <<>>
         /\ Peer!RangeAt(w)
              = [entry |-> [range |-> kind, group |-> group, object |-> object],
                 before |-> <<group, object>>, rest |-> z]
<1>1. group \in Nat /\ object \in Nat
  BY DEF EncodingTypes
<1>2. PICK f : f = RangeFlags[kind]
  OBVIOUS
<1>3. f \in {140, 268, 524} /\ f \in Nat /\ Peer!RangeKinds[f] = kind
  BY <1>2 DEF RangeFlags, Peer!RangeKinds
<1>4. f \in DOMAIN Peer!RangeKinds
  BY <1>3 DEF Peer!RangeKinds
<1>5. <<RangeFlags[kind], group, object>> = Trio(f, group, object)
  BY <1>2 DEF Trio
<1>6. TrioAt(w, f, group, object, z)
  BY <1>1, <1>3, <1>5, AfterTrio
<1>7. w \in Words /\ w[1] = f /\ w[2] = group /\ w[3] = object /\ SubSeq(w, 4, Len(w)) = z
      /\ Trio(f, group, object) \in Words /\ Trio(f, group, object) # <<>>
  BY <1>6 DEF TrioAt
<1>8. Peer!RangeAt(w)
              = [entry |-> [range |-> kind, group |-> group, object |-> object],
                 before |-> <<group, object>>, rest |-> z]
  BY ONLY <1>3, <1>7 DEF Peer!RangeAt
<1> QED BY <1>4, <1>5, <1>7, <1>8

Ranges == {[range |-> kind, group |-> group, object |-> object] :
             kind \in DOMAIN RangeFlags, group \in Groups, object \in Objects}
FetchAsked == FetchCalls \cup Ranges

\* The writer as it is before object n of a fetch stream.
FromAt(order, objects, n) ==
  [order |-> order,
   last |-> IF n = 1 THEN Nothing ELSE <<objects[n - 1].group, objects[n - 1].object>>]

\* A piece that stands for an object or for a range.
FetchPiece(from, item, piece) ==
  \/ /\ item \in FetchCalls /\ BlockAccepted(item.properties)
     /\ InOrder(from, item) /\ piece = FetchObject(from, item)
  \/ /\ item \in Ranges
     /\ piece = <<RangeFlags[item.range], item.group, item.object>>

FetchWrittenAs(order, objects, pieces) ==
  /\ objects \in Seq(FetchAsked) /\ Len(objects) = Len(pieces)
  /\ \A n \in 1 .. Len(objects) : FetchPiece(FromAt(order, objects, n), objects[n], pieces[n])

\* What was asked of a range.
LEMMA RangeFields ==
  ASSUME NEW item \in Ranges
  PROVE  /\ item.range \in DOMAIN RangeFlags /\ item.group \in Groups
         /\ item.object \in Objects
         /\ item = [range |-> item.range, group |-> item.group, object |-> item.object]
BY DEF Ranges

\* Whatever is asked for on a fetch stream has a location.
LEMMA AskedLocation ==
  ASSUME NEW item \in FetchAsked
  PROVE  item.group \in Groups /\ item.object \in Objects
BY DEF FetchAsked, Ranges, FetchCalls

\* The entries of a fetch stream are read as they were asked for, in order.
LEMMA FetchEntriesRead ==
  ASSUME EncodingTypes, NEW w, NEW order, NEW objects, NEW pieces, Chained(w, pieces),
         FetchWrittenAs(order, objects, pieces),
         NEW descending \in BOOLEAN, descending <=> order = GROUP_ORDER_DESCENDING
  PROVE  Peer!FetchEntries(w, descending) = objects
<1>1. PICK k : k = Len(pieces)
  OBVIOUS
<1>2. k \in Nat /\ Len(objects) = k /\ objects \in Seq(FetchAsked)
  BY <1>1, LenProperties DEF Chained, FetchWrittenAs
<1>3. PICK before : before = [n \in 0 .. k |-> IF n = 0 THEN Nothing
                                ELSE <<objects[n].group, objects[n].object>>]
  OBVIOUS
<1>4. ASSUME NEW q \in 1 .. k, NEW r \in Words
      PROVE  NextOf(FALSE, Join(pieces[q], r), before[q - 1], descending)
               = [entry |-> objects[q], before |-> before[q], rest |-> r]
  <2>1. PICK l : l = q - 1
    OBVIOUS
  <2>2. l \in 0 .. k /\ l \in Nat /\ q \in 0 .. k /\ q # 0 /\ (l = 0 <=> q = 1)
        /\ (l # 0 => l \in 1 .. k)
    BY <1>2, <2>1
  <2>3. PICK call, from, v, b, piece : call = objects[q] /\ from = FromAt(order, objects, q)
          /\ b = before[l] /\ piece = pieces[q] /\ v = Join(piece, r)
    OBVIOUS
  <2>4. FetchPiece(from, call, piece)
    BY <1>2, <2>3 DEF FetchWrittenAs
  <2>5. from.last = b /\ from.order = order
    BY <1>3, <2>1, <2>2, <2>3 DEF FromAt
  <2>6. from.last \in Option(Groups \X Objects)
    <3>1. CASE l = 0
      BY <1>3, <2>2, <2>5, <2>3, <3>1 DEF Option
    <3>2. CASE l # 0
      <4>1. objects[l] \in FetchAsked
        BY <1>2, <2>2, <3>2, ElementOfSeq
      <4>2. objects[l].group \in Groups /\ objects[l].object \in Objects
        BY <4>1, AskedLocation
      <4>3. b = <<objects[l].group, objects[l].object>>
        BY <1>3, <2>2, <2>3, <3>2
      <4> QED BY <2>5, <4>2, <4>3 DEF Option
    <3> QED BY <3>1, <3>2
  <2>7. before[q] = <<call.group, call.object>>
    BY <1>3, <2>2, <2>3
  <2>8. NextOf(FALSE, v, b, descending)
          = [entry |-> call, before |-> <<call.group, call.object>>, rest |-> r]
    <3>1. CASE /\ call \in FetchCalls /\ BlockAccepted(call.properties)
               /\ InOrder(from, call) /\ piece = FetchObject(from, call)
      <4>1. v = Join(FetchObject(from, call), r)
        BY <2>3, <3>1
      <4>2. descending <=> from.order = GROUP_ORDER_DESCENDING
        BY <2>5
      <4>3. FetchReadAt(v, descending, from, call, r)
        BY <2>6, <3>1, <4>1, <4>2, FetchObjectRead
      <4> QED BY ONLY <2>5, <4>3 DEF NextOf, FetchReadAt
    <3>2. CASE /\ call \in Ranges
               /\ piece = <<RangeFlags[call.range], call.group, call.object>>
      <4>1. PICK kind, group, object : kind = call.range /\ group = call.group /\ object = call.object
        OBVIOUS
      <4>2. /\ kind \in DOMAIN RangeFlags /\ group \in Groups /\ object \in Objects
            /\ call = [range |-> kind, group |-> group, object |-> object]
        BY <3>2, <4>1, RangeFields
      <4>3. v = Join(<<RangeFlags[kind], group, object>>, r)
        BY <2>3, <3>2, <4>1
      <4>4. v[1] \in DOMAIN Peer!RangeKinds
            /\ Peer!RangeAt(v) = [entry |-> [range |-> kind, group |-> group, object |-> object],
                                      before |-> <<group, object>>, rest |-> r]
        BY <4>2, <4>3, RangeRead
      <4> QED BY ONLY <4>1, <4>2, <4>4 DEF NextOf
    <3> QED BY <2>4, <3>1, <3>2 DEF FetchPiece
  <2> QED BY ONLY <2>1, <2>3, <2>7, <2>8
<1>5. PiecesRead(FALSE, pieces, objects, before, descending)
  <2>1. before[0] = Nothing
    BY <1>2, <1>3
  <2> QED BY <1>1, <1>4, <2>1 DEF PiecesRead
<1>6. Entries(Len(pieces), objects) = objects
  BY <1>1, <1>2 DEF Entries
<1>7. Peer!FetchEntries(w, descending) = Entries(Len(pieces), objects)
  BY ONLY <1>5, EntriesRead, Chained(w, pieces)
<1> QED BY ONLY <1>6, <1>7, Zenon

\* The type and the Request ID, and the entries after them.
LEMMA FetchHeaderRead ==
  ASSUME EncodingTypes, NEW z \in Words, NEW w, w = Join(<<5, Request>>, z),
         NEW descending, NEW read, read = Peer!ReadFetch(w, descending)
  PROVE  /\ w \in Words /\ <<5, Request>> \in Words
         /\ read.type = 5 /\ read.request = Request
         /\ read.entries = Peer!FetchEntries(z, descending)
<1>1. PICK b : b = <<5, Request>>
  OBVIOUS
<1>2. b \in Words /\ Len(b) = 2 /\ b[1] = 5 /\ b[2] = Request
  BY <1>1 DEF Words, EncodingTypes
<1>3. CutAt(w, b, z)
  BY <1>1, <1>2, Cut
<1>4. w[1] = 5 /\ w[2] = Request /\ SubSeq(w, 3, Len(w)) = z /\ w \in Words
  BY ONLY <1>2, <1>3 DEF CutAt
<1>5. read = [type |-> w[1], request |-> w[2],
              entries |-> Peer!FetchEntries(SubSeq(w, 3, Len(w)), descending)]
  BY DEF Peer!ReadFetch
<1>6. Peer!FetchEntries(SubSeq(w, 3, Len(w)), descending) = Peer!FetchEntries(z, descending)
  BY ONLY <1>4, Zenon
<1>7. read.type = w[1] /\ read.request = w[2]
      /\ read.entries = Peer!FetchEntries(SubSeq(w, 3, Len(w)), descending)
  BY ONLY <1>5
<1> QED BY <1>1, <1>2, <1>4, <1>6, <1>7

-----------------------------------------------------------------------------
(* A datagram.                                                             *)

\* The bits of the type of a datagram say what they are for.
LEMMA DatagramBits ==
  ASSUME NEW has_properties \in BOOLEAN, NEW zero \in BOOLEAN, NEW default \in BOOLEAN,
         NEW has_status \in BOOLEAN, NEW type,
         type = Flag(has_properties, 1) + Flag(zero, 4) + Flag(default, 8)
                + Flag(has_status, 32)
  PROVE  /\ type \in Nat /\ type < 64 /\ ~ Peer!Bit(type, 16) /\ ~ Peer!Bit(type, 2)
         /\ Peer!Bit(type, 1) <=> has_properties
         /\ Peer!Bit(type, 4) <=> zero
         /\ Peer!Bit(type, 8) <=> default
         /\ Peer!Bit(type, 32) <=> has_status
BY DEF Peer!Bit, Flag

\* A datagram that is accepted is read as it was asked for, and is legal.
LEMMA DatagramRead ==
  ASSUME EncodingTypes, NEW call \in DatagramCalls, BlockAccepted(call.properties),
         StatusAccepted(call.status, call.payload), DatagramAccepted(call),
         NEW w, w = Datagram(call), NEW read, read = Peer!ReadDatagram(w)
  PROVE  /\ w \in Words
         /\ read.legal
         /\ read.alias = Alias
         /\ read.group = call.group /\ read.object = call.object
         /\ read.properties = call.properties /\ read.payload = call.payload
         /\ read.priority = call.priority /\ read.status = StatusOf(call)
<1>1. /\ call.group \in Nat /\ call.object \in Nat /\ Alias \in Nat
      /\ call.properties \in Option(Blocks)
      /\ call.payload \in Words
      /\ call.priority = Nothing \/ call.priority \in Nat
      /\ call.status = Nothing \/ call.status \in Nat
      /\ Nothing \notin Nat
  BY DEF DatagramCalls, EncodingTypes, Option, Words
<1>2. PICK written : written = StatusToWrite(call.status, call.payload)
  OBVIOUS
<1>3. /\ call.payload # <<>> => written = Nothing /\ call.status \in {Nothing, 0}
      /\ call.payload = <<>> => written = IF call.status = Nothing THEN 0 ELSE call.status
      /\ written = Nothing \/ written \in Nat
      /\ (IF written # Nothing THEN written ELSE 0) = StatusOf(call)
  BY <1>1, <1>2 DEF StatusToWrite, StatusAccepted, StatusOf, Normal
<1>4. PICK present, zero, default, has_status :
        /\ present \in BOOLEAN /\ zero \in BOOLEAN /\ default \in BOOLEAN /\ has_status \in BOOLEAN
        /\ present <=> call.properties # Nothing
        /\ zero <=> call.object = 0
        /\ default <=> call.priority = Nothing
        /\ has_status <=> written # Nothing
  <2>1. \E s \in BOOLEAN : s <=> call.properties # Nothing
    OBVIOUS
  <2>2. \E s \in BOOLEAN : s <=> call.object = 0
    OBVIOUS
  <2>3. \E s \in BOOLEAN : s <=> call.priority = Nothing
    OBVIOUS
  <2>4. \E s \in BOOLEAN : s <=> written # Nothing
    OBVIOUS
  <2> QED BY <2>1, <2>2, <2>3, <2>4
<1>5. PICK type : type = Flag(present, 1) + Flag(zero, 4) + Flag(default, 8)
                + Flag(has_status, 32)
  OBVIOUS
<1>6. /\ type \in Nat /\ type < 64 /\ ~ Peer!Bit(type, 16) /\ ~ Peer!Bit(type, 2)
      /\ Peer!Bit(type, 1) <=> present
      /\ Peer!Bit(type, 4) <=> zero
      /\ Peer!Bit(type, 8) <=> default
      /\ Peer!Bit(type, 32) <=> has_status
  BY <1>4, <1>5, DatagramBits
<1>7. PICK object, block, payload :
        /\ object = IF zero THEN Nothing ELSE call.object
        /\ block = Blob(call.properties) /\ payload = call.payload
  OBVIOUS
<1>8. w = Join(Join(Join(Join(Trio(type, Alias, call.group), Field(object)),
                         Field(call.priority)), block),
               IF written = Nothing THEN payload ELSE <<written>>)
  <2>1. type = Flag(call.properties # Nothing, 1) + Flag(call.object = 0, 4)
      + Flag(call.priority = Nothing, 8) + Flag(written # Nothing, 32)
    BY <1>4, <1>5 DEF Flag
  <2>2. Field(object) = IF call.object = 0 THEN <<>> ELSE <<call.object>>
    BY <1>1, <1>4, <1>7 DEF Field
  <2> QED BY <1>2, <1>7, <2>1, <2>2 DEF Datagram, Join, Trio
<1>9. payload \in Words /\ <<>> \in Words
  BY <1>1, <1>7, Joins
<1>10. PICK z1 : z1 = IF written = Nothing THEN payload ELSE <<written>>
  OBVIOUS
<1>11. z1 = Join(Field(written), payload)
  <2>1. CASE written = Nothing
    BY <1>9, <1>10, <2>1, Joins DEF Field
  <2>2. CASE written # Nothing
    <3>1. payload = <<>> /\ written \in Nat
      BY <1>3, <1>7, <2>2
    <3>2. Field(written) = One(written) /\ z1 = One(written)
      BY <1>10, <2>2 DEF Field, One
    <3>3. Join(One(written), <<>>) = One(written)
      BY <3>1, Joins
    <3> QED BY <3>1, <3>2, <3>3
  <2> QED BY <2>1, <2>2
<1>12. /\ z1 \in Words
       /\ written = Nothing => z1 = payload
       /\ written # Nothing => Head(z1) = written /\ Tail(z1) = payload
  BY <1>3, <1>9, <1>11, FieldRead
<1>13. PICK z2 : z2 = Join(block, z1)
  OBVIOUS
<1>14. z2 \in Words /\ block \in Words
       /\ Peer!Properties(present, z2) = [value |-> call.properties, rest |-> z1]
  BY <1>1, <1>4, <1>7, <1>12, <1>13, PropertiesRead
<1>15. PICK z3 : z3 = Join(Field(call.priority), z2)
  OBVIOUS
<1>16. /\ z3 \in Words /\ Field(call.priority) \in Words
       /\ call.priority = Nothing => z3 = z2
       /\ call.priority # Nothing => Head(z3) = call.priority /\ Tail(z3) = z2
  BY <1>1, <1>14, <1>15, FieldRead
<1>17. PICK z4 : z4 = Join(Field(object), z3)
  OBVIOUS
<1>18. object = Nothing \/ object \in Nat
  BY <1>1, <1>7
<1>19. /\ z4 \in Words /\ Field(object) \in Words
       /\ object = Nothing => z4 = z3
       /\ object # Nothing => Head(z4) = object /\ Tail(z4) = z3
  BY <1>16, <1>17, <1>18, FieldRead
<1>20. PICK group : group = call.group
  OBVIOUS
<1>21. w = Join(Trio(type, Alias, group), z4)
  <2>1. PICK t, f, p : t = Trio(type, Alias, group) /\ f = Field(object)
          /\ p = Field(call.priority)
    OBVIOUS
  <2>2. t \in Words
    BY <1>1, <1>6, <1>20, <2>1 DEF Trio, Words
  <2>3. f \in Words /\ p \in Words /\ block \in Words
    BY <1>14, <1>16, <1>19, <2>1
  <2>4. w = Join(Join(Join(Join(t, f), p), block), z1)
    BY <1>8, <1>10, <1>20, <2>1
  <2>5. w = Join(t, Join(f, Join(p, Join(block, z1))))
    BY <1>12, <2>2, <2>3, <2>4, Four
  <2> QED BY <1>13, <1>15, <1>17, <2>1, <2>5
<1>22. TrioAt(w, type, Alias, group, z4)
  BY <1>1, <1>6, <1>19, <1>20, <1>21, AfterTrio
<1>23. w \in Words /\ w[1] = type /\ w[2] = Alias /\ w[3] = group /\ SubSeq(w, 4, Len(w)) = z4
  BY <1>22 DEF TrioAt
<1>24. PICK obj : obj = Peer!Optional(~ Peer!Bit(type, 4), z4)
  OBVIOUS
<1>25. obj.value = object /\ obj.rest = z3
  BY <1>1, <1>6, <1>7, <1>19, <1>24 DEF Peer!Optional
<1>26. PICK prio : prio = Peer!Optional(~ Peer!Bit(type, 8), z3)
  OBVIOUS
<1>27. prio.value = call.priority /\ prio.rest = z2
  BY <1>4, <1>6, <1>16, <1>26 DEF Peer!Optional
<1>28. PICK props : props = Peer!Properties(Peer!Bit(type, 1), z2)
  OBVIOUS
<1>29. props.value = call.properties /\ props.rest = z1
  <2>1. Peer!Bit(type, 1) = present
    <3>1. Peer!Bit(type, 1) <=> present
      BY <1>6
    <3> QED BY ONLY <3>1, <1>4 DEF Peer!Bit
  <2>2. props = [value |-> call.properties, rest |-> z1]
    BY ONLY <1>14, <1>28, <2>1, Zenon
  <2> QED BY ONLY <2>2
<1>30. PICK stat : stat = Peer!Optional(Peer!Bit(type, 32), z1)
  OBVIOUS
<1>31. stat.value = written /\ stat.rest = payload
  BY <1>4, <1>6, <1>12, <1>30 DEF Peer!Optional
<1>32. read =
         [alias |-> w[2], group |-> w[3],
          object |-> IF Peer!Bit(type, 4) THEN 0 ELSE obj.value,
          legal |-> /\ type < 64 /\ ~ Peer!Bit(type, 16)
                    /\ ~ (Peer!Bit(type, 32) /\ Peer!Bit(type, 2))
                    /\ props.value # Nothing => Len(props.value) > 1
                    /\ props.value # Nothing => stat.value \in {Nothing, 0},
          priority |-> prio.value, properties |-> props.value,
          status |-> IF Peer!Bit(type, 32) THEN stat.value ELSE 0,
          payload |-> stat.rest]
  <2>1. w[1] = type
    BY <1>23
  <2>2. obj = Peer!Optional(~ Peer!Bit(w[1], 4), SubSeq(w, 4, Len(w)))
    BY ONLY <1>23, <1>24, Zenon
  <2>3. prio = Peer!Optional(~ Peer!Bit(w[1], 8), obj.rest)
    BY ONLY <1>25, <1>26, <2>1, Zenon
  <2>4. props = Peer!Properties(Peer!Bit(w[1], 1), prio.rest)
    BY ONLY <1>27, <1>28, <2>1, Zenon
  <2>5. stat = Peer!Optional(Peer!Bit(w[1], 32), props.rest)
    BY ONLY <1>29, <1>30, <2>1, Zenon
  <2> QED BY ONLY <2>1, <2>2, <2>3, <2>4, <2>5, read = Peer!ReadDatagram(w), Zenon
          DEF Peer!ReadDatagram
<1>33. read.legal
  <2>1. /\ type < 64 /\ ~ Peer!Bit(type, 16)
        /\ ~ (Peer!Bit(type, 32) /\ Peer!Bit(type, 2))
    BY <1>6
  <2>2. props.value # Nothing => Len(props.value) > 1
    <3>1. SUFFICES ASSUME props.value # Nothing PROVE Len(props.value) > 1
      OBVIOUS
    <3>2. PICK p : p = call.properties
      OBVIOUS
    <3>3. p # Nothing /\ p \in Blocks
      BY <1>1, <1>29, <3>1, <3>2 DEF Option
    <3>4. p \in Seq(Nat) /\ p # <<>> /\ Head(p) = Len(p) - 1 /\ Head(p) # 0
      BY <3>2, <3>3 DEF EncodingTypes, BlockAccepted, DatagramAccepted
    <3>5. Len(p) \in Nat /\ Len(p) # 0
      BY <3>4, LenProperties, EmptySeq
    <3>6. Len(p) > 1
      BY ONLY <3>4, <3>5
    <3> QED BY <1>29, <3>2, <3>6
  <2>3. props.value # Nothing => stat.value \in {Nothing, 0}
    BY <1>2, <1>29, <1>31 DEF DatagramAccepted, Normal
  <2>4. read.legal = (
                    /\ type < 64 /\ ~ Peer!Bit(type, 16)
                    /\ ~ (Peer!Bit(type, 32) /\ Peer!Bit(type, 2))
                    /\ props.value # Nothing => Len(props.value) > 1
                    /\ props.value # Nothing => stat.value \in {Nothing, 0})
    BY ONLY <1>32
  <2> QED BY ONLY <2>1, <2>2, <2>3, <2>4, Zenon
<1>34. /\ read.alias = w[2] /\ read.group = w[3] /\ read.priority = prio.value
       /\ read.properties = props.value /\ read.payload = stat.rest
  BY ONLY <1>32
<1>35. read.object = call.object
  <2>1. read.object = IF Peer!Bit(type, 4) THEN 0 ELSE obj.value
    BY ONLY <1>32
  <2> QED BY <1>4, <1>6, <1>7, <1>25, <2>1
<1>36. read.status = StatusOf(call)
  <2>1. read.status = IF Peer!Bit(type, 32) THEN stat.value ELSE 0
    BY ONLY <1>32
  <2> QED BY <1>3, <1>4, <1>6, <1>31, <2>1
<1> QED BY <1>7, <1>20, <1>23, <1>27, <1>29, <1>31, <1>33, <1>34, <1>35, <1>36

-----------------------------------------------------------------------------
(* What holds of the streams of a task.                                    *)

StreamHeaders ==
  [group: Groups, subgroup: Option(SubgroupIds), mode: Modes,
   priority: Option(Priorities), end_of_group: BOOLEAN]

SubgroupSent == [by: StreamHeaders, objects: Seq(SubgroupCalls)]

\* On w are the header and the objects that were asked for.
SubgroupStream(w, said, has_properties) ==
  /\ HeaderOk(said.by)
  /\ \E body, pieces :
       /\ w = Join(HeaderWords(said.by, has_properties), body)
       /\ Chained(body, pieces) /\ WrittenAs(said.objects, pieces, has_properties)
  /\ \A k \in 1 .. Len(said.objects) :
       said.objects[k].group = said.by.group /\ said.objects[k].mode = said.by.mode

\* What the registered writer remembers of the stream that it writes.
LastStream(w, said, registered) ==
  /\ registered \in SubgroupWriters
  /\ SubgroupStream(w, said, registered.has_properties)
  /\ registered.group = said.by.group /\ registered.mode = said.by.mode
  /\ registered.last = IF said.objects = <<>> THEN Nothing
                       ELSE said.objects[Len(said.objects)].object

SubgroupState(streams, calls, registered) ==
  /\ streams \in Seq(Words) /\ calls \in Seq(SubgroupSent) /\ Len(streams) = Len(calls)
  /\ \A i \in 1 .. Len(streams) :
       \E has_properties \in BOOLEAN : SubgroupStream(streams[i], calls[i], has_properties)
  /\ registered = Nothing <=> Len(streams) = 0
  /\ Len(streams) # 0 => LastStream(streams[Len(streams)], calls[Len(streams)], registered)

\* An object that is accepted is written as numbers, and as one at least.
LEMMA SubgroupWords ==
  ASSUME EncodingTypes, NEW call \in SubgroupCalls, BlockAccepted(call.properties),
         StatusAccepted(call.status, call.payload), NEW delta \in Nat
  PROVE  SubgroupObject(delta, call) \in Words /\ SubgroupObject(delta, call) # <<>>
<1>1. PICK block, n, payload, status, contents, z :
        /\ payload = call.payload /\ status = call.status
        /\ block = Blob(call.properties) /\ n = Len(payload) /\ z = <<>>
        /\ contents = IF StatusToWrite(status, payload) = Nothing THEN payload
                     ELSE One(StatusToWrite(status, payload))
  OBVIOUS
<1>2. /\ call.properties \in Option(Blocks) /\ payload \in Payloads
      /\ status \in Option(Statuses) /\ StatusAccepted(status, payload)
  BY <1>1 DEF SubgroupCalls
<1>3. z \in Words
  BY <1>1, Joins
<1>4. contents \in Words /\ n \in Nat
  <2>1. PICK v : v = Join(contents, z)
    OBVIOUS
  <2>2. ContentIs(v, payload, status, contents, z)
    BY <1>1, <1>2, <1>3, <2>1, ContentRead
  <2> QED BY <1>1, <2>2 DEF ContentIs
<1>5. block \in Words
  <2>1. PICK v, present : v = Join(Blob(call.properties), z) /\ present \in BOOLEAN
          /\ (present <=> call.properties # Nothing)
    <3>1. \E s \in BOOLEAN : s <=> call.properties # Nothing
      OBVIOUS
    <3> QED BY <3>1
  <2> QED BY <1>1, <1>2, <1>3, <2>1, PropertiesRead
<1>6. PICK d, l, u : d = One(delta) /\ l = One(n) /\ u = Join(block, Join(l, contents))
  OBVIOUS
<1>7. d \in Words /\ l \in Words
  BY <1>4, <1>6, Joins
<1>8. u \in Words
  BY <1>4, <1>5, <1>6, <1>7, Joins
<1>9. SubgroupObject(delta, call) = Join(Join(Join(d, block), l), contents)
  BY <1>1, <1>6 DEF SubgroupObject, Join, One
<1>10. SubgroupObject(delta, call) = Join(d, u)
  BY <1>4, <1>5, <1>6, <1>7, <1>9, Three
<1> QED BY ONLY <1>6, <1>8, <1>10, AfterOne, delta \in Nat

\* A stream that a call has opened.
LEMMA StreamOpened ==
  ASSUME EncodingTypes, NEW call \in SubgroupCalls,
         ModeAccepted(call.subgroup, call.mode),
         NEW mode, mode = ResolveMode(call.subgroup, call.mode),
         NEW w, w = SubgroupHeader(call),
         NEW said, said = [by |-> HeaderOf(call), objects |-> <<>>],
         NEW registered, registered = [group |-> call.group, mode |-> mode,
           has_properties |-> call.properties # Nothing, last |-> Nothing]
  PROVE  LastStream(w, said, registered) /\ said \in SubgroupSent /\ w \in Words
<1>1. /\ call.group \in Groups /\ call.subgroup \in Option(SubgroupIds)
      /\ call.priority \in Option(Priorities) /\ call.end_of_group \in BOOLEAN
      /\ call.mode \in Option(Modes)
  BY DEF SubgroupCalls
<1>2. mode \in Modes
  BY <1>1 DEF ResolveMode, Modes, Option
<1>3. PICK by, present : by = HeaderOf(call) /\ present \in BOOLEAN
        /\ present = (call.properties # Nothing)
  OBVIOUS
<1>4. by = [group |-> call.group, subgroup |-> call.subgroup, mode |-> mode,
            priority |-> call.priority, end_of_group |-> call.end_of_group]
  BY <1>3 DEF HeaderOf
<1>5. by \in StreamHeaders /\ HeaderOk(by)
  BY <1>1, <1>2, <1>4 DEF StreamHeaders, HeaderOk, ModeAccepted
<1>6. <<>> \in Seq(SubgroupCalls) /\ said.objects = <<>> /\ said.by = by /\ Len(<<>>) = 0
  BY <1>3
<1>7. said \in SubgroupSent
  BY <1>3, <1>5, <1>6 DEF SubgroupSent
<1>8. registered \in SubgroupWriters
  BY <1>1, <1>2 DEF SubgroupWriters, Option
<1>9. w = HeaderWords(by, present)
  BY <1>3, <1>4 DEF SubgroupHeader, HeaderWords, Join, Trio
<1>10. HeaderWords(by, present) \in Words
  <2>1. PICK z : z = <<>>
    OBVIOUS
  <2>2. z \in Words
    BY <2>1, Joins
  <2>3. PICK v, o : v = Join(HeaderWords(by, present), z)
          /\ o = Peer!SubgroupObjects(z, present)
    OBVIOUS
  <2> QED BY <1>3, <1>5, <2>2, <2>3, SubgroupHeaderRead
<1>11. w = Join(HeaderWords(by, present), <<>>)
  BY <1>9, <1>10, Joins
<1>12. WrittenAs(<<>>, <<>>, present)
  BY <1>6 DEF WrittenAs
<1>13. SubgroupStream(w, said, present)
  BY <1>5, <1>6, <1>11, <1>12, ChainNone DEF SubgroupStream
<1>14. registered.has_properties = present /\ registered.group = by.group
       /\ registered.mode = by.mode /\ registered.last = Nothing
  BY <1>3, <1>4
<1>15. SubgroupStream(w, said, registered.has_properties)
  BY ONLY <1>13, <1>14, Zenon
<1> QED BY <1>6, <1>7, <1>8, <1>9, <1>10, <1>14, <1>15 DEF LastStream

\* What send_subgroup_object works out for an object on a registered stream.
Agrees(registered, call, mode) ==
  /\ mode = ResolveMode(call.subgroup, call.mode)
  /\ registered.group = call.group /\ registered.mode = mode
  /\ registered.has_properties = (call.properties # Nothing)

DeltaFrom(registered, call) ==
  IF registered.last = Nothing THEN call.object ELSE call.object - registered.last - 1

InMode(call, mode) == [call EXCEPT !.mode = mode]
WithObject(said, one) == [said EXCEPT !.objects = Append(@, one)]
WithLast(registered, object) == [registered EXCEPT !.last = object]

\* A stream with one object more.
LEMMA ObjectAdded ==
  ASSUME EncodingTypes, NEW call \in SubgroupCalls,
         BlockAccepted(call.properties), StatusAccepted(call.status, call.payload),
         NEW w, NEW said \in SubgroupSent, NEW registered, LastStream(w, said, registered),
         NEW mode, Agrees(registered, call, mode),
         NEW delta \in Nat, delta = DeltaFrom(registered, call),
         NEW d, d = SubgroupObject(delta, call), NEW v, v = Join(w, d),
         NEW one, one = InMode(call, mode), NEW more, more = WithObject(said, one),
         NEW next, next = WithLast(registered, call.object)
  PROVE  LastStream(v, more, next) /\ more \in SubgroupSent /\ v \in Words
<1>1. /\ mode = ResolveMode(call.subgroup, call.mode)
      /\ registered.group = call.group /\ registered.mode = mode
      /\ registered.has_properties = (call.properties # Nothing)
      /\ delta = IF registered.last = Nothing THEN call.object
                 ELSE call.object - registered.last - 1
      /\ one = [call EXCEPT !.mode = mode]
      /\ more = [said EXCEPT !.objects = Append(@, one)]
      /\ next = [registered EXCEPT !.last = call.object]
  BY DEF Agrees, DeltaFrom, InMode, WithObject, WithLast
<1>2. PICK old, new, n : old = said.objects /\ new = Append(old, one) /\ n = Len(old)
  OBVIOUS
<1>3. /\ registered \in SubgroupWriters
      /\ SubgroupStream(w, said, registered.has_properties)
      /\ registered.group = said.by.group /\ registered.mode = said.by.mode
      /\ registered.last = IF old = <<>> THEN Nothing ELSE old[n].object
  BY <1>2 DEF LastStream
<1>4. /\ registered.has_properties \in BOOLEAN /\ registered.mode \in Modes
      /\ registered.group \in Groups
      /\ call.object \in Objects
  BY <1>3 DEF SubgroupWriters, SubgroupCalls
<1>5. PICK present : present \in BOOLEAN /\ present = registered.has_properties
  BY <1>4
<1>6. present <=> call.properties # Nothing
  BY <1>1, <1>5
<1>7. one \in SubgroupCalls /\ one.mode = registered.mode /\ one.group = call.group
      /\ one.object = call.object /\ one.properties = call.properties
      /\ one.payload = call.payload /\ one.status = call.status
  BY <1>1, <1>4 DEF SubgroupCalls, Option
<1>8. SubgroupObject(delta, one) = d
  <2>1. one.properties = call.properties /\ one.payload = call.payload /\ one.status = call.status
    BY <1>7
  <2>2. SubgroupObject(delta, one) = SubgroupObject(delta, call)
    BY ONLY <2>1, Zenon DEF SubgroupObject
  <2> QED BY ONLY <2>2, d = SubgroupObject(delta, call), Zenon
<1>9. d \in Words /\ d # <<>>
  BY SubgroupWords
<1>10. old \in Seq(SubgroupCalls) /\ n \in Nat /\ (old = <<>> <=> n = 0)
  <2>1. old \in Seq(SubgroupCalls)
    BY <1>2 DEF SubgroupSent
  <2>2. PICK S : S = SubgroupCalls
    OBVIOUS
  <2> QED BY ONLY <1>2, <2>1, <2>2, LenProperties, EmptySeq
<1>11. /\ new \in Seq(SubgroupCalls) /\ Len(new) = n + 1 /\ new # <<>>
       /\ \A k \in 1 .. n : new[k] = old[k]
       /\ new[n + 1] = one
  <2>1. PICK S : S = SubgroupCalls
    OBVIOUS
  <2>2. old \in Seq(S) /\ one \in S /\ Len(old) = n /\ new = Append(old, one)
    BY <1>2, <1>7, <1>10, <2>1
  <2>3. /\ new \in Seq(S) /\ Len(new) = n + 1 /\ new # <<>>
        /\ \A k \in 1 .. n : new[k] = old[k]
        /\ new[n + 1] = one
    BY ONLY <2>2, AppendProperties
  <2> QED BY ONLY <2>1, <2>3, Zenon
<1>12. more.objects = new /\ more.by = said.by /\ more \in SubgroupSent
  BY <1>1, <1>2, <1>11 DEF SubgroupSent
<1>13. /\ next \in SubgroupWriters /\ next.has_properties = present
       /\ next.group = registered.group /\ next.mode = registered.mode
       /\ next.last = call.object
  BY <1>1, <1>3, <1>4, <1>5 DEF SubgroupWriters, Option
<1>14. SubgroupStream(w, said, present)
  BY ONLY <1>3, <1>5, Zenon
<1>15. PICK body, pieces : w = Join(HeaderWords(said.by, present), body)
         /\ Chained(body, pieces) /\ WrittenAs(old, pieces, present)
  BY <1>2, <1>14 DEF SubgroupStream
<1>16. PICK b, p : b = Join(body, d) /\ p = Append(pieces, d)
  OBVIOUS
<1>17. Chained(b, p) /\ body \in Words /\ pieces \in Seq(Words)
  BY <1>9, <1>15, <1>16, ChainMore
<1>18. HeaderOk(said.by)
  BY <1>14 DEF SubgroupStream
<1>19. b \in Words
  BY <1>9, <1>16, <1>17, Joins
<1>20. PICK h, o : h = HeaderWords(said.by, present) /\ o = Peer!SubgroupObjects(b, present)
  OBVIOUS
<1>21. h \in Words /\ Join(h, b) \in Words
  <2>1. PICK by, u : by = said.by /\ u = Join(HeaderWords(by, present), b)
    OBVIOUS
  <2>2. HeaderOk(by) /\ h = HeaderWords(by, present)
    BY <1>18, <1>20, <2>1
  <2>3. u \in Words /\ HeaderWords(by, present) \in Words
    BY ONLY EncodingTypes, <1>5, <1>19, <1>20, <2>1, <2>2, SubgroupHeaderRead
  <2> QED BY <2>1, <2>2, <2>3
<1>22. v = Join(h, b)
  BY <1>9, <1>15, <1>16, <1>17, <1>20, <1>21, Joins
<1>23. WrittenAs(new, p, present)
  <2>1. Len(pieces) = n /\ p \in Seq(Words) /\ Len(p) = n + 1
        /\ (\A k \in 1 .. n : p[k] = pieces[k]) /\ p[n + 1] = d
    <3>1. Len(pieces) = n
      BY <1>2, <1>15 DEF WrittenAs
    <3> QED BY <1>9, <1>16, <1>17, <3>1, AppendProperties
  <2>2. ASSUME NEW k \in 1 .. n + 1
        PROVE  /\ new[k] \in SubgroupCalls
               /\ BlockAccepted(new[k].properties)
               /\ StatusAccepted(new[k].status, new[k].payload)
               /\ DeltaAt(new, k) \in Nat
               /\ present <=> new[k].properties # Nothing
               /\ p[k] = SubgroupObject(DeltaAt(new, k), new[k])
    <3>1. CASE k \in 1 .. n
      <4>1. /\ old[k] \in SubgroupCalls
            /\ BlockAccepted(old[k].properties)
            /\ StatusAccepted(old[k].status, old[k].payload)
            /\ DeltaAt(old, k) \in Nat
            /\ present <=> old[k].properties # Nothing
            /\ pieces[k] = SubgroupObject(DeltaAt(old, k), old[k])
        BY <1>2, <1>15, <3>1 DEF WrittenAs
      <4>2. new[k] = old[k] /\ p[k] = pieces[k]
        BY <1>11, <2>1, <3>1
      <4>3. DeltaAt(new, k) = DeltaAt(old, k)
        <5>1. k # 1 => k - 1 \in 1 .. n
          BY <1>10, <3>1
        <5> QED BY <1>11, <4>2, <5>1 DEF DeltaAt
      <4> QED BY ONLY <4>1, <4>2, <4>3, Zenon
    <3>2. CASE k = n + 1
      <4>1. new[k] = one /\ p[k] = d
        BY <1>11, <2>1, <3>2
      <4>2. DeltaAt(new, k) = delta
        <5>1. CASE n = 0
          <6>1. old = <<>> /\ k = 1
            BY ONLY <1>10, <3>2, <5>1
          <6> QED BY <1>1, <1>3, <1>7, <4>1, <6>1 DEF DeltaAt
        <5>2. CASE n # 0
          <6>1. old # <<>> /\ k # 1 /\ k - 1 = n /\ n \in 1 .. n
            BY ONLY <1>10, <3>2, <5>2
          <6>2. old[n] \in SubgroupCalls /\ new[n] = old[n]
            BY <1>2, <1>10, <1>11, <6>1, ElementOfSeq
          <6>3. old[n].object \in Nat /\ Nothing \notin Nat
            BY <6>2 DEF SubgroupCalls, EncodingTypes
          <6>4. registered.last = old[n].object /\ registered.last # Nothing
            BY <1>3, <6>1, <6>3
          <6> QED BY <1>1, <1>7, <4>1, <6>1, <6>2, <6>4 DEF DeltaAt
        <5> QED BY <5>1, <5>2
      <4>3. /\ one \in SubgroupCalls
            /\ BlockAccepted(one.properties)
            /\ StatusAccepted(one.status, one.payload)
            /\ present <=> one.properties # Nothing
            /\ d = SubgroupObject(delta, one)
        BY <1>6, <1>7, <1>8
      <4> QED BY ONLY <4>1, <4>2, <4>3, delta \in Nat, Zenon
    <3> QED BY <1>10, <3>1, <3>2
  <2> QED BY ONLY <1>11, <2>1, <2>2, Zenon DEF WrittenAs
<1>24. \A k \in 1 .. n + 1 : new[k].group = said.by.group /\ new[k].mode = said.by.mode
  <2>1. \A k \in 1 .. n : old[k].group = said.by.group /\ old[k].mode = said.by.mode
    BY <1>2, <1>14 DEF SubgroupStream
  <2>2. \A k \in 1 .. n + 1 : k \in 1 .. n \/ k = n + 1
    BY <1>10
  <2>3. one.group = said.by.group /\ one.mode = said.by.mode
    BY <1>1, <1>3, <1>7
  <2> QED BY ONLY <1>11, <2>1, <2>2, <2>3
<1>25. SubgroupStream(v, more, present)
  BY ONLY <1>11, <1>12, <1>17, <1>18, <1>20, <1>22, <1>23, <1>24, Zenon DEF SubgroupStream
<1>26. SubgroupStream(v, more, next.has_properties)
  BY ONLY <1>13, <1>25, Zenon
<1>27. next.group = more.by.group /\ next.mode = more.by.mode
       /\ next.last = more.objects[Len(more.objects)].object /\ more.objects # <<>>
  BY ONLY <1>1, <1>3, <1>7, <1>11, <1>12, <1>13
<1> QED BY <1>12, <1>13, <1>21, <1>22, <1>26, <1>27 DEF LastStream

\* The last of a sequence that is replaced, and one that is added.
LEMMA LastReplaced ==
  ASSUME NEW S, NEW s \in Seq(S), Len(s) # 0, NEW x \in S, NEW n, n = Len(s),
         NEW t, t = [s EXCEPT ![n] = x]
  PROVE  t \in Seq(S) /\ Len(t) = n /\ t[n] = x /\ n \in Nat
         /\ \A i \in 1 .. n : i # n => t[i] = s[i]
<1>1. n \in Nat /\ n \in 1 .. n /\ s = [i \in 1 .. n |-> s[i]] /\ \A i \in 1 .. n : s[i] \in S
  BY LenProperties, ElementOfSeq
<1>2. t = [i \in 1 .. n |-> IF i = n THEN x ELSE s[i]]
  BY <1>1
<1>3. \A i \in 1 .. n : t[i] \in S
  BY <1>1, <1>2
<1> QED BY <1>1, <1>2, <1>3

\* An element that is added at the end.
LEMMA Added ==
  ASSUME NEW S, NEW s \in Seq(S), NEW x \in S, NEW n, n = Len(s), NEW t, t = Append(s, x)
  PROVE  t \in Seq(S) /\ Len(t) = n + 1 /\ t[n + 1] = x /\ n \in Nat
         /\ \A i \in 1 .. n : t[i] = s[i]
BY AppendProperties, LenProperties

\* A stream more, that a call has opened.
LEMMA StateOpened ==
  ASSUME NEW streams, NEW calls, NEW registered, SubgroupState(streams, calls, registered),
         NEW w \in Words, NEW said \in SubgroupSent, NEW next, LastStream(w, said, next),
         NEW more, more = Append(streams, w), NEW sends, sends = Append(calls, said),
         Nothing \notin SubgroupWriters
  PROVE  SubgroupState(more, sends, next) /\ Len(more) # 0
<1>1. PICK n : n = Len(streams)
  OBVIOUS
<1>2. streams \in Seq(Words) /\ calls \in Seq(SubgroupSent) /\ Len(calls) = n
  BY <1>1 DEF SubgroupState
<1>3. more \in Seq(Words) /\ Len(more) = n + 1 /\ more[n + 1] = w /\ n \in Nat
      /\ \A i \in 1 .. n : more[i] = streams[i]
  BY ONLY <1>1, <1>2, Added, w \in Words, more = Append(streams, w)
<1>4. sends \in Seq(SubgroupSent) /\ Len(sends) = n + 1 /\ sends[n + 1] = said
      /\ \A i \in 1 .. n : sends[i] = calls[i]
  BY ONLY <1>2, Added, said \in SubgroupSent, sends = Append(calls, said)
<1>5. ASSUME NEW i \in 1 .. n + 1
      PROVE  \E has_properties \in BOOLEAN : SubgroupStream(more[i], sends[i], has_properties)
  <2>1. CASE i \in 1 .. n
    <3>1. \E has_properties \in BOOLEAN : SubgroupStream(streams[i], calls[i], has_properties)
      BY <1>1, <2>1 DEF SubgroupState
    <3> QED BY <1>3, <1>4, <2>1, <3>1
  <2>2. CASE i = n + 1
    <3>1. SubgroupStream(w, said, next.has_properties) /\ next.has_properties \in BOOLEAN
      BY DEF LastStream, SubgroupWriters
    <3> QED BY <1>3, <1>4, <2>2, <3>1
  <2>3. i \in 1 .. n \/ i = n + 1
    BY ONLY <1>3
  <2> QED BY ONLY <2>1, <2>2, <2>3
<1>6. next # Nothing
  BY DEF LastStream
<1>7. n + 1 # 0
  BY <1>3
<1>8. LastStream(more[Len(more)], sends[Len(more)], next)
  BY <1>3, <1>4
<1> QED BY ONLY <1>3, <1>4, <1>5, <1>6, <1>7, <1>8 DEF SubgroupState

\* The last stream with one object more.
LEMMA StateWritten ==
  ASSUME NEW streams, NEW calls, NEW registered, SubgroupState(streams, calls, registered),
         NEW n, n = Len(streams), n # 0,
         NEW w \in Words, NEW said \in SubgroupSent, NEW next, LastStream(w, said, next),
         NEW more, more = [streams EXCEPT ![n] = w],
         NEW sends, sends = [calls EXCEPT ![n] = said],
         Nothing \notin SubgroupWriters
  PROVE  SubgroupState(more, sends, next)
<1>1. streams \in Seq(Words) /\ calls \in Seq(SubgroupSent) /\ Len(calls) = n
  BY DEF SubgroupState
<1>2. more \in Seq(Words) /\ Len(more) = n /\ more[n] = w /\ n \in Nat
      /\ \A i \in 1 .. n : i # n => more[i] = streams[i]
  BY ONLY <1>1, LastReplaced, w \in Words, more = [streams EXCEPT ![n] = w], n = Len(streams), n # 0
<1>3. sends \in Seq(SubgroupSent) /\ Len(sends) = n /\ sends[n] = said
      /\ \A i \in 1 .. n : i # n => sends[i] = calls[i]
  BY ONLY <1>1, LastReplaced, said \in SubgroupSent, sends = [calls EXCEPT ![n] = said], n # 0
<1>4. ASSUME NEW i \in 1 .. n
      PROVE  \E has_properties \in BOOLEAN : SubgroupStream(more[i], sends[i], has_properties)
  <2>1. CASE i # n
    <3>1. \E has_properties \in BOOLEAN : SubgroupStream(streams[i], calls[i], has_properties)
      BY DEF SubgroupState
    <3> QED BY <1>2, <1>3, <2>1, <3>1
  <2>2. CASE i = n
    <3>1. SubgroupStream(w, said, next.has_properties) /\ next.has_properties \in BOOLEAN
      BY DEF LastStream, SubgroupWriters
    <3> QED BY <1>2, <1>3, <2>2, <3>1
  <2> QED BY <2>1, <2>2
<1>5. next # Nothing
  BY DEF LastStream
<1>6. LastStream(more[Len(more)], sends[Len(more)], next)
  BY <1>2, <1>3
<1> QED BY ONLY <1>2, <1>3, <1>4, <1>5, <1>6, n # 0 DEF SubgroupState

\* send_subgroup_object keeps it.
LEMMA SubgroupStep ==
  ASSUME EncodingTypes, SubgroupState(wire, sent, writer),
         NEW call \in SubgroupCalls, SendSubgroupObject(call)
  PROVE  SubgroupState(wire', sent', writer')
<1>1. PICK opens, streams, calls, registered, mode, delta :
        /\ opens \in BOOLEAN /\ (opens <=> OpensStream(call))
        /\ streams = IF opens THEN Append(wire, SubgroupHeader(call)) ELSE wire
        /\ calls = IF opens THEN Append(sent, [by |-> HeaderOf(call), objects |-> <<>>])
                   ELSE sent
        /\ mode = ResolveMode(call.subgroup, call.mode)
        /\ registered = IF opens
             THEN [group |-> call.group, mode |-> mode,
                   has_properties |-> call.properties # Nothing, last |-> Nothing]
             ELSE writer
        /\ delta = Delta(call)
  <2>1. \E b \in BOOLEAN : b <=> OpensStream(call)
    OBVIOUS
  <2> QED BY <2>1
<1>2. /\ ModeAccepted(call.subgroup, call.mode)
      /\ ~ opens => AgreesWithStream(call)
      /\ BlockAccepted(call.properties) /\ StatusAccepted(call.status, call.payload)
      /\ delta >= 0
      /\ \/ WriteObject(streams, calls, [registered EXCEPT !.last = call.object],
                            SubgroupObject(delta, call), [call EXCEPT !.mode = mode])
         \/ opens /\ wire' = streams /\ sent' = calls /\ writer' = registered
  BY <1>1 DEF SendSubgroupObject
<1>3. Nothing \notin SubgroupWriters
  BY DEF EncodingTypes
<1>4. /\ SubgroupState(streams, calls, registered) /\ Len(streams) # 0
      /\ registered.group = call.group /\ registered.mode = mode
      /\ registered.has_properties = (call.properties # Nothing)
  <2>1. CASE opens
    <3>1. PICK w, said : w = SubgroupHeader(call)
            /\ said = [by |-> HeaderOf(call), objects |-> <<>>]
      OBVIOUS
    <3>2. registered = [group |-> call.group, mode |-> mode,
                   has_properties |-> call.properties # Nothing, last |-> Nothing]
      BY <1>1, <2>1
    <3>3. LastStream(w, said, registered) /\ said \in SubgroupSent /\ w \in Words
      BY <1>1, <1>2, <3>1, <3>2, StreamOpened
    <3>4. streams = Append(wire, w) /\ calls = Append(sent, said)
      BY <1>1, <2>1, <3>1
    <3>5. SubgroupState(streams, calls, registered) /\ Len(streams) # 0
      BY <1>3, <3>3, <3>4, StateOpened
    <3>6. registered.group = call.group /\ registered.mode = mode
          /\ registered.has_properties = (call.properties # Nothing)
      BY ONLY <3>2
    <3> QED BY ONLY <3>5, <3>6, Zenon
  <2>2. CASE ~ opens
    <3>1. streams = wire /\ calls = sent /\ registered = writer
      BY <1>1, <2>2
    <3>2. writer # Nothing /\ writer.group = call.group
      BY <1>1, <2>2 DEF OpensStream
    <3>3. writer.mode = mode /\ writer.has_properties = (call.properties # Nothing)
      BY <1>1, <1>2, <2>2 DEF AgreesWithStream
    <3>4. Len(wire) # 0
      BY <3>2 DEF SubgroupState
    <3>5. SubgroupState(streams, calls, registered) /\ Len(streams) # 0
      BY ONLY <3>1, <3>4, SubgroupState(wire, sent, writer), Zenon
    <3> QED BY ONLY <3>1, <3>2, <3>3, <3>5, Zenon
  <2> QED BY ONLY <1>1, <2>1, <2>2, Zenon
<1>5. CASE WriteObject(streams, calls, [registered EXCEPT !.last = call.object],
                            SubgroupObject(delta, call), [call EXCEPT !.mode = mode])
  <2>1. PICK n, w, said : n = Len(streams) /\ w = streams[n] /\ said = calls[n]
    OBVIOUS
  <2>2. PICK d, v, one, more, next :
          /\ d = SubgroupObject(delta, call) /\ v = Join(w, d)
          /\ one = InMode(call, mode) /\ more = WithObject(said, one)
          /\ next = WithLast(registered, call.object)
    OBVIOUS
  <2>3. LastStream(w, said, registered) /\ n # 0
    BY <1>4, <2>1 DEF SubgroupState
  <2>4. said \in SubgroupSent /\ n \in Nat
    <3>1. streams \in Seq(Words) /\ calls \in Seq(SubgroupSent) /\ Len(calls) = n
      BY <1>4, <2>1 DEF SubgroupState
    <3>2. n \in Nat
      BY ONLY <3>1, LenProperties
    <3>3. n \in 1 .. Len(calls)
      BY ONLY <2>3, <3>1, <3>2
    <3> QED BY <2>1, <3>1, <3>2, <3>3, ElementOfSeq
  <2>5. delta = DeltaFrom(registered, call)
    <3>1. CASE opens
      BY <1>1, <3>1 DEF Delta, DeltaFrom
    <3>2. CASE ~ opens
      BY <1>1, <3>2 DEF Delta, DeltaFrom
    <3> QED BY <1>1, <3>1, <3>2
  <2>6. delta \in Nat
    <3>1. registered \in SubgroupWriters
      BY <2>3 DEF LastStream
    <3>2. registered.last = Nothing \/ registered.last \in Nat
      BY <3>1 DEF SubgroupWriters, Option, EncodingTypes
    <3>3. call.object \in Nat
      BY DEF SubgroupCalls, EncodingTypes
    <3>4. delta \in Int
      BY ONLY <2>5, <3>2, <3>3 DEF DeltaFrom
    <3> QED BY ONLY <1>2, <3>4
  <2>7. Agrees(registered, call, mode)
    BY <1>1, <1>4 DEF Agrees
  <2>8. LastStream(v, more, next) /\ more \in SubgroupSent /\ v \in Words
    <3>1. BlockAccepted(call.properties) /\ StatusAccepted(call.status, call.payload)
      BY <1>2
    <3> QED BY ONLY EncodingTypes, call \in SubgroupCalls, <2>2, <2>3, <2>4, <2>5,
              <2>6, <2>7, <3>1, ObjectAdded
  <2>9. wire' = [streams EXCEPT ![n] = v] /\ sent' = [calls EXCEPT ![n] = more] /\ writer' = next
    BY <1>1, <1>5, <2>1, <2>2 DEF WriteObject, Join, InMode, WithObject, WithLast
  <2>10. PICK wi, se, wr : wi = wire' /\ se = sent' /\ wr = writer'
    OBVIOUS
  <2>11. SubgroupState(wi, se, wr)
    BY <1>3, <1>4, <2>1, <2>3, <2>8, <2>9, <2>10, StateWritten
  <2> QED BY ONLY <2>10, <2>11, Zenon
<1>6. CASE opens /\ wire' = streams /\ sent' = calls /\ writer' = registered
  BY ONLY <1>4, <1>6, Zenon
<1> QED BY <1>2, <1>5, <1>6

\* What the peer reads from a stream, of what was asked for.
SubgroupReadAt(w, said) ==
  /\ w \in Words
  /\ Peer!ReadSubgroup(w).legal
  /\ Peer!ReadSubgroup(w).alias = Alias
  /\ Peer!ReadSubgroup(w).objects = [k \in DOMAIN said.objects |-> ReadAs(said.objects[k])]
  /\ Peer!ReadSubgroup(w).subgroup =
       CASE said.by.mode = "explicit" -> said.by.subgroup
         [] said.by.mode = "zero" -> 0
         [] said.by.mode = "first_object_id" ->
              IF said.objects = <<>> THEN Nothing ELSE said.objects[1].object
  /\ Peer!ReadSubgroup(w).priority = said.by.priority
  /\ Peer!ReadSubgroup(w).end_of_group = said.by.end_of_group
  /\ \A k \in DOMAIN said.objects :
       /\ Peer!ReadSubgroup(w).group = said.objects[k].group
       /\ said.objects[k].mode = said.by.mode

\* A subgroup stream is read as it was asked for.
LEMMA SubgroupStreamRead ==
  ASSUME EncodingTypes, NEW w, NEW said \in SubgroupSent, NEW present \in BOOLEAN,
         SubgroupStream(w, said, present)
  PROVE  SubgroupReadAt(w, said)
<1>1. PICK by, old : by = said.by /\ old = said.objects
  OBVIOUS
<1>2. HeaderOk(by) /\ \A k \in 1 .. Len(old) : old[k].group = by.group /\ old[k].mode = by.mode
  BY <1>1 DEF SubgroupStream
<1>3. PICK body, pieces : /\ w = Join(HeaderWords(by, present), body)
                          /\ Chained(body, pieces) /\ WrittenAs(old, pieces, present)
  BY <1>1 DEF SubgroupStream
<1>4. old \in Seq(SubgroupCalls)
  BY <1>1 DEF SubgroupSent
<1>5. DOMAIN old = 1 .. Len(old) /\ Len(old) \in Nat /\ (old = <<>> <=> Len(old) = 0)
  <2>1. PICK S : S = SubgroupCalls
    OBVIOUS
  <2> QED BY ONLY <1>4, <2>1, LenProperties, EmptySeq
<1>6. body \in Words
  <2>1. PICK z : ChainOf(body, pieces, z)
    BY <1>3 DEF Chained
  <2>2. Len(pieces) \in Nat
    BY <1>3, LenProperties DEF Chained
  <2> QED BY ONLY <2>1, <2>2 DEF ChainOf
<1>7. PICK objects : objects = Peer!SubgroupObjects(body, present)
  OBVIOUS
<1>8. objects = [n \in 1 .. Len(old) |-> ReadAs(old[n])]
  BY <1>3, <1>7, SubgroupObjectsRead
<1>9. w \in Words /\ HeaderReadAs(w, by, objects)
  BY ONLY EncodingTypes, <1>2, <1>3, <1>6, <1>7, present \in BOOLEAN, SubgroupHeaderRead
<1>10. objects = [k \in DOMAIN old |-> ReadAs(old[k])]
  BY ONLY <1>5, <1>8
<1>11. /\ objects = <<>> <=> old = <<>>
       /\ old # <<>> => objects[1].object = old[1].object
  <2>1. ASSUME old = <<>> PROVE objects = <<>>
    BY <1>5, <1>8, <2>1
  <2>2. ASSUME old # <<>> PROVE objects # <<>> /\ objects[1].object = old[1].object
    <3>1. 1 \in 1 .. Len(old) /\ Len(old) # 0
      BY ONLY <1>5, <2>2
    <3>2. objects[1] = ReadAs(old[1]) /\ DOMAIN objects # {}
      BY ONLY <1>8, <3>1
    <3>3. DOMAIN <<>> = {}
      OBVIOUS
    <3> QED BY ONLY <3>2, <3>3 DEF ReadAs
  <2> QED BY ONLY <2>1, <2>2
<1>12. Peer!ReadSubgroup(w).subgroup = CASE by.mode = "explicit" -> by.subgroup
           [] by.mode = "zero" -> 0
           [] by.mode = "first_object_id" -> IF old = <<>> THEN Nothing ELSE old[1].object
  <2>1. by.mode \in Modes
    BY <1>2 DEF HeaderOk
  <2> QED BY ONLY <1>9, <1>11, <2>1 DEF Modes, HeaderReadAs
<1>13. \A k \in DOMAIN old : Peer!ReadSubgroup(w).group = old[k].group
                             /\ old[k].mode = by.mode
  BY ONLY <1>2, <1>5, <1>9 DEF HeaderReadAs
<1> QED BY ONLY <1>1, <1>9, <1>10, <1>12, <1>13, Zenon
      DEF SubgroupReadAt, HeaderReadAs

\* The streams of a task are read.
LEMMA SubgroupStateRead ==
  ASSUME EncodingTypes, SubgroupState(wire, sent, writer)
  PROVE  (\A i \in DOMAIN wire : wire[i] \in Seq(Nat)) /\ SubgroupsRead
<1>1. wire \in Seq(Words) /\ sent \in Seq(SubgroupSent) /\ Len(wire) = Len(sent)
  BY DEF SubgroupState
<1>2. DOMAIN wire = 1 .. Len(wire) /\ Len(wire) \in Nat
  BY <1>1, LenProperties
<1>3. ASSUME NEW i \in DOMAIN wire PROVE SubgroupReadAt(wire[i], sent[i])
  <2>1. sent[i] \in SubgroupSent
    BY <1>1, <1>2, ElementOfSeq
  <2>2. PICK present \in BOOLEAN : SubgroupStream(wire[i], sent[i], present)
    BY <1>2 DEF SubgroupState
  <2>3. PICK w, said : w = wire[i] /\ said = sent[i]
    OBVIOUS
  <2>4. SubgroupReadAt(w, said)
    BY <2>1, <2>2, <2>3, SubgroupStreamRead
  <2> QED BY ONLY <2>3, <2>4
<1>4. \A i \in DOMAIN wire : wire[i] \in Seq(Nat)
  BY <1>3 DEF SubgroupReadAt, Words
<1>5. ASSUME NEW i \in DOMAIN wire
      PROVE  /\ AskedObjects(i) = [k \in DOMAIN sent[i].objects |-> ReadAs(sent[i].objects[k])]
             /\ AskedSubgroup(i) =
                  CASE sent[i].by.mode = "explicit" -> sent[i].by.subgroup
                    [] sent[i].by.mode = "zero" -> 0
                    [] sent[i].by.mode = "first_object_id" ->
                         IF sent[i].objects = <<>> THEN Nothing ELSE sent[i].objects[1].object
  BY DEF AskedObjects, AskedSubgroup, ReadAs
<1>6. SubgroupsRead
  BY ONLY <1>3, <1>5, Zenon DEF SubgroupsRead, SubgroupReadAt
<1> QED BY <1>4, <1>6

-----------------------------------------------------------------------------
(* The fetch stream of a task.                                             *)

FetchSent == [by: {Nothing, 1, GROUP_ORDER_DESCENDING}, objects: Seq(FetchAsked)]

\* On w are the header and what was asked for, and the writer remembers where it is.
FetchStream(w, said, from) ==
  /\ from = FromAt(ResolveGroupOrder(said.by), said.objects, Len(said.objects) + 1)
  /\ \E body, pieces :
       /\ w = Join(<<5, Request>>, body)
       /\ Chained(body, pieces)
       /\ FetchWrittenAs(ResolveGroupOrder(said.by), said.objects, pieces)

FetchState(streams, calls, from) ==
  \/ streams = <<>> /\ calls = <<>> /\ from = Nothing
  \/ \E w, said : /\ streams = <<w>> /\ calls = <<said>>
                  /\ said \in FetchSent /\ FetchStream(w, said, from)

\* An object or a range is written as numbers, and as one at least.
LEMMA FetchPieceWords ==
  ASSUME EncodingTypes, NEW from, from.last \in Option(Groups \X Objects),
         NEW item, NEW piece, FetchPiece(from, item, piece)
  PROVE  piece \in Words /\ piece # <<>>
<1>1. PICK z : z = <<>> /\ z \in Words
  BY Joins
<1>2. CASE /\ item \in FetchCalls /\ BlockAccepted(item.properties)
           /\ InOrder(from, item) /\ piece = FetchObject(from, item)
  <2>1. PICK w, descending : w = Join(FetchObject(from, item), z) /\ descending \in BOOLEAN
          /\ (descending <=> from.order = GROUP_ORDER_DESCENDING)
    <3>1. \E s \in BOOLEAN : s <=> from.order = GROUP_ORDER_DESCENDING
      OBVIOUS
    <3> QED BY <3>1
  <2>2. FetchReadAt(w, descending, from, item, z)
    BY <1>1, <1>2, <2>1, FetchObjectRead
  <2> QED BY ONLY <1>2, <2>2 DEF FetchReadAt
<1>3. CASE item \in Ranges /\ piece = <<RangeFlags[item.range], item.group, item.object>>
  <2>1. PICK kind, group, object : kind = item.range /\ group = item.group
          /\ object = item.object
    OBVIOUS
  <2>2. kind \in DOMAIN RangeFlags /\ group \in Groups /\ object \in Objects
    BY <1>3, <2>1, RangeFields
  <2>3. PICK w : w = Join(<<RangeFlags[kind], group, object>>, z)
    OBVIOUS
  <2>4. <<RangeFlags[kind], group, object>> \in Words
        /\ <<RangeFlags[kind], group, object>> # <<>>
    BY <1>1, <2>2, <2>3, RangeRead
  <2> QED BY <1>3, <2>1, <2>4
<1> QED BY <1>2, <1>3 DEF FetchPiece

\* The stream that is opened.
LEMMA FetchStreamOpened ==
  ASSUME EncodingTypes, NEW order \in {Nothing, 1, GROUP_ORDER_DESCENDING},
         NEW w, w = <<5, Request>>, NEW said, said = [by |-> order, objects |-> <<>>],
         NEW from, from = [order |-> ResolveGroupOrder(order), last |-> Nothing]
  PROVE  said \in FetchSent /\ FetchStream(w, said, from)
<1>1. said.by = order /\ said.objects = <<>> /\ Len(<<>>) = 0 /\ <<>> \in Seq(FetchAsked)
  OBVIOUS
<1>2. said \in FetchSent
  BY <1>1 DEF FetchSent
<1>3. PICK o : o = ResolveGroupOrder(order)
  OBVIOUS
<1>4. w \in Words
  BY DEF Words, EncodingTypes
<1>5. w = Join(<<5, Request>>, <<>>)
  BY <1>4, Joins
<1>6. FetchWrittenAs(o, <<>>, <<>>)
  BY <1>1 DEF FetchWrittenAs
<1>7. from = FromAt(o, <<>>, 0 + 1)
  BY <1>3 DEF FromAt
<1> QED BY ONLY <1>1, <1>2, <1>3, <1>5, <1>6, <1>7, ChainNone DEF FetchStream

\* The stream with one object or range more.
LEMMA FetchAdded ==
  ASSUME EncodingTypes, NEW w, NEW said \in FetchSent, NEW from, FetchStream(w, said, from),
         NEW item \in FetchAsked, NEW d, FetchPiece(from, item, d), NEW v, v = Join(w, d),
         NEW more, more = WithObject(said, item),
         NEW next, next = WithLast(from, <<item.group, item.object>>)
  PROVE  more \in FetchSent /\ FetchStream(v, more, next)
<1>1. PICK order, old, new, n : order = ResolveGroupOrder(said.by) /\ old = said.objects
        /\ new = Append(old, item) /\ n = Len(old)
  OBVIOUS
<1>2. from = FromAt(order, old, n + 1)
  BY <1>1 DEF FetchStream
<1>3. PICK body, pieces : /\ w = Join(<<5, Request>>, body) /\ Chained(body, pieces)
                          /\ FetchWrittenAs(order, old, pieces)
  BY <1>1 DEF FetchStream
<1>4. old \in Seq(FetchAsked)
  BY <1>1 DEF FetchSent
<1>5. n \in Nat /\ (old = <<>> <=> n = 0) /\ \A k \in 1 .. n : old[k] \in FetchAsked
  <2>1. PICK S : S = FetchAsked
    OBVIOUS
  <2> QED BY ONLY <1>1, <1>4, <2>1, LenProperties, EmptySeq, ElementOfSeq
<1>6. /\ new \in Seq(FetchAsked) /\ Len(new) = n + 1
      /\ \A k \in 1 .. n : new[k] = old[k]
      /\ new[n + 1] = item
  <2>1. PICK S : S = FetchAsked
    OBVIOUS
  <2>2. old \in Seq(S) /\ item \in S /\ Len(old) = n /\ new = Append(old, item)
    BY <1>1, <1>4, <2>1
  <2>3. /\ new \in Seq(S) /\ Len(new) = n + 1
        /\ \A k \in 1 .. n : new[k] = old[k]
        /\ new[n + 1] = item
    BY ONLY <2>2, AppendProperties
  <2> QED BY ONLY <2>1, <2>3, Zenon
<1>7. more.objects = new /\ more.by = said.by /\ more \in FetchSent
  BY <1>1, <1>6 DEF FetchSent, WithObject
<1>8. from.last \in Option(Groups \X Objects)
  <2>1. from.last = IF n + 1 = 1 THEN Nothing ELSE <<old[(n + 1) - 1].group, old[(n + 1) - 1].object>>
    BY ONLY <1>2 DEF FromAt
  <2>2. CASE n = 0
    BY <2>1, <2>2 DEF Option
  <2>3. CASE n # 0
    <3>1. n \in 1 .. n /\ (n + 1) - 1 = n /\ n + 1 # 1
      BY ONLY <1>5, <2>3
    <3>2. old[n].group \in Groups /\ old[n].object \in Objects
      BY <1>5, <3>1, AskedLocation
    <3> QED BY <2>1, <3>1, <3>2 DEF Option
  <2> QED BY <2>2, <2>3
<1>9. d \in Words /\ d # <<>>
  BY ONLY EncodingTypes, <1>8, FetchPiece(from, item, d), FetchPieceWords
<1>10. PICK b, p : b = Join(body, d) /\ p = Append(pieces, d)
  OBVIOUS
<1>11. Chained(b, p) /\ body \in Words /\ pieces \in Seq(Words)
  BY ONLY <1>3, <1>9, <1>10, ChainMore
<1>12. v = Join(<<5, Request>>, b)
  <2>1. PICK h : h = <<5, Request>>
    OBVIOUS
  <2>2. h \in Words
    BY <2>1 DEF Words, EncodingTypes
  <2> QED BY <1>3, <1>9, <1>10, <1>11, <2>1, <2>2, Joins
<1>13. FetchWrittenAs(order, new, p)
  <2>1. Len(pieces) = n /\ p \in Seq(Words) /\ Len(p) = n + 1
        /\ (\A k \in 1 .. n : p[k] = pieces[k]) /\ p[n + 1] = d
    <3>1. Len(pieces) = n
      BY <1>1, <1>3 DEF FetchWrittenAs
    <3> QED BY ONLY <1>9, <1>10, <1>11, <3>1, AppendProperties
  <2>2. ASSUME NEW k \in 1 .. n + 1
        PROVE  FetchPiece(FromAt(order, new, k), new[k], p[k])
    <3>0. k \in 1 .. n \/ k = n + 1
      BY ONLY <1>5
    <3>1. FromAt(order, new, k) = FromAt(order, old, k)
      <4>1. k # 1 => k - 1 \in 1 .. n
        BY ONLY <1>5
      <4> QED BY ONLY <1>6, <4>1 DEF FromAt
    <3>2. CASE k \in 1 .. n
      <4>1. FetchPiece(FromAt(order, old, k), old[k], pieces[k])
        BY <1>1, <1>3, <3>2 DEF FetchWrittenAs
      <4>2. new[k] = old[k] /\ p[k] = pieces[k]
        BY ONLY <1>6, <2>1, <3>2
      <4> QED BY ONLY <3>1, <4>1, <4>2, Zenon
    <3>3. CASE k = n + 1
      <4>1. new[k] = item /\ p[k] = d
        BY ONLY <1>6, <2>1, <3>3
      <4>2. FromAt(order, old, k) = from
        BY ONLY <1>2, <3>3, Zenon
      <4> QED BY ONLY <3>1, <4>1, <4>2, FetchPiece(from, item, d), Zenon
    <3> QED BY ONLY <3>0, <3>2, <3>3
  <2> QED BY ONLY <1>6, <2>1, <2>2, Zenon DEF FetchWrittenAs
<1>14. next = FromAt(order, new, (n + 1) + 1)
  <2>1. ((n + 1) + 1) - 1 = n + 1 /\ (n + 1) + 1 # 1
    BY ONLY <1>5
  <2>2. from = [order |-> order, last |-> IF n + 1 = 1 THEN Nothing
                  ELSE <<old[(n + 1) - 1].group, old[(n + 1) - 1].object>>]
    BY ONLY <1>2 DEF FromAt
  <2>3. next = [order |-> order, last |-> <<item.group, item.object>>]
    BY ONLY <2>2, next = WithLast(from, <<item.group, item.object>>) DEF WithLast
  <2> QED BY ONLY <1>6, <2>1, <2>3 DEF FromAt
<1>15. order = ResolveGroupOrder(more.by)
  BY ONLY <1>1, <1>7, Zenon
<1>16. FetchStream(v, more, next)
  BY ONLY <1>6, <1>7, <1>11, <1>12, <1>13, <1>14, <1>15, Zenon DEF FetchStream
<1> QED BY <1>7, <1>16

\* The peer reads what was asked for.
LEMMA FetchStateRead ==
  ASSUME EncodingTypes, FetchState(wire, sent, writer)
  PROVE  (\A i \in DOMAIN wire : wire[i] \in Seq(Nat)) /\ FetchesRead
<1>1. CASE wire = <<>> /\ sent = <<>> /\ writer = Nothing
  BY <1>1 DEF FetchesRead
<1>2. CASE \E w, said : /\ wire = <<w>> /\ sent = <<said>>
                        /\ said \in FetchSent /\ FetchStream(w, said, writer)
  <2>1. PICK w, said : /\ wire = <<w>> /\ sent = <<said>>
                       /\ said \in FetchSent /\ FetchStream(w, said, writer)
    BY <1>2
  <2>2. DOMAIN wire = {1} /\ wire[1] = w /\ sent[1] = said
    BY <2>1
  <2>3. PICK order, old : order = ResolveGroupOrder(said.by) /\ old = said.objects
    OBVIOUS
  <2>4. PICK body, pieces : /\ w = Join(<<5, Request>>, body) /\ Chained(body, pieces)
                            /\ FetchWrittenAs(order, old, pieces)
    BY <2>1, <2>3 DEF FetchStream
  <2>5. body \in Words
    <3>1. PICK z : ChainOf(body, pieces, z)
      BY <2>4 DEF Chained
    <3>2. Len(pieces) \in Nat
      BY <2>4, LenProperties DEF Chained
    <3> QED BY ONLY <3>1, <3>2 DEF ChainOf
  <2>6. PICK descending : descending \in BOOLEAN /\ descending = (said.by = GROUP_ORDER_DESCENDING)
    OBVIOUS
  <2>7. descending <=> order = GROUP_ORDER_DESCENDING
    <3>1. descending <=> said.by = GROUP_ORDER_DESCENDING
      BY ONLY <2>6
    <3>2. (said.by = GROUP_ORDER_DESCENDING) <=> order = GROUP_ORDER_DESCENDING
      BY ONLY <2>3 DEF ResolveGroupOrder, GROUP_ORDER_DESCENDING
    <3> QED BY ONLY <3>1, <3>2
  <2>8. Peer!FetchEntries(body, descending) = old
    BY ONLY EncodingTypes, <2>4, <2>6, <2>7, FetchEntriesRead
  <2>9. PICK read : read = Peer!ReadFetch(w, descending)
    OBVIOUS
  <2>10. w \in Words /\ read.type = 5 /\ read.request = Request
         /\ read.entries = Peer!FetchEntries(body, descending)
    BY ONLY EncodingTypes, <2>4, <2>5, <2>9, FetchHeaderRead
  <2>11. Peer!ReadFetch(wire[1], sent[1].by = GROUP_ORDER_DESCENDING) = read
    BY ONLY <2>2, <2>6, <2>9, Zenon
  <2>12. read.entries = sent[1].objects
    BY ONLY <2>2, <2>3, <2>8, <2>10, Zenon
  <2> QED BY ONLY <2>2, <2>10, <2>11, <2>12 DEF FetchesRead, Words
<1> QED BY <1>1, <1>2 DEF FetchState

\* open_fetch_stream and open_fill_fetch_stream.
LEMMA FetchOpenStep ==
  ASSUME EncodingTypes, NEW order \in {Nothing, 1, GROUP_ORDER_DESCENDING},
         OpenFetchStream(order)
  PROVE  FetchState(wire', sent', writer')
<1>1. PICK w, said, from : w = <<5, Request>> /\ said = [by |-> order, objects |-> <<>>]
        /\ from = [order |-> ResolveGroupOrder(order), last |-> Nothing]
  OBVIOUS
<1>2. said \in FetchSent /\ FetchStream(w, said, from)
  BY <1>1, FetchStreamOpened
<1>3. wire' = <<w>> /\ sent' = <<said>> /\ writer' = from
  BY <1>1 DEF OpenFetchStream
<1> QED BY ONLY <1>2, <1>3, Zenon DEF FetchState

\* An object or a range is written.
LEMMA FetchWriteStep ==
  ASSUME EncodingTypes, FetchState(wire, sent, writer), writer # Nothing,
         NEW item \in FetchAsked, NEW d, FetchPiece(writer, item, d),
         WriteObject(wire, sent, WithLast(writer, <<item.group, item.object>>), d, item)
  PROVE  FetchState(wire', sent', writer')
<1>1. PICK w, said : /\ wire = <<w>> /\ sent = <<said>>
                     /\ said \in FetchSent /\ FetchStream(w, said, writer)
  BY DEF FetchState
<1>2. PICK v, more, next : v = Join(w, d) /\ more = WithObject(said, item)
        /\ next = WithLast(writer, <<item.group, item.object>>)
  OBVIOUS
<1>3. more \in FetchSent /\ FetchStream(v, more, next)
  BY ONLY EncodingTypes, item \in FetchAsked, FetchPiece(writer, item, d), <1>1, <1>2,
          FetchAdded
<1>4. /\ wire' = [wire EXCEPT ![Len(wire)] = @ \o d]
      /\ sent' = [sent EXCEPT ![Len(wire)].objects = Append(@, item)]
      /\ writer' = next
  BY <1>2 DEF WriteObject
<1>5. Len(wire) = 1 /\ wire[1] = w /\ sent[1] = said
  BY <1>1
<1>6. wire' = <<v>>
  BY ONLY <1>1, <1>2, <1>4, <1>5 DEF Join
<1>7. sent' = <<more>>
  <2>1. sent' = [sent EXCEPT ![1] = more]
    BY ONLY <1>2, <1>4, <1>5, Zenon DEF WithObject
  <2>2. sent' = [<<said>> EXCEPT ![1] = more]
    BY ONLY <1>1, <2>1, Zenon
  <2> QED BY ONLY <2>2
<1> QED BY ONLY <1>3, <1>4, <1>6, <1>7, Zenon DEF FetchState

\* send_fetch_stream_object and send_fetch_end_of_range keep it.
LEMMA FetchStep ==
  ASSUME EncodingTypes, FetchState(wire, sent, writer), SendOnFetch
  PROVE  FetchState(wire', sent', writer')
<1>1. ASSUME NEW call \in FetchCalls, SendFetchStreamObject(call)
      PROVE  FetchState(wire', sent', writer')
  <2>1. PICK d : d = FetchObject(writer, call)
    OBVIOUS
  <2>2. call \in FetchAsked /\ FetchPiece(writer, call, d) /\ writer # Nothing
    BY <1>1, <2>1 DEF SendFetchStreamObject, FetchAsked, FetchPiece
  <2>3. WriteObject(wire, sent, WithLast(writer, <<call.group, call.object>>), d, call)
    BY <1>1, <2>1 DEF SendFetchStreamObject, WithLast
  <2> QED BY <2>2, <2>3, FetchWriteStep
<1>2. ASSUME NEW kind \in DOMAIN RangeFlags, NEW group \in Groups, NEW object \in Objects,
             SendFetchEndOfRange(kind, group, object)
      PROVE  FetchState(wire', sent', writer')
  <2>1. PICK d, item : d = <<RangeFlags[kind], group, object>>
          /\ item = [range |-> kind, group |-> group, object |-> object]
    OBVIOUS
  <2>2. item \in Ranges /\ item.range = kind /\ item.group = group /\ item.object = object
    BY <2>1 DEF Ranges
  <2>3. item \in FetchAsked /\ FetchPiece(writer, item, d) /\ writer # Nothing
    BY <1>2, <2>1, <2>2 DEF SendFetchEndOfRange, FetchAsked, FetchPiece
  <2>4. WriteObject(wire, sent, WithLast(writer, <<item.group, item.object>>), d, item)
    BY <1>2, <2>1, <2>2 DEF SendFetchEndOfRange, WithLast
  <2> QED BY <2>3, <2>4, FetchWriteStep
<1> QED BY <1>1, <1>2 DEF SendOnFetch

-----------------------------------------------------------------------------
(* The datagrams of a task.                                                *)

DatagramSent == [by: {Nothing}, objects: Seq(DatagramCalls)]

\* w is the datagram of the one object that was asked for.
DatagramOf(w, said) ==
  /\ w \in Words
  /\ \E call \in DatagramCalls :
       /\ said.objects = <<call>> /\ w = Datagram(call)
       /\ BlockAccepted(call.properties) /\ StatusAccepted(call.status, call.payload)
       /\ DatagramAccepted(call)

DatagramState(streams, calls) ==
  /\ streams \in Seq(Words) /\ calls \in Seq(DatagramSent) /\ Len(streams) = Len(calls)
  /\ \A i \in 1 .. Len(streams) : DatagramOf(streams[i], calls[i])

\* The peer reads the objects that were asked for.
LEMMA DatagramStateRead ==
  ASSUME EncodingTypes, DatagramState(wire, sent)
  PROVE  (\A i \in DOMAIN wire : wire[i] \in Seq(Nat)) /\ DatagramsRead
<1>1. DOMAIN wire = 1 .. Len(wire)
  BY DEF DatagramState
<1>2. \A i \in DOMAIN wire : DatagramOf(wire[i], sent[i])
  BY <1>1 DEF DatagramState
<1>3. \A i \in DOMAIN wire : wire[i] \in Seq(Nat)
  BY ONLY <1>2 DEF DatagramOf, Words
<1>4. ASSUME NEW i \in DOMAIN wire
      PROVE  /\ Peer!ReadDatagram(wire[i]).legal
             /\ Peer!ReadDatagram(wire[i]).alias = Alias
             /\ Peer!ReadDatagram(wire[i]).group = sent[i].objects[1].group
             /\ Peer!ReadDatagram(wire[i]).object = sent[i].objects[1].object
             /\ Peer!ReadDatagram(wire[i]).properties = sent[i].objects[1].properties
             /\ Peer!ReadDatagram(wire[i]).payload = sent[i].objects[1].payload
             /\ Peer!ReadDatagram(wire[i]).priority = sent[i].objects[1].priority
             /\ Peer!ReadDatagram(wire[i]).status = StatusOf(sent[i].objects[1])
  <2>1. PICK call \in DatagramCalls :
          /\ sent[i].objects = <<call>> /\ wire[i] = Datagram(call)
          /\ BlockAccepted(call.properties) /\ StatusAccepted(call.status, call.payload)
          /\ DatagramAccepted(call)
    BY <1>2 DEF DatagramOf
  <2>2. PICK w, read : w = wire[i] /\ read = Peer!ReadDatagram(w)
    OBVIOUS
  <2>3. w = Datagram(call)
    BY ONLY <2>1, <2>2, Zenon
  <2>4. /\ read.legal
        /\ read.alias = Alias
        /\ read.group = call.group /\ read.object = call.object
        /\ read.properties = call.properties /\ read.payload = call.payload
        /\ read.priority = call.priority /\ read.status = StatusOf(call)
    BY ONLY EncodingTypes, call \in DatagramCalls, <2>1, <2>2, <2>3, DatagramRead
  <2>5. sent[i].objects[1] = call
    BY ONLY <2>1
  <2> QED BY ONLY <2>2, <2>4, <2>5, Zenon
<1>5. DatagramsRead
  BY ONLY <1>4, Zenon DEF DatagramsRead
<1> QED BY <1>3, <1>5

\* send_object_datagram keeps it.
LEMMA DatagramStep ==
  ASSUME EncodingTypes, DatagramState(wire, sent), SendDatagrams
  PROVE  DatagramState(wire', sent') /\ writer' = writer
<1>1. PICK call \in DatagramCalls : SendObjectDatagram(call)
  BY DEF SendDatagrams
<1>2. PICK w, fresh, streams, calls, n :
        /\ w = Datagram(call) /\ fresh = [by |-> Nothing, objects |-> <<>>]
        /\ streams = Append(wire, <<>>) /\ calls = Append(sent, fresh) /\ n = Len(wire)
  OBVIOUS
<1>3. /\ BlockAccepted(call.properties) /\ StatusAccepted(call.status, call.payload)
      /\ DatagramAccepted(call)
      /\ WriteObject(streams, calls, writer, w, call)
  BY <1>1, <1>2 DEF SendObjectDatagram
<1>4. PICK read : read = Peer!ReadDatagram(w)
  OBVIOUS
<1>5. w \in Words
  BY ONLY EncodingTypes, call \in DatagramCalls, <1>2, <1>3, <1>4, DatagramRead
<1>6. wire \in Seq(Words) /\ sent \in Seq(DatagramSent) /\ Len(sent) = n
  BY <1>2 DEF DatagramState
<1>7. streams \in Seq(Words) /\ Len(streams) = n + 1 /\ streams[n + 1] = <<>> /\ n \in Nat
      /\ \A i \in 1 .. n : streams[i] = wire[i]
  <2>1. PICK z : z = <<>> /\ z \in Words
    BY Joins
  <2> QED BY ONLY <1>2, <1>6, <2>1, Added
<1>8. fresh \in DatagramSent /\ fresh.objects = <<>>
  <2>1. <<>> \in Seq(DatagramCalls)
    OBVIOUS
  <2> QED BY ONLY <1>2, <2>1 DEF DatagramSent
<1>9. calls \in Seq(DatagramSent) /\ Len(calls) = n + 1 /\ calls[n + 1] = fresh
      /\ \A i \in 1 .. n : calls[i] = sent[i]
  BY ONLY <1>2, <1>6, <1>8, Added
<1>10. PICK said : said = WithObject(fresh, call)
  OBVIOUS
<1>11. said.objects = <<call>> /\ said \in DatagramSent
  <2>1. <<call>> \in Seq(DatagramCalls) /\ Append(<<>>, call) = <<call>>
    OBVIOUS
  <2> QED BY ONLY <1>2, <1>10, <2>1 DEF WithObject, DatagramSent
<1>12. DatagramOf(w, said)
  BY ONLY <1>2, <1>3, <1>5, <1>11, call \in DatagramCalls, Zenon DEF DatagramOf
<1>13. /\ wire' = [streams EXCEPT ![n + 1] = w]
       /\ sent' = [calls EXCEPT ![n + 1] = said]
       /\ writer' = writer
  <2>1. streams[n + 1] \o w = w
    <3>1. Join(<<>>, w) = w
      BY <1>5, Joins
    <3> QED BY ONLY <1>7, <3>1, Zenon DEF Join
  <2>2. /\ wire' = [streams EXCEPT ![Len(streams)] = @ \o w]
        /\ sent' = [calls EXCEPT ![Len(streams)].objects = Append(@, call)]
        /\ writer' = writer
    BY ONLY <1>3 DEF WriteObject
  <2>3. wire' = [streams EXCEPT ![n + 1] = w]
    BY ONLY <1>7, <2>1, <2>2, Zenon
  <2>4. sent' = [calls EXCEPT ![n + 1] = said]
    BY ONLY <1>7, <1>9, <1>10, <2>2, Zenon DEF WithObject
  <2> QED BY ONLY <2>2, <2>3, <2>4
<1>14. PICK wi, se : wi = wire' /\ se = sent'
  OBVIOUS
<1>15. PICK m : m = n + 1
  OBVIOUS
<1>16. m # 0 /\ m = Len(streams) /\ m = Len(calls)
  BY <1>7, <1>9, <1>15
<1>17. wi \in Seq(Words) /\ Len(wi) = m /\ wi[m] = w /\ \A i \in 1 .. m : i # m => wi[i] = streams[i]
  BY ONLY <1>5, <1>7, <1>13, <1>14, <1>15, <1>16, LastReplaced
<1>18. se \in Seq(DatagramSent) /\ Len(se) = m /\ se[m] = said
       /\ \A i \in 1 .. m : i # m => se[i] = calls[i]
  BY ONLY <1>9, <1>11, <1>13, <1>14, <1>15, <1>16, LastReplaced
<1>19. ASSUME NEW i \in 1 .. m PROVE DatagramOf(wi[i], se[i])
  <2>1. CASE i = m
    BY ONLY <1>12, <1>17, <1>18, <2>1, Zenon
  <2>2. CASE i # m
    <3>1. i \in 1 .. n
      BY ONLY <1>7, <1>15, <2>2
    <3>2. wi[i] = wire[i] /\ se[i] = sent[i]
      BY <1>7, <1>9, <1>17, <1>18, <2>2, <3>1
    <3>3. DatagramOf(wire[i], sent[i])
      BY <1>2, <3>1 DEF DatagramState
    <3> QED BY ONLY <3>2, <3>3, Zenon
  <2> QED BY ONLY <2>1, <2>2
<1>20. DatagramState(wi, se)
  BY ONLY <1>17, <1>18, <1>19 DEF DatagramState
<1> QED BY ONLY <1>13, <1>14, <1>20, Zenon

-----------------------------------------------------------------------------
(* What every state of a task satisfies.                                   *)

\* Of each stream, its header and objects as they are on the wire, and what the
\* registered writer remembers of them: PeerReads alone does not say from which
\* object the next difference is counted.
EncodingInvariant ==
  /\ use \in {"subgroups", "fetch", "datagrams"}
  /\ use = "subgroups" => SubgroupState(wire, sent, writer)
  /\ use = "fetch" => FetchState(wire, sent, writer)
  /\ use = "datagrams" => DatagramState(wire, sent)

\* A task starts with it.
LEMMA EncodingStarts == ASSUME EncodingTypes, EncodingInit PROVE EncodingInvariant
<1>1. /\ use \in {"subgroups", "fetch", "datagrams"}
      /\ writer = Nothing /\ wire = <<>> /\ sent = <<>>
  BY DEF EncodingInit
<1>2. /\ wire \in Seq(Words) /\ sent \in Seq(SubgroupSent) /\ sent \in Seq(DatagramSent)
      /\ Len(wire) = 0 /\ Len(sent) = 0
  BY ONLY <1>1
<1>3. SubgroupState(wire, sent, writer)
  BY ONLY <1>1, <1>2 DEF SubgroupState
<1>4. FetchState(wire, sent, writer)
  BY ONLY <1>1 DEF FetchState
<1>5. DatagramState(wire, sent)
  BY ONLY <1>2 DEF DatagramState
<1> QED BY ONLY <1>1, <1>3, <1>4, <1>5 DEF EncodingInvariant

\* Every step of a task keeps it.
LEMMA EncodingStep ==
  ASSUME EncodingTypes, EncodingInvariant, [EncodingNext]_EncodingVars
  PROVE  EncodingInvariant'
<1>1. CASE UNCHANGED EncodingVars
  <2>1. use' = use /\ writer' = writer /\ wire' = wire /\ sent' = sent
    BY <1>1 DEF EncodingVars
  <2> QED BY ONLY <2>1, EncodingInvariant, Zenon
        DEF EncodingInvariant, SubgroupState, FetchState, DatagramState
<1>2. ASSUME NEW order \in {Nothing, 1, GROUP_ORDER_DESCENDING}, OpenFetchStream(order)
      PROVE  EncodingInvariant'
  <2>1. use = "fetch" /\ use' = use
    BY <1>2 DEF OpenFetchStream
  <2>2. FetchState(wire', sent', writer')
    BY <1>2, FetchOpenStep
  <2> QED BY ONLY <2>1, <2>2, EncodingInvariant DEF EncodingInvariant
<1>3. CASE use = "subgroups" /\ SendOnSubgroups
  <2>1. PICK call \in SubgroupCalls : SendSubgroupObject(call)
    BY <1>3 DEF SendOnSubgroups
  <2>2. use' = use
    BY <2>1 DEF SendSubgroupObject
  <2>3. SubgroupState(wire, sent, writer)
    BY <1>3 DEF EncodingInvariant
  <2>4. SubgroupState(wire', sent', writer')
    BY <2>1, <2>3, SubgroupStep
  <2> QED BY ONLY <1>3, <2>2, <2>4 DEF EncodingInvariant
<1>4. CASE use = "fetch" /\ SendOnFetch
  <2>1. use' = use
    BY <1>4 DEF SendOnFetch, SendFetchStreamObject, SendFetchEndOfRange
  <2>2. FetchState(wire, sent, writer)
    BY <1>4 DEF EncodingInvariant
  <2>3. FetchState(wire', sent', writer')
    BY <1>4, <2>2, FetchStep
  <2> QED BY ONLY <1>4, <2>1, <2>3 DEF EncodingInvariant
<1>5. CASE use = "datagrams" /\ SendDatagrams
  <2>1. use' = use
    BY <1>5 DEF SendDatagrams, SendObjectDatagram
  <2>2. DatagramState(wire, sent)
    BY <1>5 DEF EncodingInvariant
  <2>3. DatagramState(wire', sent')
    BY <1>5, <2>2, DatagramStep
  <2> QED BY ONLY <1>5, <2>1, <2>3 DEF EncodingInvariant
<1> QED BY <1>1, <1>2, <1>3, <1>4, <1>5 DEF EncodingNext

\* It says that the peer reads what was asked for.
LEMMA EncodingRead ==
  ASSUME EncodingTypes, EncodingInvariant
  PROVE  PeerReads
<1>1. CASE use = "subgroups"
  <2>1. (\A i \in DOMAIN wire : wire[i] \in Seq(Nat)) /\ SubgroupsRead
    BY <1>1, SubgroupStateRead DEF EncodingInvariant
  <2>2. FetchesRead /\ DatagramsRead
    BY ONLY <1>1 DEF FetchesRead, DatagramsRead
  <2> QED BY ONLY <2>1, <2>2 DEF PeerReads
<1>2. CASE use = "fetch"
  <2>1. (\A i \in DOMAIN wire : wire[i] \in Seq(Nat)) /\ FetchesRead
    BY <1>2, FetchStateRead DEF EncodingInvariant
  <2>2. SubgroupsRead /\ DatagramsRead
    BY ONLY <1>2 DEF SubgroupsRead, DatagramsRead
  <2> QED BY ONLY <2>1, <2>2 DEF PeerReads
<1>3. CASE use = "datagrams"
  <2>1. (\A i \in DOMAIN wire : wire[i] \in Seq(Nat)) /\ DatagramsRead
    BY <1>3, DatagramStateRead DEF EncodingInvariant
  <2>2. SubgroupsRead /\ FetchesRead
    BY ONLY <1>3 DEF SubgroupsRead, FetchesRead
  <2> QED BY ONLY <2>1, <2>2 DEF PeerReads
<1> QED BY <1>1, <1>2, <1>3 DEF EncodingInvariant

\* PeerReads: from what a task writes on its subgroup streams, on a fetch stream or in
\* datagrams, the peer reads every object and range as the calls of the task asked for
\* them, for all sets of IDs, priorities, Properties blocks, payloads and statuses.
THEOREM PeerReadsAll == EncodingSpec => []PeerReads
<1>1. EncodingInit => EncodingInvariant
  BY EncodingStarts, EncodingAssumption
<1>2. EncodingInvariant /\ [EncodingNext]_EncodingVars => EncodingInvariant'
  BY EncodingStep, EncodingAssumption
<1>3. EncodingInvariant => PeerReads
  BY EncodingRead, EncodingAssumption
<1> QED BY <1>1, <1>2, <1>3, PTL DEF EncodingSpec
=============================================================================
