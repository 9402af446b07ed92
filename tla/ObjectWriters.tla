---------------------------- MODULE ObjectWriters ----------------------------
(***************************************************************************)
(* The streams on which Runtime (python/moqt/moq/_runtime.py) sends        *)
(* objects: a subgroup stream at a time for each subscription, and the     *)
(* fetch streams that the application opens.                               *)
(*                                                                         *)
(* The application's tasks call the runtime side by side.  A call runs to  *)
(* its next await that suspends: the FIN of the stream it replaces, the    *)
(* opening of a stream, the write of the header, the write of the object.  *)
(* The transport takes what is written when the write is called, in the    *)
(* order of the calls.                                                     *)
(*                                                                         *)
(* Object IDs, and Group IDs on a fetch stream, are written as differences *)
(* to the object before.  The peer, external to this code, resolves them   *)
(* against what it read before (draft-ietf-moq-transport-21, 11.3.1 and    *)
(* 11.4.1).                                                                *)
(***************************************************************************)
EXTENDS Integers, Sequences, SequencesExt, ObjectIds

CONSTANTS Tasks,          \* tasks of the application
          Subscriptions,  \* Request IDs of subscriptions the application serves
          Ascending,      \* Request IDs of fetches of ascending group order
          Descending,     \* Request IDs of fetches of descending group order
          Headers,        \* what a subgroup header fixes: mode and properties
          MaxItems        \* bound: objects sent

ASSUME WritersAssumption ==
  /\ Groups \subseteq Nat /\ Objects \subseteq Nat
  /\ MaxStreams \in Nat /\ MaxItems \in Nat
  /\ Subscriptions \cap (Ascending \cup Descending) = {}
  /\ Ascending \cap Descending = {}
  /\ Nothing \notin Int \cup Headers \cup (Groups \X Objects)
  /\ Nothing \notin [request: Subscriptions \cup Ascending \cup Descending,
                     kind: Headers \cup {Nothing}, group: Groups \cup {Nothing}]

Fetches == Ascending \cup Descending
Streams == 1 .. MaxStreams
Locations == Groups \X Objects

VARIABLES
  opened,        \* number of streams opened so far
  header,        \* header[s]: the request, group and kind s was opened for
  subgroups,     \* Runtime._subgroups: the registered stream of a subscription
  fetch_streams, \* Runtime._fetch_streams: the registered fetch streams
  last,          \* last_group_id and last_object_id of the writer of s
  ended,         \* ended[s]: how the sending of s ended, in the transport
  core_open,     \* streams the session counts as open
  task,          \* task[t]: the call that t is in, and where
  asked,         \* asked[s]: what the application asked to send on s (observer)
  decoded,       \* decoded[s]: what the peer reads from s (external)
  stale,         \* fetch streams whose last_* are behind the wire (observer)
  cut,           \* streams whose opening or end was interrupted (observer)
  crossed        \* subscriptions with two calls that opened at a time (observer)

vars == <<opened, header, subgroups, fetch_streams, last, ended, core_open, task,
          asked, decoded, stale, cut, crossed>>
content == <<asked, decoded>>
observers == <<stale, cut, crossed>>

Idle == [at |-> "idle", request |-> Nothing, stream |-> Nothing,
         location |-> Nothing, kind |-> Nothing, delta |-> Nothing]

Init ==
  /\ opened = 0
  /\ header = [s \in Streams |-> Nothing]
  /\ subgroups = [r \in Subscriptions |-> Nothing]
  /\ fetch_streams = {}
  /\ last = [s \in Streams |-> Nothing]
  /\ ended = [s \in Streams |-> "no"]
  /\ core_open = {}
  /\ task = [t \in Tasks |-> Idle]
  /\ asked = [s \in Streams |-> <<>>]
  /\ decoded = [s \in Streams |-> <<>>]
  /\ stale = {}
  /\ cut = {}
  /\ crossed = {}

-----------------------------------------------------------------------------
(* What is written.                                                        *)

\* Slip: an object that opens a stream is written relative to the stream before.
SlipDelta(opens, s, object) ==
  IF s = Nothing \/ last[s] = Nothing THEN object ELSE object - last[s][2] - 1

\* The Object ID Delta on a subgroup stream: absolute for the first object.
SubgroupDelta(opens, s, object) ==
  IF opens \/ last[s] = Nothing THEN object ELSE object - last[s][2] - 1

\* The fields of an object on a fetch stream: the Group ID Delta, absolute for
\* the first object, in the direction of the group order after that, and left out
\* in the same group; the Object ID, absolute when the group changes.
FetchFields(s, location) ==
  CASE last[s] = Nothing ->
         [group |-> location[1], object |-> location[2]]
    [] last[s] # Nothing /\ location[1] = last[s][1] ->
         [group |-> Nothing, object |-> location[2] - last[s][2]]
    [] last[s] # Nothing /\ location[1] # last[s][1] ->
         [group |-> IF header[s].request \in Descending
                    THEN last[s][1] - location[1] - 1
                    ELSE location[1] - last[s][1] - 1,
          object |-> location[2]]

\* A negative difference cannot be written: the call raises before it sends.
Writable(fields) ==
  fields.object >= 0 /\ (fields.group # Nothing => fields.group >= 0)

\* How the peer resolves an object of a subgroup stream.
PeerSubgroup(s, delta) ==
  <<header[s].group, IF decoded[s] = <<>> THEN delta ELSE Last(decoded[s]).location[2] + delta + 1>>

\* How the peer resolves an object of a fetch stream.
PeerFetch(s, fields) ==
  LET before == Last(decoded[s]).location IN
  CASE decoded[s] = <<>> -> <<fields.group, fields.object>>
    [] decoded[s] # <<>> /\ fields.group = Nothing ->
         <<before[1], before[2] + fields.object>>
    [] decoded[s] # <<>> /\ fields.group # Nothing ->
         <<IF header[s].request \in Descending THEN before[1] - fields.group - 1
                                               ELSE before[1] + fields.group + 1,
           fields.object>>

\* An object of that kind goes out on s, where the peer reads its location as there.
Wire(s, location, kind, there) ==
  /\ Len(FlattenSeq(asked)) < MaxItems
  /\ asked' = [asked EXCEPT ![s] = Append(@, [location |-> location, kind |-> kind])]
  /\ decoded' = [decoded EXCEPT ![s] =
       Append(@, [location |-> there, kind |-> header[s].kind])]

-----------------------------------------------------------------------------
(* Subgroup streams.                                                       *)

Openers(r) == {t \in Tasks : task[t].request = r
                             /\ task[t].at \in {"replacing", "opening", "header"}}

\* Slip: an object that is filtered moves the base of the differences too.
SlipSent(t, s, location, kind, delta) ==
  /\ last' = [last EXCEPT ![s] = location]
  /\ \/ /\ task' = [task EXCEPT ![t] = Idle]
        /\ UNCHANGED content
     \/ /\ Wire(s, location, kind, PeerSubgroup(s, delta))
        /\ task' = [task EXCEPT ![t] = [Idle EXCEPT !.at = "writing", !.stream = s]]

\* The session is told of the object.  It filters it, and nothing is sent, or the
\* object is written.
Sent(t, s, location, kind, delta) ==
  \/ /\ task' = [task EXCEPT ![t] = Idle]
     /\ UNCHANGED <<last, content>>
  \/ /\ last' = [last EXCEPT ![s] = location]
     /\ Wire(s, location, kind, PeerSubgroup(s, delta))
     /\ task' = [task EXCEPT ![t] = [Idle EXCEPT !.at = "writing", !.stream = s]]

\* send_subgroup_object on the registered stream of its group.  The kind of the
\* header cannot change.
SendSubgroup(t, r, location, kind) ==
  LET s == subgroups[r] IN
  /\ task[t] = Idle
  /\ s # Nothing
  /\ header[s].group = location[1]
  /\ header[s].kind = kind
  /\ SubgroupDelta(FALSE, s, location[2]) >= 0
  /\ Sent(t, s, location, kind, SubgroupDelta(FALSE, s, location[2]))
  /\ UNCHANGED <<opened, header, subgroups, fetch_streams, ended, core_open, observers>>

\* A call on its way to a stream of its own.
Opening(at, r, location, kind, s) ==
  [at |-> at, request |-> r, stream |-> s, location |-> location, kind |-> kind,
   delta |-> SubgroupDelta(TRUE, s, location[2])]

\* send_subgroup_object without a stream of its group.  A stream of another group
\* is unregistered and ended first.
SendInNewSubgroup(t, r, location, kind) ==
  LET s == subgroups[r] IN
  /\ task[t] = Idle
  /\ \/ /\ s = Nothing
        /\ task' = [task EXCEPT ![t] = Opening("opening", r, location, kind, Nothing)]
        /\ UNCHANGED <<subgroups, ended>>
     \/ /\ s # Nothing
        /\ header[s].group # location[1]
        /\ task' = [task EXCEPT ![t] = Opening("replacing", r, location, kind, s)]
        /\ subgroups' = [subgroups EXCEPT ![r] = Nothing]
        /\ ended' = [ended EXCEPT ![s] = "fin"]
  /\ crossed' = IF Openers(r) = {} THEN crossed ELSE crossed \cup {r}
  /\ UNCHANGED <<opened, header, fetch_streams, last, core_open, content, stale, cut>>

\* The FIN of the replaced stream is written: the session is told.
Replaced(t) ==
  /\ task[t].at = "replacing"
  /\ core_open' = core_open \ {task[t].stream}
  /\ task' = [task EXCEPT ![t].at = "opening", ![t].stream = Nothing]
  /\ UNCHANGED <<opened, header, subgroups, fetch_streams, last, ended, content, observers>>

\* _open_subgroup, open_fetch_stream, open_fill_fetch_stream: the stream is there, the
\* session knows it and its header is being written.
Opened(t) ==
  /\ task[t].at = "opening"
  /\ opened < MaxStreams
  /\ opened' = opened + 1
  /\ header' = [header EXCEPT ![opened'] =
       [request |-> task[t].request, kind |-> task[t].kind,
        group |-> IF task[t].request \in Fetches THEN Nothing ELSE task[t].location[1]]]
  /\ core_open' = core_open \cup {opened'}
  /\ task' = [task EXCEPT ![t].at = "header", ![t].stream = opened']
  /\ UNCHANGED <<subgroups, fetch_streams, last, ended, content, observers>>

\* The header is written: the stream is registered and the object sent.
SubgroupOpened(t) ==
  LET s == task[t].stream IN
  /\ task[t].at = "header"
  /\ task[t].request \in Subscriptions
  /\ subgroups' = [subgroups EXCEPT ![task[t].request] = s]
  /\ Sent(t, s, task[t].location, task[t].kind, task[t].delta)
  /\ UNCHANGED <<opened, header, fetch_streams, ended, core_open, observers>>

\* finish_subgroup, which Publication.close calls.
FinishSubgroup(t, r) ==
  /\ task[t] = Idle
  /\ subgroups[r] # Nothing
  /\ subgroups' = [subgroups EXCEPT ![r] = Nothing]
  /\ ended' = [ended EXCEPT ![subgroups[r]] = "fin"]
  /\ task' = [task EXCEPT ![t] = [Idle EXCEPT !.at = "ending", !.stream = subgroups[r]]]
  /\ UNCHANGED <<opened, header, fetch_streams, last, core_open, content, observers>>

\* reset_subgroup and reset_subgroup_at: the session is told before the transport.
ResetSubgroup(r) ==
  /\ subgroups[r] # Nothing
  /\ subgroups' = [subgroups EXCEPT ![r] = Nothing]
  /\ core_open' = core_open \ {subgroups[r]}
  /\ ended' = [ended EXCEPT ![subgroups[r]] = "reset"]
  /\ UNCHANGED <<opened, header, fetch_streams, last, task, content, observers>>

-----------------------------------------------------------------------------
(* Fetch streams.                                                          *)

\* open_fetch_stream and open_fill_fetch_stream up to the opening.
OpenFetch(t, r) ==
  /\ task[t] = Idle
  /\ task' = [task EXCEPT ![t] = [Idle EXCEPT !.at = "opening", !.request = r]]
  /\ UNCHANGED <<opened, header, subgroups, fetch_streams, last, ended, core_open,
                 content, observers>>

\* The header is written: the stream is registered and given to the application.
FetchOpened(t) ==
  /\ task[t].at = "header"
  /\ task[t].request \in Fetches
  /\ fetch_streams' = fetch_streams \cup {task[t].stream}
  /\ task' = [task EXCEPT ![t] = Idle]
  /\ UNCHANGED <<opened, header, subgroups, last, ended, core_open, content, observers>>

\* A write on the fetch stream s begins; last_* are set when it is over.
Writing(t, s, location, there) ==
  /\ Wire(s, location, Nothing, there)
  /\ task' = [task EXCEPT ![t] =
       [Idle EXCEPT !.at = "writing", !.stream = s, !.location = location]]
  /\ stale' = IF \E u \in Tasks : task[u].at = "writing" /\ task[u].stream = s
              THEN stale \cup {s} ELSE stale
  /\ UNCHANGED <<opened, header, subgroups, fetch_streams, last, ended, core_open, cut, crossed>>

\* send_fetch_stream_object.
SendFetched(t, s, location) ==
  /\ task[t] = Idle
  /\ s \in fetch_streams
  /\ Writable(FetchFields(s, location))
  /\ Writing(t, s, location, PeerFetch(s, FetchFields(s, location)))

\* send_fetch_end_of_range: the location is written in full.
SendEndOfRange(t, s, location) ==
  /\ task[t] = Idle
  /\ s \in fetch_streams
  /\ Writing(t, s, location, location)

\* The write of an object is over.
Written(t) ==
  LET s == task[t].stream IN
  /\ task[t].at = "writing"
  /\ task' = [task EXCEPT ![t] = Idle]
  /\ last' = IF header[s].request \in Fetches
             THEN [last EXCEPT ![s] = task[t].location] ELSE last
  /\ UNCHANGED <<opened, header, subgroups, fetch_streams, ended, core_open, content,
                 observers>>

\* Slip: the stream stays registered.
SlipCloseFetch(t, s) ==
  /\ task[t] = Idle
  /\ s \in fetch_streams
  /\ ended' = [ended EXCEPT ![s] = "fin"]
  /\ task' = [task EXCEPT ![t] = [Idle EXCEPT !.at = "ending", !.stream = s]]
  /\ UNCHANGED <<opened, header, subgroups, fetch_streams, last, core_open, content, observers>>

\* close_fetch_stream.
CloseFetch(t, s) ==
  /\ task[t] = Idle
  /\ s \in fetch_streams
  /\ fetch_streams' = fetch_streams \ {s}
  /\ ended' = [ended EXCEPT ![s] = "fin"]
  /\ task' = [task EXCEPT ![t] = [Idle EXCEPT !.at = "ending", !.stream = s]]
  /\ UNCHANGED <<opened, header, subgroups, last, core_open, content, observers>>

\* Slip: the session is not told of the end.
SlipEndWritten(t) ==
  /\ task[t].at = "ending"
  /\ task' = [task EXCEPT ![t] = Idle]
  /\ UNCHANGED <<opened, header, subgroups, fetch_streams, last, ended, core_open, content,
                 observers>>

\* The FIN is written: the session is told.
EndWritten(t) ==
  /\ task[t].at = "ending"
  /\ core_open' = core_open \ {task[t].stream}
  /\ task' = [task EXCEPT ![t] = Idle]
  /\ UNCHANGED <<opened, header, subgroups, fetch_streams, last, ended, content, observers>>

-----------------------------------------------------------------------------
\* The stream cannot be opened, a write raises, or the task is cancelled: whatever
\* the call had left to do is not done.
Interrupted(t) ==
  /\ task[t] # Idle
  /\ task' = [task EXCEPT ![t] = Idle]
  /\ stale' = IF task[t].at = "writing" /\ header[task[t].stream].request \in Fetches
              THEN stale \cup {task[t].stream} ELSE stale
  /\ cut' = IF task[t].at \in {"replacing", "header", "ending"}
            THEN cut \cup {task[t].stream} ELSE cut
  /\ UNCHANGED <<opened, header, subgroups, fetch_streams, last, ended, core_open,
                 content, crossed>>

Next ==
  \/ \E t \in Tasks, r \in Subscriptions, location \in Locations, kind \in Headers :
       SendSubgroup(t, r, location, kind) \/ SendInNewSubgroup(t, r, location, kind)
  \/ \E t \in Tasks, r \in Subscriptions : FinishSubgroup(t, r)
  \/ \E r \in Subscriptions : ResetSubgroup(r)
  \/ \E t \in Tasks, r \in Fetches : OpenFetch(t, r)
  \/ \E t \in Tasks, s \in Streams : CloseFetch(t, s)
  \/ \E t \in Tasks, s \in Streams, location \in Locations :
       SendFetched(t, s, location) \/ SendEndOfRange(t, s, location)
  \/ \E t \in Tasks :
       \/ Replaced(t) \/ Opened(t) \/ SubgroupOpened(t) \/ FetchOpened(t)
       \/ Written(t) \/ EndWritten(t) \/ Interrupted(t)

Spec == Init /\ [][Next]_vars

-----------------------------------------------------------------------------
(* Properties.                                                             *)

Subgroups == {s \in 1 .. opened : header[s].request \in Subscriptions}

\* The types of all variables.
TypeOK ==
  /\ opened \in 0 .. MaxStreams
  /\ \A s \in Streams : header[s] = Nothing <=> s > opened
  /\ \A s \in 1 .. opened :
       header[s] \in [request: Subscriptions \cup Fetches, kind: Headers \cup {Nothing},
                     group: Groups \cup {Nothing}]
  /\ subgroups \in [Subscriptions -> (1 .. opened) \cup {Nothing}]
  /\ fetch_streams \subseteq 1 .. opened
  /\ last \in [Streams -> Locations \cup {Nothing}]
  /\ ended \in [Streams -> {"no", "fin", "reset"}]
  /\ core_open \subseteq 1 .. opened
  /\ task \in [Tasks ->
       [at: {"idle", "replacing", "opening", "header", "writing", "ending"},
        request: Subscriptions \cup Fetches \cup {Nothing},
        stream: (1 .. opened) \cup {Nothing}, location: Locations \cup {Nothing},
        kind: Headers \cup {Nothing}, delta: Nat \cup {Nothing}]]
  /\ asked \in [Streams -> Seq([location: Locations, kind: Headers \cup {Nothing}])]
  /\ \A s \in Streams : Len(decoded[s]) = Len(asked[s])
  /\ stale \subseteq Streams /\ cut \subseteq Streams
  /\ crossed \subseteq Subscriptions

\* The peer reads from a subgroup stream the Object IDs, the group and the kind the
\* application asked for, in ascending order, however the calls of all tasks
\* interleave: a difference computed before the awaits of a call is still right
\* when it is written.
SubgroupsDecode ==
  \A s \in Subgroups :
    /\ decoded[s] = asked[s]
    /\ \A i, j \in 1 .. Len(asked[s]) :
         i < j => asked[s][i].location[2] < asked[s][j].location[2]

\* The peer reads from a fetch stream the Locations the application asked for, in
\* either group order and across End of Range, unless a send began before the one
\* before it was over or one was interrupted.
FetchesDecode ==
  \A s \in (1 .. opened) \ stale :
    header[s].request \in Fetches => decoded[s] = asked[s]

\* What the peer resolves from the differences is what was asked for.
PeerDecodes == SubgroupsDecode /\ FetchesDecode

\* Nothing follows the FIN or the reset of a stream, and a stream ends once.
NothingAfterEnd ==
  [][\A s \in Streams : ended[s] # "no" =>
       asked'[s] = asked[s] /\ ended'[s] = ended[s]]_vars

\* No subgroup stream is forgotten: one that has not ended is the registered
\* one of its subscription or is just being opened, unless two calls for the
\* subscription opened streams at a time or the opening was interrupted.
NoStreamLeft ==
  \A s \in Subgroups \ cut :
    (ended[s] = "no" /\ header[s].request \notin crossed) =>
      \/ subgroups[header[s].request] = s
      \/ \E t \in Tasks : task[t].at = "header" /\ task[t].stream = s

\* The session and the transport agree on the streams that are open, except
\* while a FIN is being written or when that was interrupted.
SessionAgrees ==
  \A s \in (1 .. opened) \ cut :
    \/ s \in core_open <=> ended[s] = "no"
    \/ s \in core_open /\ \E t \in Tasks :
         task[t].at \in {"replacing", "ending"} /\ task[t].stream = s

\* Every stream that is open is known to be: to the writer that will end it, and to
\* the session that waits for its end.
OpenStreamsKnown == NoStreamLeft /\ SessionAgrees
=============================================================================
