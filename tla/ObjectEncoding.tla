---------------------------- MODULE ObjectEncoding ----------------------------
(***************************************************************************)
(* What Runtime (python/moqt/moq/_runtime.py) writes for an object, and    *)
(* which calls it refuses: subgroup streams, fetch streams and datagrams.  *)
(*                                                                         *)
(* The wire is a sequence of numbers: a variable-length integer is one     *)
(* number, a byte of the priority or of a payload another.  The calls of   *)
(* one application task follow each other; ObjectWriters interleaves the   *)
(* calls of several.                                                       *)
(*                                                                         *)
(* The peer, external to this code, reads the wire by the layout of        *)
(* draft-ietf-moq-transport-21 (11.2.1, 11.3.1 and 11.4.1).  All that it   *)
(* knows besides are the group order it asked for in a fetch and the       *)
(* default priority.                                                       *)
(*                                                                         *)
(* EncodingInit, EncodingNext and EncodingSpec have names of their own,    *)
(* so that one module can extend this one and ObjectWriters.               *)
(***************************************************************************)
EXTENDS Integers, Sequences, SequencesExt, ObjectIds

CONSTANTS SubgroupIds,    \* Subgroup IDs
          Priorities,     \* publisher priorities
          Blocks,         \* properties_data given to a call, well formed or not
          Payloads,       \* payloads
          Statuses,       \* status given to a call, known or not
          Alias,          \* the Track Alias of the subscription
          Request,        \* the Request ID of the fetch
          MaxObjects      \* bound: objects written, and streams without any

Normal == 0
END_OF_GROUP == 3
END_OF_TRACK == 4
Modes == {"zero", "first_object_id", "explicit"}
RangeFlags == [end_of_non_existent_range |-> 140,
               end_of_unknown_range |-> 268,
               end_of_timed_out_range |-> 524]
GROUP_ORDER_DESCENDING == 2
Option(S) == S \cup {Nothing}

\* What the registered writers hold.
SubgroupWriters == [group: Groups, mode: Modes, has_properties: BOOLEAN, last: Option(Objects)]
FetchWriters == [order: {1, GROUP_ORDER_DESCENDING}, last: Option(Groups \X Objects)]

\* IDs, priorities and statuses are numbers, blocks and payloads sequences of them,
\* and None is nothing of all that.
EncodingTypes ==
  /\ Groups \cup Objects \cup SubgroupIds \cup Priorities \cup Statuses \subseteq Nat
  /\ Blocks \cup Payloads \subseteq Seq(Nat)
  /\ Alias \in Nat /\ Request \in Nat
  /\ Nothing \notin Nat \cup Seq(Nat) \cup Modes \cup (Groups \X Objects)
  /\ Nothing \notin SubgroupWriters \cup FetchWriters

ASSUME EncodingAssumption == EncodingTypes

VARIABLES
  use,     \* what the application sends on: "subgroups", "fetch" or "datagrams"
  writer,  \* the registered SubgroupWriter or FetchWriter
  wire,    \* wire[i]: what was written on stream i, or datagram i
  sent     \* sent[i]: what the application asked to send there (observer)

EncodingVars == <<use, writer, wire, sent>>

EncodingInit ==
  /\ use \in {"subgroups", "fetch", "datagrams"}
  /\ writer = Nothing
  /\ wire = <<>>
  /\ sent = <<>>

\* Objects written so far, and streams without any.
WrittenSoFar ==
  Len(FlattenSeq([i \in DOMAIN sent |-> sent[i].objects]))
    + Cardinality({i \in DOMAIN sent : sent[i].objects = <<>>})

-----------------------------------------------------------------------------
(* Parts of an object.                                                     *)

Flag(set, value) == IF set THEN value ELSE 0
Field(value) == IF value = Nothing THEN <<>> ELSE <<value>>

\* _resolve_subgroup_id_mode, for the combinations it accepts.
ResolveMode(subgroup, mode) ==
  IF mode # Nothing THEN mode ELSE IF subgroup # Nothing THEN "explicit" ELSE "zero"

\* The combinations of an ID and a mode that _resolve_subgroup_id_mode accepts.
ModeAccepted(subgroup, mode) ==
  (subgroup # Nothing) <=> (ResolveMode(subgroup, mode) = "explicit")

\* _properties_blob: the declared length of a block is that of its content.
BlockAccepted(block) == block # Nothing => block # <<>> /\ Head(block) = Len(block) - 1
Blob(block) == IF block = Nothing THEN <<>> ELSE block

\* _object_status_to_write: the status field, which an empty payload always has.
StatusToWrite(status, payload) ==
  CASE payload # <<>> -> Nothing
    [] payload = <<>> /\ status = Nothing -> Normal
    [] payload = <<>> /\ status # Nothing -> status

\* The status that _object_status_to_write accepts for a payload.
StatusAccepted(status, payload) ==
  \/ status \in {Nothing, Normal}
  \/ status \in {END_OF_GROUP, END_OF_TRACK} /\ payload = <<>>

-----------------------------------------------------------------------------
(* Subgroup streams.                                                       *)

\* _subgroup_type_byte.
SubgroupTypeByte(has_properties, mode, end_of_group, default_priority) ==
  16 + Flag(has_properties, 1) + Flag(mode = "first_object_id", 2) + Flag(mode = "explicit", 4)
     + Flag(end_of_group, 8) + Flag(default_priority, 32)

\* _encode_subgroup_header, for the call that opens the stream.
SubgroupHeader(call) ==
  LET mode == ResolveMode(call.subgroup, call.mode) IN
  <<SubgroupTypeByte(call.properties # Nothing, mode, call.end_of_group, call.priority = Nothing),
    Alias, call.group>> \o Field(call.subgroup) \o Field(call.priority)

\* What a call asks of the header of a stream that it opens.
HeaderOf(call) ==
  [group |-> call.group, subgroup |-> call.subgroup, mode |-> ResolveMode(call.subgroup, call.mode),
   priority |-> call.priority, end_of_group |-> call.end_of_group]

\* _encode_subgroup_object.
SubgroupObject(delta, call) ==
  LET written == StatusToWrite(call.status, call.payload) IN
  <<delta>> \o Blob(call.properties) \o <<Len(call.payload)>>
            \o (IF written = Nothing THEN call.payload ELSE <<written>>)

\* send_subgroup_object refuses a call whose mode or properties are not those of the
\* registered stream of its group; the other fields of the header are not compared.
AgreesWithStream(call) ==
  /\ writer.mode = ResolveMode(call.subgroup, call.mode)
  /\ writer.has_properties = (call.properties # Nothing)

OpensStream(call) == writer # Nothing => writer.group # call.group

Delta(call) ==
  IF OpensStream(call) \/ writer.last = Nothing
  THEN call.object ELSE call.object - writer.last - 1

\* The object passes the filters of the session: it is written on its stream and
\* becomes the base of the next.
WriteObject(streams, calls, next, data, call) ==
  LET s == Len(streams) IN
  /\ wire' = [streams EXCEPT ![s] = @ \o data]
  /\ sent' = [calls EXCEPT ![s].objects = Append(@, call)]
  /\ writer' = next

\* send_subgroup_object and _open_subgroup.  Everything that can be refused is
\* refused before the stream of another group is ended and one is opened.  The
\* session may filter the object after that.
SendSubgroupObject(call) ==
  LET opens == OpensStream(call)
      streams == IF opens THEN Append(wire, SubgroupHeader(call)) ELSE wire
      calls == IF opens THEN Append(sent, [by |-> HeaderOf(call), objects |-> <<>>]) ELSE sent
      registered == IF opens
        THEN [group |-> call.group, mode |-> ResolveMode(call.subgroup, call.mode),
              has_properties |-> call.properties # Nothing, last |-> Nothing]
        ELSE writer
  IN
  /\ ModeAccepted(call.subgroup, call.mode)
  /\ ~ opens => AgreesWithStream(call)
  /\ BlockAccepted(call.properties)
  /\ StatusAccepted(call.status, call.payload)
  /\ Delta(call) >= 0
  /\ Len(streams) <= MaxStreams
  /\ \/ WriteObject(streams, calls, [registered EXCEPT !.last = call.object],
                    SubgroupObject(Delta(call), call),
                    [call EXCEPT !.mode = ResolveMode(call.subgroup, call.mode)])
     \/ /\ opens
        /\ wire' = streams /\ sent' = calls /\ writer' = registered
  /\ UNCHANGED use

-----------------------------------------------------------------------------
(* Fetch streams.                                                          *)

\* _resolve_group_order: the order of the FETCH, or of the SUBSCRIBE whose fill this
\* is; Ascending when neither says.
ResolveGroupOrder(order) ==
  IF order = GROUP_ORDER_DESCENDING THEN GROUP_ORDER_DESCENDING ELSE 1

\* open_fetch_stream and open_fill_fetch_stream, with the FETCH_HEADER.
OpenFetchStream(order) ==
  /\ use = "fetch"
  /\ writer = Nothing
  /\ writer' = [order |-> ResolveGroupOrder(order), last |-> Nothing]
  /\ wire' = <<<<5, Request>>>>
  /\ sent' = <<[by |-> order, objects |-> <<>>]>>
  /\ UNCHANGED use

\* _fetch_group_id_delta: negative when the group goes against the order.
GroupDelta(from, group) ==
  IF from.order = GROUP_ORDER_DESCENDING THEN from.last[1] - group - 1
                                         ELSE group - from.last[1] - 1

\* The object is in the group of the one before.
SameGroup(from, call) == from.last # Nothing /\ from.last[1] = call.group

\* The flags of _encode_fetch_object: a datagram's object has no Subgroup ID; the
\* Group ID is left out in the group of the object before.
FetchFlags(from, call) ==
  (IF call.subgroup = Nothing THEN 64 ELSE 3) + Flag(call.properties # Nothing, 32)
  + Flag(~ SameGroup(from, call), 8) + 4 + 16

\* _encode_fetch_object, with the writer as it is before the object.
FetchObject(from, call) ==
  LET same == SameGroup(from, call)
      group == IF same THEN Nothing ELSE IF from.last = Nothing THEN call.group
               ELSE GroupDelta(from, call.group)
  IN
  <<FetchFlags(from, call)>> \o Field(group) \o Field(call.subgroup)
    \o <<IF same THEN call.object - from.last[2] ELSE call.object, call.priority>>
    \o Blob(call.properties) \o <<Len(call.payload)>> \o call.payload

\* A difference that can be written.
InOrder(from, call) ==
  from.last # Nothing =>
    IF from.last[1] = call.group THEN call.object >= from.last[2]
                                 ELSE GroupDelta(from, call.group) >= 0

\* send_fetch_stream_object.
SendFetchStreamObject(call) ==
  /\ writer # Nothing
  /\ BlockAccepted(call.properties)
  /\ InOrder(writer, call)
  /\ WriteObject(wire, sent, [writer EXCEPT !.last = <<call.group, call.object>>],
                 FetchObject(writer, call), call)
  /\ UNCHANGED use

\* send_fetch_end_of_range and _encode_fetch_end_of_range: in full, against no base.
SendFetchEndOfRange(kind, group, object) ==
  /\ writer # Nothing
  /\ WriteObject(wire, sent, [writer EXCEPT !.last = <<group, object>>],
                 <<RangeFlags[kind], group, object>>,
                 [range |-> kind, group |-> group, object |-> object])
  /\ UNCHANGED use

-----------------------------------------------------------------------------
(* Datagrams.                                                              *)

\* Slip: Properties go with any status.
SlipDatagramAccepted(call) == call.properties # Nothing => Head(call.properties) # 0

\* What _encode_object_datagram refuses besides: Properties of no length, and
\* Properties with a status that says there is no object.
DatagramAccepted(call) ==
  call.properties # Nothing =>
    /\ Head(call.properties) # 0
    /\ StatusToWrite(call.status, call.payload) \in {Nothing, Normal}

\* _encode_object_datagram.  The end of the group is never announced: no caller asks.
Datagram(call) ==
  LET written == StatusToWrite(call.status, call.payload) IN
  <<Flag(call.properties # Nothing, 1) + Flag(call.object = 0, 4)
      + Flag(call.priority = Nothing, 8) + Flag(written # Nothing, 32),
    Alias, call.group>>
  \o (IF call.object = 0 THEN <<>> ELSE <<call.object>>) \o Field(call.priority)
  \o Blob(call.properties) \o (IF written = Nothing THEN call.payload ELSE <<written>>)

\* send_object_datagram, for an object that the session lets pass.
SendObjectDatagram(call) ==
  /\ BlockAccepted(call.properties)
  /\ StatusAccepted(call.status, call.payload)
  /\ DatagramAccepted(call)
  /\ WriteObject(Append(wire, <<>>), Append(sent, [by |-> Nothing, objects |-> <<>>]),
                 writer, Datagram(call), call)
  /\ UNCHANGED use

\* What the application may ask for.
SubgroupCalls ==
  [group: Groups, object: Objects, properties: Option(Blocks), payload: Payloads,
   priority: Option(Priorities), subgroup: Option(SubgroupIds), mode: Option(Modes),
   end_of_group: BOOLEAN, status: Option(Statuses)]

FetchCalls ==
  [group: Groups, object: Objects, properties: Option(Blocks), payload: Payloads,
   priority: Priorities, subgroup: Option(SubgroupIds)]

DatagramCalls ==
  [group: Groups, object: Objects, properties: Option(Blocks), payload: Payloads,
   priority: Option(Priorities), status: Option(Statuses)]

SendOnSubgroups == \E call \in SubgroupCalls : SendSubgroupObject(call)

SendOnFetch ==
  \/ \E call \in FetchCalls : SendFetchStreamObject(call)
  \/ \E kind \in DOMAIN RangeFlags, group \in Groups, object \in Objects :
       SendFetchEndOfRange(kind, group, object)

SendDatagrams == \E call \in DatagramCalls : SendObjectDatagram(call)

EncodingNext ==
  \/ \E order \in {Nothing, 1, GROUP_ORDER_DESCENDING} : OpenFetchStream(order)
  \/ /\ WrittenSoFar < MaxObjects
     /\ \/ use = "subgroups" /\ SendOnSubgroups
        \/ use = "fetch" /\ SendOnFetch
        \/ use = "datagrams" /\ SendDatagrams

EncodingSpec == EncodingInit /\ [][EncodingNext]_EncodingVars

-----------------------------------------------------------------------------
(* Properties.                                                             *)

Peer == INSTANCE ObjectLayout

StatusOf(call) == IF call.status = Nothing THEN Normal ELSE call.status

\* What was asked of the objects of a subgroup stream, as its reader sees it.
AskedObjects(i) ==
  [k \in DOMAIN sent[i].objects |->
    LET call == sent[i].objects[k] IN
    [object |-> call.object, properties |-> call.properties, payload |-> call.payload,
     status |-> StatusOf(call)]]

\* The Subgroup ID that the call which opened stream i asked for.
AskedSubgroup(i) ==
  LET call == sent[i].by IN
  CASE call.mode = "explicit" -> call.subgroup
    [] call.mode = "zero" -> 0
    [] call.mode = "first_object_id" ->
         IF sent[i].objects = <<>> THEN Nothing ELSE sent[i].objects[1].object

\* From each subgroup stream the peer reads the objects that were asked for, all of
\* them of the group, the mode and the properties of the stream, and the Subgroup ID,
\* the priority and the end of the group that the call which opened it asked for.
SubgroupsRead ==
  use = "subgroups" => \A i \in DOMAIN wire :
    LET read == Peer!ReadSubgroup(wire[i])
        call == sent[i].by
    IN /\ read.legal
       /\ read.alias = Alias
       /\ read.objects = AskedObjects(i)
       /\ read.subgroup = AskedSubgroup(i)
       /\ read.priority = call.priority
       /\ read.end_of_group = call.end_of_group
       /\ \A k \in DOMAIN sent[i].objects :
            /\ read.group = sent[i].objects[k].group
            /\ sent[i].objects[k].mode = call.mode

\* From a fetch stream the peer reads, in the order it asked for, the objects and the
\* ranges that were asked for with all their fields.
FetchesRead ==
  use = "fetch" => \A i \in DOMAIN wire :
    LET read == Peer!ReadFetch(wire[i], sent[i].by = GROUP_ORDER_DESCENDING)
    IN /\ read.type = 5 /\ read.request = Request
       /\ read.entries = sent[i].objects

\* From each datagram the peer reads the object that was asked for, and it finds
\* nothing for which it would have to close the session.
DatagramsRead ==
  use = "datagrams" => \A i \in DOMAIN wire :
    LET read == Peer!ReadDatagram(wire[i])
        call == sent[i].objects[1]
    IN /\ read.legal
       /\ read.alias = Alias
       /\ read.group = call.group /\ read.object = call.object
       /\ read.properties = call.properties /\ read.payload = call.payload
       /\ read.priority = call.priority /\ read.status = StatusOf(call)

\* What the application asks for reaches the peer, whatever it is sent on, and every
\* number on the wire can be written: no difference is negative, however Group and
\* Object IDs go up and down from call to call.
PeerReads ==
  /\ \A i \in DOMAIN wire : wire[i] \in Seq(Nat)
  /\ SubgroupsRead /\ FetchesRead /\ DatagramsRead
=============================================================================
