----------------------------- MODULE ObjectLayout -----------------------------
(***************************************************************************)
(* How the peer reads what ObjectEncoding writes, from the layouts of      *)
(* draft-ietf-moq-transport-21 that the code cites: 11.2.1 for a datagram, *)
(* 11.3.1 for a subgroup stream, 11.4.1 for a fetch stream.  The reader is *)
(* not part of this repository (moqt-rs).                                  *)
(***************************************************************************)
EXTENDS Integers, Sequences

CONSTANT Nothing  \* None

Bit(flags, value) == (flags \div value) % 2 = 1

\* A field that is there or not: what is read, and what is left to read.
Optional(present, w) ==
  IF present THEN [value |-> Head(w), rest |-> Tail(w)] ELSE [value |-> Nothing, rest |-> w]

\* A Properties block, with its length.
Properties(present, w) ==
  IF present THEN [value |-> SubSeq(w, 1, Head(w) + 1),
                   rest |-> SubSeq(w, Head(w) + 2, Len(w))]
             ELSE [value |-> Nothing, rest |-> w]

\* The object at the front of w, after the Object ID before, and what is left: a
\* status follows a payload of no length.
SubgroupObjectAt(w, has_properties, before) ==
  LET id == IF before = Nothing THEN Head(w) ELSE before + Head(w) + 1
      block == Properties(has_properties, Tail(w))
      length == Head(block.rest)
      body == Tail(block.rest)
      size == IF length = 0 THEN 1 ELSE length
  IN [entry |-> [object |-> id, properties |-> block.value, payload |-> SubSeq(body, 1, length),
                 status |-> IF length = 0 THEN Head(body) ELSE 0],
      before |-> id,
      rest |-> SubSeq(body, size + 1, Len(body))]

\* The objects of a subgroup stream: read[n] is what has been read, and what is left,
\* after n objects.
SubgroupObjects(w, has_properties) ==
  LET read[n \in 0 .. Len(w)] ==
        IF n = 0 THEN [entries |-> <<>>, before |-> Nothing, rest |-> w]
        ELSE LET front == read[n - 1]
                 next == SubgroupObjectAt(front.rest, has_properties, front.before)
             IN IF front.rest = <<>> THEN front
                ELSE [entries |-> Append(front.entries, next.entry),
                      before |-> next.before, rest |-> next.rest]
  IN  read[Len(w)].entries

\* A subgroup stream: type, Track Alias, Group ID, the Subgroup ID when the mode says
\* so, the priority unless it is the default, and the objects.
ReadSubgroup(w) ==
  LET type == w[1]
      subgroup == Optional(Bit(type, 4), SubSeq(w, 4, Len(w)))
      priority == Optional(~ Bit(type, 32), subgroup.rest)
      objects == SubgroupObjects(priority.rest, Bit(type, 1))
  IN [alias |-> w[2], group |-> w[3],
      legal |-> type \div 64 = 0 /\ Bit(type, 16) /\ ~ (Bit(type, 2) /\ Bit(type, 4)),
      subgroup |-> IF Bit(type, 4) THEN subgroup.value
                   ELSE IF ~ Bit(type, 2) THEN 0
                   ELSE IF objects = <<>> THEN Nothing ELSE objects[1].object,
      priority |-> priority.value,
      end_of_group |-> Bit(type, 8),
      objects |-> objects]

RangeKinds == [f \in {140, 268, 524} |->
  CASE f = 140 -> "end_of_non_existent_range"
    [] f = 268 -> "end_of_unknown_range"
    [] f = 524 -> "end_of_timed_out_range"]

\* The End of Range at the front of w, and what is left.
RangeAt(w) ==
  [entry |-> [range |-> RangeKinds[w[1]], group |-> w[2], object |-> w[3]],
   before |-> <<w[2], w[3]>>,
   rest |-> SubSeq(w, 4, Len(w))]

\* The object at the front of w, after the location before, and what is left.  The
\* Group ID is a difference in the order that was asked for, the Object ID one in the
\* same group.
FetchObjectAt(w, descending, before) ==
  LET flags == w[1]
      delta == Optional(Bit(flags, 8), Tail(w))
      group == IF before = Nothing THEN delta.value
               ELSE IF delta.value = Nothing THEN before[1]
               ELSE IF descending THEN before[1] - delta.value - 1
               ELSE before[1] + delta.value + 1
      subgroup == Optional(~ Bit(flags, 64) /\ flags % 4 = 3, delta.rest)
      number == Optional(Bit(flags, 4), subgroup.rest)
      object == IF delta.value = Nothing THEN before[2] + number.value ELSE number.value
      priority == Optional(Bit(flags, 16), number.rest)
      block == Properties(Bit(flags, 32), priority.rest)
      length == Head(block.rest)
      body == Tail(block.rest)
  IN [entry |-> [group |-> group, object |-> object, subgroup |-> subgroup.value,
                 priority |-> priority.value, properties |-> block.value,
                 payload |-> SubSeq(body, 1, length)],
      before |-> <<group, object>>,
      rest |-> SubSeq(body, length + 1, Len(body))]

\* The entries of a fetch stream: read[n] is what has been read, and what is left,
\* after n entries.
FetchEntries(w, descending) ==
  LET read[n \in 0 .. Len(w)] ==
        IF n = 0 THEN [entries |-> <<>>, before |-> Nothing, rest |-> w]
        ELSE LET front == read[n - 1]
                 next == IF front.rest[1] \in DOMAIN RangeKinds THEN RangeAt(front.rest)
                         ELSE FetchObjectAt(front.rest, descending, front.before)
             IN IF front.rest = <<>> THEN front
                ELSE [entries |-> Append(front.entries, next.entry),
                      before |-> next.before, rest |-> next.rest]
  IN  read[Len(w)].entries

\* A fetch stream: stream type, Request ID, and the entries.
ReadFetch(w, descending) ==
  [type |-> w[1], request |-> w[2], entries |-> FetchEntries(SubSeq(w, 3, Len(w)), descending)]

\* A datagram: an Object ID of 0 is left out, a status stands for the payload.
ReadDatagram(w) ==
  LET type == w[1]
      object == Optional(~ Bit(type, 4), SubSeq(w, 4, Len(w)))
      priority == Optional(~ Bit(type, 8), object.rest)
      block == Properties(Bit(type, 1), priority.rest)
      status == Optional(Bit(type, 32), block.rest)
  IN [alias |-> w[2], group |-> w[3], object |-> IF Bit(type, 4) THEN 0 ELSE object.value,
      legal |-> /\ type < 64 /\ ~ Bit(type, 16) /\ ~ (Bit(type, 32) /\ Bit(type, 2))
                /\ block.value # Nothing => Len(block.value) > 1
                /\ block.value # Nothing => status.value \in {Nothing, 0},
      priority |-> priority.value, properties |-> block.value,
      status |-> IF Bit(type, 32) THEN status.value ELSE 0,
      payload |-> status.rest]
=============================================================================
