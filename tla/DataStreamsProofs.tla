------------------------- MODULE DataStreamsProofs -------------------------
(***************************************************************************)
(* Proofs about DataStreams, for every set of streams, every fragmentation *)
(* and every limit.                                                        *)
(***************************************************************************)
EXTENDS DataStreams, FiniteSetTheorems, TLAPS

USE StreamsAssumption DEF StreamsAssumption

-----------------------------------------------------------------------------
(* The decoding of one stream keeps its type.                              *)

\* Halving a natural number.
LEMMA HalfBounds ==
  ASSUME NEW n \in Nat
  PROVE  /\ n \div 2 \in Nat
         /\ n % 2 \in {0, 1}
         /\ n = 2 * (n \div 2) + (n % 2)
BY SMT

\* The length of a stream is a number.
LEMMA SizeNat == \A s \in Streams : Size(s) \in Nat /\ Objects[s] \in Nat
BY DEF Size

\* A unit of a stream ends one of its objects, or none.
LEMMA ObjectType ==
  ASSUME NEW s \in Streams, NEW u \in Units(s)
  PROVE  ObjectEndingAt(u) \in 0 .. Objects[s]
<1> HeaderLen \in Nat /\ Objects[s] \in Nat /\ u \in Nat /\ u <= HeaderLen + 2 * Objects[s]
  BY SizeNat DEF Units, Size
<1>1. CASE u > HeaderLen /\ (u - HeaderLen) % 2 = 0
  <2> DEFINE w == u - HeaderLen
  <2>1. w \in Nat /\ w <= 2 * Objects[s]
    BY <1>1
  <2>2. w \div 2 \in Nat /\ w = 2 * (w \div 2) + (w % 2) /\ w % 2 \in {0, 1}
    BY <2>1, HalfBounds
  <2>3. w \div 2 <= Objects[s]
    BY <2>1, <2>2
  <2> QED BY <1>1, <2>2, <2>3 DEF ObjectEndingAt
<1>2. CASE ~(u > HeaderLen /\ (u - HeaderLen) % 2 = 0)
  BY <1>2 DEF ObjectEndingAt
<1> QED BY <1>1, <1>2

\* The fields of what CoreSession keeps about a stream.
LEMMA CoreFields ==
  ASSUME NEW s \in Streams
  PROVE  /\ <<>> \in Seq(Units(s))
         /\ \A c \in CoreState(s) :
              /\ c.buffer \in Seq(Units(s)) /\ c.rest \in Seq(Units(s))
              /\ Len(c.buffer) \in Nat /\ Len(c.rest) \in Nat
              /\ c.decoder \in {"none", "new", "open"}
              /\ c.header \in {"awaited", "decoded"}
              /\ c.object \in {0, 1}
BY DEF CoreState, StatesOver

\* Moving the buffer into the decoder keeps the type.
LEMMA FedType ==
  ASSUME NEW s \in Streams, NEW c \in CoreState(s)
  PROVE  Fed(s, c) \in CoreState(s)
<1> DEFINE q == c.rest \o c.buffer
           d == IF c.decoder = "none" THEN "new" ELSE c.decoder
<1>1. q \in Seq(Units(s)) /\ d \in {"none", "new", "open"} /\ <<>> \in Seq(Units(s))
  BY CoreFields
<1>2. Fed(s, c) = c \/ Fed(s, c) = [c EXCEPT !.buffer = <<>>, !.decoder = d, !.rest = q]
  BY DEF Fed
<1> HIDE DEF q, d
<1> QED BY <1>1, <1>2 DEF CoreState, StatesOver

\* Taking the header off keeps the type.
LEMMA AcceptedType ==
  ASSUME NEW s \in Streams, NEW c \in CoreState(s)
  PROVE  Accepted(c) \in CoreState(s)
<1> DEFINE q == SubSeq(c.rest, HeaderLen + 1, Len(c.rest))
<1>1. c.rest \in Seq(Units(s)) /\ Len(c.rest) \in Nat
  BY DEF CoreState, StatesOver
<1>2. q \in Seq(Units(s))
  BY <1>1
<1> HIDE DEF q
<1>3. Accepted(c) = [c EXCEPT !.header = "decoded", !.decoder = "open", !.rest = q]
  BY DEF Accepted, q
<1> QED BY <1>2, <1>3 DEF CoreState, StatesOver

\* Reading the objects keeps the type.
LEMMA DrainedType ==
  ASSUME NEW s \in Streams, NEW c \in CoreState(s)
  PROVE  Drained(c) \in CoreState(s)
<1>1. c.object \in {0, 1} /\ Len(c.rest) \in Nat
  BY DEF CoreState, StatesOver
<1>2. (Len(c.rest) + c.object) % 2 \in {0, 1}
  <2> DEFINE x == Len(c.rest) + c.object
  <2>1. x \in Nat
    BY <1>1
  <2> HIDE DEF x
  <2>2. x % 2 \in {0, 1}
    BY <2>1, HalfBounds
  <2> QED BY <2>2 DEF x
<1> DEFINE k == (Len(c.rest) + c.object) % 2
<1>3. Drained(c) = [c EXCEPT !.rest = <<>>, !.object = k]
  BY DEF Drained
<1> HIDE DEF k
<1> QED BY <1>2, <1>3, CoreFields DEF k, CoreState, StatesOver

\* The decoder before its objects are read keeps the type.
LEMMA OpenedType ==
  ASSUME NEW s \in Streams, NEW c \in CoreState(s), NEW v
  PROVE  Opened(s, c, v) \in CoreState(s)
BY FedType, AcceptedType DEF Opened

\* The objects a call reads are among those of the stream.
LEMMA BatchType ==
  ASSUME NEW s \in Streams, NEW c \in CoreState(s)
  PROVE  Batch(c) \in Seq(0 .. Objects[s])
<1> DEFINE r == c.rest
           n == (Len(r) + c.object) \div 2
<1>1. r \in Seq(Units(s)) /\ Len(r) \in Nat /\ c.object \in {0, 1}
  BY DEF CoreState, StatesOver
<1>2. n \in Nat /\ 2 * n <= Len(r) + c.object
  BY <1>1, HalfBounds
<1>3. ASSUME NEW i \in 1 .. n
      PROVE  ObjectEndingAt(r[2 * i - c.object]) \in 0 .. Objects[s]
  <2>1. 2 * i - c.object \in 1 .. Len(r)
    BY <1>1, <1>2
  <2>2. r[2 * i - c.object] \in Units(s)
    BY <1>1, <2>1
  <2> QED BY <2>2, ObjectType
<1>4. Batch(c) = [i \in 1 .. n |-> ObjectEndingAt(r[2 * i - c.object])]
  BY DEF Batch
<1> HIDE DEF n, r
<1>5. Batch(c) \in [1 .. n -> 0 .. Objects[s]]
  BY <1>3, <1>4
<1> QED BY <1>2, <1>5

\* Some verdict is always reached, and it is one of eight.
LEMMA VerdictNames ==
  ASSUME NEW s \in Streams, NEW c, TypeOK
  PROVE  /\ Verdicts(s, c) # {}
         /\ Verdicts(s, c) \subseteq {"ignored", "wait", "skip", "decode", "error",
                                      "accept", "hold", "ignore"}
BY DEF Verdicts, HeaderVerdicts

\* A call keeps the type, whatever its verdict.
LEMMA CallType ==
  ASSUME NEW s \in Streams, NEW c \in CoreState(s), NEW v \in Verdicts(s, c), TypeOK
  PROVE  After(s, c, v) \in CoreState(s) /\ Events(s, c, v) \in Seq(0 .. Objects[s])
<1> DEFINE f == Fed(s, c)
           o == Opened(s, c, v)
<1>1. f \in CoreState(s) /\ o \in CoreState(s) /\ Drained(o) \in CoreState(s)
      /\ Batch(o) \in Seq(0 .. Objects[s])
  BY FedType, OpenedType, DrainedType, BatchType
<1>2. v \in {"ignored", "wait", "skip", "decode", "error", "accept", "hold", "ignore"}
  BY VerdictNames
<1>3. Events(s, c, v) \in Seq(0 .. Objects[s])
  <2>1. <<>> \in Seq(0 .. Objects[s])
    OBVIOUS
  <2> QED BY <1>1, <2>1 DEF Events
<1>4. [f EXCEPT !.rest = <<>>] \in CoreState(s)
  BY <1>1, CoreFields DEF CoreState, StatesOver
<1>5. /\ [c EXCEPT !.buffer = <<>>] \in CoreState(s)
      /\ Forgotten(c) \in CoreState(s)
      /\ Undecoded(c) \in CoreState(s)
  BY CoreFields DEF CoreState, StatesOver, Forgotten, Undecoded
<1>6. After(s, c, v) \in CoreState(s)
  <2> HIDE DEF f, o
  <2>1. CASE v = "ignored" BY <2>1, <1>5 DEF After, Reads
  <2>2. CASE v = "ignore" BY <2>2, <1>5 DEF After, Reads
  <2>3. CASE v = "hold" BY <2>3, <1>5 DEF After, Reads
  <2>4. CASE v = "skip" BY <2>4, <1>4 DEF After, Reads, f
  <2>5. CASE v \in {"wait", "error"} BY <2>5, <1>1 DEF After, Reads, f
  <2>6. CASE v \in {"accept", "decode"}
    BY <2>6, <1>1 DEF After, Reads, o
  <2> QED BY <1>2, <2>1, <2>2, <2>3, <2>4, <2>5, <2>6
<1> QED BY <1>3, <1>6

-----------------------------------------------------------------------------
(* What a call does to the fields of the stream, as equations.             *)

\* Dropping a decoder leaves everything else alone.
LEMMA UndecodedFields ==
  ASSUME NEW s \in Streams, NEW c \in CoreState(s)
  PROVE  /\ Undecoded(c) \in CoreState(s)
         /\ Undecoded(c).decoder = "none" /\ Undecoded(c).rest = <<>>
         /\ Undecoded(c).buffer = c.buffer
         /\ Undecoded(c).header = c.header /\ Undecoded(c).object = c.object
BY CoreFields DEF CoreState, StatesOver, Undecoded

\* What moving the buffer into the decoder does.
LEMMA FedFields ==
  ASSUME NEW s \in Streams, NEW c \in CoreState(s)
  PROVE  /\ Fed(s, c).header = c.header /\ Fed(s, c).object = c.object
         /\ \/ /\ Kind[s] = "fetch" /\ c.decoder = "none" /\ Len(c.buffer) < HeaderLen
               /\ Fed(s, c) = c
            \/ /\ Fed(s, c).buffer = <<>>
               /\ Fed(s, c).rest = c.rest \o c.buffer
               /\ Fed(s, c).decoder = (IF c.decoder = "none" THEN "new" ELSE c.decoder)
               /\ ~(Kind[s] = "fetch" /\ c.decoder = "none" /\ Len(c.buffer) < HeaderLen)
<1> DEFINE q == c.rest \o c.buffer
           d == IF c.decoder = "none" THEN "new" ELSE c.decoder
<1>1. CASE Kind[s] = "fetch" /\ c.decoder = "none" /\ Len(c.buffer) < HeaderLen
  BY <1>1 DEF Fed
<1>2. CASE ~(Kind[s] = "fetch" /\ c.decoder = "none" /\ Len(c.buffer) < HeaderLen)
  <2>1. Fed(s, c) = [c EXCEPT !.buffer = <<>>, !.decoder = d, !.rest = q]
    BY <1>2 DEF Fed
  <2> HIDE DEF q, d
  <2>2. /\ Fed(s, c).header = c.header /\ Fed(s, c).object = c.object
        /\ Fed(s, c).buffer = <<>> /\ Fed(s, c).rest = q /\ Fed(s, c).decoder = d
    BY <2>1 DEF CoreState, StatesOver
  <2> QED BY <1>2, <2>2 DEF q, d
<1> QED BY <1>1, <1>2

\* What taking the header off does.
LEMMA AcceptedFields ==
  ASSUME NEW s \in Streams, NEW c \in CoreState(s)
  PROVE  /\ Accepted(c).header = "decoded" /\ Accepted(c).decoder = "open"
         /\ Accepted(c).rest = SubSeq(c.rest, HeaderLen + 1, Len(c.rest))
         /\ Accepted(c).buffer = c.buffer /\ Accepted(c).object = c.object
<1> DEFINE q == SubSeq(c.rest, HeaderLen + 1, Len(c.rest))
<1>1. Accepted(c) = [c EXCEPT !.header = "decoded", !.decoder = "open", !.rest = q]
  BY DEF Accepted
<1> HIDE DEF q
<1>2. /\ Accepted(c).header = "decoded" /\ Accepted(c).decoder = "open"
      /\ Accepted(c).rest = q
      /\ Accepted(c).buffer = c.buffer /\ Accepted(c).object = c.object
  BY <1>1 DEF CoreState, StatesOver
<1> QED BY <1>2 DEF q

\* What reading the objects does.
LEMMA DrainedFields ==
  ASSUME NEW s \in Streams, NEW c \in CoreState(s)
  PROVE  /\ Drained(c).rest = <<>> /\ Drained(c).object = (Len(c.rest) + c.object) % 2
         /\ Drained(c).buffer = c.buffer /\ Drained(c).header = c.header
         /\ Drained(c).decoder = c.decoder
<1> DEFINE k == (Len(c.rest) + c.object) % 2
<1>1. Drained(c) = [c EXCEPT !.rest = <<>>, !.object = k]
  BY DEF Drained
<1> HIDE DEF k
<1>2. /\ Drained(c).rest = <<>> /\ Drained(c).object = k
      /\ Drained(c).buffer = c.buffer /\ Drained(c).header = c.header
      /\ Drained(c).decoder = c.decoder
  BY <1>1 DEF CoreState, StatesOver
<1> QED BY <1>2 DEF k

-----------------------------------------------------------------------------
(* The bytes of a stream before, during and after a call.                  *)

\* q holds units from + 1, from + 2, ... of a stream.
RunFrom(from, q) == \A i \in 1 .. Len(q) : q[i] = from + i

\* d has the first objects of a stream, in order.
Ordered(d) == \A i \in 1 .. Len(d) : d[i] = i

\* Between calls, with n units arrived and d handed over.
Sound(s, c, n, d) ==
  /\ Ordered(d)
  /\ Kind[s] = "padding" => c.header = "awaited"
  /\ c.header = "decoded" => c.decoder # "none" /\ c.buffer = <<>>
  /\ c.header = "awaited" =>
       /\ d = <<>> /\ c.object = 0 /\ c.decoder # "open"
       /\ c.decoder = "none" => c.rest = <<>> /\ RunFrom(0, c.buffer) /\ Len(c.buffer) = n
       /\ c.decoder = "new" => c.buffer = <<>>
       /\ (c.decoder = "new" /\ Kind[s] # "padding") =>
            RunFrom(0, c.rest) /\ Len(c.rest) = n
  /\ s \in Malformed => d = <<>>
  /\ (c.decoder = "open" /\ s \notin Malformed) =>
       /\ c.rest = <<>>
       /\ n = HeaderLen + 2 * Len(d) + c.object

\* During a call, when the buffer holds the bytes that the call is about.
Loaded(s, c, n, d) ==
  /\ Ordered(d)
  /\ Kind[s] = "padding" => c.header = "awaited"
  /\ c.decoder = "open" => c.header = "decoded"
  /\ (c.header = "decoded" /\ c.decoder = "none") => Kind[s] = "subgroup"
  /\ c.header = "awaited" =>
       /\ d = <<>> /\ c.object = 0 /\ c.decoder # "open"
       /\ Kind[s] # "padding" =>
            RunFrom(0, c.rest \o c.buffer) /\ Len(c.rest \o c.buffer) = n
       /\ c.decoder = "none" => c.rest = <<>> /\ RunFrom(0, c.buffer) /\ Len(c.buffer) = n
  /\ s \in Malformed => d = <<>>
  /\ (c.decoder = "open" /\ s \notin Malformed) =>
       /\ c.rest = <<>>
       /\ n = HeaderLen + 2 * Len(d) + c.object + Len(c.buffer)
       /\ RunFrom(HeaderLen + 2 * Len(d) + c.object, c.buffer)

\* Objects read from the next units of a stream are the next objects.
LEMMA BatchOrdered ==
  ASSUME NEW s \in Streams, NEW c \in CoreState(s), NEW k \in Nat,
         RunFrom(HeaderLen + 2 * k + c.object, c.rest)
  PROVE  /\ Batch(c) \in Seq(0 .. Objects[s])
         /\ Len(Batch(c)) = (Len(c.rest) + c.object) \div 2
         /\ \A i \in 1 .. Len(Batch(c)) : Batch(c)[i] = k + i
<1> DEFINE n == (Len(c.rest) + c.object) \div 2
<1>1. c.rest \in Seq(Units(s)) /\ Len(c.rest) \in Nat /\ c.object \in {0, 1}
  BY CoreFields
<1>2. n \in Nat /\ 2 * n <= Len(c.rest) + c.object
  BY <1>1, HalfBounds, SMTT(30)
<1>3. Batch(c) = [i \in 1 .. n |-> ObjectEndingAt(c.rest[2 * i - c.object])]
  BY DEF Batch
<1> HIDE DEF n
<1>4. Len(Batch(c)) = n
  BY <1>2, <1>3
<1>5. ASSUME NEW i \in 1 .. n
      PROVE  ObjectEndingAt(c.rest[2 * i - c.object]) = k + i
  <2>1. 2 * i - c.object \in 1 .. Len(c.rest)
    BY <1>1, <1>2
  <2>2. c.rest[2 * i - c.object] = HeaderLen + 2 * (k + i)
    BY <1>1, <2>1 DEF RunFrom
  <2> DEFINE w == k + i
  <2>3. w \in Nat /\ w >= 1
    OBVIOUS
  <2> HIDE DEF w
  <2>4. (2 * w) % 2 = 0 /\ (2 * w) \div 2 = w
    BY <2>3
  <2>5. HeaderLen + 2 * w > HeaderLen /\ (HeaderLen + 2 * w) - HeaderLen = 2 * w
    BY <2>3
  <2>6. ObjectEndingAt(HeaderLen + 2 * w) = w
    BY <2>4, <2>5 DEF ObjectEndingAt
  <2> QED BY <2>2, <2>6 DEF w
<1> QED BY <1>2, <1>3, <1>4, <1>5, BatchType DEF n

\* An open decoder o that has been given the units up to n.
Readable(s, o, n, d) ==
  /\ s \notin Malformed
  /\ Kind[s] # "padding"
  /\ Ordered(d)
  /\ o.header = "decoded" /\ o.decoder = "open" /\ o.buffer = <<>>
  /\ n = HeaderLen + 2 * Len(d) + o.object + Len(o.rest)
  /\ RunFrom(HeaderLen + 2 * Len(d) + o.object, o.rest)

\* Appending the next objects keeps the order.
LEMMA OrderedConcat ==
  ASSUME NEW S, NEW d \in Seq(S), NEW b \in Seq(S), Ordered(d),
         \A i \in 1 .. Len(b) : b[i] = Len(d) + i
  PROVE  Len(d \o b) = Len(d) + Len(b) /\ Ordered(d \o b)
<1> DEFINE e == d \o b
<1>1. Len(e) = Len(d) + Len(b) /\ Len(d) \in Nat /\ Len(b) \in Nat
  OBVIOUS
<1>2. ASSUME NEW i \in 1 .. Len(e) PROVE e[i] = i
  <2>1. CASE i <= Len(d)
    <3>1. e[i] = d[i]
      BY <2>1
    <3> QED BY <2>1, <3>1 DEF Ordered
  <2>2. CASE i > Len(d)
    <3>1. i - Len(d) \in 1 .. Len(b) /\ e[i] = b[i - Len(d)]
      BY <1>1, <2>2
    <3> QED BY <1>1, <3>1
  <2> QED BY <2>1, <2>2, <1>1
<1> QED BY <1>1, <1>2 DEF Ordered

\* Objects are read: an open decoder goes from one sound state to the next.
LEMMA ReadSound ==
  ASSUME NEW s \in Streams, NEW o \in CoreState(s), NEW n \in Nat,
         NEW d \in Seq(0 .. Objects[s]), Readable(s, o, n, d)
  PROVE  Sound(s, Drained(o), n, d \o Batch(o))
<1> DEFINE k == Len(d)
           r == Len(o.rest)
           b == o.object
           B == Batch(o)
           e == d \o B
<1>1. r \in Nat /\ b \in {0, 1} /\ k \in Nat /\ HeaderLen \in Nat
  BY CoreFields
<1>2. RunFrom(HeaderLen + 2 * k + b, o.rest) /\ n = HeaderLen + 2 * k + b + r
  BY DEF Readable
<1>3. /\ B \in Seq(0 .. Objects[s])
      /\ Len(B) = (r + b) \div 2
      /\ \A i \in 1 .. Len(B) : B[i] = k + i
  BY <1>1, <1>2, BatchOrdered
<1>4. Ordered(d)
  BY DEF Readable
<1>5. Len(e) = k + Len(B) /\ Ordered(e)
  <2> HIDE DEF B
  <2> QED BY <1>3, <1>4, OrderedConcat
<1>6. /\ Drained(o).rest = <<>> /\ Drained(o).object = (r + b) % 2
      /\ Drained(o).buffer = <<>> /\ Drained(o).header = "decoded"
      /\ Drained(o).decoder = "open"
  BY DrainedFields DEF Readable
<1> HIDE DEF k, r, b, B, e
<1> DEFINE m == r + b
<1>7. m \in Nat
  BY <1>1
<1>8. m = 2 * (m \div 2) + (m % 2) /\ m % 2 \in {0, 1} /\ m \div 2 \in Nat
  <2> HIDE DEF m
  <2> QED BY <1>7, HalfBounds
<1>9. n = HeaderLen + 2 * Len(e) + (m % 2)
  <2>1. Len(B) = m \div 2 /\ n = HeaderLen + 2 * k + m
    BY <1>1, <1>2, <1>3
  <2>2. Len(e) = k + m \div 2
    BY <2>1, <1>5
  <2> HIDE DEF m
  <2> QED BY <1>1, <1>7, <1>8, <2>1, <2>2
<1> QED BY <1>5, <1>6, <1>9 DEF Sound, Readable, e, B

\* A call on a stream that is neither discarded by it nor torn by it.
LEMMA CallSound ==
  ASSUME NEW s \in Streams, NEW c \in CoreState(s), NEW n \in Nat,
         NEW d \in Seq(0 .. Objects[s]), NEW v \in Verdicts(s, c),
         s \notin ignored_data_streams, v # "ignore",
         v = "hold" => c.rest = <<>>,
         Loaded(s, c, n, d)
  PROVE  Sound(s, After(s, c, v), n, d \o Events(s, c, v))
<1> DEFINE f == Fed(s, c)
<1>1. f \in CoreState(s) /\ f.header = c.header /\ f.object = c.object
  BY FedType, FedFields
<1>2. Len(c.rest) \in Nat /\ Len(c.buffer) \in Nat /\ c.rest \in Seq(Units(s))
      /\ c.buffer \in Seq(Units(s)) /\ HeaderLen \in Nat \ {0}
      /\ Len(f.rest) \in Nat /\ f.rest \in Seq(Units(s))
  BY <1>1, CoreFields
<1>3. d \o <<>> = d
  OBVIOUS
<1>4. CASE f.decoder = "none"
  <2>1. f = c /\ Kind[s] = "fetch" /\ c.decoder = "none"
    BY <1>4, FedFields, CoreFields
  <2>2. v = "wait"
    BY <1>4 DEF Verdicts
  <2>3. After(s, c, v) = c /\ Events(s, c, v) = <<>>
    BY <2>1, <2>2 DEF After, Events, Reads
  <2>4. c.header = "awaited"
    BY <2>1, CoreFields DEF Loaded
  <2> QED BY <1>3, <2>1, <2>3, <2>4 DEF Loaded, Sound
<1>5. CASE f.decoder # "none"
  <2>1. /\ f.buffer = <<>> /\ f.rest = c.rest \o c.buffer
        /\ f.decoder = (IF c.decoder = "none" THEN "new" ELSE c.decoder)
    BY <1>5, FedFields
  <2>2. f.decoder \in {"new", "open"}
    BY <1>1, <1>5, CoreFields
  <2>3. CASE Kind[s] = "padding"
    <3>1. v = "skip"
      BY <1>5, <2>3 DEF Verdicts
    <3>2. Events(s, c, v) = <<>> /\ After(s, c, v) = [f EXCEPT !.rest = <<>>]
      BY <3>1 DEF After, Events, Reads
    <3>3. /\ After(s, c, v).rest = <<>> /\ After(s, c, v).buffer = <<>>
          /\ After(s, c, v).header = "awaited" /\ After(s, c, v).object = 0
          /\ After(s, c, v).decoder = "new"
      <4>1. f.header = "awaited" /\ f.object = 0 /\ f.decoder = "new"
        BY <1>1, <2>1, <2>2, <2>3 DEF Loaded
      <4> HIDE DEF f
      <4> QED BY <1>1, <2>1, <3>2, <4>1 DEF CoreState, StatesOver
    <3>4. d = <<>> /\ Ordered(d)
      BY <1>1, <2>3 DEF Loaded
    <3> QED BY <1>3, <2>3, <3>2, <3>3, <3>4 DEF Sound
  <2>4. CASE Kind[s] # "padding" /\ c.header = "decoded" /\ f.decoder = "new"
    <3>1. v \in {"wait", "error"}
      BY <1>1, <1>5, <2>4 DEF Verdicts
    <3>2. Events(s, c, v) = <<>> /\ After(s, c, v) = f
      BY <3>1 DEF After, Events, Reads
    <3> QED BY <1>1, <1>3, <2>1, <2>4, <3>2 DEF Sound, Loaded
  <2>5. CASE Kind[s] # "padding" /\ c.header = "decoded" /\ f.decoder = "open"
    <3>1. v = "decode" /\ c.decoder = "open"
      BY <1>1, <2>1, <2>5 DEF Verdicts
    <3>2. Opened(s, c, v) = f /\ Reads(v)
      BY <3>1 DEF Opened, Reads
    <3>3. CASE Fails(s, c, v)
      <4>1. Events(s, c, v) = <<>> /\ After(s, c, v) = f /\ s \in Malformed
        BY <3>1, <3>2, <3>3 DEF After, Events, Fails, Reads
      <4> QED BY <1>1, <1>3, <2>1, <2>5, <4>1 DEF Sound, Loaded
    <3>4. CASE ~Fails(s, c, v)
      <4>1. Events(s, c, v) = Batch(f) /\ After(s, c, v) = Drained(f)
        BY <3>1, <3>2, <3>4 DEF After, Events, Reads
      <4>2. CASE s \notin Malformed
        <5>1. /\ c.rest = <<>> /\ Ordered(d)
              /\ RunFrom(HeaderLen + 2 * Len(d) + c.object, c.buffer)
              /\ n = HeaderLen + 2 * Len(d) + c.object + Len(c.buffer)
          BY <3>1, <4>2 DEF Loaded
        <5>2. f.rest = c.buffer
          BY <1>2, <2>1, <5>1
        <5>3. Readable(s, f, n, d)
          <6> HIDE DEF f
          <6> QED BY <1>1, <2>1, <2>5, <4>2, <5>1, <5>2 DEF Readable
        <5> QED BY <1>1, <4>1, <5>3, ReadSound
      <4>3. CASE s \in Malformed
        <5>1. f.rest = <<>> /\ d = <<>>
          BY <3>1, <3>2, <3>4, <4>3 DEF Fails, Loaded
        <5>2. Len(f.rest) + f.object \in {0, 1} /\ f.object \in {0, 1}
          BY <1>1, <5>1, CoreFields
        <5>3. Batch(f) = <<>>
          <6>1. (Len(f.rest) + f.object) \div 2 = 0
            BY <5>2
          <6> QED BY <6>1 DEF Batch
        <5>4. /\ Drained(f).rest = <<>> /\ Drained(f).buffer = <<>>
              /\ Drained(f).header = "decoded" /\ Drained(f).decoder = "open"
          BY <1>1, <2>1, <2>5, DrainedFields
        <5> QED BY <1>3, <2>5, <4>1, <4>3, <5>1, <5>3, <5>4 DEF Sound, Ordered
      <4> QED BY <4>2, <4>3
    <3> QED BY <3>3, <3>4
  <2>6. CASE Kind[s] # "padding" /\ c.header = "awaited"
    <3>1. /\ d = <<>> /\ c.object = 0 /\ RunFrom(0, f.rest) /\ Len(f.rest) = n
          /\ Ordered(d) /\ f.decoder = "new"
      BY <2>1, <2>2, <2>6 DEF Loaded
    <3>2. CASE Len(f.rest) < HeaderLen
      <4>1. v = "wait"
        BY <1>1, <1>5, <2>6, <3>2 DEF Verdicts
      <4>2. Events(s, c, v) = <<>> /\ After(s, c, v) = f
        BY <4>1 DEF After, Events, Reads
      <4> QED BY <1>1, <1>3, <2>1, <2>6, <3>1, <4>2 DEF Sound
    <3>3. CASE Len(f.rest) >= HeaderLen
      <4>1. f.rest[1] = 1
        BY <1>2, <3>1, <3>3 DEF RunFrom
      <4>2. v \in {"accept", "hold"}
        BY <1>1, <1>2, <1>5, <2>6, <3>3, <4>1 DEF Verdicts, HeaderVerdicts
      <4>3. CASE v = "hold"
        <5>1. Events(s, c, v) = <<>> /\ After(s, c, v) = Undecoded(c)
          BY <4>3 DEF After, Events, Reads
        <5>2. c.rest = <<>> /\ f.rest = c.buffer
          <6>1. c.rest = <<>>
            BY <4>3
          <6>2. <<>> \o c.buffer = c.buffer
            BY <1>2
          <6> QED BY <2>1, <6>1, <6>2
        <5> QED BY <1>3, <2>6, <3>1, <5>1, <5>2, UndecodedFields DEF Sound, Loaded
      <4>4. CASE v = "accept"
        <5> DEFINE o == Accepted(f)
        <5>1. Opened(s, c, v) = o /\ Reads(v)
          BY <4>4 DEF Opened, Reads
        <5>2. o \in CoreState(s)
          BY <1>1, AcceptedType
        <5>3. /\ o.header = "decoded" /\ o.decoder = "open" /\ o.buffer = <<>>
              /\ o.rest = SubSeq(f.rest, HeaderLen + 1, Len(f.rest)) /\ o.object = 0
          BY <1>1, <2>1, <3>1, AcceptedFields
        <5>4. /\ Len(o.rest) = n - HeaderLen
              /\ RunFrom(HeaderLen, o.rest)
          <6> HIDE DEF f, o
          <6>1. Len(o.rest) = n - HeaderLen
            BY <1>2, <3>1, <3>3, <5>3
          <6>2. \A i \in 1 .. Len(o.rest) : o.rest[i] = f.rest[HeaderLen + i]
            BY <1>2, <3>1, <3>3, <5>3, <6>1
          <6>3. ASSUME NEW i \in 1 .. Len(o.rest)
                PROVE  o.rest[i] = HeaderLen + i
            <7>1. HeaderLen + i \in 1 .. Len(f.rest)
              BY <1>2, <3>1, <3>3, <6>1
            <7>2. f.rest[HeaderLen + i] = 0 + (HeaderLen + i)
              BY <3>1, <7>1 DEF RunFrom
            <7> QED BY <6>2, <7>2
          <6> QED BY <6>1, <6>3 DEF RunFrom
        <5>5. CASE Fails(s, c, v)
          <6>1. Events(s, c, v) = <<>> /\ After(s, c, v) = o /\ s \in Malformed
            BY <4>4, <5>1, <5>5 DEF After, Events, Fails, Reads
          <6> QED BY <1>3, <2>6, <3>1, <5>3, <6>1 DEF Sound
        <5>6. CASE ~Fails(s, c, v)
          <6>1. Events(s, c, v) = Batch(o) /\ After(s, c, v) = Drained(o)
            BY <4>4, <5>1, <5>6 DEF After, Events, Reads
          <6>2. CASE s \notin Malformed
            <7>1. Len(d) = 0
              BY <3>1
            <7>2. HeaderLen + 2 * Len(d) + o.object = HeaderLen
              BY <1>2, <5>3, <7>1
            <7>3. n = HeaderLen + 2 * Len(d) + o.object + Len(o.rest)
              BY <1>2, <5>3, <5>4, <7>1
            <7>4. Readable(s, o, n, d)
              <8> HIDE DEF o
              <8> QED BY <2>6, <3>1, <5>3, <5>4, <6>2, <7>2, <7>3 DEF Readable
            <7> QED BY <5>2, <6>1, <7>4, ReadSound
          <6>3. CASE s \in Malformed
            <7>1. o.rest = <<>>
              BY <4>4, <5>1, <5>6, <6>3 DEF Fails
            <7>2. (Len(o.rest) + o.object) \div 2 = 0
              <8>1. Len(o.rest) + o.object = 0
                BY <5>3, <7>1
              <8> QED BY <8>1
            <7>3. Batch(o) = <<>>
              BY <7>2 DEF Batch
            <7>4. /\ Drained(o).rest = <<>> /\ Drained(o).buffer = <<>>
                  /\ Drained(o).header = "decoded" /\ Drained(o).decoder = "open"
              BY <5>2, <5>3, DrainedFields
            <7> QED BY <1>3, <2>6, <3>1, <6>1, <6>3, <7>3, <7>4 DEF Sound
          <6> QED BY <6>2, <6>3
        <5> QED BY <5>5, <5>6
      <4> QED BY <4>2, <4>3, <4>4
    <3> QED BY <1>2, <3>2, <3>3
  <2> QED BY <2>2, <2>3, <2>4, <2>5, <2>6, CoreFields
<1> QED BY <1>4, <1>5

-----------------------------------------------------------------------------
(* Type correctness.                                                       *)

\* The states of one stream are states of some stream.
LEMMA CoreStatesType == \A s \in Streams : CoreState(s) \subseteq CoreStates
<1> SUFFICES ASSUME NEW s \in Streams, NEW c \in CoreState(s) PROVE c \in CoreStates
  OBVIOUS
<1>1. Units(s) \subseteq Nat
  BY DEF Units
<1>2. \A q \in Seq(Units(s)) : q \in Seq(Nat)
  BY <1>1
<1> QED BY <1>2 DEF CoreState, CoreStates, StatesOver

\* A forgotten stream has no bytes and no decoder.
LEMMA ForgottenType ==
  ASSUME NEW s \in Streams, NEW c \in CoreState(s)
  PROVE  /\ Forgotten(c) \in CoreState(s)
         /\ Forgotten(c).buffer = <<>> /\ Forgotten(c).decoder = "none"
         /\ Forgotten(c).header = c.header
<1> DEFINE u == Undecoded(c)
<1>1. u \in CoreState(s) /\ u.decoder = "none" /\ u.header = c.header
  BY UndecodedFields
<1>2. <<>> \in Seq(Units(s))
  BY CoreFields
<1>3. Forgotten(c) = [u EXCEPT !.buffer = <<>>]
  BY DEF Forgotten
<1> HIDE DEF u
<1> QED BY <1>1, <1>2, <1>3 DEF CoreState, StatesOver

\* A fragment is appended to the buffer and to nothing else.
LEMMA PushedFields ==
  ASSUME NEW s \in Streams, NEW n \in Nat, TypeOK, sent[s] + n <= Size(s)
  PROVE  /\ Pushed(s, n) \in CoreState(s)
         /\ \E q \in Seq(Units(s)) :
              /\ Len(q) = n /\ RunFrom(sent[s], q)
              /\ Pushed(s, n).buffer = core[s].buffer \o q
         /\ Pushed(s, n).decoder = core[s].decoder /\ Pushed(s, n).rest = core[s].rest
         /\ Pushed(s, n).header = core[s].header /\ Pushed(s, n).object = core[s].object
<1> DEFINE q == [i \in 1 .. n |-> sent[s] + i]
           b == core[s].buffer \o q
           c == core[s]
<1>1. sent[s] \in Nat /\ Size(s) \in Nat /\ c \in CoreState(s)
  BY SizeNat DEF TypeOK
<1>2. q \in Seq(Units(s)) /\ Len(q) = n
  <2>1. \A i \in 1 .. n : sent[s] + i \in Units(s)
    BY <1>1 DEF Units
  <2>2. q \in [1 .. n -> Units(s)]
    BY <2>1
  <2> QED BY <2>2
<1>3. RunFrom(sent[s], q)
  BY <1>2 DEF RunFrom
<1>4. b \in Seq(Units(s))
  BY <1>1, <1>2, CoreFields
<1>5. Pushed(s, n) = [c EXCEPT !.buffer = b]
  BY DEF Pushed
<1> HIDE DEF b, q, c
<1>6. /\ Pushed(s, n) \in CoreState(s) /\ Pushed(s, n).buffer = b
      /\ Pushed(s, n).decoder = c.decoder /\ Pushed(s, n).rest = c.rest
      /\ Pushed(s, n).header = c.header /\ Pushed(s, n).object = c.object
  BY <1>1, <1>4, <1>5 DEF CoreState, StatesOver
<1> QED BY <1>2, <1>3, <1>6 DEF b, c

\* A stream without its decoder keeps its type.
LEMMA RebuiltType == TypeOK => \A s \in Streams : Rebuilt(s) \in CoreState(s)
BY UndecodedFields DEF TypeOK, Rebuilt

\* Every verdict of a retry is one that the receive path can reach.
LEMMA ChoicesAreVerdicts ==
  ASSUME TypeOK, NEW v \in Choices, NEW s \in pending_data_streams
  PROVE  v[s] \in Verdicts(s, Rebuilt(s))
<1>1. s \in Streams
  BY DEF TypeOK
<1>2. Verdicts(s, Rebuilt(s)) # {}
  BY <1>1, VerdictNames
<1>3. PICK u \in [Uncertain -> {"accept", "hold", "ignore", "error", "wait"}] :
        /\ \A t \in Uncertain : u[t] \in Verdicts(t, Rebuilt(t))
        /\ v = [t \in pending_data_streams |->
                  IF t \in Uncertain THEN u[t]
                  ELSE CHOOSE w \in Verdicts(t, Rebuilt(t)) : TRUE]
  BY Zenon DEF Choices
<1>4. CASE s \in Uncertain
  BY <1>3, <1>4
<1>5. CASE s \notin Uncertain
  <2>1. v[s] = CHOOSE w \in Verdicts(s, Rebuilt(s)) : TRUE
    BY <1>3, <1>5
  <2> QED BY <1>2, <2>1
<1> QED BY <1>4, <1>5

\* The types hold initially.
LEMMA InitType == Init => TypeOK
<1> SUFFICES ASSUME Init PROVE TypeOK
  OBVIOUS
<1>1. \A s \in Streams : Fresh \in CoreState(s)
  BY CoreFields DEF CoreState, StatesOver, Fresh
<1>2. \A s \in Streams : core[s] = Fresh
  BY DEF Init
<1>3. core \in [Streams -> CoreStates]
  BY <1>1, CoreStatesType DEF Init
<1>4. \A s \in Streams : core[s] \in CoreState(s)
  BY <1>1, <1>2
<1>5. \A s \in Streams : sent[s] <= Size(s)
  BY SizeNat DEF Init
<1>6. delivered \in [Streams -> Seq(Nat)] /\ \A s \in Streams : delivered[s] \in Seq(0 .. Objects[s])
  <2>1. \A s \in Streams : <<>> \in Seq(0 .. Objects[s]) /\ <<>> \in Seq(Nat)
    OBVIOUS
  <2> QED BY <2>1 DEF Init
<1> QED BY <1>3, <1>4, <1>5, <1>6 DEF Init, TypeOK

\* Objects of a stream are numbers.
LEMMA SeqWiden == \A s \in Streams : \A q \in Seq(0 .. Objects[s]) : q \in Seq(Nat)
<1> SUFFICES ASSUME NEW s \in Streams, NEW q \in Seq(0 .. Objects[s]) PROVE q \in Seq(Nat)
  OBVIOUS
<1>1. 0 .. Objects[s] \subseteq Nat
  OBVIOUS
<1> QED BY <1>1

\* Discarding a stream keeps the types.
LEMMA OverflowType ==
  ASSUME TypeOK, NEW s \in Streams, Overflow(s)
  PROVE  /\ core' \in [Streams -> CoreStates]
         /\ \A t \in Streams : core'[t] \in CoreState(t)
<1>1. \A t \in Streams : core[t] \in CoreState(t) /\ Forgotten(core[t]) \in CoreState(t)
  BY ForgottenType DEF TypeOK
<1>2. core' = [t \in Streams |-> IF t \in {s} THEN Forgotten(core[t]) ELSE core[t]]
  BY DEF Overflow, Discard
<1> QED BY <1>1, <1>2, CoreStatesType

\* A call of the receive path keeps the types.
LEMMA ProcessType ==
  ASSUME TypeOK, NEW s \in Streams, NEW c \in CoreState(s), NEW v \in Verdicts(s, c),
         Process(s, c, v)
  PROVE  /\ core' \in [Streams -> CoreStates]
         /\ \A t \in Streams : core'[t] \in CoreState(t)
         /\ delivered' \in [Streams -> Seq(Nat)]
         /\ \A t \in Streams : delivered'[t] \in Seq(0 .. Objects[t])
         /\ Discarded(s, v) \subseteq Streams
<1> DEFINE G == Discarded(s, v)
           K == [core EXCEPT ![s] = After(s, c, v)]
<1>1. After(s, c, v) \in CoreState(s) /\ Events(s, c, v) \in Seq(0 .. Objects[s])
  BY CallType
<1>2. \A t \in Streams : K[t] \in CoreState(t)
  BY <1>1 DEF TypeOK
<1>3. core' = [t \in Streams |-> IF t \in G THEN Forgotten(K[t]) ELSE K[t]]
  BY DEF Process, Discard
<1>4. delivered' = [delivered EXCEPT ![s] = @ \o Events(s, c, v)]
  BY DEF Process
<1>5. \A t \in Streams : delivered[t] \in Seq(0 .. Objects[t])
  BY DEF TypeOK
<1>6. delivered[s] \o Events(s, c, v) \in Seq(0 .. Objects[s])
  BY <1>1, <1>5
<1>7. G \subseteq Streams
  BY DEF Discarded, Evicted, TypeOK
<1> HIDE DEF G, K
<1>8. \A t \in Streams : Forgotten(K[t]) \in CoreState(t)
  BY <1>2, ForgottenType
<1>9. \A t \in Streams : core'[t] \in CoreState(t)
  BY <1>2, <1>3, <1>8
<1>10. core' \in [Streams -> CoreStates]
  BY <1>2, <1>3, <1>8, CoreStatesType
<1>11. \A t \in Streams : delivered'[t] \in Seq(0 .. Objects[t])
  BY <1>4, <1>5, <1>6 DEF TypeOK
<1>12. delivered' \in [Streams -> Seq(Nat)]
  <2>1. DOMAIN delivered' = Streams /\ delivered' = [t \in Streams |-> delivered'[t]]
    BY <1>4 DEF TypeOK
  <2> QED BY <2>1, <1>11, SeqWiden
<1> QED BY <1>7, <1>9, <1>10, <1>11, <1>12 DEF G

\* A retry that visits the streams of R.
LEMMA RetriedType ==
  ASSUME TypeOK, NEW v \in Choices, NEW R \in SUBSET pending_data_streams, Retried(R, v)
  PROVE  /\ core' \in [Streams -> CoreStates]
         /\ \A t \in Streams : core'[t] \in CoreState(t)
         /\ pending_data_streams' \subseteq Streams
         /\ ignored_data_streams' \subseteq Streams
         /\ dropped' \subseteq Streams
<1>1. R \subseteq Streams
  BY DEF TypeOK
<1>2. \A t \in R : After(t, Rebuilt(t), v[t]) \in CoreState(t)
  BY <1>1, RebuiltType, ChoicesAreVerdicts, CallType
<1>3. core' = [t \in Streams |->
                IF t \in R THEN After(t, Rebuilt(t), v[t]) ELSE core[t]]
  BY DEF Retried
<1>4. \A t \in Streams : core'[t] \in CoreState(t)
  BY <1>2, <1>3 DEF TypeOK
<1>5. core' \in [Streams -> CoreStates]
  BY <1>3, <1>4, CoreStatesType
<1> QED BY <1>1, <1>4, <1>5 DEF Retried, TypeOK

\* Every step of the session, of the peer and of the tick keeps the types.
LEMMA StepType == TypeOK /\ [Next]_vars => TypeOK'
<1> SUFFICES ASSUME TypeOK, [Next]_vars PROVE TypeOK'
  OBVIOUS
<1>1. CASE \E a \in Aliases : Bind(a) \/ Unbind(a) \/ Forget(a)
  BY <1>1 DEF Bind, Unbind, Forget, TypeOK
<1>2. ASSUME NEW s \in Streams, NEW n \in 1 .. MaxFragment, Receive(s, n)
      PROVE  TypeOK'
  <2>1. /\ sent' \in [Streams -> Nat]
        /\ \A t \in Streams : sent'[t] <= Size(t)
        /\ UNCHANGED <<alias, closed, outcome, lost>>
    BY <1>2 DEF Receive, TypeOK
  <2>2. CASE Overflow(s)
    <3>1. /\ core' \in [Streams -> CoreStates]
          /\ \A t \in Streams : core'[t] \in CoreState(t)
      BY <2>2, OverflowType
    <3> QED BY <2>1, <2>2, <3>1 DEF Overflow, TypeOK
  <2>3. CASE \E v \in Verdicts(s, Pushed(s, n)) : Process(s, Pushed(s, n), v)
    <3>1. PICK v \in Verdicts(s, Pushed(s, n)) : Process(s, Pushed(s, n), v)
      BY <2>3
    <3>2. Pushed(s, n) \in CoreState(s)
      <4>1. n \in Nat /\ sent[s] + n <= Size(s)
        BY <1>2 DEF Receive
      <4> QED BY <4>1, PushedFields
    <3>3. /\ core' \in [Streams -> CoreStates]
          /\ \A t \in Streams : core'[t] \in CoreState(t)
          /\ delivered' \in [Streams -> Seq(Nat)]
          /\ \A t \in Streams : delivered'[t] \in Seq(0 .. Objects[t])
          /\ Discarded(s, v) \subseteq Streams
      BY <3>1, <3>2, ProcessType
    <3>4. /\ pending_data_streams' \subseteq Streams /\ ignored_data_streams' \subseteq Streams
          /\ dropped' \subseteq Streams /\ torn' \subseteq Streams
      BY <3>1, <3>3 DEF Process, TypeOK
    <3> QED BY <2>1, <3>3, <3>4 DEF TypeOK
  <2> QED BY <1>2, <2>2, <2>3 DEF Receive
<1>3. ASSUME NEW s \in Streams, NEW how \in {"fin", "reset"}, Close(s, how)
      PROVE  TypeOK'
  <2>1. Fresh \in CoreState(s) /\ Fresh \in CoreStates
    BY CoreFields, CoreStatesType DEF CoreState, StatesOver, Fresh
  <2>2. core' = [core EXCEPT ![s] = Fresh]
    BY <1>3 DEF Close
  <2>3. core' \in [Streams -> CoreStates] /\ \A t \in Streams : core'[t] \in CoreState(t)
    <3> HIDE DEF Fresh
    <3> QED BY <2>1, <2>2 DEF TypeOK
  <2>4. closed' \in BOOLEAN
    BY <1>3, Zenon DEF Close, Unfinished
  <2> QED BY <1>3, <2>3, <2>4 DEF Close, TypeOK
<1>4. CASE Retry
  <2>1. PICK v \in Choices : RetryAll(v) \/ RetryAborted(v)
    BY <1>4 DEF Retry
  <2>2. CASE RetryAll(v)
    <3>1. Retried(pending_data_streams, v)
      BY <2>2 DEF RetryAll
    <3>2. \A t \in pending_data_streams :
            Events(t, Rebuilt(t), v[t]) \in Seq(0 .. Objects[t])
      BY RebuiltType, ChoicesAreVerdicts, CallType DEF TypeOK
    <3>3. \A t \in Streams : delivered[t] \in Seq(0 .. Objects[t])
      BY DEF TypeOK
    <3>4. delivered' = [t \in Streams |->
                         IF t \in pending_data_streams
                         THEN delivered[t] \o Events(t, Rebuilt(t), v[t])
                         ELSE delivered[t]]
      BY <2>2 DEF RetryAll
    <3>5. ASSUME NEW t \in Streams PROVE delivered'[t] \in Seq(0 .. Objects[t])
      <4>1. CASE t \in pending_data_streams
        <5> DEFINE e == Events(t, Rebuilt(t), v[t])
        <5>1. e \in Seq(0 .. Objects[t]) /\ delivered'[t] = delivered[t] \o e
          BY <3>2, <3>4, <4>1
        <5> HIDE DEF e
        <5> QED BY <3>3, <5>1
      <4>2. CASE t \notin pending_data_streams
        BY <3>3, <3>4, <4>2
      <4> QED BY <4>1, <4>2
    <3>6. delivered' \in [Streams -> Seq(Nat)]
      BY <3>4, <3>5, SeqWiden
    <3>7. UNCHANGED <<alias, closed, sent, outcome, torn, lost>>
      BY <2>2 DEF RetryAll, Retried
    <3> QED BY <3>1, <3>5, <3>6, <3>7, RetriedType DEF TypeOK
  <2>3. CASE RetryAborted(v)
    <3>1. PICK f \in pending_data_streams,
               before \in SUBSET {s \in pending_data_streams :
                                    ~Fails(s, Rebuilt(s), v[s])} :
            /\ Retried(before \cup {f}, v)
            /\ lost' = lost \cup {s \in before : Events(s, Rebuilt(s), v[s]) # <<>>}
            /\ UNCHANGED delivered
      BY <2>3 DEF RetryAborted
    <3>2. before \cup {f} \subseteq pending_data_streams
      OBVIOUS
    <3>3. UNCHANGED <<alias, closed, sent, outcome, torn>>
      BY <3>1 DEF Retried
    <3>4. lost' \subseteq Streams
      BY <3>1 DEF TypeOK
    <3> QED BY <3>1, <3>2, <3>3, <3>4, RetriedType DEF TypeOK
  <2> QED BY <2>1, <2>2, <2>3
<1>5. CASE UNCHANGED vars
  BY <1>5 DEF vars, TypeOK
<1> QED BY <1>1, <1>2, <1>3, <1>4, <1>5 DEF Next

\* The decoders never read past what the peer wrote: TypeOK is an invariant of
\* DataStreams for every choice of its constants.
THEOREM TypeCorrect == Spec => []TypeOK
<1>1. Init => TypeOK
  BY InitType
<1>2. TypeOK /\ [Next]_vars => TypeOK'
  BY StepType
<1> QED BY <1>1, <1>2, PTL DEF Spec

-----------------------------------------------------------------------------
(* The inductive invariant.                                                *)

Active(s) == outcome[s] = "open" /\ s \notin ignored_data_streams

\* A held stream: its header was complete once, so what the next call finds is
\* never a header cut short, and dropping its decoder loses nothing unless the
\* header has been accepted in the meantime.
Held(s) ==
  s \in pending_data_streams =>
    /\ Active(s)
    /\ Kind[s] = "subgroup"
    /\ s \notin lost
    /\ (s \notin torn /\ core[s].header = "awaited") =>
         core[s].decoder = "none" /\ sent[s] >= HeaderLen

\* The discarded streams.
Gone(s) ==
  /\ s \in ignored_data_streams =>
       /\ outcome[s] = "open" /\ s \in dropped
       /\ core[s].buffer = <<>> /\ core[s].decoder = "none"
  /\ s \in dropped => s \in ignored_data_streams \/ outcome[s] # "open"

\* The streams about which the properties are void.
Spoiled(s) ==
  /\ s \in torn \cup lost => Kind[s] = "subgroup"
  /\ (s \in lost /\ Active(s)) => core[s].header = "decoded" /\ core[s].decoder = "open"

\* All the others are sound for as long as they are read, and were when they ended.
Whole(s) ==
  s \notin torn \cup lost =>
    /\ Ordered(delivered[s])
    /\ Active(s) => Sound(s, core[s], sent[s], delivered[s])
    /\ (~closed /\ outcome[s] = "fin" /\ delivered[s] # <<>> /\ s \notin dropped \cup Malformed)
         => sent[s] = HeaderLen + 2 * Len(delivered[s])

Good(s) == Held(s) /\ Gone(s) /\ Spoiled(s) /\ Whole(s)

IInv == TypeOK /\ \A s \in Streams : Good(s)

-----------------------------------------------------------------------------
(* What a call finds and what it leaves.                                   *)

\* The buffer with a fragment in it: the call continues a sound stream.
LEMMA Loads ==
  ASSUME TypeOK, NEW s \in Streams, NEW n \in Nat, sent[s] + n <= Size(s),
         Sound(s, core[s], sent[s], delivered[s])
  PROVE  Loaded(s, Pushed(s, n), sent[s] + n, delivered[s])
<1> DEFINE c == core[s]
           p == Pushed(s, n)
           d == delivered[s]
           m == sent[s]
           k == HeaderLen + 2 * Len(d) + c.object
<1>1. PICK q \in Seq(Units(s)) :
        Len(q) = n /\ RunFrom(m, q) /\ p.buffer = c.buffer \o q
  BY PushedFields
<1>2. /\ p.decoder = c.decoder /\ p.rest = c.rest
      /\ p.header = c.header /\ p.object = c.object
  BY PushedFields
<1>3. /\ c.buffer \in Seq(Units(s)) /\ c.rest \in Seq(Units(s)) /\ m \in Nat
      /\ c.object \in {0, 1} /\ c.decoder \in {"none", "new", "open"}
      /\ c.header \in {"awaited", "decoded"} /\ Len(d) \in Nat
  BY CoreFields DEF TypeOK
<1>4. ASSUME NEW from \in Nat, NEW r \in Seq(Units(s)),
             RunFrom(from, r), from + Len(r) = m
      PROVE  RunFrom(from, r \o q) /\ Len(r \o q) = Len(r) + n
  <2>1. Len(r \o q) = Len(r) + n /\ Len(r) \in Nat
    <3> HIDE DEF c, p, d, m, k
    <3>1. Len(r \o q) = Len(r) + Len(q) /\ Len(r) \in Nat
      OBVIOUS
    <3>2. Len(q) = n
      BY <1>1
    <3> QED BY <3>1, <3>2
  <2>2. ASSUME NEW i \in 1 .. Len(r \o q) PROVE (r \o q)[i] = from + i
    <3>1. CASE i <= Len(r)
      BY <1>4, <2>1, <3>1 DEF RunFrom
    <3>2. CASE i > Len(r)
      <4>1. i - Len(r) \in 1 .. Len(q) /\ (r \o q)[i] = q[i - Len(r)]
        BY <1>1, <2>1, <3>2
      <4>2. q[i - Len(r)] = m + (i - Len(r))
        BY <1>1, <4>1 DEF RunFrom
      <4> QED BY <1>3, <1>4, <2>1, <4>1, <4>2
    <3> QED BY <2>1, <3>1, <3>2
  <2> QED BY <2>1, <2>2 DEF RunFrom
<1> HIDE DEF p, c, d, m, k
<1>5. Sound(s, c, m, d)
  BY DEF c, d, m
<1>6. CASE c.header = "awaited"
  <2>1. CASE c.decoder = "none"
    <3>0. RunFrom(0, c.buffer) /\ Len(c.buffer) = m
      BY <1>5, <1>6, <2>1 DEF Sound
    <3>1. RunFrom(0, p.buffer) /\ Len(p.buffer) = m + n
      BY <1>1, <1>3, <1>4, <3>0
    <3>2. c.rest = <<>> /\ p.buffer \in Seq(Units(s))
      BY <1>1, <1>3, <1>5, <1>6, <2>1 DEF Sound
    <3>3. p.rest \o p.buffer = p.buffer
      BY <1>2, <3>2
    <3> QED BY <1>2, <1>5, <1>6, <2>1, <3>1, <3>2, <3>3 DEF Sound, Loaded, d, m, p
  <2>2. CASE c.decoder = "new"
    <3>1. c.buffer = <<>> /\ p.buffer = q
      <4>1. c.buffer = <<>>
        BY <1>5, <1>6, <2>2 DEF Sound
      <4> QED BY <1>1, <4>1
    <3>2. Kind[s] # "padding" => RunFrom(0, p.rest \o p.buffer) /\ Len(p.rest \o p.buffer) = m + n
      BY <1>2, <1>3, <1>4, <1>5, <1>6, <2>2, <3>1 DEF Sound
    <3> QED BY <1>2, <1>5, <1>6, <2>2, <3>2 DEF Sound, Loaded, d, m, p
  <2> QED BY <1>3, <1>5, <1>6, <2>1, <2>2 DEF Sound
<1>7. CASE c.header = "decoded"
  <2>1. c.buffer = <<>> /\ c.decoder # "none" /\ p.buffer = q
    <3>1. c.buffer = <<>> /\ c.decoder # "none"
      BY <1>5, <1>7 DEF Sound
    <3> QED BY <1>1, <3>1
  <2>2. (c.decoder = "open" /\ s \notin Malformed) =>
          p.rest = <<>> /\ m = HeaderLen + 2 * Len(d) + c.object
    BY <1>2, <1>5, <1>7 DEF Sound
  <2>3. (c.decoder = "open" /\ s \notin Malformed) =>
          /\ m + n = HeaderLen + 2 * Len(d) + p.object + Len(p.buffer)
          /\ RunFrom(HeaderLen + 2 * Len(d) + p.object, p.buffer)
    BY <1>1, <1>2, <2>1, <2>2
  <2>4. /\ Ordered(d) /\ Kind[s] # "padding" /\ (s \in Malformed => d = <<>>)
    BY <1>5, <1>7 DEF Sound
  <2> QED BY <1>2, <1>7, <2>1, <2>2, <2>3, <2>4 DEF Loaded, d, m, p
<1> QED BY <1>3, <1>6, <1>7

\* The retry takes the decoder away: what it finds in the buffer is all there was,
\* or the header had been accepted and nothing of the stream will be read again.
LEMMA Reloads ==
  ASSUME TypeOK, NEW s \in Streams, Held(s), s \in pending_data_streams, s \notin torn,
         Sound(s, core[s], sent[s], delivered[s])
  PROVE  Loaded(s, Rebuilt(s), sent[s], delivered[s])
<1> DEFINE c == core[s]
           r == Rebuilt(s)
<1>1. /\ r.decoder = "none" /\ r.rest = <<>> /\ r.buffer = c.buffer
      /\ r.header = c.header /\ r.object = c.object
      /\ c.buffer \in Seq(Units(s)) /\ c.header \in {"awaited", "decoded"}
  BY UndecodedFields, CoreFields DEF TypeOK, Rebuilt
<1>2. Kind[s] = "subgroup"
  BY DEF Held
<1>3. r.rest \o r.buffer = r.buffer
  BY <1>1
<1> HIDE DEF r
<1>4. CASE c.header = "awaited"
  <2>1. c.decoder = "none"
    BY <1>4 DEF Held
  <2> QED BY <1>1, <1>2, <1>3, <1>4, <2>1 DEF Sound, Loaded, r
<1>5. CASE c.header = "decoded"
  BY <1>1, <1>2, <1>5 DEF Sound, Loaded, r
<1> QED BY <1>1, <1>4, <1>5

\* The header of a sound stream that is held is complete, and it is a subgroup's.
LEMMA HoldMeans ==
  ASSUME NEW s \in Streams, NEW c \in CoreState(s), NEW n \in Nat, NEW d,
         "hold" \in Verdicts(s, c), Loaded(s, c, n, d)
  PROVE  Kind[s] = "subgroup" /\ n >= HeaderLen /\ c.header = "awaited"
<1> DEFINE f == Fed(s, c)
<1>1. /\ f.decoder # "none" /\ Kind[s] # "padding" /\ f.header # "decoded"
      /\ ~(Len(f.rest) < HeaderLen) /\ "hold" \in HeaderVerdicts(s, f)
  BY DEF Verdicts
<1>2. f \in CoreState(s) /\ f.header = c.header
  BY FedType, FedFields
<1>3. c.header = "awaited"
  BY <1>1, <1>2, CoreFields
<1>4. f.rest = c.rest \o c.buffer \/ (f = c /\ c.decoder = "none")
  BY FedFields
<1>5. f.rest = c.rest \o c.buffer
  BY <1>1, <1>4
<1>6. RunFrom(0, f.rest) /\ Len(f.rest) = n
  BY <1>1, <1>3, <1>5 DEF Loaded
<1>7. f.rest[1] = 1
  <2>1. Len(f.rest) \in Nat /\ HeaderLen \in Nat \ {0}
    BY <1>2, CoreFields
  <2> HIDE DEF f
  <2> QED BY <1>1, <1>6, <2>1 DEF RunFrom
<1>8. Kind[s] # "fetch"
  BY <1>1, <1>7 DEF HeaderVerdicts
<1>9. n >= HeaderLen
  BY <1>1, <1>6
<1> QED BY <1>1, <1>3, <1>8, <1>9

\* A held stream that has its header complete is judged by its header.
LEMMA HeldIsJudged ==
  ASSUME NEW s \in Streams, NEW c \in CoreState(s), NEW n \in Nat, NEW d,
         NEW v \in Verdicts(s, c), s \notin ignored_data_streams,
         Loaded(s, c, n, d), Kind[s] = "subgroup", c.header = "awaited",
         c.decoder = "none", n >= HeaderLen
  PROVE  v \in {"accept", "hold", "ignore"}
<1> DEFINE f == Fed(s, c)
<1>1. f \in CoreState(s) /\ f.header = "awaited"
  BY FedType, FedFields
<1>2. f.rest = c.rest \o c.buffer /\ f.decoder = "new"
  BY FedFields
<1>3. RunFrom(0, f.rest) /\ Len(f.rest) = n
  BY <1>2 DEF Loaded
<1>4. f.rest[1] = 1 /\ ~(Len(f.rest) < HeaderLen)
  BY <1>3 DEF RunFrom
<1>5. v \in HeaderVerdicts(s, f)
  BY <1>1, <1>2, <1>4 DEF Verdicts
<1> QED BY <1>4, <1>5 DEF HeaderVerdicts

\* A header once decoded stays so, and its decoder stays open.
LEMMA DecodedStays ==
  ASSUME NEW s \in Streams, NEW c \in CoreState(s), NEW v \in Verdicts(s, c),
         s \notin ignored_data_streams, Kind[s] # "padding", c.header = "decoded"
  PROVE  /\ v \in {"wait", "error", "decode"}
         /\ After(s, c, v).header = "decoded"
         /\ c.decoder = "open" => After(s, c, v).decoder = "open"
<1> DEFINE f == Fed(s, c)
<1>1. f \in CoreState(s) /\ f.header = "decoded" /\ (c.decoder = "open" => f.decoder = "open")
  <2>1. f.header = "decoded"
    BY FedFields
  <2>2. c.decoder = "open" => f.decoder = "open"
    BY FedFields
  <2> QED BY <2>1, <2>2, FedType
<1>2. v \in {"wait", "error", "decode"}
  BY <1>1 DEF Verdicts
<1>3. After(s, c, v) = f \/ After(s, c, v) = Drained(f)
  BY <1>2 DEF After, Reads, Opened
<1>4. Drained(f).header = f.header /\ Drained(f).decoder = f.decoder
  BY <1>1, DrainedFields
<1> QED BY <1>1, <1>2, <1>3, <1>4

-----------------------------------------------------------------------------
(* The invariant is inductive.                                             *)

\* A stream that a step does not concern.
Untouched(t) ==
  /\ core'[t] = core[t] /\ sent'[t] = sent[t] /\ outcome'[t] = outcome[t]
  /\ delivered'[t] = delivered[t]
  /\ t \in pending_data_streams' <=> t \in pending_data_streams
  /\ t \in ignored_data_streams' <=> t \in ignored_data_streams
  /\ t \in dropped' <=> t \in dropped
  /\ t \in torn' <=> t \in torn
  /\ t \in lost' <=> t \in lost
  /\ closed => closed'

\* A step keeps the invariant of the streams it does not concern.
LEMMA UntouchedGood ==
  ASSUME NEW t \in Streams, Good(t), Untouched(t)
  PROVE  Good(t)'
<1>1. Held(t)'
  BY DEF Good, Held, Active, Untouched
<1>2. Gone(t)'
  BY DEF Good, Gone, Untouched
<1>3. Spoiled(t)'
  BY DEF Good, Spoiled, Active, Untouched
<1>4. Whole(t)'
  <2>1. Sound(t, core'[t], sent'[t], delivered'[t])
          <=> Sound(t, core[t], sent[t], delivered[t])
    BY DEF Untouched
  <2> QED BY <2>1 DEF Good, Whole, Active, Untouched
<1> QED BY <1>1, <1>2, <1>3, <1>4 DEF Good

\* A stream that a step discards.
LEMMA DiscardedGood ==
  ASSUME NEW t \in Streams, Good(t),
         core'[t].buffer = <<>>, core'[t].decoder = "none",
         t \in ignored_data_streams', t \in dropped', t \notin pending_data_streams',
         outcome'[t] = "open", delivered'[t] = delivered[t],
         t \in torn' <=> t \in torn, t \in lost' <=> t \in lost
  PROVE  Good(t)'
BY DEF Good, Held, Gone, Spoiled, Whole, Active

\* The call has looked at s and did not discard it.
LEMMA ReadGood ==
  ASSUME IInv, NEW s \in Streams, NEW n \in Nat, sent[s] + n <= Size(s), n > 0,
         outcome[s] = "open", s \notin ignored_data_streams,
         NEW v \in Verdicts(s, Pushed(s, n)), v # "ignore",
         core'[s] = After(s, Pushed(s, n), v), sent'[s] = sent[s] + n,
         outcome'[s] = outcome[s],
         delivered'[s] = delivered[s] \o Events(s, Pushed(s, n), v),
         s \in pending_data_streams' <=> (s \in pending_data_streams \/ v = "hold"),
         s \notin ignored_data_streams',
         s \in dropped' <=> s \in dropped,
         s \in torn' <=> (s \in torn \/ (v = "hold" /\ core[s].rest # <<>>)),
         s \in lost' <=> s \in lost
  PROVE  Good(s)'
<1> DEFINE p == Pushed(s, n)
<1>1. Good(s) /\ TypeOK /\ Active(s) /\ sent[s] \in Nat /\ n \in Nat /\ HeaderLen \in Nat
  BY DEF IInv, Active, TypeOK
<1>2. /\ p \in CoreState(s) /\ p.decoder = core[s].decoder /\ p.rest = core[s].rest
      /\ p.header = core[s].header
  BY <1>1, PushedFields
<1>3. delivered[s] \in Seq(0 .. Objects[s]) /\ core[s] \in CoreState(s)
  BY <1>1 DEF TypeOK
<1>4. s \notin torn \cup lost => Loaded(s, p, sent[s] + n, delivered[s])
  BY <1>1, Loads DEF Good, Whole
<1>5. v = "hold" =>
        /\ Undecoded(p).decoder = "none" /\ After(s, p, v) = Undecoded(p)
  BY <1>2, UndecodedFields DEF After, Reads
<1>6. s \in lost => Kind[s] = "subgroup" /\ p.header = "decoded" /\ p.decoder = "open"
  BY <1>1, <1>2 DEF Good, Spoiled
<1> HIDE DEF p
<1>7. p.header = "decoded" /\ Kind[s] # "padding" =>
        /\ v \in {"wait", "error", "decode"}
        /\ After(s, p, v).header = "decoded"
        /\ p.decoder = "open" => After(s, p, v).decoder = "open"
  BY <1>2, DecodedStays DEF p
<1>8. s \in lost => v # "hold"
  BY <1>6, <1>7
<1>9. v = "hold" => Kind[s] = "subgroup"
  <2>1. CASE s \in torn \cup lost
    BY <1>1, <2>1 DEF Good, Spoiled
  <2>2. CASE s \notin torn \cup lost
    BY <1>1, <1>2, <1>4, <2>2, HoldMeans DEF p
  <2> QED BY <2>1, <2>2
<1>10. Held(s)'
  <2> SUFFICES ASSUME s \in pending_data_streams'
               PROVE  /\ Active(s)' /\ Kind[s] = "subgroup" /\ s \notin lost'
                      /\ (s \notin torn' /\ core'[s].header = "awaited") =>
                           core'[s].decoder = "none" /\ sent'[s] >= HeaderLen
    BY DEF Held
  <2>1. Active(s)'
    BY DEF Active
  <2>2. Kind[s] = "subgroup" /\ s \notin lost'
    BY <1>1, <1>8, <1>9 DEF Good, Held
  <2>3. ASSUME s \notin torn', core'[s].header = "awaited"
        PROVE  core'[s].decoder = "none" /\ sent'[s] >= HeaderLen
    <3>1. s \notin torn \cup lost
      BY <2>2, <2>3
    <3>2. CASE v = "hold"
      BY <1>1, <1>2, <1>4, <1>5, <3>1, <3>2, HoldMeans DEF p
    <3>3. CASE v # "hold"
      <4>1. s \in pending_data_streams
        BY <3>3
      <4>2. p.header = "awaited"
        BY <1>2, <1>7, <2>2, <2>3, CoreFields DEF p
      <4>3. core[s].decoder = "none" /\ sent[s] >= HeaderLen
        BY <1>1, <1>2, <3>1, <4>1, <4>2 DEF Good, Held
      <4>4. v = "accept"
        BY <1>1, <1>2, <1>4, <2>2, <3>1, <3>3, <4>2, <4>3, HeldIsJudged DEF p
      <4>5. After(s, p, v).header = "decoded"
        <5> DEFINE f == Fed(s, p)
        <5>1. f \in CoreState(s) /\ Accepted(f) \in CoreState(s)
          BY <1>2, FedType, AcceptedType DEF p
        <5>2. Accepted(f).header = "decoded" /\ Drained(Accepted(f)).header = "decoded"
          BY <5>1, AcceptedFields, DrainedFields
        <5>3. After(s, p, v) = Accepted(f) \/ After(s, p, v) = Drained(Accepted(f))
          BY <4>4 DEF After, Opened, Reads
        <5> QED BY <5>2, <5>3
      <4> QED BY <2>3, <4>5 DEF p
    <3> QED BY <3>2, <3>3
  <2> QED BY <2>1, <2>2, <2>3
<1>11. Gone(s)'
  BY <1>1 DEF Good, Gone
<1>12. Spoiled(s)'
  <2>1. s \in torn' \cup lost' => Kind[s] = "subgroup"
    BY <1>1, <1>9 DEF Good, Spoiled
  <2>2. s \in lost' => core'[s].header = "decoded" /\ core'[s].decoder = "open"
    BY <1>6, <1>7 DEF p
  <2> QED BY <2>1, <2>2 DEF Spoiled
<1>13. Whole(s)'
  <2> SUFFICES ASSUME s \notin torn' \cup lost'
               PROVE  Ordered(delivered'[s]) /\ Sound(s, core'[s], sent'[s], delivered'[s])
    BY DEF Whole
  <2>1. Sound(s, core'[s], sent'[s], delivered'[s])
    BY <1>1, <1>2, <1>3, <1>4, CallSound DEF p
  <2> QED BY <2>1 DEF Sound
<1> QED BY <1>10, <1>11, <1>12, <1>13 DEF Good

\* A fragment arrives: the buffer overflows, or the stream is read.
LEMMA ReceiveGood ==
  ASSUME IInv, NEW s \in Streams, NEW n \in 1 .. MaxFragment, Receive(s, n)
  PROVE  \A t \in Streams : Good(t)'
<1> SUFFICES ASSUME NEW t \in Streams PROVE Good(t)'
  OBVIOUS
<1>1. /\ \A u \in Streams : Good(u) /\ core[u] \in CoreState(u)
      /\ TypeOK /\ n \in Nat /\ n > 0
  BY DEF IInv, TypeOK
<1>2. /\ outcome[s] = "open" /\ sent[s] + n <= Size(s)
      /\ sent' = [sent EXCEPT ![s] = @ + n]
      /\ UNCHANGED <<alias, closed, outcome, lost>>
  BY DEF Receive
<1>3. CASE Overflow(s)
  <2>1. core'[t] = IF t = s THEN Forgotten(core[t]) ELSE core[t]
    BY <1>3 DEF Overflow, Discard
  <2>2. CASE t = s
    <3>1. core'[t].buffer = <<>> /\ core'[t].decoder = "none"
      BY <1>1, <2>1, <2>2, ForgottenType
    <3> QED BY <1>1, <1>2, <1>3, <2>2, <3>1, DiscardedGood DEF Overflow
  <2>3. CASE t # s
    <3>1. Untouched(t)
      BY <1>1, <1>2, <1>3, <2>1, <2>3 DEF Overflow, Untouched, TypeOK
    <3> QED BY <1>1, <3>1, UntouchedGood
  <2> QED BY <2>2, <2>3
<1>4. ASSUME NEW v \in Verdicts(s, Pushed(s, n)), Process(s, Pushed(s, n), v)
      PROVE  Good(t)'
  <2> DEFINE p == Pushed(s, n)
             G == Discarded(s, v)
             K == [core EXCEPT ![s] = After(s, p, v)]
  <2>1. /\ core' = Discard(G, K)
        /\ pending_data_streams' =
             (pending_data_streams \ G) \cup (IF v = "hold" THEN {s} ELSE {})
        /\ ignored_data_streams' = ignored_data_streams \cup G
        /\ dropped' = dropped \cup G
        /\ delivered' = [delivered EXCEPT ![s] = @ \o Events(s, p, v)]
        /\ torn' = IF v = "hold" /\ p.rest # <<>> THEN torn \cup {s} ELSE torn
    BY <1>4 DEF Process
  <2>2. core'[t] = IF t \in G THEN Forgotten(K[t]) ELSE K[t]
    BY <2>1 DEF Discard
  <2>3. p \in CoreState(s) /\ p.rest = core[s].rest
    BY <1>1, <1>2, PushedFields
  <2>4. \A u \in Streams : K[u] \in CoreState(u)
    BY <1>1, <2>3, CallType DEF TypeOK
  <2>5. s \in G <=> v = "ignore"
    BY DEF Discarded, Evicted
  <2>6. t \in G => t = s \/ (t \in pending_data_streams /\ v = "hold")
    BY DEF Discarded, Evicted
  <2>7. delivered[s] \in Seq(0 .. Objects[s]) /\ delivered \in [Streams -> Seq(Nat)]
    BY <1>1 DEF TypeOK
  <2> HIDE DEF G, p
  <2>8. CASE t \in G
    <3>1. core'[t].buffer = <<>> /\ core'[t].decoder = "none"
      BY <2>2, <2>4, <2>8, ForgottenType
    <3>2. outcome'[t] = "open"
      BY <1>1, <1>2, <2>6, <2>8 DEF Good, Held, Active
    <3>3. delivered'[t] = delivered[t]
      <4>1. CASE t = s
        <5>1. Events(s, p, v) = <<>>
          BY <2>5, <2>8, <4>1 DEF Events, Reads
        <5> QED BY <2>1, <2>7, <4>1, <5>1
      <4>2. CASE t # s
        BY <2>1, <2>7, <4>2
      <4> QED BY <4>1, <4>2
    <3>4. t \notin pending_data_streams' /\ (t \in torn' <=> t \in torn)
      BY <2>1, <2>5, <2>8
    <3>5. t \in ignored_data_streams' /\ t \in dropped' /\ (t \in lost' <=> t \in lost)
      BY <1>2, <2>1, <2>8
    <3> QED BY <1>1, <3>1, <3>2, <3>3, <3>4, <3>5, DiscardedGood
  <2>9. CASE t \notin G /\ t # s
    <3>1. K[t] = core[t] /\ core'[t] = core[t]
      BY <1>1, <2>2, <2>9 DEF TypeOK
    <3>2. Untouched(t)
      <4> HIDE DEF K
      <4> QED BY <1>1, <1>2, <2>1, <2>7, <2>9, <3>1 DEF Untouched, TypeOK
    <3> QED BY <1>1, <3>2, UntouchedGood
  <2>10. CASE t = s /\ s \notin G /\ s \in ignored_data_streams
    <3>1. v = "ignored"
      BY <2>10 DEF Verdicts, p
    <3>2. core'[s] = [p EXCEPT !.buffer = <<>>] /\ Events(s, p, v) = <<>>
      <4>1. core'[s] = After(s, p, v)
        BY <1>1, <2>2, <2>10 DEF TypeOK
      <4>2. After(s, p, v) = [p EXCEPT !.buffer = <<>>]
        BY <3>1 DEF After, Reads
      <4>3. Events(s, p, v) = <<>>
        BY <3>1 DEF Events, Reads
      <4> QED BY <4>1, <4>2, <4>3
    <3>3. p.decoder = core[s].decoder
      BY <1>1, <1>2, PushedFields DEF p
    <3>4. core'[s].buffer = <<>> /\ core'[s].decoder = "none"
      <4>1. core'[s].buffer = <<>> /\ core'[s].decoder = p.decoder
        BY <2>3, <3>2 DEF CoreState, StatesOver
      <4> QED BY <1>1, <2>10, <3>3, <4>1 DEF Good, Gone
    <3>5. delivered'[s] = delivered[s] /\ s \in dropped
      BY <1>1, <2>1, <2>7, <2>10, <3>2 DEF Good, Gone
    <3>6. /\ s \notin pending_data_streams' /\ (s \in torn' <=> s \in torn)
          /\ s \in ignored_data_streams' /\ s \in dropped' /\ (s \in lost' <=> s \in lost)
      BY <1>1, <1>2, <2>1, <2>10, <3>1, <3>5 DEF Good, Held, Active
    <3> QED BY <1>1, <1>2, <2>10, <3>4, <3>5, <3>6, DiscardedGood
  <2>11. CASE t = s /\ s \notin G /\ s \notin ignored_data_streams
    <3>1. core'[s] = After(s, p, v) /\ v # "ignore"
      BY <1>1, <2>2, <2>5, <2>11 DEF TypeOK
    <3>2. /\ sent'[s] = sent[s] + n
          /\ delivered'[s] = delivered[s] \o Events(s, p, v)
      BY <1>1, <1>2, <2>1, <2>7 DEF TypeOK
    <3>3. /\ s \in pending_data_streams' <=> (s \in pending_data_streams \/ v = "hold")
          /\ s \notin ignored_data_streams'
          /\ s \in dropped' <=> s \in dropped
          /\ s \in torn' <=> (s \in torn \/ (v = "hold" /\ core[s].rest # <<>>))
          /\ s \in lost' <=> s \in lost
          /\ outcome'[s] = outcome[s]
      BY <1>2, <2>1, <2>3, <2>11
    <3> QED BY <1>1, <1>2, <2>11, <3>1, <3>2, <3>3, ReadGood DEF p
  <2> QED BY <2>8, <2>9, <2>10, <2>11
<1> QED BY <1>3, <1>4 DEF Receive

\* A stream ends.
LEMMA CloseGood ==
  ASSUME IInv, NEW s \in Streams, NEW how \in {"fin", "reset"}, Close(s, how)
  PROVE  \A t \in Streams : Good(t)'
<1> SUFFICES ASSUME NEW t \in Streams PROVE Good(t)'
  OBVIOUS
<1>1. Good(t) /\ Good(s) /\ TypeOK /\ core[s] \in CoreState(s)
  BY DEF IInv, TypeOK
<1>2. /\ outcome[s] = "open" /\ ~closed
      /\ outcome' = [outcome EXCEPT ![s] = how]
      /\ closed' = (how = "fin" /\ Unfinished(s))
      /\ core' = [core EXCEPT ![s] = Fresh]
      /\ pending_data_streams' = pending_data_streams \ {s}
      /\ ignored_data_streams' = ignored_data_streams \ {s}
      /\ UNCHANGED <<alias, sent, delivered, dropped, torn, lost>>
  BY DEF Close
<1>3. CASE t # s
  <2>1. Untouched(t)
    BY <1>1, <1>2, <1>3 DEF Untouched, TypeOK
  <2> QED BY <1>1, <2>1, UntouchedGood
<1>4. CASE t = s
  <2>1. outcome'[s] = how /\ ~(Active(s)')
    BY <1>1, <1>2 DEF Active, TypeOK
  <2>2. Held(s)' /\ Gone(s)' /\ Spoiled(s)'
    BY <1>1, <1>2, <2>1 DEF Good, Held, Gone, Spoiled
  <2>3. ASSUME ~closed', how = "fin", delivered[s] # <<>>,
               s \notin torn \cup lost, s \notin dropped \cup Malformed
        PROVE  sent[s] = HeaderLen + 2 * Len(delivered[s])
    <3> DEFINE c == core[s]
               n == sent[s]
               d == delivered[s]
    <3>1. Sound(s, c, n, d)
      BY <1>1, <1>2, <2>3 DEF Good, Whole, Gone, Active
    <3> HIDE DEF c, n, d
    <3>2. c.header = "decoded" /\ c.decoder # "none" /\ Kind[s] # "padding"
      <4>1. c.header # "awaited"
        BY <2>3, <3>1 DEF Sound, d
      <4> QED BY <1>1, <3>1, <4>1, CoreFields DEF Sound, c
    <3>3. ~Unfinished(s)
      BY <1>2, <2>3
    <3>4. c.decoder = "open" /\ c.object = 0
      BY <1>1, <3>2, <3>3, CoreFields DEF Unfinished, c
    <3>5. n = HeaderLen + 2 * Len(d) + c.object
      BY <2>3, <3>1, <3>4 DEF Sound
    <3>6. Len(d) \in Nat
      BY <1>1 DEF TypeOK, d
    <3> QED BY <3>4, <3>5, <3>6 DEF n, d
  <2>4. Whole(s)'
    <3>1. s \notin torn \cup lost => Ordered(delivered[s])
      BY <1>1 DEF Good, Whole
    <3> QED BY <1>2, <2>1, <2>3, <3>1 DEF Whole
  <2> QED BY <1>4, <2>2, <2>4 DEF Good
<1> QED BY <1>3, <1>4

\* A held stream that a retry visits: its events are handed over, or an error
\* on a stream visited later throws them away.
LEMMA VisitedGood ==
  ASSUME IInv, NEW t \in pending_data_streams, NEW w \in Verdicts(t, Rebuilt(t)),
         core'[t] = After(t, Rebuilt(t), w),
         sent'[t] = sent[t], outcome'[t] = outcome[t],
         t \in pending_data_streams' <=> w = "hold",
         t \in ignored_data_streams' <=> w = "ignore",
         t \in dropped' <=> (t \in dropped \/ w = "ignore"),
         t \in torn' <=> t \in torn,
         \/ /\ delivered'[t] = delivered[t] \o Events(t, Rebuilt(t), w)
            /\ t \in lost' <=> t \in lost
         \/ /\ delivered'[t] = delivered[t]
            /\ t \in lost' <=> (t \in lost \/ Events(t, Rebuilt(t), w) # <<>>)
  PROVE  Good(t)'
<1> DEFINE r == Rebuilt(t)
<1>1. t \in Streams /\ TypeOK /\ Good(t) /\ r \in CoreState(t)
  BY RebuiltType DEF IInv, TypeOK
<1>2. /\ Active(t) /\ Kind[t] = "subgroup" /\ t \notin lost /\ t \notin dropped
      /\ t \notin ignored_data_streams /\ outcome[t] = "open"
  BY <1>1 DEF Good, Held, Gone, Active
<1>3. /\ r.decoder = "none" /\ r.rest = <<>> /\ r.header = core[t].header
      /\ r.header \in {"awaited", "decoded"}
  BY <1>1, UndecodedFields, CoreFields DEF TypeOK, Rebuilt
<1>4. sent[t] \in Nat /\ delivered[t] \in Seq(0 .. Objects[t])
  BY <1>1 DEF TypeOK
<1>5. t \notin torn => Loaded(t, r, sent[t], delivered[t])
  BY <1>1, <1>2, Reloads DEF Good, Whole
<1>6. Events(t, r, w) # <<>> => core'[t].header = "decoded" /\ core'[t].decoder = "open"
  <2> SUFFICES ASSUME Events(t, r, w) # <<>>
               PROVE  core'[t].header = "decoded" /\ core'[t].decoder = "open"
    OBVIOUS
  <2> DEFINE f == Fed(t, r)
  <2>1. Reads(w) /\ ~Fails(t, r, w)
    BY DEF Events
  <2>2. w # "decode"
    <3>1. f.decoder # "open"
      BY <1>1, <1>3, FedFields
    <3> QED BY <1>2, <3>1 DEF Verdicts, HeaderVerdicts
  <2>3. w = "accept"
    BY <2>1, <2>2 DEF Reads
  <2>4. After(t, r, w) = Drained(Accepted(f))
    BY <2>1, <2>3 DEF After, Opened, Reads
  <2>5. /\ Accepted(f) \in CoreState(t)
        /\ Accepted(f).header = "decoded" /\ Accepted(f).decoder = "open"
    BY <1>1, FedType, AcceptedType, AcceptedFields
  <2>6. /\ Drained(Accepted(f)).header = "decoded"
        /\ Drained(Accepted(f)).decoder = "open"
    BY <1>1, <2>5, DrainedFields
  <2> QED BY <2>4, <2>6
<1> HIDE DEF r
<1>7. w = "hold" =>
        /\ Events(t, r, w) = <<>> /\ After(t, r, w) = Undecoded(r)
        /\ Undecoded(r).decoder = "none" /\ Undecoded(r).header = r.header
  BY <1>1, UndecodedFields DEF After, Events, Reads
<1>8. CASE w = "ignore"
  <2>1. After(t, r, w) = Forgotten(r) /\ Events(t, r, w) = <<>>
    BY <1>8 DEF After, Events, Reads
  <2>2. core'[t].buffer = <<>> /\ core'[t].decoder = "none"
    BY <1>1, <2>1, ForgottenType DEF r
  <2>3. delivered'[t] = delivered[t] /\ (t \in lost' <=> t \in lost)
    BY <1>4, <2>1 DEF r
  <2> QED BY <1>1, <1>2, <1>8, <2>2, <2>3, DiscardedGood
<1>9. CASE w # "ignore"
  <2>1. Held(t)'
    <3> SUFFICES ASSUME t \in pending_data_streams'
                 PROVE  /\ Active(t)' /\ Kind[t] = "subgroup" /\ t \notin lost'
                        /\ (t \notin torn' /\ core'[t].header = "awaited") =>
                             core'[t].decoder = "none" /\ sent'[t] >= HeaderLen
      BY DEF Held
    <3>1. Active(t)' /\ t \notin lost'
      BY <1>2, <1>7, <1>9 DEF Active, r
    <3>2. ASSUME t \notin torn' PROVE core'[t].decoder = "none" /\ sent'[t] >= HeaderLen
      BY <1>1, <1>4, <1>5, <1>7, <3>2, HoldMeans DEF r
    <3> QED BY <1>2, <3>1, <3>2
  <2>2. Gone(t)'
    BY <1>2, <1>9 DEF Gone
  <2>3. Spoiled(t)'
    BY <1>2, <1>6 DEF Spoiled, r
  <2>4. Whole(t)'
    <3> SUFFICES ASSUME t \notin torn' \cup lost'
                 PROVE  Ordered(delivered'[t]) /\ Sound(t, core'[t], sent'[t], delivered'[t])
      BY <1>2 DEF Whole
    <3>1. delivered'[t] = delivered[t] \o Events(t, r, w)
      <4>1. delivered[t] \o <<>> = delivered[t]
        BY <1>4
      <4> QED BY <4>1 DEF r
    <3>2. Sound(t, core'[t], sent'[t], delivered'[t])
      BY <1>1, <1>2, <1>3, <1>4, <1>5, <1>9, <3>1, CallSound DEF r
    <3> QED BY <3>2 DEF Sound
  <2> QED BY <2>1, <2>2, <2>3, <2>4 DEF Good
<1> QED BY <1>8, <1>9

\* The retry of the held streams, run to its end or aborted.
LEMMA RetryGood ==
  ASSUME IInv, Retry
  PROVE  \A t \in Streams : Good(t)'
<1> SUFFICES ASSUME NEW t \in Streams PROVE Good(t)'
  OBVIOUS
<1>1. Good(t) /\ TypeOK /\ core[t] \in CoreState(t)
  BY DEF IInv, TypeOK
<1>2. PICK v \in Choices : RetryAll(v) \/ RetryAborted(v)
  BY DEF Retry
<1>3. CASE RetryAll(v)
  <2>1. /\ Retried(pending_data_streams, v) /\ UNCHANGED lost
        /\ delivered'[t] = IF t \in pending_data_streams
                           THEN delivered[t] \o Events(t, Rebuilt(t), v[t])
                           ELSE delivered[t]
    BY <1>3 DEF RetryAll
  <2>2. CASE t \in pending_data_streams
    <3>1. v[t] \in Verdicts(t, Rebuilt(t))
      BY <1>1, <2>2, ChoicesAreVerdicts
    <3>2. t \notin ignored_data_streams
      BY <1>1, <2>2 DEF Good, Held, Active
    <3>3. core'[t] = After(t, Rebuilt(t), v[t])
      BY <2>1, <2>2 DEF Retried
    <3> QED BY <2>1, <2>2, <3>1, <3>2, <3>3, VisitedGood DEF Retried
  <2>3. CASE t \notin pending_data_streams
    <3>1. Untouched(t)
      BY <2>1, <2>3 DEF Retried, Untouched
    <3> QED BY <1>1, <3>1, UntouchedGood
  <2> QED BY <2>2, <2>3
<1>4. CASE RetryAborted(v)
  <2>1. PICK f \in pending_data_streams,
             before \in SUBSET {s \in pending_data_streams : ~Fails(s, Rebuilt(s), v[s])} :
          /\ Fails(f, Rebuilt(f), v[f])
          /\ Retried(before \cup {f}, v)
          /\ lost' = lost \cup {s \in before : Events(s, Rebuilt(s), v[s]) # <<>>}
          /\ UNCHANGED delivered
    BY <1>4 DEF RetryAborted
  <2>2. CASE t \in before \cup {f}
    <3>1. t \in pending_data_streams
      BY <2>2
    <3>2. v[t] \in Verdicts(t, Rebuilt(t))
      BY <1>1, <3>1, ChoicesAreVerdicts
    <3>3. t \notin ignored_data_streams
      BY <1>1, <3>1 DEF Good, Held, Active
    <3>4. core'[t] = After(t, Rebuilt(t), v[t])
      BY <2>1, <2>2 DEF Retried
    <3>5. Events(f, Rebuilt(f), v[f]) = <<>>
      BY <2>1 DEF Events
    <3>6. t \in lost' <=> (t \in lost \/ Events(t, Rebuilt(t), v[t]) # <<>>)
      BY <2>1, <2>2, <3>5
    <3>7. delivered'[t] = delivered[t]
      BY <2>1
    <3>8. /\ sent'[t] = sent[t] /\ outcome'[t] = outcome[t]
          /\ (t \in torn' <=> t \in torn)
          /\ (t \in pending_data_streams' <=> v[t] = "hold")
          /\ (t \in ignored_data_streams' <=> v[t] = "ignore")
          /\ (t \in dropped' <=> (t \in dropped \/ v[t] = "ignore"))
      BY <2>1, <2>2, <3>3 DEF Retried
    <3> QED BY <3>1, <3>2, <3>4, <3>6, <3>7, <3>8, VisitedGood
  <2>3. CASE t \notin before \cup {f}
    <3>1. Untouched(t)
      BY <2>1, <2>3 DEF Retried, Untouched
    <3> QED BY <1>1, <3>1, UntouchedGood
  <2> QED BY <2>2, <2>3
<1> QED BY <1>2, <1>3, <1>4

\* The invariant holds initially and no step breaks it.
LEMMA InitGood == Init => IInv
<1> SUFFICES ASSUME Init, NEW s \in Streams PROVE Good(s)
  BY InitType DEF IInv
<1>1. core[s] = Fresh /\ sent[s] = 0 /\ delivered[s] = <<>> /\ outcome[s] = "open"
  BY DEF Init
<1>2. Sound(s, Fresh, 0, <<>>)
  BY DEF Sound, Fresh, Ordered, RunFrom
<1> QED BY <1>1, <1>2 DEF Init, Good, Held, Gone, Spoiled, Whole, Sound

\* No step of the session breaks the invariant.
LEMMA StepGood == IInv /\ [Next]_vars => IInv'
<1> SUFFICES ASSUME IInv, [Next]_vars PROVE IInv'
  OBVIOUS
<1>1. TypeOK'
  BY StepType DEF IInv
<1>2. CASE \E a \in Aliases : Bind(a) \/ Unbind(a) \/ Forget(a)
  <2>1. \A t \in Streams : Untouched(t)
    BY <1>2 DEF Bind, Unbind, Forget, Untouched
  <2> QED BY <1>1, <2>1, UntouchedGood DEF IInv
<1>3. CASE UNCHANGED vars
  <2>1. \A t \in Streams : Untouched(t)
    BY <1>3 DEF vars, Untouched
  <2> QED BY <1>1, <2>1, UntouchedGood DEF IInv
<1>4. CASE \E s \in Streams, n \in 1 .. MaxFragment : Receive(s, n)
  BY <1>1, <1>4, ReceiveGood DEF IInv
<1>5. CASE \E s \in Streams, how \in {"fin", "reset"} : Close(s, how)
  BY <1>1, <1>5, CloseGood DEF IInv
<1>6. CASE Retry
  BY <1>1, <1>6, RetryGood DEF IInv
<1> QED BY <1>2, <1>3, <1>4, <1>5, <1>6 DEF Next

\* IInv is an invariant of DataStreams.
THEOREM Invariant == Spec => []IInv
BY InitGood, StepGood, PTL DEF Spec

-----------------------------------------------------------------------------
(* What the invariant says of the session.                                 *)

\* No buffering, hold, retry or eviction makes the session skip, repeat or swap
\* objects of a stream (receive_buffered_data_stream).
THEOREM ObjectsInOrder == Spec => []InOrderOnce
<1>1. IInv => InOrderOnce
  BY DEF IInv, Good, Whole, Ordered, InOrderOnce
<1> QED BY <1>1, Invariant, PTL

\* A held stream has all its bytes for the retry (hold_data_stream).
THEOREM HeldIsComplete == Spec => []HeldComplete
<1>1. IInv => HeldComplete
  <2> SUFFICES ASSUME IInv, NEW s \in pending_data_streams \ torn, core[s].decoder = "none"
               PROVE  core[s].buffer = Octets(s) /\ delivered[s] = <<>>
    BY DEF HeldComplete
  <2> DEFINE c == core[s]
             n == sent[s]
             d == delivered[s]
  <2>1. /\ s \in Streams /\ Good(s) /\ n \in Nat
        /\ c.buffer \in Seq(Units(s)) /\ c.header \in {"awaited", "decoded"}
    BY CoreFields DEF IInv, TypeOK
  <2>2. Sound(s, c, n, d)
    BY <2>1 DEF Good, Held, Whole
  <2> HIDE DEF c, n, d
  <2>3. d = <<>> /\ RunFrom(0, c.buffer) /\ Len(c.buffer) = n
    BY <2>1, <2>2 DEF Sound, c
  <2>4. c.buffer = [i \in 1 .. n |-> i]
    <3>1. DOMAIN c.buffer = 1 .. n /\ c.buffer = [i \in DOMAIN c.buffer |-> c.buffer[i]]
      BY <2>1, <2>3
    <3>2. \A i \in 1 .. n : c.buffer[i] = i
      BY <2>1, <2>3 DEF RunFrom
    <3> QED BY <3>1, <3>2
  <2> QED BY <2>3, <2>4 DEF Octets, c, n, d
<1> QED BY <1>1, Invariant, PTL

\* What has been discarded takes no memory and is not retried (ignore_data_stream).
THEOREM IgnoredStaysForgotten == Spec => []IgnoredIsForgotten
<1>1. IInv => IgnoredIsForgotten
  BY DEF IInv, TypeOK, Good, Gone, Held, Active, IgnoredIsForgotten
<1> QED BY <1>1, Invariant, PTL

\* A FIN that the session survives ended a stream whose objects were all handed
\* over (receive_data_stream_closed).
THEOREM FinIsWhole == Spec => []SurvivedFinIsWhole
<1>1. IInv => SurvivedFinIsWhole
  BY DEF IInv, Good, Whole, SurvivedFinIsWhole
<1> QED BY <1>1, Invariant, PTL

-----------------------------------------------------------------------------
(* The refinement of StreamDelivery.                                       *)

\* A step appends to what was handed over, and only for streams that are read.
LEMMA StepAppends ==
  ASSUME IInv, [Next]_vars, NEW t \in Streams
  PROVE  /\ Len(delivered[t]) <= Len(delivered'[t])
         /\ t \in dropped \/ outcome[t] # "open" => delivered'[t] = delivered[t]
<1>1. /\ Good(t) /\ TypeOK /\ TypeOK' /\ delivered[t] \in Seq(0 .. Objects[t])
      /\ delivered'[t] \in Seq(0 .. Objects[t])
  <2>1. TypeOK'
    BY StepType DEF IInv
  <2> QED BY <2>1 DEF IInv, TypeOK
<1> SUFFICES ASSUME delivered'[t] # delivered[t]
             PROVE  /\ Len(delivered[t]) <= Len(delivered'[t])
                    /\ Active(t)
  BY <1>1 DEF Good, Gone, Active
<1>2. CASE \E s \in Streams, n \in 1 .. MaxFragment : Receive(s, n)
  <2>1. PICK s \in Streams, n \in 1 .. MaxFragment : Receive(s, n)
    BY <1>2
  <2>2. PICK v \in Verdicts(s, Pushed(s, n)) : Process(s, Pushed(s, n), v)
    BY <2>1 DEF Receive, Overflow
  <2> DEFINE p == Pushed(s, n)
             e == Events(s, p, v)
  <2>3. delivered' = [delivered EXCEPT ![s] = @ \o e]
    BY <2>2 DEF Process
  <2>4. p \in CoreState(s)
    BY <1>1, <2>1, PushedFields DEF Receive
  <2>5. e \in Seq(0 .. Objects[s])
    BY <1>1, <2>4, CallType
  <2>6. t = s /\ outcome[s] = "open" /\ delivered'[t] = delivered[t] \o e
    BY <1>1, <2>1, <2>3 DEF Receive, TypeOK
  <2>7. s \notin ignored_data_streams
    <3> SUFFICES ASSUME s \in ignored_data_streams PROVE FALSE
      OBVIOUS
    <3>1. v = "ignored"
      BY DEF Verdicts
    <3>2. e = <<>>
      BY <3>1 DEF Events, Reads
    <3>3. delivered[t] \o <<>> = delivered[t]
      BY <1>1
    <3> HIDE DEF e
    <3> QED BY <2>6, <3>2, <3>3
  <2>8. Len(delivered[t]) <= Len(delivered'[t])
    <3> HIDE DEF e
    <3> QED BY <1>1, <2>5, <2>6
  <2> QED BY <2>6, <2>7, <2>8 DEF Active
<1>3. CASE Retry
  <2>1. PICK v \in Choices : RetryAll(v)
    BY <1>3 DEF Retry, RetryAborted
  <2> DEFINE e == Events(t, Rebuilt(t), v[t])
  <2>2. t \in pending_data_streams /\ delivered'[t] = delivered[t] \o e
    BY <2>1 DEF RetryAll
  <2>3. e \in Seq(0 .. Objects[t])
    BY <1>1, <2>2, RebuiltType, ChoicesAreVerdicts, CallType
  <2> HIDE DEF e
  <2>4. Len(delivered[t]) <= Len(delivered'[t])
    BY <1>1, <2>2, <2>3
  <2> QED BY <1>1, <2>2, <2>4 DEF Good, Held
<1>4. CASE \/ \E a \in Aliases : Bind(a) \/ Unbind(a) \/ Forget(a)
           \/ \E s \in Streams, how \in {"fin", "reset"} : Close(s, how)
           \/ UNCHANGED vars
  <2>1. delivered' = delivered
    BY <1>4 DEF Bind, Unbind, Forget, Close, vars
  <2> QED BY <1>1, <2>1
<1> QED BY <1>2, <1>3, <1>4 DEF Next

\* Streams that are gone or spoiled stay so.
LEMMA StepIsMonotone ==
  ASSUME TypeOK, [Next]_vars
  PROVE  /\ dropped \subseteq dropped'
         /\ torn \cup lost \subseteq torn' \cup lost'
         /\ \A t \in Streams : outcome[t] # "open" => outcome'[t] # "open"
<1>1. CASE \E s \in Streams, n \in 1 .. MaxFragment : Receive(s, n)
  <2>1. PICK s \in Streams, n \in 1 .. MaxFragment : Receive(s, n)
    BY <1>1
  <2>2. outcome' = outcome /\ lost' = lost
    BY <2>1 DEF Receive
  <2>3. dropped \subseteq dropped' /\ torn \subseteq torn'
    BY <2>1 DEF Receive, Overflow, Process
  <2> QED BY <2>2, <2>3
<1>2. CASE \E s \in Streams, how \in {"fin", "reset"} : Close(s, how)
  BY <1>2 DEF Close, TypeOK
<1>3. CASE Retry
  BY <1>3 DEF Retry, RetryAll, RetryAborted, Retried
<1>4. CASE (\E a \in Aliases : Bind(a) \/ Unbind(a) \/ Forget(a)) \/ UNCHANGED vars
  BY <1>4 DEF Bind, Unbind, Forget, vars
<1> QED BY <1>1, <1>2, <1>3, <1>4 DEF Next

\* Objects in order are the objects the peer wrote.
OnlyWritten ==
  \A t \in Streams \ (torn \cup lost) : Delivery!InOrder(t, delivered[t])

\* The invariant says so.
LEMMA InvInOrder == IInv => OnlyWritten
<1> SUFFICES ASSUME IInv, NEW t \in Streams \ (torn \cup lost)
             PROVE  Delivery!InOrder(t, delivered[t])
  BY DEF OnlyWritten
<1> DEFINE d == delivered[t]
<1>1. d \in Seq(0 .. Objects[t]) /\ Ordered(d) /\ Objects[t] \in Nat
  BY SizeNat DEF IInv, TypeOK, Good, Whole
<1> HIDE DEF d
<1>2. Len(d) <= Objects[t]
  <2>1. CASE Len(d) = 0
    BY <1>1, <2>1
  <2>2. CASE Len(d) # 0
    <3>1. Len(d) \in 1 .. Len(d) /\ Len(d) \in Nat
      BY <1>1, <2>2
    <3>2. d[Len(d)] \in 0 .. Objects[t]
      BY <1>1, <3>1
    <3>3. d[Len(d)] = Len(d)
      BY <1>1, <3>1 DEF Ordered
    <3> QED BY <3>1, <3>2, <3>3
  <2> QED BY <2>1, <2>2
<1> QED BY <1>1, <1>2 DEF Delivery!InOrder, Ordered, d

\* CoreSession implements StreamDelivery: every step hands over objects the way
\* the abstract receiver may.
THEOREM Implements == Spec => ImplementsDelivery
<1>1. Init => Delivery!Init
  BY DEF Init, Delivery!Init
<1>2. IInv /\ OnlyWritten' /\ [Next]_vars => [Delivery!Next]_(Delivery!absVars)
  <2> SUFFICES ASSUME IInv, OnlyWritten', [Next]_vars PROVE Delivery!Next
    OBVIOUS
  <2>1. TypeOK
    BY DEF IInv
  <2>2. /\ dropped \subseteq dropped'
        /\ torn \cup lost \subseteq torn' \cup lost'
        /\ \A t \in Streams : outcome[t] # "open" => outcome'[t] # "open"
    BY <2>1, StepIsMonotone
  <2>3. ASSUME NEW t \in Streams \ (torn \cup lost)'
        PROVE  Delivery!HandOver(t)
    <3>1. Delivery!InOrder(t, delivered'[t])
      BY DEF OnlyWritten, Delivery!InOrder
    <3> QED BY <3>1, StepAppends DEF Delivery!HandOver
  <2> QED BY <2>2, <2>3 DEF Delivery!Next
<1> QED BY <1>1, <1>2, Invariant, InvInOrder, PTL DEF Spec, ImplementsDelivery, Delivery!Spec

-----------------------------------------------------------------------------
(* The two limits.                                                         *)

\* A call leaves the buffer as it was, or empty.
LEMMA AfterBuffer ==
  ASSUME NEW s \in Streams, NEW c \in CoreState(s), NEW v \in Verdicts(s, c), TypeOK
  PROVE  After(s, c, v).buffer \in {c.buffer, <<>>}
<1> DEFINE f == Fed(s, c)
<1>1. f \in CoreState(s) /\ f.buffer \in {c.buffer, <<>>}
  BY FedType, FedFields
<1>2. Opened(s, c, v) \in CoreState(s) /\ Opened(s, c, v).buffer = f.buffer
  BY <1>1, OpenedType, AcceptedFields DEF Opened
<1>3. Drained(Opened(s, c, v)).buffer = f.buffer
  BY <1>2, DrainedFields
<1>4. [f EXCEPT !.rest = <<>>].buffer = f.buffer /\ [c EXCEPT !.buffer = <<>>].buffer = <<>>
  <2> HIDE DEF f
  <2> QED BY <1>1 DEF CoreState, StatesOver
<1>5. Undecoded(c).buffer = c.buffer /\ Forgotten(c).buffer = <<>>
  BY UndecodedFields, ForgottenType
<1>6. v \in {"ignored", "wait", "skip", "decode", "error", "accept", "hold", "ignore"}
  BY VerdictNames
<1>7. CASE v \in {"ignored", "ignore", "hold"}
  BY <1>4, <1>5, <1>7 DEF After, Reads
<1>8. CASE v = "skip"
  <2>1. After(s, c, v) = [f EXCEPT !.rest = <<>>]
    BY <1>8 DEF After, Reads
  <2> HIDE DEF f
  <2> QED BY <1>1, <1>4, <2>1
<1>9. CASE v \in {"wait", "error"}
  BY <1>1, <1>9 DEF After, Reads
<1>10. CASE v \in {"accept", "decode"}
  <2>1. After(s, c, v) \in {Opened(s, c, v), Drained(Opened(s, c, v))}
    BY <1>10 DEF After, Reads
  <2> HIDE DEF f
  <2> QED BY <1>1, <1>2, <1>3, <2>1
<1> QED BY <1>6, <1>7, <1>8, <1>9, <1>10

\* No step lets a buffer exceed its limit.
LEMMA StepBounded == TypeOK /\ BufferBounded /\ [Next]_vars => BufferBounded'
<1> SUFFICES ASSUME TypeOK, BufferBounded, [Next]_vars, NEW t \in Streams
             PROVE  Len(core'[t].buffer) <= MaxBuffer
  BY DEF BufferBounded
<1>1. /\ Len(core[t].buffer) <= MaxBuffer /\ core[t] \in CoreState(t)
      /\ MaxBuffer \in Nat /\ Len(<<>>) = 0
  BY DEF BufferBounded, TypeOK
<1>2. CASE \E s \in Streams, n \in 1 .. MaxFragment : Receive(s, n)
  <2>1. PICK s \in Streams, n \in 1 .. MaxFragment : Receive(s, n)
    BY <1>2
  <2>2. CASE Overflow(s)
    <3>1. core'[t] \in {core[t], Forgotten(core[t])}
      BY <2>2 DEF Overflow, Discard
    <3> QED BY <1>1, <3>1, ForgottenType
  <2>3. CASE ~Overflow(s)
    <3> DEFINE p == Pushed(s, n)
    <3>1. /\ sent[s] + n <= Size(s) /\ ~(Len(core[s].buffer) + n > MaxBuffer)
          /\ \E v \in Verdicts(s, p) : Process(s, p, v)
      BY <2>1, <2>3 DEF Receive
    <3>2. PICK v \in Verdicts(s, p) : Process(s, p, v)
      BY <3>1
    <3>3. PICK q \in Seq(Units(s)) : Len(q) = n /\ p.buffer = core[s].buffer \o q
      BY <3>1, PushedFields
    <3>4. p \in CoreState(s)
      BY <3>1, PushedFields
    <3> HIDE DEF p
    <3>5. Len(p.buffer) <= MaxBuffer
      <4>1. core[s].buffer \in Seq(Units(s))
        BY CoreFields DEF TypeOK
      <4>2. Len(core[s].buffer \o q) = Len(core[s].buffer) + Len(q)
        BY <4>1
      <4> QED BY <3>1, <3>3, <4>1, <4>2
    <3>6. Len(After(s, p, v).buffer) <= MaxBuffer
      BY <1>1, <3>2, <3>4, <3>5, AfterBuffer
    <3> DEFINE K == [core EXCEPT ![s] = After(s, p, v)]
    <3>7. core'[t] \in {K[t], Forgotten(K[t])}
      BY <3>2 DEF Process, Discard
    <3>8. K[t] \in CoreState(t) /\ Len(K[t].buffer) <= MaxBuffer
      BY <1>1, <3>2, <3>4, <3>6, CallType DEF TypeOK
    <3> HIDE DEF K
    <3> QED BY <1>1, <3>7, <3>8, ForgottenType
  <2> QED BY <2>2, <2>3
<1>3. CASE \E s \in Streams, how \in {"fin", "reset"} : Close(s, how)
  <2>1. core'[t] \in {core[t], Fresh}
    BY <1>3 DEF Close, TypeOK
  <2> QED BY <1>1, <2>1 DEF Fresh
<1>4. CASE Retry
  <2>1. PICK v \in Choices, R \in SUBSET pending_data_streams : Retried(R, v)
    BY <1>4 DEF Retry, RetryAll, RetryAborted
  <2>2. CASE t \in R
    <3>1. core'[t] = After(t, Rebuilt(t), v[t])
      BY <2>1, <2>2 DEF Retried
    <3>2. Rebuilt(t) \in CoreState(t) /\ Rebuilt(t).buffer = core[t].buffer
      BY <1>1, UndecodedFields DEF Rebuilt
    <3>3. v[t] \in Verdicts(t, Rebuilt(t))
      BY <2>2, ChoicesAreVerdicts
    <3> QED BY <1>1, <3>1, <3>2, <3>3, AfterBuffer
  <2>3. CASE t \notin R
    BY <1>1, <2>1, <2>3 DEF Retried
  <2> QED BY <2>2, <2>3
<1>5. CASE (\E a \in Aliases : Bind(a) \/ Unbind(a) \/ Forget(a)) \/ UNCHANGED vars
  BY <1>1, <1>5 DEF Bind, Unbind, Forget, vars
<1> QED BY <1>2, <1>3, <1>4, <1>5 DEF Next

\* No buffer grows beyond MAX_STREAM_BUFFER_BYTES (StreamBuffers.push).
THEOREM BuffersAreBounded == Spec => []BufferBounded
<1>1. Init => BufferBounded
  BY DEF Init, BufferBounded, Fresh
<1> QED BY <1>1, StepBounded, TypeCorrect, PTL DEF Spec

FewPending == IsFiniteSet(pending_data_streams) /\ PendingBounded

\* No step lets more streams be held than the limit allows.
LEMMA StepFewPending == FewPending /\ [Next]_vars => FewPending'
<1> SUFFICES ASSUME FewPending, [Next]_vars PROVE FewPending'
  OBVIOUS
<1> DEFINE P == pending_data_streams
<1>1. IsFiniteSet(P) /\ Cardinality(P) <= MaxPending /\ Cardinality(P) \in Nat
  BY FS_CardinalityType DEF FewPending, PendingBounded
<1>2. ASSUME P' \subseteq P PROVE FewPending'
  <2>1. IsFiniteSet(P') /\ Cardinality(P') <= Cardinality(P)
    BY <1>1, <1>2, FS_Subset
  <2>2. Cardinality(P') \in Nat
    BY <2>1, FS_CardinalityType
  <2> QED BY <1>1, <2>1, <2>2 DEF FewPending, PendingBounded
<1>3. ASSUME NEW s \in Streams, NEW n \in 1 .. MaxFragment, Receive(s, n)
      PROVE  FewPending'
  <2>1. CASE Overflow(s)
    BY <1>2, <2>1 DEF Overflow
  <2>2. ASSUME NEW v, Process(s, Pushed(s, n), v) PROVE FewPending'
    <3>1. P' = (P \ Discarded(s, v)) \cup (IF v = "hold" THEN {s} ELSE {})
      BY <2>2 DEF Process
    <3>2. CASE v # "hold" \/ s \in P
      BY <1>2, <3>1, <3>2
    <3>3. CASE v = "hold" /\ s \notin P /\ Cardinality(P) >= MaxPending
      <4>1. P' = {s}
        BY <3>1, <3>3 DEF Discarded, Evicted
      <4>2. IsFiniteSet({s}) /\ Cardinality({s}) = 1
        BY FS_Singleton, Zenon
      <4>3. 1 <= MaxPending
        OBVIOUS
      <4> QED BY <4>1, <4>2, <4>3 DEF FewPending, PendingBounded
    <3>4. CASE v = "hold" /\ s \notin P /\ ~(Cardinality(P) >= MaxPending)
      <4>1. P' = P \cup {s}
        BY <3>1, <3>4 DEF Discarded, Evicted
      <4>2. IsFiniteSet(P') /\ Cardinality(P') = Cardinality(P) + 1
        BY <1>1, <3>4, <4>1, FS_AddElement
      <4> QED BY <1>1, <3>4, <4>2 DEF FewPending, PendingBounded
    <3> QED BY <3>2, <3>3, <3>4
  <2> QED BY <1>3, <2>1, <2>2 DEF Receive
<1>4. CASE \E s \in Streams, how \in {"fin", "reset"} : Close(s, how)
  BY <1>2, <1>4 DEF Close
<1>5. CASE Retry
  <2>1. P' \subseteq P
    BY <1>5 DEF Retry, RetryAll, RetryAborted, Retried
  <2> QED BY <1>2, <2>1
<1>6. CASE (\E a \in Aliases : Bind(a) \/ Unbind(a) \/ Forget(a)) \/ UNCHANGED vars
  BY <1>2, <1>6 DEF Bind, Unbind, Forget, vars
<1> QED BY <1>3, <1>4, <1>5, <1>6 DEF Next

\* However many streams wait for an alias, at most MAX_PENDING_DATA_STREAMS are
\* held (hold_data_stream).
THEOREM PendingIsBounded == Spec => []PendingBounded
<1>1. Init => FewPending
  BY FS_EmptySet DEF Init, FewPending, PendingBounded
<1>2. FewPending => PendingBounded
  BY DEF FewPending
<1> QED BY <1>1, <1>2, StepFewPending, PTL DEF Spec

\* What waits for its subscription is whole, and so is what a FIN has ended.
THEOREM NothingIsMissing == Spec => []NothingMissing
<1>1. HeldComplete /\ SurvivedFinIsWhole => NothingMissing
  BY DEF NothingMissing
<1> QED BY <1>1, HeldIsComplete, FinIsWhole, PTL

\* Held streams and buffers keep to both limits of the session.
THEOREM LimitsAreKept == Spec => []LimitsKept
<1>1. PendingBounded /\ BufferBounded => LimitsKept
  BY DEF LimitsKept
<1> QED BY <1>1, PendingIsBounded, BuffersAreBounded, PTL
=============================================================================
