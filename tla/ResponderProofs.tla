---------------------------- MODULE ResponderProofs ----------------------------
(***************************************************************************)
(* Proofs about Responder, for any number of requests, updates and         *)
(* handlers at a time.                                                     *)
(***************************************************************************)
EXTENDS Responder, SequenceTheorems, TLAPS

USE ResponderAssumption DEF ResponderAssumption

-----------------------------------------------------------------------------
(* The inductive invariant.                                                *)

Messages == [what: {"ok", "error", "done"}, of: Requests \X Int, fin: BOOLEAN]

States == [request: Requests \cup {Nothing}, todo: Seq(Int),
           at: {"idle", "callback", "writing"}, fin: BOOLEAN]

Types ==
  /\ core \in [Requests -> {"none", "pending", "ok", "over"}]
  /\ arrived \in [Requests -> Nat]
  /\ ended \subseteq Requests
  /\ streams \in [Requests -> Requests \cup {Plain, Nothing}]
  /\ handler \in [Handlers -> States]
  /\ wire \in [Requests -> Seq(Messages)]
  /\ finishing \subseteq Requests
  /\ dropped \subseteq Requests /\ late \subseteq Requests

\* A stream is entered for its own request; without a Request ID only before the
\* request has arrived or after a message that was too late.
EntryInv ==
  \A r \in Requests : \/ streams[r] \in {r, Nothing}
                      \/ streams[r] = Plain /\ (arrived[r] = 0 \/ r \in late)

\* Of a request that has not arrived there is nothing.
FreshInv == \A r \in Requests : arrived[r] = 0 => core[r] = "none" /\ wire[r] = <<>>

\* A handler that is not idle has a request and messages of it; the session ends a
\* request before its last message is written.
WriterInv ==
  /\ \A r \in finishing : core[r] = "over"
  /\ \A h \in Handlers :
       handler[h].at # "idle" =>
         /\ handler[h].request \in Requests /\ handler[h].todo # <<>>
         /\ handler[h].at = "callback" => ~handler[h].fin
         /\ handler[h].at = "writing" /\ handler[h].fin => core[handler[h].request] = "over"

\* As long as the session waits for answers the stream has its entry.
OpenInv == \A r \in Requests : core[r] \in {"pending", "ok"} => streams[r] = r

\* An ended stream has none.
EndedInv == \A r \in ended : streams[r] = Nothing

\* The message n of the stream of r is the last, and it is being written.
Finishing(r) ==
  \/ r \in finishing
  \/ \E h \in Handlers : /\ handler[h].at = "writing" /\ handler[h].request = r
                         /\ handler[h].fin

\* Whoever writes the last message takes the entry away after it.
FinInv ==
  \A r \in Requests :
    (\E i \in DOMAIN wire[r] : wire[r][i].fin) =>
      Finishing(r) \/ streams[r] = Nothing \/ r \in late \cup dropped

IInv == Types /\ EntryInv /\ FreshInv /\ WriterInv /\ OpenInv /\ EndedInv /\ FinInv

\* The invariant gives the property.
LEMMA InvStreamsAgree == IInv => StreamsAgree
<1> SUFFICES ASSUME IInv, NEW r \in Requests
             PROVE  /\ core[r] \in {"pending", "ok"} => StreamsOf(r) = {r}
                    /\ r \in ended => streams[r] = Nothing
                    /\ FinWritten(r) => streams[r] = Nothing \/ r \in late \cup dropped
  BY DEF StreamsAgree
<1>1. core[r] \in {"pending", "ok"} => StreamsOf(r) = {r}
  BY DEF IInv, OpenInv, EntryInv, StreamsOf
<1>2. r \in ended => streams[r] = Nothing
  BY DEF IInv, EndedInv
<1>3. FinWritten(r) => ~Finishing(r)
  BY DEF FinWritten, Finishing, Busy
<1>4. FinWritten(r) => streams[r] = Nothing \/ r \in late \cup dropped
  BY <1>3 DEF FinWritten, IInv, FinInv
<1> QED BY <1>1, <1>2, <1>4

LEMMA InitInv == Init => IInv
<1> SUFFICES ASSUME Init PROVE IInv
  OBVIOUS
<1>1. /\ \A r \in Requests : /\ core[r] = "none" /\ arrived[r] = 0 /\ streams[r] = Nothing
                             /\ wire[r] = <<>>
      /\ \A h \in Handlers : handler[h] = Idle
      /\ ended = {} /\ finishing = {} /\ dropped = {} /\ late = {}
  BY DEF Init
<1>2. Idle \in States /\ Idle.at = "idle" /\ <<>> \in Seq(Messages)
  BY DEF Idle, States
<1>3. Types
  BY <1>2 DEF Init, Types
<1>4. EntryInv /\ FreshInv /\ WriterInv /\ OpenInv /\ EndedInv
  BY <1>1, <1>2 DEF EntryInv, FreshInv, WriterInv, OpenInv, EndedInv
<1>5. FinInv
  <2>1. DOMAIN <<>> = {}
    OBVIOUS
  <2> QED BY <1>1, <2>1 DEF FinInv
<1> QED BY <1>3, <1>4, <1>5 DEF IInv

-----------------------------------------------------------------------------
(* What the steps do, in general.                                          *)

LEMMA MessageType ==
  ASSUME NEW what \in {"ok", "error", "done"}, NEW r \in Requests, NEW n \in Int,
         NEW fin \in BOOLEAN
  PROVE  Message(what, r, n, fin) \in Messages /\ Message(what, r, n, fin).fin = fin
BY DEF Message, Messages

\* A message at the end of a stream.
LEMMA Appended ==
  ASSUME NEW q \in Seq(Messages), NEW m \in Messages
  PROVE  /\ Append(q, m) \in Seq(Messages) /\ Append(q, m) # <<>>
         /\ (\E i \in DOMAIN Append(q, m) : Append(q, m)[i].fin) =>
              m.fin \/ \E i \in DOMAIN q : q[i].fin
<1>1. /\ Append(q, m) \in Seq(Messages) /\ Len(Append(q, m)) = Len(q) + 1
      /\ \A i \in 1 .. Len(q) : Append(q, m)[i] = q[i]
      /\ Append(q, m)[Len(q) + 1] = m
  OBVIOUS
<1>2. DOMAIN Append(q, m) = 1 .. Len(q) + 1 /\ DOMAIN q = 1 .. Len(q) /\ Len(q) \in Nat
  BY <1>1
<1>3. \A i \in 1 .. Len(q) + 1 : i = Len(q) + 1 \/ i \in 1 .. Len(q)
  BY <1>2
<1>4. Append(q, m) # <<>>
  BY <1>2
<1> QED BY <1>1, <1>2, <1>3, <1>4

Writes(h, r) ==
  handler[h].at = "writing" /\ handler[h].request = r /\ handler[h].fin

\* A step that concerns the request r alone.
StepOf(r) ==
  \A s \in Requests \ {r} :
    /\ core'[s] = core[s] /\ arrived'[s] = arrived[s] /\ streams'[s] = streams[s]
    /\ wire'[s] = wire[s]
    /\ (s \in ended') <=> (s \in ended)
    /\ (s \in finishing') <=> (s \in finishing)
    /\ s \in dropped => s \in dropped'
    /\ s \in late => s \in late'
    /\ \A h \in Handlers : Writes(h, s)' <=> Writes(h, s)

\* The invariant, for one request.
InvOf(r) ==
  /\ \/ streams[r] \in {r, Nothing}
     \/ streams[r] = Plain /\ (arrived[r] = 0 \/ r \in late)
  /\ arrived[r] = 0 => core[r] = "none" /\ wire[r] = <<>>
  /\ r \in finishing => core[r] = "over"
  /\ \A h \in Handlers : handler[h].at = "writing" /\ handler[h].request = r
                         /\ handler[h].fin => core[r] = "over"
  /\ core[r] \in {"pending", "ok"} => streams[r] = r
  /\ r \in ended => streams[r] = Nothing
  /\ (\E i \in DOMAIN wire[r] : wire[r][i].fin) =>
       Finishing(r) \/ streams[r] = Nothing \/ r \in late \cup dropped

HandlersKnown ==
  \A h \in Handlers :
    handler[h].at # "idle" => /\ handler[h].request \in Requests /\ handler[h].todo # <<>>
                              /\ handler[h].at = "callback" => ~handler[h].fin

LEMMA InvIsOfAll ==
  IInv <=> Types /\ HandlersKnown /\ \A r \in Requests : InvOf(r)
<1>1. IInv => Types /\ HandlersKnown /\ \A r \in Requests : InvOf(r)
  BY DEF IInv, EntryInv, FreshInv, WriterInv, OpenInv, EndedInv, FinInv, InvOf, HandlersKnown
<1>2. Types /\ HandlersKnown /\ (\A r \in Requests : InvOf(r)) => IInv
  BY DEF IInv, Types, EntryInv, FreshInv, WriterInv, OpenInv, EndedInv, FinInv, InvOf,
         HandlersKnown
<1> QED BY <1>1, <1>2

LEMMA FromStep ==
  ASSUME IInv, NEW r \in Requests, StepOf(r), Types', HandlersKnown', InvOf(r)'
  PROVE  IInv'
<1>1. ASSUME NEW s \in Requests \ {r} PROVE InvOf(s)'
  <2>1. InvOf(s)
    BY InvIsOfAll
  <2>2. /\ core'[s] = core[s] /\ arrived'[s] = arrived[s] /\ streams'[s] = streams[s]
        /\ wire'[s] = wire[s]
        /\ (s \in ended') <=> (s \in ended)
        /\ (s \in finishing') <=> (s \in finishing)
        /\ s \in dropped => s \in dropped'
        /\ s \in late => s \in late'
        /\ \A h \in Handlers : Writes(h, s)' <=> Writes(h, s)
    BY DEF StepOf
  <2>3. Finishing(s)' <=> Finishing(s)
    BY <2>2 DEF Finishing, Writes
  <2> QED BY <2>1, <2>2, <2>3 DEF InvOf, Writes
<1>2. \A s \in Requests : InvOf(s)'
  BY <1>1
<1> QED BY <1>2 DEF IInv, Types, EntryInv, FreshInv, WriterInv, OpenInv, EndedInv, FinInv,
                    InvOf, HandlersKnown

\* A step that changes one handler, of the request r before or after it.
LEMMA OneHandler ==
  ASSUME Types, NEW h \in Handlers, NEW new \in States, NEW r,
         handler' = [handler EXCEPT ![h] = new],
         handler[h].at = "writing" => handler[h].request = r,
         new.at = "writing" => new.request = r
  PROVE  /\ handler' \in [Handlers -> States] /\ handler'[h] = new
         /\ \A g \in Handlers \ {h} : handler'[g] = handler[g]
         /\ \A s \in Requests \ {r} : \A g \in Handlers : Writes(g, s)' <=> Writes(g, s)
<1>1. /\ handler' \in [Handlers -> States] /\ handler'[h] = new
      /\ \A g \in Handlers \ {h} : handler'[g] = handler[g]
  BY DEF Types
<1>2. \A s \in Requests \ {r} : \A g \in Handlers : Writes(g, s)' <=> Writes(g, s)
  BY <1>1 DEF Writes
<1> QED BY <1>1, <1>2

\* What a handler may become.
LEMMA HandlerStates ==
  ASSUME Types, NEW h \in Handlers
  PROVE  /\ Idle \in States /\ Idle.at = "idle" /\ ~Idle.fin
         /\ handler[h] \in States
         /\ \A at \in {"callback", "writing"}, fin \in BOOLEAN, r \in Requests, q \in Seq(Int) :
              [request |-> r, todo |-> q, at |-> at, fin |-> fin] \in States
BY DEF Types, Idle, States

\* The next state of a handler that goes on.
LEMMA RestState ==
  ASSUME Types, HandlersKnown, NEW h \in Handlers, handler[h].at # "idle"
  PROVE  /\ Rest(h) \in States /\ Rest(h).at \in {"idle", "callback"}
         /\ Rest(h).at # "idle" => Rest(h).request \in Requests /\ Rest(h).todo # <<>>
         /\ ~Rest(h).fin
         /\ Len(handler[h].todo) # 1 =>
              Rest(h) = [request |-> handler[h].request, todo |-> Tail(handler[h].todo),
                         at |-> "callback", fin |-> FALSE]
<1> DEFINE q == handler[h].todo
<1>1. /\ handler[h].request \in Requests /\ q \in Seq(Int) /\ q # <<>>
      /\ handler[h] = [request |-> handler[h].request, todo |-> q, at |-> handler[h].at,
                       fin |-> handler[h].fin]
  BY DEF Types, States, HandlersKnown
<1>2. CASE Len(q) = 1
  BY <1>2, HandlerStates DEF Rest
<1>3. CASE Len(q) # 1
  <2>1. Tail(q) \in Seq(Int) /\ Len(Tail(q)) = Len(q) - 1 /\ Len(q) \in Nat \ {0}
    <3> HIDE DEF q
    <3> QED BY <1>1, EmptySeq, HeadTailProperties
  <2>2. Tail(q) # <<>>
    <3>1. Len(<<>>) = 0 /\ Len(Tail(q)) # 0
      BY <1>3, <2>1
    <3> HIDE DEF q
    <3> QED BY <3>1
  <2>3. Rest(h) = [request |-> handler[h].request, todo |-> Tail(q), at |-> "callback",
                   fin |-> FALSE]
    BY <1>1, <1>3 DEF Rest
  <2>4. Rest(h) \in States
    <3> HIDE DEF q
    <3> QED BY <1>1, <2>1, <2>3, HandlerStates
  <2> QED BY <1>1, <2>2, <2>3, <2>4
<1> QED BY <1>2, <1>3

-----------------------------------------------------------------------------
(* Receiving.                                                              *)

\* What holds of one request, spelt out for a step.
LEMMA Known ==
  ASSUME IInv
  PROVE  /\ Types /\ HandlersKnown
         /\ \A r \in Requests : InvOf(r)
BY InvIsOfAll

\* A handler of r that is not writing, whatever it does next but write the last message.
LEMMA QuietHandler ==
  ASSUME Types, HandlersKnown, NEW h \in Handlers, NEW new \in States, NEW r \in Requests,
         handler' = [handler EXCEPT ![h] = new],
         handler[h].at # "writing",
         new.at # "idle" => new.request = r /\ new.todo # <<>>,
         ~new.fin
  PROVE  /\ handler' \in [Handlers -> States] /\ HandlersKnown'
         /\ \A s \in Requests : \A g \in Handlers : Writes(g, s)' <=> Writes(g, s)
<1>1. /\ handler' \in [Handlers -> States] /\ handler'[h] = new
      /\ \A g \in Handlers \ {h} : handler'[g] = handler[g]
  BY DEF Types
<1>2. HandlersKnown'
  BY <1>1 DEF HandlersKnown
<1>3. \A s \in Requests : \A g \in Handlers : Writes(g, s)' <=> Writes(g, s)
  BY <1>1 DEF Writes, States
<1> QED BY <1>1, <1>2, <1>3

LEMMA StreamOpensInv ==
  ASSUME IInv, NEW r \in Requests, StreamOpens(r)
  PROVE  IInv'
<1>1. /\ streams[r] = Nothing /\ arrived[r] = 0 /\ r \notin ended
      /\ streams' = [streams EXCEPT ![r] = Plain]
      /\ UNCHANGED <<core, arrived, ended, handler, finishing, wire, dropped, late>>
  BY DEF StreamOpens, observers
<1>2. Types' /\ HandlersKnown'
  BY <1>1, Known DEF Types, HandlersKnown
<1>3. streams'[r] = Plain /\ \A s \in Requests \ {r} : streams'[s] = streams[s]
  BY <1>1, Known DEF Types
<1>4. StepOf(r)
  BY <1>1, <1>3 DEF StepOf, Writes
<1>5. InvOf(r)'
  <2>1. DOMAIN <<>> = {} /\ core[r] = "none" /\ wire[r] = <<>>
    BY <1>1, Known DEF InvOf
  <2> QED BY <1>1, <1>3, <2>1, Known DEF InvOf, Finishing
<1> QED BY <1>2, <1>4, <1>5, FromStep

LEMMA RequestInv ==
  ASSUME IInv, NEW h \in Handlers, NEW r \in Requests,
         RequestGiven(h, r) \/ RequestNotHandled(h, r)
  PROVE  IInv'
<1>1. /\ handler[h] = Idle /\ handler[h].at = "idle"
      /\ arrived[r] = 0 /\ r \notin ended /\ core[r] = "none" /\ wire[r] = <<>>
      /\ arrived' = [arrived EXCEPT ![r] = 1]
      /\ streams' = [streams EXCEPT ![r] = r]
      /\ UNCHANGED <<ended, finishing, dropped, late>>
  BY Known, HandlerStates DEF RequestGiven, RequestNotHandled, Remember, observers, InvOf
<1>2. <<0>> \in Seq(Int) /\ <<0>> # <<>>
  OBVIOUS
<1>3. /\ arrived'[r] = 1 /\ streams'[r] = r
      /\ \A s \in Requests \ {r} : arrived'[s] = arrived[s] /\ streams'[s] = streams[s]
      /\ arrived' \in [Requests -> Nat]
      /\ streams' \in [Requests -> Requests \cup {Plain, Nothing}]
  BY <1>1, Known DEF Types
<1>4. CASE RequestGiven(h, r)
  <2> DEFINE new == [request |-> r, todo |-> <<0>>, at |-> "callback", fin |-> FALSE]
  <2>1. /\ core' = [core EXCEPT ![r] = "pending"] /\ wire' = wire
        /\ handler' = [handler EXCEPT ![h] = new]
    BY <1>4 DEF RequestGiven
  <2>2. new \in States /\ new.at = "callback" /\ new.request = r /\ new.todo = <<0>> /\ ~new.fin
    BY <1>2, Known, HandlerStates
  <2> HIDE DEF new
  <2>3. /\ handler' \in [Handlers -> States] /\ HandlersKnown'
        /\ \A s \in Requests : \A g \in Handlers : Writes(g, s)' <=> Writes(g, s)
    BY <1>1, <1>2, <2>1, <2>2, Known, QuietHandler
  <2>4. core'[r] = "pending" /\ \A s \in Requests \ {r} : core'[s] = core[s]
    BY <2>1, Known DEF Types
  <2>5. Types'
    BY <1>1, <1>3, <2>1, <2>3, Known DEF Types
  <2>6. StepOf(r)
    BY <1>1, <1>3, <2>1, <2>3, <2>4 DEF StepOf
  <2>7. InvOf(r)'
    <3>1. DOMAIN <<>> = {} /\ InvOf(r)
      BY Known
    <3>2. \A g \in Handlers : ~Writes(g, r)
      BY <1>1, <3>1 DEF InvOf, Writes
    <3>3. r \notin finishing
      BY <1>1, <3>1 DEF InvOf
    <3> QED BY <1>1, <1>3, <2>1, <2>3, <2>4, <3>1, <3>2, <3>3 DEF InvOf, Writes
  <2> QED BY <2>3, <2>5, <2>6, <2>7, FromStep
<1>5. CASE RequestNotHandled(h, r)
  <2>0. PICK fin \in BOOLEAN :
          /\ wire' = [wire EXCEPT ![r] = Append(@, Message("error", r, 0, fin))]
          /\ handler' = [handler EXCEPT ![h] =
                [request |-> r, todo |-> <<0>>, at |-> "writing", fin |-> fin]]
    BY <1>5 DEF RequestNotHandled
  <2> DEFINE new == [request |-> r, todo |-> <<0>>, at |-> "writing", fin |-> fin]
             m == Message("error", r, 0, fin)
  <2>1. /\ core' = [core EXCEPT ![r] = "over"]
        /\ handler' = [handler EXCEPT ![h] = new]
        /\ wire' = [wire EXCEPT ![r] = Append(@, m)]
    BY <1>5, <2>0 DEF RequestNotHandled
  <2>2. /\ new \in States /\ new.at = "writing" /\ new.request = r /\ new.todo = <<0>>
        /\ new.fin = fin /\ m \in Messages /\ m.fin = fin
    <3>1. m \in Messages /\ m.fin = fin
      BY MessageType
    <3>2. new \in States
      BY <1>2, Known, HandlerStates
    <3> QED BY <3>1, <3>2
  <2> HIDE DEF new, m
  <2>3. /\ handler' \in [Handlers -> States] /\ handler'[h] = new
        /\ \A g \in Handlers \ {h} : handler'[g] = handler[g]
        /\ \A s \in Requests \ {r} : \A g \in Handlers : Writes(g, s)' <=> Writes(g, s)
    BY <1>1, <2>1, <2>2, Known, OneHandler
  <2>4. HandlersKnown'
    BY <1>2, <2>2, <2>3, Known DEF HandlersKnown
  <2>5. core'[r] = "over" /\ \A s \in Requests \ {r} : core'[s] = core[s] /\ wire'[s] = wire[s]
    BY <2>1, Known DEF Types
  <2>6. /\ wire'[r] = Append(wire[r], m) /\ wire' \in [Requests -> Seq(Messages)]
        /\ wire'[r] # <<>>
        /\ (\E i \in DOMAIN wire'[r] : wire'[r][i].fin) => fin
    <3>1. wire[r] \in Seq(Messages) /\ wire'[r] = Append(wire[r], m)
      BY <2>1, Known DEF Types
    <3>2. DOMAIN <<>> = {}
      OBVIOUS
    <3> QED BY <1>1, <2>1, <2>2, <3>1, <3>2, Known, Appended DEF Types
  <2>7. Types'
    BY <1>1, <1>3, <2>1, <2>3, <2>6, Known DEF Types
  <2>8. StepOf(r)
    BY <1>1, <1>3, <2>3, <2>5 DEF StepOf
  <2>9. InvOf(r)'
    <3>1. fin => Finishing(r)'
      BY <2>2, <2>3 DEF Finishing
    <3> QED BY <1>1, <1>3, <2>5, <2>6, <3>1 DEF InvOf
  <2> QED BY <2>4, <2>7, <2>8, <2>9, FromStep
<1> QED BY <1>4, <1>5

\* A step that neither writes nor enters or removes a stream but for r.
LEMMA UpdatesInv ==
  ASSUME IInv, NEW h \in Handlers, NEW r \in Requests, NEW n \in 1 .. 2,
         UpdatesArrive(h, r, n) \/ UpdatesTooLate(h, r, n)
  PROVE  IInv'
<1> DEFINE new == [request |-> r, todo |-> Updates(r, n), at |-> "callback", fin |-> FALSE]
<1>1. Updates(r, n) \in Seq(Int) /\ Updates(r, n) # <<>> /\ arrived[r] \in Nat
  <2>1. arrived[r] \in Nat
    BY Known DEF Types
  <2>2. Updates(r, n) \in Seq(Int) /\ Len(Updates(r, n)) = n
    BY <2>1 DEF Updates
  <2>3. Len(<<>>) = 0 /\ n # 0
    OBVIOUS
  <2> QED BY <2>1, <2>2, <2>3
<1>2. new \in States /\ new.at = "callback" /\ new.request = r /\ new.todo # <<>> /\ ~new.fin
  BY <1>1, Known, HandlerStates
<1>3. /\ handler[h] = Idle /\ handler[h].at = "idle"
      /\ handler' \in {handler, [handler EXCEPT ![h] = new]}
      /\ arrived' = [arrived EXCEPT ![r] = @ + n]
      /\ UNCHANGED <<core, ended, finishing, wire, dropped>>
      /\ \/ core[r] = "ok" /\ streams' = streams /\ late' = late
         \/ /\ core[r] = "over" /\ r \notin ended /\ late' = late \cup {r}
            /\ streams' = [streams EXCEPT ![r] = IF @ = Nothing THEN Plain ELSE @]
  BY Known, HandlerStates DEF UpdatesArrive, UpdatesTooLate
<1> HIDE DEF new
<1>4. /\ handler' \in [Handlers -> States] /\ HandlersKnown'
      /\ \A s \in Requests : \A g \in Handlers : Writes(g, s)' <=> Writes(g, s)
  <2>1. CASE handler' = handler
    BY <2>1, Known DEF Types, HandlersKnown, Writes
  <2>2. CASE handler' = [handler EXCEPT ![h] = new]
    BY <1>2, <1>3, <2>2, Known, QuietHandler
  <2> QED BY <1>3, <2>1, <2>2
<1>5. /\ \A s \in Requests \ {r} : arrived'[s] = arrived[s] /\ streams'[s] = streams[s]
      /\ streams' \in [Requests -> Requests \cup {Plain, Nothing}]
      /\ arrived'[r] = arrived[r] + n /\ late' \subseteq Requests
  BY <1>3, Known DEF Types
<1>6. arrived' \in [Requests -> Nat]
  BY <1>1, <1>3, Known DEF Types
<1>7. Types'
  BY <1>3, <1>4, <1>5, <1>6, Known DEF Types
<1>8. StepOf(r)
  BY <1>3, <1>4, <1>5 DEF StepOf
<1>9. InvOf(r)'
  <2>1. arrived'[r] # 0 /\ InvOf(r) /\ (Finishing(r) => Finishing(r)')
    BY <1>1, <1>3, <1>4, <1>5, Known DEF Finishing, Writes
  <2>2. CASE core[r] = "ok" /\ streams' = streams /\ late' = late
    <3>1. streams[r] = r
      BY <2>1, <2>2 DEF InvOf
    <3> QED BY <1>3, <1>4, <2>1, <2>2, <3>1 DEF InvOf, Writes
  <2>3. CASE /\ core[r] = "over" /\ r \notin ended /\ late' = late \cup {r}
             /\ streams' = [streams EXCEPT ![r] = IF @ = Nothing THEN Plain ELSE @]
    <3>1. streams'[r] = IF streams[r] = Nothing THEN Plain ELSE streams[r]
      BY <2>3, Known DEF Types
    <3> QED BY <1>3, <1>4, <2>1, <2>3, <3>1 DEF InvOf, Writes
  <2> QED BY <1>3, <2>2, <2>3
<1> QED BY <1>4, <1>7, <1>8, <1>9, FromStep

LEMMA PeerEndsInv ==
  ASSUME IInv, NEW r \in Requests, PeerEnds(r)
  PROVE  IInv'
<1>1. /\ ended' = ended \cup {r} /\ streams' = [streams EXCEPT ![r] = Nothing]
      /\ core' = [core EXCEPT ![r] = IF streams[r] # Nothing /\ @ # "none" THEN "over" ELSE @]
      /\ UNCHANGED <<arrived, handler, finishing, wire, dropped, late>>
  BY DEF PeerEnds, observers
<1>2. /\ streams'[r] = Nothing
      /\ core'[r] = IF streams[r] # Nothing /\ core[r] # "none" THEN "over" ELSE core[r]
      /\ \A s \in Requests \ {r} : streams'[s] = streams[s] /\ core'[s] = core[s]
  BY <1>1, Known DEF Types
<1>3. Types' /\ HandlersKnown'
  BY <1>1, Known DEF Types, HandlersKnown
<1>4. StepOf(r)
  BY <1>1, <1>2 DEF StepOf, Writes
<1>5. InvOf(r)'
  <2>1. core[r] \in {"none", "pending", "ok", "over"} /\ InvOf(r)
    BY Known DEF Types
  <2>2. r # Nothing
    OBVIOUS
  <2> QED BY <1>1, <1>2, <2>1, <2>2 DEF InvOf
<1> QED BY <1>3, <1>4, <1>5, FromStep

-----------------------------------------------------------------------------
(* The handlers.                                                           *)

\* The handler goes on, or an exception leaves it, and nothing is written.
LEMMA GoesOnInv ==
  ASSUME IInv, NEW h \in Handlers, NEW new \in States, NEW r \in Requests,
         handler[h].at = "callback",
         handler' = [handler EXCEPT ![h] = new],
         new.at \in {"idle", "callback"}, ~new.fin,
         new.at # "idle" => new.request = r /\ new.todo # <<>>,
         UNCHANGED <<core, arrived, ended, streams, finishing, wire, late>>,
         dropped' \in {dropped, dropped \cup {r}}
  PROVE  IInv'
<1>1. /\ handler' \in [Handlers -> States] /\ HandlersKnown'
      /\ \A s \in Requests : \A g \in Handlers : Writes(g, s)' <=> Writes(g, s)
  BY Known, QuietHandler
<1>2. Types'
  BY <1>1, Known DEF Types
<1>3. StepOf(r)
  BY <1>1 DEF StepOf
<1>4. InvOf(r)'
  <2>1. InvOf(r) /\ (Finishing(r) => Finishing(r)')
    BY <1>1, Known DEF Finishing, Writes
  <2> QED BY <1>1, <2>1 DEF InvOf, Writes
<1> QED BY <1>1, <1>2, <1>3, <1>4, FromStep

LEMMA CallbackEndsInv ==
  ASSUME IInv, NEW h \in Handlers, CallbackEnds(h)
  PROVE  IInv'
<1> DEFINE new == Rest(h)
<1>1. /\ handler[h].at = "callback" /\ handler' = [handler EXCEPT ![h] = new]
      /\ UNCHANGED <<core, arrived, ended, streams, finishing, wire, dropped, late>>
  BY DEF CallbackEnds, observers
<1>2. /\ new \in States /\ new.at \in {"idle", "callback"} /\ ~new.fin
      /\ new.at # "idle" => new.request = handler[h].request /\ new.todo # <<>>
      /\ handler[h].request \in Requests
  <2>1. new.at # "idle" => new.request = handler[h].request
    BY Known, HandlerStates DEF Rest, Types, States
  <2> QED BY <1>1, <2>1, Known, RestState DEF HandlersKnown
<1> HIDE DEF new
<1> QED BY <1>1, <1>2, GoesOnInv

\* The answer to an update is written on the stream of the request.
LEMMA AnswerInv ==
  ASSUME IInv, NEW h \in Handlers, NEW new \in States, NEW r \in Requests,
         NEW m \in Messages,
         handler[h].at = "callback", handler[h].request = r,
         handler' = [handler EXCEPT ![h] = new],
         new.at = "writing", new.request = r, new.todo # <<>>, new.fin = m.fin,
         Answerable(r, "ok"), Write(r, m),
         core' = IF m.fin THEN [core EXCEPT ![r] = "over"] ELSE core,
         UNCHANGED <<arrived, ended, streams, finishing, dropped, late>>
  PROVE  IInv'
<1>0. m.fin \in BOOLEAN
  BY DEF Messages
<1>1. core[r] = "ok" /\ streams[r] = r /\ InvOf(r)
  BY Known DEF Answerable, InvOf
<1>2. /\ handler' \in [Handlers -> States] /\ handler'[h] = new
      /\ \A g \in Handlers \ {h} : handler'[g] = handler[g]
      /\ \A s \in Requests \ {r} : \A g \in Handlers : Writes(g, s)' <=> Writes(g, s)
  BY Known, OneHandler
<1>3. /\ core'[r] = IF m.fin THEN "over" ELSE "ok"
      /\ \A s \in Requests \ {r} : core'[s] = core[s]
      /\ core' \in [Requests -> {"none", "pending", "ok", "over"}]
  BY <1>0, <1>1, Known DEF Types
<1>4. /\ wire'[r] = Append(wire[r], m)
      /\ \A s \in Requests \ {r} : wire'[s] = wire[s]
      /\ wire' = [s \in Requests |-> IF s = r THEN Append(wire[s], m) ELSE wire[s]]
  <2>1. \A s \in Requests : s \in StreamsOf(r) <=> s = r
    BY <1>1, Known DEF StreamsOf, InvOf
  <2> QED BY <2>1 DEF Write
<1>5. /\ wire' \in [Requests -> Seq(Messages)]
      /\ (\E i \in DOMAIN wire'[r] : wire'[r][i].fin) =>
           m.fin \/ \E i \in DOMAIN wire[r] : wire[r][i].fin
  <2>1. wire \in [Requests -> Seq(Messages)] /\ wire[r] \in Seq(Messages)
    BY Known DEF Types
  <2>2. Append(wire[r], m) \in Seq(Messages)
    BY <2>1, Appended
  <2> QED BY <1>4, <2>1, <2>2, Appended
<1>6. HandlersKnown'
  BY <1>2, Known DEF HandlersKnown
<1>7. Types'
  BY <1>2, <1>3, <1>5, Known DEF Types
<1>8. StepOf(r)
  BY <1>2, <1>3, <1>4 DEF StepOf
<1>9. InvOf(r)'
  <2>1. arrived[r] # 0
    BY <1>1 DEF InvOf
  <2>2. m.fin => Finishing(r)'
    BY <1>2 DEF Finishing
  <2>3. ~Writes(h, r) /\ \A g \in Handlers \ {h} : Writes(g, r)' <=> Writes(g, r)
    BY <1>2 DEF Writes
  <2>4. Finishing(r) => Finishing(r)'
    BY <1>2, <2>3 DEF Finishing, Writes
  <2>5. \A g \in Handlers : ~Writes(g, r) /\ r \notin finishing
    BY <1>1 DEF InvOf, Writes
  <2>6. \A g \in Handlers : Writes(g, r)' => core'[r] = "over"
    BY <1>2, <1>3, <2>3, <2>5 DEF Writes
  <2> QED BY <1>0, <1>1, <1>3, <1>5, <2>1, <2>2, <2>4, <2>5, <2>6 DEF InvOf, Writes
<1> QED BY <1>6, <1>7, <1>8, <1>9, FromStep

LEMMA UpdateDecidedInv ==
  ASSUME IInv, NEW h \in Handlers, UpdateDecided(h)
  PROVE  IInv'
<1> DEFINE r == handler[h].request
           n == Head(handler[h].todo)
<1>1. /\ handler[h].at = "callback" /\ r \in Requests /\ n \in Int
      /\ handler[h].todo \in Seq(Int) /\ handler[h].todo # <<>>
      /\ handler[h] = [request |-> r, todo |-> handler[h].todo, at |-> "callback",
                       fin |-> handler[h].fin]
      /\ handler[h].fin \in BOOLEAN
  <2>1. /\ handler[h].at = "callback" /\ r \in Requests /\ handler[h].todo # <<>>
        /\ handler[h] \in States
    BY Known DEF UpdateDecided, HandlersKnown, Types
  <2>2. handler[h].todo \in Seq(Int)
    BY <2>1 DEF States
  <2>3. n \in Int
    BY <2>1, <2>2, HeadTailProperties
  <2> QED BY <2>1, <2>2, <2>3 DEF States
<1>2. UNCHANGED <<arrived, ended, streams, finishing, late>>
  BY DEF UpdateDecided
<1> DEFINE Next1(fin) == [request |-> r, todo |-> handler[h].todo, at |-> "writing", fin |-> fin]
<1>3. ASSUME NEW fin \in BOOLEAN
      PROVE  Next1(fin) \in States /\ Next1(fin).at = "writing" /\ Next1(fin).request = r
             /\ Next1(fin).todo # <<>> /\ Next1(fin).fin = fin
  BY <1>1, Known, HandlerStates
<1>4. \/ /\ Answerable(r, "ok") /\ dropped' = dropped
         /\ \/ /\ Write(r, Message("ok", r, n, FALSE)) /\ core' = core
               /\ handler' = [handler EXCEPT ![h].at = "writing"]
            \/ \E fin \in BOOLEAN :
                 /\ Write(r, Message("error", r, n, fin))
                 /\ handler' = [handler EXCEPT ![h] =
                     [request |-> r, todo |-> @.todo, at |-> "writing", fin |-> fin]]
                 /\ core' = [core EXCEPT ![r] = IF fin THEN "over" ELSE @]
      \/ Throw(h) /\ core' = core /\ wire' = wire
  BY DEF UpdateDecided
<1>5. CASE Throw(h) /\ core' = core /\ wire' = wire
  <2>1. /\ handler' = [handler EXCEPT ![h] = Idle] /\ dropped' = dropped \cup {r}
        /\ Idle \in States /\ Idle.at = "idle" /\ ~Idle.fin
    BY <1>5, Known, HandlerStates DEF Throw
  <2> QED BY <1>1, <1>2, <1>5, <2>1, GoesOnInv
<1>6. CASE /\ Answerable(r, "ok") /\ dropped' = dropped
           /\ Write(r, Message("ok", r, n, FALSE)) /\ core' = core
           /\ handler' = [handler EXCEPT ![h].at = "writing"]
  <2> DEFINE m == Message("ok", r, n, FALSE)
             new == [handler[h] EXCEPT !.at = "writing"]
  <2>1. m \in Messages /\ m.fin = FALSE
    BY <1>1, MessageType
  <2>2. /\ handler' = [handler EXCEPT ![h] = new]
        /\ new \in States /\ new.at = "writing" /\ new.request = r /\ new.todo # <<>>
    <3>1. new = [request |-> r, todo |-> handler[h].todo, at |-> "writing", fin |-> handler[h].fin]
      BY <1>1
    <3>2. new \in States
      BY <1>1, <3>1, Known, HandlerStates
    <3> QED BY <1>1, <1>6, <3>1, <3>2
  <2>3. Answerable(r, "ok") /\ Write(r, m) /\ core' = core /\ dropped' = dropped
    BY <1>6
  <2>4. new.fin = m.fin
    BY <1>1, <2>1, Known DEF HandlersKnown
  <2> HIDE DEF m, new, r, n
  <2> QED BY <1>1, <1>2, <2>1, <2>2, <2>3, <2>4, AnswerInv DEF r
<1>7. CASE /\ Answerable(r, "ok") /\ dropped' = dropped
           /\ \E fin \in BOOLEAN :
                /\ Write(r, Message("error", r, n, fin))
                /\ handler' = [handler EXCEPT ![h] =
                     [request |-> r, todo |-> @.todo, at |-> "writing", fin |-> fin]]
                /\ core' = [core EXCEPT ![r] = IF fin THEN "over" ELSE @]
  <2> PICK fin \in BOOLEAN : /\ Write(r, Message("error", r, n, fin))
                             /\ handler' = [handler EXCEPT ![h] =
                                  [request |-> r, todo |-> @.todo, at |-> "writing", fin |-> fin]]
                             /\ core' = [core EXCEPT ![r] = IF fin THEN "over" ELSE @]
    BY <1>7
  <2> DEFINE m == Message("error", r, n, fin)
             new == Next1(fin)
  <2>1. m \in Messages /\ m.fin = fin
    BY <1>1, MessageType
  <2>2. /\ handler' = [handler EXCEPT ![h] = new]
        /\ new \in States /\ new.at = "writing" /\ new.request = r /\ new.todo # <<>>
        /\ new.fin = fin
    <3>1. handler' = [handler EXCEPT ![h] = new]
      OBVIOUS
    <3>2. new \in States /\ new.at = "writing" /\ new.request = r /\ new.todo # <<>>
          /\ new.fin = fin
      BY <1>3
    <3> QED BY <3>1, <3>2
  <2>3. Answerable(r, "ok") /\ Write(r, m) /\ dropped' = dropped
    BY <1>7
  <2>4. core' = IF m.fin THEN [core EXCEPT ![r] = "over"] ELSE core
    BY <1>1, <2>1, Known DEF Types
  <2>5. handler[h].request = r /\ new.fin = m.fin
    BY <2>1, <2>2
  <2> HIDE DEF m, new, r, n
  <2> QED BY <1>1, <1>2, <2>1, <2>2, <2>3, <2>4, <2>5, AnswerInv
<1> QED BY <1>4, <1>5, <1>6, <1>7


\* The entry of r is taken away if fin, and no other.
LEMMA Unregistered ==
  ASSUME IInv, NEW r \in Requests, NEW fin \in BOOLEAN, streams' = Unregister(r, fin)
  PROVE  /\ streams' \in [Requests -> Requests \cup {Plain, Nothing}]
         /\ \A s \in Requests \ {r} : streams'[s] = streams[s]
         /\ streams'[r] = IF fin /\ streams[r] = r THEN Nothing ELSE streams[r]
<1>1. \A s \in Requests : streams'[s] = IF fin /\ s \in StreamsOf(r) THEN Nothing ELSE streams[s]
  BY DEF Unregister
<1>2. \A s \in Requests : s \in StreamsOf(r) <=> s = r /\ streams[r] = r
  BY Known DEF StreamsOf, InvOf
<1>3. streams' \in [Requests -> Requests \cup {Plain, Nothing}]
  BY Known DEF Unregister, Types
<1> QED BY <1>1, <1>2, <1>3

\* When the last message of r has been written, the entry is gone or the request late.
LEMMA EntryGone ==
  ASSUME IInv, NEW r \in Requests, streams'[r] = IF streams[r] = r THEN Nothing ELSE streams[r],
         \E i \in DOMAIN wire[r] : wire[r][i].fin
  PROVE  streams'[r] = Nothing \/ r \in late
<1>1. DOMAIN <<>> = {}
  OBVIOUS
<1>2. wire[r] # <<>>
  BY <1>1
<1> QED BY <1>2, Known DEF InvOf

\* A write of a handler is over, and took the entry away if it was to; or it failed.
LEMMA WriteOverInv ==
  ASSUME IInv, NEW h \in Handlers, NEW new \in States, NEW r \in Requests, NEW fin \in BOOLEAN,
         handler[h].at = "writing", handler[h].request = r, handler[h].fin <=> fin,
         handler' = [handler EXCEPT ![h] = new],
         new.at \in {"idle", "callback"}, ~new.fin,
         new.at # "idle" => new.request = r /\ new.todo # <<>>,
         UNCHANGED <<core, arrived, ended, finishing, wire, late>>,
         \/ streams' = Unregister(r, fin) /\ dropped' = dropped
         \/ streams' = streams /\ dropped' = dropped \cup {r}
  PROVE  IInv'
<1>1. /\ handler' \in [Handlers -> States] /\ handler'[h] = new
      /\ \A g \in Handlers \ {h} : handler'[g] = handler[g]
      /\ \A s \in Requests \ {r} : \A g \in Handlers : Writes(g, s)' <=> Writes(g, s)
  BY Known, OneHandler
<1>2. HandlersKnown'
  BY <1>1, Known DEF HandlersKnown
<1>3. /\ streams' \in [Requests -> Requests \cup {Plain, Nothing}]
      /\ \A s \in Requests \ {r} : streams'[s] = streams[s]
      /\ \/ dropped' = dropped
            /\ streams'[r] = IF fin /\ streams[r] = r THEN Nothing ELSE streams[r]
         \/ streams'[r] = streams[r] /\ dropped' = dropped \cup {r}
  BY Unregistered, Known DEF Types
<1>4. Types'
  BY <1>1, <1>3, Known DEF Types
<1>5. StepOf(r)
  BY <1>1, <1>3 DEF StepOf
<1>6. InvOf(r)'
  <2>1. InvOf(r) /\ ~Writes(h, r)' /\ \A g \in Handlers \ {h} : Writes(g, r)' <=> Writes(g, r)
    BY <1>1, Known DEF Writes
  <2>2. /\ Writes(h, r) <=> fin
        /\ fin => core[r] = "over"
    BY Known DEF InvOf, Writes
  <2>3. \A g \in Handlers : Writes(g, r)' => core'[r] = "over"
    BY <2>1 DEF InvOf, Writes
  <2>4. Finishing(r) => Finishing(r)' \/ fin
    BY <1>1, <2>1, <2>2 DEF Finishing, Writes
  <2>5. (\E i \in DOMAIN wire[r] : wire[r][i].fin) =>
          Finishing(r)' \/ streams'[r] = Nothing \/ r \in late \cup dropped'
    <3>1. fin /\ (\E i \in DOMAIN wire[r] : wire[r][i].fin) /\ r \notin dropped' =>
            streams'[r] = Nothing \/ r \in late
      BY <1>3, EntryGone
    <3> QED BY <1>3, <2>1, <2>4, <3>1 DEF InvOf
  <2> QED BY <1>3, <2>1, <2>2, <2>3, <2>5 DEF InvOf, Writes
<1> QED BY <1>2, <1>4, <1>5, <1>6, FromStep

LEMMA WrittenInv ==
  ASSUME IInv, NEW h \in Handlers, Written(h) \/ WriteFails(h)
  PROVE  IInv'
<1> DEFINE r == handler[h].request
           fin == handler[h].fin
<1>1. handler[h].at = "writing" /\ r \in Requests /\ fin \in BOOLEAN
  BY Known DEF Written, WriteFails, HandlersKnown, Types, States
<1>2. CASE Written(h)
  <2> DEFINE new == Rest(h)
  <2>1. /\ handler' = [handler EXCEPT ![h] = new] /\ streams' = Unregister(r, fin)
        /\ UNCHANGED <<core, arrived, ended, finishing, wire, dropped, late>>
    BY <1>2 DEF Written, observers
  <2>2. /\ new \in States /\ new.at \in {"idle", "callback"} /\ ~new.fin
        /\ new.at # "idle" => new.request = r /\ new.todo # <<>>
    <3>1. new.at # "idle" => new.request = r
      BY Known, HandlerStates DEF Rest, Types, States
    <3> QED BY <1>1, <3>1, Known, RestState
  <2>3. handler[h].request = r /\ (handler[h].fin <=> fin)
    OBVIOUS
  <2> HIDE DEF new, r, fin
  <2> QED BY <1>1, <2>1, <2>2, <2>3, WriteOverInv
<1>3. CASE WriteFails(h)
  <2>1. /\ handler' = [handler EXCEPT ![h] = Idle] /\ dropped' = dropped \cup {r}
        /\ UNCHANGED <<core, arrived, ended, streams, finishing, wire, late>>
        /\ Idle \in States /\ Idle.at = "idle" /\ ~Idle.fin
    BY <1>3, Known, HandlerStates DEF WriteFails, Throw
  <2>2. handler[h].request = r /\ (handler[h].fin <=> fin)
    OBVIOUS
  <2> HIDE DEF r, fin
  <2> QED BY <1>1, <2>1, <2>2, WriteOverInv
<1> QED BY <1>2, <1>3

-----------------------------------------------------------------------------
(* The application.                                                        *)

\* A message of the application: the session takes it, and the stream is there.
LEMMA AppWritesInv ==
  ASSUME IInv, NEW r \in Requests, NEW m \in Messages, NEW state \in {"ok", "over"},
         core[r] \in {"pending", "ok"}, Write(r, m),
         core' = [core EXCEPT ![r] = state],
         finishing' = IF m.fin THEN finishing \cup {r} ELSE finishing,
         m.fin => state = "over",
         UNCHANGED <<arrived, ended, streams, handler, dropped, late>>
  PROVE  IInv'
<1>0. m.fin \in BOOLEAN
  BY DEF Messages
<1>1. streams[r] = r /\ InvOf(r) /\ arrived[r] # 0
  BY Known DEF InvOf
<1>2. /\ core'[r] = state
      /\ \A s \in Requests \ {r} : core'[s] = core[s]
      /\ core' \in [Requests -> {"none", "pending", "ok", "over"}]
  BY Known DEF Types
<1>3. /\ wire'[r] = Append(wire[r], m)
      /\ \A s \in Requests \ {r} : wire'[s] = wire[s]
      /\ wire' = [s \in Requests |-> IF s = r THEN Append(wire[s], m) ELSE wire[s]]
  <2>1. \A s \in Requests : s \in StreamsOf(r) <=> s = r
    BY <1>1, Known DEF StreamsOf, InvOf
  <2> QED BY <2>1 DEF Write
<1>4. /\ wire' \in [Requests -> Seq(Messages)]
      /\ (\E i \in DOMAIN wire'[r] : wire'[r][i].fin) =>
           m.fin \/ \E i \in DOMAIN wire[r] : wire[r][i].fin
  <2>1. wire \in [Requests -> Seq(Messages)] /\ wire[r] \in Seq(Messages)
    BY Known DEF Types
  <2>2. Append(wire[r], m) \in Seq(Messages)
    BY <2>1, Appended
  <2> QED BY <1>3, <2>1, <2>2, Appended
<1>5. Types' /\ HandlersKnown'
  BY <1>0, <1>2, <1>4, Known DEF Types, HandlersKnown
<1>6. StepOf(r)
  BY <1>0, <1>2, <1>3 DEF StepOf, Writes
<1>7. InvOf(r)'
  <2>1. m.fin => Finishing(r)'
    BY DEF Finishing
  <2>2. Finishing(r) => Finishing(r)'
    BY <1>0 DEF Finishing
  <2>3. \A g \in Handlers : ~Writes(g, r)
    BY <1>1 DEF InvOf, Writes
  <2>4. r \in finishing' => core'[r] = "over"
    BY <1>0, <1>1, <1>2 DEF InvOf
  <2> QED BY <1>0, <1>1, <1>2, <1>4, <2>1, <2>2, <2>3, <2>4 DEF InvOf, Writes
<1> QED BY <1>5, <1>6, <1>7, FromStep

\* A step of the application that changes nothing but app.
LEMMA AppOnlyInv ==
  ASSUME IInv,
         UNCHANGED <<core, arrived, ended, streams, handler, finishing, wire, dropped, late>>
  PROVE  IInv'
BY Known DEF IInv, Types, EntryInv, FreshInv, WriterInv, OpenInv, EndedInv, FinInv, Finishing

LEMMA AcceptInv ==
  ASSUME IInv, NEW r \in Requests, Accept(r)
  PROVE  IInv'
<1>1. CASE /\ Answerable(r, "pending") /\ Write(r, Message("ok", r, 0, FALSE))
           /\ core' = [core EXCEPT ![r] = "ok"]
  <2> DEFINE m == Message("ok", r, 0, FALSE)
  <2>1. m \in Messages /\ m.fin = FALSE
    BY DEF Message, Messages
  <2>2. /\ core[r] = "pending" /\ Write(r, m)
        /\ UNCHANGED <<arrived, ended, streams, handler, finishing, dropped, late>>
    BY <1>1 DEF Accept, Answerable, observers
  <2> HIDE DEF m
  <2> QED BY <1>1, <2>1, <2>2, AppWritesInv
<1>2. CASE ~Answerable(r, "pending") /\ core' = core /\ wire' = wire
  BY <1>2, AppOnlyInv DEF Accept, observers
<1> QED BY <1>1, <1>2 DEF Accept

LEMMA EndInv ==
  ASSUME IInv, NEW r \in Requests, Reject(r) \/ Close(r)
  PROVE  IInv'
<1>1. PICK what \in {"error", "done"}, fin \in BOOLEAN :
        /\ core[r] = IF what = "done" THEN "ok" ELSE "pending"
        /\ core' = [core EXCEPT ![r] = "over"]
        /\ Write(r, Message(what, r, 0, fin))
        /\ finishing' = IF fin THEN finishing \cup {r} ELSE finishing
        /\ UNCHANGED <<arrived, ended, streams, handler, dropped, late>>
  BY DEF Reject, Close, End, observers
<1> DEFINE m == Message(what, r, 0, fin)
<1>2. m \in Messages /\ m.fin = fin
  BY MessageType
<1>3. Write(r, m) /\ core[r] \in {"pending", "ok"}
  BY <1>1
<1> HIDE DEF m
<1> QED BY <1>1, <1>2, <1>3, AppWritesInv

LEMMA FinishedInv ==
  ASSUME IInv, NEW r \in Requests, Finished(r)
  PROVE  IInv'
<1>1. /\ r \in finishing /\ finishing' = finishing \ {r}
      /\ UNCHANGED <<core, arrived, ended, handler, wire, late>>
      /\ \/ streams' = Unregister(r, TRUE) /\ dropped' = dropped
         \/ streams' = streams /\ dropped' = dropped \cup {r}
  BY DEF Finished
<1>2. /\ streams' \in [Requests -> Requests \cup {Plain, Nothing}]
      /\ \A s \in Requests \ {r} : streams'[s] = streams[s]
      /\ \/ dropped' = dropped
            /\ streams'[r] = IF streams[r] = r THEN Nothing ELSE streams[r]
         \/ streams'[r] = streams[r] /\ dropped' = dropped \cup {r}
  BY <1>1, Unregistered, Known DEF Types
<1>3. Types' /\ HandlersKnown'
  BY <1>1, <1>2, Known DEF Types, HandlersKnown
<1>4. StepOf(r)
  BY <1>1, <1>2 DEF StepOf, Writes
<1>5. InvOf(r)'
  <2>1. InvOf(r) /\ core[r] = "over"
    BY <1>1, Known DEF InvOf
  <2>2. (\E i \in DOMAIN wire[r] : wire[r][i].fin) =>
          streams'[r] = Nothing \/ r \in late \cup dropped'
    BY <1>1, <1>2, EntryGone
  <2> QED BY <1>1, <1>2, <2>1, <2>2 DEF InvOf
<1> QED BY <1>3, <1>4, <1>5, FromStep

LEMMA NextInv ==
  ASSUME IInv, [Next]_vars
  PROVE  IInv'
<1>1. CASE UNCHANGED vars
  BY <1>1, AppOnlyInv DEF vars, observers
<1>2. ASSUME NEW r \in Requests, FetchStreamOpened(r) PROVE IInv'
  BY <1>2, AppOnlyInv DEF FetchStreamOpened, observers
<1> QED BY <1>1, <1>2, StreamOpensInv, PeerEndsInv, AcceptInv, EndInv, FinishedInv,
           CallbackEndsInv, UpdateDecidedInv, WrittenInv, RequestInv, UpdatesInv DEF Next

-----------------------------------------------------------------------------
(* The order of the answers: a second invariant, on top of the first.      *)

\* The types that IInv leaves out.
OtherTypes ==
  /\ app \in [Requests -> {"none", "given", "silent", "opening", "accepted", "serving",
                           "rejected", "closed", "raised"}]
  /\ crossed \subseteq Requests
  /\ \A r \in Requests : arrived[r] <= Most[r] + 1

\* A handler is idle, or has messages that have arrived: the request alone or updates.
HandlerInv(h) ==
  \/ handler[h] = Idle
  \/ /\ handler[h].request \in Requests /\ handler[h].at \in {"callback", "writing"}
     /\ handler[h].todo # <<>>
     /\ \A i \in DOMAIN handler[h].todo :
          handler[h].todo[i] \in 0..(arrived[handler[h].request] - 1)
     /\ \A i \in DOMAIN handler[h].todo :
          handler[h].todo[i] = 0 => Len(handler[h].todo) = 1

UpdatesAt(h, r) == handler[h].request = r /\ handler[h].todo[1] # 0

\* The FIN and PUBLISH_DONE are last, and the session waits for nothing after them.
LastInv(r) ==
  \A i \in DOMAIN wire[r] :
    wire[r][i].fin \/ wire[r][i].what = "done" => core[r] = "over" /\ i = Len(wire[r])

NumberInv(r) ==
  \A i \in DOMAIN wire[r] : wire[r][i].what # "done" => wire[r][i].of = <<r, i - 1>>

\* A handler with updates of r has the last that arrived, and what is on the stream is
\* the answers to those before its first, which it may be writing.
PlaceInv(h, r) ==
  /\ \A i \in DOMAIN handler[h].todo :
       handler[h].todo[i] = arrived[r] - Len(handler[h].todo) + i - 1
  /\ Len(wire[r]) = arrived[r] - Len(handler[h].todo)
                    + (IF handler[h].at = "writing" THEN 1 ELSE 0)

\* A request that is accepted: one handler has its updates, or all are answered.
AcceptedInv(r) ==
  /\ \A h \in Handlers : UpdatesAt(h, r) => PlaceInv(h, r)
  /\ \A g, h \in Handlers : UpdatesAt(g, r) /\ UpdatesAt(h, r) => g = h
  /\ (\A h \in Handlers : ~UpdatesAt(h, r)) => Len(wire[r]) = arrived[r]

OrderOf(r) ==
  /\ LastInv(r)
  /\ core[r] = "pending" => arrived[r] = 1 /\ wire[r] = <<>>
  /\ r \notin crossed \cup dropped =>
       NumberInv(r) /\ (core[r] = "ok" => AcceptedInv(r))

OrderInv ==
  /\ OtherTypes
  /\ \A h \in Handlers : HandlerInv(h)
  /\ \A r \in Requests : OrderOf(r)

LEMMA OrderTypeOK == IInv /\ OrderInv => TypeOK
<1> SUFFICES ASSUME IInv, OrderInv PROVE TypeOK
  OBVIOUS
<1>1. Types /\ OtherTypes
  BY DEF IInv, OrderInv
<1>2. ASSUME NEW r \in Requests PROVE arrived[r] \in 0..(Most[r] + 1)
  <2>1. arrived[r] \in Nat /\ Most[r] \in Nat /\ arrived[r] <= Most[r] + 1
    BY <1>1 DEF Types, OtherTypes
  <2> QED BY <2>1
<1>3. \A h \in Handlers :
       \/ handler[h] = Idle
       \/ /\ handler[h].request \in Requests
          /\ handler[h].at \in {"callback", "writing"} /\ handler[h].fin \in BOOLEAN
          /\ handler[h].todo # <<>>
          /\ \A i \in DOMAIN handler[h].todo :
               handler[h].todo[i] \in 0..(arrived[handler[h].request] - 1)
  BY <1>1 DEF OrderInv, HandlerInv, Types, States
<1> QED BY <1>1, <1>2, <1>3 DEF TypeOK, Types, OtherTypes

LEMMA OrderAnswers == IInv /\ OrderInv => AnswersInOrder
<1> SUFFICES ASSUME IInv, OrderInv, NEW r \in Requests
             PROVE  /\ \A i \in 1..(Len(wire[r]) - 1) : ~wire[r][i].fin /\ wire[r][i].what # "done"
                    /\ r \notin crossed \cup dropped =>
                         \A i \in DOMAIN wire[r] :
                           wire[r][i].what # "done" => wire[r][i].of = <<r, i - 1>>
  BY DEF AnswersInOrder
<1>1. OrderOf(r) /\ wire[r] \in Seq(Messages)
  BY Known DEF OrderInv, Types
<1>2. DOMAIN wire[r] = 1..Len(wire[r]) /\ Len(wire[r]) \in Nat
  BY <1>1
<1>3. \A i \in 1..(Len(wire[r]) - 1) : i \in DOMAIN wire[r] /\ i # Len(wire[r])
  BY <1>2
<1> QED BY <1>1, <1>3 DEF OrderOf, LastInv, NumberInv

LEMMA InitOrder == Init => OrderInv
<1> SUFFICES ASSUME Init PROVE OrderInv
  OBVIOUS
<1>1. /\ \A r \in Requests : core[r] = "none" /\ arrived[r] = 0 /\ wire[r] = <<>>
      /\ \A h \in Handlers : handler[h] = Idle
      /\ DOMAIN <<>> = {}
  BY DEF Init
<1>2. OtherTypes
  BY DEF Init, OtherTypes
<1>3. \A r \in Requests : OrderOf(r)
  BY <1>1 DEF OrderOf, LastInv, NumberInv
<1> QED BY <1>1, <1>2, <1>3 DEF OrderInv, HandlerInv

-----------------------------------------------------------------------------
(* What a step leaves as it is.                                            *)

\* A step does nothing to the order of the answers to s.
Same(s) ==
  /\ core'[s] = core[s] /\ arrived'[s] = arrived[s] /\ wire'[s] = wire[s]
  /\ (s \in crossed') <=> (s \in crossed)
  /\ s \in dropped => s \in dropped'
  /\ \A h \in Handlers : \/ handler'[h] = handler[h]
                         \/ ~UpdatesAt(h, s) /\ ~UpdatesAt(h, s)'

LEMMA SameOrder ==
  ASSUME NEW s \in Requests, OrderOf(s), Same(s)
  PROVE  OrderOf(s)'
<1>1. \A h \in Handlers : UpdatesAt(h, s)' <=> UpdatesAt(h, s)
  BY DEF Same, UpdatesAt
<1>2. \A h \in Handlers : UpdatesAt(h, s) => handler'[h] = handler[h]
  BY DEF Same
<1>3. AcceptedInv(s) => AcceptedInv(s)'
  <2> SUFFICES ASSUME AcceptedInv(s) PROVE AcceptedInv(s)'
    OBVIOUS
  <2>1. \A h \in Handlers : UpdatesAt(h, s)' => PlaceInv(h, s)'
    <3> SUFFICES ASSUME NEW h \in Handlers, UpdatesAt(h, s) PROVE PlaceInv(h, s)'
      BY <1>1
    <3>1. /\ handler'[h] = handler[h] /\ arrived'[s] = arrived[s] /\ wire'[s] = wire[s]
          /\ PlaceInv(h, s)
      BY <1>2 DEF Same, AcceptedInv
    <3> QED BY <3>1 DEF PlaceInv
  <2>2. (\A h \in Handlers : ~UpdatesAt(h, s)') => Len(wire'[s]) = arrived'[s]
    BY <1>1 DEF Same, AcceptedInv
  <2> QED BY <1>1, <2>1, <2>2 DEF AcceptedInv
<1>4. LastInv(s) => LastInv(s)'
  BY DEF LastInv, Same
<1>5. NumberInv(s) => NumberInv(s)'
  BY DEF NumberInv, Same
<1>6. (s \notin crossed \cup dropped)' => s \notin crossed \cup dropped
  BY DEF Same
<1> QED BY <1>3, <1>4, <1>5, <1>6 DEF OrderOf, Same

LEMMA OrderStep ==
  ASSUME IInv, OrderInv, NEW r \in Requests,
         \A s \in Requests \ {r} : Same(s),
         OtherTypes', \A h \in Handlers : HandlerInv(h)', OrderOf(r)'
  PROVE  OrderInv'
<1>1. \A s \in Requests \ {r} : OrderOf(s)'
  BY SameOrder DEF OrderInv
<1> QED BY <1>1 DEF OrderInv

\* The handlers, in a step that changes one of them at most.
LEMMA HandlersStep ==
  ASSUME OrderInv, NEW h \in Handlers, HandlerInv(h)',
         \A g \in Handlers \ {h} : handler'[g] = handler[g],
         arrived \in [Requests -> Nat], arrived' \in [Requests -> Nat],
         \A r \in Requests : arrived[r] <= arrived'[r]
  PROVE  \A g \in Handlers : HandlerInv(g)'
<1> SUFFICES ASSUME NEW g \in Handlers \ {h} PROVE HandlerInv(g)'
  OBVIOUS
<1>1. HandlerInv(g) /\ handler'[g] = handler[g]
  BY DEF OrderInv
<1>2. CASE handler[g] = Idle
  BY <1>1, <1>2 DEF HandlerInv
<1>3. CASE handler[g] # Idle
  <2> DEFINE q == handler[g].todo
             r == handler[g].request
  <2>1. /\ r \in Requests /\ handler[g].at \in {"callback", "writing"} /\ q # <<>>
        /\ \A i \in DOMAIN q : q[i] \in 0..(arrived[r] - 1)
        /\ \A i \in DOMAIN q : q[i] = 0 => Len(q) = 1
    BY <1>1, <1>3 DEF HandlerInv
  <2>2. arrived[r] \in Nat /\ arrived'[r] \in Nat /\ arrived[r] <= arrived'[r]
    BY <2>1
  <2>3. \A i \in DOMAIN q : q[i] \in 0..(arrived'[r] - 1)
    BY <2>1, <2>2
  <2> QED BY <1>1, <2>1, <2>3 DEF HandlerInv
<1> QED BY <1>2, <1>3

\* A message on the stream of a request that is not over.
LEMMA AppendedOrder ==
  ASSUME NEW r \in Requests, wire[r] \in Seq(Messages), NEW m \in Messages,
         wire'[r] = Append(wire[r], m), LastInv(r), core[r] # "over",
         m.fin \/ m.what = "done" => core'[r] = "over"
  PROVE  /\ LastInv(r)' /\ Len(wire'[r]) = Len(wire[r]) + 1
         /\ NumberInv(r) /\ (m.what # "done" => m.of = <<r, Len(wire[r])>>) => NumberInv(r)'
<1> DEFINE q == wire[r]
           k == Len(wire[r])
<1>1. /\ k \in Nat /\ DOMAIN q = 1..k /\ DOMAIN wire'[r] = 1..(k + 1) /\ Len(wire'[r]) = k + 1
      /\ \A i \in 1..k : wire'[r][i] = q[i]
      /\ wire'[r][k + 1] = m
  OBVIOUS
<1>2. \A i \in 1..(k + 1) : i \in 1..k \/ i = k + 1
  BY <1>1
<1>3. \A i \in 1..k : ~q[i].fin /\ q[i].what # "done"
  BY <1>1 DEF LastInv
<1>4. LastInv(r)'
  <2> SUFFICES ASSUME NEW i \in 1..(k + 1), wire'[r][i].fin \/ wire'[r][i].what = "done"
               PROVE  core'[r] = "over" /\ i = k + 1
    BY <1>1 DEF LastInv
  <2>1. i = k + 1
    BY <1>1, <1>2, <1>3
  <2> QED BY <1>1, <2>1
<1>5. ASSUME NumberInv(r), m.what # "done" => m.of = <<r, k>>
      PROVE  NumberInv(r)'
  <2> SUFFICES ASSUME NEW i \in 1..(k + 1), wire'[r][i].what # "done"
               PROVE  wire'[r][i].of = <<r, i - 1>>
    BY <1>1 DEF NumberInv
  <2>1. CASE i \in 1..k
    BY <1>1, <1>5, <2>1 DEF NumberInv
  <2>2. CASE i = k + 1
    <3>1. i - 1 = k
      BY <1>1, <2>2
    <3> QED BY <1>1, <1>5, <2>2, <3>1
  <2> QED BY <1>2, <2>1, <2>2
<1> QED BY <1>1, <1>4, <1>5

\* Where a message goes as long as the session waits for answers.
LEMMA WrittenOn ==
  ASSUME IInv, NEW r \in Requests, core[r] \in {"pending", "ok"}, NEW m, Write(r, m)
  PROVE  /\ wire'[r] = Append(wire[r], m) /\ wire[r] \in Seq(Messages)
         /\ \A s \in Requests \ {r} : wire'[s] = wire[s]
<1>1. StreamsOf(r) = {r}
  BY InvStreamsAgree DEF StreamsAgree
<1> QED BY <1>1, Known DEF Write, Types

-----------------------------------------------------------------------------
(* The order, step by step: receiving.                                     *)

\* A handler that gets its first messages, or none.
LEMMA BeginsOrder ==
  ASSUME OrderInv, NEW h \in Handlers, handler[h] = Idle, NEW r \in Requests
  PROVE  \A s \in Requests : ~UpdatesAt(h, s)
BY DEF UpdatesAt, Idle

LEMMA UntouchedOrder ==
  ASSUME IInv, OrderInv, OtherTypes',
         UNCHANGED <<core, arrived, handler, wire, crossed, dropped>>
  PROVE  OrderInv'
<1>1. \A h \in Handlers : HandlerInv(h)'
  BY DEF OrderInv, HandlerInv
<1>2. \A s \in Requests : Same(s)
  BY DEF Same
<1> QED BY <1>1, <1>2, SameOrder DEF OrderInv

LEMMA RequestOrder ==
  ASSUME IInv, OrderInv, NEW h \in Handlers, NEW r \in Requests,
         RequestGiven(h, r) \/ RequestNotHandled(h, r)
  PROVE  OrderInv'
<1>1. /\ handler[h] = Idle /\ arrived[r] = 0 /\ wire[r] = <<>> /\ core[r] = "none"
      /\ arrived' = [arrived EXCEPT ![r] = 1]
      /\ crossed' = crossed /\ dropped' = dropped
      /\ core \in [Requests -> {"none", "pending", "ok", "over"}]
      /\ wire \in [Requests -> Seq(Messages)]
      /\ arrived \in [Requests -> Nat] /\ handler \in [Handlers -> States]
  BY Known DEF RequestGiven, RequestNotHandled, observers, InvOf, Types
<1>2. /\ arrived'[r] = 1 /\ arrived' \in [Requests -> Nat]
      /\ \A s \in Requests \ {r} : arrived'[s] = arrived[s]
      /\ \A s \in Requests : arrived[s] <= arrived'[s]
  BY <1>1
<1>3. PICK at \in {"callback", "writing"}, fin \in BOOLEAN :
        handler' = [handler EXCEPT ![h] =
                     [request |-> r, todo |-> <<0>>, at |-> at, fin |-> fin]]
  BY DEF RequestGiven, RequestNotHandled
<1>4. /\ handler'[h] = [request |-> r, todo |-> <<0>>, at |-> at, fin |-> fin]
      /\ \A g \in Handlers \ {h} : handler'[g] = handler[g]
  BY <1>1, <1>3
<1>5. HandlerInv(h)'
  BY <1>2, <1>4 DEF HandlerInv
<1>6. \A g \in Handlers : HandlerInv(g)'
  BY <1>1, <1>2, <1>4, <1>5, HandlersStep
<1>7. \A s \in Requests : ~UpdatesAt(h, s) /\ ~UpdatesAt(h, s)'
  BY <1>1, <1>4, BeginsOrder DEF UpdatesAt
<1>8. OtherTypes'
  <2>1. \A s \in Requests : arrived'[s] <= Most[s] + 1
    <3>1. Most[r] \in Nat
      OBVIOUS
    <3> QED BY <1>2, <3>1 DEF OrderInv, OtherTypes
  <2>2. app' = app \/ app' = [app EXCEPT ![r] = "given"]
    BY DEF RequestGiven, RequestNotHandled
  <2> QED BY <1>1, <2>1, <2>2 DEF OrderInv, OtherTypes
<1>9. CASE RequestGiven(h, r)
  <2>1. core' = [core EXCEPT ![r] = "pending"] /\ wire' = wire
    BY <1>9 DEF RequestGiven
  <2>2. \A s \in Requests \ {r} : Same(s)
    BY <1>1, <1>2, <1>4, <1>7, <2>1 DEF Same
  <2>3. OrderOf(r)'
    <3>1. DOMAIN <<>> = {} /\ wire'[r] = <<>> /\ core'[r] = "pending"
      BY <1>1, <2>1
    <3> QED BY <1>2, <3>1 DEF OrderOf, LastInv, NumberInv
  <2> QED BY <1>6, <1>8, <2>2, <2>3, OrderStep
<1>10. CASE RequestNotHandled(h, r)
  <2>1. PICK end \in BOOLEAN :
          wire' = [wire EXCEPT ![r] = Append(@, Message("error", r, 0, end))]
    BY <1>10 DEF RequestNotHandled
  <2> DEFINE m == Message("error", r, 0, end)
  <2>2. m \in Messages /\ m.of = <<r, 0>>
    BY MessageType DEF Message
  <2>3. core' = [core EXCEPT ![r] = "over"]
    BY <1>10 DEF RequestNotHandled
  <2>4. \A s \in Requests \ {r} : Same(s)
    BY <1>1, <1>2, <1>4, <1>7, <2>1, <2>3 DEF Same
  <2>5. OrderOf(r)'
    <3>1. wire'[r] = Append(wire[r], m) /\ wire[r] \in Seq(Messages) /\ core'[r] = "over"
      BY <1>1, <2>1, <2>3
    <3>2. LastInv(r) /\ NumberInv(r) /\ Len(wire[r]) = 0
      <4>1. DOMAIN <<>> = {} /\ Len(<<>>) = 0
        OBVIOUS
      <4> QED BY <1>1, <4>1 DEF LastInv, NumberInv
    <3>3. LastInv(r)' /\ NumberInv(r)'
      <4> HIDE DEF m
      <4> QED BY <1>1, <2>2, <3>1, <3>2, AppendedOrder
    <3> QED BY <3>1, <3>3 DEF OrderOf
  <2> QED BY <1>6, <1>8, <2>4, <2>5, OrderStep
<1> QED BY <1>9, <1>10

\* The messages of a fragment.
LEMMA UpdatesAre ==
  ASSUME NEW r \in Requests, arrived[r] \in Nat, NEW n \in 1..2
  PROVE  /\ Updates(r, n) \in Seq(Int) /\ Len(Updates(r, n)) = n
         /\ Updates(r, n) # <<>> /\ DOMAIN Updates(r, n) = 1..n
         /\ \A i \in 1..n : Updates(r, n)[i] = arrived[r] + i - 1
<1>1. /\ Updates(r, n) \in Seq(Int) /\ Len(Updates(r, n)) = n
      /\ DOMAIN Updates(r, n) = 1..n
      /\ \A i \in 1..n : Updates(r, n)[i] = arrived[r] + i - 1
  BY DEF Updates
<1>2. Len(<<>>) = 0 /\ n # 0
  OBVIOUS
<1> QED BY <1>1, <1>2

LEMMA UpdatesOrder ==
  ASSUME IInv, OrderInv, NEW h \in Handlers, NEW r \in Requests, NEW n \in 1 .. 2,
         UpdatesArrive(h, r, n) \/ UpdatesTooLate(h, r, n)
  PROVE  OrderInv'
<1> DEFINE q == Updates(r, n)
           new == [request |-> r, todo |-> q, at |-> "callback", fin |-> FALSE]
<1>1. /\ handler[h] = Idle /\ core[r] \in {"ok", "over"}
      /\ arrived[r] + n <= Most[r] + 1
      /\ arrived' = [arrived EXCEPT ![r] = @ + n]
      /\ core' = core /\ wire' = wire /\ app' = app /\ dropped' = dropped
      /\ handler' \in {handler, [handler EXCEPT ![h] = new]}
      /\ crossed' \in {crossed, crossed \cup {r}}
      /\ core[r] = "ok" =>
           /\ handler' = [handler EXCEPT ![h] = new]
           /\ crossed' = IF \E g \in Busy(r) : Head(handler[g].todo) # 0
                         THEN crossed \cup {r} ELSE crossed
      /\ InvOf(r) /\ wire[r] \in Seq(Messages)
      /\ arrived \in [Requests -> Nat] /\ handler \in [Handlers -> States]
  BY Known DEF UpdatesArrive, UpdatesTooLate, observers, Types
<1>2. /\ arrived[r] \in Nat /\ arrived[r] # 0 /\ arrived'[r] = arrived[r] + n
      /\ arrived' \in [Requests -> Nat]
      /\ \A s \in Requests \ {r} : arrived'[s] = arrived[s]
      /\ \A s \in Requests : arrived[s] <= arrived'[s]
  BY <1>1 DEF InvOf
<1>3. /\ q \in Seq(Int) /\ Len(q) = n /\ q # <<>> /\ DOMAIN q = 1..n
      /\ \A i \in 1..n : q[i] = arrived[r] + i - 1
      /\ \A i \in 1..n : q[i] # 0
      /\ q[1] # 0
  <2>1. /\ q \in Seq(Int) /\ Len(q) = n /\ q # <<>> /\ DOMAIN q = 1..n
        /\ \A i \in 1..n : q[i] = arrived[r] + i - 1
    BY <1>2, UpdatesAre
  <2>2. \A i \in 1..n : q[i] # 0
    <3> HIDE DEF q
    <3> QED BY <1>2, <2>1
  <2> QED BY <2>1, <2>2
<1>4. /\ handler'[h] = handler[h] \/ handler'[h] = new
      /\ core[r] = "ok" => handler'[h] = new
      /\ \A g \in Handlers \ {h} : handler'[g] = handler[g]
  BY <1>1
<1> HIDE DEF q
<1>5. HandlerInv(h)'
  <2>1. CASE handler'[h] = handler[h]
    BY <1>1, <2>1 DEF HandlerInv
  <2>2. CASE handler'[h] = new
    <3>1. \A i \in DOMAIN q : q[i] \in 0..(arrived'[r] - 1)
      BY <1>2, <1>3
    <3> QED BY <1>3, <2>2, <3>1 DEF HandlerInv
  <2> QED BY <1>4, <2>1, <2>2
<1>6. \A g \in Handlers : HandlerInv(g)'
  BY <1>1, <1>2, <1>4, <1>5, HandlersStep
<1>7. OtherTypes'
  <2>1. \A s \in Requests : arrived'[s] <= Most[s] + 1
    BY <1>1, <1>2 DEF OrderInv, OtherTypes
  <2> QED BY <1>1, <2>1 DEF OrderInv, OtherTypes
<1>8. \A s \in Requests \ {r} : Same(s)
  BY <1>1, <1>2, <1>4, BeginsOrder DEF Same, UpdatesAt
<1>9. OrderOf(r)'
  <2>1. OrderOf(r)
    BY DEF OrderInv
  <2>2. LastInv(r)' /\ core'[r] # "pending"
    BY <1>1, <2>1 DEF OrderOf, LastInv
  <2>3. r \notin crossed' \cup dropped' => NumberInv(r)'
    BY <1>1, <2>1 DEF OrderOf, NumberInv
  <2>4. ASSUME core[r] = "ok", r \notin crossed' \cup dropped'
        PROVE  AcceptedInv(r)'
    <3>1. ~ \E g \in Busy(r) : Head(handler[g].todo) # 0
      BY <1>1, <2>4
    <3>2. ASSUME NEW g \in Handlers, UpdatesAt(g, r) PROVE FALSE
      <4>1. g \in Busy(r) /\ handler[g].todo # <<>>
        BY <3>2 DEF UpdatesAt, Busy, OrderInv, HandlerInv, Idle
      <4>2. Head(handler[g].todo) = handler[g].todo[1]
        BY <1>1 DEF States
      <4> QED BY <3>1, <3>2, <4>1, <4>2 DEF UpdatesAt
    <3>3. handler'[h] = new /\ UpdatesAt(h, r)'
      BY <1>3, <1>4, <2>4 DEF UpdatesAt
    <3>4. \A g \in Handlers : UpdatesAt(g, r)' => g = h
      BY <1>4, <3>2 DEF UpdatesAt
    <3>5. Len(wire[r]) = arrived[r]
      BY <1>1, <2>1, <2>4, <3>2 DEF OrderOf, AcceptedInv
    <3>6. PlaceInv(h, r)'
      <4>1. \A i \in DOMAIN q : q[i] = arrived'[r] - Len(q) + i - 1
        BY <1>2, <1>3
      <4>2. Len(wire'[r]) = arrived'[r] - Len(q) + 0
        BY <1>1, <1>2, <1>3, <3>5
      <4> QED BY <3>3, <4>1, <4>2 DEF PlaceInv
    <3> QED BY <3>3, <3>4, <3>6 DEF AcceptedInv
  <2> QED BY <1>1, <2>2, <2>3, <2>4 DEF OrderOf
<1> QED BY <1>6, <1>7, <1>8, <1>9, OrderStep

LEMMA PeerEndsOrder ==
  ASSUME IInv, OrderInv, NEW r \in Requests, PeerEnds(r)
  PROVE  OrderInv'
<1>1. /\ core' = [core EXCEPT ![r] = IF streams[r] # Nothing /\ @ # "none" THEN "over" ELSE @]
      /\ UNCHANGED <<arrived, handler, wire, app, crossed, dropped>>
      /\ core \in [Requests -> {"none", "pending", "ok", "over"}]
  BY Known DEF PeerEnds, observers, Types
<1>2. (core'[r] = "over" \/ core'[r] = core[r]) /\ \A s \in Requests \ {r} : core'[s] = core[s]
  BY <1>1
<1>3. \A s \in Requests \ {r} : Same(s)
  BY <1>1, <1>2 DEF Same
<1>4. OtherTypes' /\ \A h \in Handlers : HandlerInv(h)'
  BY <1>1 DEF OrderInv, OtherTypes, HandlerInv
<1>5. OrderOf(r)'
  <2>1. CASE core'[r] = core[r]
    <3>1. Same(r)
      BY <1>1, <2>1 DEF Same
    <3> QED BY <3>1, SameOrder DEF OrderInv
  <2>2. CASE core'[r] = "over"
    <3>1. OrderOf(r)
      BY DEF OrderInv
    <3>2. LastInv(r)' /\ (r \notin crossed \cup dropped => NumberInv(r)')
      BY <1>1, <2>2, <3>1 DEF OrderOf, LastInv, NumberInv
    <3> QED BY <1>1, <2>2, <3>2 DEF OrderOf
  <2> QED BY <1>2, <2>1, <2>2
<1> QED BY <1>3, <1>4, <1>5, OrderStep

-----------------------------------------------------------------------------
(* The order, step by step: the handlers.                                  *)

\* What a handler that is not idle has.
LEMMA BusyHandler ==
  ASSUME IInv, OrderInv, NEW h \in Handlers, handler[h].at # "idle"
  PROVE  \E r \in Requests, q \in Seq(Int) :
           /\ handler[h].request = r /\ handler[h].todo = q
           /\ q # <<>> /\ Len(q) \in Nat \ {0} /\ DOMAIN q = 1..Len(q) /\ 1 \in DOMAIN q
           /\ Head(q) = q[1]
           /\ \A i \in DOMAIN q : q[i] \in 0..(arrived[r] - 1) /\ (q[i] = 0 => Len(q) = 1)
           /\ \A s \in Requests \ {r} : ~UpdatesAt(h, s)
<1>1. handler[h] # Idle
  BY DEF Idle
<1>2. PICK r \in Requests, q \in Seq(Int) : handler[h].request = r /\ handler[h].todo = q
  BY <1>1, Known DEF OrderInv, HandlerInv, Types, States
<1>3. /\ q # <<>>
      /\ \A i \in DOMAIN q : q[i] \in 0..(arrived[r] - 1) /\ (q[i] = 0 => Len(q) = 1)
  BY <1>1, <1>2 DEF OrderInv, HandlerInv
<1>4. /\ Len(q) \in Nat \ {0} /\ DOMAIN q = 1..Len(q) /\ 1 \in DOMAIN q /\ Head(q) = q[1]
  <2>1. Len(q) \in Nat /\ Len(q) # 0 /\ DOMAIN q = 1..Len(q)
    BY <1>3, EmptySeq
  <2> QED BY <1>3, <2>1
<1>5. \A s \in Requests \ {r} : ~UpdatesAt(h, s)
  BY <1>2 DEF UpdatesAt
<1> QED BY <1>2, <1>3, <1>4, <1>5

\* A handler becomes idle: it had the request alone, or updates that are dropped.
LEMMA IdleOrder ==
  ASSUME IInv, OrderInv, NEW h \in Handlers, NEW r \in Requests, handler[h].request = r,
         handler' = [handler EXCEPT ![h] = Idle],
         UNCHANGED <<core, arrived, wire, crossed>>,
         dropped' \in {dropped, dropped \cup {r}},
         UpdatesAt(h, r) => r \in dropped',
         OtherTypes'
  PROVE  OrderInv'
<1>1. /\ handler'[h] = Idle /\ \A g \in Handlers \ {h} : handler'[g] = handler[g]
      /\ arrived \in [Requests -> Nat]
  BY Known DEF Types
<1>2. OrderOf(r) /\ \A s \in Requests \ {r} : ~UpdatesAt(h, s)
  BY DEF OrderInv, UpdatesAt
<1>3. \A s \in Requests : ~UpdatesAt(h, s)'
  BY <1>1 DEF UpdatesAt, Idle
<1>4. HandlerInv(h)'
  BY <1>1 DEF HandlerInv, Idle
<1>5. \A g \in Handlers : HandlerInv(g)'
  <2>1. \A s \in Requests : arrived[s] <= arrived'[s]
    BY <1>1
  <2> QED BY <1>1, <1>4, <2>1, HandlersStep
<1>6. \A s \in Requests \ {r} : Same(s)
  BY <1>1, <1>2, <1>3 DEF Same
<1>7. OrderOf(r)'
  <2>1. CASE UpdatesAt(h, r)
    <3>1. LastInv(r)' /\ (core'[r] = "pending" => arrived'[r] = 1 /\ wire'[r] = <<>>)
      BY <1>2 DEF OrderOf, LastInv
    <3> QED BY <2>1, <3>1 DEF OrderOf
  <2>2. CASE ~UpdatesAt(h, r)
    <3>1. Same(r)
      BY <1>1, <1>3, <2>2 DEF Same
    <3> QED BY <1>2, <3>1, SameOrder
  <2> QED BY <2>1, <2>2
<1> QED BY <1>2, <1>5, <1>6, <1>7, OrderStep

LEMMA CallbackEndsOrder ==
  ASSUME IInv, OrderInv, NEW h \in Handlers, CallbackEnds(h)
  PROVE  OrderInv'
<1>1. PICK r \in Requests, q \in Seq(Int) :
        /\ handler[h].request = r /\ handler[h].todo = q
        /\ q # <<>> /\ Len(q) \in Nat \ {0} /\ DOMAIN q = 1..Len(q) /\ 1 \in DOMAIN q
        /\ Head(q) = q[1]
        /\ \A i \in DOMAIN q : q[i] \in 0..(arrived[r] - 1) /\ (q[i] = 0 => Len(q) = 1)
        /\ \A s \in Requests \ {r} : ~UpdatesAt(h, s)
  <2>1. handler[h].at # "idle"
    BY DEF CallbackEnds
  <2> QED BY <2>1, BusyHandler
<1>2. /\ Head(q) = 0 /\ handler' = [handler EXCEPT ![h] = Rest(h)]
      /\ UNCHANGED <<core, arrived, wire, crossed, dropped>>
      /\ app' = app \/ app' = [app EXCEPT ![r] = "silent"]
  BY <1>1 DEF CallbackEnds, observers
<1>3. Rest(h) = Idle /\ ~UpdatesAt(h, r)
  BY <1>1, <1>2 DEF Rest, UpdatesAt
<1>4. OtherTypes'
  BY <1>2 DEF OrderInv, OtherTypes
<1> QED BY <1>1, <1>2, <1>3, <1>4, IdleOrder

LEMMA WriteFailsOrder ==
  ASSUME IInv, OrderInv, NEW h \in Handlers, WriteFails(h)
  PROVE  OrderInv'
<1>1. /\ handler[h].at # "idle" /\ handler' = [handler EXCEPT ![h] = Idle]
      /\ UNCHANGED <<core, arrived, wire, crossed, app>>
      /\ dropped' = dropped \cup {handler[h].request}
  BY DEF WriteFails, Throw
<1>2. PICK r \in Requests : handler[h].request = r
  BY <1>1, BusyHandler
<1>3. OtherTypes'
  BY <1>1 DEF OrderInv, OtherTypes
<1> QED BY <1>1, <1>2, <1>3, IdleOrder

\* The answer is written; if it was to an update, the handler has one less.
LEMMA WrittenOrder ==
  ASSUME IInv, OrderInv, NEW h \in Handlers, Written(h)
  PROVE  OrderInv'
<1>0. PICK r \in Requests, q \in Seq(Int) :
        /\ handler[h].request = r /\ handler[h].todo = q
        /\ q # <<>> /\ Len(q) \in Nat \ {0} /\ DOMAIN q = 1..Len(q) /\ 1 \in DOMAIN q
        /\ \A i \in DOMAIN q : q[i] \in 0..(arrived[r] - 1) /\ (q[i] = 0 => Len(q) = 1)
        /\ \A s \in Requests \ {r} : ~UpdatesAt(h, s)
  BY BusyHandler DEF Written
<1>1. /\ handler[h].at = "writing" /\ handler' = [handler EXCEPT ![h] = Rest(h)]
      /\ UNCHANGED <<core, arrived, wire, crossed, dropped, app>>
  BY DEF Written, observers
<1>2. arrived[r] \in Nat /\ wire[r] \in Seq(Messages) /\ OrderOf(r)
  BY Known DEF Types, OrderInv
<1>3. OtherTypes'
  BY <1>0, <1>1 DEF OrderInv, OtherTypes
<1>4. CASE q[1] = 0
  <2>1. Rest(h) = Idle /\ ~UpdatesAt(h, r)
    BY <1>0, <1>2, <1>4 DEF Rest, UpdatesAt
  <2> QED BY <1>0, <1>1, <1>3, <2>1, IdleOrder
<1>5. CASE q[1] # 0
  <2>1. /\ handler'[h] = Rest(h) /\ \A g \in Handlers \ {h} : handler'[g] = handler[g]
        /\ arrived \in [Requests -> Nat] /\ handler[h] \in States
    BY <1>0, <1>1, Known DEF Types
  <2>2. CASE Len(q) = 1
    <3>1. handler'[h] = Idle
      BY <1>0, <2>1, <2>2 DEF Rest
    <3>2. HandlerInv(h)' /\ \A s \in Requests : ~UpdatesAt(h, s)'
      BY <1>0, <3>1 DEF HandlerInv, UpdatesAt, Idle
    <3>3. AcceptedInv(r) => AcceptedInv(r)'
      <4> SUFFICES ASSUME AcceptedInv(r) PROVE AcceptedInv(r)'
        OBVIOUS
      <4>1. UpdatesAt(h, r) /\ PlaceInv(h, r)
        BY <1>0, <1>5 DEF UpdatesAt, AcceptedInv
      <4>2. \A g \in Handlers : ~UpdatesAt(g, r)'
        <5>1. \A g \in Handlers \ {h} : ~UpdatesAt(g, r)
          BY <4>1 DEF AcceptedInv
        <5>2. \A g \in Handlers \ {h} : ~UpdatesAt(g, r)'
          BY ONLY <2>1, <5>1 DEF UpdatesAt
        <5> QED BY <3>2, <5>2
      <4>3. Len(wire[r]) = arrived[r] - 1 + 1
        BY <1>0, <1>1, <2>2, <4>1 DEF PlaceInv
      <4>4. Len(wire'[r]) = arrived'[r]
        BY <1>1, <1>2, <4>3
      <4> QED BY <4>2, <4>4 DEF AcceptedInv
    <3>4. OrderOf(r)'
      BY <1>0, <1>1, <1>2, <3>3 DEF OrderOf, LastInv, NumberInv
    <3>5. \A s \in Requests \ {r} : Same(s)
      BY <1>0, <1>1, <1>2, <2>1, <3>2 DEF Same
    <3>6. \A g \in Handlers : HandlerInv(g)'
      <4>1. \A s \in Requests : arrived[s] <= arrived'[s]
        BY <1>0, <1>1, <2>1
      <4> QED BY <1>0, <1>1, <2>1, <3>2, <4>1, HandlersStep
    <3> QED BY <1>0, <1>2, <1>3, <3>4, <3>5, <3>6, OrderStep
  <2>3. CASE Len(q) # 1
    <3>0. PICK t \in Seq(Int) : t = Tail(q)
      BY <1>0, HeadTailProperties
    <3>1. /\ Len(t) = Len(q) - 1 /\ DOMAIN t = 1..Len(t) /\ Len(t) \in Nat \ {0}
          /\ \A i \in 1..Len(t) : t[i] = q[i + 1] /\ i + 1 \in DOMAIN q
      <4>1. Len(t) = Len(q) - 1 /\ DOMAIN t = 1..Len(t) /\ Len(t) \in Nat
        BY <1>0, <3>0
      <4> QED BY <1>0, <2>3, <3>0, <4>1
    <3>2. /\ handler'[h] = [request |-> r, todo |-> t, at |-> "callback", fin |-> FALSE]
      <4>1. Rest(h) = [request |-> handler[h].request, todo |-> Tail(handler[h].todo),
                       at |-> "callback", fin |-> FALSE]
        BY <1>0, <1>1, <2>3, Known, RestState
      <4> QED BY <1>0, <2>1, <3>0, <4>1
    <3>3. 1 \in 1..Len(t) /\ \A i \in 1..Len(t) : t[i] # 0 /\ t[i] \in 0..(arrived[r] - 1)
      <4>1. \A j \in DOMAIN q : q[j] # 0 /\ q[j] \in 0..(arrived[r] - 1)
        BY <1>0, <2>3
      <4>2. 1 \in 1..Len(t)
        BY <3>1
      <4> QED BY <3>1, <4>1, <4>2
    <3>4. t # <<>>
      <4>1. Len(<<>>) = 0
        OBVIOUS
      <4> QED BY <1>0, <3>1, <4>1
    <3>5. HandlerInv(h)'
      <4>1. /\ r \in Requests /\ arrived'[r] = arrived[r] /\ DOMAIN t = 1..Len(t)
            /\ handler'[h].request = r /\ handler'[h].todo = t /\ handler'[h].at = "callback"
        BY <1>1, <3>1, <3>2
      <4> QED BY <3>3, <3>4, <4>1 DEF HandlerInv
    <3>6. \A s \in Requests \ {r} : ~UpdatesAt(h, s)'
      BY <1>0, <3>2 DEF UpdatesAt
    <3>7. AcceptedInv(r) => AcceptedInv(r)'
      <4> SUFFICES ASSUME AcceptedInv(r) PROVE AcceptedInv(r)'
        OBVIOUS
      <4>1. UpdatesAt(h, r) /\ PlaceInv(h, r)
        BY <1>0, <1>5 DEF UpdatesAt, AcceptedInv
      <4>2. UpdatesAt(h, r)'
        BY <1>0, <3>2, <3>3 DEF UpdatesAt
      <4>3. \A g \in Handlers : UpdatesAt(g, r)' => g = h
        <5>1. \A g \in Handlers \ {h} : ~UpdatesAt(g, r)
          BY <4>1 DEF AcceptedInv
        <5>2. \A g \in Handlers \ {h} : ~UpdatesAt(g, r)'
          BY ONLY <2>1, <5>1 DEF UpdatesAt
        <5> QED BY <5>2
      <4>4. PlaceInv(h, r)'
        <5>1. \A i \in DOMAIN q : q[i] = arrived[r] - Len(q) + i - 1
          BY <1>0, <4>1 DEF PlaceInv
        <5>2. Len(wire[r]) = arrived[r] - Len(q) + 1
          BY <1>0, <1>1, <4>1 DEF PlaceInv
        <5>3. \A i \in DOMAIN t : t[i] = arrived'[r] - Len(t) + i - 1
          <6> SUFFICES ASSUME NEW i \in 1..Len(t)
                       PROVE  t[i] = arrived'[r] - Len(t) + i - 1
            BY <3>1
          <6>1. i \in Int /\ t[i] = q[i + 1] /\ i + 1 \in DOMAIN q /\ Len(t) = Len(q) - 1
            BY <3>1
          <6>2. q[i + 1] = arrived[r] - Len(q) + (i + 1) - 1
            BY <5>1, <6>1
          <6>3. arrived'[r] = arrived[r] /\ arrived[r] \in Int /\ Len(q) \in Int
            BY <1>0, <1>1, <1>2
          <6> DEFINE a == arrived[r]
                     k == Len(q)
          <6>4. a \in Int /\ k \in Int /\ i \in Int /\ t[i] = a - k + (i + 1) - 1
                /\ Len(t) = k - 1 /\ arrived'[r] = a
            BY <6>1, <6>2, <6>3
          <6> HIDE DEF a, k
          <6> QED BY ONLY <6>4, SMTT(30)
        <5>4. Len(wire'[r]) = arrived'[r] - Len(t) + 0
          <6> QED BY <1>0, <1>1, <1>2, <3>1, <5>2
        <5> QED BY <1>0, <3>2, <5>3, <5>4 DEF PlaceInv
      <4> QED BY <1>0, <4>2, <4>3, <4>4 DEF AcceptedInv
    <3>8. OrderOf(r)'
      BY <1>0, <1>1, <1>2, <3>7 DEF OrderOf, LastInv, NumberInv
    <3>9. \A s \in Requests \ {r} : Same(s)
      BY <1>0, <1>1, <1>2, <2>1, <3>6 DEF Same
    <3>10. \A g \in Handlers : HandlerInv(g)'
      <4>1. \A s \in Requests : arrived[s] <= arrived'[s]
        BY <1>0, <1>1, <2>1
      <4> QED BY <1>0, <1>1, <2>1, <3>5, <4>1, HandlersStep
    <3> QED BY <1>0, <1>2, <1>3, <3>8, <3>9, <3>10, OrderStep
  <2> QED BY <1>0, <2>2, <2>3
<1> QED BY <1>0, <1>4, <1>5

\* An update is answered, with its own number.
LEMMA AnswerOrder ==
  ASSUME IInv, OrderInv, NEW h \in Handlers, NEW what \in {"ok", "error"},
         NEW fin \in BOOLEAN,
         handler[h].at = "callback", Head(handler[h].todo) # 0,
         Answerable(handler[h].request, "ok"),
         Write(handler[h].request,
               Message(what, handler[h].request, Head(handler[h].todo), fin)),
         handler' = [handler EXCEPT ![h] = [request |-> handler[h].request,
                       todo |-> handler[h].todo, at |-> "writing", fin |-> fin]],
         core' = [core EXCEPT ![handler[h].request] = IF fin THEN "over" ELSE @],
         UNCHANGED <<arrived, crossed, dropped, app>>
  PROVE  OrderInv'
<1>0. PICK r \in Requests, q \in Seq(Int) :
        /\ handler[h].request = r /\ handler[h].todo = q
        /\ q # <<>> /\ Len(q) \in Nat \ {0} /\ DOMAIN q = 1..Len(q) /\ 1 \in DOMAIN q
        /\ Head(q) = q[1]
        /\ \A i \in DOMAIN q : q[i] \in 0..(arrived[r] - 1) /\ (q[i] = 0 => Len(q) = 1)
        /\ \A s \in Requests \ {r} : ~UpdatesAt(h, s)
  BY BusyHandler
<1> DEFINE m == Message(what, r, q[1], fin)
<1>1. arrived[r] \in Nat /\ OrderOf(r) /\ q[1] \in Int /\ q[1] # 0
  BY <1>0, Known DEF Types, OrderInv
<1>2. core[r] = "ok" /\ UpdatesAt(h, r)
  BY <1>0, <1>1 DEF Answerable, UpdatesAt
<1>3. m \in Messages /\ m.of = <<r, q[1]>> /\ m.what = what /\ m.fin = fin
  BY <1>0, <1>1, MessageType DEF Message
<1>4. /\ handler'[h] = [request |-> r, todo |-> q, at |-> "writing", fin |-> fin]
      /\ \A g \in Handlers \ {h} : handler'[g] = handler[g]
      /\ arrived \in [Requests -> Nat]
  BY <1>0, Known DEF Types
<1>5. /\ core'[r] = (IF fin THEN "over" ELSE "ok")
      /\ \A s \in Requests \ {r} : core'[s] = core[s]
  BY <1>0, <1>1, <1>2, Known DEF Types
<1>6. /\ wire'[r] = Append(wire[r], m) /\ wire[r] \in Seq(Messages)
      /\ \A s \in Requests \ {r} : wire'[s] = wire[s]
  <2>1. Write(r, m)
    BY <1>0, <1>1
  <2> HIDE DEF m
  <2> QED BY <1>0, <1>1, <1>2, <2>1, WrittenOn
<1>7. /\ LastInv(r)' /\ Len(wire'[r]) = Len(wire[r]) + 1
      /\ NumberInv(r) /\ (m.of = <<r, Len(wire[r])>>) => NumberInv(r)'
  <2>1. LastInv(r) /\ core[r] # "over" /\ (m.fin \/ m.what = "done" => core'[r] = "over")
    BY <1>0, <1>1, <1>2, <1>3, <1>5 DEF OrderOf
  <2> HIDE DEF m
  <2> QED BY <1>0, <1>1, <1>3, <1>6, <2>1, AppendedOrder
<1>8. HandlerInv(h)'
  BY <1>0, <1>1, <1>4 DEF HandlerInv
<1>9. \A g \in Handlers : HandlerInv(g)'
  <2>1. \A s \in Requests : arrived[s] <= arrived'[s]
    BY <1>0, <1>4
  <2> QED BY <1>0, <1>4, <1>8, <2>1, HandlersStep
<1>10. \A s \in Requests \ {r} : Same(s)
  BY <1>0, <1>1, <1>4, <1>5, <1>6 DEF Same, UpdatesAt
<1>11. OtherTypes'
  BY DEF OrderInv, OtherTypes
<1>12. OrderOf(r)'
  <2>1. ASSUME r \notin crossed \cup dropped
        PROVE  NumberInv(r)' /\ AcceptedInv(r)'
    <3>1. NumberInv(r) /\ AcceptedInv(r) /\ PlaceInv(h, r)
      BY <1>0, <1>1, <1>2, <2>1 DEF OrderOf, AcceptedInv
    <3>2. q[1] = Len(wire[r]) /\ Len(wire[r]) = arrived[r] - Len(q)
      <4>1. /\ q[1] = arrived[r] - Len(q) + 1 - 1
            /\ Len(wire[r]) = arrived[r] - Len(q) + 0
        BY <1>0, <1>1, <3>1 DEF PlaceInv
      <4> QED BY <1>0, <1>1, <4>1
    <3>3. NumberInv(r)'
      BY <1>0, <1>3, <1>7, <3>1, <3>2
    <3>4. UpdatesAt(h, r)' /\ \A g \in Handlers : UpdatesAt(g, r)' => g = h
      BY <1>0, <1>1, <1>2, <1>4, <3>1 DEF AcceptedInv, UpdatesAt
    <3>5. PlaceInv(h, r)'
      <4>1. \A i \in DOMAIN q : q[i] = arrived'[r] - Len(q) + i - 1
        BY <1>0, <3>1 DEF PlaceInv
      <4>2. Len(wire'[r]) = arrived'[r] - Len(q) + 1
        BY <1>0, <1>7, <3>2
      <4> QED BY <1>0, <1>4, <4>1, <4>2 DEF PlaceInv
    <3> QED BY <1>0, <3>3, <3>4, <3>5 DEF AcceptedInv
  <2> QED BY <1>0, <1>5, <1>7, <2>1 DEF OrderOf
<1> QED BY <1>0, <1>1, <1>9, <1>10, <1>11, <1>12, OrderStep

LEMMA UpdateDecidedOrder ==
  ASSUME IInv, OrderInv, NEW h \in Handlers, UpdateDecided(h)
  PROVE  OrderInv'
<1> DEFINE r == handler[h].request
           n == Head(handler[h].todo)
<1>1. /\ handler[h].at = "callback" /\ n # 0 /\ UNCHANGED <<arrived, app, crossed>>
  BY DEF UpdateDecided
<1>2. CASE Throw(h) /\ core' = core /\ wire' = wire
  <2>1. OtherTypes'
    BY <1>1 DEF OrderInv, OtherTypes
  <2>2. PICK s \in Requests : handler[h].request = s
    BY <1>1, BusyHandler
  <2> QED BY <1>1, <1>2, <2>1, <2>2, IdleOrder DEF Throw
<1>3. CASE /\ Answerable(r, "ok") /\ dropped' = dropped
           /\ Write(r, Message("ok", r, n, FALSE)) /\ core' = core
           /\ handler' = [handler EXCEPT ![h].at = "writing"]
  <2>1. handler[h] \in States /\ ~handler[h].fin /\ core[r] = "ok"
    BY <1>1, <1>3, Known DEF Types, HandlersKnown, Answerable
  <2>2. [handler[h] EXCEPT !.at = "writing"]
          = [request |-> r, todo |-> handler[h].todo, at |-> "writing", fin |-> FALSE]
    <3>1. handler[h].fin = FALSE
      BY <2>1 DEF States
    <3>2. handler[h] = [request |-> r, todo |-> handler[h].todo, at |-> "callback",
                        fin |-> handler[h].fin]
      BY <1>1, <2>1 DEF States
    <3>3. [handler[h] EXCEPT !.at = "writing"]
            = [request |-> r, todo |-> handler[h].todo, at |-> "writing",
               fin |-> handler[h].fin]
      BY <3>2
    <3> QED BY <3>1, <3>3
  <2>3. core' = [core EXCEPT ![r] = IF FALSE THEN "over" ELSE @]
    BY <1>3, Known DEF Types
  <2>4. handler' = [handler EXCEPT ![h] =
          [request |-> r, todo |-> handler[h].todo, at |-> "writing", fin |-> FALSE]]
    BY <1>3, <2>2
  <2> QED BY <1>1, <1>3, <2>3, <2>4, AnswerOrder
<1>4. ASSUME NEW fin \in BOOLEAN,
             Answerable(r, "ok"), dropped' = dropped,
             Write(r, Message("error", r, n, fin)),
             handler' = [handler EXCEPT ![h] =
               [request |-> r, todo |-> @.todo, at |-> "writing", fin |-> fin]],
             core' = [core EXCEPT ![r] = IF fin THEN "over" ELSE @]
      PROVE  OrderInv'
  BY <1>1, <1>4, AnswerOrder
<1> QED BY <1>2, <1>3, <1>4 DEF UpdateDecided

-----------------------------------------------------------------------------
(* The order, step by step: the application.                               *)

\* The answer to a request, or the message that ends it.
LEMMA AppOrder ==
  ASSUME IInv, OrderInv, NEW r \in Requests, NEW what \in {"ok", "error", "done"},
         NEW fin \in BOOLEAN, NEW state \in {"ok", "over"},
         core[r] = IF what = "done" THEN "ok" ELSE "pending",
         Write(r, Message(what, r, 0, fin)),
         core' = [core EXCEPT ![r] = state],
         fin \/ what = "done" => state = "over",
         UNCHANGED <<arrived, handler, crossed, dropped>>,
         OtherTypes'
  PROVE  OrderInv'
<1> DEFINE m == Message(what, r, 0, fin)
<1>1. m \in Messages /\ m.of = <<r, 0>> /\ m.what = what /\ m.fin = fin
  BY MessageType DEF Message
<1>2. /\ wire'[r] = Append(wire[r], m) /\ wire[r] \in Seq(Messages)
      /\ \A s \in Requests \ {r} : wire'[s] = wire[s]
  <2>1. Write(r, m) /\ core[r] \in {"pending", "ok"}
    OBVIOUS
  <2> HIDE DEF m
  <2> QED BY <2>1, WrittenOn
<1>3. core'[r] = state /\ \A s \in Requests \ {r} : core'[s] = core[s]
  BY Known DEF Types
<1>4. OrderOf(r) /\ core[r] # "over"
  BY DEF OrderInv
<1>5. /\ LastInv(r)' /\ Len(wire'[r]) = Len(wire[r]) + 1
      /\ NumberInv(r) /\ (m.what # "done" => m.of = <<r, Len(wire[r])>>) => NumberInv(r)'
  <2>1. LastInv(r) /\ core[r] # "over" /\ (m.fin \/ m.what = "done" => core'[r] = "over")
    BY <1>1, <1>3, <1>4 DEF OrderOf
  <2> HIDE DEF m
  <2> QED BY <1>1, <1>2, <2>1, AppendedOrder
<1>6. what # "done" => arrived[r] = 1 /\ Len(wire[r]) = 0
  <2>1. Len(<<>>) = 0
    OBVIOUS
  <2> QED BY <1>4, <2>1 DEF OrderOf
<1>7. r \notin crossed \cup dropped => NumberInv(r)'
  BY <1>1, <1>4, <1>5, <1>6 DEF OrderOf
<1>8. ASSUME state = "ok" PROVE AcceptedInv(r)'
  <2>1. arrived[r] = 1 /\ Len(wire'[r]) = 1
    BY <1>5, <1>6, <1>8
  <2>2. \A h \in Handlers : ~UpdatesAt(h, r)
    <3> SUFFICES ASSUME NEW h \in Handlers, UpdatesAt(h, r) PROVE FALSE
      OBVIOUS
    <3>1. handler[h].at # "idle"
      BY DEF UpdatesAt, OrderInv, HandlerInv, Idle
    <3>2. handler[h].todo[1] \in 0..(arrived[r] - 1)
      BY <3>1, BusyHandler DEF UpdatesAt
    <3> QED BY <2>1, <3>2 DEF UpdatesAt
  <2> QED BY <2>1, <2>2 DEF AcceptedInv, UpdatesAt
<1>9. OrderOf(r)'
  BY <1>3, <1>5, <1>7, <1>8 DEF OrderOf
<1>10. \A s \in Requests \ {r} : Same(s)
  BY <1>2, <1>3 DEF Same
<1>11. \A h \in Handlers : HandlerInv(h)'
  BY DEF OrderInv, HandlerInv
<1> QED BY <1>9, <1>10, <1>11, OrderStep

LEMMA AcceptOrder ==
  ASSUME IInv, OrderInv, NEW r \in Requests, Accept(r)
  PROVE  OrderInv'
<1>1. /\ UNCHANGED <<arrived, handler, crossed, dropped>>
      /\ \E to \in {"opening", "accepted", "raised"} : app' = [app EXCEPT ![r] = to]
  BY DEF Accept, observers
<1>2. OtherTypes'
  BY <1>1 DEF OrderInv, OtherTypes
<1>3. CASE core' = core /\ wire' = wire
  BY <1>1, <1>2, <1>3, UntouchedOrder
<1>4. CASE /\ Answerable(r, "pending") /\ Write(r, Message("ok", r, 0, FALSE))
           /\ core' = [core EXCEPT ![r] = "ok"]
  BY <1>1, <1>2, <1>4, AppOrder DEF Answerable
<1> QED BY <1>3, <1>4 DEF Accept

LEMMA EndOrder ==
  ASSUME IInv, OrderInv, NEW r \in Requests, Reject(r) \/ Close(r)
  PROVE  OrderInv'
<1>1. PICK what \in {"error", "done"}, fin \in BOOLEAN, to \in {"rejected", "closed"} :
        /\ core[r] = IF what = "done" THEN "ok" ELSE "pending"
        /\ core' = [core EXCEPT ![r] = "over"]
        /\ Write(r, Message(what, r, 0, fin))
        /\ app' = [app EXCEPT ![r] = to]
        /\ UNCHANGED <<arrived, handler, crossed, dropped>>
  BY DEF Reject, Close, End, observers
<1>2. OtherTypes'
  BY <1>1 DEF OrderInv, OtherTypes
<1> QED BY <1>1, <1>2, AppOrder

LEMMA FinishedOrder ==
  ASSUME IInv, OrderInv, NEW r \in Requests, Finished(r)
  PROVE  OrderInv'
<1>1. /\ UNCHANGED <<core, arrived, handler, app, wire, crossed>>
      /\ dropped \subseteq dropped'
  BY DEF Finished
<1>2. OtherTypes' /\ \A h \in Handlers : HandlerInv(h)'
  BY <1>1 DEF OrderInv, OtherTypes, HandlerInv
<1>3. \A s \in Requests : Same(s)
  BY <1>1 DEF Same
<1> QED BY <1>2, <1>3, SameOrder DEF OrderInv

LEMMA NextOrder ==
  ASSUME IInv, OrderInv, [Next]_vars
  PROVE  OrderInv'
<1>1. CASE UNCHANGED vars
  <2>1. OtherTypes'
    BY <1>1 DEF vars, observers, OrderInv, OtherTypes
  <2> QED BY <1>1, <2>1, UntouchedOrder DEF vars, observers
<1>2. ASSUME NEW r \in Requests, StreamOpens(r) \/ FetchStreamOpened(r) PROVE OrderInv'
  <2>1. app' = app \/ \E to \in {"serving", "raised"} : app' = [app EXCEPT ![r] = to]
    BY <1>2 DEF StreamOpens, FetchStreamOpened
  <2>2. UNCHANGED <<core, arrived, handler, wire, crossed, dropped>>
    BY <1>2 DEF StreamOpens, FetchStreamOpened, observers
  <2>3. OtherTypes'
    BY <2>1, <2>2 DEF OrderInv, OtherTypes
  <2> QED BY <2>2, <2>3, UntouchedOrder
<1> QED BY <1>1, <1>2, PeerEndsOrder, AcceptOrder, EndOrder, FinishedOrder,
           CallbackEndsOrder, UpdateDecidedOrder, WrittenOrder, WriteFailsOrder,
           RequestOrder, UpdatesOrder DEF Next

-----------------------------------------------------------------------------
(* The theorems.                                                           *)

\* The inductive invariant holds, whatever the peer, the application and the transport
\* do, for any number of requests, updates and handlers at a time.
THEOREM Invariant == Spec => []IInv
<1>1. Init => IInv
  BY InitInv
<1>2. IInv /\ [Next]_vars => IInv'
  BY NextInv
<1> QED BY <1>1, <1>2, PTL DEF Spec

\* As long as the session waits for an answer its stream is in Runtime._streams, and the
\* entry goes with the end of the stream or the last message (_send_on_stream,
\* receive_stream_closed).
THEOREM StreamsAreAgreed == Spec => []StreamsAgree
<1>1. IInv => StreamsAgree
  BY InvStreamsAgree
<1> QED BY <1>1, Invariant, PTL

\* The second invariant: which messages the handlers still have and which answers are
\* on the streams.
THEOREM OrderInvariant == Spec => []OrderInv
<1>1. Init => OrderInv
  BY InitOrder
<1>2. IInv /\ OrderInv /\ [Next]_vars => OrderInv'
  BY NextOrder
<1> QED BY <1>1, <1>2, Invariant, PTL DEF Spec

\* The types of all variables, and what a handler that is not idle has.
THEOREM TypeCorrect == Spec => []TypeOK
<1>1. IInv /\ OrderInv => TypeOK
  BY OrderTypeOK
<1> QED BY <1>1, Invariant, OrderInvariant, PTL

\* The n-th answer on the stream of a request is the one to its n-th message
\* (_respond_request_update, _send_on_stream): updates in one fragment or in several,
\* answers of the application in the callback or later, refusals, PUBLISH_DONE and the
\* end of the stream at every point.
THEOREM AnswersAreInOrder == Spec => []AnswersInOrder
<1>1. IInv /\ OrderInv => AnswersInOrder
  BY OrderAnswers
<1> QED BY <1>1, Invariant, OrderInvariant, PTL

=============================================================================
