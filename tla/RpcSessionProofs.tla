-------------------------- MODULE RpcSessionProofs --------------------------
(***************************************************************************)
(* A client of a session shows states the session really had and never goes*)
(* back, a terminal event finds room, and nothing is lost on the way to an *)
(* observer that is kept: for every number of clients, every capacity and  *)
(* every limit of numbers.                                                 *)
(***************************************************************************)
EXTENDS RpcSession, SequenceTheorems, TLAPS

-----------------------------------------------------------------------------
(* The invariant *)

\* What is between the actor and the client, in no order.
Elems(q) == {q[i] : i \in 1 .. Len(q)}
InWay(s) == Elems(s.queue) \cup Elems(s.sending) \cup Elems(s.buffer)

\* The client has a snapshot that it will show.
Answered(c) == Active(c) /\ (calls[c].answer = "snapshot" \/ calls[c].kind = "detach")

\* The actor whose changes the attachment a of client c carries.
Carries(c, a, life) ==
    \/ Watching(c) /\ a = clients[c].current /\ life = views[c].life
    \/ Answered(c) /\ a = Fresh(c) /\ life = calls[c].life

\* The identifier was not used yet, or its first answer is still to come.
Unused(c, a) ==
    \/ a > Fresh(c)
    \/ a = Fresh(c) /\ calls[c].kind = "open" /\ calls[c].answer = "none"

\* A view is a state of its actor; a snapshot is one that is no older.
ClientInv(c) ==
    /\ ~Active(c) => calls[c] = NoCall
    /\ calls[c].answer = "missing" => ~stored /\ calls[c].kind = "open"
    /\ calls[c].answer = "done" => calls[c].kind = "detach"
    /\ calls[c].answer = "snapshot" => calls[c].kind = "open"
    /\ clients[c].current <= Fresh(c)
    /\ views[c].life <= Actor
    /\ views[c].seen = UpTo(Len(views[c].seen))
    /\ views[c].life # 0 => Len(views[c].seen) <= lives[views[c].life]
    /\ Watching(c) => views[c].life # 0 /\ clients[c].expected = Sequence(Len(views[c].seen))
    /\ Answered(c) =>
         /\ calls[c].life \in 1 .. Actor /\ calls[c].life >= views[c].life
         /\ calls[c].changes <= lives[calls[c].life]
         /\ calls[c].life = views[c].life => calls[c].changes >= Len(views[c].seen)

\* What is on its way was made by the actor the attachment was made with, and
\* that is the last one as long as it keeps the observer.
StreamInv(c, a) ==
    /\ Unused(c, a) => streams[c][a] = NoStream
    /\ <<c, a>> \in observers =>
          streams[c][a].pump # "none" /\ Len(streams[c][a].queue) <= Capacity
    /\ \A e \in InWay(streams[c][a]) : e.kind = "deleted" => ~stored
    /\ \A life \in 1 .. Actor : Carries(c, a, life) =>
          /\ <<c, a>> \in observers => life = Actor
          /\ \A e \in InWay(streams[c][a]) : e.kind = "change" => e.sequence <= lives[life]

Inv ==
    /\ TypeOK
    /\ ~live /\ stored => Actor < MaxLives
    /\ \A c \in Clients : ClientInv(c) /\ \A a \in Attachments : StreamInv(c, a)

-----------------------------------------------------------------------------
(* Sequences of events *)

LEMMA ElemsOfAppend ==
    ASSUME NEW q \in Seq(Events), NEW e \in Events
    PROVE  Append(q, e) \in Seq(Events) /\ Len(Append(q, e)) = Len(q) + 1
           /\ Elems(Append(q, e)) \subseteq Elems(q) \cup {e}
<1>1. /\ Append(q, e) \in Seq(Events) /\ Len(Append(q, e)) = Len(q) + 1
      /\ \A i \in 1 .. Len(q) : Append(q, e)[i] = q[i]
      /\ Append(q, e)[Len(q) + 1] = e /\ Len(q) \in Nat
  BY AppendProperties, LenProperties
<1>2. ASSUME NEW i \in 1 .. Len(q) + 1 PROVE Append(q, e)[i] \in Elems(q) \cup {e}
  BY <1>1, <1>2 DEF Elems
<1> QED
  BY <1>1, <1>2 DEF Elems

LEMMA ElemsOfTail ==
    ASSUME NEW q \in Seq(Events), q # << >>
    PROVE  /\ Head(q) \in Events /\ Tail(q) \in Seq(Events) /\ Len(Tail(q)) = Len(q) - 1
           /\ Head(q) \in Elems(q) /\ Elems(Tail(q)) \subseteq Elems(q)
<1>1. /\ Head(q) \in Events /\ Tail(q) \in Seq(Events) /\ Len(Tail(q)) = Len(q) - 1
      /\ Len(q) \in Nat \ {0} /\ Head(q) = q[1]
      /\ \A i \in 1 .. Len(q) - 1 : Tail(q)[i] = q[i + 1]
  BY HeadTailProperties, EmptySeq, LenProperties
<1>2. ASSUME NEW i \in 1 .. Len(q) - 1 PROVE Tail(q)[i] \in Elems(q)
  BY <1>1, <1>2 DEF Elems
<1> QED
  BY <1>1, <1>2 DEF Elems

LEMMA ElemsOfShort ==
    /\ Elems(<< >>) = {}
    /\ \A e \in Events : <<e>> \in Seq(Events) /\ Len(<<e>>) = 1 /\ Elems(<<e>>) = {e}
<1>1. Elems(<< >>) = {}
  BY DEF Elems
<1>2. ASSUME NEW e \in Events
      PROVE  <<e>> \in Seq(Events) /\ Len(<<e>>) = 1 /\ Elems(<<e>>) = {e}
  BY <1>2 DEF Elems
<1> QED
  BY <1>1, <1>2

LEMMA UpToProperties ==
    ASSUME NEW n \in Nat
    PROVE  /\ UpTo(n) \in Seq(Nat) /\ Len(UpTo(n)) = n
           /\ Append(UpTo(n), n + 1) = UpTo(n + 1)
           /\ UpTo(0) = << >>
<1>1. UpTo(n) \in Seq(Nat) /\ Len(UpTo(n)) = n /\ \A i \in 1 .. n : UpTo(n)[i] = i
  BY DEF UpTo
<1>2. UpTo(n + 1) \in Seq(Nat) /\ Len(UpTo(n + 1)) = n + 1 /\ \A i \in 1 .. n + 1 : UpTo(n + 1)[i] = i
  BY DEF UpTo
<1>3. /\ Append(UpTo(n), n + 1) \in Seq(Nat) /\ Len(Append(UpTo(n), n + 1)) = n + 1
      /\ \A i \in 1 .. n : Append(UpTo(n), n + 1)[i] = UpTo(n)[i]
      /\ Append(UpTo(n), n + 1)[n + 1] = n + 1
  BY <1>1, AppendProperties
<1>4. Append(UpTo(n), n + 1) = UpTo(n + 1)
  <2>1. \A i \in 1 .. n + 1 : Append(UpTo(n), n + 1)[i] = UpTo(n + 1)[i]
    BY <1>1, <1>2, <1>3
  <2> QED
    BY <1>2, <1>3, <2>1, SeqEqual
<1>5. UpTo(0) = << >>
  <2>1. UpTo(0) \in Seq(Nat) /\ Len(UpTo(0)) = 0
    BY DEF UpTo
  <2> QED
    BY <2>1, EmptySeq
<1> QED
  BY <1>1, <1>4, <1>5

-----------------------------------------------------------------------------
(* One stream *)

Short(s) == Len(s.queue) <= Capacity + 1 /\ Len(s.sending) <= 1 /\ Len(s.buffer) <= ClientCapacity

\* s becomes t, with nothing on its way but what was, or has been garbled.
Moves(s, t) ==
    /\ t \in Streams /\ Short(t) /\ t.pump # "none"
    /\ Len(t.queue) <= Len(s.queue)
    /\ \A e \in InWay(t) : e \in InWay(s) \/ e.kind = "garbled"

LEMMA NoStreamProperties ==
    /\ NoStream \in Streams /\ Short(NoStream) /\ InWay(NoStream) = {} /\ NoStream.pump = "none"
    /\ NoStream.queue = << >> /\ Len(NoStream.queue) = 0
<1>1. Elems(<< >>) = {}
  BY ElemsOfShort
<1>2. << >> \in Seq(Events) /\ Len(<< >>) = 0
  OBVIOUS
<1> QED
  BY <1>1, <1>2, RpcSessionAssumption DEF NoStream, Streams, Short, InWay

LEMMA EndedMoves ==
    ASSUME NEW s \in Streams, Short(s)
    PROVE  Moves(s, Ended(s)) /\ Ended(s).pump = "ended" /\ Ended(s).queue = << >>
<1>0. << >> \in Seq(Events) /\ "ended" \in {"none", "running", "ended"}
  OBVIOUS
<1>1. /\ Ended(s).queue = << >> /\ Ended(s).sending = << >> /\ Ended(s).buffer = s.buffer
      /\ Ended(s).pump = "ended" /\ Ended(s) \in Streams
  BY <1>0 DEF Streams, Ended
<1>2. Len(<< >>) = 0 /\ Len(s.queue) \in Nat
  BY DEF Streams
<1>3. Short(Ended(s))
  BY <1>1, <1>2, RpcSessionAssumption DEF Short
<1>4. InWay(Ended(s)) \subseteq InWay(s)
  BY <1>1, ElemsOfShort DEF InWay
<1> QED
  BY <1>1, <1>2, <1>3, <1>4 DEF Moves

LEMMA TakeMoves ==
    ASSUME NEW s \in Streams, Short(s), s.pump = "running", s.queue # << >>,
           NEW t, t = [s EXCEPT !.sending = <<Head(s.queue)>>, !.queue = Tail(@)]
    PROVE  Moves(s, t)
<1>1. /\ t.queue = Tail(s.queue) /\ t.sending = <<Head(s.queue)>> /\ t.buffer = s.buffer
      /\ t.pump = s.pump /\ s.queue \in Seq(Events)
  BY DEF Streams
<1>2. /\ Head(s.queue) \in Events /\ Tail(s.queue) \in Seq(Events)
      /\ Len(Tail(s.queue)) = Len(s.queue) - 1 /\ Head(s.queue) \in Elems(s.queue)
      /\ Elems(Tail(s.queue)) \subseteq Elems(s.queue)
  BY <1>1, ElemsOfTail
<1>3. <<Head(s.queue)>> \in Seq(Events) /\ Len(<<Head(s.queue)>>) = 1
      /\ Elems(<<Head(s.queue)>>) = {Head(s.queue)}
  BY <1>2, ElemsOfShort
<1>4. Len(s.queue) \in Nat
  BY <1>1
<1>5. t \in Streams
  BY <1>2, <1>3 DEF Streams
<1>6. \A e \in InWay(t) : e \in InWay(s) \/ e.kind = "garbled"
  BY <1>1, <1>2, <1>3, ElemsOfShort DEF InWay
<1>7. Short(t) /\ Len(t.queue) <= Len(s.queue)
  BY <1>1, <1>2, <1>3, <1>4, RpcSessionAssumption DEF Short
<1> QED
  BY <1>1, <1>4, <1>5, <1>6, <1>7 DEF Moves

LEMMA BufferMoves ==
    ASSUME NEW s \in Streams, Short(s), s.pump # "none", Len(s.buffer) < ClientCapacity,
           NEW e \in Events, e \in InWay(s) \/ e.kind = "garbled",
           NEW t, t = [s EXCEPT !.buffer = Append(@, e), !.sending = << >>]
    PROVE  Moves(s, t)
<1>1. /\ t.queue = s.queue /\ t.sending = << >> /\ t.buffer = Append(s.buffer, e)
      /\ t.pump = s.pump /\ s.buffer \in Seq(Events) /\ s.queue \in Seq(Events)
  BY DEF Streams
<1>2. /\ Append(s.buffer, e) \in Seq(Events) /\ Len(Append(s.buffer, e)) = Len(s.buffer) + 1
      /\ Elems(Append(s.buffer, e)) \subseteq Elems(s.buffer) \cup {e}
  BY <1>1, ElemsOfAppend
<1>3. Len(s.buffer) \in Nat /\ Len(s.queue) \in Nat /\ Len(<< >>) = 0
  BY <1>1
<1>4. t \in Streams
  <2>1. << >> \in Seq(Events)
    OBVIOUS
  <2> QED
    BY <1>2, <2>1 DEF Streams
<1>6. \A x \in InWay(t) : x \in InWay(s) \/ x.kind = "garbled"
  BY <1>1, <1>2, <1>3, ElemsOfShort DEF InWay
<1>7. Short(t) /\ Len(t.queue) <= Len(s.queue)
  BY <1>1, <1>2, <1>3, <1>4, RpcSessionAssumption DEF Short
<1> QED
  BY <1>1, <1>4, <1>6, <1>7 DEF Moves

LEMMA ReceiveMoves ==
    ASSUME NEW s \in Streams, Short(s), s.pump # "none", s.buffer # << >>,
           NEW t, t = [s EXCEPT !.buffer = Tail(s.buffer)]
    PROVE  Moves(s, t) /\ Head(s.buffer) \in Events /\ Head(s.buffer) \in InWay(s)
<1>1. /\ t.queue = s.queue /\ t.sending = s.sending /\ t.buffer = Tail(s.buffer)
      /\ t.pump = s.pump /\ s.buffer \in Seq(Events) /\ s.queue \in Seq(Events)
  BY DEF Streams
<1>2. /\ Head(s.buffer) \in Events /\ Tail(s.buffer) \in Seq(Events)
      /\ Len(Tail(s.buffer)) = Len(s.buffer) - 1 /\ Head(s.buffer) \in Elems(s.buffer)
      /\ Elems(Tail(s.buffer)) \subseteq Elems(s.buffer)
  BY <1>1, ElemsOfTail
<1>3. Len(s.buffer) \in Nat /\ Len(s.queue) \in Nat
  BY <1>1
<1>4. t \in Streams
  BY <1>2 DEF Streams
<1> QED
  BY SMTT(30), <1>1, <1>2, <1>3, <1>4, RpcSessionAssumption DEF Moves, Short, InWay

LEMMA SentMoves ==
    ASSUME NEW s \in Streams, Short(s), s.pump # "none", Len(s.queue) <= Capacity, NEW e \in Events,
           NEW t, t = [s EXCEPT !.queue = Append(@, e)]
    PROVE  /\ t \in Streams /\ Short(t) /\ t.pump # "none" /\ Len(t.queue) = Len(s.queue) + 1
           /\ InWay(t) \subseteq InWay(s) \cup {e}
<1>1. /\ t.queue = Append(s.queue, e) /\ t.sending = s.sending /\ t.buffer = s.buffer
      /\ t.pump = s.pump /\ s.queue \in Seq(Events)
  BY DEF Streams
<1>2. /\ Append(s.queue, e) \in Seq(Events) /\ Len(Append(s.queue, e)) = Len(s.queue) + 1
      /\ Elems(Append(s.queue, e)) \subseteq Elems(s.queue) \cup {e}
  BY <1>1, ElemsOfAppend
<1>3. Len(s.queue) \in Nat
  BY <1>1
<1>4. t \in Streams
  BY <1>2 DEF Streams
<1> QED
  BY <1>1, <1>2, <1>3, <1>4, RpcSessionAssumption DEF Short, InWay

-----------------------------------------------------------------------------
(* What a step leaves alone *)

ServerTypes ==
    /\ lives \in Seq(0 .. MaxChanges) /\ Actor \in 1 .. MaxLives
    /\ live \in BOOLEAN /\ stored \in BOOLEAN /\ (~stored => ~live)
    /\ observers \subseteq Clients \X Attachments /\ (~live => observers = {})
    /\ link \in [Clients -> {"up", "lost", "gone"}]

StreamTypes ==
    /\ streams \in [Clients -> [Attachments -> Streams]]
    /\ \A c \in Clients : \A a \in Attachments :
          Short(streams[c][a]) /\ (streams[c][a].pump = "none" <=> streams[c][a] = NoStream)

ClientTypes ==
    /\ calls \in [Clients -> Snapshots] /\ clients \in [Clients -> ClientStates]
    /\ \A c \in Clients : Watching(c) => calls[c] = NoCall /\ Fresh(c) = clients[c].current
    /\ views \in [Clients -> [life : 0 .. MaxLives, seen : Seq(Nat)]]

LEMMA Types == TypeOK <=> ServerTypes /\ StreamTypes /\ ClientTypes
  BY DEF TypeOK, ServerTypes, StreamTypes, ClientTypes, Short

\* Actors are added, their changes get more, and a deletion is for good.
Grows ==
    /\ lives' \in Seq(0 .. MaxChanges) /\ Len(lives') \in 1 .. MaxLives /\ Len(lives) <= Len(lives')
    /\ \A i \in 1 .. Len(lives) : lives[i] <= lives'[i]
    /\ stored' => stored

SameClient(c) == clients'[c] = clients[c] /\ calls'[c] = calls[c] /\ views'[c] = views[c]

LEMMA ClientFacts ==
    ASSUME Inv, NEW c \in Clients
    PROVE  /\ clients[c] \in ClientStates /\ calls[c] \in Snapshots /\ ClientInv(c)
           /\ views[c] \in [life : 0 .. MaxLives, seen : Seq(Nat)]
           /\ views[c].life \in 0 .. Actor /\ Len(views[c].seen) \in Nat
           /\ Fresh(c) \in Attachments /\ clients[c].current \in Nat
           /\ lives \in Seq(0 .. MaxChanges) /\ Actor \in 1 .. MaxLives /\ Actor \in Nat
           /\ \A i \in 1 .. Actor : lives[i] \in 0 .. MaxChanges /\ lives[i] \in Nat
           /\ calls[c].life \in Nat /\ calls[c].changes \in Nat
           /\ calls[c].changes \in 0 .. MaxChanges /\ calls[c].life \in 0 .. MaxLives
<1>1. TypeOK /\ ClientInv(c)
  BY DEF Inv
<1>2. /\ lives \in Seq(0 .. MaxChanges) /\ Actor \in 1 .. MaxLives /\ Actor \in Nat
      /\ clients[c] \in ClientStates /\ calls[c] \in Snapshots
      /\ views[c] \in [life : 0 .. MaxLives, seen : Seq(Nat)]
  BY <1>1, RpcSessionAssumption DEF TypeOK
<1>3. \A i \in 1 .. Actor : lives[i] \in 0 .. MaxChanges /\ lives[i] \in Nat
  BY <1>2, RpcSessionAssumption DEF Actor
<1>4. Len(views[c].seen) \in Nat
  BY <1>2
<1>5. /\ Fresh(c) \in Attachments /\ clients[c].current \in Nat
      /\ calls[c].life \in 0 .. MaxLives /\ calls[c].changes \in 0 .. MaxChanges
      /\ calls[c].life \in Nat /\ calls[c].changes \in Nat
  BY SMTT(30), <1>2, RpcSessionAssumption DEF Fresh, ClientStates, Snapshots
<1> QED
  BY <1>1, <1>2, <1>3, <1>4, <1>5, RpcSessionAssumption DEF ClientInv

LEMMA StreamFacts ==
    ASSUME Inv, NEW c \in Clients, NEW a \in Attachments
    PROVE  /\ streams[c][a] \in Streams /\ Short(streams[c][a]) /\ StreamInv(c, a)
           /\ streams[c][a].pump = "none" <=> streams[c][a] = NoStream
           /\ Len(streams[c][a].queue) \in Nat /\ Len(streams[c][a].buffer) \in Nat
           /\ InWay(streams[c][a]) \subseteq Events
  <1>1. /\ streams[c][a] \in Streams /\ Short(streams[c][a]) /\ StreamInv(c, a)
        /\ streams[c][a].pump = "none" <=> streams[c][a] = NoStream
    BY Types DEF Inv, StreamTypes
  <1>2. /\ streams[c][a].queue \in Seq(Events) /\ streams[c][a].sending \in Seq(Events)
        /\ streams[c][a].buffer \in Seq(Events)
    BY <1>1 DEF Streams
  <1>3. \A q \in Seq(Events) : Elems(q) \subseteq Events /\ Len(q) \in Nat
    BY DEF Elems
  <1> QED
    BY <1>1, <1>2, <1>3 DEF InWay

LEMMA ClientStays ==
    ASSUME Inv, NEW c \in Clients, SameClient(c), Grows
    PROVE  ClientInv(c)'
<1>1. /\ Active(c)' = Active(c) /\ Fresh(c)' = Fresh(c) /\ Watching(c)' = Watching(c)
      /\ Answered(c)' = Answered(c)
  BY DEF SameClient, Active, Fresh, Watching, Answered
<1>2. Actor \in Nat /\ Actor' \in Nat /\ Actor <= Actor'
  BY ClientFacts, RpcSessionAssumption DEF Grows, Actor
<1>3. \A i \in 1 .. Actor : lives'[i] \in Nat /\ lives[i] <= lives'[i] /\ i \in 1 .. Actor'
  BY SMTT(30), ClientFacts, <1>2, RpcSessionAssumption DEF Grows, Actor
<1>4. views[c].life # 0 => views[c].life \in 1 .. Actor
  BY ClientFacts
<1>5. ClientInv(c) /\ clients'[c] = clients[c] /\ calls'[c] = calls[c] /\ views'[c] = views[c]
  BY ClientFacts DEF SameClient
<1>6. /\ views'[c].life <= Actor'
      /\ views'[c].life # 0 => Len(views'[c].seen) <= lives'[views'[c].life]
  BY SMTT(30), <1>2, <1>3, <1>4, <1>5, ClientFacts DEF ClientInv
<1>7. Answered(c)' =>
         /\ calls'[c].life \in 1 .. Actor' /\ calls'[c].life >= views'[c].life
         /\ calls'[c].changes <= lives'[calls'[c].life]
         /\ calls'[c].life = views'[c].life => calls'[c].changes >= Len(views'[c].seen)
  BY SMTT(30), <1>1, <1>2, <1>3, <1>5, ClientFacts DEF ClientInv
<1>8. Watching(c)' => views'[c].life # 0 /\ clients'[c].expected = Sequence(Len(views'[c].seen))
  BY <1>1, <1>5 DEF ClientInv
<1>9. /\ ~Active(c)' => calls'[c] = NoCall
      /\ calls'[c].answer = "missing" => ~stored' /\ calls'[c].kind = "open"
      /\ calls'[c].answer = "done" => calls'[c].kind = "detach"
      /\ calls'[c].answer = "snapshot" => calls'[c].kind = "open"
      /\ clients'[c].current <= Fresh(c)'
      /\ views'[c].seen = UpTo(Len(views'[c].seen))
  BY <1>1, <1>5 DEF ClientInv, Grows
<1> QED
  BY <1>6, <1>7, <1>8, <1>9 DEF ClientInv

LEMMA StreamStays ==
    ASSUME Inv, NEW c \in Clients, NEW a \in Attachments, SameClient(c), Grows,
           \/ streams'[c][a] = streams[c][a]
           \/ /\ streams[c][a].pump # "none"
              /\ Len(streams'[c][a].queue) <= Len(streams[c][a].queue)
              /\ Len(streams'[c][a].queue) \in Nat
              /\ streams'[c][a].pump # "none"
              /\ \A e \in InWay(streams'[c][a]) : e \in InWay(streams[c][a]) \/ e.kind = "garbled",
           <<c, a>> \in observers' => <<c, a>> \in observers /\ Len(lives') = Len(lives)
    PROVE  StreamInv(c, a)'
<1>1. /\ Fresh(c)' = Fresh(c) /\ Unused(c, a)' = Unused(c, a)
      /\ \A life : Carries(c, a, life)' = Carries(c, a, life)
  BY DEF SameClient, Active, Fresh, Watching, Answered, Unused, Carries
<1>2. Actor \in Nat /\ Actor' \in Nat /\ Actor <= Actor'
  BY ClientFacts, RpcSessionAssumption DEF Grows, Actor
<1>3. \A i \in 1 .. Actor : lives'[i] \in Nat /\ lives[i] <= lives'[i] /\ lives[i] \in Nat
  BY SMTT(30), ClientFacts, <1>2, RpcSessionAssumption DEF Grows, Actor
<1>4. \A life : Carries(c, a, life) => life \in 1 .. Actor
  BY ClientFacts, <1>2 DEF Carries, ClientInv
<1>5. Unused(c, a) => streams'[c][a] = NoStream
  BY StreamFacts DEF StreamInv
<1>6. \A e \in InWay(streams'[c][a]) : e \in InWay(streams[c][a]) \/ e.kind = "garbled"
  OBVIOUS
<1>7. <<c, a>> \in observers' => streams'[c][a].pump # "none" /\ Len(streams'[c][a].queue) <= Capacity
  BY StreamFacts, RpcSessionAssumption DEF StreamInv
<1>8. \A e \in InWay(streams'[c][a]) : e.kind = "deleted" => ~stored'
  BY <1>6, StreamFacts DEF StreamInv, Grows
<1>9. ASSUME NEW life \in 1 .. Actor', Carries(c, a, life)
      PROVE  /\ <<c, a>> \in observers' => life = Actor'
             /\ \A e \in InWay(streams'[c][a]) : e.kind = "change" => e.sequence <= lives'[life]
  <2>1. life \in 1 .. Actor
    BY <1>4, <1>9
  <2>2. <<c, a>> \in observers' => life = Actor'
    BY <1>9, <2>1, StreamFacts DEF StreamInv, Actor
  <2>3. ASSUME NEW e \in InWay(streams'[c][a]), e.kind = "change" PROVE e.sequence <= lives'[life]
    <3>1. e \in InWay(streams[c][a]) /\ e \in Events
      BY <1>6, <2>3, StreamFacts
    <3>2. e.sequence <= lives[life] /\ e.sequence \in Nat
      BY <1>9, <2>1, <2>3, <3>1, StreamFacts, RpcSessionAssumption DEF StreamInv, Events
    <3> QED
      BY <1>3, <2>1, <3>2
  <2> QED
    BY <2>2, <2>3
<1> QED
  BY <1>1, <1>5, <1>7, <1>8, <1>9 DEF StreamInv

LEMMA StaysGrown == ASSUME Inv, UNCHANGED <<lives, stored>> PROVE Grows
<1>1. lives \in Seq(0 .. MaxChanges) /\ Actor \in 1 .. MaxLives
  BY Types DEF Inv, ServerTypes
<1>2. Len(lives) \in Nat /\ \A i \in 1 .. Len(lives) : lives[i] \in Nat
  BY <1>1, RpcSessionAssumption
<1> QED
  BY <1>1, <1>2 DEF Grows, Actor

-----------------------------------------------------------------------------
(* The delivery tasks and the connection *)

\* Streams move on, and nothing else but which observers there are.
LEMMA DeliveryKeeps ==
    ASSUME Inv, UNCHANGED <<lives, live, stored, calls, clients, views>>,
           observers' \subseteq observers, link' \in [Clients -> {"up", "lost", "gone"}],
           streams' \in [Clients -> [Attachments -> Streams]],
           \A c \in Clients : \A a \in Attachments :
              \/ streams'[c][a] = streams[c][a]
              \/ Moves(streams[c][a], streams'[c][a]) /\ streams[c][a].pump # "none"
    PROVE  Inv'
<1>1. Grows
  BY StaysGrown
<1>2. ASSUME NEW c \in Clients PROVE ClientInv(c)' /\ SameClient(c)
  BY <1>1, <1>2, ClientStays DEF SameClient
<1>3. ASSUME NEW c \in Clients, NEW a \in Attachments
      PROVE  /\ StreamInv(c, a)' /\ Short(streams'[c][a])
             /\ streams'[c][a].pump = "none" <=> streams'[c][a] = NoStream
  <2>1. CASE streams'[c][a] = streams[c][a]
    BY ZenonT(60), <1>1, <1>2, <2>1, StreamFacts, StreamStays
  <2>2. CASE Moves(streams[c][a], streams'[c][a]) /\ streams[c][a].pump # "none"
    <3>1. /\ Short(streams'[c][a]) /\ streams'[c][a].pump # "none" /\ streams[c][a].pump # "none"
          /\ Len(streams'[c][a].queue) <= Len(streams[c][a].queue)
          /\ \A e \in InWay(streams'[c][a]) : e \in InWay(streams[c][a]) \/ e.kind = "garbled"
          /\ streams'[c][a] \in Streams
      BY <2>2 DEF Moves
    <3>2. Len(streams'[c][a].queue) \in Nat
      BY <3>1 DEF Streams
    <3>3. StreamInv(c, a)'
      BY <1>1, <1>2, <3>1, <3>2, StreamStays
    <3> QED
      BY <3>1, <3>3, NoStreamProperties
  <2> QED
    BY <2>1, <2>2
<1>4. TypeOK'
  <2>1. ServerTypes'
    BY Types DEF Inv, ServerTypes, Actor
  <2>2. StreamTypes'
    BY <1>3 DEF StreamTypes
  <2>3. ClientTypes'
    BY Types DEF Inv, ClientTypes, Watching, Active, Fresh
  <2> QED
    BY <2>1, <2>2, <2>3, Types DEF TypeOK, ServerTypes, StreamTypes, ClientTypes, Short
<1>5. ~live' /\ stored' => Actor' < MaxLives
  BY DEF Inv, Actor
<1> QED
  BY <1>2, <1>3, <1>4, <1>5 DEF Inv

\* One stream moves on.
LEMMA OneStreamKeeps ==
    ASSUME Inv, NEW c \in Clients, NEW a \in Attachments, NEW t,
           UNCHANGED <<lives, live, stored, observers, link, calls, clients, views>>,
           streams' = [streams EXCEPT ![c][a] = t],
           Moves(streams[c][a], t), streams[c][a].pump # "none"
    PROVE  Inv'
<1>1. streams \in [Clients -> [Attachments -> Streams]] /\ t \in Streams
      /\ link \in [Clients -> {"up", "lost", "gone"}]
  BY Types DEF Inv, StreamTypes, ServerTypes, Moves
<1>2. streams' \in [Clients -> [Attachments -> Streams]] /\ streams'[c][a] = t
  BY <1>1
<1>3. \A d \in Clients : \A b \in Attachments : ~(d = c /\ b = a) => streams'[d][b] = streams[d][b]
  BY <1>1
<1> QED
  BY <1>1, <1>2, <1>3, DeliveryKeeps

LEMMA TakeKeeps ==
    ASSUME Inv, NEW c \in Clients, NEW a \in Attachments, Take(c, a)
    PROVE  Inv'
<1> DEFINE s == streams[c][a]
           t == [s EXCEPT !.sending = <<Head(s.queue)>>, !.queue = Tail(@)]
<1>1. s \in Streams /\ Short(s) /\ s.pump = "running" /\ s.queue # << >>
  BY StreamFacts DEF Take
<1>2. Moves(s, t) /\ Moves(s, Ended(s))
  BY <1>1, TakeMoves, EndedMoves
<1>3. \/ streams' = [streams EXCEPT ![c][a] = t]
      \/ streams' = [streams EXCEPT ![c][a] = Ended(s)]
  BY DEF Take
<1>4. UNCHANGED <<lives, live, stored, observers, link, calls, clients, views>>
  BY DEF Take
<1> HIDE DEF t
<1>5. CASE streams' = [streams EXCEPT ![c][a] = t]
  BY <1>1, <1>2, <1>4, <1>5, OneStreamKeeps
<1>6. CASE streams' = [streams EXCEPT ![c][a] = Ended(s)]
  BY <1>1, <1>2, <1>4, <1>6, OneStreamKeeps
<1> QED
  BY <1>3, <1>5, <1>6

LEMMA PumpEndsKeeps ==
    ASSUME Inv, NEW c \in Clients, NEW a \in Attachments, PumpEnds(c, a)
    PROVE  Inv'
<1> DEFINE s == streams[c][a]
<1>1. s \in Streams /\ Short(s) /\ s.pump = "running"
  BY StreamFacts DEF PumpEnds
<1>2. Moves(s, Ended(s))
  BY <1>1, EndedMoves
<1>3. /\ streams' = [streams EXCEPT ![c][a] = Ended(s)]
      /\ UNCHANGED <<lives, live, stored, observers, link, calls, clients, views>>
  BY DEF PumpEnds
<1> QED
  BY <1>1, <1>2, <1>3, OneStreamKeeps

LEMMA PublishKeeps ==
    ASSUME Inv, NEW c \in Clients, NEW a \in Attachments, Publish(c, a)
    PROVE  Inv'
<1> DEFINE s == streams[c][a]
           event == s.sending[1]
           Buffered(e) == [s EXCEPT !.buffer = Append(@, e), !.sending = << >>]
           garbled == [event EXCEPT !.kind = "garbled"]
<1>1. s \in Streams /\ Short(s) /\ s.sending # << >> /\ s.sending \in Seq(Events)
  BY StreamFacts DEF Publish, Streams
<1>2. s.pump # "none"
  BY <1>1, StreamFacts DEF NoStream
<1>3. event \in Events /\ event \in InWay(s)
  <2>1. Len(s.sending) \in Nat \ {0}
    BY <1>1, EmptySeq, LenProperties
  <2> QED
    BY <1>1, <2>1 DEF InWay, Elems
<1>4. garbled \in Events /\ garbled.kind = "garbled"
  BY <1>3 DEF Events
<1>5. ASSUME NEW e \in Events, e \in InWay(s) \/ e.kind = "garbled", Len(s.buffer) < ClientCapacity
      PROVE  Moves(s, Buffered(e)) /\ Moves(s, Ended(Buffered(e)))
  <2> DEFINE t == Buffered(e)
  <2>1. Moves(s, t)
    BY <1>1, <1>2, <1>5, BufferMoves
  <2> HIDE DEF t
  <2>2. Moves(t, Ended(t))
    BY <2>1, EndedMoves DEF Moves
  <2>3. Len(s.queue) \in Nat /\ Len(t.queue) \in Nat /\ Len(Ended(t).queue) \in Nat
    BY <1>1, <2>1, <2>2 DEF Moves, Streams
  <2>4. Moves(s, Ended(t))
    BY <2>1, <2>2, <2>3 DEF Moves
  <2> QED
    BY <2>1, <2>4 DEF t
<1>6. PICK t : streams' = [streams EXCEPT ![c][a] = t] /\ Moves(s, t)
  <2>1. CASE Len(s.buffer) < ClientCapacity /\ streams' = [streams EXCEPT ![c][a] = Buffered(event)]
    BY <1>3, <1>5, <2>1
  <2>2. CASE Len(s.buffer) < ClientCapacity /\ streams' = [streams EXCEPT ![c][a] = Ended(Buffered(event))]
    BY <1>3, <1>5, <2>2
  <2>3. CASE Len(s.buffer) < ClientCapacity /\ streams' = [streams EXCEPT ![c][a] = Ended(Buffered(garbled))]
    BY <1>4, <1>5, <2>3
  <2>4. CASE streams' = [streams EXCEPT ![c][a] = Ended(s)]
    BY <1>1, <2>4, EndedMoves
  <2> QED
    BY <2>1, <2>2, <2>3, <2>4 DEF Publish
<1>7. UNCHANGED <<lives, live, stored, observers, link, calls, clients, views>>
  BY DEF Publish
<1> QED
  BY <1>2, <1>6, <1>7, OneStreamKeeps

LEMMA DisconnectKeeps ==
    ASSUME Inv, NEW c \in Clients, Disconnect(c)
    PROVE  Inv'
<1> DEFINE after == [a \in Attachments |->
                       IF streams[c][a].pump = "running" THEN Ended(streams[c][a]) ELSE streams[c][a]]
<1>1. /\ streams' = [streams EXCEPT ![c] = after] /\ link' = [link EXCEPT ![c] = "lost"]
      /\ UNCHANGED <<lives, live, stored, observers, calls, clients, views>>
  BY DEF Disconnect
<1>2. /\ streams \in [Clients -> [Attachments -> Streams]]
      /\ link \in [Clients -> {"up", "lost", "gone"}]
  BY Types DEF Inv, StreamTypes, ServerTypes
<1>3. ASSUME NEW a \in Attachments
      PROVE  \/ after[a] = streams[c][a]
             \/ Moves(streams[c][a], after[a]) /\ streams[c][a].pump # "none"
  BY StreamFacts, EndedMoves
<1>4. after \in [Attachments -> Streams]
  BY <1>2, <1>3 DEF Moves
<1>5. streams' \in [Clients -> [Attachments -> Streams]] /\ link' \in [Clients -> {"up", "lost", "gone"}]
  BY <1>1, <1>2, <1>4
<1>6. \A d \in Clients : \A a \in Attachments :
        \/ streams'[d][a] = streams[d][a]
        \/ Moves(streams[d][a], streams'[d][a]) /\ streams[d][a].pump # "none"
  BY <1>1, <1>2, <1>3
<1> QED
  BY <1>1, <1>5, <1>6, DeliveryKeeps

LEMMA DetachConnectionKeeps ==
    ASSUME Inv, NEW c \in Clients, DetachConnection(c)
    PROVE  Inv'
<1>1. /\ link \in [Clients -> {"up", "lost", "gone"}] /\ streams \in [Clients -> [Attachments -> Streams]]
  BY Types DEF Inv, StreamTypes, ServerTypes
<1> QED
  BY <1>1, DeliveryKeeps DEF DetachConnection

-----------------------------------------------------------------------------
(* The actor *)

\* No client moves, no actor is added, and streams of observers get an event.
LEMMA ActorKeeps ==
    ASSUME Inv, Grows, Len(lives') = Len(lives), UNCHANGED <<link, calls, clients, views>>,
           observers' \subseteq observers, live' \in BOOLEAN, stored' \in BOOLEAN,
           ~stored' => ~live', ~live' => observers' = {},
           ~live' /\ stored' => Actor < MaxLives,
           streams' \in [Clients -> [Attachments -> Streams]],
           \A c \in Clients : \A a \in Attachments :
              \/ streams'[c][a] = streams[c][a]
              \/ StreamInv(c, a)' /\ Short(streams'[c][a]) /\ streams'[c][a].pump # "none"
    PROVE  Inv'
<1>1. Actor' = Actor
  BY DEF Actor
<1>2. ASSUME NEW c \in Clients PROVE ClientInv(c)' /\ SameClient(c)
  BY <1>2, ClientStays DEF SameClient
<1>3. ASSUME NEW c \in Clients, NEW a \in Attachments
      PROVE  /\ StreamInv(c, a)' /\ Short(streams'[c][a])
             /\ streams'[c][a].pump = "none" <=> streams'[c][a] = NoStream
  <2>1. CASE streams'[c][a] = streams[c][a]
    BY <1>2, <2>1, StreamFacts, StreamStays
  <2>2. CASE StreamInv(c, a)' /\ Short(streams'[c][a]) /\ streams'[c][a].pump # "none"
    BY <2>2, NoStreamProperties
  <2> QED
    BY <2>1, <2>2
<1>4. TypeOK'
  <2>1. ServerTypes'
    BY <1>1, Types DEF Inv, ServerTypes, Grows, Actor
  <2>2. StreamTypes'
    BY <1>3 DEF StreamTypes
  <2>3. ClientTypes'
    BY Types DEF Inv, ClientTypes, Watching, Active, Fresh
  <2> QED
    BY <2>1, <2>2, <2>3, Types DEF TypeOK, ServerTypes, StreamTypes, ClientTypes, Short
<1> QED
  BY <1>1, <1>2, <1>3, <1>4 DEF Inv

\* The observers that get an event have room for it.
LEMMA SentFacts ==
    ASSUME Inv, NEW to, to \subseteq observers, NEW e \in Events, streams' = Sent(to, e)
    PROVE  /\ streams' \in [Clients -> [Attachments -> Streams]]
           /\ \A c \in Clients : \A a \in Attachments : <<c, a>> \in to =>
                /\ Short(streams'[c][a]) /\ streams'[c][a].pump # "none"
                /\ Len(streams'[c][a].queue) = Len(streams[c][a].queue) + 1
                /\ InWay(streams'[c][a]) \subseteq InWay(streams[c][a]) \cup {e}
           /\ \A c \in Clients : \A a \in Attachments :
                <<c, a>> \notin to => streams'[c][a] = streams[c][a]
<1>1. ASSUME NEW c \in Clients, NEW a \in Attachments, <<c, a>> \in to,
             NEW t, t = [streams[c][a] EXCEPT !.queue = Append(@, e)]
      PROVE  /\ t \in Streams /\ Short(t) /\ t.pump # "none"
             /\ Len(t.queue) = Len(streams[c][a].queue) + 1
             /\ InWay(t) \subseteq InWay(streams[c][a]) \cup {e}
  <2> DEFINE s == streams[c][a]
  <2>1. s \in Streams /\ Short(s) /\ s.pump # "none" /\ Len(s.queue) <= Capacity
    BY <1>1, StreamFacts DEF StreamInv
  <2>2. t = [s EXCEPT !.queue = Append(@, e)]
    BY <1>1
  <2> HIDE DEF s
  <2>3. /\ t \in Streams /\ Short(t) /\ t.pump # "none" /\ Len(t.queue) = Len(s.queue) + 1
        /\ InWay(t) \subseteq InWay(s) \cup {e}
    BY <2>1, <2>2, SentMoves
  <2> QED
    BY <2>3 DEF s
<1>2. ASSUME NEW c \in Clients, NEW a \in Attachments
      PROVE  streams'[c][a] = IF <<c, a>> \in to THEN [streams[c][a] EXCEPT !.queue = Append(@, e)]
                                                 ELSE streams[c][a]
  BY DEF Sent
<1>3. ASSUME NEW c \in Clients, NEW a \in Attachments PROVE streams'[c][a] \in Streams
  <2>1. CASE <<c, a>> \in to
    BY <1>1, <1>2, <2>1
  <2>2. CASE <<c, a>> \notin to
    BY <1>2, <2>2, StreamFacts
  <2> QED
    BY <2>1, <2>2
<1>4. streams' \in [Clients -> [Attachments -> Streams]]
  <2>1. ASSUME NEW c \in Clients PROVE streams'[c] \in [Attachments -> Streams]
    BY <1>3 DEF Sent
  <2> QED
    BY <2>1 DEF Sent
<1>5. ASSUME NEW c \in Clients, NEW a \in Attachments, <<c, a>> \in to
      PROVE  /\ Short(streams'[c][a]) /\ streams'[c][a].pump # "none"
             /\ Len(streams'[c][a].queue) = Len(streams[c][a].queue) + 1
             /\ InWay(streams'[c][a]) \subseteq InWay(streams[c][a]) \cup {e}
  BY ZenonT(60), <1>1, <1>2, <1>5
<1> QED
  BY <1>2, <1>4, <1>5

LEMMA LastGrows ==
    ASSUME Inv, lives[Actor] < MaxChanges, lives' = [lives EXCEPT ![Actor] = @ + 1], stored' => stored
    PROVE  /\ Grows /\ Len(lives') = Len(lives) /\ lives'[Actor] = lives[Actor] + 1
           /\ \A i \in 1 .. Actor : i # Actor => lives'[i] = lives[i]
<1>1. lives \in Seq(0 .. MaxChanges) /\ Actor \in 1 .. MaxLives
  BY Types DEF Inv, ServerTypes
<1>2. Len(lives) \in Nat /\ Actor \in 1 .. Len(lives) /\ \A i \in 1 .. Len(lives) : lives[i] \in 0 .. MaxChanges
  BY <1>1, RpcSessionAssumption DEF Actor
<1>3. lives[Actor] + 1 \in 0 .. MaxChanges
  BY <1>2, RpcSessionAssumption
<1>4. lives' \in Seq(0 .. MaxChanges) /\ Len(lives') = Len(lives)
  BY <1>1, <1>2, <1>3, ExceptSeq
<1>5. lives'[Actor] = lives[Actor] + 1 /\ \A i \in 1 .. Len(lives) : i # Actor => lives'[i] = lives[i]
  BY <1>2, <1>3, ExceptSeq
<1>6. \A i \in 1 .. Len(lives) : lives[i] <= lives'[i]
  BY <1>2, <1>5, RpcSessionAssumption
<1>7. Len(lives') \in 1 .. MaxLives
  BY <1>1, <1>4 DEF Actor
<1>8. Grows
  BY <1>2, <1>4, <1>6, <1>7 DEF Grows
<1>9. \A i \in 1 .. Actor : i # Actor => lives'[i] = lives[i]
  BY <1>5 DEF Actor
<1> QED
  BY <1>4, <1>5, <1>8, <1>9

LEMMA ChangeKeeps == ASSUME Inv, Change PROVE Inv'
<1>1. /\ Grows /\ Len(lives') = Len(lives) /\ lives'[Actor] = lives[Actor] + 1
      /\ \A i \in 1 .. Actor : i # Actor => lives'[i] = lives[i]
  BY LastGrows DEF Change
<1>2. /\ UNCHANGED <<live, stored, link, calls, clients, views>>
      /\ live' \in BOOLEAN /\ stored' \in BOOLEAN /\ live /\ (~stored' => ~live')
  BY Types DEF Inv, ServerTypes, Change
<1>3. CASE observers' = {} /\ UNCHANGED streams
  <2>1. streams' \in [Clients -> [Attachments -> Streams]]
    BY <1>3, Types DEF Inv, StreamTypes
  <2> QED
    BY <1>1, <1>2, <1>3, <2>1, ActorKeeps
<1>4. CASE lives[Actor] < MaxSequence /\ Broadcast(Event(lives[Actor] + 1))
  <2> DEFINE kept == {o \in observers : HasRoom(o) /\ Connected(o)}
             e == Event(lives[Actor] + 1)
  <2>1. observers' = kept /\ streams' = Sent(kept, e) /\ kept \subseteq observers
    BY <1>4 DEF Broadcast
  <2>0. \A o \in kept : HasRoom(o)
    OBVIOUS
  <2>2. lives[Actor] \in Nat /\ Actor \in 1 .. Actor
    <3>1. lives \in Seq(0 .. MaxChanges) /\ Actor \in 1 .. MaxLives
      BY Types DEF Inv, ServerTypes
    <3> QED
      BY <3>1, RpcSessionAssumption DEF Actor
  <2>3. e \in Events /\ e.kind = "change" /\ e.sequence = lives[Actor] + 1
    BY <1>4, <2>2, RpcSessionAssumption DEF Event, Events
  <2> HIDE DEF e, kept
  <2>7. /\ streams' \in [Clients -> [Attachments -> Streams]]
        /\ \A c \in Clients : \A a \in Attachments : <<c, a>> \in kept =>
                /\ Short(streams'[c][a]) /\ streams'[c][a].pump # "none"
                /\ Len(streams'[c][a].queue) = Len(streams[c][a].queue) + 1
                /\ InWay(streams'[c][a]) \subseteq InWay(streams[c][a]) \cup {e}
        /\ \A c \in Clients : \A a \in Attachments :
                <<c, a>> \notin kept => streams'[c][a] = streams[c][a]
    BY <2>1, <2>3, SentFacts
  <2>4. ASSUME NEW c \in Clients, NEW a \in Attachments, <<c, a>> \in kept
        PROVE  StreamInv(c, a)'
    <3>1. /\ Short(streams'[c][a]) /\ streams'[c][a].pump # "none"
          /\ Len(streams'[c][a].queue) = Len(streams[c][a].queue) + 1
          /\ InWay(streams'[c][a]) \subseteq InWay(streams[c][a]) \cup {e}
      BY <2>4, <2>7
    <3>2. Len(streams[c][a].queue) < Capacity /\ Len(streams[c][a].queue) \in Nat
      BY <2>0, <2>4, StreamFacts DEF HasRoom
    <3>3. /\ Fresh(c)' = Fresh(c) /\ Unused(c, a)' = Unused(c, a) /\ Actor' = Actor
          /\ \A life : Carries(c, a, life)' = Carries(c, a, life)
      BY <1>1, <1>2 DEF Active, Fresh, Watching, Answered, Unused, Carries, Actor
    <3>4. StreamInv(c, a) /\ <<c, a>> \in observers /\ streams[c][a].pump # "none"
      BY <2>1, <2>4, StreamFacts DEF StreamInv
    <3>5. ~Unused(c, a)
      BY <3>4, NoStreamProperties DEF StreamInv
    <3>6. ASSUME NEW x \in InWay(streams'[c][a]), x.kind = "deleted" PROVE ~stored'
      BY <1>2, <2>3, <3>1, <3>4, <3>6 DEF StreamInv
    <3>7. ASSUME NEW life \in 1 .. Actor, Carries(c, a, life)
          PROVE  /\ life = Actor
                 /\ \A x \in InWay(streams'[c][a]) : x.kind = "change" => x.sequence <= lives'[life]
      <4>1. life = Actor
        BY <3>4, <3>7 DEF StreamInv
      <4>2. ASSUME NEW x \in InWay(streams[c][a]), x.kind = "change" PROVE x.sequence <= lives'[life]
        <5>1. x.sequence <= lives[life]
          BY <3>4, <3>7, <4>2 DEF StreamInv
        <5>2. x.sequence \in Nat
          BY <4>2, StreamFacts, RpcSessionAssumption DEF Events
        <5> QED
          BY <1>1, <2>2, <4>1, <5>1, <5>2
      <4>3. e.sequence <= lives'[life]
        BY <1>1, <2>2, <2>3, <4>1
      <4> QED
        BY <3>1, <4>1, <4>2, <4>3
    <3> QED
      BY <3>1, <3>2, <3>3, <3>5, <3>6, <3>7, RpcSessionAssumption DEF StreamInv
  <2>5. ASSUME NEW c \in Clients, NEW a \in Attachments
        PROVE  \/ streams'[c][a] = streams[c][a]
               \/ StreamInv(c, a)' /\ Short(streams'[c][a]) /\ streams'[c][a].pump # "none"
    <3>1. CASE <<c, a>> \in kept
      <4>1. Short(streams'[c][a]) /\ streams'[c][a].pump # "none"
        BY <3>1, <2>7
      <4> QED
        BY <2>4, <3>1, <4>1
    <3>2. CASE <<c, a>> \notin kept
      <4>1. streams'[c][a] = streams[c][a]
        BY <3>2, <2>7
      <4> QED
        BY <4>1
    <3> QED
      BY <3>1, <3>2
  <2>6. streams' \in [Clients -> [Attachments -> Streams]]
    BY <2>7
  <2> QED
    BY <1>1, <1>2, <2>1, <2>5, <2>6, ActorKeeps
<1> QED
  BY <1>3, <1>4 DEF Change

LEMMA FinishDeleteKeeps == ASSUME Inv, FinishDelete PROVE Inv'
<1>1. /\ UNCHANGED <<lives, link, calls, clients, views>>
      /\ live' = FALSE /\ stored' = FALSE /\ observers' = {}
  BY DEF FinishDelete
<1>2. lives \in Seq(0 .. MaxChanges) /\ Actor \in 1 .. MaxLives
  BY Types DEF Inv, ServerTypes
<1>3. /\ Len(lives) \in Nat /\ \A i \in 1 .. Len(lives) : lives[i] \in Nat
      /\ lives[Actor] \in Nat
  BY <1>2, RpcSessionAssumption DEF Actor
<1>4. Grows /\ Len(lives') = Len(lives)
  BY <1>1, <1>2, <1>3 DEF Grows, Actor
<1>5. CASE UNCHANGED streams
  <2>1. streams' \in [Clients -> [Attachments -> Streams]]
    BY <1>5, Types DEF Inv, StreamTypes
  <2> QED
    BY <1>1, <1>4, <1>5, <2>1, ActorKeeps
<1>6. CASE lives[Actor] < MaxSequence /\ ~UNCHANGED streams
  <2> DEFINE to == {o \in observers : Connected(o)}
             e == [sequence |-> lives[Actor] + 1, kind |-> "deleted"]
  <2>1. streams' = Sent(to, e) /\ to \subseteq observers
    BY <1>6 DEF FinishDelete
  <2>2. e \in Events /\ e.kind = "deleted"
    BY <1>3, <1>6, RpcSessionAssumption DEF Events
  <2> HIDE DEF e, to
  <2>6. /\ streams' \in [Clients -> [Attachments -> Streams]]
        /\ \A c \in Clients : \A a \in Attachments : <<c, a>> \in to =>
                /\ Short(streams'[c][a]) /\ streams'[c][a].pump # "none"
                /\ Len(streams'[c][a].queue) = Len(streams[c][a].queue) + 1
                /\ InWay(streams'[c][a]) \subseteq InWay(streams[c][a]) \cup {e}
        /\ \A c \in Clients : \A a \in Attachments :
                <<c, a>> \notin to => streams'[c][a] = streams[c][a]
    BY <2>1, <2>2, SentFacts
  <2>3. ASSUME NEW c \in Clients, NEW a \in Attachments, <<c, a>> \in to
        PROVE  StreamInv(c, a)'
    <3>1. /\ streams'[c][a].pump # "none"
          /\ InWay(streams'[c][a]) \subseteq InWay(streams[c][a]) \cup {e}
      BY <2>3, <2>6
    <3>2. /\ Unused(c, a)' = Unused(c, a) /\ Actor' = Actor
          /\ \A life : Carries(c, a, life)' = Carries(c, a, life)
      BY <1>1 DEF Active, Fresh, Watching, Answered, Unused, Carries, Actor
    <3>3. StreamInv(c, a) /\ streams[c][a].pump # "none"
      BY <2>1, <2>3, StreamFacts DEF StreamInv
    <3>4. ~Unused(c, a)
      BY <3>3, NoStreamProperties DEF StreamInv
    <3>5. ASSUME NEW life \in 1 .. Actor, Carries(c, a, life)
          PROVE  \A x \in InWay(streams'[c][a]) : x.kind = "change" => x.sequence <= lives'[life]
      BY <1>1, <2>2, <3>1, <3>3, <3>5 DEF StreamInv
    <3> QED
      BY <1>1, <3>2, <3>4, <3>5 DEF StreamInv
  <2>4. ASSUME NEW c \in Clients, NEW a \in Attachments
        PROVE  \/ streams'[c][a] = streams[c][a]
               \/ StreamInv(c, a)' /\ Short(streams'[c][a]) /\ streams'[c][a].pump # "none"
    <3>1. CASE <<c, a>> \in to
      <4>1. Short(streams'[c][a]) /\ streams'[c][a].pump # "none"
        BY <3>1, <2>6
      <4> QED
        BY <2>3, <3>1, <4>1
    <3>2. CASE <<c, a>> \notin to
      <4>1. streams'[c][a] = streams[c][a]
        BY <3>2, <2>6
      <4> QED
        BY <4>1
    <3> QED
      BY <3>1, <3>2
  <2>5. streams' \in [Clients -> [Attachments -> Streams]]
    BY <2>6
  <2> QED
    BY <1>1, <1>4, <2>4, <2>5, ActorKeeps
<1> QED
  BY <1>5, <1>6 DEF FinishDelete

LEMMA AbortDeleteKeeps == ASSUME Inv, AbortDelete PROVE Inv'
<1>1. Grows
  BY StaysGrown DEF AbortDelete
<1>2. streams' \in [Clients -> [Attachments -> Streams]] /\ stored' \in BOOLEAN
  BY Types DEF Inv, StreamTypes, ServerTypes, AbortDelete
<1> QED
  BY <1>1, <1>2, ActorKeeps DEF AbortDelete

LEMMA DeleteStoredKeeps == ASSUME Inv, DeleteStored PROVE Inv'
<1>1. UNCHANGED <<lives, live, observers, streams, link, calls, clients, views>> /\ ~live /\ ~stored'
  BY DEF DeleteStored
<1>2. /\ lives \in Seq(0 .. MaxChanges) /\ Actor \in 1 .. MaxLives
      /\ live \in BOOLEAN /\ (~live => observers = {})
      /\ streams \in [Clients -> [Attachments -> Streams]]
  BY Types DEF Inv, ServerTypes, StreamTypes
<1>3. \A i \in 1 .. Len(lives) : lives[i] \in Nat
  BY <1>2, RpcSessionAssumption
<1>4. Grows
  BY <1>1, <1>2, <1>3 DEF Grows, Actor
<1>5. stored' = FALSE
  BY DEF DeleteStored
<1> QED
  BY <1>1, <1>2, <1>4, <1>5, ActorKeeps

-----------------------------------------------------------------------------
(* The calls and the client *)

\* A stream is fine after its client moved, if what the client claims of it got
\* no more.
LEMMA StreamOfClient ==
    ASSUME Inv, NEW c \in Clients, NEW a \in Attachments,
           UNCHANGED <<lives, stored>>, observers' \subseteq observers,
           \/ streams'[c][a] = streams[c][a]
           \/ Moves(streams[c][a], streams'[c][a]) /\ streams[c][a].pump # "none",
           Unused(c, a)' => Unused(c, a),
           \A life \in 1 .. Actor : Carries(c, a, life)' => Carries(c, a, life)
    PROVE  StreamInv(c, a)' /\ Short(streams'[c][a]) /\ streams'[c][a] \in Streams
           /\ (streams'[c][a].pump = "none" <=> streams'[c][a] = NoStream)
<1>1. /\ Actor' = Actor /\ StreamInv(c, a) /\ streams[c][a] \in Streams /\ Short(streams[c][a])
      /\ streams[c][a].pump = "none" <=> streams[c][a] = NoStream
  BY StreamFacts DEF Actor
<1>2. CASE streams'[c][a] = streams[c][a]
  BY <1>1, <1>2 DEF StreamInv
<1>3. CASE Moves(streams[c][a], streams'[c][a]) /\ streams[c][a].pump # "none"
  <2>1. /\ streams'[c][a] \in Streams /\ Short(streams'[c][a]) /\ streams'[c][a].pump # "none"
        /\ Len(streams'[c][a].queue) <= Len(streams[c][a].queue)
        /\ \A e \in InWay(streams'[c][a]) : e \in InWay(streams[c][a]) \/ e.kind = "garbled"
    BY <1>3 DEF Moves
  <2>2. Len(streams'[c][a].queue) \in Nat /\ Len(streams[c][a].queue) \in Nat
    BY <1>1, <2>1 DEF Streams
  <2>3. ~Unused(c, a) /\ ~Unused(c, a)'
    BY <1>1, <1>3 DEF StreamInv
  <2>4. <<c, a>> \in observers' => Len(streams'[c][a].queue) <= Capacity
    BY <1>1, <2>1, <2>2, RpcSessionAssumption DEF StreamInv
  <2>5. \A e \in InWay(streams'[c][a]) : e.kind = "deleted" => ~stored'
    BY <1>1, <2>1 DEF StreamInv
  <2>6. ASSUME NEW life \in 1 .. Actor', Carries(c, a, life)'
        PROVE  /\ <<c, a>> \in observers' => life = Actor'
               /\ \A e \in InWay(streams'[c][a]) : e.kind = "change" => e.sequence <= lives'[life]
    BY <1>1, <2>1, <2>6 DEF StreamInv
  <2>7. StreamInv(c, a)'
    BY <2>1, <2>3, <2>4, <2>5, <2>6 DEF StreamInv
  <2> QED
    BY <2>1, <2>7, NoStreamProperties
<1> QED
  BY <1>2, <1>3

\* Only one client, and what was sent to it, changes.
LEMMA OneClientKeeps ==
    ASSUME Inv, NEW c \in Clients, UNCHANGED <<lives, live, stored, link>>,
           observers' \subseteq observers,
           calls' \in [Clients -> Snapshots], clients' \in [Clients -> ClientStates],
           views' \in [Clients -> [life : 0 .. MaxLives, seen : Seq(Nat)]],
           streams' \in [Clients -> [Attachments -> Streams]],
           \A d \in Clients : d # c => SameClient(d) /\ streams'[d] = streams[d],
           ClientInv(c)', Watching(c)' => calls'[c] = NoCall /\ Fresh(c)' = clients'[c].current,
           \A a \in Attachments :
              /\ \/ streams'[c][a] = streams[c][a]
                 \/ Moves(streams[c][a], streams'[c][a]) /\ streams[c][a].pump # "none"
              /\ Unused(c, a)' => Unused(c, a)
              /\ \A life \in 1 .. Actor : Carries(c, a, life)' => Carries(c, a, life)
    PROVE  Inv'
<1>1. Grows
  BY StaysGrown
<1>2. ASSUME NEW d \in Clients PROVE ClientInv(d)'
  <2>1. CASE d = c
    BY <2>1
  <2>2. CASE d # c
    BY <1>1, <2>2, ClientStays
  <2> QED
    BY <2>1, <2>2
<1>3. ASSUME NEW d \in Clients, NEW a \in Attachments
      PROVE  StreamInv(d, a)' /\ Short(streams'[d][a])
             /\ (streams'[d][a].pump = "none" <=> streams'[d][a] = NoStream)
  <2>1. CASE d = c
    <3>1. /\ StreamInv(c, a)' /\ Short(streams'[c][a])
          /\ streams'[c][a].pump = "none" <=> streams'[c][a] = NoStream
      BY StreamOfClient
    <3>2. StreamInv(d, a)'
      BY <2>1, <3>1, Zenon
    <3>3. streams'[d][a] = streams'[c][a]
      BY <2>1
    <3>4. Short(streams'[d][a]) /\ (streams'[d][a].pump = "none" <=> streams'[d][a] = NoStream)
      BY <3>1, <3>3
    <3> QED
      BY <3>2, <3>4, Zenon
  <2>2. CASE d # c
    <3>1. SameClient(d) /\ streams'[d][a] = streams[d][a]
      BY <2>2
    <3>2. <<d, a>> \in observers' => <<d, a>> \in observers /\ Len(lives') = Len(lives)
      OBVIOUS
    <3>3. StreamInv(d, a)'
      BY <1>1, <3>1, <3>2, StreamStays
    <3> QED
      BY <3>1, <3>3, StreamFacts
  <2> QED
    BY <2>1, <2>2
<1>4. TypeOK'
  <2>1. ServerTypes'
    BY Types DEF Inv, ServerTypes, Actor
  <2>2. StreamTypes'
    BY <1>3 DEF StreamTypes
  <2>3. ClientTypes'
    <3>1. ASSUME NEW d \in Clients, Watching(d)'
          PROVE  calls'[d] = NoCall /\ Fresh(d)' = clients'[d].current
      <4>1. CASE d = c
        BY <3>1, <4>1
      <4>2. CASE d # c
        BY <3>1, <4>2, Types DEF Inv, ClientTypes, SameClient, Watching, Active, Fresh
      <4> QED
        BY <4>1, <4>2
    <3> QED
      BY <3>1 DEF ClientTypes
  <2> QED
    BY <2>1, <2>2, <2>3, Types DEF TypeOK, ServerTypes, StreamTypes, ClientTypes, Short
<1>5. ~live' /\ stored' => Actor' < MaxLives
  BY DEF Inv, Actor
<1> QED
  BY <1>2, <1>3, <1>4, <1>5 DEF Inv

LEMMA ClientUpdate ==
    ASSUME Inv
    PROVE  /\ calls \in [Clients -> Snapshots] /\ clients \in [Clients -> ClientStates]
           /\ views \in [Clients -> [life : 0 .. MaxLives, seen : Seq(Nat)]]
           /\ streams \in [Clients -> [Attachments -> Streams]]
           /\ link \in [Clients -> {"up", "lost", "gone"}]
           /\ NoCall \in Snapshots /\ [NoCall EXCEPT !.kind = "open"] \in Snapshots
<1>1. 0 \in 0 .. MaxLives /\ 0 \in 0 .. MaxChanges
  BY RpcSessionAssumption
<1> QED
  BY <1>1, Types DEF Inv, ClientTypes, StreamTypes, ServerTypes, NoCall, Snapshots

\* A call that is answered, and leaves what it carries alone.
LEMMA RefusalKeeps == ASSUME Inv, NEW c \in Clients, NotFound(c) \/ OpenFails(c) PROVE Inv'
<1>0. PICK answer \in {"missing", "failed"} :
         /\ calls' = [calls EXCEPT ![c].answer = answer] /\ (answer = "missing" => ~stored)
  BY DEF NotFound, OpenFails, Answer
<1>1. /\ calls' = [calls EXCEPT ![c].answer = answer] /\ (answer = "missing" => ~stored)
      /\ calls[c].kind = "open" /\ calls[c].answer = "none"
      /\ UNCHANGED <<lives, live, stored, observers, streams, link, clients, views>>
  BY <1>0 DEF NotFound, OpenFails, Answer, Asked
<1>2. calls[c] \in Snapshots /\ calls' \in [Clients -> Snapshots]
  BY <1>1, ClientUpdate DEF Snapshots
<1>3. /\ calls'[c].kind = "open" /\ calls'[c].answer = answer
      /\ \A d \in Clients : d # c => calls'[d] = calls[d]
  BY <1>1, <1>2, ClientUpdate DEF Snapshots
<1>4. Active(c) /\ ~Watching(c)
  BY <1>1, Types, ClientFacts DEF Inv, ClientTypes, ClientInv, NoCall
<1>5. /\ Active(c)' /\ ~Watching(c)' /\ ~Answered(c)' /\ Fresh(c)' = Fresh(c) /\ Actor' = Actor
  BY <1>1, <1>3, <1>4 DEF Active, Watching, Answered, Fresh, Actor
<1>6. ClientInv(c)'
  BY <1>1, <1>3, <1>5, ClientFacts DEF ClientInv
<1>7. \A a \in Attachments : (Unused(c, a)' => Unused(c, a)) /\ \A life : ~Carries(c, a, life)'
  BY <1>1, <1>3, <1>5 DEF Unused, Carries
<1> QED
  BY <1>1, <1>2, <1>3, <1>5, <1>6, <1>7, ClientUpdate, OneClientKeeps DEF SameClient

LEMMA DetachKeeps == ASSUME Inv, NEW c \in Clients, Detach(c) PROVE Inv'
<1>1. /\ calls' = [calls EXCEPT ![c].answer = "done"] /\ observers' \subseteq observers
      /\ calls[c].kind = "detach" /\ calls[c].answer = "none"
      /\ UNCHANGED <<lives, live, stored, streams, link, clients, views>>
  BY DEF Detach, Answer, Asked
<1>2. calls[c] \in Snapshots /\ calls' \in [Clients -> Snapshots]
  BY <1>1, ClientUpdate DEF Snapshots
<1>3. /\ calls'[c].kind = "detach" /\ calls'[c].answer = "done"
      /\ calls'[c].life = calls[c].life /\ calls'[c].changes = calls[c].changes
      /\ \A d \in Clients : d # c => calls'[d] = calls[d]
  BY <1>1, <1>2, ClientUpdate DEF Snapshots
<1>4. Active(c) /\ ~Watching(c) /\ Answered(c)
  BY <1>1, Types, ClientFacts DEF Inv, ClientTypes, ClientInv, NoCall, Answered
<1>5. /\ Active(c)' /\ ~Watching(c)' /\ Answered(c)' /\ Fresh(c)' = Fresh(c) /\ Actor' = Actor
  BY <1>1, <1>3, <1>4 DEF Active, Watching, Answered, Fresh, Actor
<1>6. ClientInv(c)'
  BY <1>1, <1>3, <1>4, <1>5, ClientFacts DEF ClientInv
<1>7. \A a \in Attachments : /\ Unused(c, a)' => Unused(c, a)
                             /\ \A life : Carries(c, a, life)' => Carries(c, a, life)
  BY <1>1, <1>3, <1>4, <1>5 DEF Unused, Carries
<1> QED
  BY <1>1, <1>2, <1>3, <1>5, <1>6, <1>7, ClientUpdate, OneClientKeeps DEF SameClient

LEMMA AttachKeeps == ASSUME Inv, NEW c \in Clients, Attach(c) PROVE Inv'
<1>0. PICK a \in Attachments : a = Fresh(c)
  BY ClientFacts
<1> DEFINE life == IF live THEN Actor ELSE Actor + 1
           changes == IF live THEN lives[Actor] ELSE 0
           k == [kind |-> "open", answer |-> "snapshot", life |-> life, changes |-> changes]
           t == [streams[c][a] EXCEPT !.pump = IF link[c] = "up" THEN "running" ELSE "ended"]
<1>1. /\ calls[c].kind = "open" /\ calls[c].answer = "none" /\ stored
      /\ live' = TRUE /\ lives' = IF live THEN lives ELSE Append(lives, 0)
      /\ observers' = observers \cup {<<c, a>>} /\ streams' = [streams EXCEPT ![c][a] = t]
      /\ calls' = [calls EXCEPT ![c] = k] /\ UNCHANGED <<stored, link, clients, views>>
  BY <1>0 DEF Attach, Asked
<1>2. /\ lives \in Seq(0 .. MaxChanges) /\ Actor \in 1 .. MaxLives /\ Actor \in Nat
      /\ live \in BOOLEAN
      /\ \A i \in 1 .. Actor : lives[i] \in 0 .. MaxChanges
      /\ observers \subseteq Clients \X Attachments /\ (~live => observers = {} /\ Actor < MaxLives)
  BY <1>1, ClientFacts, Types DEF Inv, ServerTypes
<1>3. /\ lives' \in Seq(0 .. MaxChanges) /\ Actor' = life /\ life \in 1 .. MaxLives
      /\ \A i \in 1 .. Actor : lives'[i] = lives[i]
      /\ lives'[life] = changes /\ Actor <= life /\ changes \in 0 .. MaxChanges
  <2>1. CASE live
    BY <1>1, <1>2, <2>1 DEF Actor
  <2>2. CASE ~live
    <3>1. 0 \in 0 .. MaxChanges
      BY RpcSessionAssumption
    <3>2. /\ Append(lives, 0) \in Seq(0 .. MaxChanges) /\ Len(Append(lives, 0)) = Len(lives) + 1
          /\ \A i \in 1 .. Len(lives) : Append(lives, 0)[i] = lives[i]
          /\ Append(lives, 0)[Len(lives) + 1] = 0
      BY <1>2, <3>1, AppendProperties
    <3> QED
      BY <1>1, <1>2, <2>2, <3>1, <3>2, RpcSessionAssumption DEF Actor
  <2> QED
    BY <1>2, <2>1, <2>2
<1>4. Grows
  <2>1. \A i \in 1 .. Actor : lives[i] <= lives'[i]
    BY <1>2, <1>3, RpcSessionAssumption
  <2> QED
    BY <1>1, <1>3, <2>1 DEF Grows, Actor
<1>5. /\ k \in Snapshots /\ calls' \in [Clients -> Snapshots] /\ calls'[c] = k
      /\ \A d \in Clients : d # c => calls'[d] = calls[d]
  <2>1. life \in 0 .. MaxLives
    BY <1>3, RpcSessionAssumption
  <2> HIDE DEF life, changes
  <2>2. k \in Snapshots
    BY <1>3, <2>1 DEF Snapshots
  <2> HIDE DEF k
  <2> QED
    BY <1>1, <2>2, ClientUpdate
<1>6. k.kind = "open" /\ k.answer = "snapshot" /\ k.life = life /\ k.changes = changes
  OBVIOUS
<1> HIDE DEF k, life, changes
<1>7. Active(c) /\ ~Watching(c)
  BY <1>1, Types, ClientFacts DEF Inv, ClientTypes, ClientInv, NoCall
<1>8. /\ Active(c)' /\ ~Watching(c)' /\ Answered(c)' /\ Fresh(c)' = a
  BY <1>0, <1>1, <1>5, <1>6, <1>7 DEF Active, Watching, Answered, Fresh
<1>9. t \in Streams /\ Short(t) /\ t.pump # "none" /\ InWay(t) = {} /\ Len(t.queue) = 0
  <2>1. streams[c][a] = NoStream
    BY <1>0, <1>1, StreamFacts DEF StreamInv, Unused
  <2> DEFINE pump == IF link[c] = "up" THEN "running" ELSE "ended"
  <2>4. << >> \in Seq(Events) /\ pump \in {"none", "running", "ended"} /\ pump # "none"
    OBVIOUS
  <2>5. t = [NoStream EXCEPT !.pump = pump]
    BY <2>1
  <2> HIDE DEF pump, t
  <2>2. /\ t.queue = << >> /\ t.sending = << >> /\ t.buffer = << >> /\ t.pump # "none"
        /\ t \in Streams
    BY <2>4, <2>5 DEF NoStream, Streams
  <2>3. Len(<< >>) = 0
    OBVIOUS
  <2> QED
    BY <2>2, <2>3, ElemsOfShort, RpcSessionAssumption DEF Short, InWay
<1> HIDE DEF t
<1>10. /\ streams' \in [Clients -> [Attachments -> Streams]] /\ streams'[c][a] = t
       /\ \A d \in Clients : \A b \in Attachments : ~(d = c /\ b = a) => streams'[d][b] = streams[d][b]
  BY <1>1, <1>2, <1>9, ClientUpdate
<1>11. ClientInv(c)'
  <2>1. Actor' \in Nat /\ lives'[life] = changes /\ Actor' = life
    BY <1>3
  <2>2. views[c].life <= life /\ (views[c].life # 0 => Len(views[c].seen) <= lives'[views[c].life])
    BY <1>2, <1>3, ClientFacts DEF ClientInv
  <2>3. changes <= lives'[life] /\ (life = views[c].life => changes >= Len(views[c].seen))
    BY <1>2, <1>3, <2>2, ClientFacts, RpcSessionAssumption DEF ClientInv
  <2>4. life \in 1 .. Actor'
    BY <1>3
  <2> QED
    BY ZenonT(60), <1>0, <1>1, <1>5, <1>6, <1>8, <2>1, <2>2, <2>3, <2>4, ClientFacts DEF ClientInv
<1>12. ASSUME NEW d \in Clients, d # c PROVE SameClient(d) /\ ClientInv(d)'
  BY <1>1, <1>4, <1>5, <1>12, ClientStays DEF SameClient
<1>13. ASSUME NEW d \in Clients, NEW b \in Attachments
       PROVE  StreamInv(d, b)' /\ Short(streams'[d][b])
              /\ (streams'[d][b].pump = "none" <=> streams'[d][b] = NoStream)
  <2>1. CASE d = c /\ b = a
    <3>1. /\ ~Unused(c, a)' /\ \A l : Carries(c, a, l)' => l = Actor'
      BY <1>0, <1>3, <1>5, <1>6, <1>8, RpcSessionAssumption DEF Unused, Carries, Attachments
    <3>2. StreamInv(c, a)'
      BY <1>9, <1>10, <3>1, RpcSessionAssumption DEF StreamInv
    <3>3. StreamInv(d, b)'
      BY <2>1, <3>2, Zenon
    <3> QED
      BY <1>9, <1>10, <2>1, <3>3, NoStreamProperties
  <2>2. CASE d = c /\ b # a
    <3>1. /\ Unused(c, b)' => Unused(c, b)
          /\ \A l : ~Carries(c, b, l)'
      BY <1>0, <1>8, <2>2 DEF Unused, Carries
    <3>2. streams'[c][b] = streams[c][b] /\ (<<c, b>> \in observers' => <<c, b>> \in observers)
      BY <1>1, <1>10, <2>2
    <3>3. StreamInv(c, b)'
      BY <1>1, <3>1, <3>2, StreamFacts DEF StreamInv
    <3>4. StreamInv(d, b)'
      BY <2>2, <3>3, Zenon
    <3> QED
      BY <2>2, <3>2, <3>4, StreamFacts
  <2>3. CASE d # c
    <3>1. streams'[d][b] = streams[d][b] /\ SameClient(d)
      BY <1>10, <1>12, <2>3
    <3>2. <<d, b>> \in observers' => <<d, b>> \in observers /\ Len(lives') = Len(lives)
      BY <1>1, <1>2, <2>3
    <3> QED
      BY <1>4, <3>1, <3>2, StreamFacts, StreamStays
  <2> QED
    BY <2>1, <2>2, <2>3
<1>14. TypeOK'
  <2>1. ServerTypes'
    BY <1>1, <1>2, <1>3, Types DEF Inv, ServerTypes
  <2>2. StreamTypes'
    BY <1>10, <1>13 DEF StreamTypes
  <2>3. ClientTypes'
    <3>1. ASSUME NEW d \in Clients, Watching(d)'
          PROVE  calls'[d] = NoCall /\ Fresh(d)' = clients'[d].current
      BY <1>1, <1>5, <1>8, <3>1, Types DEF Inv, ClientTypes, Watching, Active, Fresh
    <3> QED
      BY <1>1, <1>5, <3>1, ClientUpdate DEF ClientTypes
  <2> QED
    BY <2>1, <2>2, <2>3, Types DEF TypeOK, ServerTypes, StreamTypes, ClientTypes, Short
<1> QED
  BY <1>1, <1>11, <1>12, <1>13, <1>14 DEF Inv

LEMMA TakeWarningKeeps == ASSUME Inv, NEW c \in Clients, TakeWarning(c) PROVE Inv'
<1>1. /\ clients' = [clients EXCEPT ![c].warning = FALSE]
      /\ UNCHANGED <<lives, live, stored, observers, link, streams, calls, views>>
  BY DEF TakeWarning, ServerUnchanged
<1>2. clients' \in [Clients -> ClientStates]
  <2> DEFINE q == [clients[c] EXCEPT !.warning = FALSE]
  <2>1. q \in ClientStates
    BY ZenonT(60), ClientUpdate DEF ClientStates
  <2>2. clients' = [clients EXCEPT ![c] = q]
    BY <1>1
  <2> HIDE DEF q
  <2> QED
    BY <2>1, <2>2, ClientUpdate
<1>3. /\ clients'[c].phase = clients[c].phase /\ clients'[c].current = clients[c].current
      /\ clients'[c].last = clients[c].last /\ clients'[c].expected = clients[c].expected
      /\ clients'[c].ended = clients[c].ended
      /\ \A d \in Clients : d # c => clients'[d] = clients[d]
  BY <1>1, ClientUpdate DEF ClientStates
<1>4. /\ Active(c)' = Active(c) /\ Watching(c)' = Watching(c) /\ Answered(c)' = Answered(c)
      /\ Fresh(c)' = Fresh(c) /\ Actor' = Actor
  BY <1>1, <1>3 DEF Active, Watching, Answered, Fresh, Actor
<1>5. ClientInv(c)'
  BY <1>1, <1>3, <1>4, ClientFacts DEF ClientInv
<1>6. \A a \in Attachments : /\ Unused(c, a)' => Unused(c, a)
                             /\ \A life : Carries(c, a, life)' => Carries(c, a, life)
  BY <1>1, <1>3, <1>4 DEF Unused, Carries
<1>7. Watching(c)' => calls'[c] = NoCall /\ Fresh(c)' = clients'[c].current
  BY <1>1, <1>3, <1>4, Types DEF Inv, ClientTypes
<1> QED
  BY <1>1, <1>2, <1>3, <1>5, <1>6, <1>7, ClientUpdate, OneClientKeeps DEF SameClient

LEMMA EndKeeps ==
    ASSUME Inv, NEW c \in Clients, NEW outcome \in Outcomes, outcome # "no",
           End(c, outcome), ServerUnchanged
    PROVE  Inv'
<1>1. /\ clients' = [clients EXCEPT ![c].ended = outcome] /\ calls' = [calls EXCEPT ![c] = NoCall]
      /\ UNCHANGED <<lives, live, stored, observers, link, streams, views>>
  BY DEF End, ServerUnchanged
<1>2. clients' \in [Clients -> ClientStates] /\ calls' \in [Clients -> Snapshots] /\ calls'[c] = NoCall
  <2> DEFINE q == [clients[c] EXCEPT !.ended = outcome]
  <2>1. q \in ClientStates
    BY ZenonT(60), ClientUpdate DEF ClientStates
  <2>2. clients' = [clients EXCEPT ![c] = q]
    BY <1>1
  <2> HIDE DEF q
  <2>3. clients' \in [Clients -> ClientStates]
    BY <2>1, <2>2, ClientUpdate
  <2>4. calls' \in [Clients -> Snapshots] /\ calls'[c] = NoCall
    BY <1>1, ClientUpdate
  <2> QED
    BY <2>3, <2>4
<1>3. /\ clients'[c].current = clients[c].current /\ clients'[c].last = clients[c].last
      /\ clients'[c].ended = outcome
      /\ \A d \in Clients : d # c => clients'[d] = clients[d] /\ calls'[d] = calls[d]
  BY <1>1, ClientUpdate DEF ClientStates
<1>4. /\ ~Active(c)' /\ ~Watching(c)' /\ ~Answered(c)' /\ Fresh(c)' = Fresh(c) /\ Actor' = Actor
  BY <1>1, <1>3 DEF Active, Watching, Answered, Fresh, Actor
<1>5. ClientInv(c)'
  BY <1>1, <1>2, <1>3, <1>4, ClientFacts DEF ClientInv, NoCall
<1>6. \A a \in Attachments : (Unused(c, a)' => Unused(c, a)) /\ \A life : ~Carries(c, a, life)'
  BY <1>1, <1>2, <1>3, <1>4 DEF Unused, Carries, NoCall
<1> QED
  BY <1>1, <1>2, <1>3, <1>4, <1>5, <1>6, ClientUpdate, OneClientKeeps DEF SameClient

LEMMA BeginRecoveryKeeps ==
    ASSUME Inv, NEW c \in Clients, NEW overflow \in BOOLEAN, Active(c),
           BeginRecovery(c, overflow), ServerUnchanged
    PROVE  Inv'
<1>1. CASE End(c, "ids")
  BY <1>1, EndKeeps DEF Outcomes
<1>2. CASE /\ Fresh(c) < MaxAttachment
           /\ clients' = [clients EXCEPT ![c].phase = "reopening", ![c].last = @ + 1,
                                         ![c].overflow = overflow]
           /\ calls' = [calls EXCEPT ![c] = [NoCall EXCEPT !.kind = "open"]]
           /\ UNCHANGED <<streams, views>>
  <2>1. UNCHANGED <<lives, live, stored, observers, link, streams, views>>
    BY <1>2 DEF ServerUnchanged
  <2>2. clients[c].last + 1 \in Attachments /\ clients[c].last \in Nat
    <3>1. Fresh(c) \in Attachments /\ Fresh(c) = clients[c].last
      BY ClientFacts DEF Fresh
    <3> QED
      BY <1>2, <3>1, RpcSessionAssumption DEF Attachments
  <2>3. clients' \in [Clients -> ClientStates]
    <3> DEFINE n == clients[c].last + 1
               q == [clients[c] EXCEPT !.phase = "reopening", !.last = n, !.overflow = overflow]
    <3>1. clients' = [clients EXCEPT ![c] = q]
      BY <1>2, ClientUpdate
    <3>2. "reopening" \in {"opening", "watching", "reopening", "detaching"} /\ n \in Attachments
      BY <2>2
    <3> HIDE DEF n
    <3>4. clients[c] \in ClientStates
      BY ClientUpdate
    <3>5. [clients[c] EXCEPT !.phase = "reopening"] \in ClientStates
      BY <3>2, <3>4 DEF ClientStates
    <3>6. [[clients[c] EXCEPT !.phase = "reopening"] EXCEPT !.last = n] \in ClientStates
      BY <3>2, <3>5 DEF ClientStates
    <3>3. q \in ClientStates
      BY <3>6 DEF ClientStates
    <3> HIDE DEF q
    <3> QED
      BY <3>1, <3>3, ClientUpdate
  <2>4. /\ clients'[c].current = clients[c].current /\ clients'[c].last = clients[c].last + 1
        /\ clients'[c].phase = "reopening"
        /\ \A d \in Clients : d # c => clients'[d] = clients[d]
    BY <1>2, ClientUpdate DEF ClientStates
  <2>5. /\ calls' \in [Clients -> Snapshots] /\ calls'[c] = [NoCall EXCEPT !.kind = "open"]
        /\ \A d \in Clients : d # c => calls'[d] = calls[d]
    BY <1>2, ClientUpdate
  <2>6. calls'[c].kind = "open" /\ calls'[c].answer = "none"
    BY <2>5 DEF NoCall
  <2>7. /\ ~Watching(c)' /\ ~Answered(c)' /\ Fresh(c)' = Fresh(c) + 1 /\ Actor' = Actor
    BY <2>1, <2>4, <2>6 DEF Watching, Answered, Fresh, Actor
  <2>8. ClientInv(c)'
    <3>1. Active(c)'
      BY <1>2, ClientUpdate DEF Active, ClientStates
    <3> QED
      BY <2>1, <2>2, <2>4, <2>6, <2>7, <3>1, ClientFacts DEF ClientInv, Fresh
  <2>9. \A a \in Attachments : (Unused(c, a)' => Unused(c, a)) /\ \A life : ~Carries(c, a, life)'
    BY <2>2, <2>7, RpcSessionAssumption DEF Unused, Carries, Fresh, Attachments
  <2> QED
    BY <2>1, <2>3, <2>4, <2>5, <2>7, <2>8, <2>9, ClientUpdate, OneClientKeeps DEF SameClient
<1> QED
  BY <1>1, <1>2 DEF BeginRecovery

LEMMA SequenceProperties ==
    ASSUME NEW n \in Nat
    PROVE  /\ Sequence(n) \in 0 .. MaxSequence
           /\ Sequence(n) < MaxSequence => Sequence(n) = n /\ Sequence(n + 1) = n + 1
  BY RpcSessionAssumption DEF Sequence

\* The event that follows what the client shows is a change of its actor.
LEMMA NextEvent ==
    ASSUME Inv, NEW c \in Clients, Watching(c), clients[c].expected < MaxSequence,
           NEW n, n = Len(views[c].seen),
           NEW event \in InWay(streams[c][clients[c].current]),
           event.kind = "change", event.sequence = clients[c].expected + 1
    PROVE  /\ n \in Nat /\ clients[c].expected = n /\ views[c].life \in 1 .. Actor
           /\ n + 1 <= lives[views[c].life] /\ Sequence(n + 1) = n + 1
           /\ n + 1 \in 0 .. MaxSequence /\ Append(views[c].seen, n + 1) = UpTo(n + 1)
<1>1. /\ views[c].life # 0 /\ clients[c].expected = Sequence(n) /\ n \in Nat
      /\ views[c].life \in 1 .. Actor /\ views[c].seen = UpTo(n)
  BY ClientFacts DEF ClientInv
<1>2. clients[c].expected = n /\ Sequence(n + 1) = n + 1
  BY <1>1, SequenceProperties
<1>3. PICK a \in Attachments : a = clients[c].current
  BY ClientFacts, Types DEF Inv, ClientTypes
<1>4. event.sequence <= lives[views[c].life]
  <2>1. Carries(c, a, views[c].life)
    BY <1>3 DEF Carries
  <2> QED
    BY <1>1, <1>3, <2>1, StreamFacts DEF StreamInv
<1>5. n + 1 \in 0 .. MaxSequence
  BY <1>1, <1>2, RpcSessionAssumption
<1> QED
  BY <1>1, <1>2, <1>4, <1>5, UpToProperties

\* A change is taken from the buffer, and shown or skipped.
Applies(c, event) ==
    \/ UNCHANGED <<clients, views>>
    \/ /\ event.sequence = clients[c].expected + 1
       /\ clients' = [clients EXCEPT ![c].expected = clients[c].expected + 1]
       /\ views' = [views EXCEPT ![c].seen = Append(@, event.sequence)]

Consumes(c, a) ==
    /\ streams[c][a].buffer # << >>
    /\ streams' = [streams EXCEPT ![c][a].buffer = Tail(streams[c][a].buffer)]

LEMMA FollowKeeps ==
    ASSUME Inv, NEW c \in Clients, Watching(c), clients[c].expected < MaxSequence, ServerUnchanged,
           UNCHANGED calls, NEW a \in Attachments, a = clients[c].current,
           Head(streams[c][a].buffer).kind = "change", Consumes(c, a),
           Applies(c, Head(streams[c][a].buffer))
    PROVE  Inv'
<1> DEFINE s == streams[c][a]
           t == [s EXCEPT !.buffer = Tail(s.buffer)]
           event == Head(s.buffer)
           n == Len(views[c].seen)
<1>2. s \in Streams /\ Short(s) /\ s.buffer # << >> /\ s.pump # "none"
  <2>1. s \in Streams /\ Short(s) /\ s.buffer # << >>
    BY StreamFacts DEF Consumes
  <2>2. s # NoStream
    BY SMTT(30), <2>1 DEF NoStream
  <2> QED
    BY <2>1, <2>2, StreamFacts
<1>3. Moves(s, t) /\ event \in Events /\ event \in InWay(s)
  BY <1>2, ReceiveMoves
<1>4. streams' = [streams EXCEPT ![c][a] = t] /\ event = Head(streams[c][a].buffer)
  BY DEF Consumes
<1> HIDE DEF t, event
<1>5. /\ streams' \in [Clients -> [Attachments -> Streams]] /\ streams'[c][a] = t
      /\ \A d \in Clients : \A b \in Attachments : ~(d = c /\ b = a) => streams'[d][b] = streams[d][b]
      /\ \A d \in Clients : d # c => streams'[d] = streams[d]
  <2>1. t \in Streams
    BY <1>3 DEF Moves
  <2>2. streams' = [streams EXCEPT ![c][a] = t]
    BY <1>4
  <2>3. streams \in [Clients -> [Attachments -> Streams]]
    BY ClientUpdate
  <2>4. streams' \in [Clients -> [Attachments -> Streams]] /\ streams'[c][a] = t
    BY <2>1, <2>2, <2>3
  <2>5. \A d \in Clients : d # c => streams'[d] = streams[d]
    BY <2>2, <2>3
  <2>6. \A b \in Attachments : b # a => streams'[c][b] = streams[c][b]
    BY <2>2, <2>3
  <2> QED
    BY <2>4, <2>5, <2>6
<1>6. \A b \in Attachments :
        \/ streams'[c][b] = streams[c][b]
        \/ Moves(streams[c][b], streams'[c][b]) /\ streams[c][b].pump # "none"
  BY <1>2, <1>3, <1>5
<1>7. UNCHANGED <<lives, live, stored, observers, link, calls>>
  BY DEF ServerUnchanged
<1>8. /\ clients' \in [Clients -> ClientStates]
      /\ views' \in [Clients -> [life : 0 .. MaxLives, seen : Seq(Nat)]]
      /\ \A d \in Clients : d # c => clients'[d] = clients[d] /\ views'[d] = views[d]
      /\ clients'[c].phase = clients[c].phase /\ clients'[c].current = clients[c].current
      /\ clients'[c].last = clients[c].last /\ clients'[c].ended = clients[c].ended
      /\ views'[c].life = views[c].life
      /\ views'[c].seen = UpTo(Len(views'[c].seen))
      /\ views'[c].life \in 1 .. Actor /\ Len(views'[c].seen) <= lives[views[c].life]
      /\ clients'[c].expected = Sequence(Len(views'[c].seen))
  <2>1. CASE UNCHANGED <<clients, views>>
    BY <2>1, ClientUpdate, ClientFacts DEF ClientInv
  <2>2. CASE /\ event.sequence = clients[c].expected + 1
             /\ clients' = [clients EXCEPT ![c].expected = clients[c].expected + 1]
             /\ views' = [views EXCEPT ![c].seen = Append(@, event.sequence)]
    <3>1. /\ n \in Nat /\ clients[c].expected = n /\ views[c].life \in 1 .. Actor
          /\ n + 1 <= lives[views[c].life] /\ Sequence(n + 1) = n + 1
          /\ n + 1 \in 0 .. MaxSequence /\ Append(views[c].seen, n + 1) = UpTo(n + 1)
      <4>1. event.kind = "change" /\ event \in InWay(streams[c][clients[c].current])
        BY <1>3, <1>4
      <4> QED
        BY <2>2, <4>1, NextEvent
    <3> DEFINE q == [clients[c] EXCEPT !.expected = n + 1]
               v == [views[c] EXCEPT !.seen = UpTo(n + 1)]
    <3>2. clients' = [clients EXCEPT ![c] = q] /\ views' = [views EXCEPT ![c] = v]
      BY <2>2, <3>1
    <3>3. /\ q \in ClientStates /\ q.expected = n + 1
          /\ q.phase = clients[c].phase /\ q.current = clients[c].current
          /\ q.last = clients[c].last /\ q.ended = clients[c].ended
      <4>1. clients[c] \in ClientStates
        BY ClientUpdate
      <4> DEFINE m == n + 1
      <4>2. m \in 0 .. MaxSequence
        BY <3>1
      <4> HIDE DEF m
      <4>3. [clients[c] EXCEPT !.expected = m] \in ClientStates
        BY <4>1, <4>2 DEF ClientStates
      <4>4. q = [clients[c] EXCEPT !.expected = m]
        BY DEF m
      <4>5. /\ q.expected = m /\ q.phase = clients[c].phase /\ q.current = clients[c].current
            /\ q.last = clients[c].last /\ q.ended = clients[c].ended
        BY <4>1, <4>4 DEF ClientStates
      <4> QED
        BY <4>3, <4>4, <4>5 DEF m
    <3>4. UpTo(n + 1) \in Seq(Nat) /\ Len(UpTo(n + 1)) = n + 1
      <4>1. \A m \in Nat : UpTo(m) \in Seq(Nat) /\ Len(UpTo(m)) = m
        BY UpToProperties
      <4>2. n + 1 \in Nat
        BY <3>1
      <4> HIDE DEF n
      <4> QED
        BY <4>1, <4>2
    <3>5. v \in [life : 0 .. MaxLives, seen : Seq(Nat)] /\ v.life = views[c].life /\ v.seen = UpTo(n + 1)
      <4> DEFINE u == UpTo(n + 1)
      <4>1. u \in Seq(Nat) /\ views[c] \in [life : 0 .. MaxLives, seen : Seq(Nat)]
        BY <3>4, ClientUpdate
      <4>2. v = [views[c] EXCEPT !.seen = u]
        OBVIOUS
      <4> HIDE DEF u, v
      <4>3. v \in [life : 0 .. MaxLives, seen : Seq(Nat)] /\ v.life = views[c].life /\ v.seen = u
        BY <4>1, <4>2
      <4> QED
        BY <4>3 DEF u
    <3> HIDE DEF q, v
    <3> QED
      BY <3>1, <3>2, <3>3, <3>4, <3>5, ClientUpdate
  <2> QED
    BY <1>4, <2>1, <2>2 DEF Applies
<1>9. /\ Active(c)' = Active(c) /\ Watching(c)' /\ ~Answered(c) /\ ~Answered(c)'
      /\ Fresh(c)' = Fresh(c) /\ Actor' = Actor /\ calls[c] = NoCall
  <2>1. calls[c] = NoCall
    BY Types DEF Inv, ClientTypes
  <2> QED
    BY SMTT(30), <1>7, <1>8, <2>1 DEF Active, Watching, Answered, Fresh, Actor, NoCall
<1>10. ClientInv(c)'
  <2>1. calls'[c] = NoCall /\ NoCall.answer \notin {"missing", "done", "snapshot"}
    BY <1>7, <1>9 DEF NoCall
  <2>2. clients'[c].current <= Fresh(c)' /\ views'[c].life <= Actor'
    BY <1>8, <1>9, ClientFacts DEF ClientInv
  <2>3. views'[c].life # 0 /\ Len(views'[c].seen) <= lives'[views'[c].life]
    BY <1>7, <1>8
  <2> QED
    BY <1>8, <1>9, <2>1, <2>2, <2>3 DEF ClientInv
<1>11. \A b \in Attachments : /\ Unused(c, b)' => Unused(c, b)
                              /\ \A life : Carries(c, b, life)' => Carries(c, b, life)
  BY <1>7, <1>8, <1>9 DEF Unused, Carries
<1>12. Fresh(c)' = clients'[c].current
  BY <1>8, <1>9, Types DEF Inv, ClientTypes
<1>13. \A d \in Clients : d # c => SameClient(d) /\ streams'[d] = streams[d]
  BY <1>5, <1>7, <1>8 DEF SameClient
<1> QED
  BY <1>5, <1>6, <1>7, <1>8, <1>9, <1>10, <1>11, <1>12, <1>13, ClientUpdate, OneClientKeeps

LEMMA ReceiveKeeps == ASSUME Inv, NEW c \in Clients, Receive(c) PROVE Inv'
<1>1. PICK a \in Attachments : a = clients[c].current
  BY ClientFacts, Types DEF Inv, ClientTypes, Receive, Polls
<1> DEFINE event == Head(streams[c][a].buffer)
<1>2. /\ Active(c) /\ Watching(c) /\ clients[c].expected < MaxSequence /\ ServerUnchanged
      /\ streams[c][a].buffer # << >>
  BY <1>1 DEF Receive, Polls, Watching
<1>3. CASE End(c, "garbled") \/ End(c, "deleted")
  BY <1>2, <1>3, EndKeeps DEF Outcomes
<1>4. CASE BeginRecovery(c, FALSE)
  BY <1>2, <1>4, BeginRecoveryKeeps
<1>5. CASE /\ event.kind = "change" /\ UNCHANGED calls
           /\ streams' = [streams EXCEPT ![c][a].buffer = Tail(streams[c][a].buffer)]
           /\ Applies(c, event)
  <2>1. Consumes(c, a)
    BY <1>2, <1>5 DEF Consumes
  <2> QED
    BY <1>1, <1>2, <1>5, <2>1, FollowKeeps
<1> QED
  BY <1>1, <1>3, <1>4, <1>5 DEF Receive, Applies

\* The snapshot that was asked for is shown.
LEMMA InstallKeeps ==
    ASSUME Inv, NEW c \in Clients, NEW warning \in BOOLEAN, Answered(c), Install(c, warning),
           ServerUnchanged
    PROVE  Inv'
<1> DEFINE n == Sequence(calls[c].changes)
           q == Installed(c, warning)
           v == [life |-> calls[c].life, seen |-> UpTo(calls[c].changes)]
           f == clients[c].overflow /\ n = MaxSequence
<1>1. /\ clients' = [clients EXCEPT ![c] = q] /\ views' = [views EXCEPT ![c] = v]
      /\ calls' = [calls EXCEPT ![c] = NoCall]
      /\ UNCHANGED <<lives, live, stored, observers, link, streams>>
  BY DEF Install, ServerUnchanged
<1>2. /\ calls[c].life \in 1 .. Actor /\ calls[c].changes \in Nat
      /\ calls[c].changes <= lives[calls[c].life]
      /\ calls[c].life \in 0 .. MaxLives
  BY ClientFacts DEF ClientInv
<1>3. n \in 0 .. MaxSequence
  BY <1>2, SequenceProperties
<1>4. /\ q \in ClientStates /\ q.phase = "watching" /\ q.current = Fresh(c) /\ q.last = clients[c].last
      /\ q.expected = n /\ q.ended = clients[c].ended
  <2>1. clients[c] \in ClientStates /\ Fresh(c) \in 0 .. MaxAttachment
    BY ClientFacts, RpcSessionAssumption DEF Attachments
  <2>2. f \in BOOLEAN /\ "watching" \in {"opening", "watching", "reopening", "detaching"}
    OBVIOUS
  <2> DEFINE g == Fresh(c)
  <2>3. q = [clients[c] EXCEPT !.phase = "watching", !.current = g, !.expected = n,
                               !.exhausted = f, !.overflow = FALSE, !.warning = warning]
    BY DEF Installed
  <2> HIDE DEF q, f, n, g
  <2>4. [clients[c] EXCEPT !.phase = "watching", !.current = g] \in ClientStates
    BY <2>1, <2>2 DEF ClientStates, g
  <2>5. [clients[c] EXCEPT !.phase = "watching", !.current = g, !.expected = n, !.exhausted = f]
           \in ClientStates
    BY <1>3, <2>2, <2>4 DEF ClientStates
  <2>6. q \in ClientStates
    BY <2>3, <2>5 DEF ClientStates
  <2>7. /\ q.phase = "watching" /\ q.current = g /\ q.last = clients[c].last
        /\ q.expected = n /\ q.ended = clients[c].ended
    BY <2>1, <2>3 DEF ClientStates
  <2> QED
    BY <2>6, <2>7 DEF g
<1>5. UpTo(calls[c].changes) \in Seq(Nat) /\ Len(UpTo(calls[c].changes)) = calls[c].changes
  BY <1>2, UpToProperties
<1>6. v \in [life : 0 .. MaxLives, seen : Seq(Nat)] /\ v.life = calls[c].life
      /\ v.seen = UpTo(calls[c].changes)
  BY <1>2, <1>5
<1> HIDE DEF q, v, n
<1>7. /\ clients' \in [Clients -> ClientStates] /\ clients'[c] = q
      /\ views' \in [Clients -> [life : 0 .. MaxLives, seen : Seq(Nat)]] /\ views'[c] = v
      /\ calls' \in [Clients -> Snapshots] /\ calls'[c] = NoCall
      /\ \A d \in Clients : d # c => SameClient(d)
  BY <1>1, <1>4, <1>6, ClientUpdate DEF SameClient
<1>8. /\ Active(c)' /\ Watching(c)' /\ ~Answered(c)' /\ Fresh(c)' = Fresh(c)
      /\ clients'[c].current = Fresh(c) /\ Actor' = Actor
  <2>1. clients[c].ended = "no"
    BY DEF Answered, Active
  <2> QED
    BY <1>1, <1>4, <1>7, <2>1 DEF Active, Watching, Answered, Fresh, Actor, NoCall
<1>9. ClientInv(c)'
  <2>1. /\ calls'[c].answer = "none" /\ calls'[c].kind = "none"
        /\ views'[c].life = calls[c].life /\ views'[c].seen = UpTo(calls[c].changes)
        /\ Len(views'[c].seen) = calls[c].changes /\ clients'[c].expected = n
    BY <1>4, <1>5, <1>6, <1>7 DEF NoCall
  <2>2. Fresh(c) <= Fresh(c) /\ calls[c].life <= Actor /\ calls[c].life # 0
    BY <1>2, ClientFacts, RpcSessionAssumption DEF Attachments
  <2> QED
    BY <1>1, <1>2, <1>8, <2>1, <2>2 DEF ClientInv, n
<1>10. \A a \in Attachments : /\ Unused(c, a)' => Unused(c, a)
                              /\ \A life : Carries(c, a, life)' => Carries(c, a, life)
  BY <1>4, <1>6, <1>7, <1>8 DEF Unused, Carries, NoCall
<1> QED
  BY <1>1, <1>7, <1>8, <1>9, <1>10, ClientUpdate, OneClientKeeps

\* The recovery asks for its old attachment to be removed.
Reopens(c) ==
    /\ clients' = [clients EXCEPT ![c].phase = "detaching"]
    /\ calls' = [calls EXCEPT ![c].kind = "detach", ![c].answer = "none"]
    /\ UNCHANGED <<streams, views>>

LEMMA ReopenedKeeps ==
    ASSUME Inv, NEW c \in Clients, Active(c), calls[c].answer = "snapshot", Reopens(c), ServerUnchanged
    PROVE  Inv'
<1>1. UNCHANGED <<lives, live, stored, observers, link, streams, views>>
  BY DEF ServerUnchanged, Reopens
<1>2. clients[c] \in ClientStates /\ calls[c] \in Snapshots
  BY ClientUpdate
<1> DEFINE q == [clients[c] EXCEPT !.phase = "detaching"]
           k == [calls[c] EXCEPT !.kind = "detach", !.answer = "none"]
<1>3. /\ q \in ClientStates /\ q.phase = "detaching" /\ q.current = clients[c].current
      /\ q.last = clients[c].last /\ q.ended = clients[c].ended
  BY <1>2 DEF ClientStates
<1>4. /\ k \in Snapshots /\ k.kind = "detach" /\ k.answer = "none"
      /\ k.life = calls[c].life /\ k.changes = calls[c].changes
  BY <1>2 DEF Snapshots
<1>5. clients' = [clients EXCEPT ![c] = q] /\ calls' = [calls EXCEPT ![c] = k]
  BY ClientUpdate DEF Reopens
<1> HIDE DEF q, k
<1>6. /\ clients' \in [Clients -> ClientStates] /\ clients'[c] = q
      /\ calls' \in [Clients -> Snapshots] /\ calls'[c] = k
      /\ \A d \in Clients : d # c => SameClient(d)
  <2>1. /\ clients' \in [Clients -> ClientStates] /\ clients'[c] = q
        /\ \A d \in Clients : d # c => clients'[d] = clients[d]
    BY <1>3, <1>5, ClientUpdate
  <2>2. /\ calls' \in [Clients -> Snapshots] /\ calls'[c] = k
        /\ \A d \in Clients : d # c => calls'[d] = calls[d]
    BY <1>4, <1>5, ClientUpdate
  <2> QED
    BY <1>1, <2>1, <2>2 DEF SameClient
<1>7. /\ Active(c)' /\ ~Watching(c)' /\ Answered(c) /\ Answered(c)' /\ Fresh(c)' = Fresh(c)
      /\ Actor' = Actor
  BY <1>1, <1>3, <1>4, <1>6 DEF Active, Watching, Answered, Fresh, Actor
<1>8. ClientInv(c)'
  BY <1>1, <1>3, <1>4, <1>6, <1>7, ClientFacts DEF ClientInv
<1>9. \A a \in Attachments : /\ Unused(c, a)' => Unused(c, a)
                             /\ \A life : Carries(c, a, life)' => Carries(c, a, life)
  BY <1>4, <1>6, <1>7 DEF Unused, Carries
<1> QED
  BY <1>1, <1>6, <1>7, <1>8, <1>9, ClientUpdate, OneClientKeeps

LEMMA PollKeeps == ASSUME Inv, NEW c \in Clients, Poll(c) PROVE Inv'
<1>1. CASE TakeWarning(c)
  BY <1>1, TakeWarningKeeps
<1>2. CASE Overflow(c)
  BY <1>2, EndKeeps, BeginRecoveryKeeps DEF Overflow, Polls, Watching, Outcomes
<1>3. CASE ConnectionClosed(c)
  BY <1>3, EndKeeps DEF ConnectionClosed, Outcomes
<1>4. CASE Receive(c)
  BY <1>4, ReceiveKeeps
<1>5. CASE ObserverClosed(c)
  BY <1>5, BeginRecoveryKeeps DEF ObserverClosed, Polls, Watching
<1>6. CASE Opened(c)
  <2>1. Active(c) /\ calls[c].answer = "snapshot" /\ ServerUnchanged /\ Answered(c)
    BY <1>6 DEF Opened, Answered
  <2>2. CASE Install(c, FALSE)
    BY <2>1, <2>2, InstallKeeps
  <2>3. CASE Reopens(c)
    BY <2>1, <2>3, ReopenedKeeps
  <2> QED
    BY <1>6, <2>2, <2>3 DEF Opened, Reopens
<1>7. CASE Missing(c)
  <2>1. PICK outcome \in {"absent", "deleted"} : End(c, outcome)
    BY <1>7 DEF Missing
  <2> QED
    BY <1>7, <2>1, EndKeeps DEF Missing, Outcomes
<1>8. CASE Detached(c)
  <2>1. Answered(c)
    BY <1>8, ClientFacts DEF Detached, Answered, ClientInv
  <2> QED
    BY <1>8, <2>1, InstallKeeps DEF Detached
<1>9. CASE CallFails(c)
  <2>1. CASE calls[c].kind = "detach"
    BY <1>9, <2>1, InstallKeeps DEF CallFails, Answered
  <2>2. CASE calls[c].kind # "detach"
    BY <1>9, <2>2, EndKeeps DEF CallFails, Outcomes
  <2> QED
    BY <2>1, <2>2
<1>10. CASE Failed(c)
  BY <1>10, EndKeeps DEF Failed, Outcomes
<1> QED
  BY <1>1, <1>2, <1>3, <1>4, <1>5, <1>6, <1>7, <1>8, <1>9, <1>10 DEF Poll

-----------------------------------------------------------------------------
(* The invariant holds *)

LEMMA InitInv == Init => Inv
<1> SUFFICES ASSUME Init PROVE Inv
  OBVIOUS
<1>1. Actor = 1 /\ lives[1] = 0 /\ lives \in Seq(0 .. MaxChanges)
  BY RpcSessionAssumption DEF Init, Actor
<1>2. ServerTypes
  BY <1>1, RpcSessionAssumption DEF Init, ServerTypes, Actor
<1>3. \A c \in Clients : \A a \in Attachments : streams[c][a] = NoStream
  BY DEF Init
<1>4. StreamTypes
  BY <1>3, NoStreamProperties DEF Init, StreamTypes
<1> DEFINE q == [phase |-> "opening", current |-> 0, last |-> 1, expected |-> 0, overflow |-> FALSE,
                 exhausted |-> FALSE, warning |-> FALSE, ended |-> "no"]
           k == [NoCall EXCEPT !.kind = "open"]
           v == [life |-> 0, seen |-> << >>]
<1>5. q \in ClientStates /\ q.phase = "opening" /\ q.current = 0 /\ q.last = 1 /\ q.ended = "no"
  <2>1. 1 \in Attachments /\ 0 \in 0 .. MaxAttachment /\ 0 \in 0 .. MaxSequence
    BY RpcSessionAssumption DEF Attachments
  <2> QED
    BY <2>1 DEF ClientStates, Outcomes
<1>6. k \in Snapshots /\ k.kind = "open" /\ k.answer = "none" /\ k.life = 0 /\ k.changes = 0
  <2>1. 0 \in 0 .. MaxLives /\ 0 \in 0 .. MaxChanges
    BY RpcSessionAssumption
  <2> QED
    BY <2>1 DEF NoCall, Snapshots
<1>7. v \in [life : 0 .. MaxLives, seen : Seq(Nat)] /\ v.life = 0 /\ v.seen = << >>
  <2>1. << >> \in Seq(Nat) /\ 0 \in 0 .. MaxLives
    BY RpcSessionAssumption
  <2> QED
    BY <2>1
<1>8. /\ clients = [c \in Clients |-> q] /\ calls = [c \in Clients |-> k]
      /\ views = [c \in Clients |-> v] /\ observers = {} /\ live = TRUE /\ stored = TRUE
  BY DEF Init
<1> HIDE DEF q, k, v
<1>9. \A c \in Clients : ~Watching(c) /\ Active(c) /\ ~Answered(c) /\ Fresh(c) = 1
  BY <1>5, <1>6, <1>8 DEF Watching, Active, Answered, Fresh
<1>10. ClientTypes
  BY <1>5, <1>6, <1>7, <1>8, <1>9 DEF ClientTypes
<1>11. ASSUME NEW c \in Clients PROVE ClientInv(c)
  <2>1. Len(views[c].seen) = 0 /\ views[c].seen = UpTo(Len(views[c].seen))
    BY <1>7, <1>8, UpToProperties
  <2> QED
    BY <1>1, <1>5, <1>6, <1>7, <1>8, <1>9, <2>1 DEF ClientInv
<1>12. ASSUME NEW c \in Clients, NEW a \in Attachments PROVE StreamInv(c, a)
  BY <1>3, <1>8, <1>9, NoStreamProperties DEF StreamInv, Carries
<1> QED
  BY <1>2, <1>4, <1>8, <1>10, <1>11, <1>12, Types DEF Inv

LEMMA NextInv == Inv /\ [Next]_vars => Inv'
<1> SUFFICES ASSUME Inv, [Next]_vars PROVE Inv'
  OBVIOUS
<1>1. CASE Change
  BY <1>1, ChangeKeeps
<1>2. CASE FinishDelete
  BY <1>2, FinishDeleteKeeps
<1>3. CASE AbortDelete
  BY <1>3, AbortDeleteKeeps
<1>4. CASE DeleteStored
  BY <1>4, DeleteStoredKeeps
<1>5. ASSUME NEW c \in Clients, Serve(c) PROVE Inv'
  BY <1>5, AttachKeeps, RefusalKeeps, DetachKeeps, DetachConnectionKeeps DEF Serve
<1>6. ASSUME NEW c \in Clients, Deliver(c) PROVE Inv'
  BY <1>6, TakeKeeps, PumpEndsKeeps, PublishKeeps DEF Deliver
<1>7. ASSUME NEW c \in Clients, Disconnect(c) PROVE Inv'
  BY <1>7, DisconnectKeeps
<1>8. ASSUME NEW c \in Clients, Poll(c) PROVE Inv'
  BY <1>8, PollKeeps
<1>9. CASE UNCHANGED vars
  <2>1. UNCHANGED <<lives, live, stored, observers, streams, link, calls, clients, views>>
    BY <1>9 DEF vars
  <2> QED
    BY <2>1, ClientUpdate, DeliveryKeeps
<1> QED
  BY <1>1, <1>2, <1>3, <1>4, <1>5, <1>6, <1>7, <1>8, <1>9 DEF Next

\* What clients show, and what is on the way to them, in every reachable state.
THEOREM InvariantHolds == Spec => []Inv
<1>1. Init => Inv
  BY InitInv
<1>2. Inv /\ [Next]_vars => Inv'
  BY NextInv
<1> QED
  BY <1>1, <1>2, PTL DEF Spec

\* Every record of the actor, the server and the clients keeps its shape.
THEOREM TypeCorrect == Spec => []TypeOK
<1>1. Inv => TypeOK
  BY DEF Inv
<1> QED
  BY <1>1, InvariantHolds, PTL

\* Events are queued only below Capacity: the slot of the terminal event that
\* finish_delete uses is free for every observer, as the actor asserts.
THEOREM TerminalEventCorrect == Spec => []TerminalEventFits
<1>1. Inv => TerminalEventFits
  <2> SUFFICES ASSUME Inv, NEW o \in observers
               PROVE  Len(streams[o[1]][o[2]].queue) <= Capacity
    BY DEF TerminalEventFits
  <2>1. observers \subseteq Clients \X Attachments
    BY Types DEF Inv, ServerTypes
  <2>2. PICK c \in Clients, a \in Attachments : o = <<c, a>>
    BY <2>1
  <2> QED
    BY <2>2, StreamFacts DEF StreamInv
<1> QED
  BY <1>1, InvariantHolds, PTL

-----------------------------------------------------------------------------
(* The promise of SessionView is kept *)

\* Why each client stopped, as SessionView sees it.
Why == [c \in Clients |-> IF clients[c].ended \in {"no", "deleted"} THEN clients[c].ended ELSE "other"]

LEMMA WhyProperties ==
    /\ \A c \in Clients : (Why[c] = "no") <=> Active(c)
    /\ (\A c \in Clients : clients'[c].ended = clients[c].ended) => Why' = Why
<1>1. ASSUME NEW c \in Clients PROVE (Why[c] = "no") <=> Active(c)
  BY DEF Why, Active
<1>2. ASSUME \A c \in Clients : clients'[c].ended = clients[c].ended PROVE Why' = Why
  BY <1>2 DEF Why
<1> QED
  BY <1>1, <1>2

\* Such a step is none for SessionView.
Stutters == UNCHANGED <<lives, stored, views>> /\ \A c \in Clients : clients'[c].ended = clients[c].ended

LEMMA ViewStutters == Stutters => UNCHANGED View!vars
<1> SUFFICES ASSUME Stutters PROVE UNCHANGED View!vars
  OBVIOUS
<1>1. Why' = Why
  BY WhyProperties DEF Stutters
<1> QED
  BY <1>1 DEF Stutters, View!vars, Why

LEMMA EndLeaves ==
    ASSUME Inv, NEW c \in Clients, Active(c), NEW outcome \in Outcomes, outcome # "no",
           outcome = "deleted" => ~stored, End(c, outcome), ServerUnchanged
    PROVE  View!Leave(c)
<1>1. /\ clients' = [clients EXCEPT ![c].ended = outcome] /\ UNCHANGED <<lives, stored, views>>
  BY DEF End, ServerUnchanged
<1>2. PICK o \in {"deleted", "other"} : o = IF outcome = "deleted" THEN "deleted" ELSE "other"
  OBVIOUS
<1>3. clients'[c].ended = outcome /\ \A d \in Clients : d # c => clients'[d] = clients[d]
  BY <1>1, ClientUpdate DEF ClientStates
<1>4. Why' = [Why EXCEPT ![c] = o]
  BY <1>2, <1>3 DEF Why
<1>5. Why[c] = "no"
  BY WhyProperties
<1>6. /\ Why[c] = "no" /\ (o = "deleted" => ~stored) /\ Why' = [Why EXCEPT ![c] = o]
      /\ UNCHANGED <<lives, stored, views>>
  BY <1>1, <1>2, <1>4, <1>5
<1> QED
  BY <1>6 DEF View!Leave, Why

LEMMA RecoveryRefines ==
    ASSUME Inv, NEW c \in Clients, Active(c), NEW overflow, BeginRecovery(c, overflow), ServerUnchanged
    PROVE  View!Leave(c) \/ Stutters
<1>1. CASE End(c, "ids")
  BY <1>1, EndLeaves DEF Outcomes
<1>2. CASE /\ clients' = [clients EXCEPT ![c].phase = "reopening", ![c].last = @ + 1,
                                         ![c].overflow = overflow]
           /\ UNCHANGED <<streams, views>>
  <2>1. \A d \in Clients : clients'[d].ended = clients[d].ended
    BY <1>2, ClientUpdate DEF ClientStates
  <2> QED
    BY <1>2, <2>1 DEF Stutters, ServerUnchanged
<1> QED
  BY <1>1, <1>2 DEF BeginRecovery

LEMMA InstallRefreshes ==
    ASSUME Inv, NEW c \in Clients, NEW warning, Answered(c), Install(c, warning), ServerUnchanged
    PROVE  View!Refresh(c)
<1>1. PICK life, n : life = calls[c].life /\ n = calls[c].changes
  OBVIOUS
<1>2. /\ life \in 1 .. Actor /\ life >= views[c].life /\ n <= lives[life] /\ n \in Nat
      /\ life = views[c].life => n >= Len(views[c].seen)
      /\ views[c].life \in Nat /\ lives[life] \in Nat
  BY <1>1, ClientFacts DEF ClientInv
<1>3. life \in (views[c].life .. Len(lives)) \ {0} /\ n \in 0 .. lives[life]
  BY <1>2, ClientFacts DEF Actor
<1>4. /\ views' = [views EXCEPT ![c] = [life |-> life, seen |-> UpTo(n)]]
      /\ UNCHANGED <<lives, stored>>
  BY <1>1 DEF Install, ServerUnchanged
<1>5. \A d \in Clients : clients'[d].ended = clients[d].ended
  <2>1. clients' = [clients EXCEPT ![c] = Installed(c, warning)]
    BY DEF Install
  <2>2. Installed(c, warning).ended = clients[c].ended
    BY ClientUpdate DEF Installed, ClientStates
  <2> QED
    BY <2>1, <2>2, ClientUpdate
<1>6. Why' = Why /\ Why[c] = "no"
  BY <1>5, WhyProperties DEF Answered
<1>7. UpTo(n) = View!UpTo(n)
  BY DEF UpTo, View!UpTo
<1> QED
  BY <1>2, <1>3, <1>4, <1>6, <1>7 DEF View!Refresh, Why

LEMMA ReceiveRefines ==
    ASSUME Inv, NEW c \in Clients, Receive(c)
    PROVE  View!Leave(c) \/ View!Follow(c) \/ Stutters
<1>1. PICK a \in Attachments : a = clients[c].current
  BY ClientFacts, Types DEF Inv, ClientTypes, Receive, Polls
<1>2. PICK event : event = Head(streams[c][a].buffer)
  OBVIOUS
<1>3. /\ Active(c) /\ Watching(c) /\ clients[c].expected < MaxSequence /\ ServerUnchanged
      /\ streams[c][a].buffer # << >>
  BY <1>1 DEF Receive, Polls, Watching
<1>4. event \in InWay(streams[c][a])
  <2>1. streams[c][a].buffer \in Seq(Events)
    BY StreamFacts DEF Streams
  <2> QED
    BY <1>2, <1>3, <2>1, ElemsOfTail DEF InWay
<1>5. CASE End(c, "garbled")
  BY <1>3, <1>5, EndLeaves DEF Outcomes
<1>6. CASE End(c, "deleted") /\ event.kind = "deleted"
  <2>1. ~stored
    BY <1>4, <1>6, StreamFacts DEF StreamInv
  <2> QED
    BY <1>3, <1>6, <2>1, EndLeaves DEF Outcomes
<1>7. CASE BeginRecovery(c, FALSE)
  BY <1>3, <1>7, RecoveryRefines
<1>8. CASE UNCHANGED <<clients, views>>
  BY <1>3, <1>8 DEF Stutters, ServerUnchanged
<1>9. CASE /\ event.kind = "change" /\ event.sequence = clients[c].expected + 1
           /\ clients' = [clients EXCEPT ![c].expected = clients[c].expected + 1]
           /\ views' = [views EXCEPT ![c].seen = Append(@, event.sequence)]
  <2>1. PICK n : n = Len(views[c].seen)
    OBVIOUS
  <2>2. /\ n \in Nat /\ clients[c].expected = n /\ views[c].life \in 1 .. Actor
        /\ n + 1 <= lives[views[c].life]
    BY <1>1, <1>3, <1>4, <1>9, <2>1, NextEvent
  <2>3. \A d \in Clients : clients'[d].ended = clients[d].ended
    BY <1>9, ClientUpdate DEF ClientStates
  <2>4. Why' = Why /\ Why[c] = "no"
    BY <1>3, <2>3, WhyProperties
  <2>5. views' = [views EXCEPT ![c].seen = Append(@, n + 1)] /\ views[c].life # 0
    BY <1>9, <2>2
  <2> QED
    BY <1>3, <2>1, <2>2, <2>4, <2>5 DEF View!Follow, Why, ServerUnchanged
<1> QED
  BY <1>1, <1>2, <1>5, <1>6, <1>7, <1>8, <1>9 DEF Receive

LEMMA PollRefines ==
    ASSUME Inv, NEW c \in Clients, Poll(c)
    PROVE  View!Leave(c) \/ View!Follow(c) \/ View!Refresh(c) \/ Stutters
<1>1. CASE TakeWarning(c)
  <2>1. clients' = [clients EXCEPT ![c].warning = FALSE]
    BY <1>1 DEF TakeWarning
  <2>2. \A d \in Clients : clients'[d].ended = clients[d].ended
    BY <2>1, ClientUpdate DEF ClientStates
  <2> QED
    BY <1>1, <2>2 DEF TakeWarning, ServerUnchanged, Stutters
<1>2. CASE Overflow(c)
  BY <1>2, EndLeaves, RecoveryRefines DEF Overflow, Polls, Watching, Outcomes
<1>3. CASE ConnectionClosed(c)
  BY <1>3, EndLeaves DEF ConnectionClosed, Polls, Watching, Outcomes
<1>4. CASE Receive(c)
  BY <1>4, ReceiveRefines
<1>5. CASE ObserverClosed(c)
  BY <1>5, RecoveryRefines DEF ObserverClosed, Polls, Watching
<1>6. CASE Opened(c)
  <2>1. ServerUnchanged /\ Answered(c)
    BY <1>6 DEF Opened, Answered
  <2>2. CASE Install(c, FALSE)
    BY <2>1, <2>2, InstallRefreshes
  <2>3. CASE clients' = [clients EXCEPT ![c].phase = "detaching"] /\ UNCHANGED <<streams, views>>
    <3>1. \A d \in Clients : clients'[d].ended = clients[d].ended
      BY <2>3, ClientUpdate DEF ClientStates
    <3> QED
      BY <2>1, <2>3, <3>1 DEF Stutters, ServerUnchanged
  <2> QED
    BY <1>6, <2>2, <2>3 DEF Opened
<1>7. CASE Missing(c)
  <2>1. PICK outcome \in {"absent", "deleted"} : End(c, outcome)
    BY <1>7 DEF Missing
  <2>2. ~stored
    BY <1>7, ClientFacts DEF Missing, ClientInv
  <2> QED
    BY <1>7, <2>1, <2>2, EndLeaves DEF Missing, Outcomes
<1>8. CASE Detached(c)
  <2>1. Answered(c)
    BY <1>8, ClientFacts DEF Detached, Answered, ClientInv
  <2> QED
    BY <1>8, <2>1, InstallRefreshes DEF Detached
<1>9. CASE CallFails(c)
  <2>1. CASE calls[c].kind = "detach"
    BY <1>9, <2>1, InstallRefreshes DEF CallFails, Answered
  <2>2. CASE calls[c].kind # "detach"
    BY <1>9, <2>2, EndLeaves DEF CallFails, Outcomes
  <2> QED
    BY <2>1, <2>2
<1>10. CASE Failed(c)
  BY <1>10, EndLeaves DEF Failed, Outcomes
<1> QED
  BY <1>1, <1>2, <1>3, <1>4, <1>5, <1>6, <1>7, <1>8, <1>9, <1>10 DEF Poll

LEMMA StepRefines == Inv /\ [Next]_vars => [View!Next]_(View!vars)
<1> SUFFICES ASSUME Inv, [Next]_vars PROVE View!Next \/ UNCHANGED View!vars
  OBVIOUS
<1>0. (~stored => ~live) /\ live \in BOOLEAN /\ stored \in BOOLEAN
  BY Types DEF Inv, ServerTypes
<1>1. CASE Change
  BY <1>0, <1>1 DEF Change, View!Next, View!Change, Actor
<1>2. CASE FinishDelete
  BY <1>2 DEF FinishDelete, View!Next, View!Delete
<1>3. CASE AbortDelete
  BY <1>3, ViewStutters DEF AbortDelete, Stutters
<1>4. CASE DeleteStored
  <2>1. stored' = FALSE /\ UNCHANGED <<lives, clients, views>>
    BY <1>4 DEF DeleteStored
  <2> QED
    BY <2>1 DEF View!Next, View!Delete
<1>5. ASSUME NEW c \in Clients, Serve(c) PROVE View!Next \/ UNCHANGED View!vars
  <2>1. CASE Attach(c)
    <3>1. CASE live
      BY <2>1, <3>1, ViewStutters DEF Attach, Stutters
    <3>2. CASE ~live
      BY <2>1, <3>2 DEF Attach, View!Next, View!Restart
    <3> QED
      BY <3>1, <3>2
  <2>2. CASE NotFound(c) \/ OpenFails(c) \/ Detach(c) \/ DetachConnection(c)
    BY <2>2, ViewStutters DEF NotFound, OpenFails, Detach, DetachConnection, Stutters
  <2> QED
    BY <1>5, <2>1, <2>2 DEF Serve
<1>6. ASSUME NEW c \in Clients, Deliver(c) PROVE View!Next \/ UNCHANGED View!vars
  BY <1>6, ViewStutters DEF Deliver, Take, PumpEnds, Publish, Stutters
<1>7. ASSUME NEW c \in Clients, Disconnect(c) PROVE View!Next \/ UNCHANGED View!vars
  BY <1>7, ViewStutters DEF Disconnect, Stutters
<1>8. ASSUME NEW c \in Clients, Poll(c) PROVE View!Next \/ UNCHANGED View!vars
  <2>1. View!Leave(c) \/ View!Follow(c) \/ View!Refresh(c) => View!Next
    BY DEF View!Next
  <2> QED
    BY <1>8, <2>1, PollRefines, ViewStutters
<1>9. CASE UNCHANGED vars
  BY <1>9, ViewStutters DEF vars, Stutters
<1> QED
  BY <1>1, <1>2, <1>3, <1>4, <1>5, <1>6, <1>7, <1>8, <1>9 DEF Next

\* Whatever is dropped, replaced or attached again, a client shows states its
\* session really had, never an older one than before, and is told of a
\* deletion only when there was one.
THEOREM ViewCorrect == Spec => ViewSpec
<1>1. Init => View!Init
  BY DEF Init, View!Init, View!Nothing
<1>2. Inv /\ [Next]_vars => [View!Next]_(View!vars)
  BY StepRefines
<1> QED
  BY <1>1, <1>2, InvariantHolds, PTL DEF Spec, ViewSpec, View!Spec

-----------------------------------------------------------------------------
(* Nothing is lost *)

\* How many events are between the actor and the client.
OnWay(s) == Len(s.buffer) + Len(s.sending) + Len(s.queue)

\* They are numbered one after the other from n on: first what is buffered, then
\* what is being published, then what is queued.
Numbered(s, n) ==
    /\ \A i \in 1 .. Len(s.buffer) : s.buffer[i].sequence = n + i
    /\ \A i \in 1 .. Len(s.sending) : s.sending[i].sequence = n + Len(s.buffer) + i
    /\ \A i \in 1 .. Len(s.queue) : s.queue[i].sequence = n + Len(s.buffer) + Len(s.sending) + i

\* The number client c has shown, or will show first, of its attachment a.
Begins(c, a, n) ==
    \/ Watching(c) /\ a = clients[c].current /\ n = clients[c].expected
    \/ Answered(c) /\ a = Fresh(c) /\ n = Sequence(calls[c].changes)

\* What is on its way follows what the client shows, and reaches up to the actor
\* as long as the actor keeps the observer.
OrderInv(c, a) ==
    \A n \in Nat : Begins(c, a, n) =>
        /\ Numbered(streams[c][a], n)
        /\ <<c, a>> \in observers /\ streams[c][a].pump = "running" =>
                n + OnWay(streams[c][a]) = Sequence(lives[Actor])

Ordered == \A c \in Clients : \A a \in Attachments : OrderInv(c, a)

\* The three parts of a stream are sequences.
LEMMA PartsOfStream ==
    ASSUME NEW s \in Streams
    PROVE  /\ s.queue \in Seq(Events) /\ s.sending \in Seq(Events) /\ s.buffer \in Seq(Events)
           /\ Len(s.queue) \in Nat /\ Len(s.sending) \in Nat /\ Len(s.buffer) \in Nat
           /\ OnWay(s) \in Nat
<1>1. s.queue \in Seq(Events) /\ s.sending \in Seq(Events) /\ s.buffer \in Seq(Events)
  BY DEF Streams
<1>2. Len(s.queue) \in Nat /\ Len(s.sending) \in Nat /\ Len(s.buffer) \in Nat
  BY <1>1, LenProperties
<1>3. \A a, b, d \in Nat : a + b + d \in Nat
  OBVIOUS
<1> QED BY <1>1, <1>2, <1>3 DEF OnWay

\* A stream that starts is numbered from anywhere.
LEMMA NoStreamNumbered ==
    ASSUME NEW n \in Nat, NEW s, s.queue = << >>, s.sending = << >>, s.buffer = << >>
    PROVE  Numbered(s, n) /\ OnWay(s) = 0
BY DEF Numbered, OnWay

\* The delivery task publishes one event at a time.
LEMMA OneSending ==
    ASSUME NEW s \in Streams, Short(s), s.sending # << >>
    PROVE  Len(s.sending) = 1
<1>1. Len(s.sending) \in Nat /\ Len(s.sending) # 0
  BY PartsOfStream, EmptySeq
<1>2. Len(s.sending) <= 1
  BY DEF Short
<1>3. \A x \in Nat : x # 0 /\ x <= 1 => x = 1
  OBVIOUS
<1> QED BY <1>1, <1>2, <1>3

\* Taking an event from the queue leaves the order.
LEMMA TakeNumbered ==
    ASSUME NEW s \in Streams, NEW n \in Nat, s.sending = << >>, s.queue # << >>,
           NEW t, t = [s EXCEPT !.sending = <<Head(s.queue)>>, !.queue = Tail(@)]
    PROVE  /\ t.pump = s.pump /\ OnWay(t) = OnWay(s)
           /\ Numbered(s, n) => Numbered(t, n)
<1> DEFINE k == Len(s.buffer)
           m == Len(s.queue)
<1>1. /\ t.queue = Tail(s.queue) /\ t.sending = <<Head(s.queue)>> /\ t.buffer = s.buffer
      /\ t.pump = s.pump
  BY DEF Streams
<1>2. /\ Len(Tail(s.queue)) = m - 1 /\ m \in Nat \ {0} /\ k \in Nat /\ Head(s.queue) = s.queue[1]
      /\ \A i \in 1 .. m - 1 : Tail(s.queue)[i] = s.queue[i + 1]
  BY PartsOfStream, HeadTailProperties, EmptySeq
<1>3. Len(t.sending) = 1 /\ t.sending[1] = s.queue[1] /\ Len(s.sending) = 0
  BY <1>1, <1>2
<1>4. OnWay(t) = OnWay(s)
  <2>1. k + 1 + (m - 1) = k + 0 + m
    <3> HIDE DEF k, m
    <3> QED BY <1>2
  <2>2. OnWay(t) = k + 1 + (m - 1) /\ OnWay(s) = k + 0 + m
    BY <1>1, <1>2, <1>3 DEF OnWay
  <2> QED BY <2>1, <2>2
<1>5. ASSUME Numbered(s, n) PROVE Numbered(t, n)
  <2>1. \A i \in 1 .. m : s.queue[i].sequence = n + k + i
    BY <1>2, <1>3, <1>5 DEF Numbered
  <2>2. t.sending[1].sequence = n + k + 1
    BY <1>2, <1>3, <2>1
  <2>3. ASSUME NEW i \in 1 .. m - 1 PROVE t.queue[i].sequence = n + k + 1 + i
    <3>1. i + 1 \in 1 .. m /\ t.queue[i] = s.queue[i + 1]
      BY <1>1, <1>2
    <3>2. n + k + (i + 1) = n + k + 1 + i
      <4> HIDE DEF k, m
      <4> QED BY <1>2
    <3> QED BY <2>1, <3>1, <3>2
  <2>4. \A i \in 1 .. Len(s.buffer) : s.buffer[i].sequence = n + i
    BY <1>5 DEF Numbered
  <2>5. Len(t.queue) = m - 1 /\ Len(t.buffer) = k
    BY <1>1, <1>2
  <2> QED BY <1>1, <1>3, <2>2, <2>3, <2>4, <2>5 DEF Numbered
<1> QED BY <1>1, <1>4, <1>5

\* So does publishing it, whatever becomes of its kind.
LEMMA PublishNumbered ==
    ASSUME NEW s \in Streams, NEW n \in Nat, Len(s.sending) = 1, NEW e,
           e.sequence = s.sending[1].sequence,
           NEW t, t.queue = s.queue, t.sending = << >>, t.buffer = Append(s.buffer, e)
    PROVE  /\ OnWay(t) = OnWay(s)
           /\ Numbered(s, n) => Numbered(t, n)
<1> DEFINE k == Len(s.buffer)
<1>1. t.queue = s.queue /\ t.sending = << >> /\ t.buffer = Append(s.buffer, e)
  OBVIOUS
<1>2. k \in Nat /\ Len(s.queue) \in Nat
  BY PartsOfStream
<1>3. /\ Len(t.buffer) = k + 1 /\ t.buffer[k + 1] = e
      /\ \A i \in 1 .. k : t.buffer[i] = s.buffer[i]
  <2>1. s.buffer \in Seq(Events \cup {e}) /\ e \in Events \cup {e}
    BY PartsOfStream
  <2> QED BY <1>1, <2>1, AppendProperties
<1>4. OnWay(t) = OnWay(s)
  BY <1>1, <1>2, <1>3 DEF OnWay
<1>5. ASSUME Numbered(s, n) PROVE Numbered(t, n)
  <2>1. e.sequence = n + k + 1
    BY <1>5 DEF Numbered
  <2>2. ASSUME NEW i \in 1 .. k + 1 PROVE t.buffer[i].sequence = n + i
    <3>1. CASE i \in 1 .. k
      BY <1>3, <1>5, <3>1 DEF Numbered
    <3>2. CASE i = k + 1
      BY <1>2, <1>3, <2>1, <3>2
    <3> QED BY <1>2, <3>1, <3>2
  <2>3. \A i \in 1 .. Len(t.queue) : t.queue[i].sequence = n + Len(t.buffer) + Len(t.sending) + i
    <3>1. \A i \in 1 .. Len(s.queue) : s.queue[i].sequence = n + k + 1 + i
      BY <1>5 DEF Numbered
    <3>2. Len(t.sending) = 0 /\ n + (k + 1) + 0 = n + k + 1
      BY <1>1, <1>2
    <3> QED BY <1>1, <1>3, <3>1, <3>2
  <2> QED BY <1>1, <1>3, <2>2, <2>3 DEF Numbered
<1> QED BY <1>1, <1>4, <1>5

\* What ends leaves the client what is buffered.
LEMMA EndedNumbered ==
    ASSUME NEW s \in Streams, NEW n \in Nat, Numbered(s, n)
    PROVE  Numbered(Ended(s), n) /\ Ended(s).pump # "running"
<1>1. /\ Ended(s).queue = << >> /\ Ended(s).sending = << >> /\ Ended(s).buffer = s.buffer
      /\ Ended(s).pump = "ended"
  BY DEF Streams, Ended
<1> QED BY <1>1 DEF Numbered

\* The next event goes to the end.
LEMMA SentNumbered ==
    ASSUME NEW s \in Streams, NEW n \in Nat, Numbered(s, n), NEW e \in Events,
           e.sequence = n + OnWay(s) + 1, NEW t, t = [s EXCEPT !.queue = Append(@, e)]
    PROVE  Numbered(t, n) /\ OnWay(t) = OnWay(s) + 1 /\ t.pump = s.pump
<1> DEFINE k == Len(s.buffer)
           j == Len(s.sending)
           m == Len(s.queue)
<1>1. /\ t.queue = Append(s.queue, e) /\ t.sending = s.sending /\ t.buffer = s.buffer
      /\ t.pump = s.pump
  BY DEF Streams
<1>2. k \in Nat /\ j \in Nat /\ m \in Nat
  BY PartsOfStream
<1>3. /\ Len(t.queue) = m + 1 /\ t.queue[m + 1] = e
      /\ \A i \in 1 .. m : t.queue[i] = s.queue[i]
  BY <1>1, PartsOfStream, AppendProperties
<1>4. OnWay(t) = k + j + (m + 1) /\ OnWay(s) = k + j + m
  BY <1>1, <1>3 DEF OnWay
<1>5. k + j + (m + 1) = k + j + m + 1 /\ n + (k + j + m) + 1 = n + k + j + (m + 1)
  <2> HIDE DEF k, j, m
  <2> QED BY <1>2
<1>6. ASSUME NEW i \in 1 .. m + 1 PROVE t.queue[i].sequence = n + k + j + i
  <2>1. CASE i \in 1 .. m
    BY <1>3, <2>1 DEF Numbered
  <2>2. CASE i = m + 1
    BY <1>3, <1>4, <1>5, <2>2
  <2> QED BY <1>2, <2>1, <2>2
<1> QED BY <1>1, <1>3, <1>4, <1>5, <1>6 DEF Numbered

\* The client takes the first event, which has the next number.
LEMMA ReceiveNumbered ==
    ASSUME NEW s \in Streams, NEW n \in Nat, Numbered(s, n), s.buffer # << >>,
           NEW t, t = [s EXCEPT !.buffer = Tail(s.buffer)]
    PROVE  /\ Head(s.buffer).sequence = n + 1 /\ Numbered(t, n + 1)
           /\ OnWay(t) = OnWay(s) - 1 /\ t.pump = s.pump
<1> DEFINE k == Len(s.buffer)
           j == Len(s.sending)
<1>1. /\ t.queue = s.queue /\ t.sending = s.sending /\ t.buffer = Tail(s.buffer)
      /\ t.pump = s.pump
  BY DEF Streams
<1>2. /\ Len(Tail(s.buffer)) = k - 1 /\ k \in Nat \ {0} /\ Head(s.buffer) = s.buffer[1]
      /\ \A i \in 1 .. k - 1 : Tail(s.buffer)[i] = s.buffer[i + 1]
      /\ j \in Nat /\ Len(s.queue) \in Nat
  BY PartsOfStream, HeadTailProperties, EmptySeq
<1>3. Head(s.buffer).sequence = n + 1
  BY <1>2 DEF Numbered
<1>4. OnWay(t) = OnWay(s) - 1
  <2> DEFINE m == Len(s.queue)
  <2>1. OnWay(t) = k - 1 + j + m /\ OnWay(s) = k + j + m
    BY <1>1, <1>2 DEF OnWay
  <2>2. k - 1 + j + m = k + j + m - 1
    <3> HIDE DEF k, j, m
    <3> QED BY <1>2 DEF m
  <2> QED BY <2>1, <2>2
<1>5. ASSUME NEW i \in 1 .. k - 1 PROVE t.buffer[i].sequence = n + 1 + i
  <2>1. i + 1 \in 1 .. k /\ n + (i + 1) = n + 1 + i
    <3>1. \A x \in Nat \ {0} : \A y \in 1 .. x - 1 : y + 1 \in 1 .. x /\ n + (y + 1) = n + 1 + y
      OBVIOUS
    <3> QED BY <1>2, <3>1
  <2>2. t.buffer[i] = s.buffer[i + 1]
    BY <1>1, <1>2
  <2> QED BY <2>1, <2>2 DEF Numbered
<1>6. ASSUME NEW i \in 1 .. j PROVE t.sending[i].sequence = n + 1 + Len(t.buffer) + i
  <2>1. n + 1 + (k - 1) + i = n + k + i
    BY <1>2
  <2>2. s.sending[i].sequence = n + k + i
    BY DEF Numbered
  <2> QED BY <1>1, <1>2, <2>1, <2>2
<1>7. ASSUME NEW i \in 1 .. Len(s.queue)
      PROVE  t.queue[i].sequence = n + 1 + Len(t.buffer) + Len(t.sending) + i
  <2>1. n + 1 + (k - 1) + j + i = n + k + j + i
    BY <1>2
  <2>2. s.queue[i].sequence = n + k + j + i
    BY DEF Numbered
  <2> QED BY <1>1, <1>2, <2>1, <2>2
<1>8. Len(t.buffer) = k - 1
  BY <1>1, <1>2
<1> QED BY <1>1, <1>3, <1>4, <1>5, <1>6, <1>7, <1>8 DEF Numbered

\* Sequence numbers follow the changes up to their limit.
LEMMA LastSequence ==
    ASSUME Inv
    PROVE  /\ lives[Actor] \in Nat /\ Actor \in 1 .. Len(lives)
           /\ Sequence(lives[Actor]) \in Nat
           /\ lives[Actor] < MaxSequence =>
                Sequence(lives[Actor]) = lives[Actor] /\ Sequence(lives[Actor] + 1) = lives[Actor] + 1
<1>1. lives \in Seq(0 .. MaxChanges) /\ Actor \in 1 .. MaxLives
  BY Types DEF Inv, ServerTypes
<1>2. lives[Actor] \in Nat /\ Actor \in 1 .. Len(lives)
  BY <1>1, RpcSessionAssumption DEF Actor
<1>3. Sequence(lives[Actor]) \in 0 .. MaxSequence
  BY <1>2, SequenceProperties
<1>4. Sequence(lives[Actor]) \in Nat
  BY <1>3, RpcSessionAssumption
<1>5. lives[Actor] < MaxSequence =>
        Sequence(lives[Actor]) = lives[Actor] /\ Sequence(lives[Actor] + 1) = lives[Actor] + 1
  <2>1. \A n \in Nat : n < MaxSequence => Sequence(n) = n /\ Sequence(n + 1) = n + 1
    BY RpcSessionAssumption DEF Sequence
  <2> QED BY <1>2, <2>1
<1> QED BY <1>2, <1>4, <1>5

\* A client that does not move keeps its order if its stream only moves on, and
\* if the actor adds nothing as long as it keeps the observer.
LEMMA OrderStays ==
    ASSUME Inv, NEW c \in Clients, NEW a \in Attachments, OrderInv(c, a), SameClient(c),
           \A n \in Nat : Numbered(streams[c][a], n) => Numbered(streams'[c][a], n),
           <<c, a>> \in observers' /\ streams'[c][a].pump = "running" =>
                /\ <<c, a>> \in observers /\ streams[c][a].pump = "running"
                /\ OnWay(streams'[c][a]) = OnWay(streams[c][a])
                /\ lives'[Len(lives')] = lives[Len(lives)]
    PROVE  OrderInv(c, a)'
<1>1. \A n : Begins(c, a, n)' = Begins(c, a, n)
  BY DEF SameClient, Active, Fresh, Watching, Answered, Begins
<1> QED BY <1>1 DEF OrderInv, Actor, Sequence

\* One stream moves on.
LEMMA OneStreamOrdered ==
    ASSUME Inv, Ordered, NEW c \in Clients, NEW a \in Attachments, NEW t,
           UNCHANGED <<lives, observers, calls, clients, views>>,
           streams' = [streams EXCEPT ![c][a] = t],
           \A n \in Nat : Numbered(streams[c][a], n) => Numbered(t, n),
           t.pump = "running" =>
              streams[c][a].pump = "running" /\ OnWay(t) = OnWay(streams[c][a])
    PROVE  Ordered'
<1>1. streams \in [Clients -> [Attachments -> Streams]]
  BY Types DEF Inv, StreamTypes
<1>2. ASSUME NEW d \in Clients, NEW b \in Attachments PROVE OrderInv(d, b)'
  <2>1. OrderInv(d, b) /\ SameClient(d)
    BY DEF Ordered, SameClient
  <2>2. CASE d = c /\ b = a
    <3>1. streams'[d][b] = t
      BY <1>1, <2>2
    <3> QED BY <2>1, <2>2, <3>1, OrderStays
  <2>3. CASE ~(d = c /\ b = a)
    <3>1. streams'[d][b] = streams[d][b]
      BY <1>1, <2>3
    <3> QED BY <2>1, <3>1, OrderStays
  <2> QED BY <2>2, <2>3
<1> QED BY <1>2 DEF Ordered

\* The delivery tasks keep the order.
LEMMA DeliverOrdered ==
    ASSUME Inv, Ordered, NEW c \in Clients, Deliver(c)
    PROVE  Ordered'
<1>1. PICK a \in Attachments : Take(c, a) \/ PumpEnds(c, a) \/ Publish(c, a)
  BY DEF Deliver
<1> DEFINE s == streams[c][a]
           event == s.sending[1]
           taken == [s EXCEPT !.sending = <<Head(s.queue)>>, !.queue = Tail(@)]
           Buffered(e) == [s EXCEPT !.buffer = Append(@, e), !.sending = << >>]
           garbled == [event EXCEPT !.kind = "garbled"]
<1>2. s \in Streams /\ Short(s) /\ Len(s.sending) \in Nat
  BY StreamFacts, PartsOfStream
<1>3. UNCHANGED <<lives, observers, calls, clients, views>>
  BY <1>1 DEF Take, PumpEnds, Publish
<1>4. CASE streams' = [streams EXCEPT ![c][a] = Ended(s)]
  <2>1. \A n \in Nat : Numbered(s, n) => Numbered(Ended(s), n)
    BY <1>2, EndedNumbered
  <2>2. Ended(s).pump = "ended"
    BY <1>2, EndedMoves
  <2> QED BY <1>3, <1>4, <2>1, <2>2, OneStreamOrdered
<1>5. CASE Take(c, a)
  <2>1. s.sending = << >> /\ s.queue # << >>
    BY <1>5 DEF Take
  <2>2. taken.pump = s.pump /\ OnWay(taken) = OnWay(s)
        /\ \A n \in Nat : Numbered(s, n) => Numbered(taken, n)
    <3>1. ASSUME NEW r \in Streams, NEW n \in Nat, r.sending = << >>, r.queue # << >>,
                 NEW t, t = [r EXCEPT !.sending = <<Head(r.queue)>>, !.queue = Tail(@)]
          PROVE  t.pump = r.pump /\ OnWay(t) = OnWay(r) /\ (Numbered(r, n) => Numbered(t, n))
      BY <3>1, TakeNumbered
    <3>2. taken = [s EXCEPT !.sending = <<Head(s.queue)>>, !.queue = Tail(@)] /\ 0 \in Nat
      OBVIOUS
    <3> HIDE DEF s, taken
    <3> QED BY ZenonT(60), <1>2, <2>1, <3>1, <3>2
  <2>3. CASE streams' = [streams EXCEPT ![c][a] = taken]
    <3> HIDE DEF taken
    <3> QED BY <1>3, <2>2, <2>3, OneStreamOrdered
  <2> QED BY <1>4, <1>5, <2>3 DEF Take
<1>6. CASE Publish(c, a)
  <2>1. Len(s.sending) = 1
    BY <1>2, <1>6, OneSending DEF Publish
  <2>2. event \in Events
    BY <1>2, <2>1, PartsOfStream
  <2>3. garbled.sequence = event.sequence
    BY <2>2 DEF Events
  <2>4. ASSUME NEW e, e.sequence = event.sequence
        PROVE  /\ Buffered(e).pump = s.pump /\ OnWay(Buffered(e)) = OnWay(s)
               /\ \A n \in Nat : Numbered(s, n) => Numbered(Buffered(e), n)
    <3> DEFINE t == Buffered(e)
    <3>1. t.pump = s.pump /\ t.queue = s.queue /\ t.sending = << >> /\ t.buffer = Append(s.buffer, e)
      BY <1>2 DEF Streams
    <3>2. e.sequence = s.sending[1].sequence
      BY <2>4
    <3> HIDE DEF t, s
    <3>3. OnWay(t) = OnWay(s) /\ \A n \in Nat : Numbered(s, n) => Numbered(t, n)
      <4>1. ASSUME NEW n \in Nat PROVE OnWay(t) = OnWay(s) /\ (Numbered(s, n) => Numbered(t, n))
        BY <1>2, <2>1, <3>1, <3>2, PublishNumbered
      <4> QED BY <4>1
    <3> QED BY <3>1, <3>3 DEF t, s
  <2>5. ASSUME NEW e \in Events, e.sequence = event.sequence, Len(s.buffer) < ClientCapacity
        PROVE  /\ Ended(Buffered(e)).pump = "ended"
               /\ \A n \in Nat : Numbered(s, n) => Numbered(Ended(Buffered(e)), n)
    <3> DEFINE t == Buffered(e)
    <3>1. t \in Streams
      <4>1. Append(s.buffer, e) \in Seq(Events) /\ << >> \in Seq(Events)
        BY <1>2, PartsOfStream, AppendProperties
      <4> QED BY <1>2, <4>1 DEF Streams
    <3>2. \A n \in Nat : Numbered(s, n) => Numbered(t, n)
      BY <2>4, <2>5
    <3> HIDE DEF t
    <3>3. Ended(t).pump = "ended"
      BY <3>1 DEF Ended, Streams
    <3>4. \A n \in Nat : Numbered(s, n) => Numbered(Ended(t), n)
      BY <3>1, <3>2, EndedNumbered
    <3> QED BY <3>3, <3>4 DEF t
  <2>6. garbled \in Events
    BY <2>2 DEF Events
  <2>7. CASE streams' = [streams EXCEPT ![c][a] = Buffered(event)]
    <3> DEFINE t == Buffered(event)
    <3>1. t.pump = s.pump /\ OnWay(t) = OnWay(s) /\ \A n \in Nat : Numbered(s, n) => Numbered(t, n)
      BY <2>4
    <3>2. streams' = [streams EXCEPT ![c][a] = t]
      BY <2>7
    <3> HIDE DEF t
    <3> QED BY <1>3, <3>1, <3>2, OneStreamOrdered
  <2>8. ASSUME NEW e \in {event, garbled}, Len(s.buffer) < ClientCapacity,
               streams' = [streams EXCEPT ![c][a] = Ended(Buffered(e))]
        PROVE  Ordered'
    <3> DEFINE t == Ended(Buffered(e))
    <3>1. t.pump = "ended" /\ \A n \in Nat : Numbered(s, n) => Numbered(t, n)
      BY <2>2, <2>3, <2>5, <2>6, <2>8
    <3>2. streams' = [streams EXCEPT ![c][a] = t]
      BY <2>8
    <3> HIDE DEF t
    <3> QED BY <1>3, <3>1, <3>2, OneStreamOrdered
  <2> QED BY <1>4, <1>6, <2>7, <2>8 DEF Publish
<1>7. CASE PumpEnds(c, a)
  BY <1>4, <1>7 DEF PumpEnds
<1> QED BY <1>1, <1>5, <1>6, <1>7

\* A broken connection, and a server that detaches what it attached.
LEMMA LinkOrdered ==
    ASSUME Inv, Ordered, NEW c \in Clients, Disconnect(c) \/ DetachConnection(c)
    PROVE  Ordered'
<1>1. UNCHANGED <<lives, calls, clients, views>> /\ observers' \subseteq observers
  BY DEF Disconnect, DetachConnection
<1>2. ASSUME NEW d \in Clients, NEW b \in Attachments
      PROVE  streams'[d][b] = streams[d][b] \/ streams'[d][b] = Ended(streams[d][b])
  <2>1. streams \in [Clients -> [Attachments -> Streams]]
    BY Types DEF Inv, StreamTypes
  <2> DEFINE after == [a \in Attachments |->
                         IF streams[c][a].pump = "running" THEN Ended(streams[c][a]) ELSE streams[c][a]]
  <2>2. UNCHANGED streams \/ streams' = [streams EXCEPT ![c] = after]
    BY DEF Disconnect, DetachConnection
  <2>3. after[b] = streams[c][b] \/ after[b] = Ended(streams[c][b])
    OBVIOUS
  <2> HIDE DEF after
  <2> QED BY <2>1, <2>2, <2>3
<1>3. ASSUME NEW d \in Clients, NEW b \in Attachments PROVE OrderInv(d, b)'
  <2>1. OrderInv(d, b) /\ SameClient(d) /\ streams[d][b] \in Streams
    BY <1>1, StreamFacts DEF Ordered, SameClient
  <2>2. CASE streams'[d][b] = streams[d][b]
    BY <1>1, <2>1, <2>2, OrderStays
  <2>3. CASE streams'[d][b] = Ended(streams[d][b])
    <3>1. streams'[d][b].pump = "ended"
      BY <2>1, <2>3 DEF Ended, Streams
    <3>2. \A n \in Nat : Numbered(streams[d][b], n) => Numbered(streams'[d][b], n)
      BY <2>1, <2>3, EndedNumbered
    <3> QED BY <2>1, <3>1, <3>2, OrderStays
  <2> QED BY <1>2, <2>2, <2>3
<1> QED BY <1>3 DEF Ordered

\* An event is sent to the observers to, all of them connected.
LEMMA SentOrdered ==
    ASSUME Inv, Ordered, NEW to, to \subseteq {o \in observers : Connected(o)},
           observers' \subseteq to, NEW e \in Events, streams' = Sent(to, e),
           lives[Actor] < MaxSequence, e.sequence = lives[Actor] + 1,
           UNCHANGED <<calls, clients, views>>,
           observers' # {} => Sequence(lives'[Len(lives')]) = lives[Actor] + 1
    PROVE  Ordered'
<1>1. lives[Actor] \in Nat /\ Sequence(lives[Actor]) = lives[Actor]
  BY LastSequence
<1>2. ASSUME NEW c \in Clients, NEW a \in Attachments
      PROVE  streams'[c][a] = IF <<c, a>> \in to THEN [streams[c][a] EXCEPT !.queue = Append(@, e)]
                                                 ELSE streams[c][a]
  BY DEF Sent
<1>3. ASSUME NEW c \in Clients, NEW a \in Attachments PROVE OrderInv(c, a)'
  <2>1. OrderInv(c, a) /\ SameClient(c) /\ streams[c][a] \in Streams
    BY StreamFacts DEF Ordered, SameClient
  <2>2. CASE <<c, a>> \notin to
    <3>1. streams'[c][a] = streams[c][a] /\ <<c, a>> \notin observers'
      BY <1>2, <2>2
    <3> QED BY <2>1, <3>1, OrderStays
  <2>3. CASE <<c, a>> \in to
    <3> DEFINE s == streams[c][a]
               t == streams'[c][a]
    <3>1. t = [s EXCEPT !.queue = Append(@, e)]
      BY <1>2, <2>3
    <3>2. <<c, a>> \in observers /\ s.pump = "running"
      <4>1. <<c, a>> \in observers /\ Connected(<<c, a>>)
        BY <2>3
      <4>2. s.pump # "ended" /\ s.pump # "none"
        BY <4>1, StreamFacts DEF Connected, StreamInv
      <4> QED BY <2>1, <4>1, <4>2 DEF Streams
    <3>3. ASSUME NEW n \in Nat, Begins(c, a, n)
          PROVE  /\ Numbered(t, n) /\ n + OnWay(t) = lives[Actor] + 1
      <4>1. Numbered(s, n) /\ n + OnWay(s) = lives[Actor]
        BY <1>1, <2>1, <3>2, <3>3 DEF OrderInv
      <4>2. e.sequence = n + OnWay(s) + 1 /\ OnWay(s) \in Nat
        BY <2>1, <4>1, PartsOfStream
      <4> HIDE DEF s, t
      <4>3. Numbered(t, n) /\ OnWay(t) = OnWay(s) + 1
        BY <2>1, <3>1, <4>1, <4>2, SentNumbered DEF s
      <4>4. \A x \in Nat : n + x = lives[Actor] => n + (x + 1) = lives[Actor] + 1
        BY <1>1
      <4> QED BY <4>1, <4>2, <4>3, <4>4
    <3>4. \A n : Begins(c, a, n)' = Begins(c, a, n)
      BY <2>1 DEF SameClient, Active, Fresh, Watching, Answered, Begins
    <3>5. <<c, a>> \in observers' => Sequence(lives[Actor])' = lives[Actor] + 1
      BY DEF Sequence, Actor
    <3> QED BY <3>3, <3>4, <3>5 DEF OrderInv
  <2> QED BY <2>2, <2>3
<1> QED BY <1>3 DEF Ordered

\* No observer is left, and nothing moves on.
LEMMA AloneOrdered ==
    ASSUME Inv, Ordered, observers' = {}, UNCHANGED <<streams, calls, clients, views>>
    PROVE  Ordered'
<1>1. ASSUME NEW c \in Clients, NEW a \in Attachments PROVE OrderInv(c, a)'
  <2>1. OrderInv(c, a) /\ SameClient(c)
    BY DEF Ordered, SameClient
  <2> QED BY <2>1, OrderStays
<1> QED BY <1>1 DEF Ordered

\* What the actor does.
LEMMA ActorOrdered ==
    ASSUME Inv, Ordered, Change \/ FinishDelete \/ AbortDelete \/ DeleteStored
    PROVE  Ordered'
<1>1. CASE Change
  <2>1. UNCHANGED <<calls, clients, views>> /\ lives[Actor] < MaxChanges
        /\ lives' = [lives EXCEPT ![Actor] = @ + 1] /\ UNCHANGED stored
    BY <1>1 DEF Change
  <2>2. Len(lives') = Len(lives) /\ lives'[Actor] = lives[Actor] + 1
    BY <2>1, LastGrows
  <2>3. CASE observers' = {} /\ UNCHANGED streams
    BY <2>1, <2>3, AloneOrdered
  <2>4. CASE lives[Actor] < MaxSequence /\ Broadcast(Event(lives[Actor] + 1))
    <3> DEFINE kept == {o \in observers : HasRoom(o) /\ Connected(o)}
               e == Event(lives[Actor] + 1)
    <3>1. observers' = kept /\ streams' = Sent(kept, e)
          /\ kept \subseteq {o \in observers : Connected(o)}
      BY <2>4 DEF Broadcast
    <3>2. e \in Events /\ e.sequence = lives[Actor] + 1
      BY <2>4, LastSequence, RpcSessionAssumption DEF Event, Events
    <3>3. Sequence(lives'[Len(lives')]) = lives[Actor] + 1
      BY <2>2, <2>4, LastSequence DEF Actor
    <3> HIDE DEF kept, e
    <3> QED BY <2>1, <2>4, <3>1, <3>2, <3>3, SentOrdered
  <2> QED BY <1>1, <2>3, <2>4 DEF Change
<1>2. CASE FinishDelete
  <2>1. observers' = {} /\ UNCHANGED <<calls, clients, views>>
    BY <1>2 DEF FinishDelete
  <2>2. CASE lives[Actor] < MaxSequence
    <3> DEFINE to == {o \in observers : Connected(o)}
               e == [sequence |-> lives[Actor] + 1, kind |-> "deleted"]
    <3>1. streams' = Sent(to, e)
      BY <1>2, <2>2 DEF FinishDelete
    <3>2. e \in Events /\ e.sequence = lives[Actor] + 1
      BY <2>2, LastSequence, RpcSessionAssumption DEF Events
    <3>3. to \subseteq {o \in observers : Connected(o)} /\ observers' \subseteq to
      BY <2>1
    <3> HIDE DEF to, e
    <3> QED BY <2>1, <2>2, <3>1, <3>2, <3>3, SentOrdered
  <2>3. CASE ~(lives[Actor] < MaxSequence)
    <3>1. UNCHANGED streams
      BY <1>2, <2>3 DEF FinishDelete
    <3> QED BY <2>1, <3>1, AloneOrdered
  <2> QED BY <2>2, <2>3
<1>3. CASE AbortDelete
  BY <1>3, AloneOrdered DEF AbortDelete
<1>4. CASE DeleteStored
  <2>1. observers = {}
    BY <1>4, Types DEF Inv, ServerTypes, DeleteStored
  <2> QED BY <1>4, <2>1, AloneOrdered DEF DeleteStored
<1> QED BY <1>1, <1>2, <1>3, <1>4

\* A client that asks, or is answered.  The streams of the others, and what the
\* actor keeps of them, stay.
LEMMA ClientOrdered ==
    ASSUME Inv, Ordered, NEW c \in Clients, UNCHANGED lives, observers' \subseteq observers,
           \A d \in Clients : d # c => SameClient(d) /\ streams'[d] = streams[d],
           \A a \in Attachments : OrderInv(c, a)'
    PROVE  Ordered'
<1>1. ASSUME NEW d \in Clients, NEW b \in Attachments, d # c PROVE OrderInv(d, b)'
  <2>1. OrderInv(d, b) /\ SameClient(d) /\ streams'[d][b] = streams[d][b]
    BY <1>1 DEF Ordered
  <2> QED BY <2>1, OrderStays
<1> QED BY <1>1 DEF Ordered

\* A client whose streams stay, and that begins nothing new.
LEMMA QuietOrdered ==
    ASSUME Inv, Ordered, NEW c \in Clients, UNCHANGED <<lives, streams>>, observers' \subseteq observers,
           \A d \in Clients : d # c => SameClient(d),
           \A a \in Attachments : \A n \in Nat : Begins(c, a, n)' => Begins(c, a, n)
    PROVE  Ordered'
<1>1. ASSUME NEW a \in Attachments PROVE OrderInv(c, a)'
  <2>1. OrderInv(c, a)
    BY DEF Ordered
  <2> QED BY <2>1 DEF OrderInv, Actor, Sequence
<1> QED BY <1>1, ClientOrdered

\* A new attachment starts with what the actor has numbered.
LEMMA AttachOrdered == ASSUME Inv, Ordered, NEW c \in Clients, Attach(c) PROVE Ordered'
<1> DEFINE life == IF live THEN Actor ELSE Actor + 1
           changes == IF live THEN lives[Actor] ELSE 0
           a == Fresh(c)
<1>1. /\ calls[c].kind = "open" /\ calls[c].answer = "none" /\ a \in Attachments
      /\ calls' = [calls EXCEPT ![c] = [kind |-> "open", answer |-> "snapshot",
                                        life |-> life, changes |-> changes]]
      /\ streams' = [streams EXCEPT ![c][a].pump = IF link[c] = "up" THEN "running" ELSE "ended"]
      /\ observers' = observers \cup {<<c, a>>} /\ UNCHANGED <<clients, views>>
      /\ lives' = IF live THEN lives ELSE Append(lives, 0)
  BY ClientFacts DEF Attach, Asked
<1>2. /\ calls \in [Clients -> Snapshots] /\ streams \in [Clients -> [Attachments -> Streams]]
      /\ lives \in Seq(0 .. MaxChanges) /\ (~live => observers = {}) /\ 0 \in 0 .. MaxChanges
  BY Types, RpcSessionAssumption DEF Inv, ClientTypes, StreamTypes, ServerTypes
<1>3. lives'[Len(lives')] = changes
  <2>1. CASE live
    BY <1>1, <2>1 DEF Actor
  <2>2. CASE ~live
    BY <1>1, <1>2, <2>2, AppendProperties
  <2> QED BY <2>1, <2>2
<1>4. calls'[c].kind = "open" /\ calls'[c].changes = changes
  BY <1>1, <1>2
<1>5. ~Watching(c) /\ Watching(c)' = Watching(c) /\ Fresh(c)' = Fresh(c)
  BY <1>1, Types DEF Inv, ClientTypes, NoCall, Watching, Active, Fresh
<1> HIDE DEF life, changes
<1>6. ASSUME NEW b \in Attachments PROVE OrderInv(c, b)'
  <2>1. ASSUME NEW n \in Nat, Begins(c, b, n)' PROVE b = a /\ n = Sequence(changes)
    BY <1>4, <1>5, <2>1 DEF Begins, Sequence
  <2>2. streams[c][a] = NoStream
    <3>1. Unused(c, a)
      BY <1>1 DEF Unused
    <3> QED BY <1>1, <3>1, StreamFacts DEF StreamInv
  <2>3. /\ streams'[c][a].queue = << >> /\ streams'[c][a].sending = << >>
        /\ streams'[c][a].buffer = << >>
    <3>1. streams'[c][a] = [NoStream EXCEPT !.pump = IF link[c] = "up" THEN "running" ELSE "ended"]
      BY <1>1, <1>2, <2>2
    <3> QED BY <3>1 DEF NoStream
  <2>4. Sequence(lives[Actor])' = Sequence(changes)
    BY <1>3 DEF Sequence, Actor
  <2>5. ASSUME NEW n \in Nat
        PROVE  Numbered(streams'[c][a], n) /\ n + OnWay(streams'[c][a]) = n
    <3>1. Numbered(streams'[c][a], n) /\ OnWay(streams'[c][a]) = 0
      BY <2>3, NoStreamNumbered
    <3> QED BY <3>1
  <2> QED BY <2>1, <2>4, <2>5 DEF OrderInv
<1>7. ASSUME NEW d \in Clients, NEW b \in Attachments, d # c PROVE OrderInv(d, b)'
  <2>1. OrderInv(d, b) /\ SameClient(d) /\ streams'[d][b] = streams[d][b]
    BY <1>1, <1>2, <1>7 DEF Ordered, SameClient
  <2>2. <<d, b>> \in observers' => <<d, b>> \in observers /\ lives' = lives
    BY <1>1, <1>2, <1>7
  <2> QED BY <2>1, <2>2, OrderStays
<1> QED BY <1>6, <1>7 DEF Ordered

\* The other answers of the server.
LEMMA AnswerOrdered ==
    ASSUME Inv, Ordered, NEW c \in Clients, NotFound(c) \/ OpenFails(c) \/ Detach(c)
    PROVE  Ordered'
<1>1. /\ UNCHANGED <<lives, streams, clients, views>> /\ observers' \subseteq observers
      /\ \/ calls[c].kind = "open" /\ \E answer \in {"missing", "failed"} : calls' = [calls EXCEPT ![c].answer = answer]
         \/ calls[c].kind = "detach" /\ calls' = [calls EXCEPT ![c].answer = "done"]
  BY DEF NotFound, OpenFails, Detach, Answer, Asked
<1>2. /\ calls \in [Clients -> Snapshots]
  BY Types DEF Inv, ClientTypes
<1>3. /\ calls'[c].kind = calls[c].kind /\ calls'[c].changes = calls[c].changes
      /\ calls'[c].answer # "snapshot" /\ \A d \in Clients : d # c => SameClient(d)
  BY <1>1, <1>2 DEF Snapshots, SameClient
<1>4. ASSUME NEW a \in Attachments, NEW n \in Nat, Begins(c, a, n)' PROVE Begins(c, a, n)
  BY <1>1, <1>3, <1>4 DEF Begins, Watching, Active, Answered, Fresh, Sequence
<1> QED BY <1>1, <1>3, <1>4, QuietOrdered

\* The other clients, and what lies between, stay when one ends its session, opens
\* it again, or shows the snapshot it has.
LEMMA StandsOrdered ==
    ASSUME Inv, Ordered, NEW c \in Clients, ServerUnchanged,
           \/ \E outcome \in Outcomes \ {"no"} : End(c, outcome)
           \/ \E overflow \in BOOLEAN : BeginRecovery(c, overflow)
           \/ \E warning \in BOOLEAN : Answered(c) /\ Install(c, warning)
           \/ Active(c) /\ calls[c].answer = "snapshot" /\ Reopens(c)
           \/ TakeWarning(c)
    PROVE  Ordered'
<1>1. /\ clients \in [Clients -> ClientStates] /\ calls \in [Clients -> Snapshots]
      /\ views \in [Clients -> [life : 0 .. MaxLives, seen : Seq(Nat)]]
  BY Types DEF Inv, ClientTypes
<1>2. UNCHANGED <<lives, observers, streams>>
  BY DEF ServerUnchanged, End, BeginRecovery, Install, Reopens, TakeWarning
<1>3. ASSUME NEW d \in Clients, d # c PROVE SameClient(d)
  BY <1>1, <1>3 DEF SameClient, End, BeginRecovery, Install, Reopens, TakeWarning
<1>4. ASSUME \E outcome \in Outcomes \ {"no"} : End(c, outcome)
      PROVE  \A a \in Attachments : \A n \in Nat : ~Begins(c, a, n)'
  <2>1. ~Active(c)'
    BY <1>1, <1>4 DEF End, Active, ClientStates
  <2> QED BY <2>1 DEF Begins, Watching, Answered
<1>5. CASE \E outcome \in Outcomes \ {"no"} : End(c, outcome)
  BY <1>2, <1>3, <1>4, <1>5, QuietOrdered
<1>6. CASE \E overflow \in BOOLEAN : BeginRecovery(c, overflow)
  <2>1. CASE End(c, "ids")
    BY <1>5, <2>1 DEF Outcomes
  <2>2. CASE \E overflow \in BOOLEAN :
               /\ clients' = [clients EXCEPT ![c].phase = "reopening", ![c].last = @ + 1,
                                             ![c].overflow = overflow]
               /\ calls' = [calls EXCEPT ![c] = [NoCall EXCEPT !.kind = "open"]]
    <3>1. clients'[c].phase = "reopening" /\ calls'[c].answer = "none" /\ calls'[c].kind = "open"
      BY <1>1, <2>2 DEF ClientStates, NoCall
    <3>2. \A a \in Attachments : \A n \in Nat : ~Begins(c, a, n)'
      BY <3>1 DEF Begins, Watching, Answered
    <3> QED BY <1>2, <1>3, <3>2, QuietOrdered
  <2> QED BY <1>6, <2>1, <2>2 DEF BeginRecovery
<1>7. CASE \E warning \in BOOLEAN : Answered(c) /\ Install(c, warning)
  <2>1. PICK warning \in BOOLEAN : Answered(c) /\ Install(c, warning)
    BY <1>7
  <2>2. /\ clients'[c] = Installed(c, warning) /\ calls'[c] = NoCall
    BY <1>1, <2>1 DEF Install
  <2>3. /\ clients'[c].current = Fresh(c) /\ clients'[c].last = clients[c].last
        /\ clients'[c].expected = Sequence(calls[c].changes)
    BY <1>1, <2>2 DEF Installed, ClientStates
  <2>4. ~Answered(c)'
    BY <2>2 DEF Answered, NoCall
  <2>5. ASSUME NEW a \in Attachments, NEW n \in Nat, Begins(c, a, n)' PROVE Begins(c, a, n)
    BY <2>1, <2>3, <2>4, <2>5 DEF Begins
  <2> QED BY <1>2, <1>3, <2>5, QuietOrdered
<1>8. CASE Active(c) /\ calls[c].answer = "snapshot" /\ Reopens(c)
  <2>1. /\ clients'[c].phase = "detaching" /\ clients'[c].last = clients[c].last
        /\ calls'[c].changes = calls[c].changes
    BY <1>1, <1>8 DEF Reopens, ClientStates, Snapshots
  <2>2. ASSUME NEW a \in Attachments, NEW n \in Nat, Begins(c, a, n)' PROVE Begins(c, a, n)
    BY <1>8, <2>1, <2>2 DEF Begins, Watching, Answered, Fresh, Sequence
  <2> QED BY <1>2, <1>3, <2>2, QuietOrdered
<1>9. CASE TakeWarning(c)
  <2>1. /\ clients'[c].phase = clients[c].phase /\ clients'[c].last = clients[c].last
        /\ clients'[c].current = clients[c].current /\ clients'[c].expected = clients[c].expected
        /\ clients'[c].ended = clients[c].ended /\ calls'[c] = calls[c]
    BY <1>1, <1>9 DEF TakeWarning, ClientStates
  <2>2. ASSUME NEW a \in Attachments, NEW n \in Nat, Begins(c, a, n)' PROVE Begins(c, a, n)
    BY <2>1, <2>2 DEF Begins, Watching, Answered, Active, Fresh, Sequence
  <2> QED BY <1>2, <1>3, <2>2, QuietOrdered
<1> QED BY <1>5, <1>6, <1>7, <1>8, <1>9

\* A client takes the event that follows what it shows, and nothing else.
LEMMA ReceiveOrdered == ASSUME Inv, Ordered, NEW c \in Clients, Receive(c) PROVE Ordered'
<1>1. PICK a \in Attachments : a = clients[c].current
  BY ClientFacts, Types DEF Inv, ClientTypes, Receive, Polls
<1> DEFINE s == streams[c][a]
           event == Head(s.buffer)
           n == clients[c].expected
           t == [s EXCEPT !.buffer = Tail(s.buffer)]
<1>2. /\ Watching(c) /\ ServerUnchanged /\ s.buffer # << >> /\ s \in Streams
  BY <1>1, StreamFacts DEF Receive, Polls
<1>3. n \in Nat /\ n + 1 \in Nat
  <2>1. n \in 0 .. MaxSequence
    BY ClientFacts DEF ClientStates
  <2> QED BY <2>1, RpcSessionAssumption
<1>4. Begins(c, a, n)
  BY <1>1, <1>2 DEF Begins
<1>5. OrderInv(c, a)
  BY DEF Ordered
<1>6. Numbered(s, n)
  BY <1>3, <1>4, <1>5 DEF OrderInv
<1>7. event.sequence = n + 1 /\ Numbered(t, n + 1) /\ OnWay(t) = OnWay(s) - 1 /\ t.pump = s.pump
  <2>1. \A r \in Streams : \A m \in Nat : \A u :
          Numbered(r, m) /\ r.buffer # << >> /\ u = [r EXCEPT !.buffer = Tail(r.buffer)] =>
             /\ Head(r.buffer).sequence = m + 1 /\ Numbered(u, m + 1)
             /\ OnWay(u) = OnWay(r) - 1 /\ u.pump = r.pump
    BY ReceiveNumbered
  <2>2. t = [s EXCEPT !.buffer = Tail(s.buffer)]
    OBVIOUS
  <2> HIDE DEF t, s, n
  <2> QED BY <1>2, <1>3, <1>6, <2>1, <2>2
<1>8. CASE End(c, "garbled") \/ End(c, "deleted")
  BY <1>2, <1>8, StandsOrdered DEF Outcomes
<1>9. CASE BeginRecovery(c, FALSE)
  BY <1>2, <1>9, StandsOrdered
<1>10. CASE /\ streams' = [streams EXCEPT ![c][a] = t] /\ UNCHANGED calls
            /\ clients' = [clients EXCEPT ![c].expected = n + 1]
            /\ views' = [views EXCEPT ![c].seen = Append(@, event.sequence)]
  <2> HIDE DEF t, event
  <2>1. UNCHANGED <<lives, observers, calls>>
    BY <1>2, <1>10 DEF ServerUnchanged
  <2>2. /\ clients \in [Clients -> ClientStates] /\ streams \in [Clients -> [Attachments -> Streams]]
        /\ views \in [Clients -> [life : 0 .. MaxLives, seen : Seq(Nat)]]
    BY ClientUpdate
  <2>3. /\ streams'[c][a] = t /\ \A b \in Attachments : b # a => streams'[c][b] = streams[c][b]
        /\ \A d \in Clients : d # c => SameClient(d) /\ streams'[d] = streams[d]
    BY <1>10, <2>1, <2>2 DEF SameClient
  <2>4. /\ clients'[c].expected = n + 1 /\ clients'[c].phase = clients[c].phase
        /\ clients'[c].current = clients[c].current /\ clients'[c].last = clients[c].last
        /\ clients'[c].ended = clients[c].ended
    <3> DEFINE m == n + 1
               q == [clients[c] EXCEPT !.expected = m]
    <3>1. clients' = [clients EXCEPT ![c] = q]
      BY <1>10, <2>2
    <3> HIDE DEF m
    <3>2. /\ q.expected = m /\ q.phase = clients[c].phase
          /\ q.current = clients[c].current /\ q.last = clients[c].last
          /\ q.ended = clients[c].ended
      BY <2>2 DEF ClientStates
    <3> HIDE DEF q
    <3>3. clients'[c] = q
      BY <2>2, <3>1
    <3> QED BY <3>2, <3>3 DEF m
  <2>5. ~Answered(c)'
    <3>1. calls'[c] = NoCall
      BY <1>2, <2>1, Types DEF Inv, ClientTypes
    <3> QED BY <3>1 DEF Answered, NoCall
  <2>6. ASSUME NEW b \in Attachments PROVE OrderInv(c, b)'
    <3>1. ASSUME NEW m \in Nat, Begins(c, b, m)' PROVE b = a /\ m = n + 1
      BY <1>1, <2>4, <2>5, <3>1 DEF Begins
    <3>2. <<c, a>> \in observers' /\ t.pump = "running" => n + 1 + OnWay(t) = Sequence(lives'[Len(lives')])
      <4>1. <<c, a>> \in observers /\ s.pump = "running" => n + OnWay(s) = Sequence(lives[Actor])
        BY <1>3, <1>4, <1>5 DEF OrderInv
      <4>2. \A x, y \in Nat : n + 1 + (x - 1) = n + x
        BY <1>3
      <4>3. OnWay(s) \in Nat
        BY <1>2, PartsOfStream
      <4>4. n + 1 + OnWay(t) = n + OnWay(s)
        BY <1>7, <4>2, <4>3
      <4> QED BY <1>7, <2>1, <4>1, <4>4 DEF Actor
    <3> HIDE DEF s, n
    <3> QED BY <1>7, <2>3, <3>1, <3>2 DEF OrderInv, Actor, Sequence
  <2> QED BY <2>1, <2>3, <2>6, ClientOrdered
<1>11. CASE event.kind = "change" /\ event.sequence < n + 1
  <2>1. \A x \in Nat : ~(x < x)
    OBVIOUS
  <2> HIDE DEF event, n
  <2> QED BY <1>3, <1>7, <1>11, <2>1
<1> QED BY <1>1, <1>8, <1>9, <1>10, <1>11 DEF Receive

\* What a client does when it polls.
LEMMA PollOrdered == ASSUME Inv, Ordered, NEW c \in Clients, Poll(c) PROVE Ordered'
<1>1. CASE TakeWarning(c)
  BY <1>1, StandsOrdered DEF TakeWarning
<1>2. CASE Overflow(c)
  BY <1>2, StandsOrdered DEF Overflow, Outcomes
<1>3. CASE ConnectionClosed(c)
  BY <1>3, StandsOrdered DEF ConnectionClosed, Outcomes
<1>4. CASE Receive(c)
  BY <1>4, ReceiveOrdered
<1>5. CASE ObserverClosed(c)
  BY <1>5, StandsOrdered DEF ObserverClosed
<1>6. CASE Opened(c)
  <2>1. Active(c) /\ calls[c].answer = "snapshot" /\ ServerUnchanged /\ Answered(c)
    BY <1>6 DEF Opened, Answered
  <2>2. CASE Install(c, FALSE)
    BY <2>1, <2>2, StandsOrdered
  <2>3. CASE Reopens(c)
    BY <2>1, <2>3, StandsOrdered
  <2> QED BY <1>6, <2>2, <2>3 DEF Opened, Reopens
<1>7. CASE Missing(c)
  <2>1. PICK outcome \in {"absent", "deleted"} : End(c, outcome)
    BY <1>7 DEF Missing
  <2> QED BY <1>7, <2>1, StandsOrdered DEF Missing, Outcomes
<1>8. CASE Detached(c)
  <2>1. Answered(c)
    BY <1>8, ClientFacts DEF Detached, Answered, ClientInv
  <2> QED BY <1>8, <2>1, StandsOrdered DEF Detached
<1>9. CASE CallFails(c)
  <2>1. CASE calls[c].kind = "detach"
    BY <1>9, <2>1, StandsOrdered DEF CallFails, Answered
  <2>2. CASE calls[c].kind # "detach"
    BY <1>9, <2>2, StandsOrdered DEF CallFails, Outcomes
  <2> QED BY <2>1, <2>2
<1>10. CASE Failed(c)
  BY <1>10, StandsOrdered DEF Failed, Outcomes
<1> QED BY <1>1, <1>2, <1>3, <1>4, <1>5, <1>6, <1>7, <1>8, <1>9, <1>10 DEF Poll

\* Every step keeps the order.
LEMMA NextOrdered == Inv /\ Ordered /\ [Next]_vars => Ordered'
<1> SUFFICES ASSUME Inv, Ordered, [Next]_vars PROVE Ordered'
  OBVIOUS
<1>1. CASE Change \/ FinishDelete \/ AbortDelete \/ DeleteStored
  BY <1>1, ActorOrdered
<1>2. ASSUME NEW c \in Clients, Serve(c) PROVE Ordered'
  BY <1>2, AttachOrdered, AnswerOrdered, LinkOrdered DEF Serve
<1>3. ASSUME NEW c \in Clients, Deliver(c) PROVE Ordered'
  BY <1>3, DeliverOrdered
<1>4. ASSUME NEW c \in Clients, Disconnect(c) PROVE Ordered'
  BY <1>4, LinkOrdered
<1>5. ASSUME NEW c \in Clients, Poll(c) PROVE Ordered'
  BY <1>5, PollOrdered
<1>6. CASE UNCHANGED vars
  <2>1. ASSUME NEW c \in Clients, NEW a \in Attachments PROVE OrderInv(c, a)'
    <3>1. OrderInv(c, a) /\ SameClient(c) /\ UNCHANGED <<streams, observers, lives>>
      BY <1>6 DEF Ordered, SameClient, vars
    <3> QED BY <3>1, OrderStays
  <2> QED BY <2>1 DEF Ordered
<1> QED BY <1>1, <1>2, <1>3, <1>4, <1>5, <1>6 DEF Next

\* What is on its way to a client follows what the client shows, or will show
\* first, without a gap, and reaches up to the actor while it keeps the observer.
THEOREM OrderHolds == Spec => []Ordered
<1>1. Init => Ordered
  <2> SUFFICES ASSUME Init, NEW c \in Clients, NEW a \in Attachments, NEW n \in Nat
               PROVE  ~Begins(c, a, n)
    BY DEF Ordered, OrderInv
  <2>1. clients[c].phase = "opening" /\ calls[c].kind = "open" /\ calls[c].answer = "none"
    BY DEF Init, NoCall
  <2> QED BY <2>1 DEF Begins, Watching, Answered
<1>2. Inv /\ Ordered /\ [Next]_vars => Ordered'
  BY NextOrdered
<1> QED BY <1>1, <1>2, InvariantHolds, PTL DEF Spec

\* The parts of a stream, put together, are numbered as they are.
LEMMA WayNumbered ==
    ASSUME NEW s \in Streams, NEW n \in Nat, Numbered(s, n),
           NEW way, way = s.buffer \o s.sending \o s.queue
    PROVE  Len(way) = OnWay(s) /\ \A i \in 1 .. Len(way) : way[i].sequence = n + i
<1> DEFINE k == Len(s.buffer)
           j == Len(s.sending)
           m == Len(s.queue)
           first == s.buffer \o s.sending
<1>1. /\ s.buffer \in Seq(Events) /\ s.sending \in Seq(Events) /\ s.queue \in Seq(Events)
      /\ k \in Nat /\ j \in Nat /\ m \in Nat
  BY PartsOfStream
<1>2. /\ first \in Seq(Events) /\ Len(first) = k + j
      /\ \A i \in 1 .. k + j : first[i] = IF i <= k THEN s.buffer[i] ELSE s.sending[i - k]
  BY <1>1, ConcatProperties
<1>3. /\ Len(way) = k + j + m
      /\ \A i \in 1 .. k + j + m : way[i] = IF i <= k + j THEN first[i] ELSE s.queue[i - (k + j)]
  <2>1. way = first \o s.queue
    OBVIOUS
  <2>2. \A p, q \in Seq(Events) :
          /\ Len(p \o q) = Len(p) + Len(q)
          /\ \A i \in 1 .. Len(p) + Len(q) :
               (p \o q)[i] = IF i <= Len(p) THEN p[i] ELSE q[i - Len(p)]
    BY ConcatProperties
  <2> HIDE DEF first
  <2>3. /\ Len(first \o s.queue) = Len(first) + m
        /\ \A i \in 1 .. Len(first) + m :
             (first \o s.queue)[i] = IF i <= Len(first) THEN first[i] ELSE s.queue[i - Len(first)]
    BY <1>1, <1>2, <2>2
  <2> QED BY <1>2, <2>1, <2>3
<1>4. /\ \A i \in 1 .. k : s.buffer[i].sequence = n + i
      /\ \A i \in 1 .. j : s.sending[i].sequence = n + k + i
      /\ \A i \in 1 .. m : s.queue[i].sequence = n + k + j + i
  BY DEF Numbered
<1>5. OnWay(s) = k + j + m
  BY DEF OnWay
<1> HIDE DEF k, j, m, first
<1>6. ASSUME NEW i \in 1 .. k + j + m PROVE way[i].sequence = n + i
  <2>0. \A x, y, z \in Nat : \A l \in 1 .. x + y + z :
          /\ l <= x => l \in 1 .. x /\ l \in 1 .. x + y /\ l <= x + y
          /\ l > x /\ l <= x + y =>
               /\ l - x \in 1 .. y /\ l \in 1 .. x + y /\ n + x + (l - x) = n + l
          /\ l > x + y => l - (x + y) \in 1 .. z /\ n + x + y + (l - (x + y)) = n + l
    OBVIOUS
  <2>1. CASE i <= k
    <3>1. i \in 1 .. k /\ i \in 1 .. k + j /\ i <= k + j
      BY <1>1, <2>0, <2>1
    <3>2. way[i] = s.buffer[i]
      BY <1>2, <1>3, <2>1, <3>1
    <3> QED BY <1>4, <3>1, <3>2
  <2>2. CASE i > k /\ i <= k + j
    <3>1. i - k \in 1 .. j /\ i \in 1 .. k + j /\ n + k + (i - k) = n + i
      BY <1>1, <2>0, <2>2
    <3>2. ~(i <= k)
      BY <1>1, <2>2
    <3>3. way[i] = s.sending[i - k]
      BY <1>2, <1>3, <2>2, <3>1, <3>2
    <3> QED BY <1>4, <3>1, <3>3
  <2>3. CASE i > k + j
    <3>1. i - (k + j) \in 1 .. m /\ n + k + j + (i - (k + j)) = n + i
      BY <1>1, <2>0, <2>3
    <3>2. ~(i <= k + j)
      BY <1>1, <2>3
    <3>3. way[i] = s.queue[i - (k + j)]
      BY <1>3, <3>2
    <3>4. s.queue[i - (k + j)].sequence = n + k + j + (i - (k + j))
      BY <1>4, <3>1
    <3> QED BY <3>1, <3>3, <3>4
  <2>4. \A x, y \in Nat : \A l \in Nat : l <= x \/ (l > x /\ l <= x + y) \/ l > x + y
    OBVIOUS
  <2>5. i \in Nat
    OBVIOUS
  <2> QED BY <1>1, <2>1, <2>2, <2>3, <2>4, <2>5
<1> QED BY <1>3, <1>5, <1>6

\* As long as the actor keeps the observer of a client that watches, every event
\* between what the client has applied and what the actor has numbered is on its
\* way, once and in order, for every capacity, number of clients and broken link.
THEOREM NothingIsLostCorrect == Spec => []NothingIsLost
<1>0. \A x \in 0 .. MaxSequence : x \in Nat
  BY RpcSessionAssumption
<1>1. Inv /\ Ordered => NothingIsLost
  <2> SUFFICES ASSUME Inv, Ordered, NEW c \in Clients, NEW a \in Attachments,
                      Watching(c), a = clients[c].current,
                      NEW way, way = streams[c][a].buffer \o streams[c][a].sending \o streams[c][a].queue
               PROVE  /\ \A i \in 1 .. Len(way) : way[i].sequence = clients[c].expected + i
                      /\ <<c, a>> \in observers /\ streams[c][a].pump = "running" =>
                            clients[c].expected + Len(way) = Sequence(lives[Actor])
    BY DEF NothingIsLost
  <2>1. clients[c].expected \in Nat
    <3>1. clients[c].expected \in 0 .. MaxSequence
      BY ClientFacts DEF ClientStates
    <3> QED BY <1>0, <3>1
  <2>2. Begins(c, a, clients[c].expected) /\ OrderInv(c, a) /\ streams[c][a] \in Streams
    BY StreamFacts DEF Begins, Ordered
  <2>3. /\ Numbered(streams[c][a], clients[c].expected)
        /\ <<c, a>> \in observers /\ streams[c][a].pump = "running" =>
              clients[c].expected + OnWay(streams[c][a]) = Sequence(lives[Actor])
    BY <2>1, <2>2 DEF OrderInv
  <2>4. /\ Len(way) = OnWay(streams[c][a])
        /\ \A i \in 1 .. Len(way) : way[i].sequence = clients[c].expected + i
    BY ZenonT(60), <2>1, <2>2, <2>3, WayNumbered
  <2> QED BY <2>3, <2>4
<1> QED BY <1>1, InvariantHolds, OrderHolds, PTL
=============================================================================
