----------------------------- MODULE RpcSession -----------------------------
(***************************************************************************)
(* One session seen by remote clients: the actor that numbers and fans out *)
(* its events (src/src/session/actor.rs), the delivery task of each        *)
(* attachment (ObserverPump, src/src/rpc/server.rs), and RpcSessionClient, *)
(* which shows a snapshot, applies the events that follow it and attaches  *)
(* again whenever its stream breaks (src/src/rpc/client.rs).               *)
(*                                                                         *)
(* An event is its sequence number; what a client shows is the list of the *)
(* changes it has applied, so one that is lost, repeated or out of order   *)
(* shows.  The future of next_update may be dropped and polled again at any*)
(* of its awaits; every step below ends at one.                            *)
(***************************************************************************)
EXTENDS Naturals, Sequences, FiniteSets

CONSTANTS
    Clients,
    Stuck,           \* clients that stop polling once they have opened
    MaxSequence,     \* u64::MAX
    MaxAttachment,   \* u64::MAX of AttachmentIds
    Capacity,        \* OBSERVER_CAPACITY of the actor
    ClientCapacity,  \* OBSERVER_CAPACITY of the client
    Refused,         \* sequence numbers of events that one side cannot convert
    MaxChanges,      \* bound: changes one actor makes
    MaxLives         \* bound: actors the session has

ASSUME RpcSessionAssumption ==
    /\ Stuck \subseteq Clients /\ Refused \subseteq Nat
    /\ MaxSequence \in Nat /\ MaxChanges \in Nat /\ MaxLives \in Nat \ {0}
    /\ MaxAttachment \in Nat \ {0}
    /\ Capacity \in Nat \ {0} /\ ClientCapacity \in Nat \ {0}

VARIABLES
    lives,      \* changes applied to the projection of each actor so far
    live,       \* whether the last of them is still running
    stored,     \* whether the repository holds the session
    observers,  \* SessionActor.observers, as pairs of client and attachment
    streams,    \* [client][attachment]: what lies between actor and client
    link,       \* the connection of each client
    calls,      \* the call a client awaits, and its answer
    clients,    \* RpcSessionClient
    views       \* the projection the client shows

vars == <<lives, live, stored, observers, streams, link, calls, clients, views>>

-----------------------------------------------------------------------------
UpTo(n) == [i \in 1 .. n |-> i]
Actor == Len(lives)
\* SessionProjection.sequence: it stops at its limit, changes do not.
Sequence(changes) == IF changes < MaxSequence THEN changes ELSE MaxSequence

Event(n) == [sequence |-> n, kind |-> "change"]
Events == [sequence : 0 .. MaxSequence, kind : {"change", "deleted", "garbled"}]

\* A stream before it is attached, and one whose two ends are gone.
NoStream == [queue |-> << >>, sending |-> << >>, buffer |-> << >>, pump |-> "none"]
Ended(s) == [s EXCEPT !.queue = << >>, !.sending = << >>, !.pump = "ended"]

Streams == [queue : Seq(Events), sending : Seq(Events), buffer : Seq(Events),
            pump : {"none", "running", "ended"}]

Attachments == 1 .. MaxAttachment
Active(c) == clients[c].ended = "no"
\* The attachment a recovery, or the first open, is about: the newest one.
Fresh(c) == clients[c].last
Watching(c) == Active(c) /\ clients[c].phase = "watching"
\* LocalAttachment still holds the receiving end.
Readable(c, a) == Active(c) /\ (a = clients[c].current \/ (~Watching(c) /\ a = Fresh(c)))

NoCall == [kind |-> "none", answer |-> "none", life |-> 0, changes |-> 0]
Snapshots == [kind : {"none", "open", "detach"}, answer : {"none", "snapshot", "missing", "failed", "done"},
              life : 0 .. MaxLives, changes : 0 .. MaxChanges]

Outcomes == {"no", "deleted", "absent", "failed", "closed", "exhausted", "ids", "garbled"}

ClientStates ==
    [phase : {"opening", "watching", "reopening", "detaching"}, current : 0 .. MaxAttachment,
     last : Attachments, expected : 0 .. MaxSequence, overflow : BOOLEAN, exhausted : BOOLEAN,
     warning : BOOLEAN, ended : Outcomes]

TypeOK ==
    /\ lives \in Seq(0 .. MaxChanges) /\ Actor \in 1 .. MaxLives
    /\ live \in BOOLEAN /\ stored \in BOOLEAN /\ (~stored => ~live)
    /\ observers \subseteq Clients \X Attachments /\ (~live => observers = {})
    /\ streams \in [Clients -> [Attachments -> Streams]]
    /\ \A c \in Clients : \A a \in Attachments : LET s == streams[c][a] IN
        /\ Len(s.queue) <= Capacity + 1 /\ Len(s.sending) <= 1 /\ Len(s.buffer) <= ClientCapacity
        /\ s.pump = "none" <=> s = NoStream
    /\ link \in [Clients -> {"up", "lost", "gone"}]
    /\ calls \in [Clients -> Snapshots] /\ clients \in [Clients -> ClientStates]
    /\ \A c \in Clients : Watching(c) => calls[c] = NoCall /\ Fresh(c) = clients[c].current
    /\ views \in [Clients -> [life : 0 .. MaxLives, seen : Seq(Nat)]]

Init ==
    /\ lives = <<0>> /\ live = TRUE /\ stored = TRUE /\ observers = {}
    /\ streams = [c \in Clients |-> [a \in Attachments |-> NoStream]]
    /\ link = [c \in Clients |-> "up"]
    /\ calls = [c \in Clients |-> [NoCall EXCEPT !.kind = "open"]]
    /\ clients = [c \in Clients |->
        [phase |-> "opening", current |-> 0, last |-> 1, expected |-> 0, overflow |-> FALSE,
         exhausted |-> FALSE, warning |-> FALSE, ended |-> "no"]]
    /\ views = [c \in Clients |-> [life |-> 0, seen |-> << >>]]

-----------------------------------------------------------------------------
(* The actor *)

Connected(o) == streams[o[1]][o[2]].pump # "ended"

\* One slot of the queue, beyond Capacity, is kept for the terminal event.
HasRoom(o) == Len(streams[o[1]][o[2]].queue) < Capacity

Sent(to, event) ==
    [c \in Clients |-> [a \in Attachments |->
        IF <<c, a>> \in to THEN [streams[c][a] EXCEPT !.queue = Append(@, event)]
                           ELSE streams[c][a]]]

\* Mutant: an observer without room misses the event and stays.
BroadcastSkipsFull(event) ==
    /\ observers' = observers
    /\ streams' = Sent({o \in observers : HasRoom(o) /\ Connected(o)}, event)

\* An observer that has no room, or whose delivery task is gone, is dropped.
Broadcast(event) ==
    LET kept == {o \in observers : HasRoom(o) /\ Connected(o)} IN
    /\ observers' = kept
    /\ streams' = Sent(kept, event)

\* A projected change: numbered and fanned out, or, when the numbers are used
\* up, applied without one and every observer dropped.
Change ==
    /\ live /\ lives[Actor] < MaxChanges
    /\ lives' = [lives EXCEPT ![Actor] = @ + 1]
    /\ \/ /\ lives[Actor] < MaxSequence
          /\ Broadcast(Event(lives[Actor] + 1))
       \/ /\ lives[Actor] >= MaxSequence
          /\ observers' = {} /\ UNCHANGED streams
    /\ UNCHANGED <<live, stored, link, calls, clients, views>>

\* finish_delete: the terminal event uses the reserved slot; the actor ends.
FinishDelete ==
    /\ live
    /\ live' = FALSE /\ stored' = FALSE /\ observers' = {}
    /\ streams' = IF lives[Actor] < MaxSequence
                    THEN Sent({o \in observers : Connected(o)},
                              [sequence |-> lives[Actor] + 1, kind |-> "deleted"])
                    ELSE streams
    /\ UNCHANGED <<lives, link, calls, clients, views>>

\* A deletion that failed ends the actor and keeps the session.
AbortDelete ==
    /\ live /\ Actor < MaxLives
    /\ live' = FALSE /\ observers' = {}
    /\ UNCHANGED <<lives, stored, streams, link, calls, clients, views>>

\* Without an actor the manager deletes the stored session.
DeleteStored ==
    /\ ~live /\ stored
    /\ stored' = FALSE
    /\ UNCHANGED <<lives, live, observers, streams, link, calls, clients, views>>

-----------------------------------------------------------------------------
(* The server *)

Answer(c, answer) == calls' = [calls EXCEPT ![c].answer = answer]

\* Mutant: a call waits until all other clients have received what they were sent.
AskedAfterDelivery(c, kind) ==
    /\ calls[c].kind = kind /\ calls[c].answer = "none" /\ link[c] # "gone"
    /\ \A o \in observers : o[1] # c => streams[o[1]][o[2]].sending = << >>

Asked(c, kind) == calls[c].kind = kind /\ calls[c].answer = "none" /\ link[c] # "gone"

\* openSession: find or start the actor, register the observer and take the
\* snapshot in one command of the actor; the delivery task starts with the
\* answer, if there is still a connection to answer on.
Attach(c) ==
    LET life == IF live THEN Actor ELSE Actor + 1
        changes == IF live THEN lives[Actor] ELSE 0
        a == Fresh(c)
    IN
    /\ Asked(c, "open") /\ stored
    /\ live' = TRUE
    /\ lives' = IF live THEN lives ELSE Append(lives, 0)
    /\ observers' = observers \cup {<<c, a>>}
    /\ streams' = [streams EXCEPT ![c][a].pump = IF link[c] = "up" THEN "running" ELSE "ended"]
    /\ calls' = [calls EXCEPT ![c] = [kind |-> "open", answer |-> "snapshot",
                                      life |-> life, changes |-> changes]]
    /\ UNCHANGED <<stored, link, clients, views>>

NotFound(c) ==
    /\ Asked(c, "open") /\ ~stored
    /\ Answer(c, "missing")
    /\ UNCHANGED <<lives, live, stored, observers, streams, link, clients, views>>

\* The store cannot be read, no model is to be had, the actor or the manager
\* stops: the session may be there or not.
OpenFails(c) ==
    /\ Asked(c, "open")
    /\ Answer(c, "failed")
    /\ UNCHANGED <<lives, live, stored, observers, streams, link, clients, views>>

\* detach: exact, and without an actor there is nothing to remove.
Detach(c) ==
    /\ Asked(c, "detach")
    /\ observers' = observers \ {<<c, clients[c].current>>}
    /\ Answer(c, "done")
    /\ UNCHANGED <<lives, live, stored, streams, link, clients, views>>

\* ObserverPump.run takes an event and publishes it; one it cannot encode, and
\* the end of its queue, end it.
Take(c, a) ==
    LET s == streams[c][a] IN
    /\ s.pump = "running" /\ s.sending = << >> /\ s.queue # << >>
    /\ \/ streams' = [streams EXCEPT ![c][a] = [s EXCEPT !.sending = <<Head(s.queue)>>,
                                                         !.queue = Tail(@)]]
       \/ /\ Head(s.queue).sequence \in Refused
          /\ streams' = [streams EXCEPT ![c][a] = Ended(s)]
    /\ UNCHANGED <<lives, live, stored, observers, link, calls, clients, views>>

PumpEnds(c, a) ==
    LET s == streams[c][a] IN
    /\ s.pump = "running" /\ s.sending = << >> /\ s.queue = << >>
    /\ <<c, a>> \notin observers
    /\ streams' = [streams EXCEPT ![c][a] = Ended(s)]
    /\ UNCHANGED <<lives, live, stored, observers, link, calls, clients, views>>

\* ObserverImpl.publish waits for room in the client's channel; the pump goes
\* on when it returns, and ends after the terminal event or a failure.
Publish(c, a) ==
    LET s == streams[c][a]
        event == s.sending[1]
        Buffered(e) == [s EXCEPT !.buffer = Append(@, e), !.sending = << >>]
    IN
    /\ s.sending # << >> /\ link[c] = "up"
    /\ \/ /\ Readable(c, a) /\ Len(s.buffer) < ClientCapacity
          /\ \/ /\ event.kind = "change"
                /\ streams' = [streams EXCEPT ![c][a] = Buffered(event)]
             \/ /\ event.kind = "deleted"
                /\ streams' = [streams EXCEPT ![c][a] = Ended(Buffered(event))]
             \/ /\ event.sequence \in Refused
                /\ streams' = [streams EXCEPT ![c][a] =
                                 Ended(Buffered([event EXCEPT !.kind = "garbled"]))]
       \/ /\ ~Readable(c, a)
          /\ streams' = [streams EXCEPT ![c][a] = Ended(s)]
    /\ UNCHANGED <<lives, live, stored, observers, link, calls, clients, views>>

\* The connection breaks: its delivery tasks end with it, and the server
\* detaches what it had attached a moment later.
Disconnect(c) ==
    /\ link[c] = "up" /\ c \notin Stuck
    /\ link' = [link EXCEPT ![c] = "lost"]
    /\ streams' = [streams EXCEPT ![c] = [a \in Attachments |->
                     IF @[a].pump = "running" THEN Ended(@[a]) ELSE @[a]]]
    /\ UNCHANGED <<lives, live, stored, observers, calls, clients, views>>

DetachConnection(c) ==
    /\ link[c] = "lost"
    /\ link' = [link EXCEPT ![c] = "gone"]
    /\ observers' = {o \in observers : o[1] # c}
    /\ UNCHANGED <<lives, live, stored, streams, calls, clients, views>>

-----------------------------------------------------------------------------
(* The client *)

End(c, outcome) ==
    /\ clients' = [clients EXCEPT ![c].ended = outcome]
    /\ calls' = [calls EXCEPT ![c] = NoCall]
    /\ UNCHANGED <<streams, views>>

\* A new attachment is opened first; its identifier is never used again.
BeginRecovery(c, overflow) ==
    \/ /\ Fresh(c) = MaxAttachment
       /\ End(c, "ids")
    \/ /\ Fresh(c) < MaxAttachment
       /\ clients' = [clients EXCEPT ![c].phase = "reopening", ![c].last = @ + 1,
                                     ![c].overflow = overflow]
       /\ calls' = [calls EXCEPT ![c] = [NoCall EXCEPT !.kind = "open"]]
       /\ UNCHANGED <<streams, views>>

ServerUnchanged == UNCHANGED <<lives, live, stored, observers, link>>

TakeWarning(c) ==
    /\ Watching(c) /\ clients[c].warning
    /\ clients' = [clients EXCEPT ![c].warning = FALSE]
    /\ ServerUnchanged /\ UNCHANGED <<streams, calls, views>>

Polls(c) == Watching(c) /\ ~clients[c].warning

Overflow(c) ==
    /\ Polls(c) /\ clients[c].expected = MaxSequence
    /\ IF clients[c].exhausted THEN End(c, "exhausted") ELSE BeginRecovery(c, TRUE)
    /\ ServerUnchanged

ConnectionClosed(c) ==
    /\ Polls(c) /\ clients[c].expected < MaxSequence /\ link[c] # "up"
    /\ End(c, "closed")
    /\ ServerUnchanged

\* An event already contained in the snapshot is skipped, the next one applied;
\* any other one breaks the stream.
Receive(c) ==
    LET a == clients[c].current
        buffer == streams[c][a].buffer
        event == Head(buffer)
        next == clients[c].expected + 1
        rest == [streams EXCEPT ![c][a].buffer = Tail(buffer)]
    IN
    /\ Polls(c) /\ clients[c].expected < MaxSequence /\ buffer # << >>
    /\ CASE event.kind = "garbled" -> End(c, "garbled")
         [] event.kind = "deleted" -> End(c, "deleted")
         [] event.kind = "change" /\ event.sequence < next ->
                /\ streams' = rest /\ UNCHANGED <<calls, clients, views>>
         [] event.kind = "change" /\ event.sequence = next ->
                /\ streams' = rest
                /\ clients' = [clients EXCEPT ![c].expected = next]
                /\ views' = [views EXCEPT ![c].seen = Append(@, event.sequence)]
                /\ UNCHANGED calls
         [] OTHER -> BeginRecovery(c, FALSE)
    /\ ServerUnchanged

\* All senders are gone and the buffer is drained.
StreamClosed(c) ==
    LET s == streams[c][clients[c].current] IN s.pump = "ended" /\ s.buffer = << >>

ObserverClosed(c) ==
    /\ Polls(c) /\ clients[c].expected < MaxSequence /\ StreamClosed(c)
    /\ BeginRecovery(c, FALSE)
    /\ ServerUnchanged

\* What an attachment is made of is replaced as a whole.
Installed(c, warning) ==
    LET sequence == Sequence(calls[c].changes) IN
    [clients[c] EXCEPT !.phase = "watching", !.current = Fresh(c), !.expected = sequence,
                       !.exhausted = clients[c].overflow /\ sequence = MaxSequence,
                       !.overflow = FALSE, !.warning = warning]

\* Mutant: the projection that is shown survives the new snapshot.
InstallKeepsView(c, warning) ==
    /\ clients' = [clients EXCEPT ![c] = Installed(c, warning)]
    /\ views' = [views EXCEPT ![c] = [@ EXCEPT !.life = calls[c].life]]
    /\ calls' = [calls EXCEPT ![c] = NoCall]
    /\ UNCHANGED streams

Install(c, warning) ==
    /\ clients' = [clients EXCEPT ![c] = Installed(c, warning)]
    /\ views' = [views EXCEPT ![c] = [life |-> calls[c].life, seen |-> UpTo(calls[c].changes)]]
    /\ calls' = [calls EXCEPT ![c] = NoCall]
    /\ UNCHANGED streams

Opened(c) ==
    /\ Active(c) /\ calls[c].answer = "snapshot" /\ calls[c].kind = "open"
    /\ \/ /\ clients[c].phase = "opening" /\ Install(c, FALSE)
       \/ /\ clients[c].phase = "reopening"
          /\ clients' = [clients EXCEPT ![c].phase = "detaching"]
          /\ calls' = [calls EXCEPT ![c].kind = "detach", ![c].answer = "none"]
          /\ UNCHANGED <<streams, views>>
    /\ ServerUnchanged

\* Mutant: a recovery reports a missing session as any failed open.
MissingFails(c) ==
    /\ Active(c) /\ calls[c].answer = "missing"
    /\ End(c, "absent")
    /\ ServerUnchanged

\* The recovery found no session: it was deleted.
Missing(c) ==
    /\ Active(c) /\ calls[c].answer = "missing"
    /\ End(c, IF clients[c].phase = "opening" THEN "absent" ELSE "deleted")
    /\ ServerUnchanged

\* Any other error of the open is the client's own.
Failed(c) ==
    /\ Active(c) /\ calls[c].answer = "failed"
    /\ End(c, "failed")
    /\ ServerUnchanged

Detached(c) ==
    /\ Active(c) /\ calls[c].answer = "done"
    /\ Install(c, FALSE)
    /\ ServerUnchanged

\* A call fails with its connection; a failed detachment is only warned about.
CallFails(c) ==
    /\ Active(c) /\ link[c] # "up" /\ calls[c].kind # "none" /\ calls[c].answer = "none"
    /\ IF calls[c].kind = "detach" THEN Install(c, TRUE) ELSE End(c, "closed")
    /\ ServerUnchanged

-----------------------------------------------------------------------------
Serve(c) == Attach(c) \/ NotFound(c) \/ OpenFails(c) \/ Detach(c) \/ DetachConnection(c)
Deliver(c) == \E a \in Attachments : Take(c, a) \/ PumpEnds(c, a) \/ Publish(c, a)
\* A stuck client does not come back once it shows the session.
Poll(c) ==
    /\ c \in Stuck => ~Watching(c)
    /\ \/ TakeWarning(c) \/ Overflow(c) \/ ConnectionClosed(c) \/ Receive(c) \/ ObserverClosed(c)
       \/ Opened(c) \/ Missing(c) \/ Failed(c) \/ Detached(c) \/ CallFails(c)

Next ==
    \/ Change \/ FinishDelete \/ AbortDelete \/ DeleteStored
    \/ \E c \in Clients : Serve(c) \/ Deliver(c) \/ Disconnect(c) \/ Poll(c)

Spec == Init /\ [][Next]_vars

\* The manager answers, each delivery task runs, and a client that is not stuck
\* polls: each of them is a task of its own.
Fairness ==
    /\ \A c \in Clients : WF_vars(Serve(c))
    /\ \A c \in Clients : \A a \in Attachments :
        WF_vars(Take(c, a) \/ PumpEnds(c, a) \/ Publish(c, a))
    /\ \A c \in Clients \ Stuck : WF_vars(Poll(c))

LiveSpec == Spec /\ Fairness

-----------------------------------------------------------------------------
(* Properties *)

\* As long as the actor keeps an observer, every event between what its client
\* has applied and what the actor has numbered is on its way, each once and in
\* order, whatever was dropped or replaced before: a client never sees a gap.
NothingIsLost ==
    \A c \in Clients : \A a \in Attachments :
        LET s == streams[c][a]
            way == s.buffer \o s.sending \o s.queue
        IN  Watching(c) /\ a = clients[c].current =>
                /\ \A i \in 1 .. Len(way) : way[i].sequence = clients[c].expected + i
                /\ (<<c, a>> \in observers /\ s.pump = "running") =>
                        clients[c].expected + Len(way) = Sequence(lives[Actor])

\* actor.rs:1317 asserts of the terminal event that "surviving observers retain
\* one terminal event slot": a deletion always fits.
TerminalEventFits ==
    \A o \in observers : Len(streams[o[1]][o[2]].queue) <= Capacity

\* What a client shows is a state the session had, and never an older one than
\* before: across dropped observers, recoveries and new actors (SessionView).
View == INSTANCE SessionView WITH
    ended <- [c \in Clients |-> IF clients[c].ended \in {"no", "deleted"}
                                   THEN clients[c].ended ELSE "other"]
ViewSpec == View!Spec

\* Once the session stops changing, every client that polls shows its last
\* state or has been told why not, even if another client is stuck.
ClientsCatchUp ==
    \A c \in Clients \ Stuck :
        <>[](~Active(c) \/ views[c] = [life |-> Actor, seen |-> UpTo(lives[Actor])])

\* A client that was attached to a deleted session does not go on showing it: it
\* is told so, or ends because its connection or the sequence or attachment
\* numbers do, an event cannot be read, or the store fails when it attaches again.
DeletionIsReported ==
    \A c \in Clients \ Stuck :
        <>[](~stored /\ clients[c].current # 0 =>
                clients[c].ended \in {"deleted", "failed", "closed", "exhausted", "ids", "garbled"})
=============================================================================
