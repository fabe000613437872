--------------------------- MODULE SessionManager ---------------------------
(***************************************************************************)
(* The session manager (src/src/session/manager.rs): one task that takes   *)
(* commands from a bounded mailbox, starts an actor for a session on       *)
(* demand, and deletes and shuts actors down.                              *)
(*                                                                         *)
(* The manager handles one command at a time and awaits every answer; an   *)
(* actor handles one input at a time.  A step is what an actor does for    *)
(* one call, or what the manager does between two calls, so that runs and  *)
(* their checkpoints come in between.                                      *)
(*                                                                         *)
(* Of a record, the number of changes to the conversation, whether its     *)
(* last run goes on and the revision of the title are kept: the whole      *)
(* record is in SessionRecord, all of an actor's commands in SessionActor. *)
(* Listing and draft defaults change nothing and are left out.  A          *)
(* connection has at most one attachment to a session.                     *)
(***************************************************************************)
EXTENDS Naturals, Sequences, FiniteSets

CONSTANTS
    Sessions,
    Connections,
    Kinds,          \* the commands that are sent
    MaxMailbox,     \* COMMAND_CAPACITY
    MaxCommands,    \* commands sent; each starts at most one actor
    MaxChanges,     \* changes that runs make to one conversation; ending them adds one
    MaxFaults       \* failures of the store, of jobs and of the factory, and panics

ASSUME ManagerAssumption ==
    /\ Sessions # {} /\ Connections # {}
    /\ Kinds \subseteq {"materialize", "open", "rename", "delete", "flush", "shutdown", "detach",
                       "startup"}
    /\ MaxMailbox \in Nat \ {0} /\ {MaxCommands, MaxFaults} \subseteq Nat
    /\ MaxChanges \in Nat \ {0}

VARIABLES
    mailbox,        \* the commands the manager has not taken
    manager,        \* the command it handles, and how far it is
    registry,       \* SessionManager.actors
    actors,         \* the actors started so far
    orphans,        \* actors that lived when the manager lost their handle
    store,          \* the repository
    created,        \* sessions that were ever materialized
    titles,         \* sessions whose title is being generated
    connections,    \* connections, until their detachment was handled
    sent, faults

vars == <<mailbox, manager, registry, actors, orphans, store, created, titles, connections, sent,
          faults>>

NoActor == 0
Records == [changes : 0 .. MaxChanges + 1, title : 0 .. MaxCommands + 2, running : BOOLEAN]
Absent == [changes |-> 0, title |-> 0, running |-> FALSE]
Created == [changes |-> 1, title |-> 1, running |-> TRUE]
Present(s) == store[s] # Absent

AnySession == CHOOSE s \in Sessions : TRUE
AnyConnection == CHOOSE c \in Connections : TRUE
Command == [kind : Kinds \cup {"disconnect", "close", "none"}, session : Sessions, connection : Connections]
NoCommand == [kind |-> "none", session |-> AnySession, connection |-> AnyConnection]

\* todo: the sessions whose actors are still to be asked.
Idle == [pc |-> "idle", command |-> NoCommand, todo |-> {}, failed |-> FALSE]
Managers == [pc : {"idle", "begin", "attach", "erase", "finish", "abort", "titles", "each", "ended"},
             command : Command, todo : SUBSET Sessions, failed : BOOLEAN]

Actor == [session : Sessions, state : {"live", "dead", "stopped", "deleted", "aborted"},
          deleting : BOOLEAN, shutting_down : BOOLEAN, dirty : BOOLEAN,
          record : Records, observers : SUBSET Connections]
Orphan == [actor : 1 .. MaxCommands, running : BOOLEAN]

Live(i) == actors[i].state = "live"
Running(i) == actors[i].record.running
Mutable(i) == Live(i) /\ ~actors[i].deleting /\ ~actors[i].shutting_down
Registered == {s \in Sessions : registry[s] # NoActor}

Init ==
    /\ mailbox = <<>> /\ manager = Idle
    /\ registry = [s \in Sessions |-> NoActor] /\ actors = <<>> /\ orphans = {}
    /\ store = [s \in Sessions |-> Absent] /\ created = {} /\ titles = {}
    /\ connections = [c \in Connections |-> "open"]
    /\ sent = 0 /\ faults = 0

-----------------------------------------------------------------------------
(***************************************************************************)
(* The mailbox.                                                            *)
(***************************************************************************)

\* Mutant: the mailbox has no capacity.
SendsAtOnce(command) ==
    /\ manager.pc # "ended"
    /\ mailbox' = Append(mailbox, command)
    /\ UNCHANGED <<manager, registry, actors, orphans, store, created, titles, faults>>

Sends(command) ==
    /\ Len(mailbox) < MaxMailbox /\ manager.pc # "ended"
    /\ mailbox' = Append(mailbox, command)
    /\ UNCHANGED <<manager, registry, actors, orphans, store, created, titles, faults>>

Send(kind, s, c) ==
    /\ connections[c] = "open" /\ sent < MaxCommands /\ sent' = sent + 1
    /\ kind \in {"flush", "shutdown"} => s = AnySession /\ c = AnyConnection
    /\ Sends([kind |-> kind, session |-> s, connection |-> c])
    /\ UNCHANGED connections

\* A connection ends: its requests are dropped, and it is detached.
Disconnect(c) ==
    /\ connections[c] = "open"
    /\ connections' = [connections EXCEPT ![c] = "closed"]
    /\ Sends([NoCommand EXCEPT !.kind = "disconnect", !.connection = c])
    /\ UNCHANGED sent

Take ==
    /\ manager.pc = "idle" /\ mailbox # <<>>
    /\ manager' = [Idle EXCEPT !.pc = "begin", !.command = Head(mailbox)]
    /\ mailbox' = Tail(mailbox)
    /\ UNCHANGED <<registry, actors, orphans, store, created, titles, connections, sent,
                   faults>>

\* The last handle is gone: run drains the titles and shuts the actors down.
MailboxCloses ==
    /\ manager.pc = "idle" /\ mailbox = <<>>
    /\ \A c \in Connections : connections[c] = "gone"
    /\ manager' = [Idle EXCEPT !.pc = "titles", !.command.kind = "close"]
    /\ UNCHANGED <<mailbox, registry, actors, orphans, store, created, titles, connections,
                   sent, faults>>

-----------------------------------------------------------------------------
(***************************************************************************)
(* What a handler uses.                                                    *)
(***************************************************************************)
c0 == manager.command
s0 == c0.session
Handles(kind) == manager.pc = "begin" /\ c0.kind = kind
GoOn(pc) == manager' = [manager EXCEPT !.pc = pc]
Answer == manager' = Idle

\* Whether something works.
Works(ok) == (ok \/ faults < MaxFaults) /\ faults' = IF ok THEN faults ELSE faults + 1

\* SessionHandle::spawn of the next actor, and its registration.
SpawnActor(s, record) ==
    /\ actors' = Append(actors,
            [session |-> s, state |-> "live", deleting |-> FALSE, shutting_down |-> FALSE,
             dirty |-> FALSE, record |-> record, observers |-> {}])
    /\ registry' = [registry EXCEPT ![s] = Len(actors) + 1]

\* An actor checkpoints its record; without a row, that fails.
Checkpoints(i, actor, ok) ==
    LET saved == ok /\ Present(actor.session)
    IN  /\ store' = IF saved THEN [store EXCEPT ![actor.session] = actor.record] ELSE store
        /\ actors' = [actors EXCEPT ![i] = [actor EXCEPT !.dirty = ~saved]]

\* A change to a record, after which its run goes on or not.
Changed(record, running) == [record EXCEPT !.changes = @ + 1, !.running = running]
Gone(actor, state) == [actor EXCEPT !.state = state, !.observers = {}]

\* An actor changes the title in the store and takes over what is stored.
Retitles(s, i) ==
    /\ store' = [store EXCEPT ![s].title = @ + 1]
    /\ actors' = [actors EXCEPT ![i].record.title = store[s].title + 1]

-----------------------------------------------------------------------------
(***************************************************************************)
(* Opening sessions.                                                       *)
(***************************************************************************)

\* What load stores and returns: a run that goes on is interrupted.
Loaded(record) == IF record.running THEN Changed(record, FALSE) ELSE record

\* open without an actor: load may fail, and create after it.
Open(loads, ok) ==
    /\ Handles("open") /\ s0 \notin Registered /\ Works(loads /\ ok)
    /\ store' = IF loads THEN [store EXCEPT ![s0] = Loaded(@)] ELSE store
    /\ IF loads /\ ok /\ Present(s0)
       THEN SpawnActor(s0, store'[s0]) /\ GoOn("attach")
       ELSE Answer /\ UNCHANGED <<registry, actors>>
    /\ UNCHANGED <<mailbox, orphans, created, titles, connections, sent>>

OpenRegistered ==
    /\ Handles("open") /\ s0 \in Registered
    /\ GoOn("attach")
    /\ UNCHANGED <<mailbox, registry, actors, orphans, store, created, titles, connections,
                   sent, faults>>

\* The actor registers the observer unless it is being deleted; the title of
\* a materialized session is generated then.
Attach ==
    /\ manager.pc = "attach"
    /\ LET i == registry[s0]
           ok == Live(i) /\ ~actors[i].deleting
       IN  /\ actors' = IF ok THEN [actors EXCEPT ![i].observers = @ \cup {c0.connection}] ELSE actors
           /\ titles' = IF ok /\ c0.kind = "materialize" THEN titles \cup {s0} ELSE titles
    /\ Answer
    /\ UNCHANGED <<mailbox, registry, orphans, store, created, connections, sent, faults>>

\* startup lists the sessions, which the store or a dead actor may prevent, and
\* attaches to one with a run or with jobs; it may have ended by then.
Startup ==
    /\ Handles("startup")
    /\ LET listed == {s \in Registered : Present(s)}
       IN  \/ Answer
           \/ /\ \A s \in listed : Live(registry[s])
              /\ \E s \in listed :
                    manager' = [manager EXCEPT !.pc = "attach", !.command.session = s]
    /\ UNCHANGED <<mailbox, registry, actors, orphans, store, created, titles, connections,
                   sent, faults>>

\* A new session with its first run; stored may fail.
Materialize(ok) ==
    /\ Handles("materialize")
    /\ IF s0 \in created THEN Answer /\ UNCHANGED <<registry, actors, store, created, faults>>
       ELSE /\ Works(ok)
            /\ created' = created \cup {s0}
            /\ IF ok THEN /\ store' = [store EXCEPT ![s0] = Created]
                          /\ SpawnActor(s0, Created)
                          /\ GoOn("attach")
                     ELSE Answer /\ UNCHANGED <<registry, actors, store>>
    /\ UNCHANGED <<mailbox, orphans, titles, connections, sent>>

\* The row is stored and no actor can be started: the run is recorded as
\* failed, or the row is deleted again; that may fail, too.
MaterializeFails ==
    /\ Handles("materialize") /\ s0 \notin created /\ Works(FALSE)
    /\ created' = created \cup {s0}
    /\ \E row \in {Absent, Created, Changed(Created, FALSE)} : store' = [store EXCEPT ![s0] = row]
    /\ Answer
    /\ UNCHANGED <<mailbox, registry, actors, orphans, titles, connections, sent>>

-----------------------------------------------------------------------------
(***************************************************************************)
(* Titles.                                                                 *)
(***************************************************************************)

\* Mutant: the store is renamed under a live actor.
RenameStored(ok) ==
    /\ Handles("rename") /\ Works(ok)
    /\ store' = IF ok /\ Present(s0) THEN [store EXCEPT ![s0].title = @ + 1] ELSE store
    /\ Answer
    /\ UNCHANGED <<mailbox, registry, actors, orphans, created, titles, connections, sent>>

\* rename, through the actor if there is one.
Rename(ok) ==
    /\ Handles("rename") /\ Works(ok)
    /\ IF ~ok \/ ~Present(s0) THEN UNCHANGED <<store, actors>>
       ELSE IF s0 \notin Registered
       THEN store' = [store EXCEPT ![s0].title = @ + 1] /\ UNCHANGED actors
       ELSE IF Mutable(registry[s0]) THEN Retitles(s0, registry[s0])
       ELSE UNCHANGED <<store, actors>>
    /\ Answer
    /\ UNCHANGED <<mailbox, registry, orphans, created, titles, connections, sent>>

\* A title task ends, with a title or without; the manager hands it to the
\* actor, which sets it if the title is still the first one.
RouteTitle(s) ==
    /\ manager.pc \in {"idle", "titles"} /\ s \in titles
    /\ titles' = titles \ {s}
    /\ \/ UNCHANGED <<store, actors>>
       \/ s \in Registered /\ Mutable(registry[s]) /\ store[s].title = 1 /\ Retitles(s, registry[s])
    /\ UNCHANGED <<mailbox, manager, registry, orphans, created, connections, sent, faults>>

-----------------------------------------------------------------------------
(***************************************************************************)
(* Deletion.                                                               *)
(***************************************************************************)
DeleteStored(ok) ==
    /\ Handles("delete") /\ s0 \notin Registered /\ Works(ok)
    /\ store' = IF ok THEN [store EXCEPT ![s0] = Absent] ELSE store
    /\ Answer
    /\ UNCHANGED <<mailbox, registry, actors, orphans, created, titles, connections, sent>>

\* prepare_delete cancels the run, shuts the jobs down and checkpoints; an
\* actor that has died or is shutting down refuses.
PrepareDelete(jobs, saved) ==
    /\ Handles("delete") /\ s0 \in Registered
    /\ LET i == registry[s0]
           cancelled == IF Running(i) THEN Changed(actors[i].record, FALSE) ELSE actors[i].record
       IN  IF Mutable(i)
           THEN /\ Works(jobs /\ saved)
                /\ Checkpoints(i, [actors[i] EXCEPT !.deleting = TRUE, !.record = cancelled], saved)
                /\ GoOn(IF jobs /\ ~actors'[i].dirty THEN "erase" ELSE "abort")
           ELSE GoOn("abort") /\ UNCHANGED <<store, actors, faults>>
    /\ UNCHANGED <<mailbox, registry, orphans, created, titles, connections, sent>>

Erase(ok) ==
    /\ manager.pc = "erase" /\ Works(ok)
    /\ store' = IF ok THEN [store EXCEPT ![s0] = Absent] ELSE store
    /\ GoOn(IF ok /\ Present(s0) THEN "finish" ELSE "abort")
    /\ UNCHANGED <<mailbox, registry, actors, orphans, created, titles, connections, sent>>

\* finish_delete, or abort_delete, ends the actor if it was prepared; the
\* handle goes whatever the answer, also that of an actor that lives on.
EndActor(pc, state) ==
    /\ manager.pc = pc
    /\ LET i == registry[s0]
           lost == [actor |-> i, running |-> Running(i)]
       IN  /\ actors' = IF Live(i) /\ actors[i].deleting
                         THEN [actors EXCEPT ![i] = Gone(@, state)] ELSE actors
           /\ orphans' = IF Live(i) /\ ~actors[i].deleting THEN orphans \cup {lost} ELSE orphans
    /\ registry' = [registry EXCEPT ![s0] = NoActor]
    /\ Answer
    /\ UNCHANGED <<mailbox, store, created, titles, connections, sent, faults>>

Finish == EndActor("finish", "deleted")
Abort == EndActor("abort", "aborted")

-----------------------------------------------------------------------------
(***************************************************************************)
(* Commands to every actor, one after the other.                           *)
(***************************************************************************)
Detach ==
    /\ Handles("detach")
    /\ actors' = IF s0 \in Registered
                 THEN [actors EXCEPT ![registry[s0]].observers = @ \ {c0.connection}] ELSE actors
    /\ Answer
    /\ UNCHANGED <<mailbox, registry, orphans, store, created, titles, connections, sent,
                   faults>>

\* detach_connection, flush_actors, and shutdown_actors after the titles.
Each ==
    /\ \/ Handles("disconnect") \/ Handles("flush")
       \/ manager.pc = "titles" /\ titles = {}
    /\ manager' = [manager EXCEPT !.pc = "each", !.todo = Registered]
    /\ UNCHANGED <<mailbox, registry, actors, orphans, store, created, titles, connections,
                   sent, faults>>

DrainTitles ==
    /\ Handles("shutdown") /\ GoOn("titles")
    /\ UNCHANGED <<mailbox, registry, actors, orphans, store, created, titles, connections,
                   sent, faults>>

Asks(kinds, s) == manager.pc = "each" /\ c0.kind \in kinds /\ s \in manager.todo
Asked(s, ok) == manager' = [manager EXCEPT !.todo = @ \ {s}, !.failed = @ \/ ~ok]

\* Mutant: the first actor that does not answer ends the round.
DetachOrStop(s) ==
    /\ Asks({"disconnect"}, s)
    /\ actors' = [actors EXCEPT ![registry[s]].observers = @ \ {c0.connection}]
    /\ manager' = [manager EXCEPT !.todo = IF Live(registry[s]) THEN @ \ {s} ELSE {}]
    /\ UNCHANGED <<mailbox, registry, orphans, store, created, titles, connections, sent,
                   faults>>

DetachFrom(s) ==
    /\ Asks({"disconnect"}, s)
    /\ actors' = [actors EXCEPT ![registry[s]].observers = @ \ {c0.connection}]
    /\ Asked(s, Live(registry[s]))
    /\ UNCHANGED <<mailbox, registry, orphans, store, created, titles, connections, sent,
                   faults>>

FlushActor(s, ok) ==
    /\ Asks({"flush"}, s)
    /\ LET i == registry[s]
       IN  IF Live(i) /\ ~actors[i].deleting /\ actors[i].dirty
           THEN Works(ok) /\ Checkpoints(i, actors[i], ok) /\ Asked(s, ~actors'[i].dirty)
           ELSE Asked(s, Live(i)) /\ UNCHANGED <<store, actors, faults>>
    /\ UNCHANGED <<mailbox, registry, orphans, created, titles, connections, sent>>

\* Mutant: an actor that stops does not save what an earlier checkpoint could not.
StopUnsaved(s, saved, jobs) ==
    /\ Asks({"shutdown", "close"}, s)
    /\ LET i == registry[s]
           stopping == [actors[i] EXCEPT !.shutting_down = TRUE]
       IN  IF ~Live(i) THEN Asked(s, FALSE) /\ UNCHANGED <<actors, registry, faults>>
           ELSE /\ Works(jobs)
                /\ actors' = [actors EXCEPT ![i] = IF jobs THEN Gone(stopping, "stopped") ELSE stopping]
                /\ registry' = IF jobs THEN [registry EXCEPT ![s] = NoActor] ELSE registry
                /\ Asked(s, jobs)
    /\ UNCHANGED <<mailbox, orphans, store, created, titles, connections, sent>>

\* Shutdown of one actor: it flushes, ends its jobs and stops; one that
\* fails to stays, registered and shutting down, with its run.
StopActor(s, saved, jobs) ==
    /\ Asks({"shutdown", "close"}, s)
    /\ LET i == registry[s]
           stopping == [actors[i] EXCEPT !.shutting_down = TRUE]
           flushed == ~stopping.dirty \/ (saved /\ Present(s))
       IN  IF ~Live(i) THEN Asked(s, FALSE) /\ UNCHANGED <<store, actors, registry, faults>>
           ELSE /\ Works(saved /\ jobs)
                /\ store' = IF flushed /\ stopping.dirty THEN [store EXCEPT ![s] = stopping.record] ELSE store
                /\ actors' = [actors EXCEPT ![i] =
                        IF flushed /\ jobs THEN Gone([stopping EXCEPT !.dirty = FALSE], "stopped")
                        ELSE [stopping EXCEPT !.dirty = @ /\ ~flushed]]
                /\ registry' = IF flushed /\ jobs THEN [registry EXCEPT ![s] = NoActor] ELSE registry
                /\ Asked(s, flushed /\ jobs)
    /\ UNCHANGED <<mailbox, orphans, created, titles, connections, sent>>

\* Everybody has answered: the manager ends after a shutdown that worked, or
\* without handles, and goes on otherwise.
EndEach ==
    /\ manager.pc = "each" /\ manager.todo = {}
    /\ connections' = IF c0.kind = "disconnect"
                      THEN [connections EXCEPT ![c0.connection] = "gone"] ELSE connections
    /\ manager' = IF c0.kind = "close" \/ (c0.kind = "shutdown" /\ ~manager.failed)
                  THEN [manager EXCEPT !.pc = "ended"] ELSE Idle
    /\ mailbox' = IF manager'.pc = "ended" THEN <<>> ELSE mailbox
    /\ UNCHANGED <<registry, actors, orphans, store, created, titles, sent, faults>>

-----------------------------------------------------------------------------
(***************************************************************************)
(* The actors' own steps.                                                  *)
(***************************************************************************)

\* A run starts, on a client's command, or changes the conversation, or ends.
Run(i, running, saved) ==
    /\ Live(i) /\ ~actors[i].deleting
    /\ Running(i) \/ (Mutable(i) /\ running)
    /\ actors[i].record.changes < MaxChanges /\ Works(saved)
    /\ Checkpoints(i, [actors[i] EXCEPT !.record = Changed(@, running)], saved)
    /\ UNCHANGED <<mailbox, manager, registry, orphans, created, titles, connections, sent>>

\* An actor that nobody has a handle of, and that runs nothing, ends as it is.
\* The handles that connections have of it are not followed.
Unheard(i) ==
    /\ Live(i) /\ registry[actors[i].session] # i /\ ~Running(i)
    /\ actors' = [actors EXCEPT ![i] = Gone(@, "dead")]
    /\ UNCHANGED <<mailbox, manager, registry, orphans, store, created, titles, connections,
                   sent, faults>>

Panic(i) ==
    /\ Live(i) /\ Works(FALSE)
    /\ actors' = [actors EXCEPT ![i] = Gone(@, "dead")]
    /\ UNCHANGED <<mailbox, manager, registry, orphans, store, created, titles, connections,
                   sent>>

-----------------------------------------------------------------------------
Handle ==
    \/ Take \/ MailboxCloses \/ OpenRegistered \/ Attach \/ Startup \/ MaterializeFails
    \/ \E loads, ok \in BOOLEAN : Open(loads, ok)
    \/ \E ok \in BOOLEAN : Materialize(ok) \/ Rename(ok) \/ DeleteStored(ok) \/ Erase(ok)
    \/ \E jobs, saved \in BOOLEAN : PrepareDelete(jobs, saved)
    \/ Finish \/ Abort \/ Detach \/ Each \/ DrainTitles \/ EndEach
    \/ \E s \in Sessions :
        \/ RouteTitle(s) \/ DetachFrom(s)
        \/ \E ok \in BOOLEAN : FlushActor(s, ok) \/ (\E jobs \in BOOLEAN : StopActor(s, ok, jobs))

Next ==
    \/ Handle
    \/ \E kind \in Kinds, s \in Sessions, c \in Connections : Send(kind, s, c)
    \/ \E c \in Connections : Disconnect(c)
    \/ \E i \in DOMAIN actors :
        \/ Panic(i) \/ Unheard(i)
        \/ \E running, saved \in BOOLEAN : Run(i, running, saved)

Spec == Init /\ [][Next]_vars

-----------------------------------------------------------------------------
(***************************************************************************)
(* Properties.                                                             *)
(***************************************************************************)

\* The types of the state; a registered actor is one of its session.
TypeOK ==
    /\ mailbox \in Seq(Command) /\ Len(mailbox) <= MaxMailbox /\ manager \in Managers
    /\ actors \in Seq(Actor) /\ Len(actors) <= MaxCommands
    /\ registry \in [Sessions -> {NoActor} \cup DOMAIN actors] /\ orphans \subseteq Orphan
    /\ store \in [Sessions -> Records] /\ created \subseteq Sessions /\ titles \subseteq Sessions
    /\ connections \in [Connections -> {"open", "closed", "gone"}]
    /\ sent \in 0 .. MaxCommands /\ faults \in 0 .. MaxFaults
    /\ \A s \in Registered : actors[registry[s]].session = s

\* An actor of s whose deletion was refused has gone on with its run, without
\* the manager: a second one may have been opened beside it.
Contested(s) == \E o \in orphans : o.running /\ actors[o.actor].session = s

\* What a session has stored is replaced by something older only after a refused
\* deletion left a run of it to itself: never by the checkpoint of an actor that
\* missed a rename, nor by one that was opened before others failed to stop, nor
\* beside an actor the manager has lost without a run.
StoreNeverGoesBack ==
    [][\A s \in Sessions :
        Present(s) /\ store'[s] # Absent /\ ~Contested(s) =>
            /\ store'[s].changes >= store[s].changes
            /\ store'[s].title >= store[s].title]_vars

\* Once the detachment of a connection was handled, no live actor serves it, but
\* one that was lost by a refused deletion: commands of the connection that were
\* queued are handled before, and an actor that has died does not keep the
\* others from hearing of it.
ClosedConnectionsAreForgotten ==
    \A i \in DOMAIN actors, c \in Connections :
        Live(i) /\ connections[c] = "gone" =>
            c \notin actors[i].observers \/ \E o \in orphans : o.actor = i

\* An actor that stopped for a shutdown has left all of its record in the
\* store, also when the shutdown of others failed and the session was opened
\* again since; beside a run that was left to itself, not even that is certain.
CleanEndsAreSaved ==
    \A i \in DOMAIN actors :
        actors[i].state = "stopped" /\ ~Contested(actors[i].session) =>
            LET stored == store[actors[i].session]
            IN  stored = Absent \/ (stored.changes >= actors[i].record.changes
                                    /\ stored.title >= actors[i].record.title)
=============================================================================
