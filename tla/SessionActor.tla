---------------------------- MODULE SessionActor ----------------------------
(***************************************************************************)
(* One moh session: its row in the session store, the actor that owns it   *)
(* while it is live (src/src/session/actor.rs) with the harness that runs  *)
(* the model (src/src/harness/state.rs), the observers clients attach to   *)
(* it, and the part of the session manager (src/src/session/manager.rs)    *)
(* that creates, opens, renames, deletes and shuts down that session.      *)
(*                                                                         *)
(* The backend runs on one thread and an actor handles one input at a      *)
(* time, so a handler is one action.  A store operation inside a handler   *)
(* either commits or fails and changes nothing: the parameter ok of an     *)
(* action.  The job registry is reduced to whether its shutdown succeeds.  *)
(***************************************************************************)
EXTENDS SessionRecord

CONSTANTS
    Removed,            \* the row of a deleted session
    FallbackTitle,      \* the title derived from the first prompt
    DefaultSettings,    \* settings a draft is materialized with
    Catalog,            \* supported levels of each known model, or None if not Ready
    TokenCounts,        \* context sizes the model reports
    Attachments,        \* <<connection, attachment>> pairs
    ObserverCapacity,   \* OBSERVER_CAPACITY: ordinary events queued per observer
    MaxSequence,        \* u64::MAX for event sequences
    MaxRunId,           \* u64::MAX for run identifiers
    MaxTurns,           \* bound: turns of the session
    MaxItems,           \* bound: transcript items
    MaxDeltas,          \* bound: deltas of one answer
    MaxRevision         \* bound: title revisions

ASSUME ActorAssumption ==
    /\ FallbackTitle \in Titles
    /\ DefaultSettings \in Settings
    /\ Catalog = None \/ \E S \in SUBSET Models : Catalog \in [S -> SUBSET Reasonings]
    /\ TokenCounts \subseteq Nat
    /\ Removed # None /\ Removed \notin Record
    /\ ObserverCapacity \in Nat \ {0}
    /\ {MaxSequence, MaxRunId, MaxTurns, MaxItems, MaxDeltas, MaxRevision} \subseteq Nat

TERMINAL_EVENT_RESERVE == 1

HarnessRun == [id : Nat, prompt : Prompts]
ASSUME RunAssumption == None \notin HarnessRun

VARIABLES
    row,        \* the stored session: None before it exists, Removed after
    record,     \* SessionActor.record; None while no actor is live
    dirty,      \* SessionActor.dirty: a record not yet stored
    projection, \* SessionActor.projection
    harness,    \* SessionActor.harness
    deleting, shutting_down,    \* SessionActor flags
    observers,  \* per attachment: the channel and the copy its client keeps
    activity,   \* whether the backend's activity tracker counts a run
    titleTask,  \* expected revision of the pending title task, or None
    deletion    \* where the manager is in its delete routine

actorVars == <<record, dirty, projection, harness, deleting, shutting_down>>
vars == <<row, actorVars, observers, activity, titleTask, deletion>>

Live == record # None
Running == harness.active # None

-----------------------------------------------------------------------------
(***************************************************************************)
(* The harness.                                                            *)
(***************************************************************************)
HarnessState == [active : HarnessRun \cup {None},
                 next_run_id : Nat, ids_exhausted : BOOLEAN, history : Seq(Message)]

WithHistory(history) ==
    [active |-> None, next_run_id |-> 0, ids_exhausted |-> FALSE, history |-> history]

HarnessSubmit(h, prompt) ==
    [h EXCEPT !.active = [id |-> h.next_run_id, prompt |-> prompt],
              !.next_run_id = IF @ < MaxRunId THEN @ + 1 ELSE @,
              !.ids_exhausted = (h.next_run_id >= MaxRunId)]

\* cancel, and the failures of next_event: the run is dropped, history stays.
HarnessDrop(h) == [h EXCEPT !.active = None]

HarnessComplete(h, response) ==
    [h EXCEPT !.active = None,
              !.history = @ \o <<[role |-> "user", text |-> h.active.prompt],
                                 [role |-> "assistant", text |-> response]>>]

-----------------------------------------------------------------------------
(***************************************************************************)
(* Observers.  sender: registered in the actor; receiver: the delivery     *)
(* task of the connection still reads; view: the copy of the projection    *)
(* its client keeps.                                                       *)
(***************************************************************************)
Observer ==
         [sender : BOOLEAN, receiver : {TRUE}, queue : Seq(Envelope), view : Projection]
    \cup [sender : BOOLEAN, receiver : {FALSE}, queue : {<<>>}, view : {None}]

Unattached == [sender |-> FALSE, receiver |-> FALSE, queue |-> <<>>, view |-> None]

\* Mutant: a full observer misses the event and stays registered.
DeliverLossy(obs, envelope, limit) ==
    [a \in Attachments |->
        IF obs[a].sender /\ obs[a].receiver /\ Len(obs[a].queue) < limit
        THEN [obs[a] EXCEPT !.queue = Append(@, envelope)]
        ELSE obs[a]]

\* Deliver an envelope to the observers with fewer than limit queued events;
\* the others are dropped.
Deliver(obs, envelope, limit) ==
    [a \in Attachments |->
        IF obs[a].sender /\ obs[a].receiver /\ Len(obs[a].queue) < limit
        THEN [obs[a] EXCEPT !.queue = Append(@, envelope)]
        ELSE [obs[a] EXCEPT !.sender = FALSE]]

CloseObservers(obs) == [a \in Attachments |-> [obs[a] EXCEPT !.sender = FALSE]]

\* project followed by broadcast: once the sequence is exhausted the event is
\* applied without a number and every observer is dropped.
Project(p, ev) ==
    IF p.sequence < MaxSequence
    THEN [Reduce(p, ev) EXCEPT !.sequence = p.sequence + 1]
    ELSE Reduce(p, ev)

EmitUpTo(s, ev, limit) ==
    [projection |-> Project(s.projection, ev),
     observers |->
        IF s.projection.sequence < MaxSequence
        THEN Deliver(s.observers, [sequence |-> s.projection.sequence + 1, event |-> ev], limit)
        ELSE CloseObservers(s.observers)]

\* broadcast keeps a slot free that only broadcast_terminal may use.
Emit(s, ev) == EmitUpTo(s, ev, ObserverCapacity)
EmitTerminal(s, ev) == EmitUpTo(s, ev, ObserverCapacity + TERMINAL_EVENT_RESERVE)

Visible == [projection |-> projection, observers |-> observers]

\* broadcast_persistence_transition.
EmitTransition(s, transition) ==
    IF transition = "none" THEN s
    ELSE Emit(s, [type |-> "PersistenceWarning", warning |-> transition = "warn"])

Show(s) == projection' = s.projection /\ observers' = s.observers

-----------------------------------------------------------------------------
(***************************************************************************)
(* Persistence.                                                            *)
(***************************************************************************)

\* checkpoint_sync finds no row to update once the session is deleted.
Exists == row \notin {None, Removed}
Stores(ok) == ok /\ Exists

\* persistence_result.
Transition(stored) ==
    CASE ~stored -> "warn"
      [] stored /\ projection.persistence_warning -> "clear"
      [] OTHER -> "none"

\* persist_checkpoint with record rec.
PersistCheckpoint(rec, ok) ==
    /\ row' = IF Stores(ok) THEN rec ELSE row
    /\ dirty' = IF Stores(ok) THEN None ELSE rec

\* persist_metadata: a dirty session is stored whole.
PersistMetadata(rec, ok) ==
    /\ row' = IF ~Stores(ok) THEN row
              ELSE IF dirty # None THEN rec ELSE WithMetadata(row, rec)
    /\ dirty' = IF Stores(ok) THEN None ELSE rec

-----------------------------------------------------------------------------
Init ==
    /\ row = None /\ record = None /\ dirty = None /\ projection = None /\ harness = None
    /\ deleting = FALSE /\ shutting_down = FALSE
    /\ observers = [a \in Attachments |-> Unattached]
    /\ activity = FALSE /\ titleTask = None /\ deletion = "none"

\* ensure_mutable.
Mutable == Live /\ ~deleting /\ ~shutting_down

\* The manager handles one command at a time; delete spans several steps.
ManagerIdle == deletion = "none"

Spawn(rec, proj, h) ==
    /\ record' = rec /\ projection' = proj /\ harness' = h
    /\ dirty' = None /\ deleting' = FALSE /\ shutting_down' = FALSE

\* The actor task ends and its state is dropped.
ActorExits ==
    /\ record' = None /\ dirty' = None /\ projection' = None /\ harness' = None
    /\ deleting' = FALSE /\ shutting_down' = FALSE
    /\ activity' = FALSE

-----------------------------------------------------------------------------
(***************************************************************************)
(* Creating and opening the session (manager.rs).                          *)
(***************************************************************************)

\* materialize_and_submit: the first prompt is stored with a running turn,
\* then the run starts and a title task is dispatched.
MaterializeAndSubmit(p) ==
    LET rec == Materialized(p, DefaultSettings, FallbackTitle)
        h == HarnessSubmit(WithHistory(rec.history), p)
    IN  /\ row = None
        /\ row' = rec
        /\ MaterializedStartIsValid(rec, h.active.id, p)
        /\ Spawn(rec, InstallPersistedStarted(FromRecord(rec), h.active.id, p), h)
        /\ activity' = TRUE
        /\ titleTask' = rec.title.revision
        /\ UNCHANGED <<observers, deletion>>

\* The engine cannot be created: the first turn is stored as failed, or the
\* row is deleted if that fails, or stays running if that fails too (as it
\* does when the backend dies right after the row was written).
MaterializeWithoutRun(p) ==
    LET rec == Materialized(p, DefaultSettings, FallbackTitle)
    IN  /\ row = None
        /\ row' \in {FailedStart(rec), Removed, rec}
        /\ UNCHANGED <<actorVars, observers, activity, titleTask, deletion>>

\* open of a session without an actor: load interrupts running turns; an
\* actor starts if the engine can be created.
Open(created) ==
    LET rec == Interrupted(row)
    IN  /\ ~Live /\ Exists /\ ManagerIdle
        /\ row' = rec
        /\ IF created THEN Spawn(rec, FromRecord(rec), WithHistory(rec.history))
                      ELSE UNCHANGED actorVars
        /\ UNCHANGED <<observers, activity, titleTask, deletion>>

-----------------------------------------------------------------------------
(***************************************************************************)
(* Runs.                                                                   *)
(***************************************************************************)

\* A durable event is applied to the record, shown, and checkpointed before
\* it is broadcast; an event that does not apply is dropped.
RecordDurably(ev, history, ok) ==
    LET rec == [ApplyDurableEvent(record, ev) EXCEPT !.history = history]
    IN  IF DurableApplies(record, ev) /\ ValidEvent(projection, ev)
        THEN /\ record' = rec
             /\ PersistCheckpoint(rec, ok)
             /\ Show(EmitTransition(Emit(Visible, ev), Transition(Stores(ok))))
        ELSE UNCHANGED <<row, record, dirty, projection, observers>>

Submit(p, ok) ==
    LET ev == [type |-> "Started", run |-> harness.next_run_id, prompt |-> p]
        starts == DurableApplies(record, ev) /\ ValidEvent(projection, ev)
        h == HarnessSubmit(harness, p)
    IN  /\ Mutable /\ ~Running /\ ~harness.ids_exhausted
        /\ Len(record.turns) < MaxTurns /\ Len(record.transcript) < MaxItems
        /\ harness' = IF starts THEN h ELSE HarnessDrop(h)
        /\ RecordDurably(ev, record.history, ok)
        /\ activity' = (starts \/ activity)
        /\ UNCHANGED <<deleting, shutting_down, titleTask, deletion>>

\* Mutant: a cancelled run stays counted as activity.
CancelStaysActive(ok) ==
    /\ Mutable /\ Running
    /\ harness' = HarnessDrop(harness)
    /\ RecordDurably([type |-> "Cancelled", run |-> harness.active.id], record.history, ok)
    /\ UNCHANGED <<activity, deleting, shutting_down, titleTask, deletion>>

Cancel(ok) ==
    /\ Mutable /\ Running
    /\ harness' = HarnessDrop(harness)
    /\ activity' = FALSE
    /\ RecordDurably([type |-> "Cancelled", run |-> harness.active.id], record.history, ok)
    /\ UNCHANGED <<deleting, shutting_down, titleTask, deletion>>

\* The events of a run (handle_run_event); they arrive in every live state.
RunEvent == Live /\ Running

\* Mutant: the exchange is not committed to the record.
CompletedWithoutCommit(response, ok) ==
    /\ RunEvent
    /\ harness' = HarnessComplete(harness, response)
    /\ activity' = FALSE
    /\ RecordDurably([type |-> "Completed", run |-> harness.active.id, response |-> response],
                     record.history, ok)
    /\ UNCHANGED <<deleting, shutting_down, titleTask, deletion>>

Completed(response, ok) ==
    LET h == HarnessComplete(harness, response)
    IN  /\ RunEvent
        /\ harness' = h
        /\ activity' = FALSE
        /\ RecordDurably([type |-> "Completed", run |-> harness.active.id,
                          response |-> response], h.history, ok)
        /\ UNCHANGED <<deleting, shutting_down, titleTask, deletion>>

\* An engine error, a blank answer, or a stream that ends without an answer.
RunFails(ok) ==
    /\ RunEvent
    /\ harness' = HarnessDrop(harness)
    /\ activity' = FALSE
    /\ RecordDurably([type |-> "Failed", run |-> harness.active.id, failure |-> "run"],
                     record.history, ok)
    /\ UNCHANGED <<deleting, shutting_down, titleTask, deletion>>

ToolStarted(ok) ==
    /\ RunEvent
    /\ Len(record.transcript) < MaxItems
    /\ RecordDurably([type |-> "ToolStarted", run |-> harness.active.id], record.history, ok)
    /\ UNCHANGED <<harness, deleting, shutting_down, activity, titleTask, deletion>>

ContextUsage(tokens, ok) ==
    LET ev == [type |-> "ContextUsage", run |-> harness.active.id, tokens |-> tokens]
        rec == [record EXCEPT !.settings.context_tokens = tokens]
    IN  /\ RunEvent
        /\ record' = rec
        /\ IF ValidEvent(projection, ev)
           THEN /\ PersistMetadata(rec, ok)
                /\ Show(EmitTransition(Emit(Visible, ev), Transition(Stores(ok))))
           ELSE UNCHANGED <<row, dirty, projection, observers>>
        /\ UNCHANGED <<harness, deleting, shutting_down, activity, titleTask, deletion>>

\* A delta or the end of a tool call is shown and not stored.
ShowRunEvent(type) ==
    LET ev == [type |-> type, run |-> harness.active.id]
    IN  /\ RunEvent /\ ValidEvent(projection, ev)
        /\ type = "AssistantDelta" => projection.active_run.text < MaxDeltas
        /\ Show(Emit(Visible, ev))
        /\ UNCHANGED <<row, record, dirty, harness, deleting, shutting_down,
                       activity, titleTask, deletion>>

-----------------------------------------------------------------------------
(***************************************************************************)
(* Settings, plan, jobs and title.                                         *)
(***************************************************************************)
ChangeSettings(settings, ok) ==
    LET rec == [record EXCEPT !.settings = settings]
    IN  /\ record' = rec
        /\ PersistMetadata(rec, ok)
        /\ Show(EmitTransition(Emit(Visible, [type |-> "SettingsChanged", settings |-> settings]),
                               Transition(Stores(ok))))
        /\ UNCHANGED <<harness, deleting, shutting_down, activity, titleTask, deletion>>

SelectModel(model, ok) ==
    /\ Mutable
    /\ Catalog # None => model \in DOMAIN Catalog
    /\ ChangeSettings([record.settings EXCEPT !.model = model], ok)

SelectReasoning(level, ok) ==
    /\ Mutable
    /\ Catalog # None /\ record.settings.model \in DOMAIN Catalog
    /\ level \in Catalog[record.settings.model]
    /\ ChangeSettings([record.settings EXCEPT !.reasoning = level], ok)

\* Tools of this actor's runs can have queued requests and started jobs.
RanBefore == Live /\ (harness.next_run_id > 0 \/ harness.ids_exhausted)

\* handle_plan_update: not refused by a deleting or stopping actor, and
\* refused once the event sequence is exhausted.
UpdatePlan(plan, ok) ==
    LET rec == [record EXCEPT !.plan = plan]
    IN  /\ RanBefore
        /\ projection.sequence < MaxSequence
        /\ record' = rec
        /\ PersistCheckpoint(rec, ok)
        /\ Show(EmitTransition(Emit(Visible, [type |-> "PlanChanged", plan |-> plan]),
                               Transition(Stores(ok))))
        /\ UNCHANGED <<harness, deleting, shutting_down, activity, titleTask, deletion>>

JobsChanged ==
    /\ RanBefore /\ ~deleting
    /\ Show(Emit(Visible, [type |-> "JobsChanged"]))
    /\ UNCHANGED <<row, record, dirty, harness, deleting, shutting_down,
                   activity, titleTask, deletion>>

\* Mutant: a retained checkpoint keeps the old title.
InstallTitleBesideDirty(title) ==
    /\ record' = [record EXCEPT !.title = title]
    /\ dirty' = dirty
    /\ Show(Emit(Visible, [type |-> "TitleChanged", title |-> title.text,
                           title_revision |-> title.revision]))

\* install_persisted_title.
InstallTitle(title) ==
    LET rec == [record EXCEPT !.title = title]
    IN  /\ record' = rec
        /\ dirty' = IF dirty # None THEN rec ELSE None
        /\ Show(Emit(Visible, [type |-> "TitleChanged", title |-> title.text,
                               title_revision |-> title.revision]))

Rename(text) ==
    /\ ManagerIdle /\ Exists /\ row.title.revision < MaxRevision
    /\ row' = Retitled(row, text, "manual")
    /\ \/ Mutable /\ InstallTitle(Retitled(row, text, "manual").title)
       \/ ~Live /\ UNCHANGED <<record, dirty, projection, observers>>
    /\ UNCHANGED <<harness, deleting, shutting_down, activity, titleTask, deletion>>

\* A title task ends (route_title_completion): text is None if generation
\* failed, its answer was unusable, or the store failed.
TitleGenerated(text) ==
    LET accepted == /\ Mutable /\ Exists /\ text # None
                    /\ AcceptsGenerated(row, titleTask)
        stored == Retitled(row, text, "generated")
    IN  /\ ManagerIdle /\ titleTask # None
        /\ titleTask' = None
        /\ row' = IF accepted THEN stored ELSE row
        /\ IF accepted THEN InstallTitle(stored.title)
                       ELSE UNCHANGED <<record, dirty, projection, observers>>
        /\ UNCHANGED <<harness, deleting, shutting_down, activity, deletion>>

-----------------------------------------------------------------------------
(***************************************************************************)
(* Deleting.  The manager prepares the actor, deletes the row, and finishes*)
(* or aborts; clients keep sending commands meanwhile.                     *)
(***************************************************************************)
PrepareDelete(ok, jobsOk) ==
    LET ev == [type |-> "Cancelled", run |-> harness.active.id]
        recorded == Running /\ DurableApplies(record, ev)
        shown == recorded /\ ValidEvent(projection, ev)
        rec == IF recorded THEN ApplyDurableEvent(record, ev) ELSE record
        cleared == Stores(ok) /\ projection.persistence_warning
    IN  /\ ManagerIdle /\ Mutable
        /\ deleting' = TRUE
        /\ harness' = HarnessDrop(harness)
        /\ activity' = (activity /\ ~Running)
        /\ record' = rec
        /\ PersistCheckpoint(rec, ok)
        /\ Show(EmitTransition(IF shown THEN Emit(Visible, ev) ELSE Visible,
                               IF cleared THEN "clear" ELSE "none"))
        /\ deletion' = IF Stores(ok) /\ jobsOk /\ (Running => shown)
                       THEN "prepared" ELSE "failed"
        /\ UNCHANGED <<shutting_down, titleTask>>

\* Mutant: a failed delete returns without aborting the actor's deletion.
RepositoryDeleteForgets(ok) ==
    /\ deletion = "prepared"
    /\ row' = IF Stores(ok) THEN Removed ELSE row
    /\ deletion' = IF Stores(ok) THEN "removed" ELSE "none"
    /\ UNCHANGED <<actorVars, observers, activity, titleTask>>

\* repository.delete of a prepared session; of a session without an actor.
RepositoryDelete(ok) ==
    /\ deletion = "prepared"
    /\ row' = IF Stores(ok) THEN Removed ELSE row
    /\ deletion' = IF Stores(ok) THEN "removed" ELSE "failed"
    /\ UNCHANGED <<actorVars, observers, activity, titleTask>>

DeleteCold ==
    /\ ~Live /\ Exists /\ ManagerIdle
    /\ row' = Removed
    /\ UNCHANGED <<actorVars, observers, activity, titleTask, deletion>>

FinishDelete ==
    /\ Live /\ deleting /\ deletion = "removed"
    /\ observers' = CloseObservers(EmitTerminal(Visible, [type |-> "Deleted"]).observers)
    /\ ActorExits
    /\ deletion' = "none"
    /\ UNCHANGED <<row, titleTask>>

AbortDelete ==
    /\ Live /\ deleting /\ deletion = "failed"
    /\ observers' = CloseObservers(observers)
    /\ ActorExits
    /\ deletion' = "none"
    /\ UNCHANGED <<row, titleTask>>

-----------------------------------------------------------------------------
(***************************************************************************)
(* Flushing, stopping and crashing.                                        *)
(***************************************************************************)

\* flush of a dirty actor stores the retained checkpoint.
Flushed(ok) ==
    IF dirty = None THEN Visible
    ELSE Emit(Visible, [type |-> "PersistenceWarning", warning |-> ~Stores(ok)])

FlushDirty(ok) ==
    /\ row' = IF dirty # None /\ Stores(ok) THEN dirty ELSE row
    /\ dirty' = IF dirty # None /\ ~Stores(ok) THEN record ELSE None
    /\ Show(Flushed(ok))

Flush(ok) ==
    /\ ManagerIdle /\ Live /\ ~deleting /\ dirty # None
    /\ FlushDirty(ok)
    /\ UNCHANGED <<record, harness, deleting, shutting_down, activity, titleTask, deletion>>

\* The manager waits for its title tasks first.  A shutdown that fails leaves
\* the actor running and refusing commands.
CanShutdown == ManagerIdle /\ Live /\ ~deleting /\ titleTask = None

ShutdownFails(ok) ==
    /\ CanShutdown
    /\ shutting_down' = TRUE
    /\ FlushDirty(ok)
    /\ UNCHANGED <<record, harness, deleting, activity, titleTask, deletion>>

Shutdown(ok) ==
    /\ CanShutdown
    /\ dirty # None => Stores(ok)
    /\ row' = IF dirty # None THEN dirty ELSE row
    /\ observers' = CloseObservers(Flushed(ok).observers)
    /\ ActorExits
    /\ UNCHANGED <<titleTask, deletion>>

\* run: every handle is gone, as after a manager that could not shut down.
Abandoned ==
    /\ Live /\ shutting_down /\ ~Running /\ ManagerIdle
    /\ observers' = CloseObservers(observers)
    /\ ActorExits
    /\ UNCHANGED <<row, titleTask, deletion>>

\* The backend process dies: only the store survives.
Crash ==
    /\ Live \/ titleTask # None \/ \E a \in Attachments : observers[a] # Unattached
    /\ ActorExits
    /\ observers' = [a \in Attachments |-> Unattached]
    /\ titleTask' = None /\ deletion' = "none"
    /\ UNCHANGED row

-----------------------------------------------------------------------------
(***************************************************************************)
(* Attachments.                                                            *)
(***************************************************************************)
Attach(a) ==
    /\ ManagerIdle /\ Live /\ ~deleting
    /\ observers[a] = Unattached
    /\ observers' = [observers EXCEPT ![a] = [sender |-> TRUE, receiver |-> TRUE,
                                              queue |-> <<>>, view |-> projection]]
    /\ UNCHANGED <<row, actorVars, activity, titleTask, deletion>>

Detach(a) ==
    /\ ManagerIdle /\ Live /\ observers[a].sender
    /\ observers' = [observers EXCEPT ![a].sender = FALSE]
    /\ UNCHANGED <<row, actorVars, activity, titleTask, deletion>>

\* The connection ends: its delivery tasks stop, and the manager detaches
\* all of its attachments some time later.
Disconnect(c) ==
    /\ \E a \in Attachments : a[1] = c /\ observers[a].receiver
    /\ observers' = [a \in Attachments |->
                        IF a[1] = c THEN [Unattached EXCEPT !.sender = observers[a].sender]
                                    ELSE observers[a]]
    /\ UNCHANGED <<row, actorVars, activity, titleTask, deletion>>

DetachConnection(c) ==
    /\ ManagerIdle /\ Live
    /\ \E a \in Attachments : a[1] = c /\ observers[a].sender /\ ~observers[a].receiver
    /\ observers' = [a \in Attachments |->
                        IF a[1] = c THEN [observers[a] EXCEPT !.sender = FALSE] ELSE observers[a]]
    /\ UNCHANGED <<row, actorVars, activity, titleTask, deletion>>

\* The client takes the next event; a deleted session ends the attachment,
\* and an event the client cannot apply ends the client.
Receive(a) ==
    LET envelope == Head(observers[a].queue)
        ends == envelope.event.type = "Deleted" \/ ~ClientAccepts(observers[a].view, envelope)
    IN  /\ observers[a].receiver /\ observers[a].queue # <<>>
        /\ observers' = [observers EXCEPT ![a] =
                IF ends
                THEN [Unattached EXCEPT !.sender = observers[a].sender]
                ELSE [observers[a] EXCEPT !.queue = Tail(@),
                                          !.view = ClientApply(@, envelope)]]
        /\ UNCHANGED <<row, actorVars, activity, titleTask, deletion>>

\* The client finds its channel closed and drained, and will attach again.
ObserverClosed(a) ==
    /\ observers[a].receiver /\ ~observers[a].sender /\ observers[a].queue = <<>>
    /\ observers' = [observers EXCEPT ![a] = Unattached]
    /\ UNCHANGED <<row, actorVars, activity, titleTask, deletion>>

-----------------------------------------------------------------------------
ManagerNext ==
    \/ \E p \in Prompts : MaterializeAndSubmit(p) \/ MaterializeWithoutRun(p)
    \/ \E created \in BOOLEAN : Open(created)
    \/ \E t \in Titles : Rename(t)
    \/ \E t \in Titles \cup {None} : TitleGenerated(t)
    \/ \E ok, jobsOk \in BOOLEAN : PrepareDelete(ok, jobsOk)
    \/ \E ok \in BOOLEAN : RepositoryDelete(ok)
    \/ FinishDelete \/ AbortDelete \/ DeleteCold
    \/ \E ok \in BOOLEAN : Flush(ok) \/ ShutdownFails(ok) \/ Shutdown(ok)

CommandNext ==
    \/ \E p \in Prompts, ok \in BOOLEAN : Submit(p, ok)
    \/ \E ok \in BOOLEAN : Cancel(ok)
    \/ \E m \in Models, ok \in BOOLEAN : SelectModel(m, ok)
    \/ \E l \in Reasonings, ok \in BOOLEAN : SelectReasoning(l, ok)

RunNext ==
    \/ \E r \in Responses, ok \in BOOLEAN : Completed(r, ok)
    \/ \E ok \in BOOLEAN : RunFails(ok) \/ ToolStarted(ok)
    \/ \E n \in TokenCounts, ok \in BOOLEAN : ContextUsage(n, ok)
    \/ \E type \in {"AssistantDelta", "ToolFinished"} : ShowRunEvent(type)
    \/ \E plan \in Plans, ok \in BOOLEAN : UpdatePlan(plan, ok)
    \/ JobsChanged

ObserverNext ==
    \/ \E a \in Attachments : Attach(a) \/ Detach(a) \/ Receive(a) \/ ObserverClosed(a)
    \/ \E c \in {a[1] : a \in Attachments} : Disconnect(c) \/ DetachConnection(c)

Next == ManagerNext \/ CommandNext \/ RunNext \/ ObserverNext \/ Abandoned \/ Crash

Spec == Init /\ [][Next]_vars

\* Tokio polls the manager's task and each connection's delivery task again
\* whenever they can proceed.
Fairness ==
    /\ WF_vars(\E ok \in BOOLEAN : RepositoryDelete(ok))
    /\ WF_vars(FinishDelete) /\ WF_vars(AbortDelete)
    /\ \A a \in Attachments : WF_vars(Receive(a)) /\ WF_vars(ObserverClosed(a))

FairSpec == Spec /\ Fairness

-----------------------------------------------------------------------------
(***************************************************************************)
(* Properties.                                                             *)
(***************************************************************************)

\* Every variable has its type: an actor has a record, a projection and a
\* harness, or there is no actor at all.
TypeOK ==
    /\ row \in Record \cup {None, Removed}
    /\ \/ record \in Record /\ projection \in Projection /\ harness \in HarnessState
       \/ record = None /\ projection = None /\ harness = None
    /\ dirty \in Record \cup {None}
    /\ deleting \in BOOLEAN /\ shutting_down \in BOOLEAN /\ activity \in BOOLEAN
    /\ observers \in [Attachments -> Observer]
    /\ titleTask \in Nat \cup {None}
    /\ deletion \in {"none", "prepared", "removed", "failed"}

\* What the actor shows is stored, or waits in dirty to be stored whole: an
\* actor without a dirty checkpoint has stored exactly its record (metadata
\* updates included, which write only part of the row), and the retained
\* checkpoint is never older than the record (rename refreshes it, flush
\* stores it).
StoredOrDirty ==
    Live => IF dirty = None THEN row \in {record, Removed} ELSE dirty = record

\* The projection sent to clients shows the durable record: the reducer of
\* projection.rs and the durable effects in actor.rs agree on every event.
ProjectionShowsRecord ==
    Live => /\ projection.transcript = record.transcript
            /\ projection.plan = record.plan
            /\ projection.settings = record.settings
            /\ projection.title = record.title.text
            /\ projection.title_revision = record.title.revision

\* The harness, the projection, the record and the activity tracker agree on
\* the run: it is active in all of them, under one identifier and prompt, or
\* in none, and the running turn is the last one.
RunAgreement ==
    /\ Live => LET n == Len(record.turns)
               IN  /\ activity = Running
                   /\ projection.busy = Running
                   /\ IF Running
                      THEN /\ projection.active_run # None
                           /\ projection.active_run.run = harness.active.id
                           /\ projection.active_run.prompt = harness.active.prompt
                           /\ RunningTurns(record) = {n}
                           /\ record.turns[n].run = harness.active.id
                           /\ record.transcript[record.turns[n].prompt_position + 1]
                                = [kind |-> "user", text |-> harness.active.prompt]
                      ELSE projection.active_run = None /\ RunningTurns(record) = {}
    /\ ~Live => ~activity

\* The last transcript item of turn i.
TurnEnd(rec, i) ==
    IF i = Len(rec.turns) THEN Len(rec.transcript) ELSE rec.turns[i + 1].prompt_position

OutcomeItem(status) ==
    CASE status = "completed" -> "assistant"
      [] status = "cancelled" -> "cancelled"
      [] OTHER -> "failed"

\* Each turn is its prompt, the tool calls of its run and, once it is over,
\* exactly one outcome, of the kind its status says.
TurnsExplainTranscript(rec) ==
    /\ rec.turns # <<>> /\ rec.turns[1].prompt_position = 0
    /\ \A i \in DOMAIN rec.turns :
        LET first == rec.turns[i].prompt_position + 1
            last == TurnEnd(rec, i)
            over == rec.turns[i].status # "running"
        IN  /\ first \in DOMAIN rec.transcript /\ rec.transcript[first].kind = "user"
            /\ over => last > first
                       /\ rec.transcript[last].kind = OutcomeItem(rec.turns[i].status)
            /\ \A k \in first + 1 .. (IF over THEN last - 1 ELSE last) :
                    rec.transcript[k] = [kind |-> "tool_started", run |-> rec.turns[i].run]

\* In the store and in the actor, through crashes, failed checkpoints and
\* interrupted runs, every turn accounts for its part of the transcript and
\* an interrupted turn has one interruption.
TranscriptsAreWellFormed ==
    \A rec \in {row, record} \ {None, Removed} : TurnsExplainTranscript(rec)

CompletedTurns(rec, i) == {j \in DOMAIN rec.turns : j <= i /\ rec.turns[j].status = "completed"}

\* The model's history is the prompt and the answer of every completed turn,
\* in order, and nothing of failed, cancelled, interrupted or unfinished ones.
HistoryIsCompletedTurns(rec) ==
    /\ Len(rec.history) = 2 * Cardinality(CompletedTurns(rec, Len(rec.turns)))
    /\ \A i \in CompletedTurns(rec, Len(rec.turns)) :
        LET n == Cardinality(CompletedTurns(rec, i))
            prompt == rec.transcript[rec.turns[i].prompt_position + 1]
            answer == rec.transcript[TurnEnd(rec, i)]
        IN  /\ rec.history[2 * n - 1] = [role |-> "user", text |-> prompt.text]
            /\ rec.history[2 * n] = [role |-> "assistant", text |-> answer.text]

\* This holds of what is stored, of the record, and of what the harness sends
\* with the next run.
HistoriesAreCompletedTurns ==
    /\ \A rec \in {row, record} \ {None, Removed} : HistoryIsCompletedTurns(rec)
    /\ Live => record.history = harness.history

\* Clients are warned exactly while something is not stored; only an actor
\* that is being deleted may have failed to store without a warning.
WarningMeansUnsaved ==
    Live => /\ projection.persistence_warning => dirty # None
            /\ dirty # None => projection.persistence_warning \/ deleting

\* A registered client has, or has queued without a gap, everything up to the
\* actor's sequence: it accepts its next event, and once its queue is empty
\* its own reducer has reproduced the authoritative projection.
ViewsFollowProjection ==
    \A a \in Attachments :
        LET o == observers[a]
        IN  /\ o.receiver /\ o.queue # <<>> /\ Head(o.queue).event.type # "Deleted"
                 => ClientAccepts(o.view, Head(o.queue))
            /\ o.receiver /\ o.sender =>
                 /\ o.view.sequence + Len(o.queue) = projection.sequence
                 /\ o.queue = <<>> => o.view = projection

\* A stored transcript only grows and a stored outcome is final, whatever is
\* checkpointed, retried, interrupted or reopened in between.
StoredOutcomesAreFinal ==
    [][row \notin {None, Removed} /\ row' # Removed =>
        /\ SubSeq(row'.transcript, 1, Len(row.transcript)) = row.transcript
        /\ \A i \in DOMAIN row.turns :
              /\ i \in DOMAIN row'.turns
              /\ row.turns[i].status # "running" => row'.turns[i] = row.turns[i]]_vars

\* A stored title changes only to a newer revision, and a generated title
\* never replaces one the user chose, although checkpoints also write titles.
StoredTitleAdvances ==
    [][row \notin {None, Removed} /\ row' # Removed /\ row'.title # row.title =>
        /\ row'.title.revision = row.title.revision + 1
        /\ row.title.source = "manual" => row'.title.source = "manual"]_vars

\* Through failed checkpoints, titles stored beside them, interrupted runs and
\* crashes, the session keeps what DurableSession promises: a conversation that
\* is only continued, a title that only advances, and nothing that was shown is
\* lost without a warning.
Durable == INSTANCE DurableSession WITH
    Nothing <- None, Gone <- Removed, saved <- row, shown <- record,
    warned <- Live /\ (projection.persistence_warning \/ deleting)
DurableSpec == Durable!Spec

\* No late checkpoint of a plan or a run brings a deleted session back.
DeletedStaysDeleted == [][row = Removed => row' = Removed]_row

\* An actor that shuts down has stored everything it showed ("refuses to exit
\* while committed state cannot be saved").
ShutdownLosesNothing == [][(\E ok \in BOOLEAN : Shutdown(ok)) => row' = record]_vars

\* A deletion that fails keeps every answer the session had shown in the
\* store ("Delete failure preserves the session").
FailedDeleteKeepsAnswers == [][AbortDelete => row'.history = record.history]_vars

\* A deletion the manager began always ends the actor: the session is not
\* left refusing every command.
DeletionSettles == deletion # "none" ~> ~Live

=============================================================================
