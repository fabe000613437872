-------------------------- MODULE ClientWorkspace ---------------------------
(***************************************************************************)
(* The workspace of the terminal client (src/src/client/workspace.rs): the *)
(* one chat it presents, a draft or an attached session, while other       *)
(* clients delete sessions and start runs in the same project.  The event  *)
(* loop (src/src/client/app.rs) awaits a command of the user to its end but*)
(* drops the future of next_update at every frame.                         *)
(*                                                                         *)
(* One call of the backend is one step; RpcSession shows what a stream does*)
(* in between, and here a stream is its registration: the client's observer*)
(* is registered with the session's actor, or was dropped.                 *)
(***************************************************************************)
EXTENDS Naturals, FiniteSets

CONSTANTS
    Sessions,
    MaxAttachment,  \* u64::MAX of AttachmentIds
    Nothing

ASSUME WorkspaceAssumption ==
    MaxAttachment \in Nat \ {0} /\ Nothing \notin Sessions \cup (Sessions \X Nat)

VARIABLES
    stored,      \* sessions in the repository
    known,        \* sessions that were ever stored
    running,     \* those with a live actor that runs or has jobs
    registered,  \* observers of this client, as pairs of session and attachment
    last,        \* AttachmentIds.last
    session,     \* WorkspaceController.session
    recovery,    \* the attachment its pending recovery has opened, or Nothing
    projection,  \* the session that is presented, or Nothing for a draft
    warning,     \* whether pending_warning is set
    op,          \* the operation of the controller that awaits a call
    clean        \* no call has failed and no future was dropped so far

server == <<stored, known, running>>
client == <<last, session, recovery, projection, warning, op, clean>>
workspaceVars == <<stored, known, running, registered, last, session, recovery, projection,
          warning, op, clean>>

Attachments == Sessions \X (1 .. MaxAttachment)
Idle == [at |-> "idle", attachment |-> Nothing]
Ended == [at |-> "ended", attachment |-> Nothing]
At(where, attachment) == [at |-> where, attachment |-> attachment]
Steps == {"idle", "ended", "detach", "reopen", "fallback", "ownFallback", "answered",
          "ownAnswered"}

WorkspaceTypeOK ==
    /\ stored \subseteq known /\ known \subseteq Sessions /\ running \subseteq stored
    /\ registered \subseteq Attachments /\ \A o \in registered : o[1] \in stored
    /\ last \in 0 .. MaxAttachment
    /\ session \in Attachments \cup {Nothing} /\ recovery \in Attachments \cup {Nothing}
    /\ session = Nothing => recovery = Nothing
    /\ projection \in Sessions \cup {Nothing}
    /\ warning \in BOOLEAN /\ clean \in BOOLEAN
    /\ op \in [at : Steps, attachment : Attachments \cup {Nothing}]

WorkspaceInit ==
    /\ stored \in SUBSET Sessions /\ known = stored /\ running \in SUBSET stored
    /\ registered = {} /\ last = 0 /\ session = Nothing
    /\ recovery = Nothing /\ projection = Nothing
    /\ warning = FALSE /\ op = Idle /\ clean = TRUE

-----------------------------------------------------------------------------
(* The backend and its other clients *)

StartRun(s) ==
    /\ s \in stored \ running
    /\ running' = running \cup {s}
    /\ UNCHANGED <<stored, known, registered, client>>

StopRun(s) ==
    /\ s \in running
    /\ running' = running \ {s}
    /\ UNCHANGED <<stored, known, registered, client>>

\* A deletion ends the actor whether it succeeds or not.
ActorEnds(s) ==
    /\ running' = running \ {s}
    /\ registered' = {o \in registered : o[1] # s}

OtherDeletes(s) ==
    /\ s \in stored /\ ActorEnds(s)
    /\ \/ stored' = stored \ {s}
       \/ UNCHANGED stored
    /\ UNCHANGED <<known, client>>

\* The receiving end lives in the attached session, its recovery or an answer.
Held(o) == o \in {session, recovery} \/ (o = op.attachment /\ op.at \in {"answered", "ownAnswered"})

\* An event is sent: the actor drops observers nobody reads, and one that has
\* no room.
Broadcast(s) ==
    /\ s \in stored
    /\ \E full \in SUBSET {o \in registered : o[1] = s} :
        registered' = {o \in registered : (o[1] = s => Held(o)) /\ o \notin full}
    /\ UNCHANGED <<server, client>>

-----------------------------------------------------------------------------
(* Calls *)

HasId == last < MaxAttachment
New(s) == <<s, last + 1>>
Register(o) == registered' = registered \cup {o} /\ last' = last + 1

\* Mutant: the snapshot of the new session is not presented.
InstallSession(o) == session' = o /\ UNCHANGED projection

Install(o) == session' = o /\ projection' = o[1]

\* Dropping the attached session drops the future of its recovery.
LetGo == recovery' = Nothing /\ clean' = (clean /\ recovery = Nothing)

\* Mutant: the replaced session is just dropped.
DropOld == op' = Idle

\* What follows an installation: the attachment that was replaced is detached.
DetachOld == op' = IF session = Nothing THEN Idle ELSE At("detach", session)

\* Mutant: the draft is presented only with the backend's answer.
ShowDraftLater == session' = Nothing /\ UNCHANGED projection

ShowDraft == session' = Nothing /\ projection' = Nothing

-----------------------------------------------------------------------------
(* Commands of the user, awaited by the event loop *)

NewDraft ==
    /\ op = Idle
    /\ ShowDraft /\ DetachOld /\ LetGo
    /\ UNCHANGED <<server, registered, last, warning>>

Switch(s) ==
    /\ op = Idle /\ s \in stored /\ HasId
    /\ Register(New(s)) /\ Install(New(s)) /\ DetachOld /\ LetGo
    /\ UNCHANGED <<server, warning>>

\* The first prompt of a draft; a run that cannot start leaves a stored session
\* and the draft.
Materialize(s) ==
    /\ op = Idle /\ projection = Nothing /\ s \in Sessions \ known
    /\ stored' = stored \cup {s} /\ known' = known \cup {s}
    /\ \/ /\ HasId /\ running' = running \cup {s}
          /\ Register(New(s)) /\ Install(New(s))
       \/ UNCHANGED <<running, registered, last, session, projection>>
    /\ UNCHANGED <<recovery, warning, op, clean>>

DetachReturns ==
    /\ op.at = "detach"
    /\ op' = Idle
    /\ \/ /\ registered' = registered \ {op.attachment} /\ UNCHANGED <<warning, clean>>
       \/ /\ warning' = TRUE /\ clean' = FALSE /\ UNCHANGED registered
    /\ UNCHANGED <<server, last, session, recovery, projection>>

\* delete_session: of the current session it falls back to what startup picks,
\* and if the deletion fails, it opens the session again.
DeleteSucceeds(s) ==
    /\ op = Idle /\ s \in stored
    /\ stored' = stored \ {s} /\ ActorEnds(s)
    /\ IF projection = s THEN ShowDraft /\ LetGo /\ op' = At("ownFallback", Nothing)
                         ELSE UNCHANGED <<session, recovery, projection, op, clean>>
    /\ UNCHANGED <<known, last, warning>>

DeleteFails(s) ==
    /\ op = Idle
    /\ \/ s \in stored /\ ActorEnds(s)
       \/ UNCHANGED <<running, registered>>
    /\ projection = s /\ op' = At("reopen", Nothing)
    /\ UNCHANGED <<stored, known, last, session, recovery, projection, warning, clean>>

Reopen ==
    /\ op.at = "reopen"
    /\ \/ /\ projection \in stored /\ HasId
          /\ Register(New(projection)) /\ Install(New(projection)) /\ DetachOld
          /\ LetGo /\ UNCHANGED warning
       \/ /\ warning' = TRUE /\ op' = Idle
          /\ UNCHANGED <<registered, last, session, recovery, projection, clean>>
    /\ UNCHANGED <<server>>

-----------------------------------------------------------------------------
(* next_update, dropped at every frame *)

TakeWarning ==
    /\ op = Idle /\ warning
    /\ warning' = FALSE
    /\ UNCHANGED <<server, registered, last, session, recovery, projection, op, clean>>

Polls == op = Idle /\ ~warning /\ session # Nothing

\* A broken stream is attached again, and then detached; any other failure ends
\* the program.  The future of a recovery outlives the one that polls it.
Recover ==
    /\ Polls /\ recovery = Nothing /\ session \notin registered /\ projection \in stored
    /\ \/ HasId /\ Register(New(projection)) /\ recovery' = New(projection) /\ UNCHANGED op
       \/ op' = Ended /\ UNCHANGED <<registered, last, recovery>>
    /\ UNCHANGED <<server, session, projection, warning, clean>>

Recovered ==
    /\ Polls /\ recovery # Nothing
    /\ registered' = registered \ {session}
    /\ Install(recovery) /\ recovery' = Nothing
    /\ UNCHANGED <<server, last, warning, op, clean>>

\* startup_fallback presents a draft before it asks the backend.
Deleted ==
    /\ Polls /\ recovery = Nothing /\ session[1] \notin stored
    /\ ShowDraft /\ op' = At("fallback", Nothing)
    /\ UNCHANGED <<server, registered, last, recovery, warning, clean>>

\* startup attaches to a running session of the project, if there is one.
StartupAnswers ==
    /\ op.at \in {"fallback", "ownFallback"}
    /\ LET done == IF op.at = "fallback" THEN "answered" ELSE "ownAnswered" IN
       \/ \E s \in running : HasId /\ Register(New(s)) /\ op' = At(done, New(s))
                             /\ UNCHANGED <<warning, clean>>
       \/ /\ running = {} /\ op' = At(done, Nothing) /\ UNCHANGED <<registered, last, warning, clean>>
       \/ /\ op' = At(done, Nothing) /\ warning' = TRUE /\ clean' = FALSE
          /\ UNCHANGED <<registered, last>>
    /\ UNCHANGED <<server, session, recovery, projection>>

FallbackReturns ==
    /\ op.at \in {"answered", "ownAnswered"}
    /\ IF op.attachment = Nothing THEN UNCHANGED <<session, projection>> ELSE Install(op.attachment)
    /\ op' = Idle
    /\ UNCHANGED <<server, registered, last, recovery, warning, clean>>

\* The sleep of the event loop's select! ends first and the future is dropped.
Frame ==
    /\ op.at \in {"fallback", "answered"}
    /\ op' = Idle /\ clean' = FALSE
    /\ UNCHANGED <<server, registered, last, session, recovery, projection, warning>>

-----------------------------------------------------------------------------
Environment ==
    \E s \in Sessions : StartRun(s) \/ StopRun(s) \/ OtherDeletes(s) \/ Broadcast(s)
User ==
    \/ NewDraft
    \/ \E s \in Sessions : Switch(s) \/ Materialize(s) \/ DeleteSucceeds(s) \/ DeleteFails(s)
Awaited == DetachReturns \/ Reopen \/ StartupAnswers \/ FallbackReturns
NextUpdate == TakeWarning \/ Recover \/ Recovered \/ Deleted

WorkspaceNext == Environment \/ User \/ Awaited \/ NextUpdate \/ Frame

WorkspaceSpec == WorkspaceInit /\ [][WorkspaceNext]_workspaceVars

\* A call is answered, and the event loop polls next_update between commands.
\* Commands disable it again and again, hence strong fairness; of each case by
\* itself, since a user who leaves a warning behind in every round of the loop
\* would have every poll return one.
LiveSpec ==
    /\ WorkspaceSpec /\ WF_workspaceVars(Awaited)
    /\ SF_workspaceVars(TakeWarning) /\ SF_workspaceVars(Recover)
    /\ SF_workspaceVars(Recovered) /\ SF_workspaceVars(Deleted)

-----------------------------------------------------------------------------
(* Properties *)

\* What is drawn belongs to what is attached, at every await at which a future
\* may be dropped: no session is presented that no updates come from.
ProjectionFollowsAttachment ==
    projection = IF session = Nothing THEN Nothing ELSE session[1]

\* Without failures, the backend counts this client exactly where it looks:
\* switching, deleting, recovering and falling back leave nothing attached.
RegistrationsAreExact ==
    clean /\ op = Idle => registered \subseteq {session, recovery}

\* A client never keeps presenting a session that is gone, or one that it gets
\* no updates of, although the waiting future is dropped again and again.
ClientSettles ==
    \A s \in Sessions :
        (projection = s /\ (s \notin stored \/ session \notin registered)) ~>
            (projection # s \/ session \in registered \/ op = Ended)

=============================================================================
