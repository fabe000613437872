--------------------------- MODULE BackendLifetime --------------------------
(***************************************************************************)
(* The life of one backend process (src/src/backend/): it accepts clients  *)
(* while its runtime is still initializing, counts activity, exits after   *)
(* an idle timeout unless something vetoes it, and shuts down in order.    *)
(*                                                                         *)
(* Everything runs on one thread: a step is what runs between two awaits.  *)
(* The serve loop and the connection tasks, the session manager, the       *)
(* actors and the job monitors are the actors of this model.  A session is *)
(* reduced to what decides the backend's life: a run, a job, unsaved state.*)
(* Actors go only when the backend stops; deletion is in SessionActor.     *)
(* The manager's mailbox is a FIFO: a detachment sent before Shutdown is   *)
(* answered before it.                                                     *)
(*                                                                         *)
(* Timing assumption: idle_timeout is positive (the configuration refuses  *)
(* zero), so a job monitor that was woken before the timer started runs    *)
(* before it fires; and a turn of the runtime that fires the timer has     *)
(* noticed the connections queued before it.                               *)
(***************************************************************************)
EXTENDS Naturals, FiniteSets

CONSTANTS
    Sessions,
    MaxConnection,   \* ConnectionId::MAX
    MaxBacklog,      \* connections queued on the listener
    MaxTitles,       \* title tasks in flight
    Fragile          \* sessions whose actor may panic

ASSUME BackendAssumption ==
    /\ MaxConnection \in Nat \ {0}
    /\ MaxBacklog \in Nat \ {0}
    /\ MaxTitles \in Nat /\ Fragile \subseteq Sessions

VARIABLES
    loop,        \* where run_backend is
    reason,      \* why the serve loop ended
    error,       \* shutdown_error is set
    signalled,   \* a termination signal was delivered
    socket,      \* the socket path is bound
    backlog,     \* connections queued in the kernel
    noticed,     \* the runtime knows the listener is readable
    next,        \* ConnectionIdAllocator.next
    conns,       \* the task of each connection
    attached,    \* connections that hold a session capability
    readiness,   \* BackendReadiness
    manager,     \* where the session manager is
    todo,        \* live actors a flush or shutdown has still to ask
    failed,      \* an actor refused
    waiter,      \* wait_for_idle
    changed,     \* the activity changed since the waiter looked
    live,        \* sessions with an actor
    stopping,    \* actors that were asked to shut down
    dead,        \* actors that panicked: the manager still holds their handle
    runs, jobs, dirty,
    tracked,     \* ActivityState.running_jobs: what the monitors reported
    generating,  \* ActivityState.title_tasks
    generated    \* titles the manager has not routed yet

process == <<loop, reason, error, signalled, socket>>
listener == <<backlog, noticed>>
clients == <<next, conns, attached>>
service == <<readiness, manager, todo, failed>>
idle == <<waiter, changed>>
work == <<live, stopping, dead, runs, jobs, dirty, tracked, generating, generated>>
vars == <<process, listener, clients, service, idle, work>>

Conns == 1 .. MaxConnection
Open == {c \in Conns : conns[c] = "open"}
\* ActivityState.connections.
Connections == {c \in Conns : conns[c] \in {"open", "cleaning"}}

TypeOK ==
    /\ loop \in {"serve", "flush", "manager", "join", "close", "unlink", "exited"}
    /\ reason \in {"none", "idle", "signal"}
    /\ error \in BOOLEAN /\ signalled \in BOOLEAN /\ socket \in BOOLEAN
    /\ backlog \in 0 .. MaxBacklog /\ noticed \in BOOLEAN
    /\ next \in 1 .. MaxConnection + 1
    /\ conns \in [Conns -> {"none", "open", "cleaning", "done", "failed", "joined"}]
    /\ attached \subseteq Open
    /\ readiness \in {"starting", "ready", "failed"}
    /\ manager \in {"none", "serving", "draining", "stopping", "lingering", "stopped"}
    /\ todo \subseteq live /\ failed \in BOOLEAN
    /\ waiter \in {"pending", "new", "busy", "timing", "fired"}
    /\ changed \in BOOLEAN
    /\ live \subseteq Sessions /\ stopping \subseteq live /\ dead \subseteq live
    /\ runs \subseteq live /\ jobs \subseteq live /\ dirty \subseteq live
    /\ tracked \subseteq live
    /\ generating \in 0 .. MaxTitles /\ generated \in 0 .. MaxTitles

Init ==
    /\ loop = "serve" /\ reason = "none" /\ error = FALSE
    /\ signalled = FALSE /\ socket = TRUE
    /\ backlog = 0 /\ noticed = FALSE
    /\ next = 1 /\ conns = [c \in Conns |-> "none"] /\ attached = {}
    /\ readiness = "starting" /\ manager = "none" /\ todo = {} /\ failed = FALSE
    /\ waiter = "pending" /\ changed = FALSE
    /\ live = {} /\ stopping = {} /\ dead = {} /\ runs = {} /\ jobs = {} /\ dirty = {}
    /\ tracked = {} /\ generating = 0 /\ generated = 0

-----------------------------------------------------------------------------
(***************************************************************************)
(* The serve loop.                                                         *)
(***************************************************************************)
IsIdle == Connections = {} /\ runs = {} /\ tracked = {} /\ generating = 0

\* The loop breaks: clients are refused and the listener is dropped, which
\* resets what it still had queued.
LeaveServing(why, err) ==
    /\ loop' = IF manager = "none" THEN "join" ELSE "manager"
    /\ reason' = why /\ error' = err
    /\ readiness' = "failed"
    /\ backlog' = 0 /\ noticed' = FALSE
    /\ UNCHANGED <<signalled, socket>>

\* retain_connection: the task is counted before it is spawned.  With no
\* identifier left, the loop ends with an error.
Retain ==
    IF next <= MaxConnection
    THEN /\ conns' = [conns EXCEPT ![next] = "open"]
         /\ next' = next + 1
         /\ changed' = TRUE
         /\ backlog' = backlog - 1 /\ noticed' = (backlog > 1)
         /\ loop' = "serve"
         /\ UNCHANGED <<reason, error, signalled, socket, readiness>>
    ELSE /\ LeaveServing("none", TRUE)
         /\ UNCHANGED <<next, conns, changed>>

Accept ==
    /\ loop = "serve" /\ backlog > 0 /\ noticed
    /\ Retain
    /\ UNCHANGED <<attached, manager, todo, failed, waiter, work>>

AcceptFails ==
    /\ loop = "serve" /\ backlog > 0 /\ noticed
    /\ LeaveServing("none", TRUE)
    /\ UNCHANGED <<clients, manager, todo, failed, idle, work>>

Initialized ==
    /\ loop = "serve" /\ readiness = "starting"
    /\ manager' = "serving" /\ readiness' = "ready" /\ waiter' = "new"
    /\ UNCHANGED <<process, listener, clients, todo, failed, changed, work>>

InitializationFails ==
    /\ loop = "serve" /\ readiness = "starting"
    /\ LeaveServing("none", TRUE)
    /\ UNCHANGED <<clients, manager, todo, failed, idle, work>>

ReceiveSignal ==
    /\ loop = "serve" /\ signalled
    /\ LeaveServing("signal", FALSE)
    /\ UNCHANGED <<clients, manager, todo, failed, idle, work>>

Join(c) ==
    /\ loop = "serve" /\ conns[c] = "done"
    /\ conns' = [conns EXCEPT ![c] = "joined"]
    /\ UNCHANGED <<process, listener, next, attached, service, idle, work>>

\* A cleanup that failed ends the loop.
JoinFailed(c) ==
    /\ loop = "serve" /\ conns[c] = "failed"
    /\ conns' = [conns EXCEPT ![c] = "joined"]
    /\ LeaveServing("none", TRUE)
    /\ UNCHANGED <<next, attached, manager, todo, failed, idle, work>>

\* Mutant: the waiter does not look again after a change.
LookOnce ==
    /\ loop = "serve" /\ waiter = "new"
    /\ waiter' = IF IsIdle THEN "timing" ELSE "busy"
    /\ changed' = FALSE
    /\ UNCHANGED <<process, listener, clients, service, work>>

\* wait_for_idle looks at the activity, at first and after every change.
Look ==
    /\ loop = "serve"
    /\ waiter = "new" \/ (waiter \in {"busy", "timing"} /\ changed)
    /\ waiter' = IF IsIdle THEN "timing" ELSE "busy"
    /\ changed' = FALSE
    /\ UNCHANGED <<process, listener, clients, service, work>>

\* The idle deadline, up to the flush: a connection that is already queued
\* comes first.
Deadline ==
    /\ loop = "serve" /\ waiter = "timing" /\ ~changed /\ tracked = jobs
    /\ IF backlog > 0
       THEN Retain /\ waiter' = "new" /\ UNCHANGED <<todo, failed>>
       ELSE /\ loop' = "flush" /\ todo' = live /\ failed' = FALSE /\ waiter' = "fired"
            /\ UNCHANGED <<clients, changed, listener, readiness, reason, error,
                           signalled, socket>>
    /\ UNCHANGED <<attached, manager, work>>

\* The manager asks one actor after the other; the loop polls nothing else.
Flush(s, ok) ==
    /\ loop = "flush" /\ s \in todo
    /\ IF s \in dead THEN ~ok ELSE s \in dirty \/ ok
    /\ todo' = todo \ {s}
    /\ dirty' = IF ok THEN dirty \ {s} ELSE dirty
    /\ failed' = (failed \/ ~ok)
    /\ UNCHANGED <<process, listener, clients, readiness, manager, idle, live, stopping,
                   dead, runs, jobs, tracked, generating, generated>>

\* A veto: wait for another whole timeout.
ServeOn ==
    /\ loop' = "serve" /\ waiter' = "new"
    /\ UNCHANGED <<reason, error, signalled, socket, readiness, listener,
                   next, conns, changed>>

Flushed == loop = "flush" /\ todo = {}

\* Mutant: the decision does not look at the listener again.
DecideWithoutQueue ==
    /\ Flushed
    /\ \/ (failed \/ changed) /\ ServeOn
       \/ /\ ~failed /\ ~changed
          /\ LeaveServing("idle", FALSE)
          /\ UNCHANGED <<next, conns, idle>>
    /\ UNCHANGED <<attached, manager, todo, failed, work>>

\* After the flush: exit only if it saved everything, nothing changed, and
\* no connection is known to be queued.
Decide ==
    /\ Flushed
    /\ \/ (failed \/ changed) /\ ServeOn
       \/ ~failed /\ ~changed /\ backlog > 0 /\ noticed /\ Retain /\ waiter' = "new"
       \/ /\ ~failed /\ ~changed /\ ~(backlog > 0 /\ noticed)
          /\ LeaveServing("idle", FALSE)
          /\ UNCHANGED <<next, conns, idle>>
    /\ UNCHANGED <<attached, manager, todo, failed, work>>

-----------------------------------------------------------------------------
(***************************************************************************)
(* The orderly shutdown after the loop.  The error kept is the first one;  *)
(* here, that there is one.                                                *)
(***************************************************************************)
\* SessionManager.handle_command(Shutdown): no detachment is queued before it.
BeginShutdown ==
    /\ loop = "manager" /\ manager = "serving"
    /\ \A c \in Conns : conns[c] # "cleaning"
    /\ manager' = "draining"
    /\ UNCHANGED <<process, listener, clients, readiness, todo, failed, idle, work>>

\* drain_title_tasks: every title is routed before the actors stop.
TitlesRouted == generating = 0 /\ generated = 0

Drained ==
    /\ manager = "draining" /\ TitlesRouted
    /\ manager' = "stopping" /\ todo' = live /\ failed' = FALSE
    /\ UNCHANGED <<process, listener, clients, readiness, idle, work>>

\* Mutant: clear_activity is forgotten.
StopActorKeepsActivity(s) ==
    /\ manager = "stopping" /\ s \in todo \ dead
    /\ todo' = todo \ {s}
    /\ live' = live \ {s} /\ stopping' = stopping \ {s}
    /\ jobs' = jobs \ {s} /\ dirty' = dirty \ {s}
    /\ UNCHANGED <<process, listener, clients, readiness, manager, failed, idle, dead,
                   runs, tracked, generating, generated>>

\* SessionActor.shutdown: flush, then stop the jobs; an actor that cannot
\* do both stays and refuses new runs.  One that panicked answers nothing.
StopActor(s) ==
    /\ manager = "stopping" /\ s \in todo \ dead
    /\ todo' = todo \ {s}
    /\ live' = live \ {s} /\ stopping' = stopping \ {s}
    /\ runs' = runs \ {s} /\ jobs' = jobs \ {s} /\ tracked' = tracked \ {s}
    /\ dirty' = dirty \ {s}
    /\ UNCHANGED <<process, listener, clients, readiness, manager, failed, idle, dead,
                   generating, generated>>

StopActorFails(s, saved) ==
    /\ manager = "stopping" /\ s \in todo
    /\ s \in dead \/ IF saved THEN s \in jobs ELSE s \in dirty
    /\ s \in dead => ~saved
    /\ todo' = todo \ {s} /\ failed' = TRUE
    /\ stopping' = stopping \cup {s}
    /\ dirty' = IF saved THEN dirty \ {s} ELSE dirty
    /\ UNCHANGED <<process, listener, clients, readiness, manager, idle, live, dead,
                   runs, jobs, tracked, generating, generated>>

\* Mutant: a shutdown that failed is not reported.
ShutdownAnswersQuietly ==
    /\ manager = "stopping" /\ todo = {}
    /\ manager' = IF failed /\ loop = "manager" THEN "lingering" ELSE "stopped"
    /\ loop' = "join"
    /\ UNCHANGED <<reason, error, signalled, socket, listener, clients, readiness, todo,
                   failed, idle, work>>

\* The manager answers and, if every actor stopped, ends.  Otherwise it goes
\* on serving until its mailbox is closed.
ShutdownAnswers ==
    /\ manager = "stopping" /\ todo = {}
    /\ manager' = IF failed /\ loop = "manager" THEN "lingering" ELSE "stopped"
    /\ loop' = "join"
    /\ error' = (error \/ failed)
    /\ UNCHANGED <<reason, signalled, socket, listener, clients, readiness, todo,
                   failed, idle, work>>

\* No handle is left: the last session capability is gone.
MailboxCloses ==
    /\ manager = "lingering" /\ attached = {}
    /\ manager' = "draining"
    /\ UNCHANGED <<process, listener, clients, readiness, todo, failed, idle, work>>

\* SessionManagerLifecycle.join, then the pending credential refreshes.
ManagerJoined ==
    /\ loop = "join" /\ manager \in {"none", "stopped"}
    /\ loop' = "close"
    /\ UNCHANGED <<reason, error, signalled, socket, listener, clients, service, idle, work>>

\* close_and_join_connections has joined every task; unlink_bound_socket.
ConnectionsJoined ==
    /\ loop = "close" /\ Connections = {}
    /\ loop' = "unlink"
    /\ conns' = [c \in Conns |-> IF conns[c] \in {"done", "failed"} THEN "joined" ELSE conns[c]]
    /\ error' = (error \/ \E c \in Conns : conns[c] = "failed")
    /\ UNCHANGED <<reason, signalled, socket, listener, next, attached, service,
                   idle, work>>

Unlink(ok) ==
    /\ loop = "unlink"
    /\ loop' = "exited"
    /\ socket' = ~ok /\ error' = (error \/ ~ok)
    /\ UNCHANGED <<reason, signalled, listener, clients, service, idle, work>>

-----------------------------------------------------------------------------
(***************************************************************************)
(* The connection tasks, and the clients behind them.                      *)
(***************************************************************************)
Arrive ==
    /\ loop \in {"serve", "flush"} /\ backlog < MaxBacklog
    /\ backlog' = backlog + 1
    /\ UNCHANGED <<process, noticed, clients, service, idle, work>>

Notice ==
    /\ backlog > 0 /\ ~noticed
    /\ noticed' = TRUE
    /\ UNCHANGED <<process, backlog, clients, service, idle, work>>

\* An open or a materialization answered with a session capability.
Attach(c, s) ==
    /\ c \in Open /\ readiness = "ready" /\ manager = "serving" /\ loop # "flush"
    /\ attached' = attached \cup {c} /\ live' = live \cup {s}
    /\ UNCHANGED <<process, listener, next, conns, service, idle, stopping, dead, runs, jobs,
                   dirty, tracked, generating, generated>>

\* The RPC system ends, because the client left or close_and_join_connections
\* hung up.  The task detaches its observers while there is a manager.
RpcEnds(c) ==
    /\ c \in Open
    /\ conns' = [conns EXCEPT ![c] = IF readiness = "ready" THEN "cleaning" ELSE "done"]
    /\ attached' = attached \ {c}
    /\ changed' = (changed \/ readiness # "ready")
    /\ UNCHANGED <<process, listener, next, service, waiter, work>>

HangUp(c) == loop = "close" /\ RpcEnds(c)

\* The detachment fails if some actor cannot be asked.
Detached(c) ==
    /\ conns[c] = "cleaning" /\ manager = "serving"
    /\ conns' = [conns EXCEPT ![c] = IF dead = {} THEN "done" ELSE "failed"]
    /\ changed' = TRUE
    /\ UNCHANGED <<process, listener, next, attached, service, waiter, work>>

-----------------------------------------------------------------------------
(***************************************************************************)
(* The sessions, and the signal.                                           *)
(***************************************************************************)
Running == loop # "exited"

StartRun(s) ==
    /\ Running /\ attached # {} /\ s \in live \ (runs \cup stopping \cup dead)
    /\ runs' = runs \cup {s} /\ changed' = TRUE
    /\ UNCHANGED <<process, listener, clients, service, waiter, live, stopping, dead, jobs,
                   dirty, tracked, generating, generated>>

\* Its answer may fail to be saved.
RunEnds(s, saved) ==
    /\ Running /\ s \in runs \ dead
    /\ runs' = runs \ {s} /\ changed' = TRUE
    /\ dirty' = IF saved THEN dirty ELSE dirty \cup {s}
    /\ UNCHANGED <<process, listener, clients, service, waiter, live, stopping, dead, jobs,
                   tracked, generating, generated>>

\* A setting changed by an attached client, not saved.
ChangeUnsaved(s) ==
    /\ Running /\ attached # {} /\ s \in live \ (stopping \cup dead)
    /\ dirty' = dirty \cup {s}
    /\ UNCHANGED <<process, listener, clients, service, idle, live, stopping, dead, runs, jobs,
                   tracked, generating, generated>>

StartJob(s) ==
    /\ Running /\ s \in runs \ (jobs \cup stopping \cup dead)
    /\ jobs' = jobs \cup {s}
    /\ UNCHANGED <<process, listener, clients, service, idle, live, stopping, dead, runs,
                   dirty, tracked, generating, generated>>

JobEnds(s) ==
    /\ Running /\ s \in jobs
    /\ jobs' = jobs \ {s}
    /\ UNCHANGED <<process, listener, clients, service, idle, live, stopping, dead, runs,
                   dirty, tracked, generating, generated>>

\* The job monitor of an actor copies the registry's count.
Monitor(s) ==
    /\ Running /\ s \in live /\ (s \in tracked) # (s \in jobs)
    /\ tracked' = (tracked \ {s}) \cup (jobs \cap {s})
    /\ changed' = TRUE
    /\ UNCHANGED <<process, listener, clients, service, waiter, live, stopping, dead, runs, jobs,
                   dirty, generating, generated>>

\* materialize_and_submit starts a title; its guard is dropped before the
\* manager gets the answer.
BeginTitle ==
    /\ loop = "serve" /\ manager = "serving" /\ attached # {}
    /\ generating + generated < MaxTitles
    /\ generating' = generating + 1 /\ changed' = TRUE
    /\ UNCHANGED <<process, listener, clients, service, waiter, live, stopping, dead, runs, jobs,
                   dirty, tracked, generated>>

TitleEnds ==
    /\ Running /\ generating > 0
    /\ generating' = generating - 1 /\ generated' = generated + 1 /\ changed' = TRUE
    /\ UNCHANGED <<process, listener, clients, service, waiter, live, stopping, dead, runs, jobs,
                   dirty, tracked>>

\* route_title_completion; the actor may fail to save the title.
RouteTitle(s, saved) ==
    /\ loop # "flush" /\ manager \in {"serving", "draining", "lingering"} /\ generated > 0
    /\ s \in live
    /\ generated' = generated - 1
    /\ s \in dead => saved
    /\ dirty' = IF saved THEN dirty ELSE dirty \cup {s}
    /\ UNCHANGED <<process, listener, clients, service, idle, live, stopping, dead, runs, jobs,
                   tracked, generating>>

\* An actor's task panics, with whatever it had not saved; its activity stays
\* counted.
Panic(s) ==
    /\ Running /\ s \in (Fragile \cap live) \ dead
    /\ dead' = dead \cup {s}
    /\ UNCHANGED <<process, listener, clients, service, idle, live, stopping, runs, jobs,
                   dirty, tracked, generating, generated>>

Signal ==
    /\ Running /\ ~signalled
    /\ signalled' = TRUE
    /\ UNCHANGED <<loop, reason, error, socket, listener, clients, service, idle, work>>

Exited == loop = "exited" /\ UNCHANGED vars

-----------------------------------------------------------------------------
Serve ==
    \/ Accept \/ AcceptFails \/ Initialized \/ InitializationFails \/ ReceiveSignal
    \/ \E c \in Conns : Join(c) \/ JoinFailed(c)
    \/ Look \/ Deadline
    \/ \E s \in Sessions, ok \in BOOLEAN : Flush(s, ok)
    \/ Decide

Stop ==
    \/ BeginShutdown \/ Drained \/ ShutdownAnswers \/ MailboxCloses
    \/ \E s \in Sessions : StopActor(s) \/ \E saved \in BOOLEAN : StopActorFails(s, saved)
    \/ ManagerJoined \/ ConnectionsJoined
    \/ \E ok \in BOOLEAN : Unlink(ok)

ConnectionTasks ==
    \/ Arrive \/ Notice
    \/ \E c \in Conns : RpcEnds(c) \/ Detached(c) \/ \E s \in Sessions : Attach(c, s)

SessionWork ==
    \/ \E s \in Sessions :
          \/ StartRun(s) \/ ChangeUnsaved(s) \/ StartJob(s) \/ JobEnds(s) \/ Monitor(s) \/ Panic(s)
          \/ \E saved \in BOOLEAN : RunEnds(s, saved) \/ RouteTitle(s, saved)
    \/ BeginTitle \/ TitleEnds

Next == Serve \/ Stop \/ ConnectionTasks \/ SessionWork \/ Signal \/ Exited

Spec == Init /\ [][Next]_vars

\* The backend's own tasks go on; the select of the loop is fair between its
\* arms.  Nothing is assumed of clients, runs, jobs or the store.
Fairness ==
    /\ SF_vars(ReceiveSignal) /\ WF_vars(Look) /\ WF_vars(Deadline) /\ WF_vars(Decide)
    /\ WF_vars(\E s \in Sessions, ok \in BOOLEAN : Flush(s, ok))
    /\ WF_vars(BeginShutdown) /\ WF_vars(Drained) /\ WF_vars(ShutdownAnswers)
    /\ WF_vars(\E s \in Sessions : StopActor(s) \/ \E saved \in BOOLEAN : StopActorFails(s, saved))
    /\ WF_vars(MailboxCloses) /\ WF_vars(ManagerJoined) /\ WF_vars(ConnectionsJoined)
    /\ WF_vars(\E ok \in BOOLEAN : Unlink(ok))
    /\ \A c \in Conns : WF_vars(HangUp(c)) /\ WF_vars(Detached(c))
    /\ \A s \in Sessions : WF_vars(Monitor(s))
    /\ WF_vars(TitleEnds)
    /\ WF_vars(\E s \in Sessions, saved \in BOOLEAN : RouteTitle(s, saved))

FairSpec == Spec /\ Fairness

-----------------------------------------------------------------------------
(***************************************************************************)
(* Properties.                                                             *)
(***************************************************************************)
\* Automatic exit is decided only when nobody is connected or known to be
\* queued, nothing runs, and nothing is unsaved: it never cuts work off.
IdleExitIsQuiet ==
    [][reason' = "idle" /\ reason # "idle" =>
          /\ Connections = {} /\ ~(backlog > 0 /\ noticed)
          /\ runs = {} /\ jobs = {} /\ generating = 0 /\ dirty = {}]_vars

\* An exit without an error left nothing behind: every session saved, every
\* run, job and title over, every connection joined, the socket removed.
CleanExitLeavesNothing ==
    loop = "exited" /\ ~error =>
        /\ live = {} /\ dirty = {} /\ jobs = {} /\ generating + generated = 0
        /\ \A c \in Conns : conns[c] \in {"none", "joined"}
        /\ ~socket

\* Nobody is connected or queued and nothing runs.
Quiet ==
    /\ readiness # "starting" /\ backlog = 0
    /\ Connections = {} /\ runs = {} /\ jobs = {} /\ generating = 0

\* A backend that stays quiet with everything saved and no broken actor
\* exits.
QuietBackendExits == <>[](Quiet /\ dirty \cup dead = {}) => <>(loop = "exited")

=============================================================================
