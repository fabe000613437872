----------------------- MODULE BackendLifetimeProofs -----------------------
(***************************************************************************)
(* Theorems about BackendLifetime for any sessions, connections, backlog   *)
(* and title tasks.                                                        *)
(*                                                                         *)
(* The inductive invariant is LifetimeInv.  Its first part is what the     *)
(* serve loop may conclude from a waiter that has not been woken: that the *)
(* backend is idle, and during the flush that what was unsaved has still   *)
(* to be asked.  Its second part follows the manager through the shutdown: *)
(* an actor that refuses leaves an error, and without one nothing is left. *)
(***************************************************************************)
EXTENDS BackendLifetime, FiniteSetTheorems, TLAPS

-----------------------------------------------------------------------------
(***************************************************************************)
(* The inductive invariant.                                                *)
(***************************************************************************)
Serving == loop \in {"serve", "flush"}

\* The steps of the manager fit the steps of the loop.
PhaseInv ==
    /\ manager \in {"serving", "none"} \/ ~Serving
    /\ loop \in {"flush", "manager"} => manager # "none"
    /\ loop = "flush" => waiter = "fired" /\ manager = "serving"
    /\ waiter = "fired" => ~(loop = "serve")
    /\ loop \in {"close", "unlink", "exited"} => manager \in {"none", "stopped"}
    /\ manager = "none" => readiness # "ready" /\ waiter = "pending"
    /\ Serving /\ readiness = "ready" => manager = "serving"

\* A waiter that measures the idle time and was not woken: the backend is idle.
\* During the flush no job runs either, and whatever is unsaved is an actor that
\* has still to be asked, or that refused.
IdleInv ==
    /\ Serving /\ waiter \in {"timing", "fired"} /\ ~changed => IsIdle
    /\ loop = "flush" /\ ~changed => jobs = {} /\ (~failed => dirty \subseteq todo)

\* No title is under way once the actors stop, and an actor that is left has
\* still to be asked, or refused.
DrainInv ==
    /\ manager \in {"none", "stopping", "stopped"} => TitlesRouted
    /\ manager = "none" => live = {}
    /\ manager = "stopping" /\ ~failed => live \subseteq todo
    /\ loop = "join" => manager \in {"none", "stopped"} \/ error
    /\ manager = "stopped" /\ ~error => live = {}
    /\ generating + generated <= MaxTitles

\* Connections are joined and the socket is removed before a clean exit.
CloseInv ==
    /\ loop \in {"unlink", "exited"} => \A c \in Conns : conns[c] \in {"none", "joined"}
    /\ loop = "exited" /\ ~error => ~socket

LifetimeInv == TypeOK /\ PhaseInv /\ IdleInv /\ DrainInv /\ CloseInv

\* What leaving the loop and retaining a connection change keeps its types.
LEMMA LoopTypes ==
    ASSUME TypeOK
    PROVE  LET Typed == /\ loop' \in {"serve", "flush", "manager", "join", "close", "unlink", "exited"}
                        /\ reason' \in {"none", "idle", "signal"}
                        /\ error' \in BOOLEAN /\ signalled' \in BOOLEAN /\ socket' \in BOOLEAN
                        /\ backlog' \in 0 .. MaxBacklog /\ noticed' \in BOOLEAN
                        /\ readiness' \in {"starting", "ready", "failed"}
           IN  /\ \A why \in {"none", "idle", "signal"}, err \in BOOLEAN :
                     LeaveServing(why, err) => Typed
               /\ Retain /\ backlog > 0 =>
                    /\ Typed
                    /\ next' \in 1 .. MaxConnection + 1
                    /\ conns' \in [Conns -> {"none", "open", "cleaning", "done", "failed", "joined"}]
                    /\ attached \subseteq {c \in Conns : conns'[c] = "open"}
                    /\ changed' \in BOOLEAN
<1> DEFINE Typed == /\ loop' \in {"serve", "flush", "manager", "join", "close", "unlink", "exited"}
                    /\ reason' \in {"none", "idle", "signal"}
                    /\ error' \in BOOLEAN /\ signalled' \in BOOLEAN /\ socket' \in BOOLEAN
                    /\ backlog' \in 0 .. MaxBacklog /\ noticed' \in BOOLEAN
                    /\ readiness' \in {"starting", "ready", "failed"}
<1>1. ASSUME NEW why \in {"none", "idle", "signal"}, NEW err \in BOOLEAN, LeaveServing(why, err)
      PROVE  Typed
  <2>1. 0 \in 0 .. MaxBacklog
    BY BackendAssumption
  <2>2. loop' \in {"join", "manager"}
    BY <1>1 DEF LeaveServing
  <2> QED BY <1>1, <2>1, <2>2 DEF LeaveServing, TypeOK
<1>2. ASSUME Retain, backlog > 0, next <= MaxConnection
      PROVE  /\ Typed
             /\ next' \in 1 .. MaxConnection + 1
             /\ conns' \in [Conns -> {"none", "open", "cleaning", "done", "failed", "joined"}]
             /\ attached \subseteq {c \in Conns : conns'[c] = "open"}
             /\ changed' \in BOOLEAN
  <2>1. backlog - 1 \in 0 .. MaxBacklog /\ next + 1 \in 1 .. MaxConnection + 1
    BY <1>2, BackendAssumption DEF TypeOK
  <2>2. conns' = [conns EXCEPT ![next] = "open"]
    BY <1>2 DEF Retain
  <2>3. conns' \in [Conns -> {"none", "open", "cleaning", "done", "failed", "joined"}]
    BY <2>2 DEF TypeOK
  <2>4. attached \subseteq {c \in Conns : conns'[c] = "open"}
    BY <2>2 DEF TypeOK, Open
  <2> QED BY <1>2, <2>1, <2>3, <2>4 DEF Retain, TypeOK
<1>3. ASSUME Retain, backlog > 0, ~(next <= MaxConnection)
      PROVE  /\ Typed /\ next' = next /\ conns' = conns /\ changed' = changed
  BY <1>1, <1>3 DEF Retain
<1>4. /\ next \in 1 .. MaxConnection + 1 /\ changed \in BOOLEAN
      /\ conns \in [Conns -> {"none", "open", "cleaning", "done", "failed", "joined"}]
      /\ attached \subseteq {c \in Conns : conns[c] = "open"}
  BY DEF TypeOK, Open
<1> QED BY <1>1, <1>2, <1>3, <1>4

\* Every step keeps the types.
LEMMA TypeStep ==
    ASSUME TypeOK, generating + generated <= MaxTitles, [Next]_vars
    PROVE  TypeOK'
<1> USE DEF process, listener, clients, service, idle, work, TypeOK, Conns, Open
<1>1. CASE Accept
  BY <1>1, LoopTypes DEF Accept
<1>2. CASE AcceptFails
  BY <1>2, LoopTypes DEF AcceptFails
<1>3. CASE Initialized
  BY <1>3, BackendAssumption DEF Initialized
<1>4. CASE InitializationFails
  BY <1>4, LoopTypes DEF InitializationFails
<1>5. CASE ReceiveSignal
  BY <1>5, LoopTypes DEF ReceiveSignal
<1>6. ASSUME NEW c \in Conns, Join(c) PROVE TypeOK'
  BY <1>6, BackendAssumption DEF Join
<1>7. ASSUME NEW c \in Conns, JoinFailed(c) PROVE TypeOK'
  BY <1>7, LoopTypes DEF JoinFailed
<1>8. CASE Look
  BY ZenonT(60), <1>8, BackendAssumption DEF Look
<1>9. CASE Deadline
  <2>1. CASE backlog > 0
    BY <1>9, <2>1, LoopTypes DEF Deadline
  <2>2. CASE ~(backlog > 0)
    BY ZenonT(60), <1>9, <2>2 DEF Deadline
  <2> QED BY <2>1, <2>2
<1>10. ASSUME NEW s \in Sessions, NEW ok \in BOOLEAN, Flush(s, ok) PROVE TypeOK'
  BY <1>10, BackendAssumption DEF Flush
<1>11. CASE Decide
  <2>1. CASE ServeOn
    BY <1>11, <2>1 DEF Decide, ServeOn
  <2>2. CASE backlog > 0 /\ Retain /\ waiter' = "new"
    BY <1>11, <2>2, LoopTypes DEF Decide
  <2>3. CASE LeaveServing("idle", FALSE) /\ UNCHANGED <<next, conns, idle>>
    BY <1>11, <2>3, LoopTypes DEF Decide
  <2> QED BY <1>11, <2>1, <2>2, <2>3 DEF Decide
<1>12. CASE BeginShutdown
  BY <1>12, BackendAssumption DEF BeginShutdown
<1>13. CASE Drained
  <2>1. /\ manager' = "stopping" /\ todo' = live /\ failed' = FALSE
        /\ UNCHANGED <<process, listener, clients, readiness, idle, work>>
    BY <1>13 DEF Drained
  <2>2. todo' \subseteq live' /\ failed' \in BOOLEAN
    BY <2>1
  <2> QED BY <2>1, <2>2
<1>14. CASE ShutdownAnswers
  BY <1>14, BackendAssumption DEF ShutdownAnswers
<1>15. CASE MailboxCloses
  BY <1>15, BackendAssumption DEF MailboxCloses
<1>16. ASSUME NEW s \in Sessions, StopActor(s) PROVE TypeOK'
  BY <1>16, BackendAssumption DEF StopActor
<1>17. ASSUME NEW s \in Sessions, NEW ok \in BOOLEAN, StopActorFails(s, ok) PROVE TypeOK'
  BY <1>17, BackendAssumption DEF StopActorFails
<1>18. CASE ManagerJoined
  BY <1>18, BackendAssumption DEF ManagerJoined
<1>19. CASE ConnectionsJoined
  BY <1>19, BackendAssumption DEF ConnectionsJoined
<1>20. ASSUME NEW ok \in BOOLEAN, Unlink(ok) PROVE TypeOK'
  BY <1>20, BackendAssumption DEF Unlink
<1>21. CASE Arrive
  BY <1>21, BackendAssumption DEF Arrive
<1>22. CASE Notice
  BY <1>22, BackendAssumption DEF Notice
<1>23. ASSUME NEW c \in Conns, RpcEnds(c) PROVE TypeOK'
  BY <1>23, BackendAssumption DEF RpcEnds, Open
<1>24. ASSUME NEW c \in Conns, Detached(c) PROVE TypeOK'
  BY <1>24, BackendAssumption DEF Detached
<1>25. ASSUME NEW c \in Conns, NEW s \in Sessions, Attach(c, s) PROVE TypeOK'
  BY <1>25, BackendAssumption DEF Attach, Open
<1>26. ASSUME NEW s \in Sessions, StartRun(s) PROVE TypeOK'
  BY <1>26, BackendAssumption DEF StartRun
<1>27. ASSUME NEW s \in Sessions, ChangeUnsaved(s) PROVE TypeOK'
  BY <1>27, BackendAssumption DEF ChangeUnsaved
<1>28. ASSUME NEW s \in Sessions, StartJob(s) PROVE TypeOK'
  BY <1>28, BackendAssumption DEF StartJob
<1>29. ASSUME NEW s \in Sessions, JobEnds(s) PROVE TypeOK'
  BY <1>29, BackendAssumption DEF JobEnds
<1>30. ASSUME NEW s \in Sessions, Monitor(s) PROVE TypeOK'
  BY <1>30, BackendAssumption DEF Monitor
<1>31. ASSUME NEW s \in Sessions, Panic(s) PROVE TypeOK'
  BY <1>31, BackendAssumption DEF Panic
<1>32. ASSUME NEW s \in Sessions, NEW ok \in BOOLEAN, RunEnds(s, ok) PROVE TypeOK'
  BY <1>32, BackendAssumption DEF RunEnds
<1>33. ASSUME NEW s \in Sessions, NEW ok \in BOOLEAN, RouteTitle(s, ok) PROVE TypeOK'
  BY <1>33, BackendAssumption DEF RouteTitle
<1>34. CASE BeginTitle
  BY <1>34, BackendAssumption DEF BeginTitle
<1>35. CASE TitleEnds
  BY <1>35, BackendAssumption DEF TitleEnds
<1>36. CASE Signal
  BY <1>36, BackendAssumption DEF Signal
<1>37. CASE Exited
  BY <1>37, BackendAssumption DEF Exited, vars
<1>38. CASE UNCHANGED vars
  BY <1>38 DEF vars
<1> QED
  BY <1>1, <1>2, <1>3, <1>4, <1>5, <1>6, <1>7, <1>8, <1>9, <1>10, <1>11,
     <1>12, <1>13, <1>14, <1>15, <1>16, <1>17, <1>18, <1>19, <1>20, <1>21,
     <1>22, <1>23, <1>24, <1>25, <1>26, <1>27, <1>28, <1>29, <1>30, <1>31,
     <1>32, <1>33, <1>34, <1>35, <1>36, <1>37, <1>38
  DEF Next, Serve, Stop, ConnectionTasks, SessionWork

\* Every step keeps the phases.
LEMMA PhaseStep ==
    ASSUME TypeOK, PhaseInv, [Next]_vars
    PROVE  PhaseInv'
<1> USE DEF process, listener, clients, service, idle, work, PhaseInv, Serving
<1>1. CASE Accept
  BY <1>1 DEF Accept, Retain, LeaveServing
<1>2. CASE AcceptFails
  BY <1>2 DEF AcceptFails, LeaveServing
<1>3. CASE Initialized
  BY <1>3 DEF Initialized
<1>4. CASE InitializationFails
  BY <1>4 DEF InitializationFails, LeaveServing
<1>5. CASE ReceiveSignal
  BY <1>5 DEF ReceiveSignal, LeaveServing
<1>6. ASSUME NEW c \in Conns, Join(c) PROVE PhaseInv'
  BY <1>6 DEF Join
<1>7. ASSUME NEW c \in Conns, JoinFailed(c) PROVE PhaseInv'
  BY <1>7 DEF JoinFailed, LeaveServing
<1>8. CASE Look
  BY <1>8 DEF Look
<1>9. CASE Deadline
  BY <1>9 DEF Deadline, Retain, LeaveServing
<1>10. ASSUME NEW s \in Sessions, NEW ok \in BOOLEAN, Flush(s, ok) PROVE PhaseInv'
  BY <1>10 DEF Flush
<1>11. CASE Decide
  BY <1>11 DEF Decide, Flushed, ServeOn, Retain, LeaveServing
<1>12. CASE BeginShutdown
  BY <1>12 DEF BeginShutdown
<1>13. CASE Drained
  BY <1>13 DEF Drained
<1>14. CASE ShutdownAnswers
  BY <1>14 DEF ShutdownAnswers
<1>15. CASE MailboxCloses
  BY <1>15 DEF MailboxCloses
<1>16. ASSUME NEW s \in Sessions, StopActor(s) PROVE PhaseInv'
  BY <1>16 DEF StopActor
<1>17. ASSUME NEW s \in Sessions, NEW ok \in BOOLEAN, StopActorFails(s, ok) PROVE PhaseInv'
  BY <1>17 DEF StopActorFails
<1>18. CASE ManagerJoined
  BY <1>18 DEF ManagerJoined
<1>19. CASE ConnectionsJoined
  BY <1>19 DEF ConnectionsJoined
<1>20. ASSUME NEW ok \in BOOLEAN, Unlink(ok) PROVE PhaseInv'
  BY <1>20 DEF Unlink
<1>21. CASE Arrive
  BY <1>21 DEF Arrive
<1>22. CASE Notice
  BY <1>22 DEF Notice
<1>23. ASSUME NEW c \in Conns, RpcEnds(c) PROVE PhaseInv'
  BY <1>23 DEF RpcEnds
<1>24. ASSUME NEW c \in Conns, Detached(c) PROVE PhaseInv'
  BY <1>24 DEF Detached
<1>25. ASSUME NEW c \in Conns, NEW s \in Sessions, Attach(c, s) PROVE PhaseInv'
  BY <1>25 DEF Attach
<1>26. ASSUME NEW s \in Sessions, StartRun(s) PROVE PhaseInv'
  BY <1>26 DEF StartRun
<1>27. ASSUME NEW s \in Sessions, ChangeUnsaved(s) PROVE PhaseInv'
  BY <1>27 DEF ChangeUnsaved
<1>28. ASSUME NEW s \in Sessions, StartJob(s) PROVE PhaseInv'
  BY <1>28 DEF StartJob
<1>29. ASSUME NEW s \in Sessions, JobEnds(s) PROVE PhaseInv'
  BY <1>29 DEF JobEnds
<1>30. ASSUME NEW s \in Sessions, Monitor(s) PROVE PhaseInv'
  BY <1>30 DEF Monitor
<1>31. ASSUME NEW s \in Sessions, Panic(s) PROVE PhaseInv'
  BY <1>31 DEF Panic
<1>32. ASSUME NEW s \in Sessions, NEW ok \in BOOLEAN, RunEnds(s, ok) PROVE PhaseInv'
  BY <1>32 DEF RunEnds
<1>33. ASSUME NEW s \in Sessions, NEW ok \in BOOLEAN, RouteTitle(s, ok) PROVE PhaseInv'
  BY <1>33 DEF RouteTitle
<1>34. CASE BeginTitle
  BY <1>34 DEF BeginTitle
<1>35. CASE TitleEnds
  BY <1>35 DEF TitleEnds
<1>36. CASE Signal
  BY <1>36 DEF Signal
<1>37. CASE Exited
  BY <1>37 DEF Exited, vars
<1>38. CASE UNCHANGED vars
  BY <1>38 DEF vars
<1> QED
  BY <1>1, <1>2, <1>3, <1>4, <1>5, <1>6, <1>7, <1>8, <1>9, <1>10, <1>11,
     <1>12, <1>13, <1>14, <1>15, <1>16, <1>17, <1>18, <1>19, <1>20, <1>21,
     <1>22, <1>23, <1>24, <1>25, <1>26, <1>27, <1>28, <1>29, <1>30, <1>31,
     <1>32, <1>33, <1>34, <1>35, <1>36, <1>37, <1>38
  DEF Next, Serve, Stop, ConnectionTasks, SessionWork

\* Every step keeps what the waiter tells.
LEMMA IdleStep ==
    ASSUME TypeOK, PhaseInv, IdleInv, [Next]_vars
    PROVE  IdleInv'
<1> USE DEF process, listener, clients, service, idle, work, IdleInv, PhaseInv, Serving, IsIdle, Connections
<1>1. CASE Accept
  BY <1>1 DEF Accept, Retain, LeaveServing
<1>2. CASE AcceptFails
  BY <1>2 DEF AcceptFails, LeaveServing
<1>3. CASE Initialized
  BY <1>3 DEF Initialized
<1>4. CASE InitializationFails
  BY <1>4 DEF InitializationFails, LeaveServing
<1>5. CASE ReceiveSignal
  BY <1>5 DEF ReceiveSignal, LeaveServing
<1>6. ASSUME NEW c \in Conns, Join(c) PROVE IdleInv'
  BY <1>6 DEF Join
<1>7. ASSUME NEW c \in Conns, JoinFailed(c) PROVE IdleInv'
  BY <1>7 DEF JoinFailed, LeaveServing
<1>8. CASE Look
  BY <1>8 DEF Look
<1>9. CASE Deadline
  <2>1. CASE backlog > 0
    BY <1>9, <2>1 DEF Deadline, Retain, LeaveServing
  <2>2. CASE ~(backlog > 0)
    <3>1. IsIdle /\ tracked = jobs /\ loop' = "flush" /\ todo' = live
          /\ UNCHANGED <<conns, runs, tracked, jobs, generating, dirty, manager>>
      BY <1>9, <2>2 DEF Deadline
    <3>2. dirty \subseteq live
      BY DEF TypeOK
    <3> QED BY <3>1, <3>2
  <2> QED BY <2>1, <2>2
<1>10. ASSUME NEW s \in Sessions, NEW ok \in BOOLEAN, Flush(s, ok) PROVE IdleInv'
  BY <1>10 DEF Flush
<1>11. CASE Decide
  BY <1>11 DEF Decide, Flushed, ServeOn, Retain, LeaveServing
<1>12. CASE BeginShutdown
  BY <1>12 DEF BeginShutdown
<1>13. CASE Drained
  BY <1>13 DEF Drained
<1>14. CASE ShutdownAnswers
  BY <1>14 DEF ShutdownAnswers
<1>15. CASE MailboxCloses
  BY <1>15 DEF MailboxCloses
<1>16. ASSUME NEW s \in Sessions, StopActor(s) PROVE IdleInv'
  BY <1>16 DEF StopActor
<1>17. ASSUME NEW s \in Sessions, NEW ok \in BOOLEAN, StopActorFails(s, ok) PROVE IdleInv'
  BY <1>17 DEF StopActorFails
<1>18. CASE ManagerJoined
  BY <1>18 DEF ManagerJoined
<1>19. CASE ConnectionsJoined
  BY <1>19 DEF ConnectionsJoined
<1>20. ASSUME NEW ok \in BOOLEAN, Unlink(ok) PROVE IdleInv'
  BY <1>20 DEF Unlink
<1>21. CASE Arrive
  BY <1>21 DEF Arrive
<1>22. CASE Notice
  BY <1>22 DEF Notice
<1>23. ASSUME NEW c \in Conns, RpcEnds(c) PROVE IdleInv'
  <2>1. CASE readiness # "ready"
    BY <1>23, <2>1 DEF RpcEnds
  <2>2. CASE readiness = "ready"
    <3>1. conns[c] = "open" /\ conns' = [conns EXCEPT ![c] = "cleaning"]
      BY <1>23, <2>2 DEF RpcEnds, Open
    <3>2. Connections' = Connections
      BY <3>1 DEF TypeOK
    <3> HIDE DEF Connections
    <3> QED BY <1>23, <2>2, <3>2 DEF RpcEnds
  <2> QED BY <2>1, <2>2
<1>24. ASSUME NEW c \in Conns, Detached(c) PROVE IdleInv'
  BY <1>24 DEF Detached
<1>25. ASSUME NEW c \in Conns, NEW s \in Sessions, Attach(c, s) PROVE IdleInv'
  BY <1>25 DEF Attach
<1>26. ASSUME NEW s \in Sessions, StartRun(s) PROVE IdleInv'
  BY <1>26 DEF StartRun
<1>27. ASSUME NEW s \in Sessions, ChangeUnsaved(s) PROVE IdleInv'
  <2>1. Connections # {}
    BY <1>27 DEF ChangeUnsaved, TypeOK, Open
  <2> HIDE DEF Connections
  <2> QED BY <1>27, <2>1 DEF ChangeUnsaved
<1>28. ASSUME NEW s \in Sessions, StartJob(s) PROVE IdleInv'
  BY <1>28 DEF StartJob
<1>29. ASSUME NEW s \in Sessions, JobEnds(s) PROVE IdleInv'
  BY <1>29 DEF JobEnds
<1>30. ASSUME NEW s \in Sessions, Monitor(s) PROVE IdleInv'
  BY <1>30 DEF Monitor
<1>31. ASSUME NEW s \in Sessions, Panic(s) PROVE IdleInv'
  BY <1>31 DEF Panic
<1>32. ASSUME NEW s \in Sessions, NEW ok \in BOOLEAN, RunEnds(s, ok) PROVE IdleInv'
  BY <1>32 DEF RunEnds
<1>33. ASSUME NEW s \in Sessions, NEW ok \in BOOLEAN, RouteTitle(s, ok) PROVE IdleInv'
  BY <1>33 DEF RouteTitle
<1>34. CASE BeginTitle
  BY <1>34 DEF BeginTitle
<1>35. CASE TitleEnds
  BY <1>35 DEF TitleEnds
<1>36. CASE Signal
  BY <1>36 DEF Signal
<1>37. CASE Exited
  BY <1>37 DEF Exited, vars
<1>38. CASE UNCHANGED vars
  BY <1>38 DEF vars
<1> QED
  BY <1>1, <1>2, <1>3, <1>4, <1>5, <1>6, <1>7, <1>8, <1>9, <1>10, <1>11,
     <1>12, <1>13, <1>14, <1>15, <1>16, <1>17, <1>18, <1>19, <1>20, <1>21,
     <1>22, <1>23, <1>24, <1>25, <1>26, <1>27, <1>28, <1>29, <1>30, <1>31,
     <1>32, <1>33, <1>34, <1>35, <1>36, <1>37, <1>38
  DEF Next, Serve, Stop, ConnectionTasks, SessionWork

\* Every step keeps what the manager leaves behind.
LEMMA DrainStep ==
    ASSUME TypeOK, PhaseInv, DrainInv, [Next]_vars
    PROVE  DrainInv'
<1> USE DEF process, listener, clients, service, idle, work, DrainInv, PhaseInv, Serving, TitlesRouted
<1>1. CASE Accept
  BY <1>1 DEF Accept, Retain, LeaveServing
<1>2. CASE AcceptFails
  BY <1>2 DEF AcceptFails, LeaveServing
<1>3. CASE Initialized
  BY <1>3 DEF Initialized
<1>4. CASE InitializationFails
  BY <1>4 DEF InitializationFails, LeaveServing
<1>5. CASE ReceiveSignal
  BY <1>5 DEF ReceiveSignal, LeaveServing
<1>6. ASSUME NEW c \in Conns, Join(c) PROVE DrainInv'
  BY <1>6 DEF Join
<1>7. ASSUME NEW c \in Conns, JoinFailed(c) PROVE DrainInv'
  BY <1>7 DEF JoinFailed, LeaveServing
<1>8. CASE Look
  BY <1>8 DEF Look
<1>9. CASE Deadline
  BY <1>9 DEF Deadline, Retain, LeaveServing
<1>10. ASSUME NEW s \in Sessions, NEW ok \in BOOLEAN, Flush(s, ok) PROVE DrainInv'
  BY <1>10 DEF Flush
<1>11. CASE Decide
  BY <1>11 DEF Decide, Flushed, ServeOn, Retain, LeaveServing
<1>12. CASE BeginShutdown
  BY <1>12 DEF BeginShutdown
<1>13. CASE Drained
  BY <1>13 DEF Drained
<1>14. CASE ShutdownAnswers
  BY <1>14 DEF ShutdownAnswers
<1>15. CASE MailboxCloses
  BY <1>15 DEF MailboxCloses
<1>16. ASSUME NEW s \in Sessions, StopActor(s) PROVE DrainInv'
  BY <1>16 DEF StopActor
<1>17. ASSUME NEW s \in Sessions, NEW ok \in BOOLEAN, StopActorFails(s, ok) PROVE DrainInv'
  BY <1>17 DEF StopActorFails
<1>18. CASE ManagerJoined
  BY <1>18 DEF ManagerJoined
<1>19. CASE ConnectionsJoined
  BY <1>19 DEF ConnectionsJoined
<1>20. ASSUME NEW ok \in BOOLEAN, Unlink(ok) PROVE DrainInv'
  BY <1>20 DEF Unlink
<1>21. CASE Arrive
  BY <1>21 DEF Arrive
<1>22. CASE Notice
  BY <1>22 DEF Notice
<1>23. ASSUME NEW c \in Conns, RpcEnds(c) PROVE DrainInv'
  BY <1>23 DEF RpcEnds
<1>24. ASSUME NEW c \in Conns, Detached(c) PROVE DrainInv'
  BY <1>24 DEF Detached
<1>25. ASSUME NEW c \in Conns, NEW s \in Sessions, Attach(c, s) PROVE DrainInv'
  BY <1>25 DEF Attach
<1>26. ASSUME NEW s \in Sessions, StartRun(s) PROVE DrainInv'
  BY <1>26 DEF StartRun
<1>27. ASSUME NEW s \in Sessions, ChangeUnsaved(s) PROVE DrainInv'
  BY <1>27 DEF ChangeUnsaved
<1>28. ASSUME NEW s \in Sessions, StartJob(s) PROVE DrainInv'
  BY <1>28 DEF StartJob
<1>29. ASSUME NEW s \in Sessions, JobEnds(s) PROVE DrainInv'
  BY <1>29 DEF JobEnds
<1>30. ASSUME NEW s \in Sessions, Monitor(s) PROVE DrainInv'
  BY <1>30 DEF Monitor
<1>31. ASSUME NEW s \in Sessions, Panic(s) PROVE DrainInv'
  BY <1>31 DEF Panic
<1>32. ASSUME NEW s \in Sessions, NEW ok \in BOOLEAN, RunEnds(s, ok) PROVE DrainInv'
  BY <1>32 DEF RunEnds
<1>33. ASSUME NEW s \in Sessions, NEW ok \in BOOLEAN, RouteTitle(s, ok) PROVE DrainInv'
  <2>1. manager # "stopping" /\ manager # "stopped" /\ manager # "none"
    BY <1>33 DEF RouteTitle
  <2>2. generating' + generated' <= MaxTitles
    BY <1>33, BackendAssumption DEF RouteTitle, TypeOK
  <2> QED BY <1>33, <2>1, <2>2 DEF RouteTitle
<1>34. CASE BeginTitle
  <2>1. manager' = "serving" /\ loop' = "serve"
    BY <1>34 DEF BeginTitle
  <2>2. generating' + generated' <= MaxTitles
    BY <1>34, BackendAssumption DEF BeginTitle, TypeOK
  <2> QED BY <2>1, <2>2
<1>35. CASE TitleEnds
  <2>1. ~TitlesRouted
    BY <1>35 DEF TitleEnds
  <2>2. generating' + generated' <= MaxTitles
    BY <1>35, BackendAssumption DEF TitleEnds, TypeOK
  <2> HIDE DEF TitlesRouted
  <2> QED BY <1>35, <2>1, <2>2 DEF TitleEnds
<1>36. CASE Signal
  BY <1>36 DEF Signal
<1>37. CASE Exited
  BY <1>37 DEF Exited, vars
<1>38. CASE UNCHANGED vars
  BY <1>38 DEF vars
<1> QED
  BY <1>1, <1>2, <1>3, <1>4, <1>5, <1>6, <1>7, <1>8, <1>9, <1>10, <1>11,
     <1>12, <1>13, <1>14, <1>15, <1>16, <1>17, <1>18, <1>19, <1>20, <1>21,
     <1>22, <1>23, <1>24, <1>25, <1>26, <1>27, <1>28, <1>29, <1>30, <1>31,
     <1>32, <1>33, <1>34, <1>35, <1>36, <1>37, <1>38
  DEF Next, Serve, Stop, ConnectionTasks, SessionWork

\* Every step keeps what the exit leaves behind.
LEMMA CloseStep ==
    ASSUME TypeOK, PhaseInv, CloseInv, [Next]_vars
    PROVE  CloseInv'
<1> USE DEF process, listener, clients, service, idle, work, CloseInv, PhaseInv, Serving, Connections, Open
<1>1. CASE Accept
  BY <1>1 DEF Accept, Retain, LeaveServing
<1>2. CASE AcceptFails
  BY <1>2 DEF AcceptFails, LeaveServing
<1>3. CASE Initialized
  BY <1>3 DEF Initialized
<1>4. CASE InitializationFails
  BY <1>4 DEF InitializationFails, LeaveServing
<1>5. CASE ReceiveSignal
  BY <1>5 DEF ReceiveSignal, LeaveServing
<1>6. ASSUME NEW c \in Conns, Join(c) PROVE CloseInv'
  BY <1>6 DEF Join
<1>7. ASSUME NEW c \in Conns, JoinFailed(c) PROVE CloseInv'
  BY <1>7 DEF JoinFailed, LeaveServing
<1>8. CASE Look
  BY <1>8 DEF Look
<1>9. CASE Deadline
  BY <1>9 DEF Deadline, Retain, LeaveServing
<1>10. ASSUME NEW s \in Sessions, NEW ok \in BOOLEAN, Flush(s, ok) PROVE CloseInv'
  BY <1>10 DEF Flush
<1>11. CASE Decide
  BY <1>11 DEF Decide, Flushed, ServeOn, Retain, LeaveServing
<1>12. CASE BeginShutdown
  BY <1>12 DEF BeginShutdown
<1>13. CASE Drained
  BY <1>13 DEF Drained
<1>14. CASE ShutdownAnswers
  BY <1>14 DEF ShutdownAnswers
<1>15. CASE MailboxCloses
  BY <1>15 DEF MailboxCloses
<1>16. ASSUME NEW s \in Sessions, StopActor(s) PROVE CloseInv'
  BY <1>16 DEF StopActor
<1>17. ASSUME NEW s \in Sessions, NEW ok \in BOOLEAN, StopActorFails(s, ok) PROVE CloseInv'
  BY <1>17 DEF StopActorFails
<1>18. CASE ManagerJoined
  BY <1>18 DEF ManagerJoined
<1>19. CASE ConnectionsJoined
  <2>1. /\ loop' = "unlink" /\ Connections = {}
        /\ conns' = [c \in Conns |-> IF conns[c] \in {"done", "failed"} THEN "joined" ELSE conns[c]]
    BY <1>19 DEF ConnectionsJoined
  <2>2. ASSUME NEW c \in Conns PROVE conns'[c] \in {"none", "joined"}
    <3>1. conns[c] \in {"none", "open", "cleaning", "done", "failed", "joined"}
      BY DEF TypeOK
    <3> QED BY <2>1, <3>1
  <2> QED BY <2>1, <2>2
<1>20. ASSUME NEW ok \in BOOLEAN, Unlink(ok) PROVE CloseInv'
  BY <1>20 DEF Unlink
<1>21. CASE Arrive
  BY <1>21 DEF Arrive
<1>22. CASE Notice
  BY <1>22 DEF Notice
<1>23. ASSUME NEW c \in Conns, RpcEnds(c) PROVE CloseInv'
  BY <1>23 DEF RpcEnds
<1>24. ASSUME NEW c \in Conns, Detached(c) PROVE CloseInv'
  BY <1>24 DEF Detached
<1>25. ASSUME NEW c \in Conns, NEW s \in Sessions, Attach(c, s) PROVE CloseInv'
  BY <1>25 DEF Attach
<1>26. ASSUME NEW s \in Sessions, StartRun(s) PROVE CloseInv'
  BY <1>26 DEF StartRun
<1>27. ASSUME NEW s \in Sessions, ChangeUnsaved(s) PROVE CloseInv'
  BY <1>27 DEF ChangeUnsaved
<1>28. ASSUME NEW s \in Sessions, StartJob(s) PROVE CloseInv'
  BY <1>28 DEF StartJob
<1>29. ASSUME NEW s \in Sessions, JobEnds(s) PROVE CloseInv'
  BY <1>29 DEF JobEnds
<1>30. ASSUME NEW s \in Sessions, Monitor(s) PROVE CloseInv'
  BY <1>30 DEF Monitor
<1>31. ASSUME NEW s \in Sessions, Panic(s) PROVE CloseInv'
  BY <1>31 DEF Panic
<1>32. ASSUME NEW s \in Sessions, NEW ok \in BOOLEAN, RunEnds(s, ok) PROVE CloseInv'
  BY <1>32 DEF RunEnds
<1>33. ASSUME NEW s \in Sessions, NEW ok \in BOOLEAN, RouteTitle(s, ok) PROVE CloseInv'
  BY <1>33 DEF RouteTitle
<1>34. CASE BeginTitle
  BY <1>34 DEF BeginTitle
<1>35. CASE TitleEnds
  BY <1>35 DEF TitleEnds
<1>36. CASE Signal
  BY <1>36 DEF Signal
<1>37. CASE Exited
  BY <1>37 DEF Exited, vars
<1>38. CASE UNCHANGED vars
  BY <1>38 DEF vars
<1> QED
  BY <1>1, <1>2, <1>3, <1>4, <1>5, <1>6, <1>7, <1>8, <1>9, <1>10, <1>11,
     <1>12, <1>13, <1>14, <1>15, <1>16, <1>17, <1>18, <1>19, <1>20, <1>21,
     <1>22, <1>23, <1>24, <1>25, <1>26, <1>27, <1>28, <1>29, <1>30, <1>31,
     <1>32, <1>33, <1>34, <1>35, <1>36, <1>37, <1>38
  DEF Next, Serve, Stop, ConnectionTasks, SessionWork

-----------------------------------------------------------------------------
(***************************************************************************)
(* Theorems.                                                               *)
(***************************************************************************)

\* The inductive invariant holds in every reachable state.
THEOREM LifetimeSafety == Spec => []LifetimeInv
<1>1. Init => LifetimeInv
  <2> SUFFICES ASSUME Init PROVE LifetimeInv
    OBVIOUS
  <2>1. TypeOK
    <3>1. 0 \in 0 .. MaxBacklog /\ 1 \in 1 .. MaxConnection + 1 /\ 0 \in 0 .. MaxTitles
      BY BackendAssumption
    <3>2. conns \in [Conns -> {"none", "open", "cleaning", "done", "failed", "joined"}]
      BY DEF Init
    <3>3. attached \subseteq Open
      BY DEF Init
    <3> QED BY <3>1, <3>2, <3>3 DEF Init, TypeOK
  <2>2. PhaseInv /\ IdleInv /\ CloseInv
    BY DEF Init, PhaseInv, IdleInv, CloseInv, Serving
  <2>3. DrainInv
    BY BackendAssumption DEF Init, DrainInv, TitlesRouted
  <2> QED BY <2>1, <2>2, <2>3 DEF LifetimeInv
<1>2. LifetimeInv /\ [Next]_vars => LifetimeInv'
  <2> SUFFICES ASSUME LifetimeInv, [Next]_vars PROVE LifetimeInv'
    OBVIOUS
  <2> USE DEF LifetimeInv
  <2>1. generating + generated <= MaxTitles
    BY DEF DrainInv
  <2> QED BY <2>1, TypeStep, PhaseStep, IdleStep, DrainStep, CloseStep
<1> QED BY <1>1, <1>2, PTL DEF Spec

\* Every variable of the backend keeps its type: only an open connection holds
\* a session, and only a live actor runs, has jobs or is asked.
THEOREM TypeCorrect == Spec => []TypeOK
BY LifetimeSafety, PTL DEF LifetimeInv

\* A backend that exits without an error has saved every session, ended every
\* run, job and title, joined every connection and removed its socket.
THEOREM CleanExitCorrect == Spec => []CleanExitLeavesNothing
<1>1. LifetimeInv => CleanExitLeavesNothing
  BY DEF LifetimeInv, TypeOK, PhaseInv, DrainInv, CloseInv, TitlesRouted, CleanExitLeavesNothing
<1> QED BY <1>1, LifetimeSafety, PTL

\* The decision to exit for idleness never cuts a connection, a run, a job or a
\* title off, and never leaves a session unsaved: nothing can come between the
\* look of the waiter and the end of the flush without being seen.
THEOREM IdleExitCorrect == Spec => IdleExitIsQuiet
<1> DEFINE Quietly == reason' = "idle" /\ reason # "idle" =>
                        /\ Connections = {} /\ ~(backlog > 0 /\ noticed)
                        /\ runs = {} /\ jobs = {} /\ generating = 0 /\ dirty = {}
<1>1. LifetimeInv /\ [Next]_vars => Quietly
  <2> SUFFICES ASSUME LifetimeInv, [Next]_vars, reason' = "idle", reason # "idle"
               PROVE  Quietly
    OBVIOUS
  <2>1. Decide
    BY DEF Next, Serve, Stop, ConnectionTasks, SessionWork, vars, process, listener, clients,
           service, idle, work, Accept, AcceptFails, Initialized, InitializationFails,
           ReceiveSignal, Join, JoinFailed, Look, Deadline, Flush, BeginShutdown, Drained,
           ShutdownAnswers, MailboxCloses, StopActor, StopActorFails, ManagerJoined,
           ConnectionsJoined, Unlink, Arrive, Notice, RpcEnds, Detached, Attach, StartRun,
           ChangeUnsaved, StartJob, JobEnds, Monitor, Panic, RunEnds, RouteTitle, BeginTitle,
           TitleEnds, Signal, Exited, Retain, LeaveServing
  <2>2. loop = "flush" /\ todo = {} /\ ~failed /\ ~changed /\ ~(backlog > 0 /\ noticed)
    BY <2>1 DEF Decide, Flushed, ServeOn, Retain, LeaveServing
  <2>3. waiter = "fired"
    BY <2>2 DEF LifetimeInv, PhaseInv
  <2> QED BY <2>2, <2>3 DEF LifetimeInv, IdleInv, IsIdle, Serving
<1> QED BY <1>1, LifetimeSafety, PTL DEF Spec, IdleExitIsQuiet
=============================================================================
