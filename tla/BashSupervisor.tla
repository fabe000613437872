--------------------------- MODULE BashSupervisor ---------------------------
(***************************************************************************)
(* One call of the Bash tool (src/src/tools/bash.rs): the call, the job it *)
(* registers, the supervisor task that owns the shell, the two tasks that  *)
(* read its output, and the processes the shell starts.                    *)
(*                                                                         *)
(* The processes are the environment: they fork, write, close their        *)
(* output, leave the process group and exit as they like, and nothing      *)
(* makes them.  A signal is delivered when it is sent; whoever catches or  *)
(* ignores SIGTERM goes on.  Time is left out: a timeout or a deadline     *)
(* passes at any moment.                                                   *)
(*                                                                         *)
(* Of the output, the lines are counted, per pipe.  An error of wait       *)
(* itself and a child without pipes are left out.                          *)
(***************************************************************************)
EXTENDS Naturals, FiniteSets

CONSTANTS
    Shell,          \* the leader of the process group
    Descendants,    \* processes the shell and its children may start
    Pipes,          \* stdout and stderr
    MayLeave,       \* whether descendants leave the process group
    MaxFailures,    \* how often capturing the output fails
    MaxOutput       \* lines the processes write

ASSUME BashAssumption ==
    /\ Shell \notin Descendants /\ Pipes # {} /\ IsFiniteSet(Pipes)
    /\ MayLeave \in BOOLEAN
    /\ MaxOutput \in Nat /\ MaxFailures \in Nat

Processes == {Shell} \cup Descendants

VARIABLES
    call,           \* the call of bash
    background,     \* BashArgs.background
    timed,          \* whether the command has a timeout_ms
    job,            \* the state of the job in the registry
    cancelling,     \* the job's cancellation channel
    supervisor,     \* where run_supervisor is
    outcome,        \* finish_child's outcome
    processes,      \* each process: is it running, in the group, what it holds
    readers,        \* the task that reads each pipe
    unread,         \* lines in each pipe
    written,        \* lines written to each pipe
    published,      \* lines of each pipe in the job's details and log
    failures        \* failures of the capture so far

tasks == <<call, background, timed, job, cancelling, supervisor, outcome>>
capture == <<readers, published, failures>>
output == <<unread, written>>
vars == <<tasks, processes, capture, output>>

Process == [state : {"none", "running", "zombie", "gone"}, group : BOOLEAN, holds : SUBSET Pipes]
NoProcess == [state |-> "none", group |-> FALSE, holds |-> {}]

Settled == job \in {"completed", "cancelled", "failed"}
Group == {q \in Processes : processes[q].state = "running" /\ processes[q].group}
Holders(p) == {q \in Processes : processes[q].state = "running" /\ p \in processes[q].holds}

\* The processes after those of killed are gone; the shell is a zombie until
\* its supervisor reaps it.
After(killed) ==
    [q \in Processes |->
        IF q \in killed
        THEN [NoProcess EXCEPT !.state = IF q = Shell THEN "zombie" ELSE "gone"]
        ELSE processes[q]]

Reaped(table) == [table EXCEPT ![Shell].state = "gone"]

Init ==
    /\ call = "none" /\ background \in BOOLEAN /\ timed \in BOOLEAN
    /\ job = "none" /\ cancelling = FALSE
    /\ supervisor = "none" /\ outcome = "none" /\ failures = 0
    /\ processes = [q \in Processes |-> NoProcess]
    /\ readers = [p \in Pipes |-> "none"]
    /\ unread = [p \in Pipes |-> 0] /\ written = unread /\ published = unread

-----------------------------------------------------------------------------
(***************************************************************************)
(* The call.                                                               *)
(***************************************************************************)

\* bash creates the log and the job, and spawns the supervisor.
Bash ==
    /\ call = "none"
    /\ call' = "starting" /\ job' = "running" /\ supervisor' = "spawn"
    /\ UNCHANGED <<background, timed, cancelling, outcome, processes, capture, output>>

\* No log can be created, or the registry is full or shutting down.
BashRefused ==
    /\ call = "none" /\ call' = "returned"
    /\ UNCHANGED <<background, timed, job, cancelling, supervisor, outcome, processes,
                   capture, output>>

\* The supervisor reports the start.
Started ==
    /\ call = "starting" /\ supervisor # "spawn"
    /\ call' = IF background \/ outcome = "unstarted" THEN "returned" ELSE "waiting"
    /\ UNCHANGED <<background, timed, job, cancelling, supervisor, outcome, processes,
                   capture, output>>

\* The wait of a foreground call.
Waited ==
    /\ call = "waiting" /\ Settled /\ call' = "returned"
    /\ UNCHANGED <<background, timed, job, cancelling, supervisor, outcome, processes,
                   capture, output>>

\* Mutant: the guard is armed once the shell has started.
DroppedLate ==
    /\ call \in {"starting", "waiting"} /\ call' = "dropped"
    /\ cancelling' = (cancelling \/ (call = "waiting" /\ job = "running"))
    /\ UNCHANGED <<background, timed, job, supervisor, outcome, processes, capture, output>>

\* The run that made the call is cancelled: CancelOnDrop asks for the end of
\* a foreground job.
Dropped ==
    /\ call \in {"starting", "waiting"} /\ call' = "dropped"
    /\ cancelling' = (cancelling \/ (~background /\ job = "running"))
    /\ UNCHANGED <<background, timed, job, supervisor, outcome, processes, capture, output>>

\* job_cancel, or the registry shuts down.
RequestCancel ==
    /\ job = "running" /\ cancelling' = TRUE
    /\ UNCHANGED <<call, background, timed, job, supervisor, outcome, processes, capture, output>>

-----------------------------------------------------------------------------
(***************************************************************************)
(* The supervisor.                                                         *)
(***************************************************************************)
SpawnFails ==
    /\ supervisor = "spawn"
    /\ supervisor' = "done" /\ outcome' = "unstarted" /\ job' = "failed"
    /\ UNCHANGED <<call, background, timed, cancelling, processes, capture, output>>

Spawn ==
    /\ supervisor = "spawn"
    /\ supervisor' = "select"
    /\ processes' = [processes EXCEPT ![Shell] =
                        [state |-> "running", group |-> TRUE, holds |-> Pipes]]
    /\ readers' = [p \in Pipes |-> "reading"]
    /\ UNCHANGED <<call, background, timed, job, cancelling, outcome, published, failures, output>>

\* The shell has exited, and wait reaps it.
Exited ==
    /\ supervisor = "select" /\ processes[Shell].state = "zombie"
    /\ supervisor' = "read" /\ outcome' = "exited"
    /\ processes' = Reaped(processes)
    /\ UNCHANGED <<call, background, timed, job, cancelling, capture, output>>

\* What ends the wait for the shell: one of those that are ready.
Reasons ==
    {r \in {"cancelled", "timeout", "capture"} :
        \/ r = "cancelled" /\ cancelling
        \/ r = "timeout" /\ timed
        \/ r = "capture" /\ \E p \in Pipes : readers[p] = "failed"}

\* The group gets SIGTERM: terminate_child starts.
Stop(reason) ==
    /\ supervisor = "select" /\ reason \in Reasons
    /\ supervisor' = "stop" /\ outcome' = reason
    /\ \E surviving \in SUBSET Group : processes' = After(Group \ surviving)
    /\ UNCHANGED <<call, background, timed, job, cancelling, capture, output>>

\* Mutant: a shell that has exited ends the polling.
PollShell ==
    /\ supervisor = "stop" /\ processes[Shell].state \in {"zombie", "gone"}
    /\ processes' = Reaped(processes)
    /\ supervisor' = "read"
    /\ UNCHANGED <<call, background, timed, job, cancelling, outcome, capture, output>>

\* terminate_child polls until the shell is reaped and the group is empty.
Poll ==
    /\ supervisor = "stop" /\ processes[Shell].state \in {"zombie", "gone"}
    /\ processes' = Reaped(processes)
    /\ supervisor' = IF Group = {} THEN "read" ELSE "stop"
    /\ UNCHANGED <<call, background, timed, job, cancelling, outcome, capture, output>>

\* Mutant: the shell is not reaped after SIGKILL.
DeadlineUnreaped ==
    /\ supervisor = "stop"
    /\ supervisor' = "read" /\ processes' = After(Group)
    /\ UNCHANGED <<call, background, timed, job, cancelling, outcome, capture, output>>

\* Two seconds have passed: SIGKILL.
Deadline ==
    /\ supervisor = "stop"
    /\ supervisor' = IF processes[Shell].state = "gone" THEN "read" ELSE "reap"
    /\ processes' = After(Group)
    /\ UNCHANGED <<call, background, timed, job, cancelling, outcome, capture, output>>

Reap ==
    /\ supervisor = "reap" /\ processes[Shell].state = "zombie"
    /\ supervisor' = "read" /\ processes' = Reaped(processes)
    /\ UNCHANGED <<call, background, timed, job, cancelling, outcome, capture, output>>

\* Mutant: the readers are not waited for.
FinishEarly(flushed) ==
    /\ supervisor = "read"
    /\ ~flushed => failures < MaxFailures
    /\ failures' = IF flushed THEN failures ELSE failures + 1
    /\ supervisor' = "done"
    /\ job' = IF ~flushed \/ \E p \in Pipes : readers[p] = "failed" THEN "failed"
              ELSE [exited |-> "completed", cancelled |-> "cancelled",
                    timeout |-> "failed", capture |-> "failed"][outcome]
    /\ UNCHANGED <<call, background, timed, cancelling, outcome, processes, readers, published,
                   output>>

\* Both readers have ended; the log is flushed and the job is settled.
Finish(flushed) ==
    /\ supervisor = "read" /\ \A p \in Pipes : readers[p] \in {"ended", "failed"}
    /\ ~flushed => failures < MaxFailures
    /\ failures' = IF flushed THEN failures ELSE failures + 1
    /\ supervisor' = "done"
    /\ job' = IF ~flushed \/ \E p \in Pipes : readers[p] = "failed" THEN "failed"
              ELSE [exited |-> "completed", cancelled |-> "cancelled",
                    timeout |-> "failed", capture |-> "failed"][outcome]
    /\ UNCHANGED <<call, background, timed, cancelling, outcome, processes, readers, published,
                   output>>

-----------------------------------------------------------------------------
(***************************************************************************)
(* The readers.                                                            *)
(***************************************************************************)
PublishLine(p) ==
    /\ readers[p] = "reading" /\ unread[p] > 0
    /\ unread' = [unread EXCEPT ![p] = @ - 1]
    /\ published' = [published EXCEPT ![p] = @ + 1]
    /\ UNCHANGED <<tasks, processes, readers, failures, written>>

\* End of file: the pipe is empty and nobody holds its other end.
ReadEnds(p) ==
    /\ readers[p] = "reading" /\ unread[p] = 0 /\ Holders(p) = {}
    /\ readers' = [readers EXCEPT ![p] = "ended"]
    /\ UNCHANGED <<tasks, processes, published, failures, output>>

\* Reading the pipe or writing the log fails: the reader drops the pipe.
ReadFails(p) ==
    /\ readers[p] = "reading" /\ failures < MaxFailures
    /\ readers' = [readers EXCEPT ![p] = "failed"]
    /\ failures' = failures + 1
    /\ UNCHANGED <<tasks, processes, published, output>>

-----------------------------------------------------------------------------
(***************************************************************************)
(* The processes.                                                          *)
(***************************************************************************)
Running(q) == processes[q].state = "running"

Fork(q, r) ==
    /\ Running(q) /\ processes[r].state = "none"
    /\ processes' = [processes EXCEPT ![r] = processes[q]]
    /\ UNCHANGED <<tasks, capture, output>>

Write(q, p) ==
    /\ Running(q) /\ p \in processes[q].holds
    /\ readers[p] = "reading" /\ written[p] < MaxOutput
    /\ written' = [written EXCEPT ![p] = @ + 1]
    /\ unread' = [unread EXCEPT ![p] = @ + 1]
    /\ UNCHANGED <<tasks, processes, capture>>

ClosePipes(q) ==
    /\ Running(q) /\ processes[q].holds # {}
    /\ processes' = [processes EXCEPT ![q].holds = {}]
    /\ UNCHANGED <<tasks, capture, output>>

LeaveGroup(q) ==
    /\ MayLeave /\ q # Shell /\ q \in Group
    /\ processes' = [processes EXCEPT ![q].group = FALSE]
    /\ UNCHANGED <<tasks, capture, output>>

Exit(q) ==
    /\ Running(q)
    /\ processes' = After({q})
    /\ UNCHANGED <<tasks, capture, output>>

-----------------------------------------------------------------------------
Call == Bash \/ BashRefused \/ Started \/ Waited \/ Dropped \/ RequestCancel
Supervise ==
    \/ SpawnFails \/ Spawn \/ Exited \/ Poll \/ Deadline \/ Reap
    \/ \E reason \in {"cancelled", "timeout", "capture"} : Stop(reason)
    \/ \E flushed \in BOOLEAN : Finish(flushed)
Read(p) == PublishLine(p) \/ ReadEnds(p) \/ ReadFails(p)
Processing(q) ==
    \/ \E r \in Descendants : Fork(q, r)
    \/ \E p \in Pipes : Write(q, p)
    \/ ClosePipes(q) \/ LeaveGroup(q) \/ Exit(q)

Next == Call \/ Supervise \/ (\E p \in Pipes : Read(p)) \/ (\E q \in Processes : Processing(q))

Spec == Init /\ [][Next]_vars

\* The runtime runs its tasks, a timer fires, and wait, select and the polls
\* see what has happened; the deadline ends the polls.
Fairness ==
    /\ WF_vars(Supervise) /\ WF_vars(Deadline) /\ WF_vars(Stop("cancelled"))
    /\ \A p \in Pipes : WF_vars(PublishLine(p) \/ ReadEnds(p))

FairSpec == Spec /\ Fairness

-----------------------------------------------------------------------------
(***************************************************************************)
(* Properties.                                                             *)
(***************************************************************************)

\* The types of the state; the shell is reaped once its supervisor has seen
\* its end, and only then.
TypeOK ==
    /\ call \in {"none", "starting", "waiting", "returned", "dropped"}
    /\ background \in BOOLEAN /\ timed \in BOOLEAN /\ cancelling \in BOOLEAN
    /\ job \in {"none", "running", "completed", "cancelled", "failed"}
    /\ supervisor \in {"none", "spawn", "select", "stop", "reap", "read", "done"}
    /\ outcome \in {"none", "unstarted", "exited", "cancelled", "timeout", "capture"}
    /\ processes \in [Processes -> Process]
    /\ readers \in [Pipes -> {"none", "reading", "ended", "failed"}]
    /\ unread \in [Pipes -> 0 .. MaxOutput] /\ written \in [Pipes -> 0 .. MaxOutput]
    /\ published \in [Pipes -> 0 .. MaxOutput] /\ failures \in 0 .. MaxFailures
    /\ (supervisor = "read" \/ (supervisor = "done" /\ outcome # "unstarted"))
            => processes[Shell].state = "gone"

\* A job that is reported completed or cancelled shows all that any of its
\* processes wrote: the end of the shell overtakes neither the lines still in
\* the pipes nor those of its children, and a capture that failed, even
\* while the job was being cancelled, is never reported as one of the two.
CaptureIsTotal ==
    job \in {"completed", "cancelled"} =>
        \A p \in Pipes : readers[p] = "ended" /\ published[p] = written[p] /\ Holders(p) = {}

\* Once a job that was cancelled, timed out or could not be captured is
\* reported ended, no process of its group is left, whether or not the shell
\* itself ended at once, forked meanwhile or ignored SIGTERM.
NothingIsLeftBehind ==
    Settled /\ outcome \in {"cancelled", "timeout", "capture"} => Group = {}

\* A foreground call that is dropped, even before the shell has started, puts
\* an end to the shell and its group, whatever they do and whether or not a
\* process that left the group still holds a pipe, unless the shell was seen
\* to end first.
AbandonedCallsStop ==
    (call = "dropped" /\ ~background)
        ~> (outcome = "exited" \/ Settled \/ (outcome # "none" /\ Group = {}))
=============================================================================
