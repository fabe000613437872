---------------------------- MODULE JobRegistry -----------------------------
(***************************************************************************)
(* The registry of background jobs (src/src/tools/job.rs): producers start *)
(* jobs and settle them, callers wait for jobs, cancel them and shut the   *)
(* registry down, and old terminal jobs are evicted.                       *)
(*                                                                         *)
(* The registry is shared behind a Mutex.  A step is one critical section  *)
(* of a call; what a call does after it unlocks (removing logs, announcing *)
(* a new version) is a step of its own, and so is every check of a waiter. *)
(* The backend runs on one thread, so that a call's steps up to its next   *)
(* await follow each other; that is one of the interleavings.              *)
(*                                                                         *)
(* A job's details are its output log; what they render is left out.  The  *)
(* token that guards stale updaters is left out: identifiers are never     *)
(* reused, so a job has one token.                                         *)
(***************************************************************************)
EXTENDS Naturals, Sequences, FiniteSets

CONSTANTS
    MaxRunning,     \* MAX_RUNNING_JOBS
    MaxTerminal,    \* MAX_TERMINAL_JOBS
    MaxId,          \* u64::MAX, never used as an identifier
    Outcomes,       \* the terminal states a job can have
    Callers,        \* tasks that call wait, cancel or shutdown
    Reporting,      \* the jobs whose producers report progress
    Requests        \* the sets of jobs callers wait for

\* 16 and 64 in the code.
ASSUME RegistryAssumption ==
    /\ "failed" \in Outcomes /\ "running" \notin Outcomes
    /\ Requests \subseteq (SUBSET (0 .. MaxId)) \ {{}}
    /\ MaxRunning \in Nat \ {0} /\ MaxTerminal \in Nat \ {0} /\ MaxId \in Nat
    /\ MaxRunning <= MaxTerminal

VARIABLES
    jobs,           \* RegistryState.jobs: the retained jobs by identifier
    terminal_order, \* RegistryState.terminal_order
    next_id,        \* RegistryState.next_id
    shutting_down,  \* RegistryState.shutting_down
    logs,           \* jobs whose output log exists
    posts,          \* calls that have unlocked and not yet notified
    unseen,         \* callers that have not seen the latest version
    callers         \* the call each caller makes, or its last one

registry == <<jobs, terminal_order, next_id, shutting_down>>
vars == <<registry, logs, posts, unseen, callers>>

Ids == 0 .. MaxId

\* cancelling: the value of the cancellation channel.
Job == [state : Outcomes \cup {"running"}, cancelling : BOOLEAN, cleaned : BOOLEAN]

RunningIds == {id \in DOMAIN jobs : jobs[id].state = "running"}
TerminalIds == DOMAIN jobs \ RunningIds

\* A call between its critical section and its notification: what it will
\* remove the logs of.
PostOf(op, id, clean) == [op |-> op, id |-> id, clean |-> clean]
Posts == [op : {"start", "update", "finish"}, id : Ids, clean : SUBSET Ids]

\* A caller in the middle of a call has subscribed to the version once it
\* checks; targets are the jobs it still waits for.  Only the result of a
\* shutdown is kept.
Idle == [op |-> "none", pc |-> "done", targets |-> {}, result |-> "none"]
Calling(op, pc, targets) == [op |-> op, pc |-> pc, targets |-> targets, result |-> "none"]
Caller == [op : {"none", "wait", "cancel", "shutdown"},
           pc : {"done", "notify", "check", "looked", "asleep", "clean"},
           targets : SUBSET Ids,
           result : {"none", "ok", "not_found", "timeout"}]

\* Mutant: a waiter subscribes when it goes to sleep, after it looked.
SubscribedLate == {c \in Callers : callers[c].pc = "asleep"}

Subscribed == {c \in Callers : callers[c].pc \in {"check", "looked", "asleep"}}

Init ==
    /\ jobs = <<>> /\ terminal_order = <<>> /\ next_id = 0 /\ shutting_down = FALSE
    /\ logs = {} /\ posts = {} /\ unseen = {}
    /\ callers = [c \in Callers |-> Idle]

-----------------------------------------------------------------------------
(***************************************************************************)
(* Producers.                                                              *)
(***************************************************************************)

Elements(order) == {order[i] : i \in DOMAIN order}
Split(order, n) == [gone |-> Elements(SubSeq(order, 1, n)), kept |-> SubSeq(order, n + 1, Len(order))]

\* Mutant: the newest terminal job is evicted.
EvictNewest(order) ==
    IF Len(order) <= MaxTerminal THEN Split(order, 0)
    ELSE [gone |-> Elements(SubSeq(order, MaxTerminal + 1, Len(order))),
          kept |-> SubSeq(order, 1, MaxTerminal)]

\* evict: the oldest terminal jobs beyond MaxTerminal go.
Evict(order) == Split(order, IF Len(order) > MaxTerminal THEN Len(order) - MaxTerminal ELSE 0)

\* The registry after evict, and the call that will clean up and notify:
\* clean holds the jobs whose logs go besides those of evicted jobs.
Settle(op, id, table, order, clean) ==
    LET evicted == Evict(order)
        old == {i \in evicted.gone : ~table[i].cleaned}
    IN  /\ jobs' = [i \in DOMAIN table \ evicted.gone |-> table[i]]
        /\ terminal_order' = evicted.kept
        /\ posts' = posts \cup {PostOf(op, id, clean \cup old)}

\* jobs with a new one.
WithJob(id) ==
    [i \in DOMAIN jobs \cup {id} |->
        IF i \in DOMAIN jobs THEN jobs[i]
        ELSE [state |-> "running", cancelling |-> FALSE, cleaned |-> FALSE]]

\* Mutant: jobs start during a shutdown.
StartAlways ==
    /\ Cardinality(RunningIds) < MaxRunning /\ next_id < MaxId
    /\ next_id' = next_id + 1
    /\ Settle("start", next_id, WithJob(next_id), terminal_order, {})
    /\ logs' = logs \cup {next_id}
    /\ UNCHANGED <<shutting_down, unseen, callers>>

\* start.
Start ==
    /\ ~shutting_down /\ Cardinality(RunningIds) < MaxRunning /\ next_id < MaxId
    /\ next_id' = next_id + 1
    /\ Settle("start", next_id, WithJob(next_id), terminal_order, {})
    /\ logs' = logs \cup {next_id}
    /\ UNCHANGED <<shutting_down, unseen, callers>>

\* The producer gets its lease when start returns, and settles it once.
Leased(id) == id \in RunningIds /\ \A p \in posts : ~(p.op = "start" /\ p.id = id)

\* JobUpdater::update of a running job: new details go to a cleaned log.
Update(id) ==
    /\ Leased(id) /\ id \in Reporting
    /\ posts' = posts \cup {PostOf("update", id, IF jobs[id].cleaned THEN {id} ELSE {})}
    /\ UNCHANGED <<registry, logs, unseen, callers>>

\* JobLease::finish.
Finish(id, outcome) ==
    /\ Leased(id)
    /\ Settle("finish", id, [jobs EXCEPT ![id].state = outcome], Append(terminal_order, id),
              IF jobs[id].cleaned THEN {id} ELSE {})
    /\ UNCHANGED <<next_id, shutting_down, logs, unseen, callers>>

\* The producer disappears: the drop of JobLease fails the job, with details
\* that own no log; the log goes with the producer.
Disappear(id) ==
    /\ Leased(id)
    /\ Settle("finish", id, [jobs EXCEPT ![id].state = "failed"],
              Append(terminal_order, id), {id})
    /\ UNCHANGED <<next_id, shutting_down, logs, unseen, callers>>

\* Mutant: an end is not announced.
PostWithoutFinish(p) ==
    /\ p \in posts
    /\ posts' = posts \ {p}
    /\ logs' = logs \ p.clean
    /\ unseen' = IF p.op = "finish" THEN unseen ELSE Subscribed
    /\ UNCHANGED <<registry, callers>>

\* What a call does after it unlocks: cleanup and notify.
Post(p) ==
    /\ p \in posts
    /\ posts' = posts \ {p}
    /\ logs' = logs \ p.clean
    /\ unseen' = Subscribed
    /\ UNCHANGED <<registry, callers>>

-----------------------------------------------------------------------------
(***************************************************************************)
(* Waiting.                                                                *)
(***************************************************************************)
Return(c) == callers' = [callers EXCEPT ![c] = Idle] /\ unseen' = unseen \ {c}

\* Shutdown stops waiting, with what went wrong.
StopWaiting(c, result) ==
    /\ callers' = [callers EXCEPT ![c] = [Calling("shutdown", "clean", {}) EXCEPT !.result = result]]
    /\ unseen' = unseen \ {c}

\* wait subscribes before it looks at the jobs.
Wait(c, ids) ==
    /\ callers[c].pc = "done"
    /\ callers' = [callers EXCEPT ![c] = Calling("wait", "check", ids)]
    /\ unseen' = unseen \ {c}
    /\ UNCHANGED <<registry, logs, posts>>

\* The jobs a caller asks for now: shutdown waits for one after the other.
Asked(c) ==
    IF callers[c].op = "shutdown"
    THEN {id \in callers[c].targets : \A other \in callers[c].targets : id <= other}
    ELSE callers[c].targets

\* Shutdown goes on to its next job, with a new subscription.
NextTarget(c) ==
    LET rest == callers[c].targets \ Asked(c)
    IN  /\ callers' = [callers EXCEPT ![c].pc = IF rest = {} THEN "clean" ELSE "check",
                                      ![c].targets = rest]
        /\ unseen' = unseen \ {c}

\* terminal_requested, and what its caller makes of it.
Check(c) ==
    /\ callers[c].pc = "check"
    /\ \/ /\ ~(Asked(c) \subseteq DOMAIN jobs)
          /\ IF callers[c].op = "shutdown" THEN StopWaiting(c, "not_found") ELSE Return(c)
       \/ /\ Asked(c) \subseteq DOMAIN jobs /\ Asked(c) \cap TerminalIds # {}
          /\ IF callers[c].op = "shutdown" THEN NextTarget(c) ELSE Return(c)
       \/ /\ Asked(c) \subseteq RunningIds
          /\ callers' = [callers EXCEPT ![c].pc = "looked"]
          /\ UNCHANGED unseen
    /\ UNCHANGED <<registry, logs, posts>>

\* It awaits a change of the version after it unlocked.
Sleep(c) ==
    /\ callers[c].pc = "looked"
    /\ callers' = [callers EXCEPT ![c].pc = "asleep"]
    /\ UNCHANGED <<registry, logs, posts, unseen>>

\* The version changed since the caller saw it last.
Wake(c) ==
    /\ callers[c].pc = "asleep" /\ c \in unseen
    /\ callers' = [callers EXCEPT ![c].pc = "check"]
    /\ unseen' = unseen \ {c}
    /\ UNCHANGED <<registry, logs, posts>>

\* Mutant: the waits of a shutdown have no deadline.
TimeoutOfWaits(c) ==
    /\ callers[c].pc = "asleep" /\ c \notin unseen /\ callers[c].op # "shutdown"
    /\ Return(c)
    /\ UNCHANGED <<registry, logs, posts>>

\* The deadline of a wait passes, or the run that called wait or cancel is
\* cancelled and drops the call; shutdown has one deadline for all its jobs.
Timeout(c) ==
    /\ callers[c].pc = "asleep" /\ c \notin unseen
    /\ IF callers[c].op = "shutdown" THEN StopWaiting(c, "timeout") ELSE Return(c)
    /\ UNCHANGED <<registry, logs, posts>>

-----------------------------------------------------------------------------
(***************************************************************************)
(* Cancelling and shutting down.                                           *)
(***************************************************************************)

\* cancel: request_cancel looks at the job under the lock.  The cancel of a
\* job that is not running returns at once and changes nothing.
Cancel(c, id) ==
    /\ callers[c].pc = "done"
    /\ id \in RunningIds
    /\ callers' = [callers EXCEPT ![c] = Calling("cancel", "notify", {id})]
    /\ UNCHANGED <<registry, logs, posts, unseen>>

\* It then sends the request to the producer, notifies, and waits.
SendCancel(c) ==
    /\ callers[c].op = "cancel" /\ callers[c].pc = "notify"
    /\ jobs' = [id \in DOMAIN jobs |->
                    IF id \in callers[c].targets THEN [jobs[id] EXCEPT !.cancelling = TRUE]
                    ELSE jobs[id]]
    /\ callers' = [callers EXCEPT ![c].pc = "check"]
    /\ unseen' = Subscribed
    /\ UNCHANGED <<terminal_order, next_id, shutting_down, logs, posts>>

\* shutdown: no job starts any more, and every producer is asked to stop.
Shutdown(c) ==
    /\ callers[c].pc = "done"
    /\ shutting_down' = TRUE
    /\ jobs' = [id \in DOMAIN jobs |->
                    IF id \in RunningIds THEN [jobs[id] EXCEPT !.cancelling = TRUE] ELSE jobs[id]]
    /\ callers' = [callers EXCEPT ![c] = Calling("shutdown", "notify", RunningIds)]
    /\ UNCHANGED <<terminal_order, next_id, logs, posts, unseen>>

ShutdownNotify(c) ==
    /\ callers[c].op = "shutdown" /\ callers[c].pc = "notify"
    /\ callers' = [callers EXCEPT ![c].pc = IF callers[c].targets = {} THEN "clean" ELSE "check"]
    /\ unseen' = Subscribed
    /\ UNCHANGED <<registry, logs, posts>>

\* cleanup_retained: whatever the outcome, the logs of all jobs go, those of
\* jobs that still run included.
CleanRetained(c) ==
    /\ callers[c].pc = "clean"
    /\ logs' = logs \ {id \in DOMAIN jobs : ~jobs[id].cleaned}
    /\ jobs' = [id \in DOMAIN jobs |-> [jobs[id] EXCEPT !.cleaned = TRUE]]
    /\ callers' = [callers EXCEPT ![c].pc = "done",
                                  ![c].result = IF @ = "none" THEN "ok" ELSE @]
    /\ UNCHANGED <<terminal_order, next_id, shutting_down, posts, unseen>>

-----------------------------------------------------------------------------
Next ==
    \/ Start
    \/ \E id \in DOMAIN jobs :
        Update(id) \/ Disappear(id) \/ \E outcome \in Outcomes : Finish(id, outcome)
    \/ \E p \in posts : Post(p)
    \/ \E c \in Callers :
        \/ \E ids \in Requests : Wait(c, ids)
        \/ \E id \in 0 .. MaxId - 1 : Cancel(c, id)
        \/ Check(c) \/ Sleep(c) \/ Wake(c) \/ Timeout(c) \/ SendCancel(c)
        \/ Shutdown(c) \/ ShutdownNotify(c) \/ CleanRetained(c)

Spec == Init /\ [][Next]_vars

\* A waiter's look at the jobs and its sleep with no change since its wake;
\* the deadline of a shutdown.
DirectCheck(c) == c \notin unseen /\ Check(c)
DirectSleep(c) == c \notin unseen /\ Sleep(c)
Deadline(c) == callers[c].op = "shutdown" /\ Timeout(c)

\* The thread goes on with what a call has begun and polls a woken task.  The
\* look and the sleep of a waiter follow its wake without a break, and the
\* deadline is looked at whenever the waiter goes back to sleep: updates that
\* keep waking it do not keep it from its deadline.  Producers owe nothing: a
\* job may run for ever.
Fairness ==
    /\ \A op \in {"start", "update", "finish"}, id \in 0 .. MaxId - 1 :
            WF_vars(\E p \in posts : p.op = op /\ p.id = id /\ Post(p))
    /\ \A c \in Callers :
            /\ WF_vars(Check(c)) /\ WF_vars(Sleep(c)) /\ WF_vars(Wake(c))
            /\ SF_vars(DirectCheck(c)) /\ SF_vars(DirectSleep(c)) /\ SF_vars(Deadline(c))
            /\ WF_vars(SendCancel(c)) /\ WF_vars(ShutdownNotify(c)) /\ WF_vars(CleanRetained(c))

FairSpec == Spec /\ Fairness

-----------------------------------------------------------------------------
(***************************************************************************)
(* Properties.                                                             *)
(***************************************************************************)

\* The variables keep their types, and identifiers come from next_id.
TypeOK ==
    /\ next_id \in 0 .. MaxId /\ shutting_down \in BOOLEAN
    /\ DOMAIN jobs \subseteq 0 .. next_id - 1 /\ jobs \in [DOMAIN jobs -> Job]
    /\ terminal_order \in Seq(Ids)
    /\ logs \subseteq Ids /\ posts \subseteq Posts /\ unseen \subseteq Callers
    /\ callers \in [Callers -> Caller]

\* The queue names every retained terminal job once and no running one, so
\* that evict finds what it pops, forgets nothing and never evicts a running
\* job; it bounds what is retained.
Retention ==
    /\ \A i, j \in DOMAIN terminal_order :
            terminal_order[i] = terminal_order[j] => i = j
    /\ Elements(terminal_order) = TerminalIds
    /\ Len(terminal_order) <= MaxTerminal
    /\ Cardinality(RunningIds) <= MaxRunning

\* A waiter that sleeps and has not been woken waits for running jobs, or
\* for one whose end is about to be announced: no end falls between its look
\* at the jobs and its sleep.
NoLostWakeup ==
    \A c \in Callers : callers[c].pc = "asleep" /\ c \notin unseen =>
        \A id \in Asked(c) :
            id \in RunningIds \/ \E p \in posts : p.op = "finish" /\ p.id = id

\* A shutdown finds every job it waits for, however many jobs end before it
\* looks and push others out: it never fails for an evicted job.
ShutdownFindsItsJobs ==
    \A c \in Callers : callers[c].op = "shutdown" => callers[c].result # "not_found"

\* Once a shutdown began, all running jobs have been asked to stop; when one
\* has succeeded, none runs, and none will.
ShutdownStopsAll ==
    /\ shutting_down => \A id \in RunningIds : jobs[id].cancelling
    /\ (\E c \in Callers : callers[c].op = "shutdown" /\ callers[c].result = "ok")
            => RunningIds = {}

\* The output of a retained job stays until a shutdown cleans it (a failed
\* job may have lost it with its producer), and no log outlives its job and
\* the calls that are about to remove it.
LogsFollowJobs ==
    /\ \A id \in DOMAIN jobs :
            ~jobs[id].cleaned /\ jobs[id].state # "failed" => id \in logs
    /\ \A id \in logs :
            \/ id \in DOMAIN jobs /\ ~jobs[id].cleaned
            \/ \E p \in posts : id \in p.clean

\* The outcome of a job never changes, a stop that was asked for is never
\* taken back, and an evicted job never returns.
OutcomesAreFinal ==
    [][\A id \in DOMAIN jobs' :
        IF id \in DOMAIN jobs
        THEN /\ id \in TerminalIds => jobs'[id].state = jobs[id].state
             /\ jobs[id].cancelling => jobs'[id].cancelling
        ELSE id >= next_id]_vars

\* A call that waits for a job that has ended, or was evicted, returns.
WaitersLearn ==
    \A c \in Callers :
        /\ callers[c].op \in {"wait", "cancel"}
        /\ \E id \in callers[c].targets : id \notin RunningIds /\ id < next_id
        ~> callers[c].pc = "done"

\* A shutdown returns, even when producers never stop.
ShutdownReturns ==
    \A c \in Callers : callers[c].op = "shutdown" ~> callers[c].pc = "done"
=============================================================================
