----------------------------- MODULE AuthRefresh -----------------------------
(***************************************************************************)
(* The refresh of the provider's credentials                               *)
(* (src/src/providers/codex/auth.rs): one-time refresh tokens, exchanged   *)
(* by a task that outlives its caller and holds the lock of the credential *)
(* file, in backends that are shut down and crash, while another program   *)
(* logs in.                                                                *)
(*                                                                         *)
(* Credentials are a login (a family of tokens) and a generation in it:    *)
(* the service takes the latest refresh token of a family only.  A request *)
(* that is given up may reach the service at any time after, or never.     *)
(* Whoever writes the file writes a whole document.                        *)
(***************************************************************************)
EXTENDS Naturals

CONSTANTS
    Backends,       \* processes that refresh the credentials
    Tasks,          \* refreshes they start
    Locking,        \* whether the program that logs in takes the lock: the choices it has
    MaxRotations, MaxStarts

Outsider == "outsider"
Nobody == "nobody"

ASSUME AuthAssumption ==
    /\ Locking \subseteq BOOLEAN
    /\ MaxRotations \in Nat \ {0} /\ MaxStarts \in Nat
    /\ Backends # {} /\ {Outsider, Nobody} \cap Tasks = {}

VARIABLES
    backends,       \* "up", "draining" or "down"
    memory,         \* AuthFile.document of each backend
    pending,        \* PENDING: the refresh tasks each backend knows of
    tasks,          \* each refresh: its task and its caller
    file,           \* auth.json
    lock,           \* who holds auth.json.lock
    login,          \* the login another program makes
    families,       \* the service: the latest token of each family
    forfeited,      \* families whose latest token was lost by a fault
    reused,         \* families of which an old token was presented
    starts          \* restarts so far

service == <<families, reused>>
vars == <<backends, memory, pending, tasks, file, lock, login, service, forfeited, starts>>

\* The login before, and the one the other program makes.
Logins == {1, 2}
Credentials == [family : Logins, rotation : 0 .. MaxRotations]

\* waiting: the caller of refresh still waits, with the lock of the memory's
\* credentials; new: what the service gave; request: whether it was given up on
\* its way, and handled then.
Task == [pc : {"none", "lock", "load", "posted", "answered", "persist", "done", "failed"},
         backend : Backends, waiting : BOOLEAN, before : Credentials, new : Credentials,
         request : {"none", "late", "handled"}]

First == [family |-> 1, rotation |-> 0]
Unused == [pc |-> "none", backend |-> CHOOSE b \in Backends : TRUE, waiting |-> FALSE,
           before |-> First, new |-> First, request |-> "none"]

Finished(t) == tasks[t].pc \in {"none", "done", "failed"}
Of(b) == {t \in Tasks : tasks[t].backend = b /\ tasks[t].pc # "none"}
Latest(c) == families[c.family] = c.rotation

Init ==
    /\ backends = [b \in Backends |-> "up"] /\ memory = [b \in Backends |-> First]
    /\ pending = [b \in Backends |-> {}] /\ tasks = [t \in Tasks |-> Unused]
    /\ file = First /\ lock = Nobody /\ login = "none"
    /\ families = [f \in Logins |-> 0] /\ forfeited = {} /\ reused = {} /\ starts = 0

-----------------------------------------------------------------------------
(***************************************************************************)
(* The callers: runs and the model catalog of a backend.                   *)
(***************************************************************************)

\* refresh starts and registers a task; the caller holds the lock of the
\* credentials in memory while it waits.  Finished tasks are forgotten.
Refresh(b, t) ==
    /\ backends[b] = "up" /\ tasks[t].pc = "none"
    /\ \A u \in Of(b) : ~tasks[u].waiting
    /\ tasks' = [tasks EXCEPT ![t] = [Unused EXCEPT !.pc = "lock", !.backend = b, !.waiting = TRUE]]
    /\ pending' = [pending EXCEPT ![b] = {u \in @ : ~Finished(u)} \cup {t}]
    /\ UNCHANGED <<backends, memory, file, lock, login, service, forfeited, starts>>

\* Mutant: a dropped caller takes its task with it.
DropForgotten(t) ==
    /\ tasks[t].waiting
    /\ tasks' = [tasks EXCEPT ![t].waiting = FALSE]
    /\ pending' = [pending EXCEPT ![tasks[t].backend] = @ \ {t}]
    /\ UNCHANGED <<backends, memory, file, lock, login, service, forfeited, starts>>

\* The run is cancelled: the task goes on.
Drop(t) ==
    /\ tasks[t].waiting
    /\ tasks' = [tasks EXCEPT ![t].waiting = FALSE]
    /\ UNCHANGED <<backends, memory, pending, file, lock, login, service, forfeited, starts>>

\* The caller gets the result.
Return(t) ==
    /\ tasks[t].waiting /\ Finished(t)
    /\ LET b == tasks[t].backend
       IN  /\ pending' = [pending EXCEPT ![b] = @ \ {t}]
           /\ memory' = IF tasks[t].pc = "failed" THEN memory
                        ELSE [memory EXCEPT ![b] = tasks[t].new]
    /\ tasks' = [tasks EXCEPT ![t].waiting = FALSE]
    /\ UNCHANGED <<backends, file, lock, login, service, forfeited, starts>>

-----------------------------------------------------------------------------
(***************************************************************************)
(* The task: refresh_and_persist.                                          *)
(***************************************************************************)
At(t, pc) == tasks[t].pc = pc
Ends(t, pc) == tasks' = [tasks EXCEPT ![t].pc = pc] /\ lock' = Nobody

\* What the service gave t has not been stored, and will not be.
Forfeits(t) ==
    IF tasks[t].pc \in {"answered", "persist"} /\ tasks[t].new # tasks[t].before
    THEN {tasks[t].before.family} ELSE {}
Forfeit(t) == forfeited' = forfeited \cup Forfeits(t)

Lock(t) ==
    /\ At(t, "lock") /\ lock = Nobody
    /\ lock' = t
    /\ tasks' = [tasks EXCEPT ![t].pc = "load"]
    /\ UNCHANGED <<backends, memory, pending, file, login, service, forfeited, starts>>

\* Mutant: contention with another program is not bounded.
BusyWithTasks(t) ==
    /\ At(t, "lock") /\ lock \in Tasks
    /\ tasks' = [tasks EXCEPT ![t].pc = "failed"]
    /\ UNCHANGED <<backends, memory, pending, file, lock, login, service, forfeited, starts>>

\* CredentialStoreBusy: five seconds have passed.
Busy(t) ==
    /\ At(t, "lock") /\ lock # Nobody
    /\ tasks' = [tasks EXCEPT ![t].pc = "failed"]
    /\ UNCHANGED <<backends, memory, pending, file, lock, login, service, forfeited, starts>>

\* Mutant: the credentials in memory are exchanged.
PostMemory(t) ==
    /\ At(t, "load")
    /\ tasks' = [tasks EXCEPT ![t] = [@ EXCEPT !.pc = "posted", !.before = memory[tasks[t].backend]]]
    /\ UNCHANGED <<backends, memory, pending, file, lock, login, service, forfeited, starts>>

\* The file is read again, and its refresh token is sent.
Post(t) ==
    /\ At(t, "load")
    /\ tasks' = [tasks EXCEPT ![t] = [@ EXCEPT !.pc = "posted", !.before = file]]
    /\ UNCHANGED <<backends, memory, pending, file, lock, login, service, forfeited, starts>>

\* The service takes the latest token, and keeps it or issues the next one.
Rotated(before, new) ==
    /\ Latest(before)
    /\ new \in {before, [before EXCEPT !.rotation = @ + 1]} \cap Credentials
    /\ families' = [families EXCEPT ![before.family] = new.rotation]
    /\ UNCHANGED reused

Answer(t) ==
    /\ At(t, "posted")
    /\ \E new \in Credentials :
        /\ Rotated(tasks[t].before, new)
        /\ tasks' = [tasks EXCEPT ![t] = [@ EXCEPT !.pc = "answered", !.new = new]]
    /\ UNCHANGED <<backends, memory, pending, file, lock, login, forfeited, starts>>

\* RefreshFailed: the token is not the latest one.
Rejected(t) ==
    /\ At(t, "posted") /\ ~Latest(tasks[t].before)
    /\ reused' = reused \cup {tasks[t].before.family}
    /\ Ends(t, "failed")
    /\ UNCHANGED <<backends, memory, pending, file, login, families, forfeited, starts>>

\* The request fails or times out, with an answer of the service still to come.
NoAnswer(t) ==
    /\ At(t, "posted")
    /\ tasks' = [tasks EXCEPT ![t].pc = "failed", ![t].request = "late"] /\ lock' = Nobody
    /\ UNCHANGED <<backends, memory, pending, file, login, service, forfeited, starts>>

\* The service handles a request nobody waits for: the next token is lost.
HandledLate(t) ==
    LET sent == tasks[t].before
    IN  /\ tasks[t].request = "late"
        /\ tasks' = [tasks EXCEPT ![t].request = "handled"]
        /\ \/ \E new \in Credentials :
                /\ Rotated(sent, new)
                /\ forfeited' = forfeited \cup IF new = sent THEN {} ELSE {sent.family}
           \/ /\ ~Latest(sent)
              /\ reused' = reused \cup {sent.family} /\ UNCHANGED <<families, forfeited>>
        /\ UNCHANGED <<backends, memory, pending, file, lock, login, starts>>

\* The answer is lost, comes too late or makes no sense.
AnswerLost(t) ==
    /\ At(t, "answered")
    /\ Ends(t, "failed") /\ Forfeit(t)
    /\ UNCHANGED <<backends, memory, pending, file, login, service, starts>>

\* The file is read once more: ConcurrentCredentialChange if it has changed.
Recheck(t) ==
    /\ At(t, "answered")
    /\ IF file = tasks[t].before
       THEN tasks' = [tasks EXCEPT ![t].pc = "persist"] /\ UNCHANGED <<lock, forfeited>>
       ELSE Ends(t, "failed") /\ Forfeit(t)
    /\ UNCHANGED <<backends, memory, pending, file, login, service, starts>>

\* persist_atomically replaces the file.
Persist(t) ==
    /\ At(t, "persist")
    /\ file' = tasks[t].new /\ Ends(t, "done")
    /\ UNCHANGED <<backends, memory, pending, login, service, forfeited, starts>>

PersistFails(t) ==
    /\ At(t, "persist")
    /\ Ends(t, "failed") /\ Forfeit(t)
    /\ UNCHANGED <<backends, memory, pending, file, login, service, starts>>

-----------------------------------------------------------------------------
(***************************************************************************)
(* The backends, and the other program.                                    *)
(***************************************************************************)

\* The tasks and callers of b are gone, and the file lock with them.
Ended(b) ==
    /\ backends' = [backends EXCEPT ![b] = "down"]
    /\ pending' = [pending EXCEPT ![b] = {}]
    /\ tasks' = [t \in Tasks |->
                    IF t \notin Of(b) THEN tasks[t]
                    ELSE [tasks[t] EXCEPT !.waiting = FALSE,
                                          !.pc = IF Finished(t) THEN @ ELSE "failed",
                                          !.request = IF At(t, "posted") THEN "late" ELSE @]]
    /\ lock' = IF lock \in Of(b) THEN Nobody ELSE lock

\* The manager has ended every run: drain_pending_refreshes.
Shutdown(b) ==
    /\ backends[b] = "up"
    /\ backends' = [backends EXCEPT ![b] = "draining"]
    /\ tasks' = [t \in Tasks |-> IF t \in Of(b) THEN [tasks[t] EXCEPT !.waiting = FALSE] ELSE tasks[t]]
    /\ UNCHANGED <<memory, pending, file, lock, login, service, forfeited, starts>>

\* The drain has waited for the tasks; the runtime goes with any other.
Exit(b) ==
    /\ backends[b] = "draining" /\ \A t \in pending[b] : Finished(t)
    /\ Ended(b)
    /\ UNCHANGED <<memory, file, login, service, forfeited, starts>>

\* The process dies, with the tokens its tasks have not stored.
Crash(b) ==
    /\ backends[b] # "down"
    /\ Ended(b)
    /\ forfeited' = forfeited \cup UNION {Forfeits(t) : t \in Of(b)}
    /\ UNCHANGED <<memory, file, login, service, starts>>

Start(b) ==
    /\ backends[b] = "down" /\ starts < MaxStarts
    /\ starts' = starts + 1
    /\ backends' = [backends EXCEPT ![b] = "up"]
    /\ memory' = [memory EXCEPT ![b] = file]
    /\ UNCHANGED <<pending, tasks, file, lock, login, service, forfeited>>

\* Another program logs in, under the lock or without it.
BeginLogin(locks) ==
    /\ login = "none" /\ file.family = 1
    /\ locks => lock = Nobody
    /\ lock' = IF locks THEN Outsider ELSE lock
    /\ login' = "writing"
    /\ UNCHANGED <<backends, memory, pending, tasks, file, service, forfeited, starts>>

\* It stores the credentials of its login, once.
WriteLogin ==
    /\ login = "writing"
    /\ login' = "done"
    /\ file' = [family |-> file.family + 1, rotation |-> 0]
    /\ lock' = IF lock = Outsider THEN Nobody ELSE lock
    /\ UNCHANGED <<backends, memory, pending, tasks, service, forfeited, starts>>

-----------------------------------------------------------------------------
TaskStep(t) ==
    \/ Lock(t) \/ Busy(t) \/ Post(t) \/ Answer(t) \/ Rejected(t) \/ NoAnswer(t)
    \/ AnswerLost(t) \/ Recheck(t) \/ Persist(t) \/ PersistFails(t)

Next ==
    \/ \E t \in Tasks :
        \/ \E b \in Backends : Refresh(b, t)
        \/ Drop(t) \/ Return(t) \/ TaskStep(t) \/ HandledLate(t)
    \/ \E b \in Backends : Shutdown(b) \/ Exit(b) \/ Crash(b) \/ Start(b)
    \/ (\E locks \in Locking : BeginLogin(locks)) \/ WriteLogin

Spec == Init /\ [][Next]_vars

\* The runtime runs its tasks; the lock and the request have timeouts.
FairSpec ==
    /\ Spec
    /\ \A t \in Tasks : WF_vars(TaskStep(t))
    /\ \A b \in Backends : WF_vars(Exit(b))

-----------------------------------------------------------------------------
(***************************************************************************)
(* Properties.                                                             *)
(***************************************************************************)

\* The types of the state; a task between Lock and its end, and no other,
\* holds the lock of the credential file.
TypeOK ==
    /\ backends \in [Backends -> {"up", "draining", "down"}]
    /\ memory \in [Backends -> Credentials] /\ pending \in [Backends -> SUBSET Tasks]
    /\ tasks \in [Tasks -> Task] /\ file \in Credentials
    /\ lock \in Tasks \cup {Outsider, Nobody} /\ login \in {"none", "writing", "done"}
    /\ families \in [Logins -> 0 .. MaxRotations]
    /\ forfeited \in SUBSET Logins /\ reused \in SUBSET Logins /\ starts \in 0 .. MaxStarts
    /\ \A t \in Tasks : lock = t <=> tasks[t].pc \in {"load", "posted", "answered", "persist"}

\* A one-time token is presented twice only if a fault lost the one after it, or
\* a request that was given up reached the service after all: callers that are
\* dropped, other refreshes of this or another backend and restarts go on with
\* the token in the file, which the lock lets one of them spend.
TokensAreSpentOnce ==
    \A f \in reused :
        f \in forfeited \/ \E t \in Tasks : tasks[t].request = "handled" /\ tasks[t].before.family = f

\* README.md: shutdown waits for a refresh that was dispatched, so that a
\* rotated token is not lost.  The latest token of the login in the file is
\* stored there, or on its way in a task, unless a fault lost it.
RotationsAreKept ==
    \/ Latest(file) \/ file.family \in forfeited
    \/ \E t \in Tasks : tasks[t].pc \in {"answered", "persist"} /\ tasks[t].before = file

\* A shutdown ends, whoever holds the lock and whether or not the service
\* answers.
DrainEnds == \A b \in Backends : backends[b] = "draining" ~> backends[b] = "down"
=============================================================================
