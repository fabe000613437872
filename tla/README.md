# A verification project for moh

`moh` is a terminal chat client for a coding agent with a per-user backend
process: the backend owns every session, runs the model and its tools, stores
sessions in SQLite, and serves terminal clients over a local Cap'n Proto
connection.  This directory holds TLA+ models of that backend, the TLC
configurations that check them, and proofs checked by TLAPS.  Paths below are
relative to the repository.

## 1. Inventory

| Component | State it keeps | Operations | Interacts through |
|---|---|---|---|
| Session actor (`src/session/actor.rs`) | durable record, retained ("dirty") checkpoint, projection, harness, observers, `deleting` and `shutting_down` | submit, cancel, select model/reasoning, rename, generated title, plan update, run events, job changes, attach/detach, prepare/finish/abort delete, flush, shutdown | mpsc commands, run events, plan requests, job watch; store; activity tracker |
| Store (`src/session/store.rs`) | sessions, turns, transcript, history, plan items | materialize, resolve, load, list, rename, compare-and-set title, delete, checkpoint, update metadata | called by the actor and the manager |
| Projection (`src/session/projection.rs`) | in-memory session snapshot and event sequence | apply, apply unsequenced, install a started run | owned by the actor |
| Harness (`src/harness`) | run slot, run identifiers, model history | submit, next event, cancel | owned by the actor |
| Manager (`src/session/manager.rs`) | live actors, title tasks | startup, open, materialize, list, rename, delete, attach/detach, flush, shutdown | commands from connections; actor handles |
| Job registry (`src/tools/job.rs`) | jobs, order of their ends, version watch | start, status, update, finish, wait, cancel, shutdown | bash tool, job tools, actor |
| Bash tool (`src/tools/bash.rs`) | a child process and its output | run in foreground, hand over to a job, time out | job registry |
| File tools (`src/tools/{read,edit,write,anchor_store,observations}.rs`) | anchors of lines, observed versions of files | read, edit, write | file system |
| Plan tool (`src/tools/plan.rs`) | queue of plan replacements | replace, receive, answer | actor |
| Backend lifetime (`src/backend`, `src/server.rs`) | connection and run counts, idle deadline, socket | accept, idle check, shutdown | listener, manager |
| Local launch (`src/local`) | socket, start lock | connect or start a backend | other processes |
| RPC server and client (`src/rpc/{server,client}.rs`) | connections, attachments, event slots | every session call, event delivery, reattachment | client workspace, manager |
| Client workspace and app (`src/client`) | projection copy, draft, browser | event reducer, switching, deletion fallback | RPC client |
| Authentication (`src/providers/codex/auth.rs`) | tokens | refresh, login | provider |
| Provider, agent runtime (`src/providers`, `src/runtime`) | one request's stream | stream events, tool loop | harness |
| Encoding, rendering, command line | none that outlives a call | | |

What is hard to test here: a store that fails between the steps of a handler;
several copies of one fact (is a run active? what is the title?) updated one
by one; a deletion that spans four messages with other commands between them;
crashes during a run, a refresh or a shutdown; observers that fall behind and
clients that attach again; futures dropped at an await; counters at their
limit; waiters that race the end and the eviction of a job; a backend that
decides to exit while a client connects; processes that outlive the shell that
started them; and files and sockets that change between two system calls.
`PROJECT.json` lists each such hazard at its line, with the properties that
cover it or the reason why none does.

What makes each component correct:

* actor, store, projection, harness: one answer to the question whether a run
  is active, nothing shown that is neither stored nor retained, well-formed
  transcripts and model histories after any failure and any crash;
* job registry: each job ends once, no waiter sleeps past the end of its job,
  shutdown finds and stops every job and returns by its deadline;
* manager: the store never goes back to something older and a clean end is
  saved, as long as no refused deletion has left a run to itself; a connection
  that ended is forgotten by every actor the manager still has;
* backend lifetime: an idle exit cuts nobody off, an exit without an error
  leaves nothing behind, and a quiet backend exits;
* local launch: clients alone never start two backends, and a backend that
  listens keeps its place at the path but in a few known races;
* RPC: a client shows a state the session had, never an older one than before,
  is told of a deletion only if there was one, and of one that was made unless
  its connection or the store fails it;
* workspace: what is presented is what is attached, and nothing else stays
  attached;
* bash tool: a report is complete, and what was stopped is gone;
* authentication: but for faults and requests that were given up, a one-time
  token is spent once and a rotation is not lost;
* file tools: only a text the session has seen is replaced, and an anchor goes
  from a line to one of its content, and stays where all of that content stays.

## 2. Modules

| Module | Models |
|---|---|
| `SessionRecord` | The data of a session: record, events, durable effect of an event, what the store's operations write, the projection's reducer and the reducer of the client, which the code writes a second time. Operators only. |
| `SessionActor` | One session for its whole life: the stored row, the actor with its harness, its observers, and the manager's routines around it. Extends `SessionRecord`, implements `DurableSession`. |
| `DurableSession` | Abstract: what a session keeps, and when its clients must have been warned. |
| `JobRegistry` | The registry of background jobs: producers that start, report, end and lose jobs, eviction, logs, and callers that wait, cancel and shut down. |
| `SessionManager` | The manager's mailbox, several sessions, the incarnations of their actors, connections, title tasks, shutdown. |
| `BackendLifetime` | One backend process: accepting, activity, the idle decision, the ordered shutdown. |
| `LocalLaunch` | Clients and backend processes around the socket path and the startup lock. |
| `SessionView` | Abstract: what a client is promised of the session it looks at. |
| `RpcSession` | Actor, delivery tasks, connections and the client that attaches again. Implements `SessionView`. |
| `ClientWorkspace` | The one chat a terminal client presents: drafts, switching, deletion and its fallback, recovery, as the event loop interleaves them. |
| `BashSupervisor` | One command: call, job, supervisor, readers and the processes it starts. |
| `AuthRefresh` | Refreshes of one-time tokens by tasks of several backends, the file, its lock, the service and a login by another program. |
| `LineAnchors` | Allocation and carrying over of the anchors of lines. Operators only. |
| `FileTools` | read, edit and write of several sessions, observations, the anchor store and other programs. Extends `LineAnchors`. |
| `MC...` | Constants and symmetries for TLC. |
| `SessionActorProofs` (also of `SessionRecord`), `JobRegistryProofs`, `SessionManagerProofs`, `BackendLifetimeProofs`, `ClientProofs` (of `LocalLaunch` and `ClientWorkspace`), `RpcSessionProofs`, `AuthRefreshProofs`, `ToolsProofs` (of `BashSupervisor` and `FileTools`) | Theorems and proofs. |

The modules are composed where the components meet, each at its own grain:
`SessionActor` contains the manager's routines around one session, and
`SessionManager` several sessions with a record cut down to what those routines
can confuse.  `RpcSession` goes on where an actor's observer queue ends;
`ClientWorkspace` uses what `RpcSession` shows of a stream, that it ends in an
update, a recovery or a deletion.  `BackendLifetime` sees of a session whether it
runs, has jobs or is unsaved, and `LocalLaunch` of a backend whether it listens.
`BashSupervisor` is a producer of `JobRegistry`, and the registry appears in
`SessionActor` as the outcome of its shutdown and the changes of its count.

### How the models correspond to the code

The backend and the client run on current-thread Tokio runtimes
(`src/main.rs`), so a step is what runs between two awaits that another task can
get between; the modules name their variables after the fields and their actions
after the functions.  Where it is otherwise:

**Session.** An actor handles one input to the end before it takes the next, so
a handler is one action that makes every state change of the handler: the
record, the retained checkpoint, the row, the projection, the observers' queues,
the harness and the activity tracker.  A store operation is one SQLite
transaction; inside a handler it commits or fails, which is the action's
parameter `ok`.  A checkpoint also fails when there is no row to update:
`Stores(ok) == ok /\ Exists`.  An observer is its two ends: `sender` is the
registration in the actor, `receiver` the delivery task of the connection,
`queue` the channel between them, `view` the projection its client keeps.  The
manager awaits each actor's answer, so attach, rename, flush, shutdown and the
step that begins a deletion need `ManagerIdle`; submit, cancel and the
selections go to the actor directly and may be handled between the steps of a
deletion (`PrepareDelete`, `RepositoryDelete`, then `FinishDelete` or
`AbortDelete`).  Prompts, answers, titles, models and plans are model values,
streamed text is the number of its deltas; timestamps, the working directory and
list order are left out.  The engine is the choice of its next event.

**Jobs.** A step of `JobRegistry` is one critical section of the mutex.  What a
call does after it unlocks, removing logs and announcing a new version, is a
step of its own (`Post`), and so are a waiter's look (`Check`), its sleep
(`Sleep`) and its wake (`Wake`).  On the single thread these follow each other
without a break, which is one of the interleavings checked; the others are those
of a multi-threaded runtime, which the type (`Arc<Mutex>`, `Send` futures)
allows.  The version watch is `unseen`, the callers that have not seen the latest
version.  A job's token is left out because identifiers are not used again, and
so is the timeout of a wait, which may pass whenever the waiter is asleep.

**Manager.** `mailbox` is the command channel, `manager` the command under way
and how far it is, `registry` the map `SessionManager.actors`, and `actors`
every actor that was ever started, so that one that lives on without a handle
stays in the state.  `orphans` is a history of those: the actor whose deletion
failed and whose handle `manager.rs:779` removed although it lives, and whether
it was running.  Such an actor goes on with its run and its checkpoints while
another is opened over the same row; one that runs nothing ends when it
likes (`Unheard`), since the model does not follow who else holds its sender.
Of a record the number of changes, the revision of the title and whether its
last run goes on are kept; loading a record whose run goes on writes its end.
A step is what an actor does for one call; runs and their checkpoints come
between two calls of a loop over the actors.

**Backend.** `loop` is the place in `run_backend`: the serve loop, the flush of
the idle decision, and the five stages of the shutdown.  `backlog` and `noticed`
keep apart a connection that waits in the kernel and one the runtime knows of;
`changed` is what the activity watch has not shown to `wait_for_idle` yet.
`tracked` is the count the monitors have copied from the registries, which may
be behind `jobs`.

**Launch.** Each system call on the path is a step: a look at the file and the
removal that follows it are two, and so are bind and listen.  A socket file is
its inode and its change time.  A backend remembers the inode (`identity`), a
client both.  A number is given out again once the file is gone and no process
has it open, and a time at any moment: the ticks of the clock are coarse, and it
can be set.  Two variables are histories: `raced`, whether a race has happened in
which a live socket can be taken for an old one, and `stray`, whether a
backend was started by hand or left behind by a client that gave up waiting.

**RPC.** An event is its sequence number, and a view the list of changes applied
to it, so that a lost, repeated or reordered change shows.  A stream of an
attachment is the actor's queue, the event the delivery task sends, and the
client's buffer; after a new attachment the old stream goes on until it is
detached.  An attachment is answered, finds no session, or fails otherwise
(`OpenFails`), which ends the client with an error (`Failed`).  `lives` has one
entry for each actor the session has had.
`Refused` are the events that one of the two sides cannot convert.

**Workspace.** One call of the backend is one step.  The event loop awaits a
command of the user to its end, but drops the future of `next_update` at every
frame: `op` tells which operation awaits, and an operation of `next_update` may
be dropped there.  `clean` remembers that no call failed and no future was
dropped.

**Bash.** `supervisor` is the place in `run_supervisor` and `finish_child`, with
its `select!` over the end of the shell, the cancellation, the timeout and a
failed capture.  The processes are the environment.  They fork, write, close
their output, leave the group, catch SIGTERM and end as they like; a signal is
delivered when it is sent.

**Authentication.** A credential is a login and a generation.  The service
rotates when it handles a request, which may be after the caller gave it up, or
never.  A task of `refresh` outlives its caller; `pending` is the list that
`drain_pending_refreshes` awaits.  A request times out at the client: `NoAnswer`
gives up the task and with it the lock, and `HandledLate` is the service's
handling of that request, at any time after, when other tasks may have posted the
same token, or never.

**Files.** A text is its lines, a link is a name that leads to a file.  Work on
files and on the store is done by blocking tasks, which go on when the run is
cancelled: a step is such a task.  The last look at a file and its replacement
are one step (README.md:291-293 of the repository says that another program can
come in between).

## 3. Runs

| Run | Question | Bounds |
|---|---|---|
| `durability` | Do transcript, turns, model history and run state stay consistent, and does a session keep what `DurableSession` promises, when any store operation, the job registry or the process fails? | 1 prompt and answer, 2 turns, 4 items, 2 titles, 2 models, 2 plans, sequence to 2, one run identifier, revision to 1, no observers |
| `observers` | Does a registered client have every event, does its reducer agree with the server's, and does a deletion that has begun end the actor? | 1 client that attaches again, capacity 2, sequence to 3, 1 turn |
| `delete` | Does a failed deletion preserve the session, as the design says? (violated) | 1 turn |
| `jobs` | Is an end lost between a look and a sleep, does a shutdown find and stop its jobs, and does every call return? | 2 running, 2 retained, identifiers to 3, 1 job that reports, 1 caller |
| `manager` | What do failed deletions and shutdowns, dead actors, actors the manager has lost and a failing store do to what is stored? | 2 sessions, 1 connection, mailbox of 2, 4 commands, 2 changes, 1 fault |
| `backend` | Does the idle decision cut anybody off, does an exit without error leave anything, and does a quiet backend exit? | 1 session, 2 connections, backlog of 1, 1 title, an actor that may panic |
| `launch` | Does a backend that listens ever lose its place at the path in another way than by the races it names, and do clients alone ever start two? | 2 clients, 3 backends, any of them started by hand, 2 inode numbers, 2 change times |
| `rpc` | Is what a client shows a state the session had, in order, and does it catch up or learn why not? | 2 clients, one of them stuck, sequence to 2, 2 attachments, capacities of 1, event 2 cannot be converted, 3 changes, 2 actors |
| `workspace` | Is what is presented what is attached, through every order of commands, updates, failures and dropped futures? | 2 sessions, 4 attachments |
| `bash` | Is a report complete, is what was stopped gone, and does a dropped call stop its job? | 2 descendants, 2 pipes, descendants that leave the group, 1 failed capture, 1 line for each pipe |
| `auth` | Are one-time tokens spent once and kept, though requests are given up and handled late, and does a shutdown end? | 2 backends, 2 refreshes, 2 rotations, 1 restart, a login that takes the lock or not |
| `files` | Is only a text replaced that the session has seen, and does an anchor go only to a line like its own, from one stored row to the next? | 2 sessions, 2 files and a link, 2 lines whose anchors collide, 3 slots, so that they can run out, 2 calls, 3 uses, 2 outside changes, 1 fault |

Bounds.  Limits of the code are constants made small, so that they are reached:
`ObserverCapacity`, `Capacity` and `ClientCapacity` (128 events), `MaxSequence`,
`MaxRunId`, `MaxId`, `MaxAttachment`, `MaxConnection` (`u64::MAX`), `MaxRunning`
(16), `MaxTerminal` (64), `MaxMailbox`, `HashSpace` (62^3).  Where it matters
the constants keep the relation they have in the code: `MaxRunning <=
MaxTerminal`, a probe stride that reaches every slot, and a slot for each line of
a text (`MaxLines <= HashSpace`).  Bounds of the model
only are `MaxTurns`, `MaxItems`, `MaxDeltas`, `MaxRevision`, `MaxBacklog`,
`MaxTitles`, `MaxChanges`, `MaxLives`, `MaxCommands`, `MaxFaults`, `MaxUses`,
`MaxLines`, `MaxFailures`, `MaxRotations`, `MaxStarts`; and `Inodes` and `Times`
are as small as they may be for a number or a time to be given out again.

* Two turns are enough for an earlier outcome that a later step could spoil,
  with a failed checkpoint and a crash at any place between them; two models
  with different levels and two plans make settings and plan differ between
  record and row.
* A capacity of 1, with the slot reserved for the deletion, shows both ways of
  falling behind.  Two attachments for each client are a recovery and the end of
  the identifiers; two actors are a restart, after which the sequence starts
  again.  The stuck client fills its buffer and its queue while the other
  follows the session.
* With two running jobs, two retained and three identifiers, a shutdown waits for
  two jobs while an earlier one is retained: when both end before it looks again,
  the earlier one is pushed out, and one that evicted the newest would push out
  a job it waits for.  The proofs cover the other sizes and several callers.
* With three backends one exits while a second is started and a third is
  started by hand.  Two inode numbers are enough for one to be given out again
  while the other is in use, which is every race of the third and fourth item of
  "Where code and documents disagree".
* One fault and four commands are, in `manager`, two sessions that are opened, a
  shutdown that fails part way, and an open or another shutdown after it.
* Three uses are, in `files`, a read by each session and an edit, or a read, a
  write and an edit.

Deadlock is not checked where the system really stops or a bound is used up: a
deleted session, a joined backend process, a client that gave up, an ended job.

### Fairness

Tokio polls a task again once what it awaits is ready, so weak fairness of the
program's own tasks is justified; of users, of processes a shell starts, of
models, of the service and of other programs nothing is assumed.

* `observers`: the manager's delete steps and each connection's delivery task.
* `jobs`: every step a call has begun; strong fairness of a look and a sleep
  that follow a wake with no new version in between, since on the single thread
  they follow directly, and of the deadline of a shutdown, which `timeout_at`
  looks at whenever the waiter has nothing new to see.
* `backend`: the steps of the loop, the manager, the monitors, the titles and
  the connection tasks that are hung up; strong fairness of `ReceiveSignal`,
  since the `select!` chooses among its ready arms at random.
* `rpc`: the answers of the server, the delivery tasks, and the polls of clients
  that are not `Stuck`.
* `workspace`: weak fairness of the calls that are awaited; strong fairness of
  taking a warning, beginning and ending a recovery and handling a deletion:
  the future of `next_update` is dropped every 16 ms and polled again, and one
  of infinitely many polls gets through.
* `bash`: the supervisor, its grace period, the readers, and the choice of the
  cancellation once it is ready, whatever else stays ready.  Not the processes.
* `auth`: the steps of a refresh and the exit of a backend; its timeouts are
  steps of the task, so neither the service nor the lock's holder owes anything.

`manager`, `launch` and `files` are checked for safety only.

## 4. Properties

Each is stated in words above its definition.  The ones that need a word more:

* `DurableSpec` is `DurableSession`'s specification, with the row as what is saved,
  the record as what is shown, and the warning, or a deletion under way, as what
  clients were told.  A conversation is only continued, and a turn gets one outcome,
  last; a title only advances, beside whatever could not be saved; and a session
  that closes, for whatever reason, leaves all it showed or had warned.
* `StoredOrDirty`: what an actor shows is exactly in the store, or the whole of
  it is in the retained checkpoint; `RunAgreement`: harness, projection, record
  and activity tracker are four copies of whether a run is active, and which.
* `ViewSpec` is `SessionView`'s specification under the mapping that takes a
  client's view for what it applied, and its end for the reason it gave;
  `NothingIsLost` says of every moment in between that the view and what is on
  its way make up the actor's changes.  `ClientsCatchUp` and
  `DeletionIsReported` are their liveness.  A client of a deleted session that
  attaches again and fails for another reason than that there is no session is
  not told: `client.rs:801` returns the error and `client/app.rs:1135` ends the
  program with it.  `DeletionIsReported` lists this as an end beside those by the
  connection, by the numbers and by an event that cannot be read.
* `StoreNeverGoesBack` and `CleanEndsAreSaved` speak of every session but one that
  is `Contested`: a run that a refused deletion has left to itself stores beside
  whatever is opened after it (the eighth item below).  An actor lost without a
  run is no excuse: it accepts nothing and stores nothing.
* `ListenersAreLostInRaces` gives the conditions under which a backend that listens
  may no longer be the one at the path; they are those of the third and fourth
  item below.  `raced` is set when a socket is bound into one of them, and
  a violation would be a way to lose a listener that is not among them.
  `StartsAreApart` is what the startup lock adds.
* `TokensAreSpentOnce` excuses a token spent twice by a fault that lost the one after
  it and by a request that was given up and handled after all, which no client can
  tell from one that was never handled.
* `AnchorsFollowLines` is about the row that a save replaces.  It asks for the content
  of lines, for how many keep an anchor, and for the place of lines that stay; it
  leaves out a read that another one has overtaken, and says of repeated lines
  less than the design (the tenth item below).
* `CaptureIsTotal`, `NothingIsLeftBehind` and `AbandonedCallsStop` are about
  processes that outlive the shell; they leave out the case of the sixth item
  below.
* `CleanExitLeavesNothing` relates the exit code to sessions, jobs, titles,
  connections and socket; `QuietBackendExits` asks that nobody connects any
  more and that everything is saved.
* `RegistrationsAreExact` is about clients whose calls did not fail and whose
  futures were not dropped (`clean`): what a failed call left attached the client
  cannot know.  `ClientSettles` asks that a client does not go on presenting a
  session without updates; a draft is enough, also where the design asks for the
  running session (the fifth item below).

Every property has a mutant of the code's behaviour that breaks it; the mutants
are beside the definitions they replace.

## 5. Proofs

All assumptions on constants are named: `RecordAssumption`, `ActorAssumption`,
`RunAssumption`, `RegistryAssumption`, `ManagerAssumption`, `BackendAssumption`,
`RpcSessionAssumption`, `WorkspaceAssumption`, `LaunchAssumption`,
`BashAssumption`, `AuthAssumption`, `LineAnchorsAssumption`,
`FileToolsAssumption`.  Sizes are arbitrary; absent values differ from present
ones.  No theorem assumes more.

**Session.** `TypeCorrect` is mostly that events are valid for the projection they
are applied to, and that interrupting a stored record gives a record whatever
the number of running turns.  `Safety` is the inductive invariant: neither
`RunAgreement` nor `StoredOrDirty` is inductive alone.  A run event is recorded
only if it applies to the record and to the projection, which needs the agreement
on the run; a metadata update stores the record only if the row differs from it
in title and settings alone, which needs `StoredOrDirty`; an event shows the
record it produced only if the projection showed the one before.  `DeletionInv`
adds the manager's place: the row is removed only while its actor waits for the
end of its deletion.  From it follow `RunAgreementHolds`, `StoredOrDirtyHolds`,
`ProjectionShowsRecordHolds`, `WarningMeansUnsavedHolds` and the action
properties `ShutdownStoresRecord` and `DeletedRowStays`.

`RecordSafety` is about the conversation itself.  A transcript keeps its form only
if the running turn is the last one and explains the items behind the answers of
the others; the history has the completed turns and no others only if harness and
record agree on it at the moment a run ends, whether or not its checkpoint works;
and what a checkpoint stores extends the row, because a record advances or keeps
its transcript in every step.  The counting is done once, in lemmas on the turns
that a predicate selects from a sequence which grows at its end.  From it follow
`TranscriptsStayWellFormed` (row, record and retained checkpoint),
`HistoriesStayCompletedTurns`, `StoredOutcomesStay` and `StoredTitleOnlyAdvances`.

`DurableCorrect` is the refinement of `DurableSession`, from the same classes of
steps (`StepHasShape`): a record that advances is a step of the conversation or a
choice of settings and plan (`AdvancesConverses`), a stored title is one for both
copies, a row that is loaded has its running turn ended, and an actor that ends
stores its record or leaves the row alone.  What is missing in the row then,
`Honest` says, which is `StoredOrDirty` and `WarningMeansUnsaved` together.

`ClientsReplay` says that folding the client's reducer over its queue leads from
the view to the projection.  The fold is not unfolded by induction: the
invariant names the intermediate states, and an event that is queued adds one.
`ViewsFollow` is its consequence for every capacity and number of clients.

**Jobs.** `RegistrySafety` is the inductive invariant.  `ShutdownFindsItsJobs`
needs an argument about numbers: no job starts during a shutdown, so what can
still push a job out of the queue are the jobs that run.  For a job that a
shutdown waits for and that has ended at place `k` of the queue, the jobs behind
it and the jobs still running are fewer than `MaxRunning`; as `MaxRunning` is at
most `MaxTerminal`, they never push it past the end.  `RegistryTypes`,
`RetentionHolds`, `NoWakeupIsLost`, `ShutdownStopsEveryJob`,
`LogsAlwaysFollowJobs`, `OutcomesNeverChange` follow from the same invariant.

**Manager.** Every step has one of a few effects on actors, registry and store
(`Effect`): an actor is watched, retitled, checkpointed or ended, a handle is
dropped, an actor is started, the store alone changes.  The invariants are kept by
the effects, not action by action.  `ShapeHolds` says that the manager asks only
whom it has registered (`ManagerAims`), although a loop over the actors goes on
while others end.  That no more actors are started than commands were sent
(`TypeCorrect`) is not inductive: the invariant `Counts` numbers the commands
in the mailbox, and a bound holds by the number of the last one that was handled.
`SavedHolds` relates each incarnation of an actor to the row: a live one has the
stored title and at least the stored changes, and one that was stopped no more
than is stored.  `ConnectsHolds` follows the commands of a connection through the
mailbox: none is behind its detachment, and while the round of the detachment
goes on, every live actor has forgotten the connection or is still to be asked.
`CleanEndsCorrect`, `StoreCorrect` and `ForgottenCorrect` have no hypothesis.  They
need to know who may live beside the registered actor, which is `Followed`
(`OrphansAreRefused`): an actor without a handle was lost by a deletion it had
refused; it refused because it is shutting down, so it starts no run, and runs
only if it ran when it was lost.  Nothing else in the code loses a handle, neither
panics, failed shutdowns nor opening a session twice.  `SavedHolds`, and with it
the store, is therefore about the actors with a handle and any number of lost
ones without a run beside them; while a run of a lost one goes on, the session
is `Contested`.

**Backend.** `LifetimeSafety` is the inductive invariant.  The idle decision is
safe because of what follows from a waiter that was not woken: the backend is
idle, and during the flush whatever is unsaved is an actor that has still to be
asked (`IdleInv`).  The exit is clean because an actor that refuses sets an
error which is never taken back, and without one nothing is left of what the
manager, the join and the close were to end (`DrainInv`, `CloseInv`).
`CleanExitCorrect` and `IdleExitCorrect` hold for any number of sessions,
connections and titles.

**RPC.** `ViewCorrect` is the refinement: `Spec => ViewSpec`, for any number of
clients, attachments and actors.  The inductive invariant `Inv` has two parts.
`ClientInv`: the view is a state of the actor it names, and a snapshot a client
is about to show is no older than its view.  `StreamInv`: whatever is on the way
of an attachment was made by the actor it was attached to, "deleted" is on the
way only after the deletion, an observer belongs to the last actor and has at
most `Capacity` events queued, and an identifier that was not used has no
stream.  The lemmas follow an event from the queue to the view (`SentMoves`,
`BufferMoves`, `ReceiveMoves`).  `TerminalEventCorrect` is a part of it: the slot
for the deletion is free whenever it may be needed.

`OrderHolds` adds the order: from the number a client shows, or will show first
while its attachment is answered, the buffered, published and queued events of
the attachment are numbered without a gap, and reach up to the actor while the
actor keeps the observer.  Taking, publishing and receiving move an event from one
part to the next and leave the numbers alone.  `NothingIsLostCorrect` follows.

**Workspace.** `WorkspaceTypes`, `ProjectionCorrect` and `RegistrationsCorrect`, the
two last from `AttachmentInv`: an operation that falls back holds no session, and
what is registered is the session, its recovery, or in the hand of the operation
that awaits.  They hold of every workspace, whatever else its constants are.

**Launch.** `ListenersLostInRaces` follows from `ListenerInv`, which holds until
`raced`: whoever has a socket that is bound is at the path (`LiveAtThePath`); an
exiting backend that has its number on record, or has looked, is about to
remove its own (`Recorded`); and the file a client takes for stale is the one it
saw before its first attempt, whose backend is gone (`Judged`).  It assumes
nothing about numbers and times, and does not use the startup lock.
`StartsKeptApart` does: the client that has started a backend waits for it
with the lock in hand (`LockHolderStarts`), and only one is on its way
(`OneStarts`).

**Bash.** `SupervisorTypes`, `CaptureCorrect` and `LeftBehindCorrect` follow from
`SupervisorInv`.  A line that was written is in its pipe or shown, and a reader
that has ended has left none and nobody who could write another (`LinesInv`);
where the supervisor is decides what it may still report (`StageInv`); a group
that was killed stays empty, since only its members could start another
(`GroupInv`).  That nothing is left of a stopped command needs no assumption on
`MayLeave`: it speaks of the group, and a process that has left it is no longer
the supervisor's (item 6 below).

**Files.** `OnlyObservedCorrect` follows from `SeenInv`: whatever counts as observed
was seen by the session, and a call that is about to replace a text holds one
that was, at every await at which others write, restart or drop it.

`FileToolsTypes` follows from `TypesInv` beside it: what an edit makes of a text is
a text (`EditedText`), and the anchors that a load gives are as many as the lines
and all different, which is what the store must have of them.  Like all that
follows it is about loops: `Walk`, over the old places of a content, and `Taken`,
over the lines that get an anchor.  Both are recursive functions.
`WalkIsDefined` and `TakenIsDefined` unfold them (`Recursion`), and what they
do is shown by an induction that needs no operator as a parameter: a set of
numbers has a least element (`Least`, from the library's well-founded orders).

`AnchorsCorrect`: the pairs that `nearest_occurrence_pairs` takes match each line
with one of its content (`KeptPairsMatch`), no two with one, and as many as both texts
have of it (`PairsAreCounted`); where all old places of a content are places of
the new text too, each is paired with itself (`OccurrencesStay`, `KeptPairsStay`); a
line in a pair keeps its anchor, any other gets a slot that no line of the
previous version had (`HashesFollowPairs`).  A load makes such a row from the one
it read (`LoadFollows`), and only `Save` stores one (`OnlySaveStores`).  So the
property holds of every save that replaces the row its load read, and of every
order of loads, saves and changes around it.

`PanicIsCharacterised` says when `allocate_one` panics: exactly if the stored
lines and those new ones that find none of their content among them are more
than `HashSpace` together, and never on the first read of a file.  That a free
slot is found as long as there is one (`AllocationSucceeds`) needs a stride that
reaches every slot, as 3907 does among 62^3; the rest counts slots
(`SlotsSuffice`, `SlotsAreNeeded`).

**Authentication.** `SpentOnceCorrect` and `RotationsCorrect` hold whoever takes
the lock.  They follow from `CredentialInv`: one task holds the lock
(`OneHolder`); what it sent is the latest token of the login it read but for a
fault, and what the service answered is the latest; the file is as the task read
it, or a login without the lock has overtaken it (`Overtaken`), which is then the
latest of its own family; every task under way is awaited by its backend.  A
request that was given up may be handled between any two of these steps: it
forfeits the family it rotates, or is itself the one that spends a token twice.

Every safety property that a run checks is proved, for every value of the
constants; the violated one of `delete` aside.  Only model-checked is liveness, since
fairness and ENABLED are out of the prover's reach: `DeletionSettles`,
`WaitersLearn`, `ShutdownReturns`, `QuietBackendExits`, `ClientsCatchUp`,
`DeletionIsReported`, `ClientSettles`, `AbandonedCallsStop` and `DrainEnds`.

## Where code and documents disagree

The first is kept as the run `delete`.  The others were met while modelling: the
modules contain them, and the properties leave them out as described.

1. **A failed deletion loses an answer.**
   `docs/superpowers/specs/2026-08-28-session-management-design.md:439` says
   "Delete failure preserves the session and never reports success."  The
   checkpoint of an answer fails, so the actor retains it and warns; the session
   is deleted; `prepare_delete` checkpoints again, fails again and reports it;
   `abort_delete_actor` in the manager drops the actor and the retained
   checkpoint with it.  The next open loads the session without the answer.
2. **A termination may never end.**
   `docs/superpowers/specs/2026-08-26-client-server-architecture-design.md:456-458`
   promises a "bounded best-effort flush"; `server.rs:367-372` waits for the
   manager and for its task without a bound.  Schedule: a client is attached to
   a session, and an actor cannot stop (it panicked, or its last checkpoint
   fails); the backend gets a signal and leaves the loop; `Shutdown` answers
   with an error, and the manager's task goes on until its mailbox is closed;
   the client's connection holds a session capability, and with it a sender of
   the mailbox; connections are closed by `close_and_join_connections`, which
   comes after the join.  The backend stays until that client leaves by itself.
   In `BackendLifetime` this is the state `loop = "join"`, `manager =
   "lingering"`, `attached # {}`.
3. **Two backends of one user.**
   `docs/superpowers/specs/2026-08-26-client-server-architecture-design.md:210`
   says "so one backend wins".  There are two ways around it.
   (a) `server.rs:361` drops the listener before the sessions are saved, and the
   socket file stays.  A client is refused, takes the socket for stale, removes
   it and starts a backend, which opens the store while the first still writes it.
   (b) `remove_stale_socket` looks at the path and removes it by two system calls
   (`launch.rs:371-387`).  A client inspects the socket of a backend that exits;
   that backend removes it; one that was started by hand binds; the client
   removes its socket, and starts another: both listen, and the first cannot be
   found.  The same happens if the new socket has number and change time of the
   one the client saw before its first attempt, and if the client under the lock
   connects between `bind` and `listen` of a backend that it then takes for a
   stale one.  In `LocalLaunch` these set `raced`.
4. **The wrong socket is removed.**  `:509` of the same document says that the
   backend "removes the exact owned socket path".  `unlink_bound_socket`
   (`server.rs:482-497`) compares device and inode, and then removes whatever is
   at the path.  If the path was removed as stale and bound again, between the two
   calls or with the same inode number, the exiting backend removes its
   successor's socket.  These set `raced`, too.
5. **A fallback is lost.**  `workspace.rs:243` clears `self.session` and then
   awaits `startup_fallback`, which presents a draft and asks the backend for the
   running session; if the frame's sleep wins, the future is dropped there.
   The draft stays, the `Deleted` update is never returned, and a session the
   backend has attached meanwhile keeps its observer.
   `...session-management-design.md:376-379` says that clients "apply the same
   fallback after receiving the terminal event".
6. **A job that no timeout ends.**  After the shell was seen to exit,
   `bash.rs:604` waits for the end of its output with neither the timeout nor
   the cancellation; a descendant that keeps a pipe open holds the job.
   `docs/superpowers/specs/2026-08-25-background-jobs-and-bash-design.md:99-100`:
   "timeout, cancellation, and shutdown terminate descendants as well as the
   shell".
7. **A login is overwritten.**  `auth.rs` loads the file again (line 471) and then
   replaces it; a login by a program that does not take the lock, stored between
   the two, is lost.  The comment at `auth.rs:334-335` says "preserving concurrent
   rotations".  `AuthRefresh` has it (`FALSE` in `Locking`); no property asks that
   the login survive, and those that are checked hold with it.
8. **Two actors of one session.**  `Shutdown` fails for a session whose actor
   cannot stop; a queued `Delete` is refused by that actor, `abort_delete` too,
   and `manager.rs:779` removes its handle all the same; a queued `Open` starts
   a second actor, and both store.  `...session-management-design.md:112`:
   "Actors remain the exclusive owners of a materialized session's harness".
   The states are part of the run `manager`; without the excuse `Contested` TLC
   violates `StoreNeverGoesBack` in it, and `ClosedConnectionsAreForgotten` without
   that of the lost actor.
9. **An edit of other lines than the anchors'.**  `edit.rs:111` looks the
   anchors up in the snapshot that is stored for the file and uses their
   positions in the text it has just checked.  Sequence of calls: a session
   reads a file with lines `a`, `b`; it writes `x`, `a`, `b` with the write
   tool, which records the new text as observed and leaves the stored snapshot
   as it was; it edits the anchor of `a`; the edit is fresh, the anchor is at
   the first place of the old snapshot, and `x` is replaced.  A second session's
   read between a change and its undoing does the same.  `README.md:298-299`
   says that the tool "rejects stale files and anchors".
10. **Anchors leave their lines.**
    `docs/superpowers/specs/2026-08-18-agent-read-tool-design.md:134-136`:
    "unchanged lines retain their existing anchors.  Matching is position-aware so
    duplicated content never borrows an anchor from outside its surviving
    occurrence."  `nearest_occurrence_pairs` (`read.rs:638`) takes the old
    occurrences in their order, each with the nearest new one that is left.  From
    the text `a`, `a` with anchors 0 and 1 to `b`, `a`: the first `a`, which is
    gone, hands anchor 0 to the second, whose own anchor 1 is dropped.  And the
    row that a read replaces need not be the one it went by (`read.rs:213-224`):
    of two sessions that load, load, save and save around a change of the file,
    the second save may give an anchor of the first to another line.
    `AnchorsFollowLines` therefore asks that a line of a repeated content stay
    with its anchor only where all of that content stayed, and of a save only if
    the row is still the one that was loaded.
11. **"line count is bounded by the hash space"** (`read.rs`, the panic of
    `allocate_one`).  All anchors of the previous version stay occupied, so the
    bound that is needed is on both versions together.  The panic is in `Load`,
    where the call ends; it happens in the run `files`, and `PanicIsCharacterised`
    says exactly when.  With 62^3 slots it takes an old and a new version of more
    than 238,328 lines together; each may have that many (`MAX_LINES`,
    `read.rs:25`).

## Not modelled

* `src/rpc/moh_capnp.rs` is generated by the schema compiler and is half of the
  lines under `src/src`.  `src/rpc/convert.rs` copies field by field.  Neither
  keeps state; that an event cannot be converted is `Refused`.  Most of what is
  left is rendering, keys and editing, the provider's HTTP client and its stream
  decoder, the adapters to the agent library, configuration and start-up, and
  tests: they have no state that outlives a call, or their outcome is a choice
  in the model that uses them.
* SQLite commits or fails; migration and quarantine of the database and the
  encoding of columns are left out.  An operation that never returns stops the
  manager and everything behind it: nothing in the code bounds it.
* `SessionManager` has no liveness for that reason; listing and draft defaults
  change nothing.
* In `RpcSession` the client's branches for a gap in the sequence and for a late
  event stay unreachable as long as the server is right, which is what the proof
  shows; they are the client's defence and not exercised.
* In `BashSupervisor`, errors of `wait`, a child without pipes and
  `kill_on_drop` are left out; in `FileTools`, encodings, paging, directories
  and staging files; in `AuthRefresh`, the parsing of the file and its
  permissions; in `LocalLaunch`, the creation of directories.
* Not done, and worth doing: a model of the store with several sessions in one
  database that `SessionActor` and `SessionManager` both implement, in place of
  the two records they keep of it.
