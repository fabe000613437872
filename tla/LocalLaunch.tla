---------------------------- MODULE LocalLaunch -----------------------------
(***************************************************************************)
(* How clients find the one backend of a user, or start it                 *)
(* (src/src/local/launch.rs), and how backend processes take and give up   *)
(* the socket path they meet at (src/src/backend/server.rs).  Every system *)
(* call on the path is a step of its own, and nothing but the startup lock *)
(* orders the steps of different processes.                                *)
(*                                                                         *)
(* A socket file is its inode and its change time.  The number of a removed*)
(* file may be given out again, and so may a time: two changes within a    *)
(* tick have the same, and the clock can be set back.                      *)
(***************************************************************************)
EXTENDS Naturals

CONSTANTS
    Clients,
    Backends,      \* backend processes that may ever be started
    Inodes,        \* inode numbers of the file system
    Times,         \* change times
    ManualStarts,  \* whether backends are started without a client, too
    None

Identities == [inode : Inodes, changed : Times]
Sockets == [inode : Inodes, changed : Times, by : Backends]
Ids == Identities \cup {None}

ASSUME LaunchAssumption ==
    /\ ManualStarts \in BOOLEAN
    /\ None \notin Backends \cup Clients \cup Inodes \cup Identities \cup Sockets

VARIABLES
    path,       \* the socket file, and the backend that bound it
    backends,   \* each backend: where it is, the inode it bound, SocketIdentity
    lock,       \* the client that holds the startup lock
    clients,    \* where each client is in connect_or_spawn
    raced,      \* history: could a live socket be taken for an old one?
    stray       \* history: was a backend started that no client waits for?

vars == <<path, backends, lock, clients, raced, stray>>

\* socket_candidate_identity.
Candidate == IF path = None THEN None ELSE [inode |-> path.inode, changed |-> path.changed]

\* UnixListener::bind binds and then listens; connections are refused before.
Listening == {b \in Backends : backends[b].at \in {"listening", "restricted", "serving"}}
Starting == {"opening", "bound", "listening", "restricted"}
Bound == {b \in Backends : backends[b].at = "bound"}
Live == Bound \cup Listening
Exiting == {b \in Backends : backends[b].at \in {"draining", "released", "unlinking"}}

Finished == {"connected", "failed"}
Locked(c) == clients[c].phase \in {2, 3} /\ clients[c].at \notin Finished

\* A client that is about to remove the socket it has looked at.
Removing == {c \in Clients : clients[c].at \in {"recheck", "unlink"}}

TypeOK ==
    /\ path \in Sockets \cup {None}
    /\ backends \in [Backends -> [at : {"none", "opening", "bound", "listening", "restricted",
                                        "serving", "draining", "released", "unlinking", "exited"},
                                  inode : Inodes \cup {None}, identity : Inodes \cup {None}]]
    /\ lock \in Clients \cup {None}
    /\ \A c \in Clients : Locked(c) <=> lock = c
    /\ clients \in [Clients -> [phase : 1 .. 3,
                                at : {"start", "probe", "dial", "inspect", "shake", "lock",
                                      "stale", "recheck", "unlink", "spawn"} \cup Finished,
                                original : Ids, candidate : Ids, peer : Backends \cup {None},
                                reset : BOOLEAN]]
    /\ raced \in BOOLEAN /\ stray \in BOOLEAN

ClientAt(at) == [phase |-> 1, at |-> at, original |-> None, candidate |-> None,
                 peer |-> None, reset |-> FALSE]

BackendAt(at) == [at |-> at, inode |-> None, identity |-> None]

Init ==
    /\ path = None
    /\ backends = [b \in Backends |-> BackendAt("none")]
    /\ lock = None
    /\ clients = [c \in Clients |-> ClientAt("start")]
    /\ raced = FALSE /\ stray = FALSE

-----------------------------------------------------------------------------
(***************************************************************************)
(* A backend process: run_with_runtime and run_backend.                    *)
(***************************************************************************)
BackendIs(b, at) == backends' = [backends EXCEPT ![b].at = at]

\* The process ends, without or with an error.
Exits(b) == backends' = [backends EXCEPT ![b] = BackendAt("exited")]

\* A file, and a socket that is open, keep their inode in use.  (So would a
\* connection it accepted: the draining backend here has none.)
FreshInodes ==
    {i \in Inodes : (path # None => path.inode # i) /\ \A b \in Live : backends[b].inode # i}

StartManually(b) ==
    /\ ManualStarts /\ backends[b].at = "none"
    /\ BackendIs(b, "opening") /\ stray' = TRUE
    /\ UNCHANGED <<path, lock, clients, raced>>

\* A client keeps the identity of a file that was there before its first attempt.
WasSeen(i, t) == \E c \in Clients : clients[c].original = [inode |-> i, changed |-> t]

\* Whether a new socket may be taken for an old one: by whoever has looked at the
\* old one and is about to remove it, by a backend that has its number on record,
\* or by a client that has seen a file with its number and time.
TakenForOld(i, t) ==
    \/ Removing # {}
    \/ \E a \in Exiting : backends[a].identity = i \/ backends[a].at = "unlinking"
    \/ WasSeen(i, t)

\* Binding fails on any file, stale or not.
Bind(b) ==
    /\ backends[b].at = "opening"
    /\ IF path # None
       THEN Exits(b) /\ UNCHANGED <<path, raced>>
       ELSE \E i \in FreshInodes, t \in Times :
               /\ path' = [inode |-> i, changed |-> t, by |-> b]
               /\ backends' = [backends EXCEPT ![b].at = "bound", ![b].inode = i]
               /\ raced' = (raced \/ TakenForOld(i, t))
    /\ UNCHANGED <<lock, clients, stray>>

Listen(b) ==
    /\ backends[b].at = "bound" /\ BackendIs(b, "listening")
    /\ UNCHANGED <<path, lock, clients, raced, stray>>

\* set_permissions, of whatever is at the path.
Restrict(b) ==
    /\ backends[b].at = "listening"
    /\ IF path = None
       THEN Exits(b) /\ UNCHANGED <<path, raced>>
       ELSE /\ \E t \in Times :
                  /\ path' = [path EXCEPT !.changed = t]
                  /\ raced' = (raced \/ (t # path.changed /\ WasSeen(path.inode, t)))
            /\ BackendIs(b, "restricted")
    /\ UNCHANGED <<lock, clients, stray>>

\* bound_socket_identity.
Identify(b) ==
    /\ backends[b].at = "restricted"
    /\ IF path = None
       THEN Exits(b)
       ELSE backends' = [backends EXCEPT ![b].at = "serving", ![b].identity = path.inode]
    /\ UNCHANGED <<path, lock, clients, raced, stray>>

\* The listener is dropped; the sessions are still being saved.
StopListening(b) ==
    /\ backends[b].at = "serving"
    /\ backends' = [backends EXCEPT ![b].at = "draining", ![b].inode = None]
    /\ UNCHANGED <<path, lock, clients, raced, stray>>

DropRepository(b) ==
    /\ backends[b].at = "draining" /\ BackendIs(b, "released")
    /\ UNCHANGED <<path, lock, clients, raced, stray>>

\* Mutant: whatever is at the path is removed.
InspectNothing(b) ==
    /\ backends[b].at = "released" /\ BackendIs(b, "unlinking")
    /\ UNCHANGED <<path, lock, clients, raced, stray>>

\* unlink_bound_socket: device and inode must be those it recorded ...
InspectBoundSocket(b) ==
    /\ backends[b].at = "released"
    /\ IF path # None /\ path.inode = backends[b].identity
       THEN BackendIs(b, "unlinking") ELSE Exits(b)
    /\ UNCHANGED <<path, lock, clients, raced, stray>>

\* ... and then whatever is at the path is removed.
UnlinkBoundSocket(b) ==
    /\ backends[b].at = "unlinking"
    /\ path' = None /\ Exits(b)
    /\ UNCHANGED <<lock, clients, raced, stray>>

Crash(b) ==
    /\ backends[b].at \notin {"none", "exited"} /\ Exits(b)
    /\ UNCHANGED <<path, lock, clients, raced, stray>>

-----------------------------------------------------------------------------
(***************************************************************************)
(* A client: connect_or_spawn.  Phase 1 is the attempt before the lock, 2  *)
(* the one under it, 3 the attempts of wait_for_backend, still under it.   *)
(***************************************************************************)
\* What an attempt knew is forgotten with it.
ClientIs(c, at) ==
    clients' = [clients EXCEPT ![c].at = at, ![c].candidate = None, ![c].peer = None]

\* The lock's descriptor is closed when connect_or_spawn returns or dies.
Finishes(c, at) ==
    /\ clients' = [clients EXCEPT ![c] = ClientAt(at)]
    /\ lock' = IF lock = c THEN None ELSE lock
    /\ stray' = (stray \/ (clients[c].phase = 3 /\ at = "failed"))

\* wait_for_backend.
Waits(c) == clients' = [clients EXCEPT ![c].at = "probe", ![c].phase = 3, ![c].original = None]

Launch(c) ==
    /\ clients[c].at = "start"
    /\ clients' = [clients EXCEPT ![c].at = "probe", ![c].original = Candidate]
    /\ UNCHANGED <<path, backends, lock, raced, stray>>

Probe(c) ==
    /\ clients[c].at = "probe"
    /\ clients' = [clients EXCEPT ![c].at = "dial", ![c].candidate = Candidate]
    /\ UNCHANGED <<path, backends, lock, raced, stray>>

\* ConnectAttempt::Absent.
Absent(c) ==
    ClientIs(c, CASE clients[c].phase = 1 -> "lock"
                  [] clients[c].phase = 2 -> "stale"
                  [] OTHER -> "probe")

\* UnixStream::connect: no file, or nobody who listens, is an absent backend.
Dial(c) ==
    /\ clients[c].at = "dial"
    /\ IF path # None /\ path.by \in Listening
       THEN clients' = [clients EXCEPT ![c].at = "inspect", ![c].peer = path.by]
       ELSE Absent(c)
    /\ raced' = (raced \/ (clients[c].phase = 2 /\ path # None /\ path.by \in Bound))
    /\ UNCHANGED <<path, backends, lock, stray>>

\* So is another file than before.
Inspect(c) ==
    /\ clients[c].at = "inspect"
    /\ IF Candidate = clients[c].candidate
       THEN clients' = [clients EXCEPT ![c].at = "shake", ![c].candidate = None]
       ELSE Absent(c)
    /\ UNCHANGED <<path, backends, lock, raced, stray>>

Shake(c) ==
    /\ clients[c].at = "shake" /\ backends[clients[c].peer].at = "serving"
    /\ Finishes(c, "connected")
    /\ UNCHANGED <<path, backends, raced>>

\* ConnectAttempt::Reset: the backend stopped before it answered.  Under the
\* lock it is an error; the waiting client gives it one more chance.
Reset(c) ==
    /\ clients[c].at = "shake" /\ clients[c].peer \notin Listening
    /\ CASE clients[c].phase = 1 -> ClientIs(c, "lock") /\ UNCHANGED <<lock, stray>>
         [] clients[c].phase = 3 /\ ~clients[c].reset ->
               /\ clients' = [clients EXCEPT ![c].at = "probe", ![c].reset = TRUE, ![c].peer = None]
               /\ UNCHANGED <<lock, stray>>
         [] OTHER -> Finishes(c, "failed")
    /\ UNCHANGED <<path, backends, raced>>

Locks(c) ==
    /\ lock' = c
    /\ clients' = [clients EXCEPT ![c].at = "probe", ![c].phase = 2]
    /\ UNCHANGED <<path, backends, raced, stray>>

\* Mutant: the lock is shared.
LockShared(c) == clients[c].at = "lock" /\ Locks(c)

\* acquire_startup_lock.
Lock(c) == clients[c].at = "lock" /\ lock = None /\ Locks(c)

\* remove_stale_socket: without a file there is nothing to remove, and with
\* another file than before the first attempt there is a backend to wait for.
InspectStaleSocket(c) ==
    /\ clients[c].at = "stale"
    /\ CASE path = None -> ClientIs(c, "spawn")
         [] path # None /\ Candidate # clients[c].original -> Waits(c)
         [] OTHER -> ClientIs(c, "recheck")
    /\ UNCHANGED <<path, backends, lock, raced, stray>>

\* The second look is at device and inode only; that the file has gone is an
\* error now ...
Recheck(c) ==
    /\ clients[c].at = "recheck"
    /\ CASE path = None -> Finishes(c, "failed")
         [] path # None /\ path.inode # clients[c].original.inode ->
               Waits(c) /\ UNCHANGED <<lock, stray>>
         [] OTHER -> ClientIs(c, "unlink") /\ UNCHANGED <<lock, stray>>
    /\ UNCHANGED <<path, backends, raced>>

\* ... and still is, when whatever is at the path is removed.
RemoveStaleSocket(c) ==
    /\ clients[c].at = "unlink"
    /\ path' = None
    /\ IF path = None THEN Finishes(c, "failed")
                      ELSE ClientIs(c, "spawn") /\ UNCHANGED <<lock, stray>>
    /\ UNCHANGED <<backends, raced>>

Spawn(c) ==
    /\ clients[c].at = "spawn"
    /\ \E b \in Backends : backends[b].at = "none" /\ BackendIs(b, "opening")
    /\ Waits(c)
    /\ UNCHANGED <<path, lock, raced, stray>>

\* A deadline passes, a step fails, or the client dies.
GiveUp(c) ==
    /\ clients[c].at \notin {"start"} \cup Finished
    /\ Finishes(c, "failed")
    /\ UNCHANGED <<path, backends, raced>>

-----------------------------------------------------------------------------
Next ==
    \/ \E b \in Backends :
          \/ StartManually(b) \/ Bind(b) \/ Listen(b) \/ Restrict(b) \/ Identify(b)
          \/ StopListening(b) \/ DropRepository(b) \/ InspectBoundSocket(b)
          \/ UnlinkBoundSocket(b) \/ Crash(b)
    \/ \E c \in Clients :
          \/ Launch(c) \/ Probe(c) \/ Dial(c) \/ Inspect(c) \/ Shake(c) \/ Reset(c) \/ Lock(c)
          \/ InspectStaleSocket(c) \/ Recheck(c) \/ RemoveStaleSocket(c) \/ Spawn(c) \/ GiveUp(c)

Spec == Init /\ [][Next]_vars

-----------------------------------------------------------------------------
(***************************************************************************)
(* Properties.                                                             *)
(***************************************************************************)
\* A backend that listens loses its place at the path, where clients find it and
\* no other backend can bind, only by a race that `raced` remembers: it bound
\* while somebody was between a look at the path and the removal, or its socket
\* has the inode number an exiting backend recorded, or number and time a client
\* remembers, or a client under the lock was refused between bind and listen.
\* Whatever else clients and backends do, crashes and backends started by hand
\* included, one listens at a time and sessions are not split.
ListenersAreLostInRaces == raced \/ \A b \in Listening : path # None /\ path.by = b

\* While a client holds the startup lock and has not started a backend, none is on
\* its way to the path, unless one was started by hand or by a client that gave up
\* waiting: clients alone never start two, nor race with each other's.
StartsAreApart ==
    stray \/ \A c \in Clients, b \in Backends :
                 Locked(c) /\ clients[c].phase = 2 => backends[b].at \notin Starting

=============================================================================
