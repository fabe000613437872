---------------------------- MODULE ClientProofs ----------------------------
(***************************************************************************)
(* The client, for every value of the constants.  Its launch: a listening  *)
(* backend loses its place at the path only by a race, and clients alone   *)
(* never start two backends, whatever numbers and times the file system    *)
(* gives its files.  Its workspace, at the end.                            *)
(***************************************************************************)
EXTENDS LocalLaunch, ClientWorkspace, TLAPS

BackendStep(b) ==
    StartManually(b) \/ Bind(b) \/ Listen(b) \/ Restrict(b) \/ Identify(b) \/ StopListening(b)
    \/ DropRepository(b) \/ InspectBoundSocket(b) \/ UnlinkBoundSocket(b) \/ Crash(b)

ClientStep(c) ==
    Launch(c) \/ Probe(c) \/ Dial(c) \/ Inspect(c) \/ Shake(c) \/ Reset(c) \/ Lock(c)
    \/ InspectStaleSocket(c) \/ Recheck(c) \/ RemoveStaleSocket(c) \/ Spawn(c) \/ GiveUp(c)

-----------------------------------------------------------------------------
(* Type correctness, and the startup lock *)

BackendStates ==
    [at : {"none", "opening", "bound", "listening", "restricted",
           "serving", "draining", "released", "unlinking", "exited"},
     inode : Inodes \cup {None}, identity : Inodes \cup {None}]

Places == {"start", "probe", "dial", "inspect", "shake", "lock", "stale", "recheck", "unlink", "spawn"}

ClientStates ==
    [phase : 1 .. 3, at : Places \cup Finished,
     original : Ids, candidate : Ids, peer : Backends \cup {None}, reset : BOOLEAN]

LEMMA CandidateType == ASSUME TypeOK PROVE Candidate \in Ids
  BY DEF TypeOK, Candidate, Ids, Identities, Sockets

LEMMA BackendsKeepTypes ==
    ASSUME TypeOK, NEW b \in Backends, BackendStep(b)
    PROVE  TypeOK'
<1> USE LaunchAssumption
<1>1. /\ backends \in [Backends -> BackendStates] /\ path \in Sockets \cup {None}
      /\ BackendAt("exited") \in BackendStates
  BY DEF TypeOK, BackendStates, BackendAt
<1>2. /\ backends' \in [Backends -> BackendStates] /\ path' \in Sockets \cup {None}
      /\ raced' \in BOOLEAN /\ stray' \in BOOLEAN
  <2> USE DEF TypeOK, BackendStates, BackendIs, Exits
  <2>1. CASE StartManually(b)
    BY <1>1, <2>1 DEF StartManually
  <2>2. CASE Bind(b)
    <3>1. CASE path # None
      BY <1>1, <2>2, <3>1 DEF Bind
    <3>2. CASE path = None
      <4>1. PICK i \in Inodes, t \in Times :
               /\ path' = [inode |-> i, changed |-> t, by |-> b]
               /\ backends' = [backends EXCEPT ![b].at = "bound", ![b].inode = i]
               /\ raced' = (raced \/ TakenForOld(i, t)) /\ stray' = stray
        BY <2>2, <3>2 DEF Bind, FreshInodes
      <4>2. path' \in Sockets
        BY <4>1 DEF Sockets
      <4> QED
        BY <1>1, <4>1, <4>2
    <3> QED
      BY <3>1, <3>2
  <2>3. CASE Listen(b)
    BY <1>1, <2>3 DEF Listen
  <2>4. CASE Restrict(b)
    <3>1. CASE path = None
      BY <1>1, <2>4, <3>1 DEF Restrict
    <3>2. CASE path # None
      <4>1. PICK t \in Times : path' = [path EXCEPT !.changed = t]
        BY <2>4, <3>2 DEF Restrict
      <4>2. path' \in Sockets
        BY <1>1, <3>2, <4>1 DEF Sockets
      <4>3. raced' \in BOOLEAN
        BY <2>4, <3>2 DEF Restrict
      <4> QED
        BY <1>1, <2>4, <3>2, <4>2, <4>3 DEF Restrict
    <3> QED
      BY <3>1, <3>2
  <2>5. CASE Identify(b)
    <3>1. path # None => path.inode \in Inodes
      BY <1>1 DEF Sockets
    <3> QED
      BY <1>1, <2>5, <3>1 DEF Identify
  <2>6. CASE StopListening(b)
    BY <1>1, <2>6 DEF StopListening
  <2>7. CASE DropRepository(b)
    BY <1>1, <2>7 DEF DropRepository
  <2>8. CASE InspectBoundSocket(b)
    BY <1>1, <2>8 DEF InspectBoundSocket
  <2>9. CASE UnlinkBoundSocket(b)
    BY <1>1, <2>9 DEF UnlinkBoundSocket
  <2>10. CASE Crash(b)
    BY <1>1, <2>10 DEF Crash
  <2> QED
    BY <2>1, <2>2, <2>3, <2>4, <2>5, <2>6, <2>7, <2>8, <2>9, <2>10 DEF BackendStep
<1>3. UNCHANGED <<lock, clients>>
  BY DEF BackendStep, StartManually, Bind, Listen, Restrict, Identify, StopListening,
         DropRepository, InspectBoundSocket, UnlinkBoundSocket, Crash
<1> QED
  BY <1>2, <1>3 DEF TypeOK, BackendStates, Locked

\* What a step of a client has to show: its own record is in order, and the lock
\* is its own exactly if it is between taking it and returning.
LEMMA OneClientMoves ==
    ASSUME TypeOK, NEW c \in Clients,
           clients' \in [Clients -> ClientStates],
           \A d \in Clients : d # c => clients'[d] = clients[d],
           lock' = (IF Locked(c)' THEN c ELSE IF Locked(c) THEN None ELSE lock),
           Locked(c)' => Locked(c) \/ lock = None,
           path' \in Sockets \cup {None}, backends' \in [Backends -> BackendStates],
           raced' \in BOOLEAN, stray' \in BOOLEAN
    PROVE  TypeOK'
<1> USE LaunchAssumption DEF TypeOK
<1>1. \A d \in Clients : Locked(d)' <=> lock' = d
  BY DEF Locked
<1> QED
  BY <1>1 DEF ClientStates, BackendStates, Places

LEMMA OneClientRecord ==
    ASSUME TypeOK, NEW c \in Clients, ClientStep(c)
    PROVE  /\ clients' \in [Clients -> ClientStates]
           /\ \A d \in Clients : d # c => clients'[d] = clients[d]
<1> DEFINE me == clients[c]
<1>1. /\ Candidate \in Ids /\ None \in Ids /\ None \in Backends \cup {None}
      /\ path \in Sockets \cup {None} /\ me \in ClientStates
      /\ clients \in [Clients -> ClientStates] /\ c # None
      /\ 2 \in 1 .. 3 /\ 3 \in 1 .. 3
  BY CandidateType, LaunchAssumption DEF Ids, TypeOK, ClientStates, Places
<1>2. ASSUME NEW r \in ClientStates, clients' = [clients EXCEPT ![c] = r]
      PROVE  /\ clients' \in [Clients -> ClientStates]
             /\ \A d \in Clients : d # c => clients'[d] = clients[d]
  BY <1>1, <1>2
<1>3. ASSUME NEW at \in Places, ClientIs(c, at)
      PROVE  /\ clients' \in [Clients -> ClientStates]
             /\ \A d \in Clients : d # c => clients'[d] = clients[d]
  <2>1. [me EXCEPT !.at = at, !.candidate = None, !.peer = None] \in ClientStates
    BY <1>1, <1>3 DEF ClientStates
  <2> QED
    BY <1>2, <1>3, <2>1 DEF ClientIs
<1>4. ASSUME NEW at \in Finished, Finishes(c, at)
      PROVE  /\ clients' \in [Clients -> ClientStates]
             /\ \A d \in Clients : d # c => clients'[d] = clients[d]
  <2>1. ClientAt(at) \in ClientStates
    BY <1>1, <1>4 DEF ClientAt, ClientStates
  <2> QED
    BY <1>2, <1>4, <2>1 DEF Finishes
<1>5. ASSUME Waits(c)
      PROVE  /\ clients' \in [Clients -> ClientStates]
             /\ \A d \in Clients : d # c => clients'[d] = clients[d]
  <2>1. [me EXCEPT !.at = "probe", !.phase = 3, !.original = None] \in ClientStates
    BY <1>1 DEF ClientStates, Places
  <2> QED
    BY <1>2, <1>5, <2>1 DEF Waits
<1>6. \A at \in {"lock", "stale", "probe", "recheck", "unlink", "spawn"} : at \in Places
  BY DEF Places
<1>7. "failed" \in Finished /\ "connected" \in Finished
  BY DEF Finished
<1>8. CASE Launch(c)
  <2>1. [me EXCEPT !.at = "probe", !.original = Candidate] \in ClientStates
    BY <1>1 DEF ClientStates, Places
  <2> QED
    BY <1>2, <1>8, <2>1 DEF Launch
<1>9. CASE Probe(c)
  <2>1. [me EXCEPT !.at = "dial", !.candidate = Candidate] \in ClientStates
    BY <1>1 DEF ClientStates, Places
  <2> QED
    BY <1>2, <1>9, <2>1 DEF Probe
<1>10. CASE Dial(c)
  <2>1. CASE Absent(c)
    BY <1>3, <1>6, <2>1 DEF Absent
  <2>2. CASE path # None /\ path.by \in Listening
    <3>1. path.by \in Backends
      BY <2>2 DEF Listening
    <3>2. [me EXCEPT !.at = "inspect", !.peer = path.by] \in ClientStates
      BY <1>1, <3>1 DEF ClientStates, Places
    <3> QED
      BY <1>2, <1>10, <2>2, <3>2 DEF Dial
  <2> QED
    BY <1>10, <2>1, <2>2 DEF Dial
<1>11. CASE Inspect(c)
  <2>1. CASE Absent(c)
    BY <1>3, <1>6, <2>1 DEF Absent
  <2>2. [me EXCEPT !.at = "shake", !.candidate = None] \in ClientStates
    BY <1>1 DEF ClientStates, Places
  <2> QED
    BY <1>2, <1>11, <2>1, <2>2 DEF Inspect
<1>12. CASE Shake(c) \/ GiveUp(c)
  BY <1>4, <1>7, <1>12 DEF Shake, GiveUp
<1>13. CASE Reset(c)
  <2>1. CASE me.phase = 1
    BY <1>3, <1>6, <1>13, <2>1 DEF Reset
  <2>2. CASE me.phase = 3 /\ ~me.reset
    <3>1. [me EXCEPT !.at = "probe", !.reset = TRUE, !.peer = None] \in ClientStates
      BY <1>1 DEF ClientStates, Places
    <3>2. clients' = [clients EXCEPT ![c] =
                         [me EXCEPT !.at = "probe", !.reset = TRUE, !.peer = None]]
      BY <1>1, <1>13, <2>2 DEF Reset, ClientStates
    <3> QED
      BY <1>2, <3>1, <3>2
  <2>3. CASE me.phase # 1 /\ ~(me.phase = 3 /\ ~me.reset)
    BY <1>4, <1>7, <1>13, <2>3 DEF Reset
  <2> QED
    BY <2>1, <2>2, <2>3
<1>14. CASE Lock(c)
  <2>1. [me EXCEPT !.at = "probe", !.phase = 2] \in ClientStates
    BY <1>1 DEF ClientStates, Places
  <2> QED
    BY <1>2, <1>14, <2>1 DEF Lock, Locks
<1>15. CASE InspectStaleSocket(c)
  BY <1>3, <1>5, <1>6, <1>15 DEF InspectStaleSocket
<1>16. CASE Recheck(c)
  BY <1>3, <1>4, <1>5, <1>6, <1>7, <1>16 DEF Recheck
<1>17. CASE RemoveStaleSocket(c)
  BY <1>3, <1>4, <1>6, <1>7, <1>17 DEF RemoveStaleSocket
<1>18. CASE Spawn(c)
  BY <1>5, <1>18 DEF Spawn
<1> QED
  BY <1>8, <1>9, <1>10, <1>11, <1>12, <1>13, <1>14, <1>15, <1>16, <1>17, <1>18 DEF ClientStep

\* Where a client is says what it may know: a backend it has reached is one it is
\* talking to, it locks in its first phase, and removes and spawns in its second.
PlacesInv ==
    \A c \in Clients :
        /\ clients[c].peer # None <=> clients[c].at \in {"inspect", "shake"}
        /\ clients[c].at \in {"start", "lock"} => clients[c].phase = 1
        /\ clients[c].at \in {"stale", "recheck", "unlink", "spawn"} => clients[c].phase = 2

LEMMA ClientsKeepTypes ==
    ASSUME TypeOK, PlacesInv, NEW c \in Clients, ClientStep(c)
    PROVE  TypeOK'
<1> DEFINE me == clients[c]
<1>1. /\ clients' \in [Clients -> ClientStates] /\ clients \in [Clients -> ClientStates]
      /\ \A d \in Clients : d # c => clients'[d] = clients[d]
      /\ (Locked(c) <=> lock = c) /\ c # None
  BY OneClientRecord, LaunchAssumption DEF TypeOK, ClientStates, Places
<1>2. /\ lock' = (IF Locked(c)' THEN c ELSE IF Locked(c) THEN None ELSE lock)
      /\ Locked(c)' => Locked(c) \/ lock = None
  <2> USE <1>1 DEF Locked, Finished, ClientStates, Places
  <2>1. CASE Launch(c) \/ Probe(c)
    BY <2>1 DEF Launch, Probe
  <2>2. CASE Dial(c)
    BY <2>2 DEF Dial, Absent, ClientIs
  <2>3. CASE Inspect(c)
    BY <2>3 DEF Inspect, Absent, ClientIs
  <2>4. CASE Shake(c) \/ GiveUp(c)
    BY <2>4 DEF Shake, GiveUp, Finishes, ClientAt
  <2>5. CASE Reset(c)
    BY <2>5 DEF Reset, ClientIs, Finishes, ClientAt
  <2>6. CASE Lock(c)
    BY <2>6 DEF Lock, Locks
  <2>7. CASE InspectStaleSocket(c)
    BY <2>7 DEF InspectStaleSocket, ClientIs, Waits, PlacesInv
  <2>8. CASE Recheck(c)
    BY <2>8 DEF Recheck, ClientIs, Waits, PlacesInv, Finishes, ClientAt
  <2>9. CASE RemoveStaleSocket(c)
    BY <2>9 DEF RemoveStaleSocket, ClientIs, Finishes, ClientAt
  <2>10. CASE Spawn(c)
    BY <2>10 DEF Spawn, Waits, PlacesInv
  <2> QED
    BY <2>1, <2>2, <2>3, <2>4, <2>5, <2>6, <2>7, <2>8, <2>9, <2>10 DEF ClientStep
<1>3. /\ path' \in Sockets \cup {None} /\ backends' \in [Backends -> BackendStates]
      /\ raced' \in BOOLEAN /\ stray' \in BOOLEAN
  <2>1. /\ backends \in [Backends -> BackendStates] /\ path \in Sockets \cup {None}
        /\ raced \in BOOLEAN /\ stray \in BOOLEAN
    BY DEF TypeOK, BackendStates
  <2>2. CASE Spawn(c)
    BY <2>1, <2>2 DEF Spawn, BackendIs, BackendStates
  <2>3. CASE ~Spawn(c)
    BY <2>1, <2>3 DEF ClientStep, Launch, Probe, Dial, Inspect, Shake, GiveUp, Reset, Lock, Locks,
                      InspectStaleSocket, Recheck, RemoveStaleSocket, Finishes
  <2> QED
    BY <2>2, <2>3
<1> QED
  BY <1>1, <1>2, <1>3, OneClientMoves

LEMMA PlacesStay ==
    ASSUME TypeOK, PlacesInv, [Next]_vars
    PROVE  PlacesInv'
<1>1. ASSUME NEW c \in Clients, ClientStep(c) PROVE PlacesInv'
  <2>1. /\ clients' \in [Clients -> ClientStates] /\ clients \in [Clients -> ClientStates]
        /\ \A d \in Clients : d # c => clients'[d] = clients[d]
    BY <1>1, OneClientRecord DEF TypeOK, ClientStates, Places
  <2>2. /\ clients'[c].peer # None <=> clients'[c].at \in {"inspect", "shake"}
        /\ clients'[c].at \in {"start", "lock"} => clients'[c].phase = 1
        /\ clients'[c].at \in {"stale", "recheck", "unlink", "spawn"} => clients'[c].phase = 2
    <3> USE <2>1, LaunchAssumption DEF PlacesInv, ClientStates, Finished, Places
    <3>1. CASE Launch(c) \/ Probe(c)
      BY <3>1 DEF Launch, Probe
    <3>2. CASE Dial(c)
      <4>1. path.by \in Listening => path.by # None
        BY DEF Listening
      <4> QED
        BY <3>2, <4>1 DEF Dial, Absent, ClientIs
    <3>3. CASE Inspect(c)
      BY <3>3 DEF Inspect, Absent, ClientIs
    <3>4. CASE Shake(c) \/ GiveUp(c)
      BY <3>4 DEF Shake, GiveUp, Finishes, ClientAt
    <3>5. CASE Reset(c)
      BY <3>5 DEF Reset, ClientIs, Finishes, ClientAt
    <3>6. CASE Lock(c)
      BY <3>6 DEF Lock, Locks
    <3>7. CASE InspectStaleSocket(c)
      BY <3>7 DEF InspectStaleSocket, ClientIs, Waits
    <3>8. CASE Recheck(c)
      BY <3>8 DEF Recheck, ClientIs, Waits, Finishes, ClientAt
    <3>9. CASE RemoveStaleSocket(c)
      BY <3>9 DEF RemoveStaleSocket, ClientIs, Finishes, ClientAt
    <3>10. CASE Spawn(c)
      BY <3>10 DEF Spawn, Waits
    <3> QED
      BY <1>1, <3>1, <3>2, <3>3, <3>4, <3>5, <3>6, <3>7, <3>8, <3>9, <3>10 DEF ClientStep
  <2> QED
    BY <2>1, <2>2 DEF PlacesInv
<1>2. ASSUME NEW b \in Backends, BackendStep(b) PROVE PlacesInv'
  <2>1. UNCHANGED clients
    BY <1>2 DEF BackendStep, StartManually, Bind, Listen, Restrict, Identify, StopListening,
                DropRepository, InspectBoundSocket, UnlinkBoundSocket, Crash
  <2> QED
    BY <2>1 DEF PlacesInv
<1>3. UNCHANGED vars => PlacesInv'
  BY DEF vars, PlacesInv
<1> QED
  BY <1>1, <1>2, <1>3 DEF Next, BackendStep, ClientStep

LEMMA LaunchTyped == Spec => [](TypeOK /\ PlacesInv)
<1>1. Init => TypeOK /\ PlacesInv
  <2> SUFFICES ASSUME Init PROVE TypeOK /\ PlacesInv
    OBVIOUS
  <2>1. /\ \A c \in Clients : clients[c] = ClientAt("start")
        /\ ClientAt("start").peer = None /\ ClientAt("start").phase = 1
        /\ ClientAt("start").at = "start"
    BY DEF Init, ClientAt
  <2>2. ClientAt("start") \in ClientStates /\ BackendAt("none") \in BackendStates
    BY DEF BackendAt, BackendStates, ClientAt, ClientStates, Places, Ids
  <2>3. backends \in [Backends -> BackendStates] /\ clients \in [Clients -> ClientStates]
    BY <2>2 DEF Init
  <2>4. PlacesInv
    BY <2>1 DEF PlacesInv
  <2>5. \A c \in Clients : Locked(c) <=> lock = c
    <3>1. \A c \in Clients : lock # c
      BY LaunchAssumption DEF Init
    <3>2. \A c \in Clients : clients[c].phase = 1
      BY <2>1
    <3>3. ASSUME NEW c \in Clients PROVE ~Locked(c)
      <4>1. clients[c].phase = 1 /\ 1 \notin {2, 3}
        BY <3>2
      <4> QED
        BY ONLY <4>1 DEF Locked
    <3> QED
      BY <3>1, <3>3
  <2> QED
    BY <2>3, <2>4, <2>5 DEF Init, TypeOK, BackendStates, ClientStates, Places
<1>2. TypeOK /\ PlacesInv /\ [Next]_vars => (TypeOK /\ PlacesInv)'
  <2>1. TypeOK /\ PlacesInv /\ Next => TypeOK'
    BY BackendsKeepTypes, ClientsKeepTypes DEF Next, BackendStep, ClientStep
  <2>2. TypeOK /\ UNCHANGED vars => TypeOK'
    BY DEF TypeOK, vars, Locked
  <2> QED
    BY <2>1, <2>2, PlacesStay
<1> QED
  BY <1>1, <1>2, PTL DEF Spec

\* The states of backends and clients, and the startup lock: it is held by the
\* client that is between taking it and returning, and by no other.
THEOREM LaunchTypes == Spec => []TypeOK
  BY LaunchTyped, PTL
-----------------------------------------------------------------------------
(* The listener *)

\* An exiting backend removes its own socket: no other has its number, and none
\* was bound since it looked.
Recorded ==
    \A a \in Exiting :
        path # None /\ (backends[a].identity = path.inode \/ backends[a].at = "unlinking")
            => path.by = a

\* Which file a client may take for stale: if the file is the one it saw before
\* its first attempt, it is the one of the attempt under the lock, and whoever
\* bound it is gone.
Judged ==
    \A c \in Clients :
        /\ clients[c].phase = 2 /\ path # None /\ Candidate = clients[c].original =>
              /\ clients[c].at \in {"dial", "inspect"} => clients[c].candidate = Candidate
              /\ clients[c].at = "stale" => path.by \notin Live
        /\ clients[c].at \in {"recheck", "unlink"} /\ path # None => path.by \notin Live

LiveAtThePath == \A b \in Live : path # None /\ path.by = b

ListenerInv == raced \/ (LiveAtThePath /\ Recorded /\ Judged)

\* What a step of a backend leaves a client to judge.
LEMMA FileIsOldOrNew ==
    ASSUME TypeOK, Judged, UNCHANGED clients,
           \/ path' = None
           \/ path' = path /\ Live' \subseteq Live
           \/ path' # None /\ \A c \in Clients :
                 /\ clients[c].original # Candidate'
                 /\ clients[c].at \in {"recheck", "unlink"} => path'.by \notin Live'
    PROVE  Judged'
<1>1. CASE path' = None
  BY <1>1 DEF Judged
<1>2. CASE path' = path /\ Live' \subseteq Live
  BY <1>2 DEF Judged, Candidate
<1>3. CASE path' # None /\ \A c \in Clients :
              /\ clients[c].original # Candidate'
              /\ clients[c].at \in {"recheck", "unlink"} => path'.by \notin Live'
  BY <1>3 DEF Judged
<1> QED
  BY <1>1, <1>2, <1>3

LEMMA BackendsListenAtThePath ==
    ASSUME TypeOK, ListenerInv, NEW b \in Backends, BackendStep(b)
    PROVE  ListenerInv'
<1> USE LaunchAssumption
<1>1. raced => raced'
  BY DEF BackendStep, StartManually, Bind, Listen, Restrict, Identify, StopListening,
         DropRepository, InspectBoundSocket, UnlinkBoundSocket, Crash, TypeOK
<1>2. UNCHANGED clients
  BY DEF BackendStep, StartManually, Bind, Listen, Restrict, Identify, StopListening,
         DropRepository, InspectBoundSocket, UnlinkBoundSocket, Crash
<1> SUFFICES ASSUME ~raced', LiveAtThePath, Recorded, Judged
             PROVE  LiveAtThePath' /\ Recorded' /\ Judged'
  BY <1>1 DEF ListenerInv
<1>3. /\ backends \in [Backends -> BackendStates] /\ path \in Sockets \cup {None}
      /\ \A a \in Live : a \in Backends /\ path # None /\ path.by = a
      /\ \A a \in Exiting : a \in Backends
  BY DEF TypeOK, BackendStates, LiveAtThePath, Live, Listening, Bound, Exiting
<1> DEFINE Keeps == UNCHANGED path /\ Live' \subseteq Live /\ LiveAtThePath' /\ Recorded'
<1>4. Keeps => LiveAtThePath' /\ Recorded' /\ Judged'
  BY <1>2, FileIsOldOrNew
<1> USE DEF LiveAtThePath, Recorded, Live, Listening, Bound, Exiting, BackendStates,
            BackendIs, BackendAt, Exits
<1>5. CASE StartManually(b)
  BY <1>3, <1>4, <1>5 DEF StartManually
<1>6. CASE Bind(b) /\ path # None
  BY <1>3, <1>4, <1>6 DEF Bind
<1>7. CASE Bind(b) /\ path = None
  <2>1. PICK i \in Inodes, t \in Times :
           /\ path' = [inode |-> i, changed |-> t, by |-> b]
           /\ backends' = [backends EXCEPT ![b].at = "bound", ![b].inode = i]
           /\ ~TakenForOld(i, t) /\ backends[b].at = "opening"
    BY <1>7 DEF Bind, FreshInodes, TypeOK
  <2>2. Live = {}
    BY <1>3, <1>7
  <2>3. path' # None /\ path'.by = b /\ path'.inode = i /\ path' \in Sockets
    BY <2>1 DEF Sockets
  <2>4. LiveAtThePath'
    BY <1>3, <2>1, <2>2, <2>3
  <2>5. Recorded'
    BY <1>3, <2>1, <2>3 DEF TakenForOld
  <2>6. Candidate' = [inode |-> i, changed |-> t]
    BY <2>1, <2>3 DEF Candidate
  <2>7. \A c \in Clients : /\ clients[c].original # Candidate'
                          /\ clients[c].at \notin {"recheck", "unlink"}
    BY <2>1, <2>6 DEF TakenForOld, WasSeen, Removing
  <2>8. Judged'
    BY <1>2, <2>3, <2>7, FileIsOldOrNew
  <2> QED
    BY <2>4, <2>5, <2>8
<1>8. CASE Listen(b)
  BY <1>3, <1>4, <1>8 DEF Listen
<1>9. CASE Restrict(b)
  <2>1. b \in Live /\ path # None /\ path.by = b
    BY <1>3, <1>9 DEF Restrict
  <2>2. PICK t \in Times :
           /\ path' = [path EXCEPT !.changed = t]
           /\ t = path.changed \/ ~WasSeen(path.inode, t)
           /\ backends' = [backends EXCEPT ![b].at = "restricted"]
           /\ backends[b].at = "listening"
    BY <1>9, <2>1 DEF Restrict, TypeOK
  <2>3. path' # None /\ path'.by = b /\ path'.inode = path.inode /\ path'.changed = t
    BY <1>3, <2>1, <2>2 DEF Sockets
  <2>4. Live' = Live
    BY <1>3, <2>2
  <2>5. LiveAtThePath' /\ Recorded'
    BY <1>3, <2>1, <2>2, <2>3
  <2>6. CASE t = path.changed
    <3>1. path' = path
      BY <1>3, <2>1, <2>2, <2>6 DEF Sockets
    <3> QED
      BY <1>2, <2>4, <2>5, <3>1, FileIsOldOrNew
  <2>7. CASE ~WasSeen(path.inode, t)
    <3>1. Candidate' = [inode |-> path.inode, changed |-> t]
      BY <2>3 DEF Candidate
    <3>2. \A c \in Clients : clients[c].original # Candidate'
      BY <2>7, <3>1 DEF WasSeen
    <3>3. \A c \in Clients : clients[c].at \notin {"recheck", "unlink"}
      BY <2>1 DEF Judged
    <3>4. Judged'
      BY <1>2, <2>3, <3>2, <3>3, FileIsOldOrNew
    <3> QED
      BY <2>5, <3>4
  <2> QED
    BY <2>2, <2>6, <2>7
<1>10. CASE Identify(b)
  BY <1>3, <1>4, <1>10 DEF Identify
<1>11. CASE StopListening(b)
  BY <1>3, <1>4, <1>11 DEF StopListening
<1>12. CASE DropRepository(b)
  BY <1>3, <1>4, <1>12 DEF DropRepository
<1>13. CASE InspectBoundSocket(b)
  BY <1>3, <1>4, <1>13 DEF InspectBoundSocket
<1>14. CASE UnlinkBoundSocket(b)
  <2>1. /\ b \in Exiting /\ path' = None
        /\ backends' = [backends EXCEPT ![b] = BackendAt("exited")]
        /\ backends[b].at = "unlinking"
    BY <1>14 DEF UnlinkBoundSocket
  <2>2. Live = {}
    BY <1>3, <2>1
  <2>3. Live' = {}
    BY <1>3, <2>1, <2>2
  <2> QED
    BY <1>2, <2>1, <2>3, FileIsOldOrNew
<1>15. CASE Crash(b)
  BY <1>3, <1>4, <1>15 DEF Crash
<1> QED
  BY <1>5, <1>6, <1>7, <1>8, <1>9, <1>10, <1>11, <1>12, <1>13, <1>14, <1>15 DEF BackendStep

\* A client changes nothing at the path but a file that nobody listens at, or
\* ever will.
LEMMA ClientsSpareListeners ==
    ASSUME TypeOK, PlacesInv, ListenerInv, NEW c \in Clients, ClientStep(c)
    PROVE  ListenerInv'
<1> USE LaunchAssumption
<1>1. raced => raced'
  BY DEF ClientStep, Launch, Probe, Dial, Inspect, Shake, Reset, Lock, Locks, InspectStaleSocket,
         Recheck, RemoveStaleSocket, Spawn, GiveUp, TypeOK
<1> SUFFICES ASSUME ~raced', LiveAtThePath, Recorded, Judged
             PROVE  LiveAtThePath' /\ Recorded' /\ Judged'
  BY <1>1 DEF ListenerInv
<1>2. /\ clients' \in [Clients -> ClientStates] /\ clients \in [Clients -> ClientStates]
      /\ \A d \in Clients : d # c => clients'[d] = clients[d]
      /\ backends \in [Backends -> BackendStates]
  BY OneClientRecord DEF TypeOK, ClientStates, BackendStates, Places
<1>3. /\ Live' = Live /\ Exiting' = Exiting
      /\ \A a \in Exiting : backends'[a] = backends[a]
  <2>1. CASE Spawn(c)
    <3>1. PICK b \in Backends : backends[b].at = "none"
                              /\ backends' = [backends EXCEPT ![b].at = "opening"]
      BY <2>1 DEF Spawn, BackendIs
    <3> QED
      BY <1>2, <3>1 DEF Live, Listening, Bound, Exiting, BackendStates
  <2>2. CASE ~Spawn(c)
    <3>1. UNCHANGED backends
      BY <2>2 DEF ClientStep, Launch, Probe, Dial, Inspect, Shake, Reset, Lock, Locks,
                  InspectStaleSocket, Recheck, RemoveStaleSocket, GiveUp
    <3> QED
      BY <3>1 DEF Live, Listening, Bound, Exiting
  <2> QED
    BY <2>1, <2>2
<1>4. path' = path \/ (path' = None /\ (path # None => path.by \notin Live))
  <2>1. CASE RemoveStaleSocket(c)
    BY <2>1 DEF RemoveStaleSocket, Judged
  <2>2. CASE ~RemoveStaleSocket(c)
    BY <2>2 DEF ClientStep, Launch, Probe, Dial, Inspect, Shake, Reset, Lock, Locks,
                InspectStaleSocket, Recheck, Spawn, GiveUp
  <2> QED
    BY <2>1, <2>2
<1>5. LiveAtThePath' /\ Recorded'
  BY <1>3, <1>4 DEF LiveAtThePath, Recorded
<1>6. path' # None => path' = path /\ Candidate' = Candidate
  BY <1>4 DEF Candidate
<1> DEFINE J(r) ==
      /\ r.phase = 2 /\ path # None /\ Candidate = r.original =>
            /\ r.at \in {"dial", "inspect"} => r.candidate = Candidate
            /\ r.at = "stale" => path.by \notin Live
      /\ r.at \in {"recheck", "unlink"} /\ path # None => path.by \notin Live
<1>7. J(clients[c])
  BY DEF Judged
<1>8. J(clients'[c])
  <2> USE <1>2, <1>7 DEF ClientStates, Finished
  <2>1. CASE Launch(c)
    BY <2>1, PlacesInv DEF Launch, PlacesInv
  <2>2. CASE Probe(c)
    BY <2>2 DEF Probe
  <2>3. CASE Dial(c)
    <3>1. clients[c].phase = 2 /\ path # None => path.by \notin Bound
      BY <2>3 DEF Dial, TypeOK
    <3> QED
      BY <2>3, <3>1 DEF Dial, Absent, ClientIs, Live
  <2>4. CASE Inspect(c)
    BY <2>4 DEF Inspect, Absent, ClientIs
  <2>5. CASE Shake(c) \/ GiveUp(c)
    BY <2>5 DEF Shake, GiveUp, Finishes, ClientAt
  <2>6. CASE Reset(c)
    BY <2>6 DEF Reset, ClientIs, Finishes, ClientAt
  <2>7. CASE Lock(c)
    BY <2>7 DEF Lock, Locks
  <2>8. CASE InspectStaleSocket(c)
    BY <2>8 DEF InspectStaleSocket, ClientIs, Waits, PlacesInv
  <2>9. CASE Recheck(c)
    BY <2>9 DEF Recheck, ClientIs, Waits, Finishes, ClientAt
  <2>10. CASE RemoveStaleSocket(c)
    BY <2>10 DEF RemoveStaleSocket, ClientIs, Finishes, ClientAt
  <2>11. CASE Spawn(c)
    BY <2>11 DEF Spawn, Waits
  <2> QED
    BY <2>1, <2>2, <2>3, <2>4, <2>5, <2>6, <2>7, <2>8, <2>9, <2>10, <2>11 DEF ClientStep
<1>9. Judged'
  BY <1>2, <1>3, <1>6, <1>8 DEF Judged
<1> QED
  BY <1>5, <1>9

\* A backend that listens is at the path until one of the races happens, for any
\* number of clients and backends and whatever numbers and times a file system
\* gives out.  The startup lock is not needed for it.
THEOREM ListenersLostInRaces == Spec => []ListenersAreLostInRaces
<1>1. Init => ListenerInv
  BY DEF Init, ListenerInv, LiveAtThePath, Recorded, Judged, Live, Listening, Bound, Exiting,
         ClientAt, BackendAt
<1>2. TypeOK /\ PlacesInv /\ ListenerInv /\ [Next]_vars => ListenerInv'
  <2>1. TypeOK /\ PlacesInv /\ ListenerInv /\ Next => ListenerInv'
    BY BackendsListenAtThePath, ClientsSpareListeners DEF Next, BackendStep, ClientStep
  <2>2. ListenerInv /\ UNCHANGED vars => ListenerInv'
    BY DEF vars, ListenerInv, LiveAtThePath, Recorded, Judged, Candidate, Live, Listening, Bound,
           Exiting
  <2> QED
    BY <2>1, <2>2
<1>3. ListenerInv => ListenersAreLostInRaces
  BY DEF ListenerInv, LiveAtThePath, ListenersAreLostInRaces, Live
<1> QED
  BY <1>1, <1>2, <1>3, LaunchTyped, PTL DEF Spec

-----------------------------------------------------------------------------
(* The startup lock *)

\* Without a stray, the backend that is on its way to the path is the one that the
\* holder of the lock has started: it finds the path empty, and nobody but it can
\* put a file there or answer its client.
OneStarts ==
    /\ \A a, b \in Backends :
          backends[a].at \in Starting /\ backends[b].at \in Starting => a = b
    /\ \A b \in Backends :
          /\ backends[b].at = "opening" => path = None
          /\ backends[b].at \in Starting /\ path # None => path.by = b

LockHolderStarts ==
    \A b \in Backends : backends[b].at \in Starting =>
        /\ lock \in Clients /\ clients[lock].phase = 3
        /\ clients[lock].peer \in {None, b}

SpawnersFindNoFile == \A c \in Clients : clients[c].at = "spawn" => path = None

StartInv == stray \/ (OneStarts /\ LockHolderStarts /\ SpawnersFindNoFile)

\* Whoever holds the lock and has started nothing is alone.
LEMMA HolderIsAlone ==
    ASSUME TypeOK, LockHolderStarts, NEW c \in Clients, Locked(c), clients[c].phase = 2
    PROVE  \A b \in Backends : backends[b].at \notin Starting
  BY DEF TypeOK, LockHolderStarts

LEMMA BackendsStartApart ==
    ASSUME TypeOK, PlacesInv, StartInv, NEW b \in Backends, BackendStep(b)
    PROVE  StartInv'
<1> USE LaunchAssumption
<1>1. (stray => stray') /\ UNCHANGED <<lock, clients>>
  BY DEF BackendStep, StartManually, Bind, Listen, Restrict, Identify, StopListening,
         DropRepository, InspectBoundSocket, UnlinkBoundSocket, Crash, TypeOK
<1> SUFFICES ASSUME ~stray', OneStarts, LockHolderStarts, SpawnersFindNoFile
             PROVE  OneStarts' /\ LockHolderStarts' /\ SpawnersFindNoFile'
  BY <1>1 DEF StartInv
<1>2. /\ backends \in [Backends -> BackendStates] /\ path \in Sockets \cup {None}
      /\ ~StartManually(b)
  BY DEF TypeOK, BackendStates, StartManually
<1>3. /\ \A a \in Backends : a # b => backends'[a] = backends[a]
      /\ backends'[b].at \in Starting => backends[b].at \in Starting
      /\ backends'[b].at # "opening"
      /\ \/ path' = path
         \/ path' = None
         \/ backends[b].at \in Starting /\ path' # None /\ path'.by = b
            /\ backends'[b].at # "opening" /\ (path = None => backends[b].at = "opening")
         \/ path # None /\ path' # None /\ path'.by = path.by
  <2> USE <1>2 DEF BackendIs, Exits, BackendAt, BackendStates, Starting
  <2>1. CASE Bind(b)
    <3>1. CASE path # None
      BY <2>1, <3>1 DEF Bind
    <3>2. CASE path = None
      <4>1. PICK i \in Inodes, t \in Times :
               /\ path' = [inode |-> i, changed |-> t, by |-> b]
               /\ backends' = [backends EXCEPT ![b].at = "bound", ![b].inode = i]
               /\ backends[b].at = "opening"
        BY <2>1, <3>2 DEF Bind, FreshInodes
      <4>2. path' # None /\ path'.by = b
        BY <4>1 DEF Sockets
      <4> QED
        BY <4>1, <4>2
    <3> QED
      BY <3>1, <3>2
  <2>2. CASE Restrict(b)
    <3>1. CASE path # None
      <4>1. PICK t \in Times : path' = [path EXCEPT !.changed = t]
        BY <2>2, <3>1 DEF Restrict
      <4>2. path' # None /\ path'.by = path.by
        BY <3>1, <4>1 DEF Sockets
      <4> QED
        BY <2>2, <3>1, <4>2 DEF Restrict
    <3> QED
      BY <2>2, <3>1 DEF Restrict
  <2>3. CASE Listen(b)
    BY <2>3 DEF Listen
  <2>4. CASE Identify(b)
    BY <2>4 DEF Identify
  <2>5. CASE StopListening(b) \/ DropRepository(b) \/ InspectBoundSocket(b)
    BY <2>5 DEF StopListening, DropRepository, InspectBoundSocket
  <2>6. CASE UnlinkBoundSocket(b)
    BY <2>6 DEF UnlinkBoundSocket
  <2>7. CASE Crash(b)
    BY <2>7 DEF Crash
  <2> QED
    BY <2>1, <2>2, <2>3, <2>4, <2>5, <2>6, <2>7 DEF BackendStep
<1>4. \A a \in Backends : backends'[a].at \in Starting => backends[a].at \in Starting
  BY <1>3
<1>5. LockHolderStarts'
  BY <1>1, <1>4 DEF LockHolderStarts
<1>6. OneStarts'
  BY <1>3, <1>4 DEF OneStarts, Starting
<1>7. SpawnersFindNoFile'
  <2>1. \A c \in Clients : clients[c].at = "spawn" => backends[b].at \notin Starting
    BY HolderIsAlone DEF PlacesInv, Locked, Finished
  <2> QED
    BY <1>1, <1>3, <2>1 DEF SpawnersFindNoFile
<1> QED
  BY <1>5, <1>6, <1>7

LEMMA ClientsStartApart ==
    ASSUME TypeOK, PlacesInv, StartInv, NEW c \in Clients, ClientStep(c)
    PROVE  StartInv'
<1> USE LaunchAssumption
<1>1. stray => stray'
  BY DEF ClientStep, Launch, Probe, Dial, Inspect, Shake, Reset, Lock, Locks, InspectStaleSocket,
         Recheck, RemoveStaleSocket, Spawn, GiveUp, Finishes, TypeOK
<1> SUFFICES ASSUME ~stray', OneStarts, LockHolderStarts, SpawnersFindNoFile
             PROVE  OneStarts' /\ LockHolderStarts' /\ SpawnersFindNoFile'
  BY <1>1 DEF StartInv
<1>2. /\ clients' \in [Clients -> ClientStates] /\ clients \in [Clients -> ClientStates]
      /\ \A d \in Clients : d # c => clients'[d] = clients[d]
      /\ backends \in [Backends -> BackendStates] /\ (Locked(c) <=> lock = c)
      /\ c # None
  BY OneClientRecord DEF TypeOK, ClientStates, BackendStates, Places
<1>3. CASE Spawn(c)
  <2>1. PICK b \in Backends :
           /\ backends[b].at = "none" /\ backends' = [backends EXCEPT ![b].at = "opening"]
           /\ UNCHANGED <<path, lock>> /\ Waits(c) /\ clients[c].at = "spawn"
    BY <1>3 DEF Spawn, BackendIs
  <2>2. lock = c /\ clients[c].phase = 2 /\ path = None /\ clients[c].peer = None
    BY <1>2, <2>1 DEF PlacesInv, Locked, Finished, SpawnersFindNoFile
  <2>3. \A a \in Backends : backends[a].at \notin Starting
    BY <1>2, <2>2, HolderIsAlone
  <2>4. \A a \in Backends : backends'[a].at \in Starting => a = b
    BY <1>2, <2>1, <2>3 DEF BackendStates
  <2>5. clients'[c].phase = 3 /\ clients'[c].peer = None /\ clients'[c].at = "probe"
    BY <1>2, <2>1, <2>2 DEF Waits, ClientStates
  <2>6. LockHolderStarts'
    BY <1>2, <2>1, <2>2, <2>5 DEF LockHolderStarts
  <2>7. OneStarts'
    BY <2>1, <2>2, <2>4 DEF OneStarts
  <2>8. SpawnersFindNoFile'
    BY <2>1, <2>2 DEF SpawnersFindNoFile
  <2> QED
    BY <2>6, <2>7, <2>8
<1>4. CASE ~Spawn(c)
  <2>1. UNCHANGED backends /\ (path' = path \/ path' = None)
    BY <1>4 DEF ClientStep, Launch, Probe, Dial, Inspect, Shake, Reset, Lock, Locks,
                InspectStaleSocket, Recheck, RemoveStaleSocket, GiveUp
  <2>2. OneStarts'
    BY <2>1 DEF OneStarts
  <2>3. clients'[c].at = "spawn" => path' = None
    <3> USE <1>2 DEF ClientStates, Finished
    <3>1. CASE Launch(c) \/ Probe(c)
      BY <3>1 DEF Launch, Probe
    <3>2. CASE Dial(c) \/ Inspect(c)
      BY <3>2 DEF Dial, Inspect, Absent, ClientIs
    <3>3. CASE Shake(c) \/ GiveUp(c)
      BY <3>3 DEF Shake, GiveUp, Finishes, ClientAt
    <3>4. CASE Reset(c)
      BY <3>4 DEF Reset, ClientIs, Finishes, ClientAt
    <3>5. CASE Lock(c)
      BY <3>5 DEF Lock, Locks
    <3>6. CASE InspectStaleSocket(c)
      BY <3>6 DEF InspectStaleSocket, ClientIs, Waits
    <3>7. CASE Recheck(c)
      BY <3>7 DEF Recheck, ClientIs, Waits, Finishes, ClientAt
    <3>8. CASE RemoveStaleSocket(c)
      BY <3>8 DEF RemoveStaleSocket
    <3> QED
      BY <1>4, <3>1, <3>2, <3>3, <3>4, <3>5, <3>6, <3>7, <3>8 DEF ClientStep
  <2>4. SpawnersFindNoFile'
    BY <1>2, <2>1, <2>3 DEF SpawnersFindNoFile
  <2>5. ASSUME NEW b \in Backends, backends[b].at \in Starting
        PROVE  /\ lock' \in Clients /\ clients'[lock'].phase = 3
               /\ clients'[lock'].peer \in {None, b}
    <3>1. /\ lock \in Clients /\ clients[lock].phase = 3
          /\ clients[lock].peer \in {None, b}
      BY <2>5 DEF LockHolderStarts
    <3>2. CASE lock # c
      <4>1. ~Locked(c) /\ ~Lock(c)
        BY <1>2, <3>1, <3>2 DEF Lock
      <4>2. lock' = lock
        BY <1>4, <3>2, <4>1 DEF ClientStep, Launch, Probe, Dial, Inspect, Shake, Reset,
             InspectStaleSocket, Recheck, RemoveStaleSocket, GiveUp, Finishes
      <4> QED
        BY <1>2, <3>1, <3>2, <4>2
    <3>3. CASE lock = c
      <4> USE <1>2, <3>1, <3>3 DEF ClientStates, Finished
      <4>1. clients[c].at \notin {"start", "lock", "stale", "recheck", "unlink", "spawn"}
        BY DEF PlacesInv
      <4>2. CASE Probe(c)
        BY <4>2 DEF Probe
      <4>3. CASE Dial(c)
        <5>1. path # None => path.by = b
          BY <2>5 DEF OneStarts
        <5> QED
          BY <4>3, <5>1 DEF Dial, Absent, ClientIs
      <4>4. CASE Inspect(c)
        BY <4>4 DEF Inspect, Absent, ClientIs
      <4>5. CASE Shake(c)
        <5>1. clients[c].peer # None /\ clients[c].peer = b
          BY <4>5 DEF Shake, PlacesInv
        <5> QED
          BY <4>5, <5>1, <2>5 DEF Shake, Starting
      <4>6. CASE GiveUp(c)
        BY <4>6 DEF GiveUp, Finishes
      <4>7. CASE Reset(c)
        BY <4>7 DEF Reset, ClientIs, Finishes
      <4> QED
        BY <1>4, <4>1, <4>2, <4>3, <4>4, <4>5, <4>6, <4>7
        DEF ClientStep, Launch, Lock, InspectStaleSocket, Recheck, RemoveStaleSocket
    <3> QED
      BY <3>2, <3>3
  <2>6. LockHolderStarts'
    BY <2>1, <2>5 DEF LockHolderStarts
  <2> QED
    BY <2>2, <2>4, <2>6
<1> QED
  BY <1>3, <1>4

\* What the startup lock is for: while a client decides whether to start a backend,
\* none is on its way, for any number of clients and backends.
THEOREM StartsKeptApart == Spec => []StartsAreApart
<1>1. Init => StartInv
  BY DEF Init, StartInv, OneStarts, LockHolderStarts, SpawnersFindNoFile, BackendAt, ClientAt,
         Starting
<1>2. TypeOK /\ PlacesInv /\ StartInv /\ [Next]_vars => StartInv'
  <2>1. TypeOK /\ PlacesInv /\ StartInv /\ Next => StartInv'
    BY BackendsStartApart, ClientsStartApart DEF Next, BackendStep, ClientStep
  <2>2. StartInv /\ UNCHANGED vars => StartInv'
    BY DEF vars, StartInv, OneStarts, LockHolderStarts, SpawnersFindNoFile
  <2> QED
    BY <2>1, <2>2
<1>3. TypeOK /\ StartInv => StartsAreApart
  BY HolderIsAlone DEF StartInv, StartsAreApart
<1> QED
  BY <1>1, <1>2, <1>3, LaunchTyped, PTL DEF Spec

-----------------------------------------------------------------------------
(***************************************************************************)
(* The workspace: what is drawn belongs to what is attached, and without   *)
(* failures nothing else stays registered, for every number of sessions and*)
(* attachments.                                                            *)
(***************************************************************************)
USE DEF Attachments, Idle, Ended, At, Steps

-----------------------------------------------------------------------------
(* Type correctness *)

\* The workspace is in its control states, and the observers the backend has
\* of this client are those of stored sessions, under every command, failure,
\* dropped future and deletion by others.
THEOREM WorkspaceTypes == WorkspaceSpec => []WorkspaceTypeOK
<1>1. WorkspaceInit => WorkspaceTypeOK
  <2> SUFFICES ASSUME WorkspaceInit PROVE WorkspaceTypeOK
    OBVIOUS
  <2> USE WorkspaceAssumption DEF WorkspaceInit, WorkspaceTypeOK
  <2>1. stored \subseteq known /\ known \subseteq Sessions /\ running \subseteq stored
    OBVIOUS
  <2>2. registered \subseteq Attachments /\ \A o \in registered : o[1] \in stored
    OBVIOUS
  <2>3. last \in 0 .. MaxAttachment
    OBVIOUS
  <2>4. op \in [at : Steps, attachment : Attachments \cup {Nothing}]
    OBVIOUS
  <2>5. warning \in BOOLEAN /\ clean \in BOOLEAN
    OBVIOUS
  <2> QED
    BY <2>1, <2>2, <2>3, <2>4, <2>5
<1>2. WorkspaceTypeOK /\ [WorkspaceNext]_workspaceVars => WorkspaceTypeOK'
  <2> SUFFICES ASSUME WorkspaceTypeOK, [WorkspaceNext]_workspaceVars PROVE WorkspaceTypeOK'
    OBVIOUS
  <2> USE WorkspaceAssumption DEF WorkspaceTypeOK, server, client
  <2>1. CASE Environment
    BY <2>1 DEF Environment, StartRun, StopRun, OtherDeletes, ActorEnds,
                Broadcast
  <2>2. CASE NewDraft
    BY <2>2 DEF NewDraft, ShowDraft, DetachOld, LetGo
  <2>3. ASSUME NEW s \in Sessions, Switch(s) PROVE WorkspaceTypeOK'
    BY <2>3 DEF Switch, HasId, Register, New, Install, DetachOld, LetGo
  <2>4. ASSUME NEW s \in Sessions, Materialize(s) PROVE WorkspaceTypeOK'
    BY <2>4 DEF Materialize, HasId, Register, New, Install
  <2>5. ASSUME NEW s \in Sessions, DeleteSucceeds(s) PROVE WorkspaceTypeOK'
    <3> USE <2>5 DEF DeleteSucceeds, ActorEnds
    <3>1. CASE projection = s
      BY <3>1 DEF ShowDraft, LetGo
    <3>2. CASE projection # s
      BY <3>2
    <3> QED
      BY <3>1, <3>2
  <2>6. ASSUME NEW s \in Sessions, DeleteFails(s) PROVE WorkspaceTypeOK'
    BY <2>6 DEF DeleteFails, ActorEnds
  <2>7. CASE DetachReturns
    BY <2>7 DEF DetachReturns
  <2>8. CASE Reopen
    <3>1. CASE /\ projection \in stored /\ HasId
               /\ Register(New(projection)) /\ Install(New(projection))
               /\ DetachOld /\ LetGo /\ UNCHANGED <<server, warning>>
      <4> DEFINE o == New(projection)
      <4>1. o \in Attachments /\ o[1] \in stored
        BY <3>1 DEF HasId, New
      <4> QED
        BY <3>1, <4>1 DEF Register, Install, DetachOld, LetGo, HasId
    <3>2. CASE /\ warning' = TRUE /\ op' = Idle
               /\ UNCHANGED <<registered, last, session, recovery, projection, clean, server>>
      BY <3>2
    <3> QED
      BY <2>8, <3>1, <3>2 DEF Reopen
  <2>9. CASE StartupAnswers
    <3>1. PICK done \in {"answered", "ownAnswered"} :
             \/ \E s \in running : /\ HasId /\ Register(New(s))
                                   /\ op' = At(done, New(s)) /\ UNCHANGED <<warning, clean>>
             \/ op' = At(done, Nothing) /\ UNCHANGED <<registered, last, warning, clean>>
             \/ /\ op' = At(done, Nothing) /\ warning' = TRUE /\ clean' = FALSE
                /\ UNCHANGED <<registered, last>>
      <4>1. CASE op.at = "fallback"
        BY <2>9, <4>1 DEF StartupAnswers
      <4>2. CASE op.at = "ownFallback"
        BY <2>9, <4>2 DEF StartupAnswers
      <4> QED
        BY <2>9, <4>1, <4>2 DEF StartupAnswers
    <3>2. UNCHANGED <<server, session, recovery, projection>>
      BY <2>9 DEF StartupAnswers
    <3>3. ASSUME NEW s \in running, HasId, Register(New(s)),
                 op' = At(done, New(s)), UNCHANGED <<warning, clean>>
          PROVE  WorkspaceTypeOK'
      <4>1. New(s) \in Attachments /\ s \in stored /\ New(s)[1] = s
        BY <3>3 DEF HasId, New
      <4> QED
        BY <3>2, <3>3, <4>1 DEF Register, HasId
    <3>4. ASSUME op' = At(done, Nothing), UNCHANGED <<registered, last>>,
                 warning' \in BOOLEAN, clean' \in BOOLEAN
          PROVE  WorkspaceTypeOK'
      BY <3>2, <3>4
    <3> QED
      BY <3>1, <3>3, <3>4
  <2>10. CASE FallbackReturns
    BY <2>10 DEF FallbackReturns, Install
  <2>11. CASE TakeWarning
    BY <2>11 DEF TakeWarning
  <2>12. CASE Recover
    BY <2>12 DEF Recover, Polls, HasId, Register, New
  <2>13. CASE Recovered
    BY <2>13 DEF Recovered, Polls, Install
  <2>14. CASE Deleted
    BY <2>14 DEF Deleted, Polls, ShowDraft
  <2>15. CASE Frame
    BY <2>15 DEF Frame
  <2>16. CASE UNCHANGED workspaceVars
    BY <2>16 DEF workspaceVars
  <2> QED
    BY <2>1, <2>2, <2>3, <2>4, <2>5, <2>6, <2>7, <2>8, <2>9, <2>10, <2>11, <2>12,
       <2>13, <2>14, <2>15, <2>16 DEF WorkspaceNext, User, Awaited, NextUpdate
<1> QED
  BY <1>1, <1>2, PTL DEF WorkspaceSpec

-----------------------------------------------------------------------------
(* The attachment *)

\* The attachment an operation in progress has in hand: the one it replaced and
\* has to detach, or the one startup answered with.
InHand == IF op.at \in {"detach", "answered", "ownAnswered"} THEN {op.attachment} ELSE {}

FallsBack == op.at \in {"fallback", "ownFallback", "answered", "ownAnswered"}

AttachmentInv ==
    /\ ProjectionFollowsAttachment
    /\ FallsBack => session = Nothing
    /\ clean => registered \subseteq {session, recovery} \cup InHand

USE DEF ProjectionFollowsAttachment, FallsBack, InHand, AttachmentInv

LEMMA AttachmentInitially == WorkspaceInit => AttachmentInv
  BY WorkspaceAssumption DEF WorkspaceInit

LEMMA AttachmentStays ==
    ASSUME WorkspaceTypeOK, AttachmentInv, [WorkspaceNext]_workspaceVars
    PROVE  AttachmentInv'
<1> USE WorkspaceAssumption DEF WorkspaceTypeOK, server, client
<1>1. CASE Environment
  BY <1>1 DEF Environment, StartRun, StopRun, OtherDeletes, ActorEnds,
              Broadcast
<1>2. CASE NewDraft
  BY <1>2 DEF NewDraft, ShowDraft, DetachOld, LetGo
<1>3. ASSUME NEW s \in Sessions, Switch(s) PROVE AttachmentInv'
  <2>1. CASE session = Nothing
    BY <1>3, <2>1 DEF Switch, HasId, Register, New, Install, DetachOld,
                      LetGo
  <2>2. CASE session # Nothing
    <3> DEFINE o == New(s)
    <3> HIDE DEF o
    <3>1. /\ registered' = registered \cup {o} /\ session' = o /\ projection' = o[1]
          /\ op' = At("detach", session) /\ recovery' = Nothing
          /\ clean' = (clean /\ recovery = Nothing) /\ op = Idle
      BY <1>3, <2>2 DEF Switch, Register, Install, DetachOld, LetGo, o
    <3>2. o # Nothing
      BY <1>3 DEF Switch, HasId, New, o
    <3> QED
      BY <3>1, <3>2
  <2> QED
    BY <2>1, <2>2
<1>4. ASSUME NEW s \in Sessions, Materialize(s) PROVE AttachmentInv'
  BY <1>4 DEF Materialize, HasId, Register, New, Install
<1>5. ASSUME NEW s \in Sessions, DeleteSucceeds(s) PROVE AttachmentInv'
  BY <1>5 DEF DeleteSucceeds, ActorEnds, ShowDraft, LetGo
<1>6. ASSUME NEW s \in Sessions, DeleteFails(s) PROVE AttachmentInv'
  BY <1>6 DEF DeleteFails, ActorEnds
<1>7. CASE DetachReturns
  BY <1>7 DEF DetachReturns
<1>8. CASE Reopen
  <2>1. CASE op'.at \in {"idle", "detach"} /\ session = Nothing
    BY <1>8, <2>1 DEF Reopen, HasId, Register, New, Install, DetachOld,
                      LetGo
  <2>2. CASE op'.at \in {"idle", "detach"} /\ session # Nothing
    <3> DEFINE o == New(projection)
    <3> HIDE DEF o
    <3>1. CASE /\ registered' = registered \cup {o} /\ session' = o /\ projection' = o[1]
               /\ op' = At("detach", session) /\ recovery' = Nothing
               /\ clean' = (clean /\ recovery = Nothing) /\ o # Nothing
      BY ZenonT(60), <1>8, <2>2, <3>1 DEF Reopen
    <3>2. CASE /\ warning' = TRUE /\ op' = Idle
               /\ UNCHANGED <<registered, last, session, recovery, projection, clean>>
      BY <1>8, <3>2 DEF Reopen
    <3> QED
      BY <1>8, <2>2, <3>1, <3>2 DEF Reopen, HasId, New, Register, Install,
                                    DetachOld, LetGo, o
  <2> QED
    BY <1>8, <2>1, <2>2 DEF Reopen, DetachOld
<1>9. CASE StartupAnswers
  BY <1>9 DEF StartupAnswers, HasId, Register, New
<1>10. CASE FallbackReturns
  BY <1>10 DEF FallbackReturns, Install
<1>11. CASE TakeWarning
  BY <1>11 DEF TakeWarning
<1>12. CASE Recover
  BY <1>12 DEF Recover, Polls, HasId, Register, New
<1>13. CASE Recovered
  BY <1>13 DEF Recovered, Polls, Install
<1>14. CASE Deleted
  BY <1>14 DEF Deleted, Polls, ShowDraft
<1>15. CASE Frame
  BY <1>15 DEF Frame
<1>16. CASE UNCHANGED workspaceVars
  BY <1>16 DEF workspaceVars
<1> QED
  BY <1>1, <1>2, <1>3, <1>4, <1>5, <1>6, <1>7, <1>8, <1>9, <1>10, <1>11, <1>12,
     <1>13, <1>14, <1>15, <1>16 DEF WorkspaceNext, User, Awaited, NextUpdate

LEMMA AttachmentHolds == WorkspaceSpec => []AttachmentInv
  BY AttachmentInitially, AttachmentStays, WorkspaceTypes, PTL DEF WorkspaceSpec

\* At every await a future may be dropped at, the session that is presented is
\* the one updates come from.
THEOREM ProjectionCorrect == WorkspaceSpec => []ProjectionFollowsAttachment
<1>1. AttachmentInv => ProjectionFollowsAttachment
  OBVIOUS
<1> QED
  BY <1>1, AttachmentHolds, PTL

\* As long as no call failed and no future was dropped, no observer outlives
\* the operation that replaced it.
THEOREM RegistrationsCorrect == WorkspaceSpec => []RegistrationsAreExact
<1>1. AttachmentInv => RegistrationsAreExact
  BY DEF RegistrationsAreExact
<1> QED
  BY <1>1, AttachmentHolds, PTL

=============================================================================
