------------------------ MODULE SessionManagerProofs ------------------------
(***************************************************************************)
(* Theorems about SessionManager, for any numbers of sessions,             *)
(* connections, commands, changes and failures.                            *)
(*                                                                         *)
(* Every step does one of a few things to the actors, the registry and the *)
(* store (Effect), and the invariants are kept by these: the shape of the  *)
(* state (Shape), what commands and runs account for (Counts, Changes),    *)
(* which actors live without a handle (Followed), what is stored of a      *)
(* session (Saved), and the order of what a connection sends (Connects).   *)
(***************************************************************************)
EXTENDS SessionManager, SequenceTheorems, TLAPS

-----------------------------------------------------------------------------
(* The invariants *)

\* The records and actors of TypeOK, without its bounds on the numbers in them.
NatRecords == [changes : Nat, title : Nat, running : BOOLEAN]
ActorShape ==
    [session : Sessions, state : {"live", "dead", "stopped", "deleted", "aborted"},
     deleting : BOOLEAN, shutting_down : BOOLEAN, dirty : BOOLEAN,
     record : NatRecords, observers : SUBSET Connections]

ActorsShape ==
    /\ actors \in Seq(ActorShape)
    /\ registry \in [Sessions -> {NoActor} \cup DOMAIN actors]
    /\ \A s \in Registered : actors[registry[s]].session = s
    /\ orphans \subseteq [actor : DOMAIN actors, running : BOOLEAN]
StoreShape == store \in [Sessions -> NatRecords] /\ created \subseteq Sessions
ManagerShape ==
    /\ mailbox \in Seq(Command) /\ Len(mailbox) <= MaxMailbox /\ manager \in Managers
    /\ titles \subseteq Sessions /\ connections \in [Connections -> {"open", "closed", "gone"}]
    /\ sent \in 0 .. MaxCommands /\ faults \in 0 .. MaxFaults

\* The actors that the manager is about to ask are registered; one whose deletion
\* is under way accepts nothing new.
ManagerAims ==
    /\ manager.pc \in {"attach", "erase", "finish", "abort"} => s0 \in Registered
    /\ manager.pc \in {"erase", "finish", "abort"} => ~Mutable(registry[s0])
    /\ manager.pc = "each" => manager.todo \subseteq Registered

Shape == ActorsShape /\ StoreShape /\ ManagerShape /\ ManagerAims

\* Every command starts one actor and raises a title by one at most, each of them
\* when it is handled; a title that was generated is the second one.  A run that
\* ends adds a change, once.
Raised(h) ==
    /\ \A s \in Sessions : store[s].title <= h + 2
    /\ \A i \in DOMAIN actors : actors[i].record.title <= h + 2
    /\ Len(actors) <= h
Credit == IF manager.pc = "begin" /\ c0.kind # "disconnect" THEN 1 ELSE 0
\* h commands were handled, the one in i is command n[i].
Counted(h, n) ==
    /\ Raised(h) /\ h + Credit <= sent /\ Len(n) = Len(mailbox)
    /\ \A i \in 1 .. Len(mailbox) :
        /\ n[i] >= h + Credit /\ n[i] <= sent
        /\ mailbox[i].kind # "disconnect" => n[i] > h + Credit
    /\ \A i, j \in 1 .. Len(mailbox) : i < j =>
        n[i] <= n[j] /\ (mailbox[j].kind # "disconnect" => n[i] < n[j])
Counts == \E h \in Nat : \E n \in Seq(Nat) : Counted(h, n)
Within(r) ==
    r.changes \in Nat /\ r.changes <= MaxChanges + 1 /\ (r.running => r.changes <= MaxChanges)
Changes ==
    /\ \A s \in Sessions : Within(store[s])
    /\ \A i \in DOMAIN actors : Within(actors[i].record)

\* Every actor is one of a session that was materialized.
Materialized ==
    /\ \A s \in Sessions : Present(s) => s \in created
    /\ \A i \in DOMAIN actors : actors[i].session \in created

\* An actor that lives without a handle is one the manager has lost, which has
\* neither a handle nor, unless it was running then, a run.
Lost(i) == \E o \in orphans : o.actor = i
Followed ==
    /\ \A i \in DOMAIN actors : Live(i) => registry[actors[i].session] = i \/ Lost(i)
    /\ \A o \in orphans :
        /\ registry[actors[o.actor].session] # o.actor /\ actors[o.actor].shutting_down
        /\ Live(o.actor) /\ Running(o.actor) => o.running

\* What an actor has and what is stored of its session, unless a run of one that
\* was lost goes on storing.
ActorSaved(i) ==
    LET s == actors[i].session IN
    ~Contested(s) /\ Present(s) =>
        /\ Live(i) /\ ~Lost(i) =>
            /\ store[s].title = actors[i].record.title
            /\ store[s].changes <= actors[i].record.changes
            /\ ~actors[i].dirty => store[s].changes = actors[i].record.changes
        /\ actors[i].state = "stopped" =>
            /\ store[s].title >= actors[i].record.title
            /\ store[s].changes >= actors[i].record.changes
Saved == \A i \in DOMAIN actors : ActorSaved(i)

\* The commands of a connection come before its detachment.
Connected(c) ==
    /\ \A i \in 1 .. Len(mailbox) : mailbox[i].connection = c => connections[c] # "gone"
    /\ connections[c] = "open" =>
        /\ \A i \in 1 .. Len(mailbox) : ~(mailbox[i].kind = "disconnect" /\ mailbox[i].connection = c)
        /\ ~(c0.kind = "disconnect" /\ c0.connection = c)
    /\ \A i, j \in 1 .. Len(mailbox) :
        i < j /\ mailbox[i].kind = "disconnect" /\ mailbox[i].connection = c => mailbox[j].connection # c
    /\ c0.kind = "disconnect" /\ c0.connection = c =>
        /\ manager.pc \in {"begin", "each"}
        /\ \A i \in 1 .. Len(mailbox) : mailbox[i].connection # c
    /\ manager.pc \in {"begin", "attach"} /\ c0.connection = c => connections[c] # "gone"
Forgotten ==
    \A i \in DOMAIN actors : \A c \in Connections : Live(i) /\ ~Lost(i) =>
        /\ connections[c] = "gone" => c \notin actors[i].observers
        /\ manager.pc = "each" /\ c0.kind = "disconnect" /\ c0.connection = c
              /\ actors[i].session \notin manager.todo => c \notin actors[i].observers
Connects == (\A c \in Connections : Connected(c)) /\ Forgotten

-----------------------------------------------------------------------------
(* What a step does to actors, registry and store *)

\* A command that may start an actor or raise a title has been handled.
Rises == manager.pc = "begin" /\ c0.kind # "disconnect" /\ manager'.pc # "begin"

\* Actor i becomes a; it never lives, or accepts commands, again.
Becomes(i, a) ==
    /\ i \in DOMAIN actors /\ a \in ActorShape /\ a.session = actors[i].session
    /\ a.state = "live" => Live(i)
    /\ actors[i].shutting_down => a.shutting_down
    /\ actors[i].deleting => a.deleting
    /\ actors' = [actors EXCEPT ![i] = a] /\ UNCHANGED orphans

\* Only who observes it, or that it is being stopped.
Newcomers == IF manager.pc = "attach" THEN {c0.connection} ELSE {}
Watched(i, a) ==
    /\ Becomes(i, a) /\ UNCHANGED <<registry, store, created>>
    /\ a.observers \subseteq actors[i].observers \cup Newcomers
    /\ a.state = actors[i].state /\ a.record = actors[i].record /\ a.dirty = actors[i].dirty

\* A new title, in the store and in the actor.
Retitled(i, a) ==
    LET s == actors[i].session IN
    /\ Becomes(i, a) /\ UNCHANGED <<registry, created>>
    /\ Live(i) /\ registry[s] = i /\ Present(s) /\ (Rises \/ store[s].title = 1)
    /\ a.state = "live" /\ a.dirty = actors[i].dirty /\ a.observers = actors[i].observers
    /\ a.record.title = store[s].title + 1 /\ a.record.changes = actors[i].record.changes
    /\ a.record.running = actors[i].record.running
    /\ store' = [store EXCEPT ![s].title = @ + 1]

\* A run changes the record, or ends in it; where the actor is shutting down, it
\* is one that went on.
Proceeds(i, r) ==
    LET old == actors[i].record IN
    /\ r.title = old.title
    /\ \/ r = old
       \/ r.changes = old.changes + 1 /\ old.running /\ ~r.running
       \/ r.changes = old.changes + 1 /\ r.changes <= MaxChanges
    /\ r.running => old.running \/ ~actors[i].shutting_down

\* A checkpoint of what an actor has, or has now.
Checkpointed(i, a) ==
    LET s == actors[i].session IN
    /\ Becomes(i, a) /\ UNCHANGED <<registry, created>>
    /\ Live(i) /\ a.state = "live" /\ a.observers = actors[i].observers
    /\ Proceeds(i, a.record)
    /\ registry[s] = i \/ Running(i) \/ ~actors[i].shutting_down
    /\ \/ ~a.dirty /\ Present(s) /\ store' = [store EXCEPT ![s] = a.record]
       \/ a.dirty /\ UNCHANGED store

\* The end of an actor: that of a shutdown leaves what it has in the store.
Ended(i, a) ==
    LET s == actors[i].session IN
    /\ Becomes(i, a) /\ UNCHANGED created
    /\ a.state # "live" /\ a.observers = {} /\ a.record = actors[i].record
    /\ registry' = registry \/ (registry[s] = i /\ registry' = [registry EXCEPT ![s] = NoActor])
    /\ \/ a.state # "stopped" /\ UNCHANGED store
       \/ /\ Live(i) /\ a.state = "stopped" /\ registry[s] = i
          /\ IF actors[i].dirty THEN Present(s) /\ store' = [store EXCEPT ![s] = a.record]
                                ELSE UNCHANGED store

\* A handle goes: the actor has ended, or was shutting down and lives on.
Dropped(s) ==
    /\ s \in Registered /\ registry' = [registry EXCEPT ![s] = NoActor]
    /\ UNCHANGED <<actors, store, created>>
    /\ \/ ~Live(registry[s]) /\ UNCHANGED orphans
       \/ /\ actors[registry[s]].shutting_down
          /\ orphans' = orphans \cup {[actor |-> registry[s], running |-> Running(registry[s])]}

\* A new actor of a session that has no handle, or is new.
Spawned(s, a) ==
    /\ s \in Sessions /\ a \in ActorShape /\ a.session = s /\ Rises /\ UNCHANGED orphans
    /\ a.state = "live" /\ ~a.dirty /\ a.observers = {} /\ a.record = store'[s]
    /\ actors' = Append(actors, a) /\ registry' = [registry EXCEPT ![s] = Len(actors) + 1]
    /\ \/ s \notin Registered /\ Present(s) /\ UNCHANGED created
          /\ store' = [store EXCEPT ![s] = Loaded(store[s])]
       \/ s \notin created /\ created' = created \cup {s} /\ store' = [store EXCEPT ![s] = Created]

\* The first record of a session whose run could not begin.
Unstarted == Changed(Created, FALSE)

\* The store alone: a session is renamed, loaded, deleted, or created without an actor.
Stored(s, r) ==
    /\ s \in Sessions /\ r \in NatRecords /\ UNCHANGED <<actors, registry, orphans>>
    /\ store' = [store EXCEPT ![s] = r]
    /\ \/ /\ s \notin Registered /\ Present(s) /\ UNCHANGED created /\ Rises
          /\ r.title = store[s].title + 1 /\ r.changes = store[s].changes
          /\ r.running = store[s].running
       \/ s \notin Registered /\ Present(s) /\ UNCHANGED created /\ r = Loaded(store[s])
       \/ r = Absent /\ UNCHANGED created
       \/ /\ s \notin created /\ created' = created \cup {s}
          /\ r \in {store[s], Absent, Created, Unstarted}

Effect ==
    \/ UNCHANGED <<actors, registry, orphans, store, created>>
    \/ \E i, a : Watched(i, a) \/ Retitled(i, a) \/ Checkpointed(i, a) \/ Ended(i, a)
    \/ \E s : Dropped(s)
    \/ \E s, a : Spawned(s, a) \/ Stored(s, a)

-----------------------------------------------------------------------------
(* Records *)

\* An actor with another record, or other observers, is one.
LEMMA ActorFields ==
    ASSUME NEW a \in ActorShape
    PROVE  /\ a.record \in NatRecords /\ a.record.changes \in Nat /\ a.record.title \in Nat
           /\ a.record.running \in BOOLEAN /\ a.dirty \in BOOLEAN /\ a.deleting \in BOOLEAN
           /\ a.shutting_down \in BOOLEAN /\ a.observers \subseteq Connections /\ a.session \in Sessions
BY DEF ActorShape, NatRecords

LEMMA ObserversOf ==
    ASSUME NEW a \in ActorShape, NEW o \in SUBSET Connections,
           NEW b, b = [a EXCEPT !.observers = o]
    PROVE  /\ b \in ActorShape /\ b.session = a.session /\ b.state = a.state
           /\ b.record = a.record /\ b.dirty = a.dirty /\ b.observers = o
           /\ b.shutting_down = a.shutting_down /\ b.deleting = a.deleting
BY DEF ActorShape

\* A record that has changed, or was loaded.
LEMMA ChangedRecord ==
    ASSUME NEW r \in NatRecords, NEW running \in BOOLEAN
    PROVE  /\ Changed(r, running) \in NatRecords /\ Changed(r, running).changes = r.changes + 1
           /\ Changed(r, running).title = r.title /\ Changed(r, running).running = running
<1>1. PICK n \in Nat : n = r.changes + 1
  BY DEF NatRecords
<1>2. PICK q : q = [r EXCEPT !.changes = n]
  OBVIOUS
<1>3. q \in NatRecords /\ q.changes = n /\ q.title = r.title
  BY <1>2 DEF NatRecords
<1>4. Changed(r, running) = [q EXCEPT !.running = running]
  BY <1>1, <1>2 DEF Changed, NatRecords
<1>5. PICK b : b = [q EXCEPT !.running = running]
  OBVIOUS
<1>6. b \in NatRecords /\ b.changes = n /\ b.title = r.title /\ b.running = running
  BY <1>3, <1>5 DEF NatRecords
<1> QED BY <1>1, <1>4, <1>5, <1>6

LEMMA LoadedRecord ==
    ASSUME NEW r \in NatRecords
    PROVE  /\ Loaded(r) \in NatRecords /\ Loaded(r).title = r.title /\ ~Loaded(r).running
           /\ IF r.running THEN Loaded(r).changes = r.changes + 1 ELSE Loaded(r) = r
<1>1. CASE r.running
  BY <1>1, ChangedRecord DEF Loaded
<1>2. CASE ~r.running
  BY <1>2 DEF Loaded
<1> QED BY <1>1, <1>2

\* The record of a session that was materialized, and of none.
LEMMA FirstRecords ==
    /\ Created \in NatRecords /\ Created.changes = 1 /\ Created.title = 1
    /\ Absent \in NatRecords /\ Absent.changes = 0 /\ Absent.title = 0 /\ ~Absent.running
    /\ Unstarted \in NatRecords /\ Unstarted.changes = 2
    /\ Unstarted.title = 1 /\ ~Unstarted.running
<1>1. Created \in NatRecords /\ Created.changes = 1 /\ Created.title = 1
  BY DEF Created, NatRecords
<1>2. Absent \in NatRecords /\ Absent.changes = 0 /\ Absent.title = 0 /\ ~Absent.running
  BY DEF Absent, NatRecords
<1>3. PICK c : c = Unstarted
  OBVIOUS
<1>4. c \in NatRecords /\ c.changes = Created.changes + 1 /\ c.title = Created.title /\ c.running = FALSE
  BY <1>1, <1>3, ChangedRecord DEF Unstarted
<1>5. c.changes = 2 /\ c.title = 1 /\ ~c.running
  BY <1>1, <1>4
<1> QED BY <1>1, <1>2, <1>3, <1>4, <1>5

\* An actor with another record.
LEMMA RecordOf ==
    ASSUME NEW a \in ActorShape, NEW r \in NatRecords, NEW b, b = [a EXCEPT !.record = r]
    PROVE  /\ b \in ActorShape /\ b.session = a.session /\ b.state = a.state
           /\ b.record = r /\ b.dirty = a.dirty /\ b.observers = a.observers
           /\ b.shutting_down = a.shutting_down /\ b.deleting = a.deleting
BY DEF ActorShape

LEMMA TitledActor ==
    ASSUME NEW a \in ActorShape, NEW t \in Nat, NEW b, b = [a EXCEPT !.record.title = t]
    PROVE  /\ b \in ActorShape /\ b.session = a.session /\ b.record.changes = a.record.changes
           /\ b.record.running = a.record.running
           /\ b.record.title = t /\ b.observers = a.observers
           /\ b.state = a.state /\ b.dirty = a.dirty
           /\ b.shutting_down = a.shutting_down /\ b.deleting = a.deleting
<1> DEFINE r == [a.record EXCEPT !.title = t]
<1>1. r \in NatRecords /\ r.changes = a.record.changes /\ r.title = t /\ r.running = a.record.running
  BY ActorFields DEF NatRecords
<1>2. b = [a EXCEPT !.record = r]
  BY DEF ActorShape
<1> HIDE DEF r
<1> QED BY <1>1, <1>2 DEF ActorShape

LEMMA GoneActor ==
    ASSUME NEW a \in ActorShape, NEW state \in {"dead", "stopped", "deleted", "aborted"}
    PROVE  /\ Gone(a, state) \in ActorShape /\ Gone(a, state).session = a.session
           /\ Gone(a, state).record = a.record /\ Gone(a, state).observers = {}
           /\ Gone(a, state).state = state /\ Gone(a, state).dirty = a.dirty
           /\ Gone(a, state).shutting_down = a.shutting_down /\ Gone(a, state).deleting = a.deleting
BY DEF ActorShape, Gone

\* An actor is one of the shape while its record is.
LEMMA ActorFacts ==
    ASSUME Shape, NEW i \in DOMAIN actors
    PROVE  /\ actors[i] \in ActorShape /\ actors[i].session \in Sessions
           /\ actors \in Seq(ActorShape) /\ i \in 1 .. Len(actors) /\ i \in Nat \ {0}
           /\ Len(actors) \in Nat
<1>1. actors \in Seq(ActorShape)
  BY DEF Shape, ActorsShape
<1>2. actors[i] \in ActorShape /\ i \in 1 .. Len(actors) /\ Len(actors) \in Nat
  BY <1>1
<1> QED BY <1>1, <1>2, ActorFields

\* The handle of a registered session.
LEMMA HandleFacts ==
    ASSUME Shape, NEW s \in Registered
    PROVE  /\ s \in Sessions /\ registry[s] \in DOMAIN actors /\ actors[registry[s]] \in ActorShape
           /\ actors[registry[s]].session = s
<1>1. s \in Sessions /\ registry[s] \in DOMAIN actors /\ actors[registry[s]].session = s
  BY DEF Shape, ActorsShape, Registered
<1> QED BY <1>1, ActorFacts

\* The command that is handled.
LEMMA CommandFacts ==
    ASSUME Shape
    PROVE  /\ manager \in Managers /\ c0 \in Command /\ s0 \in Sessions /\ c0.connection \in Connections
           /\ store \in [Sessions -> NatRecords] /\ store[s0] \in NatRecords
           /\ Absent \in NatRecords
<1>1. manager \in Managers /\ store \in [Sessions -> NatRecords]
  BY DEF Shape, ManagerShape, StoreShape
<1>2. c0 \in Command
  BY <1>1 DEF Managers, c0
<1>3. s0 \in Sessions /\ c0.connection \in Connections
  BY <1>2 DEF Command, s0
<1> QED BY <1>1, <1>2, <1>3 DEF Absent, NatRecords

\* The manager's next state while it does nothing, and while it goes on with a command.
LEMMA IdleFacts ==
    /\ Idle \in Managers /\ Idle.pc = "idle" /\ NoCommand \in Command /\ Idle.command = NoCommand
    /\ NoCommand.kind = "none"
<1>1. AnySession \in Sessions /\ AnyConnection \in Connections
  BY ManagerAssumption DEF AnySession, AnyConnection
<1>2. NoCommand \in Command
  BY <1>1 DEF NoCommand, Command
<1> QED BY <1>2 DEF Idle, Managers, NoCommand

LEMMA GoesOn ==
    ASSUME Shape, NEW pc, pc \in {"begin", "attach", "erase", "finish", "abort", "titles"}, GoOn(pc)
    PROVE  /\ manager' \in Managers /\ manager'.pc = pc /\ c0' = c0 /\ s0' = s0
           /\ manager'.todo = manager.todo
BY CommandFacts DEF GoOn, Managers, c0, s0

\* Opening a session: it is loaded, and an actor is started.
LEMMA OpenEffect ==
    ASSUME Shape, NEW loads \in BOOLEAN, NEW ok \in BOOLEAN, Open(loads, ok) PROVE Effect
<1> DEFINE r == Loaded(store[s0])
           a == [session |-> s0, state |-> "live", deleting |-> FALSE, shutting_down |-> FALSE,
                 dirty |-> FALSE, record |-> store'[s0], observers |-> {}]
<1>1. /\ manager.pc = "begin" /\ c0.kind = "open" /\ s0 \notin Registered /\ s0 \in Sessions
      /\ UNCHANGED <<orphans, created>> /\ store \in [Sessions -> NatRecords]
  BY CommandFacts DEF Open, Handles
<1>2. r \in NatRecords /\ (~Present(s0) => r = store[s0])
  BY CommandFacts, LoadedRecord, FirstRecords DEF Present
<1>3. loads => store' = [store EXCEPT ![s0] = r]
  BY DEF Open
<1> HIDE DEF r
<1>4. CASE loads /\ ok /\ Present(s0)
  <2>1. actors' = Append(actors, a) /\ registry' = [registry EXCEPT ![s0] = Len(actors) + 1]
    BY <1>4 DEF Open, SpawnActor
  <2>2. store'[s0] = r
    BY <1>1, <1>3, <1>4
  <2>3. /\ a \in ActorShape /\ a.session = s0 /\ a.state = "live" /\ ~a.dirty
        /\ a.observers = {} /\ a.record = store'[s0]
    BY <1>1, <1>2, <2>2 DEF ActorShape
  <2>4. Rises
    BY <1>1, <1>4, GoesOn DEF Open, Rises
  <2> HIDE DEF a
  <2>5. Spawned(s0, a)
    BY <1>1, <1>3, <1>4, <2>1, <2>3, <2>4 DEF Spawned, r
  <2> QED BY <2>5 DEF Effect
<1>5. CASE loads /\ Present(s0) /\ ~ok
  <2>1. UNCHANGED <<actors, registry>>
    BY <1>5 DEF Open
  <2>2. Stored(s0, r)
    BY <1>1, <1>2, <1>3, <1>5, <2>1 DEF Stored, r
  <2> QED BY <2>2 DEF Effect
<1>6. CASE ~loads \/ ~Present(s0)
  <2>1. UNCHANGED <<actors, registry>>
    BY <1>6 DEF Open
  <2>2. ~loads => UNCHANGED store
    BY DEF Open
  <2>3. store' = store
    BY <1>1, <1>2, <1>3, <1>6, <2>2
  <2> QED BY <1>1, <2>1, <2>3 DEF Effect
<1> QED BY <1>4, <1>5, <1>6

\* Creating one.
LEMMA MaterializeEffect ==
    ASSUME Shape, NEW ok \in BOOLEAN, Materialize(ok) PROVE Effect
<1> DEFINE a == [session |-> s0, state |-> "live", deleting |-> FALSE, shutting_down |-> FALSE,
                 dirty |-> FALSE, record |-> Created, observers |-> {}]
<1>1. manager.pc = "begin" /\ c0.kind = "materialize" /\ s0 \in Sessions
      /\ store \in [Sessions -> NatRecords] /\ UNCHANGED orphans
  BY CommandFacts DEF Materialize, Handles
<1>2. CASE s0 \in created
  BY <1>2 DEF Materialize, Effect
<1>3. CASE s0 \notin created /\ ok
  <2>1. /\ created' = created \cup {s0} /\ store' = [store EXCEPT ![s0] = Created]
        /\ actors' = Append(actors, a) /\ registry' = [registry EXCEPT ![s0] = Len(actors) + 1]
    BY <1>3 DEF Materialize, SpawnActor
  <2>2. store'[s0] = Created
    BY <1>1, <2>1
  <2>3. /\ a \in ActorShape /\ a.session = s0 /\ a.state = "live" /\ ~a.dirty
        /\ a.observers = {} /\ a.record = store'[s0]
    BY <1>1, <2>2, FirstRecords DEF ActorShape
  <2>4. Rises
    BY <1>1, <1>3, GoesOn DEF Materialize, Rises
  <2> HIDE DEF a
  <2>5. Spawned(s0, a)
    BY <1>1, <1>3, <2>1, <2>3, <2>4 DEF Spawned
  <2> QED BY <2>5 DEF Effect
<1>4. CASE s0 \notin created /\ ~ok
  <2>1. UNCHANGED <<actors, registry, store>> /\ created' = created \cup {s0}
    BY <1>4 DEF Materialize
  <2>2. store[s0] \in NatRecords /\ store' = [store EXCEPT ![s0] = store[s0]]
    BY <1>1, <2>1
  <2>3. Stored(s0, store[s0])
    BY <1>1, <1>4, <2>1, <2>2 DEF Stored
  <2> QED BY <2>3 DEF Effect
<1> QED BY <1>2, <1>3, <1>4

LEMMA MaterializeFailsEffect == ASSUME Shape, MaterializeFails PROVE Effect
<1>1. PICK r \in {Absent, Created, Unstarted} : store' = [store EXCEPT ![s0] = r]
  BY DEF MaterializeFails, Unstarted
<1>2. r \in NatRecords
  BY <1>1, FirstRecords
<1>3. s0 \notin created /\ created' = created \cup {s0} /\ UNCHANGED <<actors, registry, orphans>>
      /\ s0 \in Sessions
  BY CommandFacts DEF MaterializeFails
<1>4. Stored(s0, r)
  BY <1>1, <1>2, <1>3 DEF Stored
<1> QED BY <1>4 DEF Effect

\* Who is attached.
LEMMA AttachEffect == ASSUME Shape, Attach PROVE Effect
<1> DEFINE i == registry[s0]
           o == actors[i].observers \cup {c0.connection}
           a == [actors[i] EXCEPT !.observers = o]
<1>1. i \in DOMAIN actors /\ actors[i] \in ActorShape /\ o \in SUBSET Connections
  <2>1. s0 \in Registered
    BY DEF Attach, Shape, ManagerAims
  <2> QED BY <2>1, HandleFacts, CommandFacts, ActorFields
<1>2. UNCHANGED <<registry, orphans, store, created>>
      /\ (UNCHANGED actors \/ actors' = [actors EXCEPT ![i] = a])
  BY <1>1 DEF Attach
<1>3. CASE actors' = [actors EXCEPT ![i] = a]
  <2>1. Watched(i, a)
    <3>1. o \subseteq actors[i].observers \cup Newcomers
      BY DEF Attach, Newcomers
    <3> HIDE DEF i, o
    <3>2. /\ a.observers = o /\ a \in ActorShape /\ a.session = actors[i].session
          /\ a.state = actors[i].state /\ a.record = actors[i].record
          /\ a.dirty = actors[i].dirty
          /\ a.shutting_down = actors[i].shutting_down /\ a.deleting = actors[i].deleting
      BY <1>1, ObserversOf
    <3> HIDE DEF a
    <3> QED BY <1>1, <1>2, <1>3, <3>1, <3>2 DEF Watched, Becomes, Live
  <2> QED BY <2>1 DEF Effect
<1> QED BY <1>2, <1>3 DEF Effect

\* Who is no longer.
LEMMA DetachEffect ==
    ASSUME Shape, NEW s \in Registered, UNCHANGED <<registry, orphans, store, created>>,
           actors' = [actors EXCEPT ![registry[s]].observers = @ \ {c0.connection}]
    PROVE  Effect
<1> DEFINE i == registry[s]
           o == actors[i].observers \ {c0.connection}
           a == [actors[i] EXCEPT !.observers = o]
<1>1. i \in DOMAIN actors /\ actors[i] \in ActorShape /\ o \in SUBSET Connections
  BY HandleFacts, ActorFields
<1>2. actors' = [actors EXCEPT ![i] = a]
  BY <1>1
<1>3. Watched(i, a)
  <2>2. o \subseteq actors[i].observers
    OBVIOUS
  <2> HIDE DEF i, o
  <2>1. /\ a.observers = o /\ a \in ActorShape /\ a.session = actors[i].session /\ a.state = actors[i].state
        /\ a.record = actors[i].record /\ a.dirty = actors[i].dirty
        /\ a.shutting_down = actors[i].shutting_down /\ a.deleting = actors[i].deleting
    BY <1>1 DEF ActorShape
  <2> HIDE DEF a
  <2> QED BY <1>1, <1>2, <2>1, <2>2 DEF Watched, Becomes, Live
<1> QED BY <1>3 DEF Effect

\* A title is changed through the actor.
LEMMA RetitleEffect ==
    ASSUME Shape, NEW s \in Registered, Mutable(registry[s]), Present(s), Retitles(s, registry[s]),
           UNCHANGED <<registry, orphans, created>>, Rises \/ store[s].title = 1
    PROVE  Effect
<1> DEFINE i == registry[s]
           t == store[s].title + 1
           a == [actors[i] EXCEPT !.record.title = t]
<1>1. i \in DOMAIN actors /\ actors[i] \in ActorShape /\ actors[i].session = s /\ t \in Nat
  <2>1. store[s] \in NatRecords
    BY HandleFacts DEF Shape, StoreShape
  <2> QED BY <2>1, HandleFacts DEF NatRecords
<1>2. /\ actors' = [actors EXCEPT ![i] = a] /\ store' = [store EXCEPT ![s].title = @ + 1]
      /\ Live(i) /\ actors[i].state = "live"
  BY <1>1 DEF Retitles, Mutable, Live
<1>3. Retitled(i, a)
  <2>1. /\ a \in ActorShape /\ a.session = actors[i].session /\ a.record.changes = actors[i].record.changes
        /\ a.record.running = actors[i].record.running
        /\ a.record.title = t /\ a.observers = actors[i].observers
        /\ a.state = actors[i].state /\ a.dirty = actors[i].dirty
        /\ a.shutting_down = actors[i].shutting_down /\ a.deleting = actors[i].deleting
    <3> HIDE DEF i, t
    <3> QED BY <1>1, TitledActor
  <2> HIDE DEF a
  <2> QED BY <1>1, <1>2, <2>1 DEF Retitled, Becomes
<1> QED BY <1>3 DEF Effect

LEMMA RenameEffect == ASSUME Shape, NEW ok \in BOOLEAN, Rename(ok) PROVE Effect
<1>1. UNCHANGED <<registry, orphans, created>> /\ Rises
  BY IdleFacts DEF Rename, Handles, Answer, Rises
<1>2. CASE Present(s0) /\ s0 \notin Registered /\ store' = [store EXCEPT ![s0].title = @ + 1]
                       /\ UNCHANGED actors
  <2> DEFINE r == [store[s0] EXCEPT !.title = @ + 1]
  <2>1. r \in NatRecords /\ r.title = store[s0].title + 1 /\ r.changes = store[s0].changes
        /\ r.running = store[s0].running /\ s0 \in Sessions
    BY CommandFacts DEF NatRecords
  <2>2. store' = [store EXCEPT ![s0] = r]
    BY <1>2, CommandFacts
  <2> HIDE DEF r
  <2>3. Stored(s0, r)
    BY <1>1, <1>2, <2>1, <2>2 DEF Stored
  <2> QED BY <2>3 DEF Effect
<1>3. CASE Present(s0) /\ s0 \in Registered /\ Mutable(registry[s0]) /\ Retitles(s0, registry[s0])
  BY <1>1, <1>3, RetitleEffect
<1> QED BY <1>1, <1>2, <1>3 DEF Rename, Effect

LEMMA RouteTitleEffect == ASSUME Shape, NEW s \in Sessions, RouteTitle(s) PROVE Effect
<1>1. CASE UNCHANGED <<store, actors>>
  BY <1>1 DEF RouteTitle, Effect
<1>2. CASE s \in Registered /\ Mutable(registry[s]) /\ store[s].title = 1 /\ Retitles(s, registry[s])
  <2>1. Present(s)
    BY <1>2 DEF Present, Absent
  <2> QED BY <1>2, <2>1, RetitleEffect DEF RouteTitle
<1> QED BY <1>1, <1>2 DEF RouteTitle

\* The stored record goes.
LEMMA EraseEffect ==
    ASSUME Shape, UNCHANGED <<actors, registry, orphans, created>>,
           UNCHANGED store \/ store' = [store EXCEPT ![s0] = Absent]
    PROVE  Effect
<1>1. CASE store' = [store EXCEPT ![s0] = Absent]
  <2>1. Stored(s0, Absent)
    BY <1>1, CommandFacts DEF Stored
  <2> QED BY <2>1 DEF Effect
<1> QED BY <1>1 DEF Effect

\* A checkpoint.
LEMMA CheckpointEffect ==
    ASSUME Shape, NEW i \in DOMAIN actors, NEW a \in ActorShape, NEW saved \in BOOLEAN, Live(i),
           a.session = actors[i].session, a.state = "live", a.observers = actors[i].observers,
           actors[i].shutting_down => a.shutting_down, actors[i].deleting => a.deleting,
           Proceeds(i, a.record),
           registry[actors[i].session] = i \/ Running(i) \/ ~actors[i].shutting_down,
           Checkpoints(i, a, saved), UNCHANGED <<registry, orphans, created>>
    PROVE  Effect
<1> DEFINE present == saved /\ Present(a.session)
           b == [a EXCEPT !.dirty = ~present]
<1>1. /\ store' = IF present THEN [store EXCEPT ![a.session] = a.record] ELSE store
      /\ actors' = [actors EXCEPT ![i] = b] /\ present \in BOOLEAN
  BY DEF Checkpoints, Present
<1>2. /\ b \in ActorShape /\ b.session = a.session /\ b.state = a.state /\ b.observers = a.observers
      /\ b.record = a.record /\ b.dirty = ~present
      /\ b.shutting_down = a.shutting_down /\ b.deleting = a.deleting
  <2> HIDE DEF present
  <2> QED BY <1>1 DEF ActorShape
<1> HIDE DEF b
<1>3. Checkpointed(i, b)
  BY <1>1, <1>2 DEF Checkpointed, Becomes
<1> QED BY <1>3 DEF Effect

LEMMA RunEffect ==
    ASSUME Shape, NEW i \in DOMAIN actors, NEW running \in BOOLEAN, NEW saved \in BOOLEAN,
           Run(i, running, saved)
    PROVE  Effect
<1> DEFINE r == Changed(actors[i].record, running)
           a == [actors[i] EXCEPT !.record = r]
<1>1. /\ Live(i) /\ actors[i].state = "live" /\ actors[i].record.changes < MaxChanges
      /\ Checkpoints(i, a, saved) /\ UNCHANGED <<registry, orphans, created>>
      /\ Running(i) \/ ~actors[i].shutting_down
  BY DEF Run, Live, Mutable
<1>2. actors[i] \in ActorShape /\ actors[i].record \in NatRecords /\ actors[i].record.changes \in Nat
  BY ActorFacts, ActorFields
<1>3. r \in NatRecords /\ r.changes = actors[i].record.changes + 1 /\ r.title = actors[i].record.title
  BY <1>2, ChangedRecord
<1> HIDE DEF r
<1>4. /\ a \in ActorShape /\ a.session = actors[i].session /\ a.state = actors[i].state
      /\ a.observers = actors[i].observers /\ a.record = r
      /\ a.shutting_down = actors[i].shutting_down /\ a.deleting = actors[i].deleting
  BY <1>2, <1>3, RecordOf
<1> HIDE DEF a
<1>5. r.changes <= MaxChanges
  BY <1>1, <1>2, <1>3, ManagerAssumption
<1>6. Proceeds(i, a.record)
  BY <1>1, <1>3, <1>4, <1>5 DEF Proceeds, Running
<1> QED BY <1>1, <1>4, <1>6, CheckpointEffect

LEMMA PrepareDeleteEffect ==
    ASSUME Shape, NEW jobs \in BOOLEAN, NEW saved \in BOOLEAN, PrepareDelete(jobs, saved)
    PROVE  Effect /\ ~Mutable(registry[s0])'
<1> DEFINE i == registry[s0]
           r == IF Running(i) THEN Changed(actors[i].record, FALSE) ELSE actors[i].record
           a == [actors[i] EXCEPT !.deleting = TRUE, !.record = r]
<1>1. s0 \in Registered /\ UNCHANGED <<registry, orphans, created>> /\ s0' = s0
  BY GoesOn DEF PrepareDelete
<1>2. i \in DOMAIN actors /\ actors[i] \in ActorShape /\ actors[i].session = s0
      /\ actors[i].record \in NatRecords
  BY <1>1, HandleFacts, ActorFields
<1>3. CASE Mutable(i)
  <2>1. Live(i) /\ actors[i].state = "live" /\ Checkpoints(i, a, saved)
    BY <1>3 DEF PrepareDelete, Mutable, Live
  <2>2. r \in NatRecords /\ Proceeds(i, r)
    <3>1. CASE Running(i)
      <4>1. r = Changed(actors[i].record, FALSE) /\ FALSE \in BOOLEAN
        BY <3>1
      <4>2. /\ r \in NatRecords /\ r.changes = actors[i].record.changes + 1
            /\ r.title = actors[i].record.title /\ ~r.running
        BY <1>2, <4>1, ChangedRecord
      <4> QED BY <3>1, <4>2 DEF Proceeds, Running
    <3>2. CASE ~Running(i)
      BY <1>2, <3>2 DEF Proceeds, Running
    <3> QED BY <3>1, <3>2
  <2>3. registry[actors[i].session] = i
    BY <1>2
  <2> HIDE DEF r
  <2>4. /\ a \in ActorShape /\ a.session = actors[i].session /\ a.state = actors[i].state
        /\ a.observers = actors[i].observers /\ a.record = r /\ a.deleting
        /\ a.shutting_down = actors[i].shutting_down
    <3> HIDE DEF i
    <3> QED BY <1>2, <2>2 DEF ActorShape
  <2>5. actors'[i].deleting
    <3> HIDE DEF i
    <3>1. actors' = [actors EXCEPT ![i] = [a EXCEPT !.dirty = ~(saved /\ Present(a.session))]]
      BY <2>1 DEF Checkpoints
    <3>2. [a EXCEPT !.dirty = ~(saved /\ Present(a.session))].deleting
      BY <2>4 DEF ActorShape
    <3> HIDE DEF a
    <3> QED BY <1>2, <3>1, <3>2
  <2>6. ~Mutable(registry[s0])'
    BY <1>1, <2>5 DEF Mutable
  <2>7. Effect
    <3> HIDE DEF a, i
    <3> QED BY <1>1, <1>2, <2>1, <2>2, <2>3, <2>4, CheckpointEffect
  <2> QED BY <2>6, <2>7
<1>4. CASE ~Mutable(i)
  <2>1. UNCHANGED <<actors, store>>
    BY <1>4 DEF PrepareDelete
  <2>2. ~Mutable(registry[s0])'
    BY <1>1, <1>4, <2>1 DEF Mutable, Live
  <2> QED BY <1>1, <2>1, <2>2 DEF Effect
<1> QED BY <1>3, <1>4

LEMMA FlushActorEffect ==
    ASSUME Shape, NEW s \in Sessions, NEW ok \in BOOLEAN, FlushActor(s, ok) PROVE Effect
<1>1. s \in Registered /\ UNCHANGED <<registry, orphans, created>>
  BY DEF FlushActor, Asks, Shape, ManagerAims
<1> DEFINE i == registry[s]
<1>2. i \in DOMAIN actors /\ actors[i] \in ActorShape /\ registry[actors[i].session] = i
  BY <1>1, HandleFacts
<1>3. CASE Live(i) /\ Checkpoints(i, actors[i], ok)
  <2>1. actors[i].state = "live"
    BY <1>3 DEF Live
  <2> HIDE DEF i
  <2>2. Proceeds(i, actors[i].record)
    BY DEF Proceeds
  <2> QED BY <1>1, <1>2, <1>3, <2>1, <2>2, CheckpointEffect
<1> QED BY <1>1, <1>3 DEF FlushActor, Effect

\* The ends of actors.
LEMMA GoneEffect ==
    ASSUME Shape, NEW i \in DOMAIN actors, NEW state \in {"dead", "deleted", "aborted"},
           actors' = [actors EXCEPT ![i] = Gone(@, state)], UNCHANGED <<orphans, store, created>>,
           \/ registry' = registry
           \/ /\ registry[actors[i].session] = i
              /\ registry' = [registry EXCEPT ![actors[i].session] = NoActor]
    PROVE  Effect
<1> DEFINE a == Gone(actors[i], state)
<1>1. actors[i] \in ActorShape /\ actors' = [actors EXCEPT ![i] = a]
  BY ActorFacts
<1>2. /\ a \in ActorShape /\ a.session = actors[i].session /\ a.record = actors[i].record
      /\ a.observers = {} /\ a.state = state
      /\ a.shutting_down = actors[i].shutting_down /\ a.deleting = actors[i].deleting
  BY <1>1, GoneActor
<1> HIDE DEF a
<1>3. Ended(i, a)
  BY <1>1, <1>2 DEF Ended, Becomes
<1> QED BY <1>3 DEF Effect

LEMMA EndActorEffect ==
    ASSUME Shape, NEW pc \in {"finish", "abort"}, NEW state \in {"deleted", "aborted"},
           EndActor(pc, state)
    PROVE  Effect
<1> DEFINE i == registry[s0]
<1>1. s0 \in Registered /\ ~Mutable(i)
  BY DEF EndActor, Shape, ManagerAims
<1>2. /\ i \in DOMAIN actors /\ actors[i].session = s0 /\ s0 \in Sessions
      /\ registry' = [registry EXCEPT ![s0] = NoActor] /\ UNCHANGED <<store, created>>
  BY <1>1, HandleFacts DEF EndActor
<1>3. CASE Live(i) /\ ~actors[i].deleting
  <2>1. UNCHANGED actors /\ orphans' = orphans \cup {[actor |-> i, running |-> Running(i)]}
    BY <1>3 DEF EndActor
  <2>2. actors[i].shutting_down
    BY <1>1, <1>3 DEF Mutable
  <2>3. Dropped(s0)
    BY <1>1, <1>2, <2>1, <2>2 DEF Dropped
  <2> QED BY <2>3 DEF Effect
<1>4. CASE ~Live(i)
  <2>1. UNCHANGED <<actors, orphans>>
    BY <1>4 DEF EndActor
  <2>2. Dropped(s0)
    BY <1>1, <1>2, <1>4, <2>1 DEF Dropped
  <2> QED BY <2>2 DEF Effect
<1>5. CASE Live(i) /\ actors[i].deleting
  <2>1. actors' = [actors EXCEPT ![i] = Gone(@, state)] /\ registry[actors[i].session] = i
        /\ UNCHANGED orphans
    BY <1>2, <1>5 DEF EndActor
  <2> HIDE DEF i
  <2> QED BY <1>2, <2>1, GoneEffect
<1> QED BY <1>3, <1>4, <1>5

LEMMA StopActorEffect ==
    ASSUME Shape, NEW s \in Sessions, NEW saved \in BOOLEAN, NEW jobs \in BOOLEAN,
           StopActor(s, saved, jobs)
    PROVE  Effect
<1> DEFINE i == registry[s]
           stopping == [actors[i] EXCEPT !.shutting_down = TRUE]
           flushed == ~stopping.dirty \/ (saved /\ Present(s))
           a == Gone([stopping EXCEPT !.dirty = FALSE], "stopped")
           b == [stopping EXCEPT !.dirty = @ /\ ~flushed]
<1>1. s \in Registered /\ UNCHANGED <<orphans, created>>
  BY DEF StopActor, Asks, Shape, ManagerAims
<1>2. i \in DOMAIN actors /\ actors[i] \in ActorShape /\ actors[i].session = s
  BY <1>1, HandleFacts
<1>3. /\ stopping \in ActorShape /\ stopping.session = s /\ stopping.record = actors[i].record
      /\ stopping.dirty = actors[i].dirty /\ stopping.state = actors[i].state
      /\ stopping.observers = actors[i].observers
      /\ stopping.shutting_down /\ stopping.deleting = actors[i].deleting
  <2> HIDE DEF i
  <2> QED BY <1>2 DEF ActorShape
<1>4. CASE Live(i)
  <2>1. /\ store' = IF flushed /\ stopping.dirty THEN [store EXCEPT ![s] = stopping.record] ELSE store
        /\ actors' = [actors EXCEPT ![i] = IF flushed /\ jobs THEN a ELSE b]
        /\ registry' = IF flushed /\ jobs THEN [registry EXCEPT ![s] = NoActor] ELSE registry
    BY <1>4 DEF StopActor
  <2>2. actors[i].state = "live" /\ flushed \in BOOLEAN
    BY <1>4, <1>3, ActorFields DEF Live, Present
  <2>3. flushed /\ stopping.dirty => Present(s)
    OBVIOUS
  <2>4. CASE flushed /\ jobs
    <3>1. /\ a \in ActorShape /\ a.session = s /\ a.record = actors[i].record
          /\ a.state = "stopped" /\ a.observers = {}
          /\ a.shutting_down /\ a.deleting = actors[i].deleting
      <4> DEFINE d == [stopping EXCEPT !.dirty = FALSE]
      <4>1. /\ d \in ActorShape /\ d.session = s /\ d.record = stopping.record
            /\ d.shutting_down = stopping.shutting_down /\ d.deleting = stopping.deleting
        <5> HIDE DEF stopping
        <5> QED BY <1>3 DEF ActorShape
      <4> HIDE DEF d, stopping
      <4>2. /\ Gone(d, "stopped") \in ActorShape /\ Gone(d, "stopped").session = d.session
            /\ Gone(d, "stopped").record = d.record /\ Gone(d, "stopped").observers = {}
            /\ Gone(d, "stopped").state = "stopped"
            /\ Gone(d, "stopped").shutting_down = d.shutting_down
            /\ Gone(d, "stopped").deleting = d.deleting
        BY <4>1, GoneActor
      <4> QED BY <1>3, <4>1, <4>2 DEF d
    <3>3. registry[actors[i].session] = i
      BY <1>2
    <3> HIDE DEF a, stopping, flushed, i
    <3>2. Ended(i, a)
      BY <1>1, <1>2, <1>3, <1>4, <2>1, <2>3, <2>4, <3>1, <3>3 DEF Ended, Becomes
    <3> QED BY <3>2 DEF Effect
  <2>5. CASE ~(flushed /\ jobs)
    <3>1. /\ b \in ActorShape /\ b.session = s /\ b.record = actors[i].record
          /\ b.state = "live" /\ b.observers = actors[i].observers
          /\ b.dirty = (actors[i].dirty /\ ~flushed)
          /\ b.shutting_down /\ b.deleting = actors[i].deleting
      <4> HIDE DEF stopping, flushed
      <4> QED BY <1>3, <2>2 DEF ActorShape
    <3>5. Proceeds(i, b.record) /\ registry[actors[i].session] = i
      BY <1>2, <3>1 DEF Proceeds
    <3> HIDE DEF b, stopping, flushed, i
    <3>2. CASE ~actors[i].dirty
      <4>1. ~b.dirty /\ UNCHANGED store /\ actors[i].dirty \in BOOLEAN
        BY <1>2, <1>3, <2>1, <3>1, <3>2, ActorFields
      <4>2. Watched(i, b)
        BY <1>1, <1>2, <1>4, <2>1, <2>2, <2>5, <3>1, <3>2, <4>1 DEF Watched, Becomes
      <4> QED BY <4>2 DEF Effect
    <3>3. CASE actors[i].dirty /\ flushed
      <4>1. ~b.dirty /\ store' = [store EXCEPT ![s] = b.record] /\ Present(s)
        BY <1>3, <2>1, <2>3, <3>1, <3>3
      <4>2. Checkpointed(i, b)
        BY <1>1, <1>2, <1>4, <2>1, <2>5, <3>1, <3>5, <4>1 DEF Checkpointed, Becomes
      <4> QED BY <4>2 DEF Effect
    <3>4. CASE actors[i].dirty /\ ~flushed
      <4>1. b.dirty /\ UNCHANGED store
        BY <2>1, <3>1, <3>4
      <4>2. Checkpointed(i, b)
        BY <1>1, <1>2, <1>4, <2>1, <2>5, <3>1, <3>5, <4>1 DEF Checkpointed, Becomes
      <4> QED BY <4>2 DEF Effect
    <3> QED BY <3>2, <3>3, <3>4
  <2> QED BY <2>4, <2>5
<1>5. CASE ~Live(i)
  BY <1>1, <1>5 DEF StopActor, Effect
<1> QED BY <1>4, <1>5

\* Every step has one of the effects.
LEMMA NextEffect == ASSUME Shape, [Next]_vars PROVE Effect
<1>1. CASE Take \/ MailboxCloses \/ OpenRegistered \/ Startup \/ Each \/ DrainTitles \/ EndEach
           \/ UNCHANGED vars
  BY <1>1 DEF Take, MailboxCloses, OpenRegistered, Startup, Each, DrainTitles, EndEach, vars, Effect
<1>2. CASE Attach
  BY <1>2, AttachEffect
<1>3. CASE MaterializeFails
  BY <1>3, MaterializeFailsEffect
<1>4. ASSUME NEW ok \in BOOLEAN, Materialize(ok) \/ Rename(ok) PROVE Effect
  BY <1>4, MaterializeEffect, RenameEffect
<1>5. ASSUME NEW ok \in BOOLEAN, DeleteStored(ok) \/ Erase(ok) PROVE Effect
  BY <1>5, EraseEffect DEF DeleteStored, Erase
<1>6. ASSUME NEW jobs \in BOOLEAN, NEW saved \in BOOLEAN, PrepareDelete(jobs, saved) PROVE Effect
  BY <1>6, PrepareDeleteEffect
<1>7. CASE Finish \/ Abort
  BY <1>7, EndActorEffect DEF Finish, Abort
<1>8. CASE Detach
  BY <1>8, DetachEffect DEF Detach, Effect
<1>9. ASSUME NEW s \in Sessions, RouteTitle(s) \/ DetachFrom(s) PROVE Effect
  BY <1>9, RouteTitleEffect, DetachEffect DEF DetachFrom, Asks, Shape, ManagerAims
<1>10. ASSUME NEW s \in Sessions, NEW ok \in BOOLEAN, FlushActor(s, ok) PROVE Effect
  BY <1>10, FlushActorEffect
<1>11. ASSUME NEW s \in Sessions, NEW ok \in BOOLEAN, NEW jobs \in BOOLEAN, StopActor(s, ok, jobs)
       PROVE  Effect
  BY <1>11, StopActorEffect
<1>12. ASSUME NEW kind \in Kinds, NEW s \in Sessions, NEW c \in Connections,
              Send(kind, s, c) \/ Disconnect(c)
       PROVE  Effect
  BY <1>12 DEF Send, Disconnect, Sends, Effect
<1>16. ASSUME NEW loads \in BOOLEAN, NEW ok \in BOOLEAN, Open(loads, ok) PROVE Effect
  BY <1>16, OpenEffect
<1>13. ASSUME NEW c \in Connections, Disconnect(c) PROVE Effect
  BY <1>13 DEF Disconnect, Sends, Effect
<1>14. ASSUME NEW i \in DOMAIN actors, Panic(i) \/ Unheard(i) PROVE Effect
  BY <1>14, GoneEffect DEF Panic, Unheard
<1>15. ASSUME NEW i \in DOMAIN actors, NEW running \in BOOLEAN, NEW saved \in BOOLEAN, Run(i, running, saved)
       PROVE  Effect
  BY <1>15, RunEffect
<1> QED BY <1>1, <1>2, <1>3, <1>4, <1>5, <1>6, <1>7, <1>8, <1>9, <1>10, <1>11, <1>12, <1>13, <1>14, <1>15,
           <1>16 DEF Next, Handle

-----------------------------------------------------------------------------
(* The shape of the state stays *)

\* The other actors stay what they are.
LEMMA BecomesFacts ==
    ASSUME Shape, NEW i, NEW a, Becomes(i, a)
    PROVE  /\ actors' \in Seq(ActorShape) /\ Len(actors') = Len(actors) /\ DOMAIN actors' = DOMAIN actors
           /\ i \in DOMAIN actors /\ actors'[i] = a
           /\ \A j \in DOMAIN actors : j # i => actors'[j] = actors[j]
           /\ \A j \in DOMAIN actors : actors'[j].session = actors[j].session
           /\ UNCHANGED orphans
BY DEF Becomes, Shape, ActorsShape

\* A handle that goes leaves the others.
LEMMA HandleGoes ==
    ASSUME Shape, NEW s, registry' = registry \/ registry' = [registry EXCEPT ![s] = NoActor]
    PROVE  /\ registry' \in [Sessions -> {NoActor} \cup DOMAIN actors]
           /\ Registered' \subseteq Registered /\ Registered \ {s} \subseteq Registered'
           /\ \A r \in Registered' : registry'[r] = registry[r]
BY DEF Shape, ActorsShape, Registered, NoActor

LEMMA BecomesShape ==
    ASSUME Shape, NEW i, NEW a, Becomes(i, a), NEW s,
           registry' = registry \/ registry' = [registry EXCEPT ![s] = NoActor]
    PROVE  ActorsShape'
<1>1. /\ actors' \in Seq(ActorShape) /\ DOMAIN actors' = DOMAIN actors
      /\ \A j \in DOMAIN actors : actors'[j].session = actors[j].session
  BY BecomesFacts
<1>2. /\ registry' \in [Sessions -> {NoActor} \cup DOMAIN actors] /\ Registered' \subseteq Registered
      /\ \A r \in Registered' : registry'[r] = registry[r]
  BY HandleGoes
<1>3. ASSUME NEW r \in Registered' PROVE actors'[registry'[r]].session = r
  BY <1>1, <1>2, HandleFacts
<1>4. orphans' \subseteq [actor : DOMAIN actors', running : BOOLEAN]
  BY <1>1, BecomesFacts DEF Shape, ActorsShape
<1> QED BY <1>1, <1>2, <1>3, <1>4 DEF ActorsShape

\* The new actor comes last.
LEMMA SpawnedFacts ==
    ASSUME Shape, NEW s, NEW a, Spawned(s, a)
    PROVE  /\ actors' \in Seq(ActorShape) /\ Len(actors') = Len(actors) + 1
           /\ DOMAIN actors' = DOMAIN actors \cup {Len(actors) + 1}
           /\ actors'[Len(actors) + 1] = a /\ \A j \in DOMAIN actors : actors'[j] = actors[j]
           /\ registry' \in [Sessions -> {NoActor} \cup DOMAIN actors']
           /\ registry'[s] = Len(actors) + 1 /\ \A r \in Sessions : r # s => registry'[r] = registry[r]
           /\ Registered' = Registered \cup {s} /\ UNCHANGED orphans
<1>1. actors \in Seq(ActorShape) /\ a \in ActorShape /\ s \in Sessions
      /\ actors' = Append(actors, a) /\ registry' = [registry EXCEPT ![s] = Len(actors) + 1]
      /\ registry \in [Sessions -> {NoActor} \cup DOMAIN actors]
  BY DEF Spawned, Shape, ActorsShape
<1>2. /\ actors' \in Seq(ActorShape) /\ Len(actors') = Len(actors) + 1 /\ Len(actors) \in Nat
      /\ DOMAIN actors = 1 .. Len(actors) /\ DOMAIN actors' = 1 .. Len(actors) + 1
      /\ actors'[Len(actors) + 1] = a /\ \A j \in 1 .. Len(actors) : actors'[j] = actors[j]
  BY <1>1, AppendProperties, LenProperties
<1>3. 1 .. Len(actors) + 1 = 1 .. Len(actors) \cup {Len(actors) + 1} /\ Len(actors) + 1 # NoActor
  BY <1>2 DEF NoActor
<1>4. UNCHANGED orphans
  BY DEF Spawned
<1> QED BY <1>1, <1>2, <1>3, <1>4 DEF Registered

LEMMA EffectShape == ASSUME Shape, Effect PROVE ActorsShape' /\ StoreShape'
<1>1. store \in [Sessions -> NatRecords] /\ created \subseteq Sessions /\ ActorsShape
  BY DEF Shape, StoreShape
<1>2. CASE UNCHANGED <<actors, registry, orphans, store, created>>
  BY <1>1, <1>2 DEF ActorsShape, StoreShape, Registered
<1>3. ASSUME NEW i, NEW a, Watched(i, a) PROVE ActorsShape' /\ StoreShape'
  BY <1>1, <1>3, BecomesShape DEF Watched, StoreShape
<1>4. ASSUME NEW i, NEW a, Retitled(i, a) PROVE ActorsShape' /\ StoreShape'
  <2> DEFINE s == actors[i].session
  <2>1. ActorsShape'
    BY <1>4, BecomesShape DEF Retitled
  <2> DEFINE t == store[s].title + 1
             r == [store[s] EXCEPT !.title = t]
  <2>2. s \in Sessions /\ store[s] \in NatRecords /\ t \in Nat
    BY <1>1, <1>4, ActorFacts DEF Retitled, Becomes, NatRecords
  <2>3. store' = [store EXCEPT ![s].title = t] /\ UNCHANGED created
    BY <1>4 DEF Retitled
  <2> HIDE DEF s, t
  <2>4. store' = [store EXCEPT ![s] = r] /\ r \in NatRecords
    BY <1>1, <2>2, <2>3 DEF NatRecords
  <2> HIDE DEF r
  <2>5. StoreShape'
    BY <1>1, <2>2, <2>3, <2>4 DEF StoreShape
  <2> QED BY <2>1, <2>5
<1>5. ASSUME NEW i, NEW a, Checkpointed(i, a) \/ Ended(i, a) PROVE ActorsShape' /\ StoreShape'
  <2> DEFINE s == actors[i].session
  <2>1. Becomes(i, a) /\ UNCHANGED created
        /\ (registry' = registry \/ registry' = [registry EXCEPT ![s] = NoActor])
        /\ (UNCHANGED store \/ store' = [store EXCEPT ![s] = a.record])
    BY <1>5 DEF Checkpointed, Ended
  <2> HIDE DEF s
  <2>2. a.record \in NatRecords
    BY <2>1, ActorFields DEF Becomes
  <2>3. StoreShape'
    BY <1>1, <2>1, <2>2 DEF StoreShape
  <2> QED BY <2>1, <2>3, BecomesShape
<1>6. ASSUME NEW s, Dropped(s) PROVE ActorsShape' /\ StoreShape'
  <2>2. registry[s] \in DOMAIN actors /\ Running(registry[s]) \in BOOLEAN
    BY <1>6, HandleFacts, ActorFields DEF Dropped, Running
  <2>3. orphans' \subseteq [actor : DOMAIN actors, running : BOOLEAN]
    BY <1>1, <1>6, <2>2 DEF Dropped, ActorsShape
  <2>1. /\ registry' \in [Sessions -> {NoActor} \cup DOMAIN actors] /\ Registered' \subseteq Registered
        /\ \A r \in Registered' : registry'[r] = registry[r]
    BY <1>6, HandleGoes DEF Dropped
  <2> QED BY <1>1, <1>6, <2>1, <2>3 DEF Dropped, StoreShape, ActorsShape
<1>7. ASSUME NEW s, NEW a, Spawned(s, a) PROVE ActorsShape' /\ StoreShape'
  <2>1. ASSUME NEW r \in Registered' PROVE actors'[registry'[r]].session = r
    <3>1. CASE r = s
      <4>1. registry'[r] = Len(actors) + 1 /\ actors'[Len(actors) + 1] = a
        BY <1>7, <3>1, SpawnedFacts
      <4>2. a.session = r
        BY <1>7, <3>1 DEF Spawned
      <4> QED BY <4>1, <4>2
    <3>2. CASE r # s
      <4>1. r \in Registered /\ registry'[r] = registry[r]
        BY <1>7, <2>1, <3>2, SpawnedFacts DEF Registered
      <4>2. registry[r] \in DOMAIN actors /\ actors[registry[r]].session = r
        BY <4>1, HandleFacts
      <4>3. actors'[registry[r]] = actors[registry[r]]
        BY <1>7, <4>2, SpawnedFacts
      <4> QED BY <4>1, <4>2, <4>3
    <3> QED BY <3>1, <3>2
  <2>5. orphans' \subseteq [actor : DOMAIN actors', running : BOOLEAN]
    <3>1. DOMAIN actors \subseteq DOMAIN actors' /\ UNCHANGED orphans
      BY <1>7, SpawnedFacts
    <3> QED BY <1>1, <3>1 DEF ActorsShape
  <2>2. ActorsShape'
    BY <1>7, <2>1, <2>5, SpawnedFacts DEF ActorsShape
  <2>3. Created \in NatRecords /\ s \in Sessions /\ Loaded(store[s]) \in NatRecords
    BY <1>1, <1>7, FirstRecords, LoadedRecord DEF Spawned
  <2>4. StoreShape'
    BY <1>1, <1>7, <2>3 DEF Spawned, StoreShape
  <2> QED BY <2>2, <2>4
<1>8. ASSUME NEW s, NEW r, Stored(s, r) PROVE ActorsShape' /\ StoreShape'
  BY <1>1, <1>8 DEF Stored, StoreShape, ActorsShape, Registered
<1> QED BY <1>2, <1>3, <1>4, <1>5, <1>6, <1>7, <1>8 DEF Effect

-----------------------------------------------------------------------------
(* The manager *)

LEMMA WorksFacts ==
    ASSUME Shape, NEW ok \in BOOLEAN, Works(ok)
    PROVE  faults' \in 0 .. MaxFaults
<1>1. faults \in 0 .. MaxFaults /\ MaxFaults \in Nat
  BY ManagerAssumption DEF Shape, ManagerShape
<1>2. \A x \in 0 .. MaxFaults : x < MaxFaults => x + 1 \in 0 .. MaxFaults
  BY <1>1
<1> QED BY <1>1, <1>2 DEF Works

\* What a handler does to the manager: it answers, or goes on with a session that
\* has a handle.
LEMMA HandlerShape ==
    ASSUME Shape, ActorsShape', StoreShape', UNCHANGED <<mailbox, connections, sent>>,
           faults' \in 0 .. MaxFaults, titles' \subseteq Sessions,
           \/ manager' = Idle
           \/ GoOn("titles")
           \/ GoOn("attach") /\ s0 \in Registered'
           \/ \E pc \in {"erase", "finish", "abort"} :
                GoOn(pc) /\ s0 \in Registered' /\ ~Mutable(registry[s0])'
    PROVE  Shape'
<1>1. CASE manager' = Idle
  BY <1>1, IdleFacts DEF Shape, ManagerShape, ManagerAims
<1>2. CASE GoOn("titles")
  BY <1>2, GoesOn DEF Shape, ManagerShape, ManagerAims
<1>4. CASE GoOn("attach") /\ s0 \in Registered'
  <2>1. manager' \in Managers /\ manager'.pc = "attach" /\ s0' = s0
    BY <1>4, GoesOn
  <2> QED BY <1>4, <2>1 DEF Shape, ManagerShape, ManagerAims
<1>3. CASE \E pc \in {"erase", "finish", "abort"} :
            GoOn(pc) /\ s0 \in Registered' /\ ~Mutable(registry[s0])'
  <2>1. PICK pc \in {"erase", "finish", "abort"} :
            GoOn(pc) /\ s0 \in Registered' /\ ~Mutable(registry[s0])'
    BY <1>3
  <2>2. manager' \in Managers /\ manager'.pc = pc /\ s0' = s0
    BY <2>1, GoesOn
  <2> QED BY <2>1, <2>2 DEF Shape, ManagerShape, ManagerAims
<1> QED BY <1>1, <1>2, <1>3, <1>4

\* An actor that accepts nothing new never does again.
LEMMA ImmutableStays ==
    ASSUME Shape, Effect, NEW i \in DOMAIN actors, ~Mutable(i) PROVE ~Mutable(i)'
<1>1. ASSUME NEW j, NEW a, Becomes(j, a) PROVE ~Mutable(i)'
  <2>1. CASE i = j
    <3>1. actors'[i] = a
      BY <1>1, <2>1, BecomesFacts
    <3> QED BY <1>1, <2>1, <3>1 DEF Becomes, Mutable, Live
  <2>2. CASE i # j
    BY <1>1, <2>2, BecomesFacts DEF Mutable, Live
  <2> QED BY <2>1, <2>2
<1>2. ASSUME NEW s, NEW a, Spawned(s, a) PROVE ~Mutable(i)'
  <2>1. actors'[i] = actors[i]
    BY <1>2, SpawnedFacts
  <2> QED BY <2>1 DEF Mutable, Live
<1>3. CASE UNCHANGED actors
  BY <1>3 DEF Mutable, Live
<1>4. ASSUME NEW j, NEW a, Watched(j, a) \/ Retitled(j, a) \/ Checkpointed(j, a) \/ Ended(j, a)
      PROVE  Becomes(j, a)
  BY <1>4 DEF Watched, Retitled, Checkpointed, Ended
<1>5. ASSUME NEW s, NEW r, Dropped(s) \/ Stored(s, r)
      PROVE  UNCHANGED actors
  BY <1>5 DEF Dropped, Stored
<1> QED BY <1>1, <1>2, <1>3, <1>4, <1>5 DEF Effect

\* What does not concern it.
LEMMA ElsewhereShape ==
    ASSUME Shape, Effect, ActorsShape', StoreShape',
           UNCHANGED <<mailbox, manager, registry, connections, sent>>,
           faults' \in 0 .. MaxFaults, titles' \subseteq Sessions
    PROVE  Shape'
<1>1. Registered' = Registered /\ s0' = s0
  BY DEF Registered, s0, c0
<1>2. ASSUME manager.pc \in {"erase", "finish", "abort"} PROVE ~Mutable(registry[s0])'
  <2>1. registry[s0] \in DOMAIN actors /\ ~Mutable(registry[s0])
    BY <1>2, HandleFacts DEF Shape, ManagerAims
  <2>2. PICK i \in DOMAIN actors : i = registry[s0]
    BY <2>1
  <2>3. ~Mutable(i)'
    BY <2>1, <2>2, ImmutableStays
  <2>4. (registry[s0])' = i
    BY <1>1, <2>2
  <2> QED BY <2>3, <2>4 DEF Mutable, Live
<1> QED BY <1>1, <1>2 DEF Shape, ManagerShape, ManagerAims

\* One of those it asks has answered.
LEMMA AskedShape ==
    ASSUME Shape, ActorsShape', StoreShape', NEW s, NEW ok \in BOOLEAN, Asked(s, ok),
           manager.pc = "each", Registered \ {s} \subseteq Registered',
           UNCHANGED <<mailbox, titles, connections, sent>>, faults' \in 0 .. MaxFaults
    PROVE  Shape'
<1>1. manager \in Managers /\ manager.todo \subseteq Registered
  BY DEF Shape, ManagerShape, ManagerAims
<1>2. /\ manager' \in Managers /\ manager'.pc = "each" /\ manager'.todo = manager.todo \ {s}
      /\ c0' = c0
  BY <1>1 DEF Asked, Managers, c0
<1> QED BY <1>1, <1>2 DEF Shape, ManagerShape, ManagerAims

\* The mailbox.
LEMMA SendsShape ==
    ASSUME Shape, NEW command \in Command, Sends(command), connections' \in [Connections -> {"open", "closed", "gone"}],
           sent' \in 0 .. MaxCommands
    PROVE  Shape'
<1>1. /\ mailbox \in Seq(Command) /\ Len(mailbox) < MaxMailbox /\ mailbox' = Append(mailbox, command)
      /\ UNCHANGED <<manager, registry, actors, orphans, store, created, titles, faults>>
      /\ MaxMailbox \in Nat
  BY ManagerAssumption DEF Shape, ManagerShape, Sends
<1>2. mailbox' \in Seq(Command) /\ Len(mailbox') = Len(mailbox) + 1 /\ Len(mailbox) \in Nat
  BY <1>1, AppendProperties, LenProperties
<1>3. Len(mailbox') <= MaxMailbox
  BY <1>1, <1>2
<1>4. ActorsShape' /\ StoreShape' /\ Registered' = Registered /\ s0' = s0
  BY <1>1 DEF Shape, ActorsShape, StoreShape, Registered, s0, c0
<1>5. Mutable(registry[s0])' <=> Mutable(registry[s0])
  BY <1>1, <1>4 DEF Mutable, Live
<1> QED BY <1>1, <1>2, <1>3, <1>4, <1>5 DEF Shape, ManagerShape, ManagerAims

LEMMA SendShape ==
    ASSUME Shape, NEW kind \in Kinds, NEW s \in Sessions, NEW c \in Connections, Send(kind, s, c)
    PROVE  Shape'
<1> DEFINE command == [kind |-> kind, session |-> s, connection |-> c]
<1>1. command \in Command /\ Sends(command) /\ UNCHANGED connections
  BY DEF Send, Command
<1>2. sent' \in 0 .. MaxCommands
  <2>1. sent \in 0 .. MaxCommands /\ MaxCommands \in Nat /\ sent < MaxCommands /\ sent' = sent + 1
    BY ManagerAssumption DEF Send, Shape, ManagerShape
  <2>2. \A m \in Nat : \A x \in 0 .. m : x < m => x + 1 \in 0 .. m
    OBVIOUS
  <2> QED BY <2>1, <2>2
<1> HIDE DEF command
<1> QED BY <1>1, <1>2, SendsShape DEF Shape, ManagerShape

LEMMA DisconnectShape == ASSUME Shape, NEW c \in Connections, Disconnect(c) PROVE Shape'
<1> DEFINE command == [NoCommand EXCEPT !.kind = "disconnect", !.connection = c]
<1>1. command \in Command /\ Sends(command) /\ UNCHANGED sent
  BY IdleFacts DEF Disconnect, Command
<1>2. connections' \in [Connections -> {"open", "closed", "gone"}]
  BY DEF Disconnect, Shape, ManagerShape
<1> HIDE DEF command
<1> QED BY <1>1, <1>2, SendsShape DEF Shape, ManagerShape

LEMMA TakeShape == ASSUME Shape, Take PROVE Shape'
<1>1. /\ mailbox \in Seq(Command) /\ mailbox # << >> /\ Len(mailbox) <= MaxMailbox
      /\ mailbox' = Tail(mailbox) /\ manager' = [Idle EXCEPT !.pc = "begin", !.command = Head(mailbox)]
      /\ UNCHANGED <<registry, actors, orphans, store, created, titles, connections, sent, faults>>
      /\ MaxMailbox \in Nat
  BY ManagerAssumption DEF Shape, ManagerShape, Take
<1>2. /\ mailbox' \in Seq(Command) /\ Len(mailbox') = Len(mailbox) - 1 /\ Len(mailbox) \in Nat
      /\ Head(mailbox) \in Command
  BY <1>1, HeadTailProperties, LenProperties
<1>3. Len(mailbox') <= MaxMailbox
  BY <1>1, <1>2
<1>4. manager' \in Managers /\ manager'.pc = "begin"
  BY <1>1, <1>2 DEF Idle, Managers
<1>5. ActorsShape' /\ StoreShape'
  BY <1>1 DEF Shape, ActorsShape, StoreShape, Registered
<1> QED BY <1>1, <1>2, <1>3, <1>4, <1>5 DEF Shape, ManagerShape, ManagerAims

\* The manager's own steps between handlers.
LEMMA BetweenShape ==
    ASSUME Shape, MailboxCloses \/ Startup \/ Each \/ EndEach PROVE Shape'
<1>1. UNCHANGED <<registry, actors, orphans, store, created, titles, sent, faults>>
  BY DEF MailboxCloses, Startup, Each, EndEach
<1>2. ActorsShape' /\ StoreShape' /\ Registered' = Registered
  BY <1>1 DEF Shape, ActorsShape, StoreShape, Registered
<1>3. manager \in Managers /\ mailbox \in Seq(Command) /\ Len(mailbox) <= MaxMailbox /\ MaxMailbox \in Nat
      /\ connections \in [Connections -> {"open", "closed", "gone"}]
  BY ManagerAssumption DEF Shape, ManagerShape
<1>4. CASE MailboxCloses
  <2>1. manager' \in Managers /\ manager'.pc = "titles" /\ UNCHANGED <<mailbox, connections>>
    BY <1>4, IdleFacts DEF MailboxCloses, Managers, Command, Idle
  <2> QED BY <1>1, <1>2, <2>1 DEF Shape, ManagerShape, ManagerAims
<1>5. CASE Startup
  <2>1. UNCHANGED <<mailbox, connections>>
    BY <1>5 DEF Startup
  <2>2. CASE manager' = Idle
    BY <1>1, <1>2, <2>1, <2>2, IdleFacts DEF Shape, ManagerShape, ManagerAims
  <2>3. CASE \E s \in Registered : manager' = [manager EXCEPT !.pc = "attach", !.command.session = s]
    <3>1. PICK s \in Registered : manager' = [manager EXCEPT !.pc = "attach", !.command.session = s]
      BY <2>3
    <3>2. s \in Sessions
      BY HandleFacts
    <3>3. manager' \in Managers /\ manager'.pc = "attach" /\ s0' = s
      BY <1>3, <3>1, <3>2 DEF Managers, Command, s0, c0
    <3> QED BY <1>1, <1>2, <2>1, <3>3 DEF Shape, ManagerShape, ManagerAims
  <2> QED BY <1>5, <2>2, <2>3 DEF Startup, Answer
<1>6. CASE Each
  <2>1. Registered \subseteq Sessions
    BY DEF Registered
  <2>2. manager' \in Managers /\ manager'.pc = "each" /\ manager'.todo = Registered
        /\ UNCHANGED <<mailbox, connections>>
    BY <1>3, <1>6, <2>1 DEF Each, Managers
  <2> QED BY <1>1, <1>2, <2>2 DEF Shape, ManagerShape, ManagerAims
<1>7. CASE EndEach
  <2>1. connections' \in [Connections -> {"open", "closed", "gone"}]
    BY <1>3, <1>7 DEF EndEach
  <2>2. mailbox' \in Seq(Command) /\ Len(mailbox') <= MaxMailbox
    BY <1>3, <1>7 DEF EndEach
  <2>3. manager' \in Managers /\ manager'.pc \in {"ended", "idle"}
    BY <1>3, <1>7, IdleFacts DEF EndEach, Managers
  <2> QED BY <1>1, <1>2, <2>1, <2>2, <2>3 DEF Shape, ManagerShape, ManagerAims
<1> QED BY <1>4, <1>5, <1>6, <1>7

\* The handlers that open a session go on to its attachment.
LEMMA OpensShape ==
    ASSUME Shape, NEW loads \in BOOLEAN, NEW ok \in BOOLEAN,
           Open(loads, ok) \/ Materialize(ok) \/ OpenRegistered
    PROVE  Shape'
<1>1. Effect
  BY OpenEffect, MaterializeEffect DEF OpenRegistered, Effect
<1>2. ActorsShape' /\ StoreShape'
  BY <1>1, EffectShape
<1>3. s0 \in Sessions /\ registry \in [Sessions -> {NoActor} \cup DOMAIN actors]
      /\ Len(actors) \in Nat /\ titles \subseteq Sessions /\ faults \in 0 .. MaxFaults
  BY CommandFacts DEF Shape, ActorsShape, ManagerShape
<1>4. UNCHANGED <<mailbox, connections, sent, titles>> /\ faults' \in 0 .. MaxFaults
  <2>1. ASSUME Open(loads, ok) PROVE faults' \in 0 .. MaxFaults
    <3>1. Works(loads /\ ok) /\ (loads /\ ok) \in BOOLEAN
      BY <2>1 DEF Open
    <3> QED BY <3>1, WorksFacts
  <2>2. ASSUME Materialize(ok) PROVE faults' \in 0 .. MaxFaults
    BY <1>3, <2>2, WorksFacts DEF Materialize
  <2> QED BY <1>3, <2>1, <2>2 DEF Open, Materialize, OpenRegistered
<1>5. manager' = Idle \/ (GoOn("attach") /\ s0 \in Registered')
  <2>1. ASSUME registry' = [registry EXCEPT ![s0] = Len(actors) + 1] PROVE s0 \in Registered'
    BY <1>3, <2>1 DEF Registered, NoActor
  <2> QED BY <2>1 DEF Open, Materialize, OpenRegistered, SpawnActor, Answer, Registered
<1> QED BY <1>2, <1>3, <1>4, <1>5, HandlerShape

\* The others that answer.
LEMMA AnswersShape ==
    ASSUME Shape, NEW ok \in BOOLEAN,
           Rename(ok) \/ DeleteStored(ok) \/ MaterializeFails \/ Finish \/ Abort \/ Detach \/ Attach
    PROVE  Shape'
<1>1. Effect
  BY NextEffect DEF Next, Handle
<1>2. ActorsShape' /\ StoreShape'
  BY <1>1, EffectShape
<1>3. titles \subseteq Sessions /\ faults \in 0 .. MaxFaults /\ s0 \in Sessions
  BY CommandFacts DEF Shape, ManagerShape
<1>4. UNCHANGED <<mailbox, connections, sent>> /\ titles' \subseteq Sessions
      /\ faults' \in 0 .. MaxFaults /\ manager' = Idle
  BY <1>3, WorksFacts
     DEF Rename, DeleteStored, MaterializeFails, Finish, Abort, EndActor, Detach, Attach, Answer
<1> QED BY <1>2, <1>4, HandlerShape

\* Those that go on with a deletion, or with the titles.
LEMMA GoesOnShape ==
    ASSUME Shape, NEW ok \in BOOLEAN, NEW saved \in BOOLEAN,
           PrepareDelete(ok, saved) \/ Erase(ok) \/ DrainTitles
    PROVE  Shape'
<1>1. Effect
  BY NextEffect DEF Next, Handle
<1>2. ActorsShape' /\ StoreShape'
  BY <1>1, EffectShape
<1>3. titles \subseteq Sessions /\ faults \in 0 .. MaxFaults
  BY DEF Shape, ManagerShape
<1>4. /\ UNCHANGED <<mailbox, connections, sent, titles, registry>> /\ faults' \in 0 .. MaxFaults
      /\ \/ GoOn("titles")
         \/ (GoOn("erase") \/ GoOn("abort") \/ GoOn("finish")) /\ s0 \in Registered
  BY <1>3, WorksFacts DEF PrepareDelete, Erase, DrainTitles, Shape, ManagerAims
<1>5. Registered' = Registered
  BY <1>4 DEF Registered
<1>6. ASSUME Erase(ok) PROVE ~Mutable(registry[s0])'
  <2>1. ~Mutable(registry[s0]) /\ UNCHANGED <<actors, registry>>
    BY <1>6 DEF Erase, Shape, ManagerAims
  <2>2. s0' = s0
    BY <1>6, GoesOn DEF Erase
  <2> QED BY <2>1, <2>2 DEF Mutable, Live
<1>7. PrepareDelete(ok, saved) => ~Mutable(registry[s0])'
  BY PrepareDeleteEffect
<1>8. CASE DrainTitles
  BY <1>2, <1>3, <1>4, <1>8, HandlerShape DEF DrainTitles
<1>9. CASE PrepareDelete(ok, saved) \/ Erase(ok)
  <2>1. GoOn("erase") \/ GoOn("abort") \/ GoOn("finish")
    BY <1>9 DEF PrepareDelete, Erase
  <2>2. s0 \in Registered' /\ ~Mutable(registry[s0])'
    BY <1>4, <1>5, <1>6, <1>7, <1>9 DEF PrepareDelete, Erase, Shape, ManagerAims
  <2> QED BY <1>2, <1>3, <1>4, <2>1, <2>2, HandlerShape
<1> QED BY <1>8, <1>9

\* Those that ask one actor after the other.
LEMMA AsksShape ==
    ASSUME Shape, NEW s \in Sessions, NEW ok \in BOOLEAN, NEW jobs \in BOOLEAN,
           DetachFrom(s) \/ FlushActor(s, ok) \/ StopActor(s, ok, jobs)
    PROVE  Shape'
<1>1. Effect
  BY NextEffect DEF Next, Handle
<1>2. ActorsShape' /\ StoreShape'
  BY <1>1, EffectShape
<1>3. manager.pc = "each" /\ UNCHANGED <<mailbox, titles, connections, sent>> /\ faults \in 0 .. MaxFaults
  BY DEF DetachFrom, FlushActor, StopActor, Asks, Shape, ManagerShape
<1>4. faults' \in 0 .. MaxFaults
  BY <1>3, WorksFacts DEF DetachFrom, FlushActor, StopActor
<1>5. \E answer \in BOOLEAN : Asked(s, answer)
  BY DEF DetachFrom, FlushActor, StopActor, Live, Present, Asked
<1>6. Registered \ {s} \subseteq Registered'
  <2>1. registry' = registry \/ registry' = [registry EXCEPT ![s] = NoActor]
    BY DEF DetachFrom, FlushActor, StopActor
  <2> QED BY <2>1, HandleGoes
<1> QED BY <1>2, <1>3, <1>4, <1>5, <1>6, AskedShape

\* What happens beside the manager.
LEMMA BesideShape ==
    ASSUME Shape, NEW s \in Sessions, NEW i \in DOMAIN actors, NEW running \in BOOLEAN, NEW saved \in BOOLEAN,
           Run(i, running, saved) \/ Panic(i) \/ Unheard(i)
    PROVE  Shape'
<1>1. Effect
  BY NextEffect DEF Next
<1>2. ActorsShape' /\ StoreShape'
  BY <1>1, EffectShape
<1>3. titles \subseteq Sessions /\ faults \in 0 .. MaxFaults
  BY DEF Shape, ManagerShape
<1>4. UNCHANGED <<mailbox, manager, registry, connections, sent, titles>> /\ faults' \in 0 .. MaxFaults
  BY <1>3, WorksFacts DEF Run, Panic, Unheard
<1> QED BY <1>1, <1>2, <1>3, <1>4, ElsewhereShape

LEMMA RouteTitleShape == ASSUME Shape, NEW s \in Sessions, RouteTitle(s) PROVE Shape'
<1>1. Effect /\ ActorsShape' /\ StoreShape'
  BY RouteTitleEffect, EffectShape
<1>2. /\ UNCHANGED <<mailbox, manager, registry, connections, sent>> /\ faults' \in 0 .. MaxFaults
      /\ titles' \subseteq Sessions
  BY DEF RouteTitle, Shape, ManagerShape
<1> QED BY <1>1, <1>2, ElsewhereShape

\* Every step keeps the shape.
LEMMA NextShape == Shape /\ [Next]_vars => Shape'
<1> SUFFICES ASSUME Shape, [Next]_vars PROVE Shape'
  OBVIOUS
<1>1. CASE Take
  BY <1>1, TakeShape
<1>2. CASE MailboxCloses \/ Startup \/ Each \/ EndEach
  BY <1>2, BetweenShape
<1>3. ASSUME NEW loads \in BOOLEAN, NEW ok \in BOOLEAN, Open(loads, ok) \/ Materialize(ok) PROVE Shape'
  BY <1>3, OpensShape
<1>4. CASE OpenRegistered
  <2>1. TRUE \in BOOLEAN
    OBVIOUS
  <2> QED BY <1>4, <2>1, OpensShape
<1>5. ASSUME NEW ok \in BOOLEAN, Rename(ok) \/ DeleteStored(ok) PROVE Shape'
  BY <1>5, AnswersShape
<1>6. CASE MaterializeFails \/ Finish \/ Abort \/ Detach \/ Attach
  <2>1. TRUE \in BOOLEAN
    OBVIOUS
  <2> QED BY <1>6, <2>1, AnswersShape
<1>7. ASSUME NEW ok \in BOOLEAN, NEW saved \in BOOLEAN, PrepareDelete(ok, saved) \/ Erase(ok)
      PROVE  Shape'
  BY <1>7, GoesOnShape
<1>8. CASE DrainTitles
  <2>1. TRUE \in BOOLEAN
    OBVIOUS
  <2> QED BY <1>8, <2>1, GoesOnShape
<1>9. ASSUME NEW s \in Sessions, NEW ok \in BOOLEAN, NEW jobs \in BOOLEAN,
             DetachFrom(s) \/ FlushActor(s, ok) \/ StopActor(s, ok, jobs)
      PROVE  Shape'
  BY <1>9, AsksShape
<1>10. ASSUME NEW s \in Sessions, RouteTitle(s) PROVE Shape'
  BY <1>10, RouteTitleShape
<1>11. ASSUME NEW kind \in Kinds, NEW s \in Sessions, NEW c \in Connections, Send(kind, s, c)
       PROVE  Shape'
  BY <1>11, SendShape
<1>12. ASSUME NEW c \in Connections, Disconnect(c) PROVE Shape'
  BY <1>12, DisconnectShape
<1>13. ASSUME NEW i \in DOMAIN actors, NEW running \in BOOLEAN, NEW saved \in BOOLEAN,
              Run(i, running, saved) \/ Panic(i) \/ Unheard(i)
       PROVE  Shape'
  <2>1. PICK s \in Sessions : TRUE
    BY CommandFacts
  <2> QED BY <1>13, <2>1, BesideShape
<1>14. CASE UNCHANGED vars
  <2>1. UNCHANGED <<mailbox, manager, registry, actors, orphans, store, created, titles, connections,
                    sent, faults>>
    BY <1>14 DEF vars
  <2>2. Mutable(registry[s0])' <=> Mutable(registry[s0])
    BY <2>1 DEF Mutable, Live, s0, c0
  <2> QED BY <2>1, <2>2
          DEF Shape, ActorsShape, StoreShape, ManagerShape, ManagerAims, Registered, s0, c0
<1>15. TRUE \in BOOLEAN
  OBVIOUS
<1> QED BY <1>1, <1>2, <1>3, <1>4, <1>5, <1>6, <1>7, <1>8, <1>9, <1>10, <1>11, <1>12, <1>13, <1>14, <1>15
        DEF Next, Handle

LEMMA InitShape == Init => Shape
<1> SUFFICES ASSUME Init PROVE Shape
  OBVIOUS
<1>1. Registered = {}
  BY DEF Init, Registered
<1>2. ActorsShape
  BY <1>1, EmptySeq DEF Init, ActorsShape
<1>3. StoreShape
  BY FirstRecords DEF Init, StoreShape
<1>4. ManagerShape
  <2>1. << >> \in Seq(Command) /\ Len(<< >>) = 0 /\ 0 <= MaxMailbox /\ 0 \in 0 .. MaxCommands
        /\ 0 \in 0 .. MaxFaults
    BY ManagerAssumption, EmptySeq
  <2> QED BY <2>1, IdleFacts DEF Init, ManagerShape
<1>5. ManagerAims
  BY IdleFacts DEF Init, ManagerAims
<1> QED BY <1>2, <1>3, <1>4, <1>5 DEF Shape

\* The manager's state keeps its shape, and whom it is about to ask is registered.
THEOREM ShapeHolds == Spec => []Shape
<1>1. Init => Shape
  BY InitShape
<1>2. Shape /\ [Next]_vars => Shape'
  BY NextShape
<1> QED BY <1>1, <1>2, PTL DEF Spec

-----------------------------------------------------------------------------
(* The bounds *)

\* A step raises what is bounded by one, and only when it handles a command.
LEMMA EffectRaised ==
    ASSUME Shape, Effect, NEW h \in Nat, NEW k \in Nat, Raised(h), h <= k, Rises => h + 1 <= k
    PROVE  Raised(k)'
<1>1. /\ store \in [Sessions -> NatRecords] /\ \A i \in DOMAIN actors : actors[i] \in ActorShape
      /\ Len(actors) \in Nat
  BY ActorFacts DEF Shape, StoreShape, ActorsShape
<1>2. \A s \in Sessions : store[s].title \in Nat /\ store[s].title <= k + 2
  <2>1. \A s \in Sessions : store[s].title \in Nat /\ store[s].title <= h + 2
    BY <1>1 DEF NatRecords, Raised
  <2> QED BY <2>1
<1>3. \A i \in DOMAIN actors : actors[i].record.title \in Nat /\ actors[i].record.title <= k + 2
  <2>1. \A i \in DOMAIN actors : actors[i].record.title \in Nat /\ actors[i].record.title <= h + 2
    BY <1>1, ActorFields DEF Raised
  <2> QED BY <2>1
<1>4. Len(actors) <= k /\ (Rises => Len(actors) + 1 <= k)
  BY <1>1 DEF Raised
<1>5. \A s \in Sessions : Rises \/ store[s].title = 1 => store[s].title + 1 <= k + 2
  <2>1. \A s \in Sessions : store[s].title \in Nat /\ store[s].title <= h + 2
    BY <1>1 DEF NatRecords, Raised
  <2>2. \A x \in Nat : x <= h + 2 /\ (Rises \/ x = 1) => x + 1 <= k + 2
    OBVIOUS
  <2> QED BY <2>1, <2>2
<1>6. ASSUME NEW i, NEW a, Becomes(i, a), a.record.title <= k + 2,
             \A s \in Sessions : store'[s].title <= k + 2
      PROVE  Raised(k)'
  BY <1>3, <1>4, <1>6, BecomesFacts DEF Raised
<1>7. CASE UNCHANGED <<actors, registry, orphans, store, created>>
  BY <1>2, <1>3, <1>4, <1>7 DEF Raised
<1>8. ASSUME NEW i, NEW a, Watched(i, a) PROVE Raised(k)'
  BY <1>2, <1>3, <1>6, <1>8 DEF Watched, Becomes
<1>9. ASSUME NEW i, NEW a, Retitled(i, a) PROVE Raised(k)'
  <2> DEFINE s == actors[i].session
             t == store[s].title + 1
  <2>1. s \in Sessions /\ Becomes(i, a) /\ (Rises \/ store[s].title = 1) /\ a.record.title = t
        /\ store' = [store EXCEPT ![s].title = t]
    BY <1>9, ActorFacts DEF Retitled, Becomes
  <2>2. t <= k + 2
    BY <1>5, <2>1
  <2> HIDE DEF s, t
  <2>3. \A r \in Sessions : store'[r].title <= k + 2
    BY <1>1, <1>2, <2>1, <2>2 DEF NatRecords
  <2> QED BY <1>6, <2>1, <2>2, <2>3
<1>10. ASSUME NEW i, NEW a, Checkpointed(i, a) \/ Ended(i, a) PROVE Raised(k)'
  <2> DEFINE s == actors[i].session
  <2>1. /\ Becomes(i, a) /\ a.record.title = actors[i].record.title /\ i \in DOMAIN actors
        /\ UNCHANGED store \/ store' = [store EXCEPT ![s] = a.record]
    BY <1>10 DEF Checkpointed, Ended, Becomes, Proceeds
  <2> HIDE DEF s
  <2>2. \A r \in Sessions : store'[r].title <= k + 2
    BY <1>1, <1>2, <1>3, <2>1
  <2> QED BY <1>3, <1>6, <2>1, <2>2
<1>11. ASSUME NEW s, Dropped(s) PROVE Raised(k)'
  BY <1>2, <1>3, <1>4, <1>11 DEF Dropped, Raised
<1>12. ASSUME NEW s, NEW a, Spawned(s, a) PROVE Raised(k)'
  <2>1. /\ Len(actors') = Len(actors) + 1 /\ DOMAIN actors' = DOMAIN actors \cup {Len(actors) + 1}
        /\ actors'[Len(actors) + 1] = a /\ \A j \in DOMAIN actors : actors'[j] = actors[j]
    BY <1>12, SpawnedFacts
  <2>2. Rises /\ a.record = store'[s] /\ s \in Sessions
        /\ \/ store' = [store EXCEPT ![s] = Loaded(store[s])]
           \/ store' = [store EXCEPT ![s] = Created]
    BY <1>12 DEF Spawned
  <2>4. Loaded(store[s]).title = store[s].title /\ Created.title <= k + 2
    BY <1>1, <2>2, LoadedRecord, FirstRecords
  <2>3. \A r \in Sessions : store'[r].title <= k + 2
    BY <1>1, <1>2, <2>2, <2>4
  <2> QED BY <1>3, <1>4, <2>1, <2>2, <2>3 DEF Raised
<1>13. ASSUME NEW s, NEW r, Stored(s, r) PROVE Raised(k)'
  <2>1. s \in Sessions /\ UNCHANGED actors /\ store' = [store EXCEPT ![s] = r]
    BY <1>13 DEF Stored
  <2>2. r.title <= k + 2
    <3>1. 0 <= k + 2 /\ \A x \in Nat : x <= 1 => x <= k + 2
      OBVIOUS
    <3>2. r.title \in Nat
      BY <1>13 DEF Stored, NatRecords
    <3>3. \/ Rises /\ r.title = store[s].title + 1
          \/ r = Loaded(store[s])
          \/ r = store[s] \/ r \in {Absent, Created, Unstarted}
      BY <1>13 DEF Stored
    <3>4. r \in {Absent, Created, Unstarted} => r.title <= 1
      BY FirstRecords
    <3>5. r = Loaded(store[s]) => r.title = store[s].title
      BY <1>1, <2>1, LoadedRecord
    <3> QED BY <1>2, <1>5, <2>1, <3>1, <3>2, <3>3, <3>4, <3>5
  <2>3. \A q \in Sessions : store'[q].title <= k + 2
    BY <1>1, <1>2, <2>1, <2>2
  <2> QED BY <1>3, <1>4, <2>1, <2>3 DEF Raised
<1> QED BY <1>7, <1>8, <1>9, <1>10, <1>11, <1>12, <1>13 DEF Effect

\* The changes of a conversation.
LEMMA EffectChanges == ASSUME Shape, Effect, Changes PROVE Changes'
<1>1. /\ store \in [Sessions -> NatRecords] /\ \A i \in DOMAIN actors : actors[i] \in ActorShape
      /\ MaxChanges \in Nat \ {0}
  BY ActorFacts, ManagerAssumption DEF Shape, StoreShape
<1>2. \A s \in Sessions : Within(store[s])
  BY DEF Changes
<1>3. \A i \in DOMAIN actors : Within(actors[i].record)
  BY DEF Changes
<1>4. ASSUME NEW i, NEW a, Becomes(i, a), Within(a.record), \A s \in Sessions : Within(store'[s])
      PROVE  Changes'
  BY <1>3, <1>4, BecomesFacts DEF Changes
<1>5. CASE UNCHANGED <<actors, registry, orphans, store, created>>
  BY <1>2, <1>3, <1>5 DEF Changes
<1>6. ASSUME NEW i, NEW a, Watched(i, a) PROVE Changes'
  BY <1>2, <1>3, <1>4, <1>6 DEF Watched, Becomes
<1>7. ASSUME NEW i, NEW a, Retitled(i, a) PROVE Changes'
  <2> DEFINE s == actors[i].session
             t == store[s].title + 1
  <2>1. s \in Sessions /\ Becomes(i, a) /\ a.record.changes = actors[i].record.changes
        /\ a.record.running = actors[i].record.running
        /\ i \in DOMAIN actors /\ store' = [store EXCEPT ![s].title = t]
    BY <1>7, ActorFacts DEF Retitled, Becomes
  <2> HIDE DEF s, t
  <2>2. \A q \in Sessions : store'[q].changes = store[q].changes /\ store'[q].running = store[q].running
    BY <1>1, <2>1 DEF NatRecords
  <2>3. \A q \in Sessions : Within(store'[q])
    BY <1>2, <2>2 DEF Within
  <2>4. Within(a.record)
    BY <1>3, <2>1 DEF Within
  <2> QED BY <1>4, <2>1, <2>3, <2>4
<1>8. ASSUME NEW i, NEW a, Checkpointed(i, a) \/ Ended(i, a) PROVE Changes'
  <2> DEFINE s == actors[i].session
  <2>1. /\ Becomes(i, a) /\ i \in DOMAIN actors /\ s \in Sessions
        /\ UNCHANGED store \/ store' = [store EXCEPT ![s] = a.record]
    BY <1>8, ActorFacts DEF Checkpointed, Ended, Becomes
  <2>2. Within(a.record)
    <3> DEFINE old == actors[i].record
               x == old.changes
    <3>1. x \in Nat /\ x <= MaxChanges + 1 /\ (old.running => x <= MaxChanges) /\ Within(old)
      BY <1>3, <2>1 DEF Within
    <3>2. \/ a.record = old
          \/ a.record.changes = x + 1 /\ old.running /\ ~a.record.running
          \/ a.record.changes = x + 1 /\ a.record.changes <= MaxChanges
      BY <1>8 DEF Checkpointed, Ended, Proceeds
    <3> HIDE DEF x, old
    <3>3. CASE a.record = old
      BY <3>1, <3>3
    <3>4. CASE a.record.changes = x + 1 /\ old.running /\ ~a.record.running
      BY <1>1, <3>1, <3>4 DEF Within
    <3>5. CASE a.record.changes = x + 1 /\ a.record.changes <= MaxChanges
      BY <1>1, <3>1, <3>5 DEF Within
    <3> QED BY <3>2, <3>3, <3>4, <3>5
  <2> HIDE DEF s
  <2>3. \A r \in Sessions : Within(store'[r])
    BY <1>1, <1>2, <2>1, <2>2
  <2> QED BY <1>4, <2>1, <2>2, <2>3
<1>9. ASSUME NEW s, Dropped(s) PROVE Changes'
  BY <1>2, <1>3, <1>9 DEF Dropped, Changes
<1>12. Within(Created) /\ Within(Absent) /\ Within(Unstarted)
  BY <1>1, FirstRecords DEF Within
<1>13. ASSUME NEW s \in Sessions PROVE Within(Loaded(store[s]))
  <2>1. PICK r : r = store[s]
    OBVIOUS
  <2>2. r \in NatRecords /\ Within(r)
    BY <1>1, <1>2, <2>1
  <2>3. /\ Loaded(r) \in NatRecords /\ ~Loaded(r).running
        /\ IF r.running THEN Loaded(r).changes = r.changes + 1 ELSE Loaded(r) = r
    BY <2>2, LoadedRecord
  <2>4. Within(Loaded(r))
    <3>1. CASE r.running
      BY <1>1, <2>2, <2>3, <3>1 DEF Within
    <3>2. CASE ~r.running
      BY <2>2, <2>3, <3>2
    <3> QED BY <3>1, <3>2
  <2> QED BY <2>1, <2>4
<1>10. ASSUME NEW s, NEW a, Spawned(s, a) PROVE Changes'
  <2>1. /\ DOMAIN actors' = DOMAIN actors \cup {Len(actors) + 1}
        /\ actors'[Len(actors) + 1] = a /\ \A j \in DOMAIN actors : actors'[j] = actors[j]
    BY <1>10, SpawnedFacts
  <2>2. a.record = store'[s] /\ s \in Sessions
        /\ \/ store' = [store EXCEPT ![s] = Loaded(store[s])]
           \/ store' = [store EXCEPT ![s] = Created]
    BY <1>10 DEF Spawned
  <2>3. \A r \in Sessions : Within(store'[r])
    BY <1>1, <1>2, <1>12, <1>13, <2>2
  <2> QED BY <1>3, <2>1, <2>2, <2>3 DEF Changes
<1>11. ASSUME NEW s, NEW r, Stored(s, r) PROVE Changes'
  <2>1. s \in Sessions /\ UNCHANGED actors /\ store' = [store EXCEPT ![s] = r] /\ r \in NatRecords
    BY <1>11 DEF Stored
  <2>2. Within(r)
    <3>1. CASE r.changes = store[s].changes /\ r.running = store[s].running
      BY <1>2, <2>1, <3>1 DEF Within
    <3>2. CASE r \in {store[s], Loaded(store[s]), Absent, Created, Unstarted}
      BY <1>2, <1>12, <1>13, <2>1, <3>2
    <3> QED BY <1>11, <3>1, <3>2 DEF Stored
  <2>3. \A q \in Sessions : Within(store'[q])
    BY <1>1, <1>2, <2>1, <2>2
  <2> QED BY <1>3, <2>1, <2>3 DEF Changes
<1> QED BY <1>5, <1>6, <1>7, <1>8, <1>9, <1>10, <1>11 DEF Effect

\* The commands in the mailbox are numbered as they were sent.
LEMMA CountedFacts ==
    ASSUME Shape, NEW h \in Nat, NEW n \in Seq(Nat), Counted(h, n)
    PROVE  /\ Credit \in {0, 1} /\ h + Credit \in Nat /\ sent \in Nat /\ Len(mailbox) \in Nat
           /\ \A i \in 1 .. Len(mailbox) : n[i] \in Nat
<1>1. sent \in 0 .. MaxCommands /\ mailbox \in Seq(Command)
  BY DEF Shape, ManagerShape
<1>2. sent \in Nat
  BY <1>1, ManagerAssumption
<1>3. \A i \in 1 .. Len(n) : n[i] \in Nat
  OBVIOUS
<1> QED BY <1>1, <1>2, <1>3, LenProperties DEF Credit, Counted

\* The manager does something, or something happens beside it.
LEMMA CountsStay ==
    ASSUME Shape, Effect, Counts, UNCHANGED <<mailbox, sent>>,
           UNCHANGED manager \/ manager'.pc # "begin"
    PROVE  Counts'
<1>1. PICK h \in Nat, n \in Seq(Nat) : Counted(h, n)
  BY DEF Counts
<1>2. PICK k \in Nat : h <= k /\ k + Credit' = h + Credit /\ (Rises => h + 1 <= k)
  <2>1. manager' # manager => Credit' = 0
    BY DEF Credit
  <2>2. UNCHANGED manager => Credit' = Credit
    BY DEF Credit, c0
  <2>3. Rises => Credit = 1 /\ manager' # manager
    BY DEF Rises, Credit
  <2>4. Credit \in {0, 1}
    BY DEF Credit
  <2>5. CASE UNCHANGED manager
    BY <2>2, <2>3, <2>5
  <2>6. CASE manager' # manager
    <3>1. h + Credit \in Nat /\ h <= h + Credit /\ h + Credit + 0 = h + Credit
      BY <2>4
    <3>2. Rises => h + 1 <= h + Credit
      BY <2>3
    <3> QED BY <2>1, <2>6, <3>1, <3>2
  <2> QED BY <2>5, <2>6
<1>3. Raised(h)
  BY <1>1 DEF Counted
<1>4. Raised(k)'
  BY <1>2, <1>3, EffectRaised
<1>5. Counted(k, n)'
  BY <1>1, <1>2, <1>4 DEF Counted
<1> QED BY <1>5 DEF Counts

\* A command is sent.
LEMMA CountsSent ==
    ASSUME Shape, Counts, NEW command \in Command, Sends(command),
           \/ sent' = sent + 1
           \/ sent' = sent /\ command.kind = "disconnect"
    PROVE  Counts'
<1>1. PICK h \in Nat, n \in Seq(Nat) : Counted(h, n)
  BY DEF Counts
<1>15. PICK k \in Nat : k = h + Credit
  BY <1>1, CountedFacts
<1>16. PICK l \in Nat : l = Len(mailbox)
  BY <1>1, CountedFacts
<1>17. sent' \in Nat
  BY <1>1, CountedFacts
<1>18. PICK m \in Seq(Nat) : m = Append(n, sent')
  BY <1>17, AppendProperties
<1>2. /\ mailbox \in Seq(Command) /\ mailbox' = Append(mailbox, command)
      /\ UNCHANGED <<manager, actors, store>>
  BY DEF Shape, ManagerShape, Sends
<1>3. l \in Nat /\ sent \in Nat /\ k \in Nat /\ Len(n) = l /\ k <= sent /\ sent' \in Nat
  BY <1>1, <1>15, <1>16, <1>17, CountedFacts DEF Counted
<1>4. /\ Len(mailbox') = l + 1 /\ mailbox'[l + 1] = command
      /\ \A i \in 1 .. l : mailbox'[i] = mailbox[i]
  BY <1>2, <1>16, AppendProperties
<1>5. /\ m \in Seq(Nat) /\ Len(m) = l + 1 /\ m[l + 1] = sent' /\ \A i \in 1 .. l : m[i] = n[i]
  BY <1>3, <1>18, AppendProperties
<1>6. \A i \in 1 .. l : /\ n[i] \in Nat /\ n[i] >= k /\ n[i] <= sent
                        /\ mailbox[i].kind # "disconnect" => n[i] > k
  BY <1>1, <1>15, <1>16, CountedFacts DEF Counted
<1>7. \A i, j \in 1 .. l : i < j => n[i] <= n[j] /\ (mailbox[j].kind # "disconnect" => n[i] < n[j])
  BY <1>1, <1>16 DEF Counted
<1>8. h + Credit' = k /\ Raised(h)'
  BY <1>1, <1>2, <1>15 DEF Credit, c0, Counted, Raised
<1>9. sent <= sent' /\ (command.kind # "disconnect" => sent < sent')
  BY <1>3
<1>10. ASSUME NEW i \in 1 .. l + 1
       PROVE  m[i] >= k /\ m[i] <= sent' /\ (mailbox'[i].kind # "disconnect" => m[i] > k)
  <2>1. CASE i \in 1 .. l
    <3>1. /\ n[i] \in Nat /\ n[i] >= k /\ n[i] <= sent /\ m[i] = n[i] /\ mailbox'[i] = mailbox[i]
          /\ mailbox[i].kind # "disconnect" => n[i] > k
      BY <1>4, <1>5, <1>6, <2>1
    <3>2. n[i] <= sent'
      BY <1>3, <1>9, <3>1
    <3> QED BY <3>1, <3>2
  <2>2. CASE i = l + 1
    <3>1. m[i] = sent' /\ mailbox'[i] = command
      BY <1>4, <1>5, <2>2
    <3>2. sent' >= k /\ (command.kind # "disconnect" => sent' > k)
      BY <1>3, <1>9
    <3> QED BY <1>3, <3>1, <3>2
  <2> QED BY <1>3, <2>1, <2>2
<1>11. ASSUME NEW i \in 1 .. l + 1, NEW j \in 1 .. l + 1, i < j
       PROVE  m[i] <= m[j] /\ (mailbox'[j].kind # "disconnect" => m[i] < m[j])
  <2>1. i \in 1 .. l
    BY <1>3, <1>11
  <2>2. CASE j \in 1 .. l
    BY <1>4, <1>5, <1>7, <1>11, <2>1, <2>2
  <2>3. CASE j = l + 1
    <3>1. m[j] = sent' /\ mailbox'[j] = command /\ m[i] = n[i] /\ n[i] \in Nat /\ n[i] <= sent
      BY <1>4, <1>5, <1>6, <2>1, <2>3
    <3>2. n[i] <= sent' /\ (command.kind # "disconnect" => n[i] < sent')
      BY SMTT(30), <1>3, <1>9, <3>1
    <3> QED BY <3>1, <3>2
  <2> QED BY <1>3, <2>2, <2>3
<1>12. k <= sent'
  BY <1>3, <1>9
<1>13. Counted(h, m)'
  BY <1>4, <1>5, <1>8, <1>10, <1>11, <1>12 DEF Counted
<1> QED BY <1>13 DEF Counts

\* The first command is taken: all before it have been handled.
LEMMA CountsTaken == ASSUME Shape, Counts, Take PROVE Counts'
<1>1. PICK h \in Nat, n \in Seq(Nat) : Counted(h, n)
  BY DEF Counts
<1> DEFINE first == mailbox[1]
<1>15. PICK l \in Nat : l = Len(mailbox)
  BY <1>1, CountedFacts
<1>2. /\ mailbox \in Seq(Command) /\ mailbox # << >> /\ mailbox' = Tail(mailbox)
      /\ manager' = [Idle EXCEPT !.pc = "begin", !.command = Head(mailbox)]
      /\ manager.pc = "idle" /\ UNCHANGED <<actors, store, sent>>
  BY DEF Shape, ManagerShape, Take
<1>3. /\ l \in Nat \ {0} /\ Len(mailbox') = l - 1 /\ Head(mailbox) = first
      /\ \A i \in 1 .. l - 1 : mailbox'[i] = mailbox[i + 1]
  BY <1>2, <1>15, HeadTailProperties, EmptySeq, LenProperties
<1>4. Credit = 0
  BY <1>2 DEF Credit
<1>5. /\ \A i \in 1 .. l : /\ n[i] \in Nat /\ n[i] >= h /\ n[i] <= sent
                           /\ mailbox[i].kind # "disconnect" => n[i] > h
      /\ \A i, j \in 1 .. l : i < j => n[i] <= n[j] /\ (mailbox[j].kind # "disconnect" => n[i] < n[j])
      /\ Len(n) = l /\ h <= sent /\ sent \in Nat
  BY <1>1, <1>4, <1>15, CountedFacts DEF Counted
<1>6. PICK m \in Seq(Nat) : Len(m) = l - 1 /\ \A i \in 1 .. l - 1 : m[i] = n[i + 1]
  <2>1. Tail(n) \in Seq(Nat) /\ Len(Tail(n)) = l - 1 /\ \A i \in 1 .. l - 1 : Tail(n)[i] = n[i + 1]
    BY <1>3, <1>5, HeadTailProperties, EmptySeq
  <2> QED BY <2>1
<1>7. manager'.pc = "begin" /\ manager'.command = first
  BY <1>2, <1>3 DEF Idle
<1>8. Credit' = IF first.kind # "disconnect" THEN 1 ELSE 0
  BY <1>7 DEF Credit, c0
<1>9. PICK k \in Nat :
      /\ h <= k /\ k + Credit' = (IF first.kind # "disconnect" THEN n[1] ELSE h)
      /\ k + Credit' <= n[1]
  <2>1. 1 \in 1 .. l
    BY <1>3
  <2>2. n[1] \in Nat /\ n[1] >= h /\ (first.kind # "disconnect" => n[1] > h)
    BY <1>5, <2>1
  <2>3. \A x, y \in Nat : x > y => x - 1 \in Nat /\ y <= x - 1 /\ x - 1 + 1 = x
    OBVIOUS
  <2>4. CASE first.kind # "disconnect"
    <3>1. n[1] - 1 \in Nat /\ h <= n[1] - 1 /\ n[1] - 1 + 1 = n[1] /\ n[1] <= n[1]
      BY <2>2, <2>3, <2>4
    <3> QED BY <1>8, <2>4, <3>1
  <2>5. CASE first.kind = "disconnect"
    <3>1. h + 0 = h /\ h <= h
      OBVIOUS
    <3> QED BY <1>8, <2>2, <2>5, <3>1
  <2> QED BY <2>4, <2>5
<1>10. Raised(k)'
  <2>1. \A s \in Sessions : store[s].title \in Nat /\ store[s].title <= k + 2
    <3>1. \A s \in Sessions : store[s].title \in Nat /\ store[s].title <= h + 2
      BY <1>1 DEF Shape, StoreShape, NatRecords, Counted, Raised
    <3> QED BY <1>9, <3>1
  <2>2. \A i \in DOMAIN actors : actors[i].record.title <= k + 2
    <3>1. \A i \in DOMAIN actors : actors[i].record.title \in Nat /\ actors[i].record.title <= h + 2
      BY <1>1, ActorFacts, ActorFields DEF Counted, Raised
    <3> QED BY <1>9, <3>1
  <2>3. Len(actors) <= k
    <3>1. Len(actors) \in Nat /\ Len(actors) <= h
      BY <1>1 DEF Shape, ActorsShape, Counted, Raised
    <3> QED BY <1>9, <3>1
  <2>4. UNCHANGED <<store, actors>>
    BY <1>2
  <2> QED BY <2>1, <2>2, <2>3, <2>4 DEF Raised
<1>11. ASSUME NEW i \in 1 .. l - 1
       PROVE  /\ i + 1 \in 1 .. l /\ m[i] = n[i + 1] /\ mailbox'[i] = mailbox[i + 1]
              /\ m[i] >= k + Credit' /\ m[i] <= sent
              /\ mailbox'[i].kind # "disconnect" => m[i] > k + Credit'
  <2>1. i + 1 \in 1 .. l /\ 1 \in 1 .. l /\ 1 < i + 1
    BY <1>3
  <2>2. /\ m[i] = n[i + 1] /\ mailbox'[i] = mailbox[i + 1]
        /\ n[i + 1] \in Nat /\ n[i + 1] <= sent /\ n[1] \in Nat
        /\ n[1] <= n[i + 1] /\ (mailbox[i + 1].kind # "disconnect" => n[1] < n[i + 1])
    BY <1>3, <1>5, <1>6, <2>1
  <2>3. k + Credit' \in Nat
    BY <1>8, <1>9
  <2> QED BY SMTT(30), <1>9, <2>1, <2>2, <2>3
<1>12. ASSUME NEW i \in 1 .. l - 1, NEW j \in 1 .. l - 1, i < j
       PROVE  m[i] <= m[j] /\ (mailbox'[j].kind # "disconnect" => m[i] < m[j])
  <2>1. i + 1 < j + 1
    BY <1>12
  <2> QED BY <1>5, <1>11, <2>1
<1>13. k + Credit' <= sent
  <2>1. 1 \in 1 .. l
    BY <1>3
  <2>2. n[1] \in Nat /\ n[1] <= sent
    BY <1>5, <2>1
  <2>3. k + Credit' \in Nat
    BY <1>8, <1>9
  <2> QED BY <1>5, <1>9, <2>2, <2>3
<1>14. Counted(k, m)'
  <2>1. UNCHANGED sent
    BY <1>2
  <2> QED BY <2>1, <1>3, <1>6, <1>10, <1>11, <1>12, <1>13 DEF Counted
<1> QED BY <1>14 DEF Counts

\* The mailbox is closed.
LEMMA CountsClosed ==
    ASSUME Shape, Counts, UNCHANGED <<actors, store, sent>>, mailbox' = << >> \/ mailbox' = mailbox,
           manager'.pc # "begin"
    PROVE  Counts'
<1>1. PICK h \in Nat, n \in Seq(Nat) : Counted(h, n)
  BY DEF Counts
<1>2. PICK k \in Nat : k = h + Credit /\ Credit' = 0 /\ h <= k /\ k + Credit' = k
  BY <1>1, CountedFacts DEF Credit
<1>3. Raised(k)'
  <2>1. \A s \in Sessions : store[s].title <= k + 2
    <3>1. \A s \in Sessions : store[s].title \in Nat /\ store[s].title <= h + 2
      BY <1>1 DEF Shape, StoreShape, NatRecords, Counted, Raised
    <3> QED BY <1>2, <3>1
  <2>2. \A i \in DOMAIN actors : actors[i].record.title <= k + 2
    <3>1. \A i \in DOMAIN actors : actors[i].record.title \in Nat /\ actors[i].record.title <= h + 2
      BY <1>1, ActorFacts, ActorFields DEF Counted, Raised
    <3> QED BY <1>2, <3>1
  <2>3. Len(actors) <= k
    <3>1. Len(actors) \in Nat /\ Len(actors) <= h
      BY <1>1 DEF Shape, ActorsShape, Counted, Raised
    <3> QED BY <1>2, <3>1
  <2> QED BY <2>1, <2>2, <2>3 DEF Raised
<1>4. CASE mailbox' = mailbox
  <2>1. Counted(k, n)'
    BY <1>1, <1>2, <1>3, <1>4 DEF Counted
  <2> QED BY <1>2, <2>1 DEF Counts
<1>5. CASE mailbox' = << >>
  <2>1. << >> \in Seq(Nat) /\ Len(<< >>) = 0 /\ k <= sent
    BY <1>1, <1>2, EmptySeq DEF Counted
  <2>2. Counted(k, << >>)'
    BY <1>2, <1>3, <1>5, <2>1 DEF Counted
  <2> QED BY <1>2, <2>1, <2>2 DEF Counts
<1> QED BY <1>4, <1>5

\* Every step keeps the count.
LEMMA NextCounts == ASSUME Shape, Counts, [Next]_vars PROVE Counts'
<1>1. Effect
  BY NextEffect
<1>2. CASE Take
  BY <1>2, CountsTaken
<1>3. CASE EndEach
  <2>1. manager'.pc # "begin"
    BY <1>3, IdleFacts DEF EndEach, Shape, ManagerShape, Managers
  <2>2. UNCHANGED <<actors, store, sent>> /\ (mailbox' = << >> \/ mailbox' = mailbox)
    BY <1>3 DEF EndEach
  <2> QED BY <2>1, <2>2, CountsClosed
<1>4. ASSUME NEW kind \in Kinds, NEW s \in Sessions, NEW c \in Connections, Send(kind, s, c)
      PROVE  Counts'
  <2>1. [kind |-> kind, session |-> s, connection |-> c] \in Command
    BY DEF Command
  <2> QED BY <1>4, <2>1, CountsSent DEF Send
<1>5. ASSUME NEW c \in Connections, Disconnect(c) PROVE Counts'
  <2> DEFINE command == [NoCommand EXCEPT !.kind = "disconnect", !.connection = c]
  <2>1. command \in Command /\ command.kind = "disconnect"
    BY IdleFacts DEF Command
  <2>2. Sends(command) /\ sent' = sent
    BY <1>5 DEF Disconnect
  <2> HIDE DEF command
  <2> QED BY <2>1, <2>2, CountsSent
<1>6. CASE /\ UNCHANGED <<mailbox, sent>>
           /\ UNCHANGED manager \/ manager'.pc # "begin"
  BY <1>1, <1>6, CountsStay
<1>7. ASSUME NEW pc, pc \in {"attach", "erase", "finish", "abort", "titles"}, GoOn(pc)
      PROVE  manager'.pc # "begin"
  BY <1>7, GoesOn
<1>8. CASE MailboxCloses \/ OpenRegistered \/ Attach \/ Startup \/ MaterializeFails \/ Finish
           \/ Abort \/ Detach \/ Each \/ DrainTitles
  <2>1. UNCHANGED <<mailbox, sent>>
    BY <1>8 DEF MailboxCloses, OpenRegistered, Attach, Startup, MaterializeFails, Finish, Abort,
                EndActor, Detach, Each, DrainTitles
  <2>2. manager'.pc # "begin"
    BY <1>7, <1>8, IdleFacts, CommandFacts
       DEF MailboxCloses, OpenRegistered, Attach, Startup, MaterializeFails, Finish, Abort,
           EndActor, Detach, Each, DrainTitles, Answer, Managers, Idle
  <2> QED BY <1>6, <2>1, <2>2
<1>9. ASSUME NEW ok \in BOOLEAN, NEW saved \in BOOLEAN,
             Open(saved, ok) \/ Materialize(ok) \/ Rename(ok) \/ DeleteStored(ok) \/ Erase(ok)
             \/ PrepareDelete(ok, saved)
      PROVE  Counts'
  <2>1. UNCHANGED <<mailbox, sent>>
    BY <1>9 DEF Open, Materialize, Rename, DeleteStored, Erase, PrepareDelete
  <2>2. manager'.pc # "begin"
    BY <1>7, <1>9, IdleFacts
       DEF Open, Materialize, Rename, DeleteStored, Erase, PrepareDelete, Answer
  <2> QED BY <1>6, <2>1, <2>2
<1>10. ASSUME NEW s \in Sessions, NEW ok \in BOOLEAN, NEW jobs \in BOOLEAN,
              RouteTitle(s) \/ DetachFrom(s) \/ FlushActor(s, ok) \/ StopActor(s, ok, jobs)
       PROVE  Counts'
  <2>1. UNCHANGED <<mailbox, sent>>
    BY <1>10 DEF RouteTitle, DetachFrom, FlushActor, StopActor
  <2>2. UNCHANGED manager \/ manager'.pc # "begin"
    <3>1. ASSUME NEW answer, manager.pc = "each", Asked(s, answer) PROVE manager'.pc # "begin"
      BY <3>1, CommandFacts DEF Asked, Managers
    <3> QED BY <1>10, <3>1 DEF RouteTitle, DetachFrom, FlushActor, StopActor, Asks
  <2> QED BY <1>6, <2>1, <2>2
<1>11. ASSUME NEW i \in DOMAIN actors, NEW running \in BOOLEAN, NEW saved \in BOOLEAN,
              Run(i, running, saved) \/ Panic(i) \/ Unheard(i)
       PROVE  Counts'
  BY <1>6, <1>11 DEF Run, Panic, Unheard
<1>12. CASE UNCHANGED vars
  BY <1>6, <1>12 DEF vars
<1>13. TRUE \in BOOLEAN
  OBVIOUS
<1> QED BY <1>2, <1>3, <1>4, <1>5, <1>8, <1>9, <1>10, <1>11, <1>12, <1>13 DEF Next, Handle

\* What the manager has stays within its bounds: no more actors were started, and no
\* title was changed more often, than commands were handled.
THEOREM BoundsHold == Spec => [](Counts /\ Changes)
<1>1. Init => Counts /\ Changes
  <2> SUFFICES ASSUME Init PROVE Counts /\ Changes
    OBVIOUS
  <2>1. /\ \A s \in Sessions : store[s].title = 0 /\ store[s].changes = 0 /\ ~store[s].running
        /\ DOMAIN actors = {} /\ Len(actors) = 0 /\ Len(mailbox) = 0 /\ sent = 0
    BY EmptySeq DEF Init, Absent
  <2>2. Credit = 0
    BY IdleFacts DEF Init, Credit
  <2>3. Counted(0, << >>)
    BY <2>1, <2>2, EmptySeq DEF Counted, Raised
  <2>4. << >> \in Seq(Nat)
    OBVIOUS
  <2>5. Counts
    BY <2>3, <2>4 DEF Counts
  <2> QED BY <2>1, <2>5, ManagerAssumption DEF Changes, Within
<1>2. Shape /\ Counts /\ Changes /\ [Next]_vars => (Counts /\ Changes)'
  BY NextCounts, NextEffect, EffectChanges
<1> QED BY <1>1, <1>2, ShapeHolds, PTL DEF Spec

\* Whatever is sent, fails or panics, and also when the handle of an actor was lost,
\* the mailbox keeps its capacity, a registered actor is one of its session, and the
\* numbers in records stay within what the commands and runs account for.
THEOREM TypeCorrect == Spec => []TypeOK
<1>1. Shape /\ Counts /\ Changes => TypeOK
  <2> SUFFICES ASSUME Shape, Counts, Changes PROVE TypeOK
    OBVIOUS
  <2>1. PICK h \in Nat : Raised(h) /\ h <= sent
    <3>1. PICK h \in Nat, n \in Seq(Nat) : Counted(h, n)
      BY DEF Counts
    <3>2. h + Credit <= sent /\ Credit \in {0, 1} /\ sent \in Nat
      BY <3>1, CountedFacts DEF Counted
    <3>3. h <= sent
      BY <3>2
    <3> QED BY <3>1, <3>3 DEF Counted
  <2>2. sent \in 0 .. MaxCommands /\ MaxCommands \in Nat /\ MaxChanges \in Nat
    BY ManagerAssumption DEF Shape, ManagerShape
  <2>3. h <= MaxCommands
    BY <2>1, <2>2
  <2>4. ASSUME NEW r \in NatRecords, r.title <= h + 2, Within(r)
        PROVE  r \in Records
    <3>1. r.title \in 0 .. MaxCommands + 2 /\ r.changes \in 0 .. MaxChanges + 1
      BY <2>2, <2>3, <2>4 DEF NatRecords, Within
    <3> QED BY <2>4, <3>1 DEF NatRecords, Records
  <2>5. store \in [Sessions -> Records]
    <3>1. ASSUME NEW s \in Sessions PROVE store[s] \in Records
      BY <2>1, <2>4 DEF Raised, Changes, Shape, StoreShape
    <3> QED BY <3>1 DEF Shape, StoreShape
  <2>6. actors \in Seq(Actor)
    <3>1. ASSUME NEW i \in 1 .. Len(actors) PROVE actors[i] \in Actor
      <4>1. i \in DOMAIN actors /\ actors[i] \in ActorShape
        BY DEF Shape, ActorsShape
      <4>2. actors[i].record \in Records
        BY <2>1, <2>4, <4>1, ActorFields DEF Raised, Changes
      <4> QED BY <4>1, <4>2 DEF ActorShape, Actor
    <3> QED BY <3>1 DEF Shape, ActorsShape
  <2>7. Len(actors) <= MaxCommands
    <3>1. Len(actors) \in Nat /\ Len(actors) <= h
      BY <2>1 DEF Raised, Shape, ActorsShape
    <3> QED BY <2>2, <2>3, <3>1
  <2>8. orphans \subseteq Orphan
    <3>1. DOMAIN actors \subseteq 1 .. MaxCommands
      BY <2>2, <2>7 DEF Shape, ActorsShape
    <3> QED BY <3>1 DEF Orphan, Shape, ActorsShape
  <2> QED BY <2>5, <2>6, <2>7, <2>8 DEF TypeOK, Shape, ActorsShape, StoreShape, ManagerShape
<1> QED BY <1>1, ShapeHolds, BoundsHold, PTL

-----------------------------------------------------------------------------
(* Who lives without a handle *)

LEMMA StoreFacts ==
    ASSUME Shape, NEW s \in Sessions
    PROVE  /\ store \in [Sessions -> NatRecords] /\ store[s] \in NatRecords
           /\ store[s].title \in Nat /\ store[s].changes \in Nat
BY DEF Shape, StoreShape, NatRecords

LEMMA EffectMaterialized == ASSUME Shape, Effect, Materialized PROVE Materialized'
<1>1. ASSUME UNCHANGED <<store, created>> PROVE \A s \in Sessions : store'[s] # Absent => s \in created'
  BY <1>1 DEF Materialized, Present
<1>2. ASSUME NEW i, NEW a, Becomes(i, a), UNCHANGED created,
             \A s \in Sessions : s # actors[i].session => store'[s] = store[s]
      PROVE  Materialized'
  <2>1. /\ DOMAIN actors' = DOMAIN actors /\ i \in DOMAIN actors
        /\ \A j \in DOMAIN actors : actors'[j].session = actors[j].session
    BY <1>2, BecomesFacts
  <2> QED BY <1>2, <2>1 DEF Materialized, Present
<1>3. ASSUME NEW i, NEW a, Watched(i, a) PROVE Materialized'
  BY <1>2, <1>3 DEF Watched
<1>4. ASSUME NEW i, NEW a, Retitled(i, a) \/ Checkpointed(i, a) \/ Ended(i, a) PROVE Materialized'
  <2>1. Becomes(i, a) /\ UNCHANGED created
    BY <1>4 DEF Retitled, Checkpointed, Ended
  <2>2. actors[i].session \in Sessions /\ store \in [Sessions -> NatRecords]
    BY <2>1, ActorFacts, StoreFacts DEF Becomes
  <2>3. \A s \in Sessions : s # actors[i].session => store'[s] = store[s]
    BY <1>4, <2>2 DEF Retitled, Checkpointed, Ended
  <2> QED BY <1>2, <2>1, <2>3
<1>5. ASSUME NEW s, NEW a, Spawned(s, a) PROVE Materialized'
  <2>1. PICK n \in Nat : n = Len(actors) + 1
    BY DEF Shape, ActorsShape
  <2>2. /\ DOMAIN actors' = DOMAIN actors \cup {n} /\ actors'[n].session = s
        /\ \A j \in DOMAIN actors : actors'[j] = actors[j]
    BY <1>5, <2>1, SpawnedFacts DEF Spawned
  <2>3. s \in created' /\ created \subseteq created'
    BY <1>5 DEF Spawned, Materialized
  <2>4. \A q \in Sessions : store'[q] # Absent => q \in created'
    <3>1. \A q \in Sessions : q # s => store'[q] = store[q]
      BY <1>5, StoreFacts DEF Spawned
    <3> QED BY <2>3, <3>1 DEF Materialized, Present
  <2> QED BY <2>2, <2>3, <2>4 DEF Materialized, Present
<1>6. ASSUME NEW s, NEW r, Stored(s, r) PROVE Materialized'
  <2>1. UNCHANGED actors /\ created \subseteq created'
    BY <1>6 DEF Stored
  <2>2. \A q \in Sessions : store'[q] # Absent => q \in created'
    <3>1. store'[s] = r /\ \A q \in Sessions : q # s => store'[q] = store[q]
      BY <1>6, StoreFacts DEF Stored
    <3>2. r = Absent \/ s \in created'
      BY <1>6 DEF Stored, Materialized
    <3> QED BY <2>1, <3>1, <3>2 DEF Materialized, Present
  <2> QED BY <2>1, <2>2 DEF Materialized, Present
<1>7. CASE UNCHANGED <<actors, store, created>>
  BY <1>7 DEF Materialized, Present
<1> QED BY <1>3, <1>4, <1>5, <1>6, <1>7 DEF Effect, Dropped

\* Every session that has an actor was materialized.
LEMMA MaterializedHolds == Spec => []Materialized
<1>1. Init => Materialized
  <2> SUFFICES ASSUME Init PROVE Materialized
    OBVIOUS
  <2>1. DOMAIN actors = {} /\ \A s \in Sessions : ~Present(s)
    BY EmptySeq DEF Init, Present
  <2> QED BY <2>1 DEF Materialized
<1>2. Shape /\ Materialized /\ [Next]_vars => Materialized'
  BY NextEffect, EffectMaterialized
<1> QED BY <1>1, <1>2, ShapeHolds, PTL DEF Spec

\* Of an orphan.
LEMMA OrphanFacts ==
    ASSUME Shape, Followed, NEW o \in orphans
    PROVE  /\ o.actor \in DOMAIN actors /\ o.running \in BOOLEAN
           /\ actors[o.actor] \in ActorShape /\ actors[o.actor].session \in Sessions
           /\ registry[actors[o.actor].session] # o.actor /\ actors[o.actor].shutting_down
           /\ Live(o.actor) /\ Running(o.actor) => o.running
<1>1. o.actor \in DOMAIN actors /\ o.running \in BOOLEAN
  BY DEF Shape, ActorsShape
<1> QED BY <1>1, ActorFacts DEF Followed

\* One that has a handle, and one that goes on storing without it.
LEMMA LostFacts ==
    ASSUME Shape, Followed, NEW i \in DOMAIN actors, Live(i)
    PROVE  /\ Lost(i) <=> registry[actors[i].session] # i
           /\ Lost(i) => actors[i].shutting_down
           /\ Lost(i) /\ Running(i) => Contested(actors[i].session)
<1>1. ASSUME Lost(i)
      PROVE  /\ registry[actors[i].session] # i /\ actors[i].shutting_down
             /\ Running(i) => Contested(actors[i].session)
  <2>1. PICK o \in orphans : o.actor = i
    BY <1>1 DEF Lost
  <2> QED BY <2>1, OrphanFacts DEF Contested
<1> QED BY <1>1 DEF Followed

\* What is lost stays lost.
LEMMA LostStays ==
    ASSUME Shape, Effect
    PROVE  /\ orphans \subseteq orphans'
           /\ \A i \in DOMAIN actors : i \in DOMAIN actors' /\ actors'[i].session = actors[i].session
           /\ \A i \in DOMAIN actors : Lost(i) => Lost(i)'
           /\ \A s \in Sessions : Contested(s) => Contested(s)'
<1>1. /\ orphans \subseteq orphans'
      /\ \A i \in DOMAIN actors : i \in DOMAIN actors' /\ actors'[i].session = actors[i].session
  <2>1. ASSUME NEW i, NEW a, Becomes(i, a)
        PROVE  /\ orphans \subseteq orphans'
               /\ \A j \in DOMAIN actors : j \in DOMAIN actors' /\ actors'[j].session = actors[j].session
    BY <2>1, BecomesFacts
  <2>2. ASSUME NEW s, NEW a, Spawned(s, a)
        PROVE  /\ orphans \subseteq orphans'
               /\ \A j \in DOMAIN actors : j \in DOMAIN actors' /\ actors'[j].session = actors[j].session
    BY <2>2, SpawnedFacts
  <2>3. ASSUME UNCHANGED actors, orphans \subseteq orphans'
        PROVE  /\ orphans \subseteq orphans'
               /\ \A j \in DOMAIN actors : j \in DOMAIN actors' /\ actors'[j].session = actors[j].session
    BY <2>3
  <2>4. ASSUME NEW i, NEW a, Watched(i, a) \/ Retitled(i, a) \/ Checkpointed(i, a) \/ Ended(i, a)
        PROVE  Becomes(i, a)
    BY <2>4 DEF Watched, Retitled, Checkpointed, Ended
  <2>5. ASSUME NEW s, Dropped(s)
        PROVE  UNCHANGED actors /\ orphans \subseteq orphans'
    BY <2>5 DEF Dropped
  <2>6. ASSUME NEW s, NEW r, Stored(s, r)
        PROVE  UNCHANGED actors /\ orphans \subseteq orphans'
    BY <2>6 DEF Stored
  <2> QED BY <2>1, <2>2, <2>3, <2>4, <2>5, <2>6 DEF Effect
<1>2. \A o \in orphans : o.actor \in DOMAIN actors
  BY DEF Shape, ActorsShape
<1> QED BY <1>1, <1>2 DEF Lost, Contested

\* A step of one actor, which may lose its handle with its life.
LEMMA BecomesFollowed ==
    ASSUME Shape, Followed, NEW i, NEW a, Becomes(i, a),
           a.record.running => actors[i].record.running \/ ~actors[i].shutting_down,
           \/ registry' = registry
           \/ /\ a.state # "live" /\ registry[actors[i].session] = i
              /\ registry' = [registry EXCEPT ![actors[i].session] = NoActor]
    PROVE  Followed'
<1>1. /\ DOMAIN actors' = DOMAIN actors /\ i \in DOMAIN actors /\ actors'[i] = a
      /\ \A j \in DOMAIN actors : j # i => actors'[j] = actors[j]
      /\ \A j \in DOMAIN actors : actors'[j].session = actors[j].session
      /\ UNCHANGED orphans
  BY BecomesFacts
<1>2. /\ a.state = "live" => Live(i)
      /\ actors[i].shutting_down => a.shutting_down
  BY DEF Becomes
<1>3. registry \in [Sessions -> {NoActor} \cup DOMAIN actors] /\ actors[i].session \in Sessions
      /\ \A j \in DOMAIN actors : j # NoActor /\ actors[j].session \in Sessions
  BY <1>1, ActorFacts DEF Shape, ActorsShape, NoActor
<1>4. ASSUME NEW j \in DOMAIN actors', actors'[j].state = "live"
      PROVE  registry'[actors'[j].session] = j \/ Lost(j)
  <2>1. j \in DOMAIN actors /\ Live(j) /\ actors'[j].session = actors[j].session
    BY <1>1, <1>2, <1>4 DEF Live
  <2>2. registry[actors[j].session] = j \/ Lost(j)
    BY <2>1 DEF Followed
  <2>3. CASE registry' = registry
    BY <2>1, <2>2, <2>3
  <2>4. CASE /\ a.state # "live" /\ registry[actors[i].session] = i
             /\ registry' = [registry EXCEPT ![actors[i].session] = NoActor]
    <3>1. j # i
      BY <1>1, <1>4, <2>4
    <3>2. registry[actors[j].session] = j => actors[j].session # actors[i].session
      BY <2>4, <3>1
    <3> QED BY <1>3, <2>1, <2>2, <2>4, <3>2
  <2> QED BY <2>3, <2>4
<1>5. ASSUME NEW o \in orphans
      PROVE  /\ registry'[actors'[o.actor].session] # o.actor /\ actors'[o.actor].shutting_down
             /\ actors'[o.actor].state = "live" /\ actors'[o.actor].record.running => o.running
  <2>1. PICK j \in DOMAIN actors : j = o.actor
    BY OrphanFacts
  <2>2. /\ registry[actors[j].session] # j /\ actors[j].shutting_down
        /\ Live(j) /\ Running(j) => o.running
    BY <2>1, OrphanFacts
  <2>3. registry'[actors'[j].session] # j
    BY <1>1, <1>3, <2>2
  <2>4. actors'[j].shutting_down
    BY <1>1, <1>2, <2>2
  <2>5. actors'[j].state = "live" /\ actors'[j].record.running => o.running
    BY <1>1, <1>2, <2>2 DEF Live, Running
  <2> QED BY <2>1, <2>3, <2>4, <2>5
<1> QED BY <1>1, <1>4, <1>5 DEF Followed, Live, Running, Lost

\* Only the end of a deletion that was refused loses a live actor.
LEMMA EffectFollowed == ASSUME Shape, Effect, Materialized, Followed PROVE Followed'
<1>1. CASE UNCHANGED <<actors, registry, orphans>>
  BY <1>1 DEF Followed, Live, Running, Lost
<1>2. ASSUME NEW i, NEW a, Watched(i, a) PROVE Followed'
  <2>1. Becomes(i, a) /\ registry' = registry /\ a.record = actors[i].record
    BY <1>2 DEF Watched
  <2> QED BY <2>1, BecomesFollowed
<1>3. ASSUME NEW i, NEW a, Retitled(i, a) PROVE Followed'
  <2>1. Becomes(i, a) /\ registry' = registry /\ a.record.running = actors[i].record.running
    BY <1>3 DEF Retitled
  <2> QED BY <2>1, BecomesFollowed
<1>4. ASSUME NEW i, NEW a, Checkpointed(i, a) PROVE Followed'
  <2>1. Becomes(i, a) /\ registry' = registry
        /\ (a.record.running => actors[i].record.running \/ ~actors[i].shutting_down)
    BY <1>4 DEF Checkpointed, Proceeds
  <2> QED BY <2>1, BecomesFollowed
<1>5. ASSUME NEW i, NEW a, Ended(i, a) PROVE Followed'
  <2>1. /\ Becomes(i, a) /\ a.record = actors[i].record
        /\ \/ registry' = registry
           \/ /\ a.state # "live" /\ registry[actors[i].session] = i
              /\ registry' = [registry EXCEPT ![actors[i].session] = NoActor]
    BY <1>5 DEF Ended
  <2> QED BY <2>1, BecomesFollowed
<1>6. ASSUME NEW s, Dropped(s) PROVE Followed'
  <2> DEFINE i == registry[s]
             lost == [actor |-> i, running |-> Running(i)]
  <2>1. /\ s \in Registered /\ registry' = [registry EXCEPT ![s] = NoActor] /\ UNCHANGED actors
        /\ \/ ~Live(i) /\ UNCHANGED orphans
           \/ actors[i].shutting_down /\ orphans' = orphans \cup {lost}
    BY <1>6 DEF Dropped
  <2>2. i \in DOMAIN actors /\ actors[i].session = s /\ s \in Sessions
    BY <2>1, HandleFacts
  <2>3. lost.actor = i /\ lost.running = Running(i)
    OBVIOUS
  <2>4. registry \in [Sessions -> {NoActor} \cup DOMAIN actors]
        /\ \A j \in DOMAIN actors : j # NoActor /\ actors[j].session \in Sessions
    BY ActorFacts DEF Shape, ActorsShape, NoActor
  <2> HIDE DEF i, lost
  <2>5. ASSUME NEW j \in DOMAIN actors, Live(j)
        PROVE  registry'[actors[j].session] = j \/ \E o \in orphans' : o.actor = j
    <3>1. registry[actors[j].session] = j \/ Lost(j)
      BY <2>5 DEF Followed
    <3>2. CASE j = i
      BY <2>1, <2>3, <2>5, <3>2
    <3>3. CASE j # i
      <4>1. registry[actors[j].session] = j => actors[j].session # s
        BY <3>3 DEF i
      <4> QED BY <2>1, <2>2, <2>4, <3>1, <4>1 DEF Lost
    <3> QED BY <3>2, <3>3
  <2>6. ASSUME NEW o \in orphans'
        PROVE  /\ registry'[actors[o.actor].session] # o.actor /\ actors[o.actor].shutting_down
               /\ Live(o.actor) /\ Running(o.actor) => o.running
    <3>1. CASE o \in orphans
      <4>1. /\ o.actor \in DOMAIN actors /\ registry[actors[o.actor].session] # o.actor
            /\ actors[o.actor].shutting_down /\ (Live(o.actor) /\ Running(o.actor) => o.running)
            /\ actors[o.actor].session \in Sessions
        BY <3>1, OrphanFacts
      <4>2. registry'[actors[o.actor].session] # o.actor
        BY <2>1, <2>2, <2>4, <4>1
      <4> QED BY <4>1, <4>2
    <3>2. CASE o = lost /\ actors[i].shutting_down
      <4>1. registry'[s] = NoActor /\ i # NoActor
        BY <2>1, <2>2, <2>4
      <4> QED BY <2>2, <2>3, <3>2, <4>1
    <3> QED BY <2>1, <2>6, <3>1, <3>2
  <2> QED BY <2>1, <2>5, <2>6 DEF Followed, Live, Running, Lost
<1>7. ASSUME NEW s, NEW a, Spawned(s, a) PROVE Followed'
  <2>1. PICK n \in Nat : n = Len(actors) + 1
    BY DEF Shape, ActorsShape
  <2>2. /\ DOMAIN actors' = DOMAIN actors \cup {n} /\ actors'[n].session = s
        /\ \A j \in DOMAIN actors : actors'[j] = actors[j]
        /\ registry'[s] = n /\ \A r \in Sessions : r # s => registry'[r] = registry[r]
        /\ UNCHANGED orphans
    BY ZenonT(60), <1>7, <2>1, SpawnedFacts DEF Spawned
  <2>3. \A j \in DOMAIN actors : j # n /\ j # NoActor /\ actors[j].session \in Sessions
    BY <2>1, ActorFacts DEF NoActor
  <2>4. ASSUME NEW j \in DOMAIN actors, Live(j), actors[j].session = s PROVE Lost(j)
    <3>1. s \in created
      BY <2>4 DEF Materialized
    <3>2. s \notin Registered /\ s \in Sessions
      BY <1>7, <3>1 DEF Spawned
    <3> QED BY <2>3, <2>4, <3>2 DEF Followed, Registered
  <2>5. ASSUME NEW j \in DOMAIN actors', actors'[j].state = "live"
        PROVE  registry'[actors'[j].session] = j \/ Lost(j)
    <3>1. CASE j = n
      BY <2>2, <3>1
    <3>2. CASE j # n
      <4>1. j \in DOMAIN actors /\ actors'[j] = actors[j]
        BY <2>2, <2>5, <3>2
      <4>2. Live(j)
        BY <2>5, <4>1 DEF Live
      <4>3. registry[actors[j].session] = j \/ Lost(j)
        BY <4>1, <4>2 DEF Followed
      <4> QED BY <2>2, <2>3, <2>4, <4>1, <4>2, <4>3
    <3> QED BY <3>1, <3>2
  <2>6. ASSUME NEW o \in orphans
        PROVE  /\ registry'[actors'[o.actor].session] # o.actor /\ actors'[o.actor].shutting_down
               /\ actors'[o.actor].state = "live" /\ actors'[o.actor].record.running => o.running
    <3>1. PICK j \in DOMAIN actors : j = o.actor
      BY OrphanFacts
    <3>2. /\ registry[actors[j].session] # j /\ actors[j].shutting_down
          /\ Live(j) /\ Running(j) => o.running
      BY <3>1, OrphanFacts
    <3>3. registry'[actors[j].session] # j
      BY <2>2, <2>3, <3>2
    <3> QED BY <2>2, <3>1, <3>2, <3>3 DEF Live, Running
  <2> QED BY <2>2, <2>5, <2>6 DEF Followed, Live, Running, Lost
<1> QED BY <1>1, <1>2, <1>3, <1>4, <1>5, <1>6, <1>7 DEF Effect, Stored

\* The manager loses the handle of an actor that lives in one way: a deletion that the
\* actor has refused ends.  Such an actor never has a handle, or starts a run, again; a
\* panic, a failed shutdown or a second opening never loses one.
THEOREM OrphansAreRefused == Spec => []Followed
<1>1. Init => Followed
  <2> SUFFICES ASSUME Init PROVE Followed
    OBVIOUS
  <2>1. DOMAIN actors = {} /\ orphans = {}
    BY EmptySeq DEF Init
  <2> QED BY <2>1 DEF Followed
<1>2. Shape /\ Materialized /\ Followed /\ [Next]_vars => Followed'
  BY NextEffect, EffectFollowed
<1> QED BY <1>1, <1>2, ShapeHolds, MaterializedHolds, PTL DEF Spec

-----------------------------------------------------------------------------
(* What is stored *)

\* What is stored of a session when something is.
Grows(s) == Present(s) /\ store'[s].title >= store[s].title /\ store'[s].changes >= store[s].changes

\* A live actor with a handle has at least what is stored.
LEMMA LiveHasAll ==
    ASSUME Shape, Saved, NEW i \in DOMAIN actors, Live(i), ~Lost(i), ~Contested(actors[i].session),
           Present(actors[i].session)
    PROVE  /\ store[actors[i].session].title = actors[i].record.title
           /\ store[actors[i].session].changes <= actors[i].record.changes
           /\ ~actors[i].dirty => store[actors[i].session].changes = actors[i].record.changes
BY DEF Saved, ActorSaved

\* Where no run was left to itself, only actors with a handle store.
LEMMA StoresHeld ==
    ASSUME Shape, Followed, NEW i \in DOMAIN actors, Live(i), ~Contested(actors[i].session),
           registry[actors[i].session] = i \/ Running(i) \/ ~actors[i].shutting_down
    PROVE  ~Lost(i)
BY LostFacts

\* A row is created once, and only grows after that.
LEMMA StoreGrows ==
    ASSUME Shape, Followed, Saved, Effect, NEW s \in Sessions, store'[s] # Absent, ~Contested(s)
    PROVE  Grows(s) \/ s \notin created
<1>1. /\ store \in [Sessions -> NatRecords] /\ store[s] \in NatRecords
      /\ store[s].title \in Nat /\ store[s].changes \in Nat
  BY StoreFacts
<1>2. ASSUME store'[s] = store[s] PROVE Grows(s)
  <2>1. \A x \in Nat : x >= x
    OBVIOUS
  <2> QED BY <1>1, <1>2, <2>1 DEF Grows, Present
<1>3. ASSUME NEW i \in DOMAIN actors, NEW r \in NatRecords, Live(i), Present(actors[i].session),
             registry[actors[i].session] = i \/ Running(i) \/ ~actors[i].shutting_down,
             store' = [store EXCEPT ![actors[i].session] = r],
             r.title = actors[i].record.title,
             r.changes \in {actors[i].record.changes, actors[i].record.changes + 1}
      PROVE  Grows(s)
  <2>1. CASE s = actors[i].session
    <3>6. ~Contested(actors[i].session)
      BY <2>1
    <3>7. ~Lost(i)
      BY <1>3, <3>6, StoresHeld
    <3>8. actors[i].record.changes \in Nat
      BY ActorFacts, ActorFields
    <3>9. /\ store[actors[i].session].title = actors[i].record.title
          /\ store[actors[i].session].changes <= actors[i].record.changes
      BY <1>3, <3>6, <3>7, LiveHasAll
    <3>1. /\ store[s].title = actors[i].record.title
          /\ store[s].changes <= actors[i].record.changes /\ actors[i].record.changes \in Nat
      BY <2>1, <3>8, <3>9
    <3>2. store'[s] = r /\ Present(s)
      BY <1>1, <1>3, <2>1
    <3>3. \A x, y \in Nat : x <= y => y >= x /\ y + 1 >= x
      OBVIOUS
    <3>4. store'[s].title >= store[s].title
      BY <1>1, <1>3, <3>1, <3>2
    <3>5. store'[s].changes >= store[s].changes
      BY <1>1, <1>3, <3>1, <3>2, <3>3
    <3> QED BY <3>2, <3>4, <3>5 DEF Grows
  <2>2. CASE s # actors[i].session
    BY <1>1, <1>2, <1>3, <2>2
  <2> QED BY <2>1, <2>2
<1>4. ASSUME NEW i, NEW a, Retitled(i, a) PROVE Grows(s)
  <2> DEFINE q == actors[i].session
             t == store[q].title + 1
  <2>1. q \in Sessions /\ Present(q) /\ store' = [store EXCEPT ![q].title = t]
    BY <1>4, ActorFacts DEF Retitled, Becomes
  <2> HIDE DEF t
  <2>2. CASE s = q
    <3>1. store'[s].title = t /\ store'[s].changes = store[s].changes
      BY <1>1, <2>1, <2>2 DEF NatRecords
    <3>2. t >= store[s].title /\ store[s].changes >= store[s].changes
      BY <1>1, <2>2 DEF t
    <3> QED BY <2>1, <2>2, <3>1, <3>2 DEF Grows
  <2>3. CASE s # q
    BY <1>1, <1>2, <2>1, <2>3
  <2> QED BY <2>2, <2>3
<1>5. ASSUME NEW i, NEW a, Checkpointed(i, a) PROVE Grows(s)
  <2>1. CASE UNCHANGED store
    BY <1>2, <2>1
  <2>2. CASE Present(actors[i].session) /\ store' = [store EXCEPT ![actors[i].session] = a.record]
    <3>1. i \in DOMAIN actors /\ a.record \in NatRecords /\ Live(i)
          /\ (registry[actors[i].session] = i \/ Running(i) \/ ~actors[i].shutting_down)
      BY <1>5, ActorFields DEF Checkpointed, Becomes
    <3>2. /\ a.record.title = actors[i].record.title
          /\ a.record.changes \in {actors[i].record.changes, actors[i].record.changes + 1}
      BY <1>5 DEF Checkpointed, Proceeds
    <3> QED BY <1>3, <2>2, <3>1, <3>2
  <2> QED BY <1>5, <2>1, <2>2 DEF Checkpointed
<1>6. ASSUME NEW i, NEW a, Ended(i, a) PROVE Grows(s)
  <2>1. CASE UNCHANGED store
    BY <1>2, <2>1
  <2>2. CASE /\ Live(i) /\ Present(actors[i].session) /\ registry[actors[i].session] = i
             /\ store' = [store EXCEPT ![actors[i].session] = a.record]
    <3>1. i \in DOMAIN actors /\ a.record \in NatRecords /\ a.record = actors[i].record
      BY <1>6, ActorFields DEF Ended, Becomes
    <3> QED BY <1>3, <2>2, <3>1
  <2> QED BY <1>6, <2>1, <2>2 DEF Ended
<1>10. ASSUME store'[s] = Loaded(store[s]), Present(s) PROVE Grows(s)
  <2>1. PICK r : r = Loaded(store[s])
    OBVIOUS
  <2>2. r.title = store[s].title /\ (r.changes = store[s].changes + 1 \/ r = store[s])
    BY <1>1, <2>1, LoadedRecord
  <2>3. r.title >= store[s].title /\ r.changes >= store[s].changes
    BY <1>1, <2>2
  <2> QED BY <1>10, <2>1, <2>3 DEF Grows
<1>7. ASSUME NEW q, NEW a, Spawned(q, a) PROVE Grows(s) \/ s \notin created
  <2>1. q \in Sessions
    BY <1>7 DEF Spawned
  <2>2. CASE q \notin created /\ store' = [store EXCEPT ![q] = Created]
    BY <1>1, <1>2, <2>1, <2>2
  <2>3. CASE Present(q) /\ store' = [store EXCEPT ![q] = Loaded(store[q])]
    <3>1. CASE s = q
      BY <1>1, <1>10, <2>3, <3>1
    <3>2. CASE s # q
      BY <1>1, <1>2, <2>1, <2>3, <3>2
    <3> QED BY <3>1, <3>2
  <2> QED BY <1>7, <2>2, <2>3 DEF Spawned
<1>8. ASSUME NEW q, NEW r, Stored(q, r) PROVE Grows(s) \/ s \notin created
  <2>1. store' = [store EXCEPT ![q] = r] /\ q \in Sessions
    BY <1>8 DEF Stored
  <2>2. CASE s # q
    BY <1>1, <1>2, <2>1, <2>2
  <2>3. CASE s = q
    <3>1. store'[s] = r
      BY <1>1, <2>1, <2>3
    <3>2. CASE Present(s) /\ r.title = store[s].title + 1 /\ r.changes = store[s].changes
      <4>1. r.title >= store[s].title /\ r.changes >= store[s].changes
        BY <1>1, <3>2
      <4> QED BY <3>1, <3>2, <4>1 DEF Grows
    <3>4. CASE Present(s) /\ r = Loaded(store[s])
      BY <1>10, <3>1, <3>4
    <3>3. r # Absent
      BY <3>1
    <3> QED BY <1>8, <2>3, <3>2, <3>3, <3>4 DEF Stored
  <2> QED BY <2>2, <2>3
<1>9. CASE UNCHANGED store
  BY <1>2, <1>9
<1> QED BY <1>4, <1>5, <1>6, <1>7, <1>8, <1>9 DEF Effect, Watched, Dropped

\* Whose record the row is held to after a step was held to it before.
LEMMA HeldBefore ==
    ASSUME Shape, Effect, NEW j \in DOMAIN actors
    PROVE  /\ ~Contested(actors[j].session)' => ~Contested(actors[j].session)
           /\ ~Lost(j)' => ~Lost(j)
           /\ actors'[j].session = actors[j].session /\ actors[j].session \in Sessions
BY LostStays, ActorFacts

\* An actor that a step leaves alone, while the row of its session does not change,
\* or the actor has ended, or is not followed.
LEMMA OthersSaved ==
    ASSUME Shape, Materialized, Followed, Saved, Effect, NEW j \in DOMAIN actors,
           actors'[j] = actors[j],
           Live(j) /\ ~Lost(j) /\ ~Contested(actors[j].session)
              => store'[actors[j].session] = store[actors[j].session]
    PROVE  ActorSaved(j)'
<1> DEFINE s == actors[j].session
<1>1. s \in Sessions /\ s \in created /\ actors[j] \in ActorShape
  BY ActorFacts DEF Materialized
<1>2. Live(j)' = Live(j) /\ actors'[j].session = s /\ (~Lost(j)' => ~Lost(j))
  BY HeldBefore DEF Live
<1>3. CASE Contested(s)'
  BY <1>2, <1>3 DEF ActorSaved
<1>4. CASE ~Contested(s)' /\ store'[s] # Absent
  <2>1. ~Contested(s)
    BY <1>4, HeldBefore
  <2>2. ASSUME Live(j), ~Lost(j)'
        PROVE  /\ store'[s].title = actors[j].record.title
               /\ store'[s].changes <= actors[j].record.changes
               /\ ~actors[j].dirty => store'[s].changes = actors[j].record.changes
    <3>1. ~Lost(j) /\ store'[s] = store[s] /\ Present(s)
      BY <1>2, <1>4, <2>1, <2>2 DEF Present
    <3> QED BY <2>1, <2>2, <3>1, LiveHasAll
  <2>3. ASSUME actors[j].state = "stopped"
        PROVE  /\ store'[s].title >= actors[j].record.title
               /\ store'[s].changes >= actors[j].record.changes
    <3>1. /\ Present(s) /\ store'[s].title >= store[s].title
          /\ store'[s].changes >= store[s].changes
      BY <1>1, <1>4, <2>1, StoreGrows DEF Grows
    <3>2. store[s].title >= actors[j].record.title /\ store[s].changes >= actors[j].record.changes
      BY <1>1, <2>1, <2>3, <3>1 DEF Saved, ActorSaved
    <3>3. /\ store[s].title \in Nat /\ store[s].changes \in Nat
          /\ actors[j].record.title \in Nat /\ actors[j].record.changes \in Nat
      BY <1>1, StoreFacts, ActorFields
    <3>4. store'[s] \in NatRecords
      BY <1>1, EffectShape DEF StoreShape
    <3>5. store'[s].title \in Nat /\ store'[s].changes \in Nat
      BY <3>4 DEF NatRecords
    <3> QED BY <3>1, <3>2, <3>3, <3>5
  <2>4. /\ Live(j)' => Live(j) /\ actors'[j].record = actors[j].record
        /\ actors'[j].dirty = actors[j].dirty /\ actors'[j].state = actors[j].state
    BY <1>2
  <2> QED BY <1>2, <2>2, <2>3, <2>4 DEF ActorSaved
<1>5. CASE store'[s] = Absent
  BY <1>2, <1>5 DEF ActorSaved, Present
<1> QED BY <1>3, <1>4, <1>5

\* Every session has one live actor with a handle at most, the registered one.
LEMMA OneLive ==
    ASSUME Shape, Followed, NEW i \in DOMAIN actors, Live(i), ~Lost(i)
    PROVE  /\ registry[actors[i].session] = i /\ actors[i].session \in Registered
           /\ \A j \in DOMAIN actors :
                Live(j) /\ ~Lost(j) /\ actors[j].session = actors[i].session => j = i
<1>1. registry[actors[i].session] = i /\ i # NoActor /\ actors[i].session \in Sessions
  BY ActorFacts DEF Followed, NoActor
<1> QED BY <1>1 DEF Followed, Registered

\* A step of one actor, or for it.
LEMMA BecomesSaved ==
    ASSUME Shape, Materialized, Followed, Saved, Effect, NEW i, NEW a, Becomes(i, a),
           \A s \in Sessions : s # actors[i].session => store'[s] = store[s],
           (Live(i) /\ ~Lost(i)) \/ UNCHANGED store \/ Contested(actors[i].session), ActorSaved(i)'
    PROVE  Saved'
<1>1. /\ DOMAIN actors' = DOMAIN actors /\ i \in DOMAIN actors
      /\ \A j \in DOMAIN actors : j # i => actors'[j] = actors[j]
  BY BecomesFacts
<1>2. ASSUME NEW j \in DOMAIN actors, j # i PROVE ActorSaved(j)'
  <2>1. ASSUME Live(j), ~Lost(j), ~Contested(actors[j].session)
        PROVE  store'[actors[j].session] = store[actors[j].session]
    <3>0. actors[j].session \in Sessions
      BY ActorFacts
    <3>1. CASE Live(i) /\ ~Lost(i)
      <4>1. actors[j].session # actors[i].session
        BY <1>1, <1>2, <2>1, <3>1, OneLive
      <4> QED BY <3>0, <4>1
    <3>2. CASE UNCHANGED store
      BY <3>2
    <3>3. CASE Contested(actors[i].session)
      BY <2>1, <3>0, <3>3
    <3> QED BY <3>1, <3>2, <3>3
  <2>2. actors'[j] = actors[j]
    BY <1>1, <1>2
  <2> QED BY <2>1, <2>2, OthersSaved
<1> QED BY <1>1, <1>2 DEF Saved

LEMMA WatchedSaved ==
    ASSUME Shape, Materialized, Followed, Saved, Effect, NEW i, NEW a, Watched(i, a) PROVE Saved'
<1>1. /\ i \in DOMAIN actors /\ actors'[i] = a /\ a.session = actors[i].session
      /\ a.state = actors[i].state /\ a.record = actors[i].record /\ a.dirty = actors[i].dirty
      /\ UNCHANGED store /\ Becomes(i, a)
  BY BecomesFacts DEF Watched, Becomes
<1>2. ActorSaved(i)
  BY <1>1 DEF Saved
<1>4. /\ ~Contested(actors[i].session)' => ~Contested(actors[i].session)
      /\ ~Lost(i)' => ~Lost(i)
  BY <1>1, HeldBefore
<1>3. ActorSaved(i)'
  BY <1>1, <1>2, <1>4 DEF ActorSaved, Live, Present
<1> QED BY <1>1, <1>3, BecomesSaved

LEMMA RetitledSaved ==
    ASSUME Shape, Materialized, Followed, Saved, Effect, NEW i, NEW a, Retitled(i, a) PROVE Saved'
<1> DEFINE s == actors[i].session
           t == store[s].title + 1
<1>1. /\ i \in DOMAIN actors /\ actors'[i] = a /\ a.session = s /\ Becomes(i, a)
      /\ Live(i) /\ Present(s) /\ a.state = "live" /\ a.dirty = actors[i].dirty
      /\ registry[s] = i
      /\ a.record.title = t /\ a.record.changes = actors[i].record.changes
      /\ store' = [store EXCEPT ![s].title = t]
  BY BecomesFacts DEF Retitled, Becomes
<1>2. s \in Sessions /\ t \in Nat
  BY <1>1, ActorFacts, StoreFacts
<1> HIDE DEF t
<1>3. /\ store'[s].title = t /\ store'[s].changes = store[s].changes
      /\ \A q \in Sessions : q # s => store'[q] = store[q]
  BY <1>1, <1>2, StoreFacts DEF NatRecords
<1>6. ~Lost(i)
  BY <1>1, LostFacts
<1>4. ASSUME ~Contested(s)
      PROVE  /\ store[s].changes <= actors[i].record.changes
             /\ ~actors[i].dirty => store[s].changes = actors[i].record.changes
  BY <1>1, <1>4, <1>6, LiveHasAll
<1>7. ~Contested(s)' => ~Contested(s)
  BY <1>1, HeldBefore
<1>5. ActorSaved(i)'
  BY <1>1, <1>2, <1>3, <1>4, <1>7 DEF ActorSaved, Live
<1> QED BY <1>1, <1>3, <1>5, <1>6, BecomesSaved

LEMMA CheckpointedSaved ==
    ASSUME Shape, Materialized, Followed, Saved, Effect, NEW i, NEW a, Checkpointed(i, a) PROVE Saved'
<1> DEFINE s == actors[i].session
<1>1. /\ i \in DOMAIN actors /\ actors'[i] = a /\ a.session = s /\ Becomes(i, a) /\ a \in ActorShape
      /\ Live(i) /\ a.state = "live"
      /\ a.record.title = actors[i].record.title
      /\ a.record.changes \in {actors[i].record.changes, actors[i].record.changes + 1}
      /\ registry[s] = i \/ Running(i) \/ ~actors[i].shutting_down
      /\ \/ ~a.dirty /\ Present(s) /\ store' = [store EXCEPT ![s] = a.record]
         \/ a.dirty /\ UNCHANGED store
  BY BecomesFacts DEF Checkpointed, Becomes, Proceeds
<1>2. s \in Sessions /\ actors[i].record.changes \in Nat /\ a.record.changes \in Nat
  BY <1>1, ActorFacts, ActorFields
<1>3. \A q \in Sessions : q # s => store'[q] = store[q]
  BY <1>1, <1>2, StoreFacts
<1>7. ~Contested(s)' => ~Contested(s)
  BY <1>1, HeldBefore
<1>8. ~Contested(s) => ~Lost(i)
  BY <1>1, StoresHeld
<1>4. CASE ~a.dirty /\ store' = [store EXCEPT ![s] = a.record]
  <2>1. store'[s] = a.record /\ a.record.changes <= a.record.changes
    BY <1>2, <1>4, StoreFacts
  <2>2. ActorSaved(i)'
    BY <1>1, <1>2, <2>1 DEF ActorSaved, Live
  <2>3. (Live(i) /\ ~Lost(i)) \/ Contested(actors[i].session)
    BY <1>1, <1>8
  <2> QED BY <1>1, <1>3, <2>2, <2>3, BecomesSaved
<1>5. CASE a.dirty /\ UNCHANGED store
  <2>1. ASSUME Present(s), ~Contested(s)
        PROVE  store[s].title = a.record.title /\ store[s].changes <= a.record.changes
    <3>0. ~Lost(i)
      BY <1>8, <2>1
    <3>4. store[s].title = actors[i].record.title /\ store[s].changes <= actors[i].record.changes
      BY <1>1, <2>1, <3>0, LiveHasAll
    <3>1. /\ store[s].title = actors[i].record.title /\ store[s].changes <= actors[i].record.changes
          /\ store[s].changes \in Nat
      BY <1>2, <3>4, StoreFacts
    <3>2. \A x, y \in Nat : x <= y => x <= y + 1
      OBVIOUS
    <3> QED BY <1>1, <1>2, <3>1, <3>2
  <2>2. ActorSaved(i)'
    BY <1>1, <1>2, <1>5, <1>7, <2>1 DEF ActorSaved, Live, Present
  <2> QED BY <1>1, <1>3, <1>5, <2>2, BecomesSaved
<1> QED BY <1>1, <1>4, <1>5

LEMMA EndedSaved ==
    ASSUME Shape, Materialized, Followed, Saved, Effect, NEW i, NEW a, Ended(i, a) PROVE Saved'
<1> DEFINE s == actors[i].session
<1>1. /\ i \in DOMAIN actors /\ actors'[i] = a /\ a.session = s /\ Becomes(i, a) /\ a \in ActorShape
      /\ a.state # "live" /\ a.record = actors[i].record
      /\ \/ a.state # "stopped" /\ UNCHANGED store
         \/ /\ Live(i) /\ a.state = "stopped" /\ registry[s] = i
            /\ IF actors[i].dirty THEN Present(s) /\ store' = [store EXCEPT ![s] = a.record]
                                  ELSE UNCHANGED store
  BY BecomesFacts DEF Ended, Becomes
<1>2. s \in Sessions /\ a.record.changes >= a.record.changes /\ a.record.title >= a.record.title
  BY <1>1, ActorFacts, ActorFields
<1>3. \A q \in Sessions : q # s => store'[q] = store[q]
  BY <1>1, <1>2, StoreFacts
<1>7. ~Contested(s)' => ~Contested(s)
  BY <1>1, HeldBefore
<1>8. Live(i) /\ a.state = "stopped" => ~Lost(i)
  BY <1>1, LostFacts
<1>4. CASE a.state # "stopped" /\ UNCHANGED store
  <2>1. ActorSaved(i)'
    BY <1>1, <1>4 DEF ActorSaved, Live
  <2> QED BY <1>1, <1>3, <1>4, <2>1, BecomesSaved
<1>5. CASE Live(i) /\ a.state = "stopped" /\ actors[i].dirty /\ store' = [store EXCEPT ![s] = a.record]
  <2>1. store'[s] = a.record
    BY <1>2, <1>5, StoreFacts
  <2>2. ActorSaved(i)'
    BY <1>1, <1>2, <2>1 DEF ActorSaved, Live
  <2> QED BY <1>1, <1>3, <1>5, <1>8, <2>2, BecomesSaved
<1>6. CASE Live(i) /\ a.state = "stopped" /\ ~actors[i].dirty /\ UNCHANGED store
  <2>1. ASSUME Present(s), ~Contested(s)
        PROVE  store[s].title = a.record.title /\ store[s].changes = a.record.changes
    BY <1>1, <1>6, <1>8, <2>1, LiveHasAll
  <2>2. ActorSaved(i)'
    BY <1>1, <1>2, <1>6, <1>7, <2>1 DEF ActorSaved, Live, Present
  <2> QED BY <1>1, <1>3, <1>6, <1>8, <2>2, BecomesSaved
<1> QED BY <1>1, <1>4, <1>5, <1>6

LEMMA SpawnedSaved ==
    ASSUME Shape, Materialized, Followed, Saved, Effect, NEW s, NEW a, Spawned(s, a) PROVE Saved'
<1>7. PICK n \in Nat : n = Len(actors) + 1
  BY DEF Shape, ActorsShape
<1>1. /\ DOMAIN actors' = DOMAIN actors \cup {n} /\ actors'[n] = a
      /\ \A j \in DOMAIN actors : actors'[j] = actors[j]
  BY <1>7, SpawnedFacts
<1>2. /\ s \in Sessions /\ a \in ActorShape /\ a.session = s /\ a.state = "live" /\ ~a.dirty
      /\ a.record = store'[s]
      /\ s \notin Registered \/ s \notin created
      /\ \A q \in Sessions : q # s => store'[q] = store[q]
  BY StoreFacts DEF Spawned
<1>4. ASSUME NEW j \in DOMAIN actors PROVE ActorSaved(j)'
  <2>1. ASSUME Live(j), ~Lost(j) PROVE store'[actors[j].session] = store[actors[j].session]
    <3>1. actors[j].session \in Registered /\ actors[j].session \in created
      BY <2>1, OneLive DEF Materialized
    <3>2. actors[j].session \in Sessions
      BY ActorFacts
    <3> QED BY <1>2, <3>1, <3>2
  <2>2. actors'[j] = actors[j]
    BY <1>1
  <2> QED BY <2>1, <2>2, OthersSaved
<1>5. ActorSaved(n)'
  <2>1. actors'[n].record.changes \in Nat
    BY <1>1, <1>2, ActorFields
  <2>2. actors'[n].record.changes <= actors'[n].record.changes
    BY <2>1
  <2> QED BY <1>1, <1>2, <2>2 DEF ActorSaved, Live
<1> QED BY <1>1, <1>4, <1>5 DEF Saved

LEMMA StoredSaved ==
    ASSUME Shape, Materialized, Followed, Saved, Effect, NEW s, NEW r, Stored(s, r) PROVE Saved'
<1>1. /\ s \in Sessions /\ UNCHANGED actors /\ store' = [store EXCEPT ![s] = r]
      /\ s \notin Registered \/ r = Absent \/ s \notin created
  BY DEF Stored
<1>2. store'[s] = r /\ \A q \in Sessions : q # s => store'[q] = store[q]
  BY <1>1, StoreFacts
<1>4. ASSUME NEW j \in DOMAIN actors PROVE ActorSaved(j)'
  <2>1. CASE actors[j].session = s /\ r = Absent
    BY <1>1, <1>2, <2>1 DEF ActorSaved, Present
  <2>2. CASE ~(actors[j].session = s /\ r = Absent)
    <3>1. ASSUME Live(j), ~Lost(j) PROVE store'[actors[j].session] = store[actors[j].session]
      <4>1. actors[j].session \in Registered /\ actors[j].session \in created
        BY <3>1, OneLive DEF Materialized
      <4>2. actors[j].session \in Sessions
        BY ActorFacts
      <4> QED BY <1>1, <1>2, <2>2, <4>1, <4>2
    <3>2. actors'[j] = actors[j]
      BY <1>1
    <3> QED BY <3>1, <3>2, OthersSaved
  <2> QED BY <2>1, <2>2
<1> QED BY <1>1, <1>4 DEF Saved

\* Every step keeps what is stored.
LEMMA NextSaved == ASSUME Shape, Materialized, Followed, Saved, Effect PROVE Saved'
<1>1. ASSUME UNCHANGED <<actors, store>> PROVE Saved'
  <2>1. ASSUME NEW j \in DOMAIN actors PROVE ActorSaved(j)'
    <3>1. actors'[j] = actors[j] /\ UNCHANGED store
      BY <1>1
    <3> QED BY <3>1, OthersSaved
  <2> QED BY <1>1, <2>1 DEF Saved
<1>2. ASSUME NEW s, Dropped(s) PROVE Saved'
  BY <1>1, <1>2 DEF Dropped
<1> QED BY <1>1, <1>2, WatchedSaved, RetitledSaved, CheckpointedSaved, EndedSaved, SpawnedSaved,
           StoredSaved DEF Effect

\* Where no run was left to itself, a live actor with a handle has the title that is
\* stored and at least the changes, and one that stopped left all it had.
THEOREM SavedHolds == Spec => []Saved
<1>1. Init => Saved
  <2> SUFFICES ASSUME Init PROVE Saved
    OBVIOUS
  <2>1. DOMAIN actors = {}
    BY EmptySeq DEF Init
  <2> QED BY <2>1 DEF Saved
<1>2. Shape /\ Materialized /\ Followed /\ Saved /\ [Next]_vars => Saved'
  BY NextEffect, NextSaved
<1> QED BY <1>1, <1>2, ShapeHolds, MaterializedHolds, OrphansAreRefused, PTL DEF Spec

\* An actor that a shutdown stopped has left its whole record in the store, whatever
\* failed in that shutdown.
THEOREM CleanEndsCorrect == Spec => []CleanEndsAreSaved
<1>1. Saved => CleanEndsAreSaved
  BY DEF Saved, ActorSaved, CleanEndsAreSaved, Present
<1> QED BY <1>1, SavedHolds, PTL

\* No checkpoint, rename, title or load puts anything older into the row of a session,
\* also beside an actor that was lost; only where that one was running it may.
THEOREM StoreCorrect == Spec => StoreNeverGoesBack
<1>1. Shape /\ Materialized /\ Followed /\ Saved /\ [Next]_vars =>
        [\A s \in Sessions :
            Present(s) /\ store'[s] # Absent /\ ~Contested(s) =>
                /\ store'[s].changes >= store[s].changes
                /\ store'[s].title >= store[s].title]_vars
  <2> SUFFICES ASSUME Shape, Materialized, Followed, Saved, [Next]_vars, NEW s \in Sessions, Present(s),
                      store'[s] # Absent, ~Contested(s)
               PROVE  /\ store'[s].changes >= store[s].changes
                      /\ store'[s].title >= store[s].title
    OBVIOUS
  <2>1. Effect /\ s \in created
    BY NextEffect DEF Materialized
  <2> QED BY <2>1, StoreGrows DEF Grows
<1> QED BY <1>1, ShapeHolds, MaterializedHolds, OrphansAreRefused, SavedHolds, PTL
        DEF Spec, StoreNeverGoesBack

-----------------------------------------------------------------------------
(* Connections *)

\* Who observes an actor after a step.
LEMMA EffectObservers ==
    ASSUME Shape, Effect, NEW i \in DOMAIN actors', actors'[i].state = "live"
    PROVE  \/ actors'[i].observers = {}
           \/ /\ i \in DOMAIN actors /\ Live(i) /\ actors'[i].session = actors[i].session
              /\ actors'[i].observers \subseteq actors[i].observers \cup Newcomers
<1>1. ASSUME NEW j, NEW a, Becomes(j, a), Live(j),
             a.observers \subseteq actors[j].observers \cup Newcomers
      PROVE  /\ i \in DOMAIN actors /\ Live(i) /\ actors'[i].session = actors[i].session
             /\ actors'[i].observers \subseteq actors[i].observers \cup Newcomers
  <2>1. /\ i \in DOMAIN actors /\ actors'[i].session = actors[i].session
        /\ actors'[j] = a /\ (i # j => actors'[i] = actors[i])
    BY <1>1, BecomesFacts
  <2> QED BY <1>1, <2>1 DEF Live
<1>2. ASSUME NEW j, NEW a, Ended(j, a)
      PROVE  i \in DOMAIN actors /\ actors'[i] = actors[i]
  BY <1>2, BecomesFacts DEF Ended
<1>3. CASE UNCHANGED actors
  BY <1>3 DEF Live
<1>4. ASSUME NEW j, NEW a, Watched(j, a)
      PROVE  /\ i \in DOMAIN actors /\ Live(i) /\ actors'[i].session = actors[i].session
             /\ actors'[i].observers \subseteq actors[i].observers \cup Newcomers
  <2>1. CASE i = j
    <3>1. actors'[j] = a /\ a.state = actors[j].state
      BY <1>4, BecomesFacts DEF Watched
    <3>2. Live(j)
      BY <2>1, <3>1 DEF Live
    <3> QED BY <1>1, <1>4, <3>2 DEF Watched
  <2>2. CASE i # j
    <3>1. i \in DOMAIN actors /\ actors'[i] = actors[i]
      BY <1>4, <2>2, BecomesFacts DEF Watched
    <3> QED BY <3>1 DEF Live
  <2> QED BY <2>1, <2>2
<1>5. ASSUME NEW j, NEW a, Retitled(j, a) \/ Checkpointed(j, a)
      PROVE  /\ i \in DOMAIN actors /\ Live(i) /\ actors'[i].session = actors[i].session
             /\ actors'[i].observers \subseteq actors[i].observers \cup Newcomers
  BY <1>1, <1>5 DEF Retitled, Checkpointed
<1>6. ASSUME NEW s, NEW a, Spawned(s, a)
      PROVE  actors'[i].observers = {} \/ (i \in DOMAIN actors /\ actors'[i] = actors[i])
  BY <1>6, SpawnedFacts DEF Spawned
<1> QED BY <1>2, <1>3, <1>4, <1>5, <1>6 DEF Effect, Dropped, Stored, Live

\* What the commands that are handled are; nobody sends the one that says a connection
\* has ended but Disconnect.
LEMMA KindsSent == ASSUME NEW kind \in Kinds PROVE kind \notin {"disconnect", "close", "none"}
BY ManagerAssumption

\* The manager goes on with a command, answers it, or does nothing.
LEMMA ConnectedStays ==
    ASSUME NEW c \in Connections, Connected(c), UNCHANGED <<mailbox, connections>>,
           \/ c0' = c0 /\ manager'.pc = manager.pc
           \/ c0'.kind # "disconnect" /\ manager'.pc \notin {"begin", "attach"}
           \/ /\ c0'.kind # "disconnect" /\ c0.kind # "disconnect" /\ c0'.connection = c0.connection
              /\ manager.pc \in {"begin", "attach"}
           \/ c0' = c0 /\ manager'.pc = "each"
    PROVE  Connected(c)'
BY DEF Connected

LEMMA ConnectedSend ==
    ASSUME Shape, NEW c \in Connections, Connected(c),
           NEW d \in Connections, Connected(d), connections[d] = "open",
           NEW command \in Command, command.connection = d, Sends(command),
           \/ command.kind # "disconnect" /\ UNCHANGED connections
           \/ connections' = [connections EXCEPT ![d] = "closed"]
    PROVE  Connected(c)'
<1>1. PICK l \in Nat : l = Len(mailbox)
  BY LenProperties DEF Shape, ManagerShape
<1>2. /\ Len(mailbox') = l + 1 /\ mailbox'[l + 1] = command
      /\ \A i \in 1 .. l : mailbox'[i] = mailbox[i]
      /\ UNCHANGED manager
  BY <1>1, AppendProperties DEF Sends, Shape, ManagerShape
<1>3. connections'[d] # "gone" /\ \A e \in Connections : e # d => connections'[e] = connections[e]
  BY DEF Shape, ManagerShape
<1>4. /\ \A i \in 1 .. l : ~(mailbox[i].kind = "disconnect" /\ mailbox[i].connection = d)
      /\ ~(c0.kind = "disconnect" /\ c0.connection = d)
  BY <1>1 DEF Connected
<1>5. \A i \in 1 .. l + 1 : i \in 1 .. l \/ i = l + 1
  OBVIOUS
<1>6. connections'[c] = "gone" => connections[c] = "gone" /\ c # d
  BY <1>3
<1>7. \A i \in 1 .. l + 1 : mailbox'[i].connection = c => connections'[c] # "gone"
  BY <1>1, <1>2, <1>5, <1>6 DEF Connected
<1>8. connections'[c] = "open" =>
        /\ connections[c] = "open"
        /\ command.kind = "disconnect" => c # d
  BY <1>3 DEF Shape, ManagerShape
<1>9. connections'[c] = "open" =>
        \A i \in 1 .. l + 1 : ~(mailbox'[i].kind = "disconnect" /\ mailbox'[i].connection = c)
  BY <1>1, <1>2, <1>5, <1>8 DEF Connected
<1>10. \A i, j \in 1 .. l + 1 :
        i < j /\ mailbox'[i].kind = "disconnect" /\ mailbox'[i].connection = c => mailbox'[j].connection # c
  <2> SUFFICES ASSUME NEW i \in 1 .. l + 1, NEW j \in 1 .. l + 1, i < j,
                      mailbox'[i].kind = "disconnect", mailbox'[i].connection = c
               PROVE  mailbox'[j].connection # c
    OBVIOUS
  <2>1. i \in 1 .. l
    OBVIOUS
  <2>2. CASE j \in 1 .. l
    BY <1>1, <1>2, <2>1, <2>2 DEF Connected
  <2>3. CASE j = l + 1
    BY <1>2, <1>4, <2>1, <2>3
  <2> QED BY <1>5, <2>2, <2>3
<1>11. c0' = c0 /\ manager'.pc = manager.pc
  BY <1>2 DEF c0
<1>12. c0.kind = "disconnect" /\ c0.connection = c =>
        \A i \in 1 .. l + 1 : mailbox'[i].connection # c
  BY <1>1, <1>2, <1>4, <1>5 DEF Connected
<1> QED BY <1>2, <1>6, <1>7, <1>8, <1>9, <1>10, <1>11, <1>12 DEF Connected

LEMMA ConnectedTake == ASSUME Shape, NEW c \in Connections, Connected(c), Take PROVE Connected(c)'
<1>1. PICK l \in Nat : l = Len(mailbox)
  BY LenProperties DEF Shape, ManagerShape
<1>2. /\ mailbox \in Seq(Command) /\ mailbox # << >> /\ mailbox' = Tail(mailbox)
      /\ manager' = [Idle EXCEPT !.pc = "begin", !.command = Head(mailbox)]
      /\ UNCHANGED connections
  BY DEF Shape, ManagerShape, Take
<1>3. /\ l # 0 /\ Len(mailbox') = l - 1 /\ Head(mailbox) = mailbox[1]
      /\ \A i \in 1 .. l - 1 : mailbox'[i] = mailbox[i + 1]
  BY <1>1, <1>2, HeadTailProperties, EmptySeq, LenProperties
<1>4. manager'.pc = "begin" /\ c0' = mailbox[1]
  BY <1>2, <1>3 DEF Idle, c0
<1>5. \A i \in 1 .. l - 1 : i + 1 \in 1 .. l /\ 1 \in 1 .. l /\ 1 < i + 1
  BY <1>3
<1>6. 1 \in 1 .. l
  BY <1>3
<1>7. \A i, j \in 1 .. l - 1 : i < j => i + 1 < j + 1
  OBVIOUS
<1>8. \A i, j \in 1 .. l - 1 :
        i < j /\ mailbox'[i].kind = "disconnect" /\ mailbox'[i].connection = c => mailbox'[j].connection # c
  BY <1>1, <1>3, <1>5, <1>7 DEF Connected
<1>9. mailbox[1].kind = "disconnect" /\ mailbox[1].connection = c =>
        \A i \in 1 .. l - 1 : mailbox'[i].connection # c
  BY <1>1, <1>3, <1>5 DEF Connected
<1> QED BY <1>1, <1>2, <1>3, <1>4, <1>5, <1>6, <1>8, <1>9 DEF Connected

LEMMA ConnectedEndEach == ASSUME Shape, NEW c \in Connections, Connected(c), EndEach PROVE Connected(c)'
<1>1. /\ c0'.kind # "disconnect" /\ manager'.pc \notin {"begin", "attach"}
  BY IdleFacts, CommandFacts DEF EndEach, c0, Managers
<1>2. Len(<< >>) = 0
  BY EmptySeq
<1>3. mailbox' = << >> \/ mailbox' = mailbox
  BY DEF EndEach
<1>4. connections'[c] = "open" => connections[c] = "open"
  BY DEF EndEach, Shape, ManagerShape
<1>5. ASSUME NEW i \in 1 .. Len(mailbox'), mailbox'[i].connection = c PROVE connections'[c] # "gone"
  <2>1. mailbox' = mailbox
    BY <1>2, <1>3, <1>5
  <2>2. ~(c0.kind = "disconnect" /\ c0.connection = c) /\ connections[c] # "gone"
    BY <1>5, <2>1 DEF Connected
  <2> QED BY <2>2 DEF EndEach, Shape, ManagerShape
<1>6. CASE mailbox' = << >>
  BY <1>1, <1>2, <1>6 DEF Connected
<1>7. CASE mailbox' = mailbox
  BY <1>1, <1>4, <1>5, <1>7 DEF Connected
<1> QED BY <1>3, <1>6, <1>7

\* Every step keeps the order of a connection's commands and its end.
LEMMA NextConnected ==
    ASSUME Shape, \A c \in Connections : Connected(c), [Next]_vars, NEW c \in Connections
    PROVE  Connected(c)'
<1>1. CASE Take
  BY <1>1, ConnectedTake
<1>2. CASE EndEach
  BY <1>2, ConnectedEndEach
<1>3. ASSUME NEW kind \in Kinds, NEW s \in Sessions, NEW d \in Connections, Send(kind, s, d)
      PROVE  Connected(c)'
  <2>1. PICK command \in Command : command = [kind |-> kind, session |-> s, connection |-> d]
    BY DEF Command
  <2>2. command.connection = d /\ command.kind # "disconnect"
    BY <2>1, KindsSent
  <2>3. Sends(command) /\ UNCHANGED connections /\ connections[d] = "open"
    BY <1>3, <2>1 DEF Send
  <2> QED BY <2>2, <2>3, ConnectedSend
<1>4. ASSUME NEW d \in Connections, Disconnect(d) PROVE Connected(c)'
  <2>1. PICK command \in Command :
            command = [NoCommand EXCEPT !.kind = "disconnect", !.connection = d]
    BY IdleFacts DEF Command
  <2>2. command.connection = d
    BY <2>1, IdleFacts DEF Command
  <2>3. /\ Sends(command) /\ connections[d] = "open"
        /\ connections' = [connections EXCEPT ![d] = "closed"]
    BY <1>4, <2>1 DEF Disconnect
  <2> QED BY <2>2, <2>3, ConnectedSend
<1>5. Connected(c)
  OBVIOUS
<1>6. CASE UNCHANGED <<mailbox, connections>> /\ UNCHANGED manager
  <2>1. c0' = c0 /\ manager'.pc = manager.pc
    BY <1>6 DEF c0
  <2> QED BY <1>5, <1>6, <2>1, ConnectedStays
<1>7. CASE UNCHANGED <<mailbox, connections>> /\ manager' = Idle
  <2>1. c0'.kind # "disconnect" /\ manager'.pc = "idle"
    BY <1>7, IdleFacts DEF c0
  <2> QED BY <1>5, <1>7, <2>1, ConnectedStays
<1>8. ASSUME NEW pc \in {"attach", "erase", "finish", "abort", "titles"}, GoOn(pc),
             UNCHANGED <<mailbox, connections>>, c0.kind # "disconnect",
             pc # "attach" \/ manager.pc = "begin"
      PROVE  Connected(c)'
  <2>1. c0' = c0 /\ manager'.pc = pc
    BY <1>8, GoesOn
  <2> QED BY <1>5, <1>8, <2>1, ConnectedStays
<1>9. CASE MailboxCloses
  <2>1. c0'.kind # "disconnect" /\ manager'.pc = "titles"
    BY <1>9, IdleFacts DEF MailboxCloses, c0, Idle, Managers, Command
  <2> QED BY <1>5, <1>9, <2>1, ConnectedStays DEF MailboxCloses
<1>10. CASE Startup
  <2>1. CASE Answer
    BY <1>7, <1>10, <2>1 DEF Startup, Answer
  <2>2. CASE \E s \in Sessions : manager' = [manager EXCEPT !.pc = "attach", !.command.session = s]
    <3>1. /\ c0.kind = "startup" /\ manager.pc = "begin"
          /\ UNCHANGED <<mailbox, connections>>
      BY <1>10 DEF Startup, Handles
    <3>2. c0'.kind = c0.kind /\ c0'.connection = c0.connection
      BY <2>2, CommandFacts DEF Managers, Command, c0
    <3> QED BY <1>5, <3>1, <3>2, ConnectedStays
  <2> QED BY <1>10, <2>1, <2>2 DEF Startup, Registered
<1>11. CASE Each
  <2>1. c0' = c0 /\ manager'.pc = "each" /\ UNCHANGED <<mailbox, connections>>
    BY <1>11, CommandFacts DEF Each, c0, Managers
  <2> QED BY <1>5, <2>1, ConnectedStays
<1>12. ASSUME NEW s, NEW ok, Asked(s, ok), UNCHANGED <<mailbox, connections>> PROVE Connected(c)'
  <2>1. c0' = c0 /\ manager'.pc = manager.pc
    BY <1>12, CommandFacts DEF Asked, c0, Managers
  <2> QED BY <1>5, <1>12, <2>1, ConnectedStays
<1>13. ASSUME Attach \/ MaterializeFails \/ Finish \/ Abort \/ Detach PROVE Connected(c)'
  BY <1>7, <1>13 DEF Attach, MaterializeFails, Finish, Abort, EndActor, Detach, Answer
<1>14. CASE OpenRegistered \/ DrainTitles
  BY <1>8, <1>14 DEF OpenRegistered, DrainTitles, Handles
<1>15. ASSUME NEW loads \in BOOLEAN, NEW ok \in BOOLEAN,
              Open(loads, ok) \/ Materialize(ok) \/ Rename(ok) \/ DeleteStored(ok)
       PROVE  Connected(c)'
  <2>1. UNCHANGED <<mailbox, connections>>
    BY <1>15 DEF Open, Materialize, Rename, DeleteStored
  <2>2. \/ manager' = Idle
        \/ GoOn("attach") /\ c0.kind # "disconnect" /\ manager.pc = "begin"
    BY <1>15 DEF Open, Materialize, Rename, DeleteStored, Handles, Answer
  <2> QED BY <1>7, <1>8, <2>1, <2>2
<1>16. ASSUME NEW ok \in BOOLEAN, NEW saved \in BOOLEAN, Erase(ok) \/ PrepareDelete(ok, saved)
       PROVE  Connected(c)'
  <2>1. UNCHANGED <<mailbox, connections>> /\ (GoOn("erase") \/ GoOn("finish") \/ GoOn("abort"))
    BY <1>16 DEF Erase, PrepareDelete
  <2>2. c0.kind # "disconnect"
    <3>1. CASE Erase(ok)
      <4>1. manager.pc = "erase"
        BY <3>1 DEF Erase
      <4>2. \E d \in Connections : d = c0.connection
        BY CommandFacts
      <4> QED BY <4>1, <4>2 DEF Connected
    <3>2. CASE PrepareDelete(ok, saved)
      BY <3>2 DEF PrepareDelete, Handles
    <3> QED BY <1>16, <3>1, <3>2
  <2> QED BY <1>8, <2>1, <2>2
<1>17. ASSUME NEW s \in Sessions, NEW ok \in BOOLEAN, NEW jobs \in BOOLEAN,
              RouteTitle(s) \/ DetachFrom(s) \/ FlushActor(s, ok) \/ StopActor(s, ok, jobs)
       PROVE  Connected(c)'
  <2>1. UNCHANGED <<mailbox, connections>>
    BY <1>17 DEF RouteTitle, DetachFrom, FlushActor, StopActor
  <2>2. UNCHANGED manager \/ \E answer : Asked(s, answer)
    BY <1>17 DEF RouteTitle, DetachFrom, FlushActor, StopActor
  <2> QED BY <1>6, <1>12, <2>1, <2>2
<1>18. ASSUME NEW i \in DOMAIN actors, NEW running \in BOOLEAN, NEW saved \in BOOLEAN,
              Run(i, running, saved) \/ Panic(i) \/ Unheard(i)
       PROVE  Connected(c)'
  BY <1>6, <1>18 DEF Run, Panic, Unheard
<1>19. CASE UNCHANGED vars
  BY <1>6, <1>19 DEF vars
<1>20. TRUE \in BOOLEAN
  OBVIOUS
<1> QED BY <1>1, <1>2, <1>3, <1>4, <1>9, <1>10, <1>11, <1>13, <1>14, <1>15, <1>16, <1>17, <1>18, <1>19,
           <1>20 DEF Next, Handle

\* What an actor still serves, while the round of a detachment does not begin or go on.
LEMMA ForgottenStays ==
    ASSUME Shape, Effect, \A c \in Connections : Connected(c), Forgotten,
           \A c \in Connections : connections'[c] = "gone" => connections[c] = "gone",
           \/ manager'.pc # "each" \/ c0'.kind # "disconnect"
           \/ UNCHANGED manager
    PROVE  Forgotten'
<1> SUFFICES ASSUME NEW i \in DOMAIN actors', NEW c \in Connections, actors'[i].state = "live",
                    ~\E o \in orphans' : o.actor = i
             PROVE  /\ connections'[c] = "gone" => c \notin actors'[i].observers
                    /\ /\ manager'.pc = "each" /\ c0'.kind = "disconnect" /\ c0'.connection = c
                       /\ actors'[i].session \notin manager'.todo
                       => c \notin actors'[i].observers
  BY DEF Forgotten, Live, Lost
<1>1. CASE actors'[i].observers = {}
  BY <1>1
<1>2. CASE /\ i \in DOMAIN actors /\ Live(i) /\ actors'[i].session = actors[i].session
           /\ actors'[i].observers \subseteq actors[i].observers \cup Newcomers
  <2>0. ~Lost(i)
    BY LostStays DEF Lost
  <2>1. connections[c] = "gone" => c \notin actors[i].observers /\ c \notin Newcomers
    BY <1>2, <2>0 DEF Forgotten, Connected, Newcomers
  <2>2. ASSUME manager'.pc = "each", c0'.kind = "disconnect", c0'.connection = c,
               actors'[i].session \notin manager'.todo
        PROVE  c \notin actors'[i].observers
    <3>1. UNCHANGED manager /\ c0' = c0
      BY <2>2 DEF c0
    <3>2. c \notin actors[i].observers /\ Newcomers = {}
      BY <1>2, <2>0, <2>2, <3>1 DEF Forgotten, Newcomers
    <3> QED BY <1>2, <3>2
  <2> QED BY <1>2, <2>1, <2>2
<1> QED BY <1>1, <1>2, EffectObservers

\* The round begins with every registered actor.
LEMMA ForgottenEach == ASSUME Shape, Followed, Forgotten, Each PROVE Forgotten'
<1>1. UNCHANGED <<actors, orphans, connections>> /\ manager'.todo = Registered
  BY CommandFacts DEF Each, Managers
<1>2. \A i \in DOMAIN actors : Live(i) /\ ~Lost(i) => actors[i].session \in Registered
  BY OneLive
<1> QED BY <1>1, <1>2 DEF Forgotten, Live, Lost

\* One more actor has forgotten the connection.
LEMMA ForgottenDetached ==
    ASSUME Shape, Followed, Forgotten, NEW s \in Sessions, DetachFrom(s) PROVE Forgotten'
<1>1. /\ manager.pc = "each" /\ c0.kind = "disconnect" /\ s \in Registered
      /\ UNCHANGED <<registry, orphans, connections>>
      /\ actors' = [actors EXCEPT ![registry[s]].observers = @ \ {c0.connection}]
  BY DEF DetachFrom, Asks, Shape, ManagerAims
<1>2. c0' = c0 /\ manager'.pc = "each" /\ manager'.todo = manager.todo \ {s}
  BY <1>1, CommandFacts DEF DetachFrom, Asked, Managers, c0
<1>3. registry[s] \in DOMAIN actors /\ actors[registry[s]] \in ActorShape
  BY <1>1, HandleFacts
<1> DEFINE o == actors[registry[s]].observers \ {c0.connection}
           a == [actors[registry[s]] EXCEPT !.observers = o]
<1>4. a.observers = o /\ a.session = actors[registry[s]].session /\ a.state = actors[registry[s]].state
  <2> HIDE DEF o
  <2>1. o \in SUBSET Connections
    BY <1>3, ActorFields DEF o
  <2> QED BY <1>3, <2>1, ObserversOf
<1>5. DOMAIN actors' = DOMAIN actors /\ actors' = [actors EXCEPT ![registry[s]] = a]
  BY <1>1, <1>3
<1> HIDE DEF a
<1>6. ASSUME NEW i \in DOMAIN actors
      PROVE  /\ actors'[i].session = actors[i].session /\ actors'[i].state = actors[i].state
             /\ actors'[i].observers \subseteq actors[i].observers
             /\ i = registry[s] => c0.connection \notin actors'[i].observers
  <2>1. CASE i = registry[s]
    BY <1>3, <1>4, <1>5, <2>1
  <2>2. CASE i # registry[s]
    BY <1>5, <2>2
  <2> QED BY <2>1, <2>2
<1>7. \A i \in DOMAIN actors : Live(i) /\ ~Lost(i) /\ actors[i].session = s => i = registry[s]
  BY DEF Followed
<1> QED BY <1>1, <1>2, <1>5, <1>6, <1>7 DEF Forgotten, Live, Lost

\* Everybody was asked.
LEMMA ForgottenEndEach == ASSUME Shape, Forgotten, EndEach PROVE Forgotten'
<1>1. /\ manager.pc = "each" /\ manager.todo = {} /\ UNCHANGED <<actors, orphans>> /\ manager'.pc # "each"
  BY IdleFacts, CommandFacts DEF EndEach, Managers
<1>2. ASSUME NEW c \in Connections, connections'[c] = "gone"
      PROVE  connections[c] = "gone" \/ (c0.kind = "disconnect" /\ c0.connection = c)
  BY <1>2 DEF EndEach, Shape, ManagerShape
<1>3. ASSUME NEW i \in DOMAIN actors, NEW c \in Connections, Live(i), ~Lost(i),
             connections'[c] = "gone"
      PROVE  c \notin actors[i].observers
  BY <1>1, <1>2, <1>3 DEF Forgotten
<1> QED BY <1>1, <1>3 DEF Forgotten, Live, Lost

\* Every step keeps it.
LEMMA NextForgotten ==
    ASSUME Shape, Followed, Connects, [Next]_vars PROVE Forgotten'
<1>1. Effect /\ Forgotten /\ \A c \in Connections : Connected(c)
  BY NextEffect DEF Connects
<1>2. CASE Each
  BY <1>1, <1>2, ForgottenEach
<1>3. ASSUME NEW s \in Sessions, DetachFrom(s) PROVE Forgotten'
  BY <1>1, <1>3, ForgottenDetached
<1>4. CASE EndEach
  BY <1>1, <1>4, ForgottenEndEach
<1>5. CASE UNCHANGED <<manager, connections>>
  BY <1>1, <1>5, ForgottenStays
<1>6. CASE UNCHANGED connections /\ (manager'.pc # "each" \/ c0'.kind # "disconnect")
  BY <1>1, <1>6, ForgottenStays
<1>7. CASE Take \/ MailboxCloses \/ Startup
  <2>1. UNCHANGED connections /\ manager'.pc # "each"
    BY <1>7, IdleFacts, CommandFacts DEF Take, MailboxCloses, Startup, Idle, Answer, Managers
  <2> QED BY <1>6, <2>1
<1>8. ASSUME NEW kind \in Kinds, NEW s \in Sessions, NEW d \in Connections, Send(kind, s, d)
      PROVE  Forgotten'
  BY <1>5, <1>8 DEF Send, Sends
<1>9. ASSUME NEW d \in Connections, Disconnect(d) PROVE Forgotten'
  <2>1. /\ UNCHANGED manager /\ connections' = [connections EXCEPT ![d] = "closed"]
    BY <1>9 DEF Disconnect, Sends
  <2>2. \A c \in Connections : connections'[c] = "gone" => connections[c] = "gone"
    BY <2>1 DEF Shape, ManagerShape
  <2> QED BY <1>1, <2>1, <2>2, ForgottenStays
<1>10. ASSUME NEW pc \in {"attach", "erase", "finish", "abort", "titles"}, GoOn(pc)
       PROVE  manager'.pc # "each"
  BY <1>10, GoesOn
<1>11. CASE OpenRegistered \/ Attach \/ MaterializeFails \/ Finish \/ Abort \/ Detach \/ DrainTitles
  <2>1. UNCHANGED connections /\ manager'.pc # "each"
    BY <1>10, <1>11, IdleFacts
       DEF OpenRegistered, Attach, MaterializeFails, Finish, Abort, EndActor, Detach, DrainTitles, Answer
  <2> QED BY <1>6, <2>1
<1>12. ASSUME NEW ok \in BOOLEAN, NEW saved \in BOOLEAN,
              Open(saved, ok) \/ Materialize(ok) \/ Rename(ok) \/ DeleteStored(ok) \/ Erase(ok)
              \/ PrepareDelete(ok, saved)
       PROVE  Forgotten'
  <2>1. UNCHANGED connections /\ manager'.pc # "each"
    BY <1>10, <1>12, IdleFacts
       DEF Open, Materialize, Rename, DeleteStored, Erase, PrepareDelete, Answer
  <2> QED BY <1>6, <2>1
<1>13. ASSUME NEW s \in Sessions, NEW ok \in BOOLEAN, NEW jobs \in BOOLEAN,
              FlushActor(s, ok) \/ StopActor(s, ok, jobs)
       PROVE  Forgotten'
  <2>1. UNCHANGED connections /\ c0.kind # "disconnect" /\ \E answer : Asked(s, answer)
    BY <1>13 DEF FlushActor, StopActor, Asks
  <2>2. c0' = c0
    BY <2>1, CommandFacts DEF Asked, Managers, c0
  <2> QED BY <1>6, <2>1, <2>2
<1>14. ASSUME NEW s \in Sessions, RouteTitle(s) PROVE Forgotten'
  BY <1>5, <1>14 DEF RouteTitle
<1>15. ASSUME NEW i \in DOMAIN actors, NEW running \in BOOLEAN, NEW saved \in BOOLEAN,
              Run(i, running, saved) \/ Panic(i) \/ Unheard(i)
       PROVE  Forgotten'
  BY <1>5, <1>15 DEF Run, Panic, Unheard
<1>16. CASE UNCHANGED vars
  BY <1>5, <1>16 DEF vars
<1>17. TRUE \in BOOLEAN
  OBVIOUS
<1> QED BY <1>2, <1>3, <1>4, <1>7, <1>8, <1>9, <1>11, <1>12, <1>13, <1>14, <1>15, <1>16, <1>17
        DEF Next, Handle

\* The commands of a connection are handled before its end, and every actor that the
\* manager has not lost hears of that.
THEOREM ConnectsHolds == Spec => []Connects
<1>1. Init => Connects
  <2> SUFFICES ASSUME Init PROVE Connects
    OBVIOUS
  <2>1. /\ DOMAIN actors = {} /\ Len(mailbox) = 0 /\ manager = Idle
        /\ \A c \in Connections : connections[c] = "open"
    BY EmptySeq DEF Init
  <2>2. c0.kind # "disconnect" /\ manager.pc = "idle"
    BY <2>1, IdleFacts DEF c0
  <2> QED BY <2>1, <2>2 DEF Connects, Connected, Forgotten
<1>2. Shape /\ Followed /\ Connects /\ [Next]_vars => Connects'
  <2> SUFFICES ASSUME Shape, Followed, Connects, [Next]_vars PROVE Connects'
    OBVIOUS
  <2>1. \A c \in Connections : Connected(c)'
    BY NextConnected DEF Connects
  <2>2. Forgotten'
    BY NextForgotten
  <2> QED BY <2>1, <2>2 DEF Connects
<1> QED BY <1>1, <1>2, ShapeHolds, OrphansAreRefused, PTL DEF Spec

\* No live actor, but one that a refused deletion has lost, serves a connection whose
\* detachment was handled, whoever panicked before.
THEOREM ForgottenCorrect == Spec => []ClosedConnectionsAreForgotten
<1>1. Connects => ClosedConnectionsAreForgotten
  BY DEF Connects, Forgotten, Lost, ClosedConnectionsAreForgotten
<1> QED BY <1>1, ConnectsHolds, PTL
=============================================================================
