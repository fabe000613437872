------------------------- MODULE SessionActorProofs -------------------------
(***************************************************************************)
(* Theorems about SessionActor for every value of its constants.           *)
(*                                                                         *)
(* First lemmas about the operators of SessionRecord, then the types of    *)
(* the actor's state, its safety, the records it stores and the views of   *)
(* its clients.  Each part adds an inductive invariant to the ones before: *)
(* - SafetyInv: the harness, the projection and the record of a live actor *)
(*   agree on its run, the projection shows the record, and the record is  *)
(*   stored or waits in dirty;                                             *)
(* - RecordInv: the turns of every record explain its transcript and its   *)
(*   history, and the stored record is a beginning of the live one;        *)
(* - ViewsInv: a client that drains its queue goes through views that it   *)
(*   accepts, up to the projection if it is registered.                    *)
(***************************************************************************)
EXTENDS SessionActor, FiniteSetTheorems, SequenceTheorems, WellFoundedInduction, TLAPS

-----------------------------------------------------------------------------
(***************************************************************************)
(* Numbers.                                                                *)
(***************************************************************************)

\* Every non-empty set of naturals has a least element: the first running turn
\* that running_turn_mut looks for exists.  The library's principle takes an
\* operator; the well-foundedness of strict inclusion does not.
LEMMA LeastElement ==
    ASSUME NEW S \in SUBSET Nat, S # {}
    PROVE  \E m \in S : \A k \in S : m <= k
<1> DEFINE D == {1 .. k : k \in S}
<1>1. D \subseteq FiniteSubsetsOf(Nat) /\ D # {}
  <2>1. ASSUME NEW k \in S PROVE 1 .. k \in FiniteSubsetsOf(Nat)
    <3>1. 1 \in Int /\ k \in Int /\ 1 .. k \in SUBSET Nat
      OBVIOUS
    <3>2. IsFiniteSet(1 .. k)
      BY <3>1, FS_Interval
    <3> QED BY <3>1, <3>2 DEF FiniteSubsetsOf
  <2> QED BY <2>1
<1>2. PICK x \in D : \A y \in D : ~(<<y, x>> \in StrictSubsetOrdering(Nat))
  BY <1>1, FS_StrictSubsetOrderingWellFounded, WFMin
<1>3. PICK m \in S : x = 1 .. m
  BY <1>2
<1>4. ASSUME NEW k \in S PROVE m <= k
  <2>1. ~(1 .. k \subseteq 1 .. m /\ 1 .. k # 1 .. m)
    <3>1. <<1 .. k, 1 .. m>> \notin StrictSubsetOrdering(Nat)
      BY <1>2, <1>3
    <3>2. 1 .. k \in SUBSET Nat /\ 1 .. m \in SUBSET Nat
      OBVIOUS
    <3> HIDE DEF D
    <3> QED BY <3>1, <3>2 DEF StrictSubsetOrdering
  <2>2. k < m => (1 .. k \subseteq 1 .. m) /\ m \in 1 .. m /\ m \notin 1 .. k
    OBVIOUS
  <2> QED BY <2>1, <2>2
<1> QED BY <1>4

\* The elements of a finite set of positive numbers can be counted in order,
\* as load_sync does with the running turns.
LEMMA NthElement ==
    ASSUME NEW S \in SUBSET Nat, IsFiniteSet(S), NEW L \in Nat,
           \A j \in S : 1 <= j /\ j <= L,
           NEW n \in Nat, 1 <= n, n <= Cardinality(S)
    PROVE  \E i \in S : Cardinality({j \in S : j <= i}) = n
<1> DEFINE U(k) == {j \in S : j <= k}
           T == {k \in Nat : Cardinality(U(k)) >= n}
<1>2. Cardinality(S) \in Nat
  BY FS_CardinalityType
<1>3. ASSUME NEW k \in Nat PROVE IsFiniteSet(U(k)) /\ Cardinality(U(k)) \in Nat
  BY FS_Subset, FS_CardinalityType
<1>4. U(L) = S
  OBVIOUS
<1>5. Cardinality(U(0)) = 0
  <2>1. \A j \in S : ~(j <= 0)
    OBVIOUS
  <2>2. U(0) = {}
    BY <2>1, Zenon
  <2> QED BY <2>2, FS_EmptySet
<1>6. PICK m \in Nat : m \in T /\ \A k \in T : m <= k
  <2>1. L \in T /\ T \in SUBSET Nat
    BY <1>2, <1>4
  <2> HIDE DEF T
  <2> QED BY <2>1, LeastElement
<1>7. m - 1 \in Nat /\ Cardinality(U(m)) >= n
  BY <1>5, <1>6
<1>8. Cardinality(U(m - 1)) < n
  <2>1. m - 1 \notin T
    <3> HIDE DEF T
    <3> QED BY <1>6, <1>7
  <2>2. ~(Cardinality(U(m - 1)) >= n)
    BY <2>1, <1>7
  <2> HIDE DEF U
  <2> QED BY <2>2, <1>3, <1>7
<1>9. m \in S
  <2>1. SUFFICES ASSUME m \notin S PROVE U(m) = U(m - 1)
    BY <1>3, <1>7, <1>8
  <2>2. \A j \in S : j <= m <=> j <= m - 1
    BY <1>7, <2>1
  <2> QED BY <2>2, Zenon
<1>10. Cardinality(U(m)) = Cardinality(U(m - 1)) + 1
  <2>1. U(m) = U(m - 1) \cup {m} /\ m \notin U(m - 1)
    <3>1. \A j \in S : j <= m <=> (j <= m - 1 \/ j = m)
      BY <1>7
    <3>2. ~(m <= m - 1)
      BY <1>7
    <3> QED BY <3>1, <3>2, <1>9, Zenon
  <2>2. IsFiniteSet(U(m - 1))
    BY <1>3, <1>7
  <2> HIDE DEF U
  <2> QED BY <2>1, <2>2, FS_AddElement
<1>11. Cardinality(U(m)) = n
  <2> HIDE DEF U
  <2> QED BY <1>3, <1>7, <1>8, <1>10
<1> QED BY <1>9, <1>11

-----------------------------------------------------------------------------
(***************************************************************************)
(* Records.                                                                *)
(***************************************************************************)

\* running_turn_mut finds a running turn of the run whenever there is one.
LEMMA RunningTurnExists ==
    ASSUME NEW rec \in Record, NEW r, RunningTurnsOf(rec, r) # {}
    PROVE  RunningTurn(rec, r) \in RunningTurnsOf(rec, r)
<1>1. RunningTurnsOf(rec, r) \in SUBSET Nat
  BY DEF RunningTurnsOf, RunningTurns, Record
<1>2. \E i \in RunningTurnsOf(rec, r) : \A j \in RunningTurnsOf(rec, r) : i <= j
  BY <1>1, LeastElement
<1> QED BY <1>2 DEF RunningTurn

\* The running turns of a record are finitely many.
LEMMA RunningTurnsFinite ==
    ASSUME NEW rec \in Record
    PROVE  IsFiniteSet(RunningTurns(rec)) /\ Cardinality(RunningTurns(rec)) \in Nat
<1>1. RunningTurns(rec) \subseteq 1 .. Len(rec.turns) /\ Len(rec.turns) \in Nat
  BY DEF RunningTurns, Record
<1>2. IsFiniteSet(1 .. Len(rec.turns))
  BY <1>1, FS_Interval
<1> QED BY <1>1, <1>2, FS_Subset, FS_CardinalityType

\* load_sync finds every running turn.
LEMMA NthRunningExists ==
    ASSUME NEW rec \in Record, NEW n \in 1 .. Cardinality(RunningTurns(rec))
    PROVE  NthRunning(rec, n) \in RunningTurns(rec)
<1> DEFINE S == RunningTurns(rec)
           L == Len(rec.turns)
<1>1. L \in Nat /\ S \in SUBSET (1 .. L)
  BY DEF RunningTurns, Record
<1>2. IsFiniteSet(S) /\ Cardinality(S) \in Nat
  BY RunningTurnsFinite
<1>3. S \in SUBSET Nat /\ \A j \in S : 1 <= j /\ j <= L
  BY <1>1
<1>4. n \in Nat /\ 1 <= n /\ n <= Cardinality(S)
  BY <1>2
<1> HIDE DEF S, L
<1>5. \E i \in S : Cardinality({j \in S : j <= i}) = n
  BY <1>1, <1>2, <1>3, <1>4, NthElement
<1> QED BY <1>5 DEF NthRunning, S

\* Loading a session keeps its type and leaves no turn running.
LEMMA InterruptedType ==
    ASSUME NEW rec \in Record
    PROVE  Interrupted(rec) \in Record /\ RunningTurns(Interrupted(rec)) = {}
<1> DEFINE S == RunningTurns(rec)
           turns == [i \in DOMAIN rec.turns |->
                        IF i \in S THEN [rec.turns[i] EXCEPT !.status = "interrupted"]
                                   ELSE rec.turns[i]]
           failure(n) == [kind |-> "failed", run |-> rec.turns[NthRunning(rec, n)].run,
                          failure |-> "interrupted"]
           failures == [n \in 1 .. Cardinality(S) |-> failure(n)]
<1>1. Interrupted(rec) = [rec EXCEPT !.turns = turns, !.transcript = rec.transcript \o failures]
  BY DEF Interrupted
<1>2. turns \in Seq(DurableTurn)
  <2>1. rec.turns \in Seq(DurableTurn)
    BY DEF Record
  <2>2. ASSUME NEW t \in DurableTurn PROVE [t EXCEPT !.status = "interrupted"] \in DurableTurn
    BY DEF DurableTurn, TurnStatus
  <2>3. Len(rec.turns) \in Nat /\ DOMAIN rec.turns = 1 .. Len(rec.turns)
        /\ \A i \in 1 .. Len(rec.turns) : rec.turns[i] \in DurableTurn
    BY <2>1
  <2>4. \A i \in 1 .. Len(rec.turns) : turns[i] \in DurableTurn
    BY <2>2, <2>3
  <2>5. turns = [i \in 1 .. Len(rec.turns) |-> turns[i]]
    BY <2>3
  <2> HIDE DEF turns
  <2> QED BY <2>3, <2>4, <2>5, IsASeq
<1>3. failures \in Seq(TranscriptItem)
  <2>1. Cardinality(S) \in Nat
    BY RunningTurnsFinite
  <2>2. ASSUME NEW n \in 1 .. Cardinality(S) PROVE failure(n) \in TranscriptItem
    <3>1. NthRunning(rec, n) \in DOMAIN rec.turns
      BY NthRunningExists DEF RunningTurns
    <3>2. rec.turns[NthRunning(rec, n)].run \in Nat
      <4>1. rec.turns[NthRunning(rec, n)] \in DurableTurn
        BY <3>1 DEF Record
      <4> QED BY <4>1 DEF DurableTurn
    <3>3. failure(n).run = rec.turns[NthRunning(rec, n)].run
          /\ failure(n) = [kind |-> "failed", run |-> failure(n).run, failure |-> "interrupted"]
      OBVIOUS
    <3> HIDE DEF failure
    <3> QED BY <3>2, <3>3 DEF TranscriptItem, Failures
  <2> HIDE DEF S, failure
  <2> QED BY <2>1, <2>2, IsASeq
<1>4. \A i \in DOMAIN turns : turns[i].status # "running"
  BY DEF RunningTurns, Record, DurableTurn
<1> HIDE DEF turns, failures
<1>5. Interrupted(rec) \in Record /\ Interrupted(rec).turns = turns
  <2>1. rec.transcript \o failures \in Seq(TranscriptItem)
    BY <1>3 DEF Record
  <2> QED BY <1>1, <1>2, <2>1 DEF Record
<1> QED BY <1>4, <1>5 DEF RunningTurns

\* The store writes records, and a title update leaves the rest alone.
LEMMA StoredTypes ==
    /\ \A p \in Prompts, s \in Settings, t \in Titles :
            Materialized(p, s, t) \in Record /\ FailedStart(Materialized(p, s, t)) \in Record
    /\ \A stored, rec \in Record : WithMetadata(stored, rec) \in Record
    /\ \A rec \in Record, t \in Titles, source \in {"generated", "manual"} :
            /\ Retitled(rec, t, source) \in Record
            /\ Retitled(rec, t, source).title \in Title
            /\ Retitled(rec, t, source) = [rec EXCEPT !.title = Retitled(rec, t, source).title]
<1>1. ASSUME NEW p \in Prompts, NEW s \in Settings, NEW t \in Titles
      PROVE  /\ Materialized(p, s, t) \in Record
             /\ FailedStart(Materialized(p, s, t)) \in Record
  <2> DEFINE title == [text |-> t, source |-> "fallback", revision |-> 0]
             item == [kind |-> "user", text |-> p]
             failed == [kind |-> "failed", run |-> 0, failure |-> "startup"]
             turn(status) == [run |-> 0, prompt_position |-> 0, status |-> status]
  <2>1. title \in Title /\ item \in TranscriptItem /\ failed \in TranscriptItem
    BY DEF Title, TranscriptItem, Failures
  <2>2. turn("running") \in DurableTurn /\ turn("failed") \in DurableTurn
    BY DEF DurableTurn, TurnStatus
  <2>3. Materialized(p, s, t) = [title |-> title, settings |-> s, transcript |-> <<item>>,
                                 turns |-> <<turn("running")>>, history |-> <<>>,
                                 plan |-> EmptyPlan]
    BY DEF Materialized
  <2>4. <<item>> \in Seq(TranscriptItem) /\ <<item, failed>> \in Seq(TranscriptItem)
        /\ <<turn("running")>> \in Seq(DurableTurn) /\ <<turn("failed")>> \in Seq(DurableTurn)
        /\ <<>> \in Seq(Message) /\ <<item>>[1] = item
    <3> HIDE DEF title, item, failed, turn
    <3> QED BY <2>1, <2>2
  <2>5. EmptyPlan \in Plans
    BY RecordAssumption
  <2> DEFINE rec == Materialized(p, s, t)
  <2>6. FailedStart(rec) = [rec EXCEPT !.transcript = <<rec.transcript[1], failed>>,
                                       !.turns = <<turn("failed")>>, !.history = <<>>]
    BY DEF FailedStart
  <2> HIDE DEF title, item, failed, turn
  <2>7. rec \in Record
    BY <2>1, <2>3, <2>4, <2>5 DEF Record
  <2>8. rec.transcript[1] = item
    BY <2>3, <2>4
  <2> HIDE DEF rec
  <2>9. FailedStart(rec) \in Record
    BY <2>4, <2>6, <2>7, <2>8 DEF Record
  <2> QED BY <2>7, <2>9 DEF rec
<1>2. ASSUME NEW stored \in Record, NEW rec \in Record PROVE WithMetadata(stored, rec) \in Record
  BY DEF WithMetadata, Record
<1>3. ASSUME NEW rec \in Record, NEW t \in Titles, NEW source \in {"generated", "manual"}
      PROVE  /\ Retitled(rec, t, source) \in Record
             /\ Retitled(rec, t, source).title \in Title
             /\ Retitled(rec, t, source) = [rec EXCEPT !.title = Retitled(rec, t, source).title]
  <2> DEFINE title == [text |-> t, source |-> source, revision |-> rec.title.revision + 1]
  <2>1. Retitled(rec, t, source) = [rec EXCEPT !.title = title]
    BY DEF Retitled
  <2>2. title \in Title
    BY DEF Title, Record
  <2> HIDE DEF title
  <2> QED BY <2>1, <2>2 DEF Record
<1> QED BY <1>1, <1>2, <1>3

-----------------------------------------------------------------------------
(***************************************************************************)
(* Events.                                                                 *)
(***************************************************************************)
VisibleTypes == {"Started", "ToolStarted", "Completed", "Failed", "Cancelled"}
EndTypes == {"Completed", "Failed", "Cancelled"}

\* An event that changes the transcript adds one item to it.
LEMMA ItemType ==
    ASSUME NEW ev \in SessionEvent, ev.type \in VisibleTypes
    PROVE  ItemOf(ev) \in TranscriptItem
BY DEF SessionEvent, VisibleTypes, ItemOf, TranscriptItem, Failures

\* apply_durable_event keeps a record a record: it adds the event's item, and
\* only the running turn of the event's run changes.
LEMMA DurableEventType ==
    ASSUME NEW rec \in Record, NEW ev \in SessionEvent, DurableApplies(rec, ev)
    PROVE  ApplyDurableEvent(rec, ev) \in Record
<1>1. rec.transcript \in Seq(TranscriptItem) /\ rec.turns \in Seq(DurableTurn)
      /\ Len(rec.transcript) \in Nat
  BY DEF Record
<1> DEFINE transcript == Append(rec.transcript, ItemOf(ev))
<1>2. ev.type \in VisibleTypes => transcript \in Seq(TranscriptItem)
  BY <1>1, ItemType, AppendProperties
<1>3. CASE ev.type = "Started"
  <2> DEFINE turn == [run |-> ev.run, prompt_position |-> Len(rec.transcript),
                      status |-> "running"]
             turns == Append(rec.turns, turn)
  <2>1. turns \in Seq(DurableTurn)
    <3>1. turn \in DurableTurn
      BY <1>1, <1>3 DEF SessionEvent, DurableTurn, TurnStatus
    <3> HIDE DEF turn
    <3> QED BY <1>1, <3>1, AppendProperties
  <2>2. ApplyDurableEvent(rec, ev) = [rec EXCEPT !.transcript = transcript, !.turns = turns]
    BY <1>3 DEF ApplyDurableEvent
  <2>3. transcript \in Seq(TranscriptItem)
    BY <1>2, <1>3 DEF VisibleTypes
  <2> HIDE DEF turns, transcript
  <2> QED BY <2>1, <2>2, <2>3 DEF Record
<1>4. CASE ev.type = "ToolStarted"
  <2>1. ApplyDurableEvent(rec, ev) = [rec EXCEPT !.transcript = transcript]
    BY <1>4 DEF ApplyDurableEvent
  <2>2. transcript \in Seq(TranscriptItem)
    BY <1>2, <1>4 DEF VisibleTypes
  <2> HIDE DEF transcript
  <2> QED BY <2>1, <2>2 DEF Record
<1>5. CASE ev.type \in EndTypes
  <2> DEFINE i == RunningTurn(rec, ev.run)
             turn == [rec.turns[i] EXCEPT !.status = OutcomeOf(ev)]
             turns == [rec.turns EXCEPT ![i] = turn]
  <2>1. i \in DOMAIN rec.turns
    <3>1. RunningTurnsOf(rec, ev.run) # {}
      BY <1>5 DEF DurableApplies, EndTypes
    <3> QED BY <3>1, RunningTurnExists DEF RunningTurnsOf, RunningTurns
  <2>2. turns \in Seq(DurableTurn)
    <3>1. rec.turns[i] \in DurableTurn
      BY <1>1, <2>1
    <3>2. turn \in DurableTurn
      BY <3>1, <1>5 DEF DurableTurn, TurnStatus, OutcomeOf, EndTypes
    <3> HIDE DEF i, turn
    <3> QED BY <1>1, <2>1, <3>2, ExceptSeq
  <2>3. ApplyDurableEvent(rec, ev) = [rec EXCEPT !.transcript = transcript, !.turns = turns]
    BY <1>5 DEF ApplyDurableEvent, EndTypes
  <2>4. transcript \in Seq(TranscriptItem)
    BY <1>2, <1>5 DEF VisibleTypes, EndTypes
  <2> HIDE DEF turns, transcript
  <2> QED BY <2>2, <2>3, <2>4 DEF Record
<1>6. CASE ev.type \notin VisibleTypes
  BY <1>6 DEF ApplyDurableEvent, VisibleTypes
<1> QED BY <1>3, <1>4, <1>5, <1>6 DEF VisibleTypes, EndTypes

\* A turn that starts while none runs is the running turn, the last one, and
\* begins at its prompt.
LEMMA StartedTurn ==
    ASSUME NEW rec \in Record, NEW ev \in SessionEvent, ev.type = "Started",
           RunningTurns(rec) = {}
    PROVE  LET new == ApplyDurableEvent(rec, ev)
               n == Len(new.turns)
           IN  /\ n \in Nat \ {0} /\ RunningTurns(new) = {n}
               /\ new.turns[n].run = ev.run
               /\ new.turns[n].prompt_position = Len(rec.transcript)
               /\ new.transcript = Append(rec.transcript, [kind |-> "user", text |-> ev.prompt])
<1> DEFINE turn == [run |-> ev.run, prompt_position |-> Len(rec.transcript), status |-> "running"]
           new == ApplyDurableEvent(rec, ev)
           n == Len(rec.turns) + 1
<1>1. rec.turns \in Seq(DurableTurn) /\ Len(rec.turns) \in Nat
  BY DEF Record
<1>2. /\ new.turns = Append(rec.turns, turn)
      /\ new.transcript = Append(rec.transcript, [kind |-> "user", text |-> ev.prompt])
  BY DEF ApplyDurableEvent, ItemOf, Record
<1>3. turn.status = "running" /\ turn.run = ev.run /\ turn.prompt_position = Len(rec.transcript)
  OBVIOUS
<1>4. turn \in DurableTurn
  <2>1. Len(rec.transcript) \in Nat /\ ev.run \in Nat
    BY DEF Record, SessionEvent
  <2> QED BY <2>1 DEF DurableTurn, TurnStatus
<1> HIDE DEF turn, new
<1>5. /\ Len(new.turns) = n /\ new.turns[n] = turn /\ DOMAIN new.turns = 1 .. n
      /\ \A i \in 1 .. Len(rec.turns) : new.turns[i] = rec.turns[i]
  BY <1>1, <1>2, <1>4, AppendProperties
<1>6. \A i \in 1 .. Len(rec.turns) : rec.turns[i].status # "running"
  BY <1>1 DEF RunningTurns
<1>7. RunningTurns(new) = {n}
  BY SMTT(30), <1>1, <1>3, <1>5, <1>6 DEF RunningTurns
<1> QED BY <1>1, <1>2, <1>3, <1>5, <1>7 DEF new

\* The end of the run of the only running turn leaves none running.
LEMMA EndedTurn ==
    ASSUME NEW rec \in Record, NEW ev \in SessionEvent, ev.type \in EndTypes,
           NEW n, RunningTurns(rec) = {n}, rec.turns[n].run = ev.run
    PROVE  RunningTurns(ApplyDurableEvent(rec, ev)) = {}
<1> DEFINE i == RunningTurn(rec, ev.run)
           turn == [rec.turns[n] EXCEPT !.status = OutcomeOf(ev)]
           new == ApplyDurableEvent(rec, ev)
<1>1. RunningTurnsOf(rec, ev.run) = {n}
  BY DEF RunningTurnsOf
<1>2. i = n
  BY <1>1, RunningTurnExists
<1>3. rec.turns \in Seq(DurableTurn) /\ n \in DOMAIN rec.turns /\ rec.turns[n] \in DurableTurn
  <2>1. n \in DOMAIN rec.turns
    BY DEF RunningTurns
  <2> QED BY <2>1 DEF Record
<1>4. new.turns = [rec.turns EXCEPT ![n] = turn]
  BY <1>2 DEF ApplyDurableEvent, EndTypes, Record
<1>5. turn.status # "running"
  BY <1>3 DEF DurableTurn, OutcomeOf, EndTypes
<1> HIDE DEF turn, new
<1> QED BY <1>3, <1>4, <1>5 DEF RunningTurns, new

-----------------------------------------------------------------------------
(***************************************************************************)
(* Projections and views.                                                  *)
(***************************************************************************)

\* A session that is opened or started has a projection.
LEMMA InitialProjectionTypes ==
    ASSUME NEW rec \in Record
    PROVE  /\ FromRecord(rec) \in Projection
           /\ \A run \in Nat, prompt \in Prompts :
                    InstallPersistedStarted(FromRecord(rec), run, prompt) \in Projection
<1>1. FromRecord(rec) \in Projection
  BY DEF FromRecord, Record, Projection, Title
<1>2. ASSUME NEW p \in Projection, NEW run \in Nat, NEW prompt \in Prompts
      PROVE  InstallPersistedStarted(p, run, prompt) \in Projection
  BY DEF InstallPersistedStarted, Projection, ActiveRun
<1> QED BY <1>1, <1>2

\* The reducer of the actor keeps a projection a projection.
LEMMA ReduceType ==
    ASSUME NEW p \in Projection, NEW ev \in SessionEvent, ValidEvent(p, ev)
    PROVE  Reduce(p, ev) \in Projection /\ Reduce(p, ev).sequence = p.sequence
<1>1. p.transcript \in Seq(TranscriptItem) /\ p.settings \in Settings
  BY DEF Projection
<1> DEFINE transcript == Append(p.transcript, ItemOf(ev))
<1>2. ev.type \in VisibleTypes => transcript \in Seq(TranscriptItem)
  BY <1>1, ItemType, AppendProperties
<1>3. CASE ev.type = "Started"
  <2> DEFINE run == [run |-> ev.run, prompt |-> ev.prompt, text |-> 0]
  <2>1. run \in ActiveRun
    BY <1>3 DEF SessionEvent, ActiveRun
  <2>2. Reduce(p, ev) = [p EXCEPT !.transcript = transcript, !.active_run = run, !.busy = TRUE]
    BY <1>3 DEF Reduce
  <2>3. transcript \in Seq(TranscriptItem)
    BY <1>2, <1>3 DEF VisibleTypes
  <2> HIDE DEF run, transcript
  <2> QED BY <2>1, <2>2, <2>3 DEF Projection
<1>4. CASE ev.type = "ToolStarted"
  <2>1. Reduce(p, ev) = [p EXCEPT !.transcript = transcript]
    BY <1>4 DEF Reduce
  <2>2. transcript \in Seq(TranscriptItem)
    BY <1>2, <1>4 DEF VisibleTypes
  <2> HIDE DEF transcript
  <2> QED BY <2>1, <2>2 DEF Projection
<1>5. CASE ev.type \in EndTypes
  <2>1. Reduce(p, ev) =
            [p EXCEPT !.transcript = transcript, !.active_run = None, !.busy = FALSE]
    BY <1>5 DEF Reduce, EndTypes
  <2>2. transcript \in Seq(TranscriptItem)
    BY <1>2, <1>5 DEF VisibleTypes, EndTypes
  <2> HIDE DEF transcript
  <2> QED BY <2>1, <2>2 DEF Projection
<1>6. CASE ev.type = "AssistantDelta"
  <2> DEFINE run == [p.active_run EXCEPT !.text = @ + 1]
  <2>1. p.active_run \in ActiveRun
    BY <1>6 DEF ValidEvent, RunEventTypes, Projection
  <2>2. run \in ActiveRun
    BY <2>1 DEF ActiveRun
  <2>3. Reduce(p, ev) = [p EXCEPT !.active_run = run]
    BY <1>6 DEF Reduce
  <2> HIDE DEF run
  <2> QED BY <2>2, <2>3 DEF Projection
<1>7. CASE ev.type = "ContextUsage"
  <2> DEFINE settings == [p.settings EXCEPT !.context_tokens = ev.tokens]
  <2>1. settings \in Settings
    BY <1>1, <1>7 DEF SessionEvent, Settings
  <2>2. Reduce(p, ev) = [p EXCEPT !.settings = settings]
    BY <1>7 DEF Reduce
  <2> HIDE DEF settings
  <2> QED BY <2>1, <2>2 DEF Projection
<1>8. CASE ev.type = "TitleChanged"
  <2>1. ev.title \in Titles /\ ev.title_revision \in Nat
    BY <1>8 DEF SessionEvent
  <2>2. Reduce(p, ev) = [p EXCEPT !.title = ev.title, !.title_revision = ev.title_revision]
    BY <1>8 DEF Reduce
  <2> QED BY <2>1, <2>2 DEF Projection
<1>9. CASE ev.type \in {"SettingsChanged", "PlanChanged", "PersistenceWarning"}
  <2>1. /\ ev.type = "SettingsChanged" => ev.settings \in Settings
        /\ ev.type = "PlanChanged" => ev.plan \in Plans
        /\ ev.type = "PersistenceWarning" => ev.warning \in BOOLEAN
    BY <1>9 DEF SessionEvent
  <2>2. CASE ev.type = "SettingsChanged"
    BY <2>1, <2>2 DEF Reduce, Projection
  <2>3. CASE ev.type = "PlanChanged"
    BY <2>1, <2>3 DEF Reduce, Projection
  <2>4. CASE ev.type = "PersistenceWarning"
    BY <2>1, <2>4 DEF Reduce, Projection
  <2> QED BY <1>9, <2>2, <2>3, <2>4
<1>10. CASE ev.type \in {"ToolFinished", "JobsChanged", "Deleted"}
  BY <1>10 DEF Reduce
<1> QED
  BY <1>3, <1>4, <1>5, <1>6, <1>7, <1>8, <1>9, <1>10 DEF SessionEvent, EndTypes

\* The reducer of a client keeps a view a projection.
LEMMA ClientApplyType ==
    ASSUME NEW view \in Projection, NEW envelope \in Envelope, ClientAccepts(view, envelope)
    PROVE  ClientApply(view, envelope) \in Projection
<1> DEFINE ev == envelope.event
           next == ClientApply(view, envelope)
<1>1. ev \in SessionEvent /\ envelope.sequence \in Nat
  BY DEF Envelope
<1>2. view.transcript \in Seq(TranscriptItem) /\ view.settings \in Settings
      /\ view.active_run \in ActiveRun \cup {None} /\ view.busy \in BOOLEAN
      /\ view.title \in Titles /\ view.title_revision \in Nat /\ view.plan \in Plans
      /\ view.persistence_warning \in BOOLEAN
  BY DEF Projection
<1>3. next.transcript \in Seq(TranscriptItem)
  <2>1. ev.type \in VisibleTypes => Append(view.transcript, ItemOf(ev)) \in Seq(TranscriptItem)
    BY <1>1, <1>2, ItemType, AppendProperties
  <2> HIDE DEF ev
  <2> QED BY <1>2, <2>1 DEF ClientApply, VisibleTypes, ev
<1>4. next.active_run \in ActiveRun \cup {None}
  <2>1. ev.type = "Started" => [run |-> ev.run, prompt |-> ev.prompt, text |-> 0] \in ActiveRun
    BY <1>1 DEF SessionEvent, ActiveRun
  <2>2. ev.type = "AssistantDelta" => [view.active_run EXCEPT !.text = @ + 1] \in ActiveRun
    <3>1. ev.type = "AssistantDelta" => view.active_run \in ActiveRun
      BY <1>2 DEF ClientAccepts, RunEventTypes
    <3> QED BY <3>1 DEF ActiveRun
  <2> QED BY <1>2, <2>1, <2>2 DEF ClientApply
<1>5. next.settings \in Settings
  <2>1. ev.type = "SettingsChanged" => ev.settings \in Settings
    BY <1>1 DEF SessionEvent
  <2>2. ev.type = "ContextUsage" =>
            [view.settings EXCEPT !.context_tokens = ev.tokens] \in Settings
    BY <1>1, <1>2 DEF SessionEvent, Settings
  <2> QED BY <1>2, <2>1, <2>2 DEF ClientApply
<1>6. /\ next.title \in Titles /\ next.title_revision \in Nat /\ next.busy \in BOOLEAN
      /\ next.plan \in Plans /\ next.persistence_warning \in BOOLEAN /\ next.sequence \in Nat
  <2>1. /\ ev.type = "TitleChanged" => ev.title \in Titles /\ ev.title_revision \in Nat
        /\ ev.type = "PlanChanged" => ev.plan \in Plans
        /\ ev.type = "PersistenceWarning" => ev.warning \in BOOLEAN
    BY <1>1 DEF SessionEvent
  <2> QED BY <1>1, <1>2, <2>1 DEF ClientApply
<1>7. next = [title |-> next.title, title_revision |-> next.title_revision,
              busy |-> next.busy, transcript |-> next.transcript,
              active_run |-> next.active_run, settings |-> next.settings, plan |-> next.plan,
              persistence_warning |-> next.persistence_warning, sequence |-> next.sequence]
  BY DEF ClientApply
<1> HIDE DEF next, ev
<1>8. next \in Projection
  BY <1>3, <1>4, <1>5, <1>6, <1>7 DEF Projection
<1> QED BY <1>8 DEF next

-----------------------------------------------------------------------------
(***************************************************************************)
(* Types of what is shown.                                                 *)
(***************************************************************************)
ObserverMap == [Attachments -> Observer]
Shown == [projection : Projection, observers : ObserverMap]

\* Dropping every sender keeps the observers typed.
LEMMA CloseObserversType ==
    ASSUME NEW obs \in ObserverMap
    PROVE  CloseObservers(obs) \in ObserverMap
BY DEF CloseObservers, ObserverMap, Observer

\* An envelope is queued only where a client still reads.
LEMMA DeliverType ==
    ASSUME NEW obs \in ObserverMap, NEW envelope \in Envelope, NEW limit
    PROVE  Deliver(obs, envelope, limit) \in ObserverMap
<1>1. ASSUME NEW a \in Attachments
      PROVE  /\ [obs[a] EXCEPT !.sender = FALSE] \in Observer
             /\ obs[a].receiver => [obs[a] EXCEPT !.queue = Append(@, envelope)] \in Observer
  <2>1. obs[a] \in Observer
    BY DEF ObserverMap
  <2>2. obs[a].receiver => Append(obs[a].queue, envelope) \in Seq(Envelope)
    BY <2>1, AppendProperties DEF Observer
  <2> QED BY <2>1, <2>2 DEF Observer
<1> QED BY <1>1 DEF Deliver, ObserverMap

\* project and broadcast keep the types of the projection and the observers.
LEMMA EmitUpToType ==
    ASSUME NEW s \in Shown, NEW ev \in SessionEvent, ValidEvent(s.projection, ev), NEW limit
    PROVE  EmitUpTo(s, ev, limit) \in Shown
<1> DEFINE p == s.projection
           envelope == [sequence |-> p.sequence + 1, event |-> ev]
<1>1. p \in Projection /\ s.observers \in ObserverMap /\ p.sequence \in Nat
  BY DEF Shown, Projection
<1>2. Reduce(p, ev) \in Projection
  BY <1>1, ReduceType
<1>3. Project(p, ev) \in Projection
  BY SMTT(30), <1>1, <1>2 DEF Project, Projection
<1>4. envelope \in Envelope
  BY <1>1 DEF Envelope
<1>5. Deliver(s.observers, envelope, limit) \in ObserverMap
  BY <1>1, <1>4, DeliverType
<1>6. CloseObservers(s.observers) \in ObserverMap
  BY <1>1, CloseObserversType
<1> QED BY <1>3, <1>5, <1>6 DEF EmitUpTo, Shown

\* So do ordinary and terminal broadcasts.
LEMMA EmitType ==
    ASSUME NEW s \in Shown, NEW ev \in SessionEvent, ValidEvent(s.projection, ev)
    PROVE  Emit(s, ev) \in Shown /\ EmitTerminal(s, ev) \in Shown
BY EmitUpToType DEF Emit, EmitTerminal

\* So does a persistence warning, raised or taken back.
LEMMA EmitTransitionType ==
    ASSUME NEW s \in Shown, NEW transition
    PROVE  EmitTransition(s, transition) \in Shown
<1> DEFINE ev == [type |-> "PersistenceWarning", warning |-> transition = "warn"]
<1>1. ev \in SessionEvent
  BY DEF SessionEvent
<1>2. ValidEvent(s.projection, ev)
  BY DEF ValidEvent, RunEventTypes
<1>3. Emit(s, ev) \in Shown
  BY <1>1, <1>2, EmitType
<1> QED BY <1>3 DEF EmitTransition

-----------------------------------------------------------------------------
(***************************************************************************)
(* Type correctness.                                                       *)
(***************************************************************************)
Stored == Record \cup {None, Removed}

\* What a live actor's variables are.
LEMMA LiveTypes ==
    ASSUME TypeOK, Live
    PROVE  /\ record \in Record /\ projection \in Projection /\ harness \in HarnessState
           /\ Visible \in Shown
BY RecordAssumption DEF TypeOK, Live, Visible, Shown, ObserverMap

\* A row that exists is a record.
LEMMA ExistsType ==
    ASSUME TypeOK, Exists
    PROVE  row \in Record
BY DEF TypeOK, Exists

\* A checkpoint stores a record or retains it.
LEMMA PersistTypes ==
    ASSUME TypeOK, NEW rec \in Record, NEW ok \in BOOLEAN,
           PersistCheckpoint(rec, ok) \/ PersistMetadata(rec, ok)
    PROVE  row' \in Stored /\ dirty' \in Record \cup {None}
<1>1. row \in Stored
  BY DEF TypeOK, Stored
<1>2. Stores(ok) => WithMetadata(row, rec) \in Record
  BY ExistsType, StoredTypes DEF Stores
<1> QED BY <1>1, <1>2 DEF PersistCheckpoint, PersistMetadata, Stored

\* What RecordDurably may change, and to what.
RecordedTypes ==
    /\ row' \in Stored /\ dirty' \in Record \cup {None}
    /\ record' \in Record /\ projection' \in Projection /\ observers' \in ObserverMap

\* A durable event leaves typed state behind, applied or dropped.
LEMMA RecordDurablyTypes ==
    ASSUME TypeOK, Live, NEW ev \in SessionEvent, NEW history \in Seq(Message),
           NEW ok \in BOOLEAN, RecordDurably(ev, history, ok)
    PROVE  RecordedTypes
<1> DEFINE rec == [ApplyDurableEvent(record, ev) EXCEPT !.history = history]
           applies == DurableApplies(record, ev) /\ ValidEvent(projection, ev)
           shown == EmitTransition(Emit(Visible, ev), Transition(Stores(ok)))
<1>1. CASE applies
  <2>1. rec \in Record
    <3>1. ApplyDurableEvent(record, ev) \in Record
      BY <1>1, LiveTypes, DurableEventType
    <3> QED BY <3>1 DEF Record
  <2>2. shown \in Shown
    <3>1. Visible.projection = projection
      BY DEF Visible
    <3>2. Emit(Visible, ev) \in Shown
      BY <1>1, <3>1, LiveTypes, EmitType
    <3> QED BY <3>2, EmitTransitionType
  <2>3. record' = rec /\ PersistCheckpoint(rec, ok) /\ Show(shown)
    BY <1>1 DEF RecordDurably
  <2> HIDE DEF rec, shown
  <2>4. row' \in Stored /\ dirty' \in Record \cup {None}
    BY <2>1, <2>3, PersistTypes
  <2> QED BY <2>1, <2>2, <2>3, <2>4 DEF Show, Shown, RecordedTypes
<1>2. CASE ~applies
  <2>1. UNCHANGED <<row, record, dirty, projection, observers>>
    BY <1>2 DEF RecordDurably
  <2> QED BY <2>1, LiveTypes DEF TypeOK, Stored, ObserverMap, RecordedTypes
<1> QED BY <1>1, <1>2

\* A new run or the end of one keeps the harness typed.
LEMMA HarnessTypes ==
    ASSUME NEW h \in HarnessState
    PROVE  /\ HarnessDrop(h) \in HarnessState
           /\ \A prompt \in Prompts : HarnessSubmit(h, prompt) \in HarnessState
           /\ h.active # None =>
                \A response \in Responses : HarnessComplete(h, response) \in HarnessState
<1>1. HarnessDrop(h) \in HarnessState
  BY DEF HarnessDrop, HarnessState
<1>2. ASSUME NEW prompt \in Prompts PROVE HarnessSubmit(h, prompt) \in HarnessState
  <2> DEFINE active == [id |-> h.next_run_id, prompt |-> prompt]
             next == IF h.next_run_id < MaxRunId THEN h.next_run_id + 1 ELSE h.next_run_id
             exhausted == (h.next_run_id >= MaxRunId)
  <2>1. h.next_run_id \in Nat
    BY DEF HarnessState
  <2>2. /\ active \in HarnessRun /\ next \in Nat /\ exhausted \in BOOLEAN
    BY <2>1 DEF HarnessRun
  <2>3. HarnessSubmit(h, prompt) =
            [h EXCEPT !.active = active, !.next_run_id = next, !.ids_exhausted = exhausted]
    BY DEF HarnessSubmit
  <2> HIDE DEF active, next, exhausted
  <2> QED BY <2>2, <2>3 DEF HarnessState
<1>3. ASSUME h.active # None, NEW response \in Responses
      PROVE  HarnessComplete(h, response) \in HarnessState
  <2> DEFINE exchange == <<[role |-> "user", text |-> h.active.prompt],
                           [role |-> "assistant", text |-> response]>>
  <2>1. exchange \in Seq(Message)
    <3>1. h.active.prompt \in Prompts
      BY <1>3 DEF HarnessState, HarnessRun
    <3> QED BY <3>1 DEF Message
  <2>2. h.history \in Seq(Message)
    BY DEF HarnessState
  <2>3. HarnessComplete(h, response) = [h EXCEPT !.active = None, !.history = @ \o exchange]
    BY DEF HarnessComplete
  <2> HIDE DEF exchange
  <2>4. h.history \o exchange \in Seq(Message)
    BY <2>1, <2>2, ConcatProperties
  <2> QED BY <2>3, <2>4 DEF HarnessState
<1> QED BY <1>1, <1>2, <1>3

\* What is shown is typed.
LEMMA ShowTypes ==
    ASSUME NEW s \in Shown, Show(s)
    PROVE  projection' \in Projection /\ observers' \in ObserverMap
BY DEF Show, Shown

\* An actor that starts is typed, and so is one that is gone.
LEMMA SpawnTypes ==
    ASSUME NEW rec \in Record, NEW proj \in Projection, NEW h \in HarnessState,
           Spawn(rec, proj, h)
    PROVE  /\ record' \in Record /\ projection' \in Projection /\ harness' \in HarnessState
           /\ dirty' \in Record \cup {None} /\ deleting' \in BOOLEAN
           /\ shutting_down' \in BOOLEAN
BY DEF Spawn

\* Events that change no run are valid in every projection.
LEMMA SessionEventValid ==
    ASSUME NEW p, NEW ev, ev.type \notin RunEventTypes \cup {"Started"}
    PROVE  ValidEvent(p, ev)
BY DEF ValidEvent

\* Selecting a model or a reasoning level leaves typed state behind.
LEMMA ChangeSettingsTypes ==
    ASSUME TypeOK, Live, NEW settings \in Settings, NEW ok \in BOOLEAN,
           ChangeSettings(settings, ok)
    PROVE  RecordedTypes
<1> DEFINE ev == [type |-> "SettingsChanged", settings |-> settings]
           rec == [record EXCEPT !.settings = settings]
           shown == EmitTransition(Emit(Visible, ev), Transition(Stores(ok)))
<1>1. rec \in Record
  BY LiveTypes DEF Record
<1>2. ev \in SessionEvent /\ ValidEvent(Visible.projection, ev)
  BY SessionEventValid DEF SessionEvent, RunEventTypes
<1>3. record' = rec /\ PersistMetadata(rec, ok) /\ Show(shown)
  BY DEF ChangeSettings
<1> HIDE DEF ev, rec
<1>4. shown \in Shown
  BY <1>2, LiveTypes, EmitType, EmitTransitionType
<1> HIDE DEF shown
<1>5. row' \in Stored /\ dirty' \in Record \cup {None}
  BY <1>1, <1>3, PersistTypes
<1> QED BY <1>1, <1>3, <1>4, <1>5, ShowTypes DEF RecordedTypes

\* Installing a stored title leaves typed state behind.
LEMMA InstallTitleTypes ==
    ASSUME TypeOK, Live, NEW title \in Title, InstallTitle(title)
    PROVE  /\ record' \in Record /\ dirty' \in Record \cup {None}
           /\ projection' \in Projection /\ observers' \in ObserverMap
<1> DEFINE ev == [type |-> "TitleChanged", title |-> title.text,
                  title_revision |-> title.revision]
           rec == [record EXCEPT !.title = title]
<1>1. rec \in Record
  BY LiveTypes DEF Record
<1>2. ev \in SessionEvent /\ ValidEvent(Visible.projection, ev)
  BY SessionEventValid DEF SessionEvent, RunEventTypes, Title
<1>3. /\ record' = rec /\ dirty' = IF dirty # None THEN rec ELSE None
      /\ Show(Emit(Visible, ev))
  BY DEF InstallTitle
<1> HIDE DEF ev, rec
<1>4. Emit(Visible, ev) \in Shown
  BY <1>2, LiveTypes, EmitType
<1> QED BY <1>1, <1>3, <1>4, ShowTypes

\* flush leaves something to show, whether it stores the checkpoint or not.
LEMMA FlushTypes ==
    ASSUME TypeOK, Live, NEW ok \in BOOLEAN
    PROVE  /\ Flushed(ok) \in Shown
           /\ FlushDirty(ok) => /\ row' \in Stored /\ dirty' \in Record \cup {None}
                                /\ projection' \in Projection /\ observers' \in ObserverMap
<1> DEFINE ev == [type |-> "PersistenceWarning", warning |-> ~Stores(ok)]
<1>1. ev \in SessionEvent /\ ValidEvent(Visible.projection, ev)
  BY SessionEventValid DEF SessionEvent, RunEventTypes
<1>2. Emit(Visible, ev) \in Shown /\ Visible \in Shown
  BY <1>1, LiveTypes, EmitType
<1>3. Flushed(ok) \in Shown
  BY <1>2 DEF Flushed
<1>4. row \in Stored /\ dirty \in Record \cup {None} /\ record \in Record
  BY LiveTypes DEF TypeOK, Stored
<1> QED BY <1>3, <1>4, ShowTypes DEF FlushDirty, Stored

\* Every step of the session keeps the type of every variable: no handler
\* stores, shows or queues something malformed, and an actor never keeps part
\* of its state after it ends.
THEOREM TypeCorrect == Spec => []TypeOK
<1> USE DEF Stored, ObserverMap
<1>1. Init => TypeOK
  <2>1. Unattached \in Observer
    BY DEF Unattached, Observer
  <2> QED BY <2>1 DEF Init, TypeOK
<1>2. ASSUME TypeOK, [Next]_vars PROVE TypeOK'
  <2> USE <1>2
  <2>a. /\ row \in Stored /\ dirty \in Record \cup {None} /\ observers \in ObserverMap
        /\ deleting \in BOOLEAN /\ shutting_down \in BOOLEAN /\ activity \in BOOLEAN
        /\ titleTask \in Nat \cup {None} /\ deletion \in {"none", "prepared", "removed", "failed"}
    BY DEF TypeOK
  <2>b. TypeOK' <=>
          /\ row' \in Stored
          /\ \/ record' \in Record /\ projection' \in Projection /\ harness' \in HarnessState
             \/ record' = None /\ projection' = None /\ harness' = None
          /\ dirty' \in Record \cup {None}
          /\ deleting' \in BOOLEAN /\ shutting_down' \in BOOLEAN /\ activity' \in BOOLEAN
          /\ observers' \in ObserverMap
          /\ titleTask' \in Nat \cup {None}
          /\ deletion' \in {"none", "prepared", "removed", "failed"}
    BY DEF TypeOK
  <2>1. ASSUME NEW p \in Prompts, MaterializeAndSubmit(p) PROVE TypeOK'
    <3> DEFINE rec == Materialized(p, DefaultSettings, FallbackTitle)
               h == HarnessSubmit(WithHistory(rec.history), p)
               proj == InstallPersistedStarted(FromRecord(rec), h.active.id, p)
    <3>1. rec \in Record
      BY ActorAssumption, StoredTypes
    <3>2. WithHistory(rec.history) \in HarnessState
      BY <3>1 DEF WithHistory, HarnessState, Record
    <3>3. h \in HarnessState
      BY <3>2, HarnessTypes
    <3>4. h.active.id \in Nat
      BY DEF HarnessSubmit, WithHistory
    <3>5. proj \in Projection
      BY <3>1, <3>4, InitialProjectionTypes
    <3>6. row' = rec /\ Spawn(rec, proj, h) /\ activity' = TRUE
          /\ titleTask' = rec.title.revision /\ UNCHANGED <<observers, deletion>>
      BY <2>1 DEF MaterializeAndSubmit
    <3>7. rec.title.revision \in Nat
      BY <3>1 DEF Record, Title
    <3> HIDE DEF rec, h, proj
    <3> QED BY <2>a, <2>b, <3>1, <3>3, <3>5, <3>6, <3>7, SpawnTypes
  <2>2. ASSUME NEW p \in Prompts, MaterializeWithoutRun(p) PROVE TypeOK'
    <3> DEFINE rec == Materialized(p, DefaultSettings, FallbackTitle)
    <3>1. rec \in Record /\ FailedStart(rec) \in Record
      BY ActorAssumption, StoredTypes
    <3>2. row' \in {FailedStart(rec), Removed, rec}
          /\ UNCHANGED <<actorVars, observers, activity, titleTask, deletion>>
      BY <2>2 DEF MaterializeWithoutRun
    <3> HIDE DEF rec
    <3> QED BY <3>1, <3>2 DEF TypeOK, actorVars
  <2>3. ASSUME NEW created \in BOOLEAN, Open(created) PROVE TypeOK'
    <3> DEFINE rec == Interrupted(row)
    <3>1. rec \in Record
      BY <2>3, ExistsType, InterruptedType DEF Open
    <3>2. WithHistory(rec.history) \in HarnessState
      BY <3>1 DEF WithHistory, HarnessState, Record
    <3>3. FromRecord(rec) \in Projection
      BY <3>1, InitialProjectionTypes
    <3>4. row' = rec /\ UNCHANGED <<observers, activity, titleTask, deletion>>
          /\ IF created THEN Spawn(rec, FromRecord(rec), WithHistory(rec.history))
                        ELSE UNCHANGED actorVars
      BY <2>3 DEF Open
    <3> HIDE DEF rec
    <3>5. CASE created
      BY <2>a, <2>b, <3>1, <3>2, <3>3, <3>4, <3>5, SpawnTypes
    <3>6. CASE ~created
      BY <3>1, <3>4, <3>6 DEF TypeOK, actorVars
    <3> QED BY <3>5, <3>6
  <2>4. ASSUME NEW p \in Prompts, NEW ok \in BOOLEAN, Submit(p, ok) PROVE TypeOK'
    <3> DEFINE ev == [type |-> "Started", run |-> harness.next_run_id, prompt |-> p]
    <3>1. Live /\ harness \in HarnessState /\ record \in Record
      BY <2>4, LiveTypes DEF Submit, Mutable
    <3>2. ev \in SessionEvent /\ record.history \in Seq(Message)
      BY <3>1 DEF SessionEvent, HarnessState, Record
    <3>3. RecordDurably(ev, record.history, ok)
          /\ UNCHANGED <<deleting, shutting_down, titleTask, deletion>>
      BY <2>4 DEF Submit
    <3>4. harness' \in HarnessState
      BY <2>4, <3>1, HarnessTypes DEF Submit
    <3>5. activity' \in BOOLEAN
      BY <2>4, <2>a DEF Submit, DurableApplies, ValidEvent
    <3>6. RecordedTypes
      BY <3>1, <3>2, <3>3, RecordDurablyTypes
    <3> QED BY <2>a, <2>b, <3>3, <3>4, <3>5, <3>6 DEF RecordedTypes
  <2>5. ASSUME NEW ok \in BOOLEAN, Cancel(ok) PROVE TypeOK'
    <3> DEFINE ev == [type |-> "Cancelled", run |-> harness.active.id]
    <3>1. Live /\ Running /\ harness \in HarnessState /\ record \in Record
      BY <2>5, LiveTypes DEF Cancel, Mutable
    <3>2. ev \in SessionEvent /\ record.history \in Seq(Message)
      BY <3>1 DEF SessionEvent, HarnessState, HarnessRun, Record, Running
    <3>3. harness' = HarnessDrop(harness) /\ activity' = FALSE
          /\ RecordDurably(ev, record.history, ok)
          /\ UNCHANGED <<deleting, shutting_down, titleTask, deletion>>
      BY <2>5 DEF Cancel
    <3>4. RecordedTypes
      BY <3>1, <3>2, <3>3, RecordDurablyTypes
    <3> QED BY <2>a, <2>b, <3>1, <3>3, <3>4, HarnessTypes DEF RecordedTypes
  <2>6. ASSUME NEW r \in Responses, NEW ok \in BOOLEAN, Completed(r, ok) PROVE TypeOK'
    <3> DEFINE ev == [type |-> "Completed", run |-> harness.active.id, response |-> r]
               h == HarnessComplete(harness, r)
    <3>1. Live /\ Running /\ harness \in HarnessState
      BY <2>6, LiveTypes DEF Completed, RunEvent
    <3>2. ev \in SessionEvent
      BY <3>1 DEF SessionEvent, HarnessState, HarnessRun, Running
    <3>3. h \in HarnessState /\ h.history \in Seq(Message)
      BY <3>1, HarnessTypes DEF HarnessState, Running
    <3>4. harness' = h /\ activity' = FALSE /\ RecordDurably(ev, h.history, ok)
          /\ UNCHANGED <<deleting, shutting_down, titleTask, deletion>>
      BY <2>6 DEF Completed
    <3> HIDE DEF ev, h
    <3>5. RecordedTypes
      BY <3>1, <3>2, <3>3, <3>4, RecordDurablyTypes
    <3> QED BY <2>a, <2>b, <3>3, <3>4, <3>5 DEF RecordedTypes
  <2>7. ASSUME NEW ok \in BOOLEAN, RunFails(ok) PROVE TypeOK'
    <3> DEFINE ev == [type |-> "Failed", run |-> harness.active.id, failure |-> "run"]
    <3>1. Live /\ Running /\ harness \in HarnessState /\ record \in Record
      BY <2>7, LiveTypes DEF RunFails, RunEvent
    <3>2. ev \in SessionEvent /\ record.history \in Seq(Message)
      BY <3>1 DEF SessionEvent, Failures, HarnessState, HarnessRun, Record, Running
    <3>3. harness' = HarnessDrop(harness) /\ activity' = FALSE
          /\ RecordDurably(ev, record.history, ok)
          /\ UNCHANGED <<deleting, shutting_down, titleTask, deletion>>
      BY <2>7 DEF RunFails
    <3>4. RecordedTypes
      BY <3>1, <3>2, <3>3, RecordDurablyTypes
    <3> QED BY <2>a, <2>b, <3>1, <3>3, <3>4, HarnessTypes DEF RecordedTypes
  <2>8. ASSUME NEW ok \in BOOLEAN, ToolStarted(ok) PROVE TypeOK'
    <3> DEFINE ev == [type |-> "ToolStarted", run |-> harness.active.id]
    <3>1. Live /\ Running /\ harness \in HarnessState /\ record \in Record
      BY <2>8, LiveTypes DEF ToolStarted, RunEvent
    <3>2. ev \in SessionEvent /\ record.history \in Seq(Message)
      BY <3>1 DEF SessionEvent, HarnessState, HarnessRun, Record, Running
    <3>3. RecordDurably(ev, record.history, ok)
          /\ UNCHANGED <<harness, deleting, shutting_down, activity, titleTask, deletion>>
      BY <2>8 DEF ToolStarted
    <3>4. RecordedTypes
      BY <3>1, <3>2, <3>3, RecordDurablyTypes
    <3> QED BY <2>a, <2>b, <3>1, <3>3, <3>4 DEF RecordedTypes
  <2>9. ASSUME NEW n \in TokenCounts, NEW ok \in BOOLEAN, ContextUsage(n, ok) PROVE TypeOK'
    <3> DEFINE ev == [type |-> "ContextUsage", run |-> harness.active.id, tokens |-> n]
               rec == [record EXCEPT !.settings.context_tokens = n]
               shown == EmitTransition(Emit(Visible, ev), Transition(Stores(ok)))
    <3>1. Live /\ Running /\ harness \in HarnessState /\ record \in Record
          /\ projection \in Projection /\ Visible \in Shown
      BY <2>9, LiveTypes DEF ContextUsage, RunEvent
    <3>2. ev \in SessionEvent
      BY <3>1, ActorAssumption DEF SessionEvent, HarnessState, HarnessRun, Running
    <3>3. rec \in Record
      BY <3>1, ActorAssumption DEF Record, Settings
    <3>4. ValidEvent(projection, ev) => shown \in Shown
      <4>1. Visible.projection = projection
        BY DEF Visible
      <4> QED BY <3>1, <3>2, <4>1, EmitType, EmitTransitionType
    <3>5. /\ record' = rec
          /\ IF ValidEvent(projection, ev)
             THEN PersistMetadata(rec, ok) /\ Show(shown)
             ELSE UNCHANGED <<row, dirty, projection, observers>>
          /\ UNCHANGED <<harness, deleting, shutting_down, activity, titleTask, deletion>>
      BY <2>9 DEF ContextUsage
    <3> HIDE DEF ev, rec, shown
    <3>6. CASE ValidEvent(projection, ev)
      BY <2>a, <2>b, <3>1, <3>3, <3>4, <3>5, <3>6, PersistTypes, ShowTypes
    <3>7. CASE ~ValidEvent(projection, ev)
      BY <2>a, <2>b, <3>1, <3>3, <3>5, <3>7
    <3> QED BY <3>6, <3>7
  <2>10. ASSUME NEW type \in {"AssistantDelta", "ToolFinished"}, ShowRunEvent(type)
         PROVE  TypeOK'
    <3> DEFINE ev == [type |-> type, run |-> harness.active.id]
    <3>1. Live /\ Running /\ harness \in HarnessState /\ record \in Record /\ Visible \in Shown
      BY <2>10, LiveTypes DEF ShowRunEvent, RunEvent
    <3>2. ev \in SessionEvent
      BY <3>1 DEF SessionEvent, HarnessState, HarnessRun, Running
    <3>3. ValidEvent(Visible.projection, ev)
      BY <2>10 DEF ShowRunEvent, Visible
    <3>4. Show(Emit(Visible, ev))
          /\ UNCHANGED <<row, record, dirty, harness, deleting, shutting_down,
                         activity, titleTask, deletion>>
      BY <2>10 DEF ShowRunEvent
    <3> HIDE DEF ev
    <3>5. Emit(Visible, ev) \in Shown
      BY <3>1, <3>2, <3>3, EmitType
    <3> QED BY <2>a, <2>b, <3>1, <3>4, <3>5, ShowTypes
  <2>11. ASSUME NEW m \in Models, NEW ok \in BOOLEAN, SelectModel(m, ok) PROVE TypeOK'
    <3> DEFINE settings == [record.settings EXCEPT !.model = m]
    <3>1. Live /\ harness \in HarnessState
      BY <2>11, LiveTypes DEF SelectModel, Mutable
    <3>2. settings \in Settings
      BY <3>1, LiveTypes DEF Record, Settings
    <3>3. ChangeSettings(settings, ok)
      BY <2>11 DEF SelectModel
    <3> HIDE DEF settings
    <3>4. UNCHANGED <<harness, deleting, shutting_down, activity, titleTask, deletion>>
      BY <3>3 DEF ChangeSettings
    <3> QED BY <2>a, <2>b, <3>1, <3>2, <3>3, <3>4, ChangeSettingsTypes DEF RecordedTypes
  <2>12. ASSUME NEW l \in Reasonings, NEW ok \in BOOLEAN, SelectReasoning(l, ok) PROVE TypeOK'
    <3> DEFINE settings == [record.settings EXCEPT !.reasoning = l]
    <3>1. Live /\ harness \in HarnessState
      BY <2>12, LiveTypes DEF SelectReasoning, Mutable
    <3>2. settings \in Settings
      BY <3>1, LiveTypes DEF Record, Settings
    <3>3. ChangeSettings(settings, ok)
      BY <2>12 DEF SelectReasoning
    <3> HIDE DEF settings
    <3>4. UNCHANGED <<harness, deleting, shutting_down, activity, titleTask, deletion>>
      BY <3>3 DEF ChangeSettings
    <3> QED BY <2>a, <2>b, <3>1, <3>2, <3>3, <3>4, ChangeSettingsTypes DEF RecordedTypes
  <2>13. ASSUME NEW plan \in Plans, NEW ok \in BOOLEAN, UpdatePlan(plan, ok) PROVE TypeOK'
    <3> DEFINE ev == [type |-> "PlanChanged", plan |-> plan]
               rec == [record EXCEPT !.plan = plan]
               shown == EmitTransition(Emit(Visible, ev), Transition(Stores(ok)))
    <3>1. Live /\ harness \in HarnessState
      BY <2>13, LiveTypes DEF UpdatePlan, RanBefore
    <3>2. rec \in Record
      BY <3>1, LiveTypes DEF Record
    <3>3. ev \in SessionEvent /\ ValidEvent(Visible.projection, ev)
      BY SessionEventValid DEF SessionEvent, RunEventTypes
    <3>4. record' = rec /\ PersistCheckpoint(rec, ok) /\ Show(shown)
          /\ UNCHANGED <<harness, deleting, shutting_down, activity, titleTask, deletion>>
      BY <2>13 DEF UpdatePlan
    <3> HIDE DEF ev, rec
    <3>5. shown \in Shown
      BY <3>1, <3>3, LiveTypes, EmitType, EmitTransitionType
    <3> HIDE DEF shown
    <3> QED BY <2>a, <2>b, <3>1, <3>2, <3>4, <3>5, PersistTypes, ShowTypes
  <2>14. CASE JobsChanged
    <3> DEFINE ev == [type |-> "JobsChanged"]
    <3>1. Live /\ harness \in HarnessState /\ record \in Record
      BY <2>14, LiveTypes DEF JobsChanged, RanBefore
    <3>2. ev \in SessionEvent /\ ValidEvent(Visible.projection, ev)
      BY SessionEventValid DEF SessionEvent, RunEventTypes
    <3>3. Show(Emit(Visible, ev))
          /\ UNCHANGED <<row, record, dirty, harness, deleting, shutting_down,
                         activity, titleTask, deletion>>
      BY <2>14 DEF JobsChanged
    <3> HIDE DEF ev
    <3>4. Emit(Visible, ev) \in Shown
      BY <3>1, <3>2, LiveTypes, EmitType
    <3> QED BY <2>a, <2>b, <3>1, <3>3, <3>4, ShowTypes
  <2>15. ASSUME NEW t \in Titles, Rename(t) PROVE TypeOK'
    <3> DEFINE renamed == Retitled(row, t, "manual")
    <3>1. renamed \in Record /\ renamed.title \in Title
      BY <2>15, ExistsType, StoredTypes DEF Rename
    <3>2. /\ row' = renamed
          /\ \/ Mutable /\ InstallTitle(renamed.title)
             \/ ~Live /\ UNCHANGED <<record, dirty, projection, observers>>
          /\ UNCHANGED <<harness, deleting, shutting_down, activity, titleTask, deletion>>
      BY <2>15 DEF Rename
    <3> HIDE DEF renamed
    <3>3. CASE Mutable /\ InstallTitle(renamed.title)
      <4>1. Live /\ harness \in HarnessState
        BY <3>3, LiveTypes DEF Mutable
      <4> QED BY <2>a, <2>b, <3>1, <3>2, <3>3, <4>1, InstallTitleTypes
    <3>4. CASE UNCHANGED <<record, dirty, projection, observers>>
      BY <3>1, <3>2, <3>4 DEF TypeOK
    <3> QED BY <3>2, <3>3, <3>4
  <2>16. ASSUME NEW t \in Titles \cup {None}, TitleGenerated(t) PROVE TypeOK'
    <3> DEFINE accepted == /\ Mutable /\ Exists /\ t # None
                           /\ AcceptsGenerated(row, titleTask)
               stored == Retitled(row, t, "generated")
    <3>1. /\ titleTask' = None
          /\ row' = IF accepted THEN stored ELSE row
          /\ IF accepted THEN InstallTitle(stored.title)
                         ELSE UNCHANGED <<record, dirty, projection, observers>>
          /\ UNCHANGED <<harness, deleting, shutting_down, activity, deletion>>
      BY <2>16 DEF TitleGenerated
    <3>2. accepted => stored \in Record /\ stored.title \in Title
      BY ExistsType, StoredTypes
    <3>3. accepted => Live /\ harness \in HarnessState
      BY LiveTypes DEF Mutable
    <3> HIDE DEF accepted, stored
    <3>4. CASE accepted
      BY <2>a, <2>b, <3>1, <3>2, <3>3, <3>4, InstallTitleTypes
    <3>5. CASE ~accepted
      BY <3>1, <3>5 DEF TypeOK
    <3> QED BY <3>4, <3>5
  <2>17. ASSUME NEW ok \in BOOLEAN, NEW jobsOk \in BOOLEAN, PrepareDelete(ok, jobsOk)
         PROVE  TypeOK'
    <3> DEFINE ev == [type |-> "Cancelled", run |-> harness.active.id]
               recorded == Running /\ DurableApplies(record, ev)
               shown == recorded /\ ValidEvent(projection, ev)
               rec == IF recorded THEN ApplyDurableEvent(record, ev) ELSE record
               cleared == Stores(ok) /\ projection.persistence_warning
               seen == EmitTransition(IF shown THEN Emit(Visible, ev) ELSE Visible,
                                      IF cleared THEN "clear" ELSE "none")
    <3>1. Live /\ harness \in HarnessState /\ record \in Record /\ Visible \in Shown
      BY <2>17, LiveTypes DEF PrepareDelete, Mutable
    <3>2. Running => ev \in SessionEvent
      BY <3>1 DEF SessionEvent, HarnessState, HarnessRun, Running
    <3>3. rec \in Record
      BY <3>1, <3>2, DurableEventType
    <3>4. (IF shown THEN Emit(Visible, ev) ELSE Visible) \in Shown
      <4>1. Visible.projection = projection
        BY DEF Visible
      <4> QED BY <3>1, <3>2, <4>1, EmitType
    <3>5. seen \in Shown
      BY <3>4, EmitTransitionType
    <3>6. /\ deleting' = TRUE /\ harness' = HarnessDrop(harness)
          /\ activity' = (activity /\ ~Running) /\ record' = rec
          /\ PersistCheckpoint(rec, ok) /\ Show(seen)
          /\ deletion' \in {"prepared", "failed"}
          /\ UNCHANGED <<shutting_down, titleTask>>
      BY <2>17 DEF PrepareDelete
    <3> HIDE DEF rec, seen
    <3> QED BY <2>a, <2>b, <3>1, <3>3, <3>5, <3>6, HarnessTypes, PersistTypes, ShowTypes
  <2>18. ASSUME NEW ok \in BOOLEAN, RepositoryDelete(ok) PROVE TypeOK'
    BY <2>18 DEF RepositoryDelete, TypeOK, actorVars
  <2>19. CASE DeleteCold
    BY <2>19 DEF DeleteCold, TypeOK, actorVars
  <2>20. ASSUME FinishDelete \/ AbortDelete \/ Abandoned PROVE TypeOK'
    <3>1. Live
      BY <2>20 DEF FinishDelete, AbortDelete, Abandoned
    <3>2. [type |-> "Deleted"] \in SessionEvent
          /\ ValidEvent(Visible.projection, [type |-> "Deleted"])
      BY SessionEventValid DEF SessionEvent, RunEventTypes
    <3>3. EmitTerminal(Visible, [type |-> "Deleted"]).observers \in ObserverMap
      BY <3>1, <3>2, LiveTypes, EmitType DEF Shown
    <3>4. observers' \in ObserverMap
      BY <2>20, <2>a, <3>3, CloseObserversType DEF FinishDelete, AbortDelete, Abandoned
    <3> QED BY <2>a, <2>b, <2>20, <3>4 DEF FinishDelete, AbortDelete, Abandoned, ActorExits
  <2>21. ASSUME NEW ok \in BOOLEAN, Flush(ok) \/ ShutdownFails(ok) PROVE TypeOK'
    <3>1. Live /\ harness \in HarnessState /\ record \in Record
      BY <2>21, LiveTypes DEF Flush, ShutdownFails, CanShutdown
    <3>2. /\ FlushDirty(ok) /\ shutting_down' \in BOOLEAN
          /\ UNCHANGED <<record, harness, deleting, activity, titleTask, deletion>>
      BY <2>a, <2>21 DEF Flush, ShutdownFails
    <3> QED BY <2>a, <2>b, <3>1, <3>2, FlushTypes
  <2>22. ASSUME NEW ok \in BOOLEAN, Shutdown(ok) PROVE TypeOK'
    <3>1. Live
      BY <2>22 DEF Shutdown, CanShutdown
    <3>2. CloseObservers(Flushed(ok).observers) \in ObserverMap
      BY <3>1, FlushTypes, CloseObserversType DEF Shown
    <3>3. /\ row' = IF dirty # None THEN dirty ELSE row
          /\ observers' = CloseObservers(Flushed(ok).observers)
          /\ ActorExits /\ UNCHANGED <<titleTask, deletion>>
      BY <2>22 DEF Shutdown
    <3> QED BY <2>a, <2>b, <3>2, <3>3 DEF ActorExits
  <2>23. CASE Crash
    <3>1. Unattached \in Observer
      BY DEF Unattached, Observer
    <3> QED BY <2>a, <2>b, <2>23, <3>1 DEF Crash, ActorExits
  <2>24. ASSUME ObserverNext PROVE TypeOK'
    <3>1. \A a \in Attachments : observers[a] \in Observer
      BY <2>a
    <3>2. /\ Unattached \in Observer
          /\ \A o \in Observer : /\ [o EXCEPT !.sender = FALSE] \in Observer
                                 /\ [Unattached EXCEPT !.sender = o.sender] \in Observer
      BY DEF Unattached, Observer
    <3>3. UNCHANGED <<row, actorVars, activity, titleTask, deletion>>
      BY <2>24 DEF ObserverNext, Attach, Detach, Receive, ObserverClosed, Disconnect,
                   DetachConnection
    <3>4. SUFFICES observers' \in ObserverMap
      BY <3>3 DEF TypeOK, actorVars
    <3>5. ASSUME NEW a \in Attachments, Attach(a) PROVE observers' \in ObserverMap
      <4>1. [sender |-> TRUE, receiver |-> TRUE, queue |-> <<>>, view |-> projection] \in Observer
        BY <3>5, LiveTypes DEF Attach, Observer
      <4> QED BY <2>a, <3>5, <4>1 DEF Attach
    <3>6. ASSUME NEW a \in Attachments, Receive(a) PROVE observers' \in ObserverMap
      <4> DEFINE o == observers[a]
                 envelope == Head(o.queue)
      <4>1. /\ o.sender \in BOOLEAN /\ o.receiver = TRUE /\ o.queue \in Seq(Envelope)
            /\ o.queue # <<>> /\ o.view \in Projection
        BY <3>1, <3>6 DEF Receive, Observer
      <4>2. envelope \in Envelope /\ Tail(o.queue) \in Seq(Envelope)
        BY <4>1, HeadTailProperties
      <4>3. ClientAccepts(o.view, envelope) => ClientApply(o.view, envelope) \in Projection
        BY <4>1, <4>2, ClientApplyType
      <4>4. ClientAccepts(o.view, envelope) =>
                [o EXCEPT !.queue = Tail(@), !.view = ClientApply(@, envelope)] \in Observer
        BY <3>1, <4>1, <4>2, <4>3 DEF Observer
      <4> QED BY <2>a, <3>1, <3>2, <3>6, <4>4 DEF Receive
    <3>7. ASSUME NEW a \in Attachments, Detach(a) \/ ObserverClosed(a)
          PROVE  observers' \in ObserverMap
      BY <2>a, <3>1, <3>2, <3>7 DEF Detach, ObserverClosed
    <3>8. ASSUME NEW c, Disconnect(c) \/ DetachConnection(c) PROVE observers' \in ObserverMap
      BY <3>1, <3>2, <3>8 DEF Disconnect, DetachConnection
    <3> QED BY <2>24, <3>5, <3>6, <3>7, <3>8 DEF ObserverNext
  <2>z. CASE UNCHANGED vars
    BY <2>z DEF TypeOK, vars, actorVars
  <2> QED
    BY <2>1, <2>2, <2>3, <2>4, <2>5, <2>6, <2>7, <2>8, <2>9, <2>10, <2>11, <2>12, <2>13,
       <2>14, <2>15, <2>16, <2>17, <2>18, <2>19, <2>20, <2>21, <2>22, <2>23, <2>24, <2>z
    DEF Next, ManagerNext, CommandNext, RunNext
<1> QED BY <1>1, <1>2, PTL DEF Spec

-----------------------------------------------------------------------------
(***************************************************************************)
(* The inductive invariant.                                                *)
(***************************************************************************)

\* A harness, a projection and a record agree on the run.
RunAgrees(h, p, rec) ==
    LET n == Len(rec.turns)
    IN  /\ p.busy = (h.active # None)
        /\ IF h.active # None
           THEN /\ p.active_run # None
                /\ p.active_run.run = h.active.id /\ p.active_run.prompt = h.active.prompt
                /\ RunningTurns(rec) = {n}
                /\ rec.turns[n].run = h.active.id
                /\ rec.turns[n].prompt_position < Len(rec.transcript)
                /\ rec.transcript[rec.turns[n].prompt_position + 1]
                     = [kind |-> "user", text |-> h.active.prompt]
           ELSE p.active_run = None /\ RunningTurns(rec) = {}

RunInv ==
    /\ Live => activity = Running /\ RunAgrees(harness, projection, record)
    /\ ~Live => ~activity

\* A projection shows a record.
Shows(p, rec) ==
    /\ p.transcript = rec.transcript /\ p.plan = rec.plan /\ p.settings = rec.settings
    /\ p.title = rec.title.text /\ p.title_revision = rec.title.revision

\* The manager deletes the row of a session only while its actor waits.
DeletionInv ==
    /\ deletion # "none" => Live /\ deleting
    /\ deleting => deletion # "none"
    /\ Live => row # None /\ (row = Removed => deletion = "removed")

StoreInv ==
    /\ StoredOrDirty
    /\ Live => Shows(projection, record)
    /\ WarningMeansUnsaved

SafetyInv == TypeOK /\ RunInv /\ StoreInv /\ DeletionInv

-----------------------------------------------------------------------------
(***************************************************************************)
(* What the projection shows after an event.                               *)
(***************************************************************************)

\* Numbering an event changes nothing a client sees besides the number.
LEMMA ProjectReduces ==
    ASSUME NEW p \in Projection, NEW ev \in SessionEvent, ValidEvent(p, ev)
    PROVE  LET q == Project(p, ev)
               r == Reduce(p, ev)
           IN  /\ q.title = r.title /\ q.title_revision = r.title_revision /\ q.busy = r.busy
               /\ q.transcript = r.transcript /\ q.active_run = r.active_run
               /\ q.settings = r.settings /\ q.plan = r.plan
               /\ q.persistence_warning = r.persistence_warning
<1>1. Reduce(p, ev) \in Projection
  BY ReduceType
<1> QED BY <1>1 DEF Project, Projection

\* The events that warn leave everything else as it was.
LEMMA WarningShown ==
    ASSUME NEW s \in Shown, NEW transition \in {"none", "warn", "clear"}
    PROVE  LET q == EmitTransition(s, transition).projection
               p == s.projection
           IN  /\ q.title = p.title /\ q.title_revision = p.title_revision /\ q.busy = p.busy
               /\ q.transcript = p.transcript /\ q.active_run = p.active_run
               /\ q.settings = p.settings /\ q.plan = p.plan
               /\ q.persistence_warning = IF transition = "none" THEN p.persistence_warning
                                          ELSE transition = "warn"
<1> DEFINE ev == [type |-> "PersistenceWarning", warning |-> transition = "warn"]
           p == s.projection
<1>1. ev \in SessionEvent /\ ValidEvent(p, ev)
  BY SessionEventValid DEF SessionEvent, RunEventTypes
<1>2. p \in Projection
  BY DEF Shown
<1>3. Reduce(p, ev) = [p EXCEPT !.persistence_warning = transition = "warn"]
  BY DEF Reduce
<1>4. transition # "none" => EmitTransition(s, transition).projection = Project(p, ev)
  BY DEF EmitTransition, Emit, EmitUpTo
<1>5. transition = "none" => EmitTransition(s, transition) = s
  BY DEF EmitTransition
<1> HIDE DEF ev
<1>6. CASE transition = "none"
  BY <1>5, <1>6
<1>7. CASE transition # "none"
  BY <1>1, <1>2, <1>3, <1>4, <1>7, ProjectReduces DEF Projection
<1> QED BY <1>6, <1>7

\* The reducer of the projection and the durable effects of the events agree:
\* what shows a record before an event shows its successor after it.
LEMMA ReduceShows ==
    ASSUME NEW p \in Projection, NEW rec \in Record, NEW ev \in SessionEvent,
           ValidEvent(p, ev), Shows(p, rec), DurableApplies(rec, ev)
    PROVE  /\ ev.type \in VisibleTypes => Shows(Project(p, ev), ApplyDurableEvent(rec, ev))
           /\ ev.type = "ContextUsage" =>
                Shows(Project(p, ev), [rec EXCEPT !.settings.context_tokens = ev.tokens])
           /\ ev.type = "SettingsChanged" =>
                Shows(Project(p, ev), [rec EXCEPT !.settings = ev.settings])
           /\ ev.type = "PlanChanged" => Shows(Project(p, ev), [rec EXCEPT !.plan = ev.plan])
           /\ ev.type = "TitleChanged" =>
                \A title : title.text = ev.title /\ title.revision = ev.title_revision =>
                    Shows(Project(p, ev), [rec EXCEPT !.title = title])
           /\ ev.type \in {"AssistantDelta", "ToolFinished", "JobsChanged"} =>
                Shows(Project(p, ev), rec)
           /\ ev.type # "PersistenceWarning" =>
                Project(p, ev).persistence_warning = p.persistence_warning
<1> DEFINE r == Reduce(p, ev)
<1>1. ev.type \in VisibleTypes =>
          /\ r.transcript = Append(p.transcript, ItemOf(ev)) /\ r.plan = p.plan
          /\ r.settings = p.settings /\ r.title = p.title
          /\ r.title_revision = p.title_revision
  BY DEF Reduce, VisibleTypes, Projection
<1>2. ev.type \in VisibleTypes =>
          LET new == ApplyDurableEvent(rec, ev)
          IN  /\ new.transcript = Append(rec.transcript, ItemOf(ev)) /\ new.plan = rec.plan
              /\ new.settings = rec.settings /\ new.title = rec.title
  BY DEF ApplyDurableEvent, VisibleTypes, Record
<1>3. ev.type # "PersistenceWarning" => r.persistence_warning = p.persistence_warning
  BY DEF Reduce, Projection
<1>4. ev.type \in VisibleTypes => Shows(Project(p, ev), ApplyDurableEvent(rec, ev))
  <2> HIDE DEF r
  <2> QED BY <1>1, <1>2, ProjectReduces DEF Shows, r
<1>5. ev.type \notin VisibleTypes =>
          /\ r.transcript = p.transcript
          /\ r.plan = IF ev.type = "PlanChanged" THEN ev.plan ELSE p.plan
          /\ r.settings = CASE ev.type = "SettingsChanged" -> ev.settings
                            [] ev.type = "ContextUsage" ->
                                [p.settings EXCEPT !.context_tokens = ev.tokens]
                            [] OTHER -> p.settings
          /\ r.title = IF ev.type = "TitleChanged" THEN ev.title ELSE p.title
          /\ r.title_revision =
                IF ev.type = "TitleChanged" THEN ev.title_revision ELSE p.title_revision
  BY DEF Reduce, Projection, VisibleTypes
<1>6. ASSUME ev.type = "ContextUsage"
      PROVE  Shows(Project(p, ev), [rec EXCEPT !.settings.context_tokens = ev.tokens])
  BY <1>5, <1>6, ProjectReduces DEF Shows, Record, VisibleTypes
<1>7. ASSUME ev.type = "SettingsChanged"
      PROVE  Shows(Project(p, ev), [rec EXCEPT !.settings = ev.settings])
  BY <1>5, <1>7, ProjectReduces DEF Shows, Record, VisibleTypes
<1>8. ASSUME ev.type = "PlanChanged"
      PROVE  Shows(Project(p, ev), [rec EXCEPT !.plan = ev.plan])
  BY <1>5, <1>8, ProjectReduces DEF Shows, Record, VisibleTypes
<1>9. ASSUME ev.type = "TitleChanged", NEW title, title.text = ev.title,
             title.revision = ev.title_revision
      PROVE  Shows(Project(p, ev), [rec EXCEPT !.title = title])
  BY <1>5, <1>9, ProjectReduces DEF Shows, Record, VisibleTypes
<1>10. ASSUME ev.type \in {"AssistantDelta", "ToolFinished", "JobsChanged"}
       PROVE  Shows(Project(p, ev), rec)
  BY <1>5, <1>10, ProjectReduces DEF Shows, VisibleTypes
<1>11. ev.type # "PersistenceWarning" =>
           Project(p, ev).persistence_warning = p.persistence_warning
  <2> HIDE DEF r
  <2> QED BY <1>3, ProjectReduces DEF r
<1> QED BY <1>4, <1>6, <1>7, <1>8, <1>9, <1>10, <1>11

-----------------------------------------------------------------------------
(***************************************************************************)
(* What a step leaves behind.                                              *)
(***************************************************************************)

\* A step that keeps the turns and at most adds an item keeps the agreement.
LEMMA KeepsRun ==
    ASSUME NEW h, NEW p, NEW q, NEW rec \in Record, NEW new, RunAgrees(h, p, rec),
           q.busy = p.busy,
           p.active_run = None => q.active_run = None,
           p.active_run # None => /\ q.active_run # None
                                  /\ q.active_run.run = p.active_run.run
                                  /\ q.active_run.prompt = p.active_run.prompt,
           new.turns = rec.turns,
           \/ new.transcript = rec.transcript
           \/ \E item \in TranscriptItem : new.transcript = Append(rec.transcript, item)
    PROVE  RunAgrees(h, q, new)
<1>1. RunningTurns(new) = RunningTurns(rec)
  BY DEF RunningTurns
<1>2. CASE h.active = None
  BY <1>1, <1>2 DEF RunAgrees
<1>3. CASE h.active # None
  <2> DEFINE n == Len(rec.turns)
             at == rec.turns[n].prompt_position
  <2>1. RunningTurns(rec) = {n} /\ at < Len(rec.transcript)
    BY <1>3 DEF RunAgrees
  <2>2. at \in Nat /\ rec.transcript \in Seq(TranscriptItem) /\ Len(rec.transcript) \in Nat
    <3>1. n \in DOMAIN rec.turns
      BY <2>1 DEF RunningTurns
    <3>2. rec.turns[n] \in DurableTurn
      BY <3>1 DEF Record
    <3> QED BY <3>2 DEF DurableTurn, Record
  <2>3. at < Len(new.transcript) /\ new.transcript[at + 1] = rec.transcript[at + 1]
    <3> HIDE DEF at
    <3> QED BY SMTT(30), <2>1, <2>2, AppendProperties
  <2> QED BY <1>1, <1>3, <2>3 DEF RunAgrees
<1> QED BY <1>2, <1>3

\* The record was stored, or is retained and the clients are warned.
Settled(ok) ==
    /\ row' = IF Stores(ok) THEN record' ELSE row
    /\ dirty' = IF Stores(ok) THEN None ELSE record'
    /\ projection'.persistence_warning = ~Stores(ok)

\* A settled record is stored or retained whole, with a warning if retained.
LEMMA SettledIsSafe ==
    ASSUME record' \in Record, NEW ok \in BOOLEAN, Settled(ok)
    PROVE  StoredOrDirty' /\ WarningMeansUnsaved'
<1>1. record' # None
  BY RecordAssumption
<1> QED BY <1>1 DEF Settled, StoredOrDirty, WarningMeansUnsaved

\* A session that keeps its actor and its place in the manager's routine, and
\* whose row is not removed.
LEMMA KeepsDeletion ==
    ASSUME DeletionInv, Live, Live', UNCHANGED <<deleting, deletion>>,
           row' # None, row' = Removed => row = Removed
    PROVE  DeletionInv'
BY DEF DeletionInv

\* persistence_result and broadcast_persistence_transition: after a checkpoint
\* of rec, or a metadata update that changes only the title and the settings,
\* the record is stored or retained with a warning.
LEMMA PersistSettles ==
    ASSUME TypeOK, Live, StoredOrDirty, NEW rec \in Record, NEW ok \in BOOLEAN,
           record' = rec,
           \/ PersistCheckpoint(rec, ok)
           \/ /\ PersistMetadata(rec, ok)
              /\ rec = [record EXCEPT !.title = rec.title, !.settings = rec.settings],
           NEW s \in Shown, s.projection.persistence_warning = projection.persistence_warning,
           Show(EmitTransition(s, Transition(Stores(ok))))
    PROVE  Settled(ok)
<1>1. row' = IF Stores(ok) THEN rec ELSE row
  <2>1. CASE PersistCheckpoint(rec, ok)
    BY <2>1 DEF PersistCheckpoint
  <2>2. CASE /\ PersistMetadata(rec, ok) /\ ~PersistCheckpoint(rec, ok)
             /\ rec = [record EXCEPT !.title = rec.title, !.settings = rec.settings]
    <3>1. Stores(ok) /\ dirty = None => row = record
      BY DEF StoredOrDirty, Stores, Exists
    <3>2. Stores(ok) /\ dirty = None => WithMetadata(row, rec) = rec
      BY <2>2, <3>1 DEF WithMetadata
    <3> QED BY <2>2, <3>2 DEF PersistMetadata
  <2> QED BY <2>1, <2>2
<1>2. dirty' = IF Stores(ok) THEN None ELSE rec
  BY DEF PersistCheckpoint, PersistMetadata
<1>3. projection'.persistence_warning = ~Stores(ok)
  <2>1. Stores(ok) \in BOOLEAN /\ projection.persistence_warning \in BOOLEAN
    BY LiveTypes DEF Stores, Exists, Projection
  <2>2. Transition(Stores(ok)) = IF ~Stores(ok) THEN "warn"
                                 ELSE IF projection.persistence_warning THEN "clear" ELSE "none"
    BY <2>1 DEF Transition
  <2>3. projection' = EmitTransition(s, Transition(Stores(ok))).projection
    BY DEF Show
  <2>4. Transition(Stores(ok)) \in {"none", "warn", "clear"}
    BY <2>1, <2>2
  <2>5. projection'.persistence_warning =
            IF Transition(Stores(ok)) = "none" THEN s.projection.persistence_warning
            ELSE Transition(Stores(ok)) = "warn"
    BY <2>3, <2>4, WarningShown
  <2> QED BY <2>1, <2>2, <2>5
<1> QED BY <1>1, <1>2, <1>3 DEF Settled

\* A durable event that applies is recorded, shown and checkpointed together.
LEMMA RecordedStep ==
    ASSUME TypeOK, Live, StoreInv, NEW ev \in SessionEvent, ev.type \in VisibleTypes,
           NEW history \in Seq(Message), NEW ok \in BOOLEAN,
           DurableApplies(record, ev), ValidEvent(projection, ev),
           RecordDurably(ev, history, ok)
    PROVE  /\ record' \in Record /\ Shows(projection', record') /\ Settled(ok)
           /\ record'.turns = ApplyDurableEvent(record, ev).turns
           /\ record'.transcript = ApplyDurableEvent(record, ev).transcript
           /\ projection'.busy = Reduce(projection, ev).busy
           /\ projection'.active_run = Reduce(projection, ev).active_run
<1> DEFINE applied == ApplyDurableEvent(record, ev)
           rec == [applied EXCEPT !.history = history]
           s == Emit(Visible, ev)
           t == Transition(Stores(ok))
<1>1. record \in Record /\ projection \in Projection /\ Visible \in Shown
      /\ Visible.projection = projection
  BY LiveTypes DEF Visible
<1>2. applied \in Record
  BY <1>1, DurableEventType
<1>3. rec \in Record /\ rec.turns = applied.turns /\ rec.transcript = applied.transcript
      /\ rec.plan = applied.plan /\ rec.settings = applied.settings /\ rec.title = applied.title
  <2> HIDE DEF applied
  <2> QED BY <1>2 DEF Record
<1>4. record' = rec /\ PersistCheckpoint(rec, ok) /\ Show(EmitTransition(s, t))
  BY DEF RecordDurably
<1>5. s \in Shown /\ s.projection = Project(projection, ev)
  <2>1. s.projection = Project(projection, ev)
    BY <1>1 DEF Emit, EmitUpTo
  <2> QED BY <1>1, <2>1, EmitType
<1>6. Shows(s.projection, applied)
      /\ s.projection.persistence_warning = projection.persistence_warning
  <2>1. ev.type # "PersistenceWarning"
    BY DEF VisibleTypes
  <2> QED BY <1>1, <1>5, <2>1, ReduceShows DEF StoreInv
<1>7. t \in {"none", "warn", "clear"}
  BY DEF Transition, Stores, Exists
<1>8. projection' = EmitTransition(s, t).projection
  BY <1>4 DEF Show
<1> HIDE DEF applied, rec, s, t
<1>9. Shows(projection', record')
  BY <1>3, <1>4, <1>5, <1>6, <1>7, <1>8, WarningShown DEF Shows
<1>10. Settled(ok)
  <2> USE DEF t
  <2> QED BY <1>3, <1>4, <1>5, <1>6, PersistSettles DEF StoreInv
<1>11. projection'.busy = Reduce(projection, ev).busy
       /\ projection'.active_run = Reduce(projection, ev).active_run
  BY <1>1, <1>5, <1>7, <1>8, WarningShown, ProjectReduces
<1> QED BY <1>3, <1>4, <1>9, <1>10, <1>11 DEF applied

\* While a run is active its events apply: they are never dropped.
LEMMA RunEventApplies ==
    ASSUME RunInv, Live, Running, NEW ev, ev.run = harness.active.id,
           ev.type \in RunEventTypes
    PROVE  DurableApplies(record, ev) /\ ValidEvent(projection, ev)
<1>1. RunningTurnsOf(record, ev.run) # {}
  BY DEF RunInv, RunAgrees, Running, RunningTurnsOf
<1>2. projection.active_run # None /\ projection.active_run.run = ev.run
  BY DEF RunInv, RunAgrees, Running
<1> QED BY <1>1, <1>2 DEF DurableApplies, ValidEvent, RunEventTypes

\* The end of a run, in every way it can end.
LEMMA RunEnds ==
    ASSUME SafetyInv, Live, Running, NEW ev \in SessionEvent, ev.type \in EndTypes,
           ev.run = harness.active.id, NEW history \in Seq(Message), NEW ok \in BOOLEAN,
           RecordDurably(ev, history, ok), harness'.active = None, ~activity',
           activity' \in BOOLEAN, UNCHANGED <<deleting, deletion>>
    PROVE  RunInv' /\ StoreInv' /\ DeletionInv'
<1>1. record \in Record /\ projection \in Projection /\ Live
  BY LiveTypes DEF SafetyInv
<1>2. DurableApplies(record, ev) /\ ValidEvent(projection, ev)
  BY RunEventApplies DEF SafetyInv, EndTypes, RunEventTypes
<1>3. /\ record' \in Record /\ Shows(projection', record') /\ Settled(ok)
      /\ record'.turns = ApplyDurableEvent(record, ev).turns
      /\ projection'.busy = Reduce(projection, ev).busy
      /\ projection'.active_run = Reduce(projection, ev).active_run
  BY <1>1, <1>2, RecordedStep DEF SafetyInv, EndTypes, VisibleTypes
<1>4. RunningTurns(record') = {}
  <2>1. RunningTurns(record) = {Len(record.turns)}
        /\ record.turns[Len(record.turns)].run = ev.run
    BY DEF SafetyInv, RunInv, RunAgrees, Running
  <2>2. RunningTurns(ApplyDurableEvent(record, ev)) = {}
    BY <1>1, <2>1, EndedTurn
  <2> QED BY <1>3, <2>2 DEF RunningTurns
<1>5. projection'.busy = FALSE /\ projection'.active_run = None
  BY <1>1, <1>3 DEF Reduce, EndTypes, Projection
<1>6. RunInv'
  BY <1>3, <1>4, <1>5 DEF RunInv, RunAgrees, Running
<1>7. StoreInv'
  BY <1>3, SettledIsSafe DEF StoreInv
<1>8. DeletionInv'
  <2>1. record' # None /\ record' # Removed
    BY <1>3, RecordAssumption, ActorAssumption
  <2> QED BY <1>3, <2>1, KeepsDeletion DEF SafetyInv, DeletionInv, Settled, Live
<1> QED BY <1>6, <1>7, <1>8

\* A step that settles the record and leaves the run alone.
LEMMA SettledStep ==
    ASSUME SafetyInv, Live, NEW ok \in BOOLEAN,
           record' \in Record, Shows(projection', record'), Settled(ok),
           RunAgrees(harness, projection', record'),
           UNCHANGED <<harness, activity, deleting, deletion>>
    PROVE  RunInv' /\ StoreInv' /\ DeletionInv'
<1>1. record' # None /\ record' # Removed
  BY RecordAssumption, ActorAssumption
<1>2. RunInv'
  BY <1>1 DEF SafetyInv, RunInv, Live, Running
<1>3. StoreInv'
  BY SettledIsSafe DEF StoreInv
<1>4. DeletionInv'
  BY <1>1, KeepsDeletion DEF SafetyInv, DeletionInv, Settled, Live
<1> QED BY <1>2, <1>3, <1>4

\* A step that stores nothing and shows an event that is not stored.
LEMMA ShownStep ==
    ASSUME SafetyInv, Live, NEW ev \in SessionEvent,
           ev.type \in {"AssistantDelta", "ToolFinished", "JobsChanged"},
           ValidEvent(projection, ev), Show(Emit(Visible, ev)),
           UNCHANGED <<row, record, dirty, harness, activity, deleting, deletion>>
    PROVE  RunInv' /\ StoreInv' /\ DeletionInv'
<1>1. record \in Record /\ projection \in Projection
  BY LiveTypes DEF SafetyInv
<1>2. projection' = Project(projection, ev)
  BY DEF Show, Emit, EmitUpTo, Visible
<1>3. DurableApplies(record, ev)
  BY DEF DurableApplies
<1>4. Shows(projection', record)
      /\ projection'.persistence_warning = projection.persistence_warning
  BY <1>1, <1>2, <1>3, ReduceShows DEF SafetyInv, StoreInv
<1>5. /\ projection'.busy = projection.busy
      /\ projection.active_run = None => projection'.active_run = None
      /\ projection.active_run # None =>
            /\ projection'.active_run # None
            /\ projection'.active_run.run = projection.active_run.run
            /\ projection'.active_run.prompt = projection.active_run.prompt
  <2>1. projection'.busy = Reduce(projection, ev).busy
        /\ projection'.active_run = Reduce(projection, ev).active_run
    BY <1>1, <1>2, ProjectReduces
  <2>2. CASE ev.type = "AssistantDelta"
    <3>1. projection.active_run \in ActiveRun
      BY <1>1, <2>2 DEF ValidEvent, RunEventTypes, Projection
    <3> DEFINE run == [projection.active_run EXCEPT !.text = projection.active_run.text + 1]
    <3>2. Reduce(projection, ev).busy = projection.busy
          /\ Reduce(projection, ev).active_run = run
      BY <1>1, <2>2 DEF Reduce, Projection
    <3>3. /\ run \in ActiveRun
          /\ run.run = projection.active_run.run /\ run.prompt = projection.active_run.prompt
      BY <3>1 DEF ActiveRun
    <3>4. run # None /\ projection.active_run # None
      BY <3>1, <3>3, RecordAssumption
    <3> HIDE DEF run
    <3> QED BY <2>1, <3>2, <3>3, <3>4
  <2>3. CASE ev.type \in {"ToolFinished", "JobsChanged"}
    BY <2>1, <2>3 DEF Reduce
  <2> QED BY <2>2, <2>3
<1>6. RunAgrees(harness, projection', record)
  BY <1>1, <1>5, KeepsRun DEF SafetyInv, RunInv
<1>7. RunInv'
  BY <1>6 DEF SafetyInv, RunInv, Live, Running
<1>8. StoreInv'
  BY <1>4 DEF SafetyInv, StoreInv, StoredOrDirty, WarningMeansUnsaved, Live
<1>9. DeletionInv'
  BY DEF SafetyInv, DeletionInv, Live
<1> QED BY <1>7, <1>8, <1>9

\* A setting or a plan that changes.
LEMMA ChangedStep ==
    ASSUME SafetyInv, Live, NEW ev \in SessionEvent, NEW rec \in Record, NEW ok \in BOOLEAN,
           \/ /\ ev.type = "ContextUsage" /\ PersistMetadata(rec, ok)
              /\ rec = [record EXCEPT !.settings.context_tokens = ev.tokens]
           \/ /\ ev.type = "SettingsChanged" /\ PersistMetadata(rec, ok)
              /\ rec = [record EXCEPT !.settings = ev.settings]
           \/ /\ ev.type = "PlanChanged" /\ PersistCheckpoint(rec, ok)
              /\ rec = [record EXCEPT !.plan = ev.plan],
           ValidEvent(projection, ev), record' = rec,
           Show(EmitTransition(Emit(Visible, ev), Transition(Stores(ok)))),
           UNCHANGED <<harness, activity, deleting, deletion>>
    PROVE  RunInv' /\ StoreInv' /\ DeletionInv'
<1> DEFINE s == Emit(Visible, ev)
           t == Transition(Stores(ok))
<1>1. record \in Record /\ projection \in Projection /\ Visible \in Shown
      /\ Visible.projection = projection
  BY LiveTypes DEF SafetyInv, Visible
<1>2. s \in Shown /\ s.projection = Project(projection, ev)
  <2>1. s.projection = Project(projection, ev)
    BY <1>1 DEF Emit, EmitUpTo
  <2> QED BY <1>1, <2>1, EmitType
<1>3. DurableApplies(record, ev)
  BY DEF DurableApplies
<1>4. Shows(s.projection, rec)
      /\ s.projection.persistence_warning = projection.persistence_warning
  <2> HIDE DEF s
  <2>1. Shows(projection, record) /\ ev.type # "PersistenceWarning"
    BY DEF SafetyInv, StoreInv
  <2>2. Project(projection, ev).persistence_warning = projection.persistence_warning
    BY <1>1, <1>3, <2>1, ReduceShows
  <2>3. CASE ev.type = "ContextUsage"
    <3>1. Shows(Project(projection, ev), [record EXCEPT !.settings.context_tokens = ev.tokens])
      BY <1>1, <1>3, <2>1, <2>3, ReduceShows
    <3>2. rec = [record EXCEPT !.settings.context_tokens = ev.tokens]
      BY <2>3
    <3> QED BY <1>2, <2>2, <3>1, <3>2
  <2>4. CASE ev.type = "SettingsChanged"
    <3>1. Shows(Project(projection, ev), [record EXCEPT !.settings = ev.settings])
      BY <1>1, <1>3, <2>1, <2>4, ReduceShows
    <3>2. rec = [record EXCEPT !.settings = ev.settings]
      BY <2>4
    <3> QED BY <1>2, <2>2, <3>1, <3>2
  <2>5. CASE ev.type = "PlanChanged"
    <3>1. Shows(Project(projection, ev), [record EXCEPT !.plan = ev.plan])
      BY <1>1, <1>3, <2>1, <2>5, ReduceShows
    <3>2. rec = [record EXCEPT !.plan = ev.plan]
      BY <2>5
    <3> QED BY <1>2, <2>2, <3>1, <3>2
  <2> QED BY <1>2, <2>2, <2>3, <2>4, <2>5
<1>5. t \in {"none", "warn", "clear"}
  BY DEF Transition, Stores, Exists
<1>6. projection' = EmitTransition(s, t).projection
  BY DEF Show
<1>7. Shows(projection', record')
  <2> HIDE DEF s, t
  <2> QED BY <1>2, <1>4, <1>5, <1>6, WarningShown DEF Shows
<1>8. \/ PersistCheckpoint(rec, ok)
      \/ /\ PersistMetadata(rec, ok)
         /\ rec = [record EXCEPT !.title = rec.title, !.settings = rec.settings]
  BY <1>1 DEF Record
<1>9. Settled(ok)
  <2> HIDE DEF s
  <2> QED BY <1>1, <1>2, <1>4, <1>8, PersistSettles DEF SafetyInv, StoreInv, s
<1>10. projection'.busy = projection.busy /\ projection'.active_run = projection.active_run
  <2>1. Reduce(projection, ev).busy = projection.busy
        /\ Reduce(projection, ev).active_run = projection.active_run
    BY <1>1 DEF Reduce, Projection
  <2> HIDE DEF s, t
  <2> QED BY <1>1, <1>2, <1>5, <1>6, <2>1, WarningShown, ProjectReduces
<1>11. rec.turns = record.turns /\ rec.transcript = record.transcript
  BY <1>1 DEF Record
<1>12. RunAgrees(harness, projection', record')
  BY <1>1, <1>10, <1>11, KeepsRun DEF SafetyInv, RunInv
<1> QED BY <1>7, <1>9, <1>12, SettledStep

\* A title the store accepted: the record gets it whether it is stored or
\* waiting, and so does the projection.
LEMMA TitledStep ==
    ASSUME SafetyInv, Live, Exists, NEW t \in Titles, NEW source \in {"generated", "manual"},
           row' = Retitled(row, t, source), InstallTitle(row'.title),
           UNCHANGED <<harness, activity, deleting, deletion>>
    PROVE  RunInv' /\ StoreInv' /\ DeletionInv'
<1> DEFINE title == row'.title
           ev == [type |-> "TitleChanged", title |-> title.text,
                  title_revision |-> title.revision]
           rec == [record EXCEPT !.title = title]
<1>1. record \in Record /\ projection \in Projection /\ Visible \in Shown
      /\ Visible.projection = projection
  BY LiveTypes DEF SafetyInv, Visible
<1>2. row \in Record
  BY ExistsType DEF SafetyInv
<1>3. title \in Title /\ row' = [row EXCEPT !.title = title] /\ row' \in Record
  BY <1>2, StoredTypes
<1> HIDE DEF title
<1>4. /\ record' = rec /\ dirty' = IF dirty # None THEN rec ELSE None
      /\ Show(Emit(Visible, ev))
  BY DEF InstallTitle, title
<1>5. ev \in SessionEvent /\ ValidEvent(projection, ev) /\ DurableApplies(record, ev)
  BY <1>3, SessionEventValid DEF SessionEvent, RunEventTypes, Title, DurableApplies
<1>6. projection' = Project(projection, ev)
  BY <1>1, <1>4 DEF Show, Emit, EmitUpTo
<1>7. rec \in Record /\ rec.turns = record.turns /\ rec.transcript = record.transcript
  BY <1>1, <1>3 DEF Record
<1>8. Shows(projection', rec)
      /\ projection'.persistence_warning = projection.persistence_warning
  BY <1>1, <1>5, <1>6, ReduceShows DEF SafetyInv, StoreInv
<1>9. projection'.busy = projection.busy /\ projection'.active_run = projection.active_run
  <2>1. Reduce(projection, ev).busy = projection.busy
        /\ Reduce(projection, ev).active_run = projection.active_run
    BY <1>1 DEF Reduce, Projection
  <2> HIDE DEF ev
  <2> QED BY <1>1, <1>5, <1>6, <2>1, ProjectReduces
<1>10. RunAgrees(harness, projection', rec)
  BY <1>1, <1>7, <1>9, KeepsRun DEF SafetyInv, RunInv
<1>11. rec # None /\ rec # Removed /\ row' # None /\ row' # Removed
  BY <1>3, <1>7, RecordAssumption, ActorAssumption
<1>12. dirty = None => row' = rec
  <2>1. dirty = None => row = record
    BY <1>2, ActorAssumption DEF SafetyInv, StoreInv, StoredOrDirty
  <2> QED BY <1>3, <2>1
<1> HIDE DEF rec, ev
<1>13. RunInv'
  BY <1>4, <1>10, <1>11 DEF SafetyInv, RunInv, Live, Running
<1>14. StoreInv'
  <2>1. StoredOrDirty'
    BY <1>4, <1>11, <1>12 DEF StoredOrDirty
  <2>2. WarningMeansUnsaved'
    BY <1>4, <1>8, <1>11 DEF SafetyInv, StoreInv, WarningMeansUnsaved
  <2> QED BY <1>4, <1>8, <2>1, <2>2 DEF StoreInv
<1>15. DeletionInv'
  BY <1>4, <1>11 DEF SafetyInv, DeletionInv, Live
<1> QED BY <1>13, <1>14, <1>15

\* An actor that ends takes its run and its state with it.
LEMMA ExitStep ==
    ASSUME ActorExits, deletion' = "none"
    PROVE  RunInv' /\ StoreInv' /\ DeletionInv'
BY DEF ActorExits, RunInv, StoreInv, StoredOrDirty, WarningMeansUnsaved, DeletionInv, Live

\* An actor that starts shows its record and has stored it.
LEMMA SpawnStep ==
    ASSUME NEW rec \in Record, NEW proj, NEW h \in HarnessState, Spawn(rec, proj, h),
           row' = rec, deletion' = "none", Shows(proj, rec), ~proj.persistence_warning,
           RunAgrees(h, proj, rec), activity' = (h.active # None)
    PROVE  RunInv' /\ StoreInv' /\ DeletionInv'
<1>1. rec # None /\ rec # Removed
  BY RecordAssumption, ActorAssumption
<1> QED BY <1>1 DEF Spawn, RunInv, StoreInv, StoredOrDirty, WarningMeansUnsaved, DeletionInv,
                    Live, Running

\* flush stores a retained checkpoint, or keeps it and warns.
LEMMA FlushStep ==
    ASSUME SafetyInv, Live, NEW ok \in BOOLEAN, FlushDirty(ok),
           UNCHANGED <<record, harness, activity, deleting, deletion>>
    PROVE  RunInv' /\ StoreInv' /\ DeletionInv'
<1> DEFINE ev == [type |-> "PersistenceWarning", warning |-> ~Stores(ok)]
<1>1. record \in Record /\ projection \in Projection /\ Visible \in Shown
      /\ Visible.projection = projection
  BY LiveTypes DEF SafetyInv, Visible
<1>2. CASE dirty = None
  <2>1. UNCHANGED <<row, dirty, projection, observers>>
    BY <1>2 DEF FlushDirty, Flushed, Show, Visible
  <2> QED BY <2>1 DEF SafetyInv, RunInv, StoreInv, StoredOrDirty, WarningMeansUnsaved,
                      DeletionInv, Live, Running
<1>3. CASE dirty # None
  <2>1. dirty = record
    BY <1>3 DEF SafetyInv, StoreInv, StoredOrDirty
  <2>2. Flushed(ok) = EmitTransition(Visible, IF Stores(ok) THEN "clear" ELSE "warn")
    BY <1>3 DEF Flushed, EmitTransition, Stores
  <2> DEFINE t == IF Stores(ok) THEN "clear" ELSE "warn"
  <2>3. projection' = EmitTransition(Visible, t).projection
    BY <2>2 DEF FlushDirty, Show
  <2>4. t \in {"none", "warn", "clear"} /\ t # "none"
    OBVIOUS
  <2>5. (t = "warn") = ~Stores(ok)
    BY DEF Stores
  <2> HIDE DEF t
  <2>6. /\ Shows(projection', record) /\ projection'.persistence_warning = ~Stores(ok)
        /\ projection'.busy = projection.busy
        /\ projection'.active_run = projection.active_run
    BY <1>1, <2>3, <2>4, <2>5, WarningShown DEF Shows, SafetyInv, StoreInv
  <2>7. Settled(ok)
    BY <1>3, <2>1, <2>6 DEF FlushDirty, Settled
  <2>8. RunAgrees(harness, projection', record)
    BY <1>1, <2>6, KeepsRun DEF SafetyInv, RunInv
  <2> QED BY <1>1, <2>6, <2>7, <2>8, SettledStep
<1> QED BY <1>2, <1>3

\* A first turn that was stored is the running turn of the first run.
LEMMA MaterializedAgrees ==
    ASSUME NEW p \in Prompts
    PROVE  LET rec == Materialized(p, DefaultSettings, FallbackTitle)
               h == HarnessSubmit(WithHistory(rec.history), p)
               proj == InstallPersistedStarted(FromRecord(rec), h.active.id, p)
           IN  /\ rec \in Record /\ h \in HarnessState /\ h.active # None
               /\ Shows(proj, rec) /\ ~proj.persistence_warning
               /\ RunAgrees(h, proj, rec)
<1> DEFINE rec == Materialized(p, DefaultSettings, FallbackTitle)
           h == HarnessSubmit(WithHistory(rec.history), p)
           proj == InstallPersistedStarted(FromRecord(rec), h.active.id, p)
           active == [run |-> 0, prompt |-> p, text |-> 0]
<1>1. rec \in Record
  BY StoredTypes, ActorAssumption
<1>2. /\ rec.turns = <<[run |-> 0, prompt_position |-> 0, status |-> "running"]>>
      /\ rec.transcript = <<[kind |-> "user", text |-> p]>>
      /\ rec.history = <<>>
  BY DEF Materialized
<1> HIDE DEF rec
<1>3. WithHistory(rec.history) \in HarnessState
  BY <1>1 DEF WithHistory, HarnessState, Record
<1>4. h \in HarnessState
  BY <1>3, HarnessTypes
<1>5. h.active = [id |-> 0, prompt |-> p]
  BY DEF HarnessSubmit, WithHistory
<1>6. h.active # None
  <2>1. h.active \in HarnessRun
    BY <1>5 DEF HarnessRun
  <2> QED BY <2>1, RunAssumption
<1>7. /\ proj.busy = TRUE /\ proj.active_run = active /\ proj.transcript = rec.transcript
      /\ proj.plan = rec.plan /\ proj.settings = rec.settings /\ proj.title = rec.title.text
      /\ proj.title_revision = rec.title.revision /\ proj.persistence_warning = FALSE
  BY <1>5 DEF InstallPersistedStarted, FromRecord
<1>8. active # None
  BY RecordAssumption DEF ActiveRun
<1>9. RunningTurns(rec) = {1}
  BY <1>2 DEF RunningTurns
<1>10. RunAgrees(h, proj, rec)
  <2>1. Len(rec.turns) = 1 /\ rec.turns[1].run = 0 /\ rec.turns[1].prompt_position = 0
        /\ Len(rec.transcript) = 1 /\ rec.transcript[0 + 1] = [kind |-> "user", text |-> p]
    BY <1>2
  <2>2. /\ h.active.id = 0 /\ h.active.prompt = p
        /\ proj.active_run.run = 0 /\ proj.active_run.prompt = p
    BY <1>5, <1>7
  <2> HIDE DEF h, proj, active
  <2>3. proj.busy = (h.active # None) /\ proj.active_run # None
    BY <1>6, <1>7, <1>8
  <2>4. rec.turns[1].prompt_position < Len(rec.transcript)
    BY <2>1
  <2>5. rec.transcript[rec.turns[1].prompt_position + 1] = [kind |-> "user", text |-> p]
    BY <2>1
  <2> QED BY <2>1, <2>2, <2>3, <2>4, <2>5, <1>6, <1>9 DEF RunAgrees
<1> QED BY <1>1, <1>4, <1>6, <1>7, <1>10 DEF Shows, rec

\* A harness without a run accepts a prompt, and the turn it starts is the
\* only running one.
LEMMA SubmitStep ==
    ASSUME SafetyInv, TypeOK', NEW p \in Prompts, NEW ok \in BOOLEAN, Submit(p, ok)
    PROVE  RunInv' /\ StoreInv' /\ DeletionInv'
<1> DEFINE ev == [type |-> "Started", run |-> harness.next_run_id, prompt |-> p]
           starts == DurableApplies(record, ev) /\ ValidEvent(projection, ev)
<1>1. Live /\ ~Running /\ record \in Record /\ harness \in HarnessState
      /\ projection \in Projection
  BY LiveTypes DEF Submit, Mutable, SafetyInv
<1>2. ev \in SessionEvent /\ record.history \in Seq(Message)
  BY <1>1 DEF SessionEvent, HarnessState, Record
<1>3. RunningTurns(record) = {} /\ projection.active_run = None
  BY <1>1 DEF SafetyInv, RunInv, RunAgrees, Running
<1>4. starts
  BY <1>3 DEF DurableApplies, ValidEvent, RunEventTypes
<1>5. /\ harness' = HarnessSubmit(harness, p)
      /\ activity' = (starts \/ activity)
      /\ RecordDurably(ev, record.history, ok)
      /\ UNCHANGED <<deleting, deletion>>
  BY <1>4 DEF Submit
<1>6. ev.type = "Started" /\ ev.run = harness.next_run_id /\ ev.prompt = p
  OBVIOUS
<1> HIDE DEF ev
<1>7. /\ record' \in Record /\ Shows(projection', record') /\ Settled(ok)
      /\ record'.turns = ApplyDurableEvent(record, ev).turns
      /\ record'.transcript = ApplyDurableEvent(record, ev).transcript
      /\ projection'.busy = Reduce(projection, ev).busy
      /\ projection'.active_run = Reduce(projection, ev).active_run
  BY <1>1, <1>2, <1>4, <1>5, <1>6, RecordedStep DEF SafetyInv, VisibleTypes
<1>8. record' # None /\ record' # Removed
  BY <1>7, RecordAssumption, ActorAssumption
<1>9. RunInv'
  <2> DEFINE n == Len(record'.turns)
             turns == ApplyDurableEvent(record, ev).turns
             active == [run |-> ev.run, prompt |-> ev.prompt, text |-> 0]
  <2>1. n \in Nat \ {0} /\ RunningTurns(record') = {n}
        /\ record'.turns[n].run = ev.run
        /\ record'.turns[n].prompt_position = Len(record.transcript)
        /\ record'.transcript = Append(record.transcript, [kind |-> "user", text |-> ev.prompt])
    <3>1. RunningTurns(record') = RunningTurns(ApplyDurableEvent(record, ev))
      BY <1>7 DEF RunningTurns
    <3> QED BY <1>1, <1>2, <1>3, <1>6, <1>7, <3>1, StartedTurn
  <2>2. harness'.active = [id |-> harness.next_run_id, prompt |-> p]
    BY <1>1, <1>5 DEF HarnessSubmit, HarnessState
  <2>3. harness'.active # None
    <3>1. harness'.active \in HarnessRun
      BY <1>1, <2>2 DEF HarnessRun, HarnessState
    <3> QED BY <3>1, RunAssumption
  <2>4. projection'.busy = TRUE /\ projection'.active_run = active
    BY <1>1, <1>6, <1>7 DEF Reduce, Projection
  <2>5. active # None
    <3>1. active \in ActiveRun
      BY <1>1, <1>6 DEF ActiveRun, HarnessState
    <3> QED BY <3>1, RecordAssumption
  <2>6. Len(record.transcript) < Len(record'.transcript)
        /\ record'.transcript[Len(record.transcript) + 1] = [kind |-> "user", text |-> p]
    <3>1. record.transcript \in Seq(TranscriptItem)
          /\ [kind |-> "user", text |-> ev.prompt] \in TranscriptItem
      BY <1>1, <1>6 DEF Record, TranscriptItem
    <3> QED BY <1>6, <2>1, <3>1, AppendProperties
  <2>7. activity' = Running'
    BY <1>4, <1>5, <2>3 DEF Running
  <2>8. /\ harness'.active.id = ev.run /\ harness'.active.prompt = p
        /\ projection'.active_run.run = ev.run /\ projection'.active_run.prompt = p
        /\ projection'.active_run # None /\ projection'.busy = (harness'.active # None)
    <3>1. active.run = ev.run /\ active.prompt = p
      BY <1>6
    <3>2. harness'.active.id = ev.run /\ harness'.active.prompt = p
      BY <1>6, <2>2
    <3> HIDE DEF active
    <3> QED BY <2>3, <2>4, <2>5, <3>1, <3>2
  <2>9. /\ record'.turns[n].prompt_position < Len(record'.transcript)
        /\ record'.transcript[record'.turns[n].prompt_position + 1]
             = [kind |-> "user", text |-> p]
    BY <2>1, <2>6
  <2>10. RunAgrees(harness', projection', record')
    BY <2>1, <2>3, <2>8, <2>9 DEF RunAgrees
  <2> QED BY <1>8, <2>7, <2>10 DEF RunInv, Live
<1>10. StoreInv'
  BY <1>7, SettledIsSafe DEF StoreInv
<1>11. DeletionInv'
  BY <1>1, <1>5, <1>7, <1>8, KeepsDeletion DEF SafetyInv, DeletionInv, Settled, Live
<1> QED BY <1>9, <1>10, <1>11

\* A session prepared for deletion has ended its run and tried to store it.
LEMMA PrepareStep ==
    ASSUME SafetyInv, NEW ok \in BOOLEAN, NEW jobsOk \in BOOLEAN, PrepareDelete(ok, jobsOk)
    PROVE  RunInv' /\ StoreInv' /\ DeletionInv'
<1> DEFINE ev == [type |-> "Cancelled", run |-> harness.active.id]
           rec == IF Running THEN ApplyDurableEvent(record, ev) ELSE record
           cleared == Stores(ok) /\ projection.persistence_warning
           s == IF Running THEN Emit(Visible, ev) ELSE Visible
           t == IF cleared THEN "clear" ELSE "none"
<1>1. Live /\ record \in Record /\ harness \in HarnessState /\ projection \in Projection
      /\ Visible \in Shown /\ Visible.projection = projection
  BY LiveTypes DEF PrepareDelete, Mutable, SafetyInv, Visible
<1>2. Running => DurableApplies(record, ev) /\ ValidEvent(projection, ev)
  BY <1>1, RunEventApplies DEF SafetyInv, RunEventTypes
<1>3. /\ deletion = "none" /\ deleting' = TRUE /\ harness' = HarnessDrop(harness)
      /\ activity' = (activity /\ ~Running) /\ record' = rec /\ PersistCheckpoint(rec, ok)
      /\ Show(EmitTransition(s, t)) /\ deletion' \in {"prepared", "failed"}
  BY <1>2 DEF PrepareDelete, ManagerIdle
<1>4. Running => ev \in SessionEvent
  BY <1>1 DEF SessionEvent, HarnessState, HarnessRun, Running
<1>5. ev.type = "Cancelled" /\ ev.run = harness.active.id
  OBVIOUS
<1> HIDE DEF ev
<1>6. s \in Shown /\ s.projection = IF Running THEN Project(projection, ev) ELSE projection
  <2>1. Running => s.projection = Project(projection, ev)
    BY <1>1 DEF Emit, EmitUpTo
  <2> QED BY <1>1, <1>2, <1>4, <2>1, EmitType
<1>7. /\ rec \in Record /\ RunningTurns(rec) = {}
      /\ Shows(s.projection, rec) /\ ~s.projection.busy /\ s.projection.busy \in BOOLEAN
      /\ s.projection.active_run = None
      /\ s.projection.persistence_warning = projection.persistence_warning
  <2>1. CASE Running
    <3>1. RunningTurns(record) = {Len(record.turns)}
          /\ record.turns[Len(record.turns)].run = ev.run
      BY <1>1, <1>5, <2>1 DEF SafetyInv, RunInv, RunAgrees, Running
    <3>2. rec \in Record /\ RunningTurns(rec) = {}
      BY <1>1, <1>2, <1>4, <1>5, <2>1, <3>1, EndedTurn, DurableEventType DEF EndTypes
    <3>3. Shows(s.projection, rec)
          /\ s.projection.persistence_warning = projection.persistence_warning
      <4>1. Shows(projection, record)
        BY <1>1 DEF SafetyInv, StoreInv
      <4>2. ev.type \in VisibleTypes /\ ev.type # "PersistenceWarning"
        BY <1>5 DEF VisibleTypes
      <4> HIDE DEF s
      <4> QED BY ZenonT(60), <1>1, <1>2, <1>4, <1>6, <2>1, <4>1, <4>2, ReduceShows
    <3>4. Reduce(projection, ev).busy = FALSE /\ Reduce(projection, ev).active_run = None
      BY <1>1, <1>5 DEF Reduce, Projection
    <3>5. s.projection = Project(projection, ev)
      BY <1>6, <2>1
    <3> HIDE DEF s, rec
    <3>6. s.projection.busy = FALSE /\ s.projection.active_run = None
      BY <1>1, <1>2, <1>4, <2>1, <3>4, <3>5, ProjectReduces
    <3> QED BY <3>2, <3>3, <3>6
  <2>2. CASE ~Running
    <3>1. RunningTurns(record) = {} /\ projection.active_run = None
          /\ projection.busy = FALSE /\ Shows(projection, record)
      BY <1>1, <2>2 DEF SafetyInv, RunInv, RunAgrees, Running, StoreInv
    <3>2. rec = record /\ s.projection = projection
      BY <1>6, <2>2
    <3> HIDE DEF rec, s
    <3> QED BY <1>1, <3>1, <3>2
  <2> QED BY <2>1, <2>2
<1>8. projection' = EmitTransition(s, t).projection
  BY <1>3 DEF Show
<1>9. t \in {"none", "warn", "clear"} /\ t # "warn" /\ (t = "none" <=> ~cleared)
  OBVIOUS
<1> HIDE DEF rec, s, t
<1>10. /\ Shows(projection', record') /\ projection'.busy = FALSE
       /\ projection'.active_run = None
       /\ projection'.persistence_warning = (projection.persistence_warning /\ ~cleared)
  BY <1>1, <1>3, <1>6, <1>7, <1>8, <1>9, WarningShown DEF Shows, Projection
<1>11. rec # None /\ rec # Removed
  BY <1>7, RecordAssumption, ActorAssumption
<1>12. harness'.active = None
  BY <1>1, <1>3 DEF HarnessDrop, HarnessState
<1>13. RunInv'
  <2>1. ~activity'
    BY <1>1, <1>3 DEF SafetyInv, RunInv
  <2>2. activity' = Running'
    BY <1>3, <1>12, <2>1 DEF Running, SafetyInv, TypeOK
  <2> QED BY <1>3, <1>7, <1>10, <1>11, <1>12, <2>2 DEF RunInv, RunAgrees, Live
<1>14. StoreInv'
  <2>1. StoredOrDirty'
    BY <1>3, <1>11 DEF StoredOrDirty, PersistCheckpoint
  <2>2. WarningMeansUnsaved'
    BY <1>3, <1>10, <1>11 DEF WarningMeansUnsaved, PersistCheckpoint
  <2> QED BY <1>10, <2>1, <2>2 DEF StoreInv
<1>15. DeletionInv'
  BY <1>1, <1>3, <1>11 DEF SafetyInv, DeletionInv, PersistCheckpoint, Live
<1> QED BY <1>13, <1>14, <1>15

-----------------------------------------------------------------------------
(***************************************************************************)
(* The invariant holds.                                                    *)
(***************************************************************************)

\* Every step of the session, its manager, its clients and its store keeps
\* the invariant.
LEMMA SafetyStep ==
    ASSUME SafetyInv, TypeOK', [Next]_vars
    PROVE  RunInv' /\ StoreInv' /\ DeletionInv'
<1>a. TypeOK /\ RunInv /\ StoreInv /\ DeletionInv
  BY DEF SafetyInv
<1>b. Live => /\ record \in Record /\ harness \in HarnessState /\ projection \in Projection
              /\ Visible \in Shown
  BY <1>a, LiveTypes
\* A session without an actor, before and after the step.
<1>c. ASSUME ~Live, UNCHANGED <<actorVars, activity, deletion>>
      PROVE  RunInv' /\ StoreInv' /\ DeletionInv'
  BY <1>a, <1>c DEF RunInv, StoreInv, StoredOrDirty, WarningMeansUnsaved, DeletionInv, Live,
                    actorVars
<1>1. ASSUME NEW p \in Prompts, MaterializeAndSubmit(p)
      PROVE  RunInv' /\ StoreInv' /\ DeletionInv'
  <2> DEFINE rec == Materialized(p, DefaultSettings, FallbackTitle)
             h == HarnessSubmit(WithHistory(rec.history), p)
             proj == InstallPersistedStarted(FromRecord(rec), h.active.id, p)
  <2>1. /\ rec \in Record /\ h \in HarnessState /\ h.active # None
        /\ Shows(proj, rec) /\ ~proj.persistence_warning /\ RunAgrees(h, proj, rec)
    BY MaterializedAgrees
  <2>2. row' = rec /\ Spawn(rec, proj, h) /\ activity' = TRUE /\ deletion' = deletion
        /\ row = None
    BY <1>1 DEF MaterializeAndSubmit
  <2>3. deletion = "none"
    BY <1>a, <2>2 DEF DeletionInv
  <2> HIDE DEF rec, h, proj
  <2> QED BY <2>1, <2>2, <2>3, SpawnStep
<1>2. ASSUME NEW p \in Prompts, MaterializeWithoutRun(p)
      PROVE  RunInv' /\ StoreInv' /\ DeletionInv'
  BY <1>a, <1>c, <1>2 DEF MaterializeWithoutRun, DeletionInv
<1>3. ASSUME NEW created \in BOOLEAN, Open(created)
      PROVE  RunInv' /\ StoreInv' /\ DeletionInv'
  <2> DEFINE rec == Interrupted(row)
             proj == FromRecord(rec)
             h == WithHistory(rec.history)
  <2>1. ~Live /\ Exists /\ deletion = "none" /\ row' = rec /\ UNCHANGED <<activity, deletion>>
        /\ IF created THEN Spawn(rec, proj, h) ELSE UNCHANGED actorVars
    BY <1>3 DEF Open, ManagerIdle
  <2>2. rec \in Record /\ RunningTurns(rec) = {}
    BY <1>a, <2>1, ExistsType, InterruptedType
  <2>3. h \in HarnessState /\ h.active = None
    BY <2>2 DEF WithHistory, HarnessState, Record
  <2>4. proj.busy = FALSE /\ proj.active_run = None /\ Shows(proj, rec)
        /\ ~proj.persistence_warning
    BY DEF FromRecord, Shows
  <2>5. activity = FALSE
    BY <1>a, <2>1 DEF RunInv, TypeOK
  <2> HIDE DEF rec, proj, h
  <2>6. RunAgrees(h, proj, rec) /\ activity' = (h.active # None)
    BY <2>1, <2>2, <2>3, <2>4, <2>5 DEF RunAgrees
  <2>7. CASE created
    BY <2>1, <2>2, <2>3, <2>4, <2>6, <2>7, SpawnStep
  <2>8. CASE ~created
    BY <1>c, <2>1, <2>8
  <2> QED BY <2>7, <2>8
<1>4. ASSUME NEW p \in Prompts, NEW ok \in BOOLEAN, Submit(p, ok)
      PROVE  RunInv' /\ StoreInv' /\ DeletionInv'
  BY <1>4, SubmitStep
<1>5. ASSUME NEW ok \in BOOLEAN, Cancel(ok)
      PROVE  RunInv' /\ StoreInv' /\ DeletionInv'
  <2> DEFINE ev == [type |-> "Cancelled", run |-> harness.active.id]
  <2>1. Live /\ Running /\ harness' = HarnessDrop(harness) /\ activity' = FALSE
        /\ RecordDurably(ev, record.history, ok) /\ UNCHANGED <<deleting, deletion>>
    BY <1>5 DEF Cancel, Mutable
  <2>2. ev \in SessionEvent /\ record.history \in Seq(Message) /\ harness'.active = None
    BY <1>b, <2>1 DEF SessionEvent, HarnessState, HarnessRun, Record, Running, HarnessDrop
  <2>3. ev.type \in EndTypes /\ ev.run = harness.active.id
    BY DEF EndTypes
  <2> HIDE DEF ev
  <2> QED BY <2>1, <2>2, <2>3, RunEnds
<1>6. ASSUME NEW response \in Responses, NEW ok \in BOOLEAN, Completed(response, ok)
      PROVE  RunInv' /\ StoreInv' /\ DeletionInv'
  <2> DEFINE h == HarnessComplete(harness, response)
             ev == [type |-> "Completed", run |-> harness.active.id, response |-> response]
  <2>1. Live /\ Running /\ harness' = h /\ activity' = FALSE
        /\ RecordDurably(ev, h.history, ok) /\ UNCHANGED <<deleting, deletion>>
    BY <1>6 DEF Completed, RunEvent
  <2>2. ev \in SessionEvent
    BY <1>b, <2>1 DEF SessionEvent, HarnessState, HarnessRun, Running
  <2>3. h \in HarnessState
    BY <1>b, <2>1, HarnessTypes DEF Running
  <2>4. h.active = None
    BY <1>b, <2>1 DEF HarnessComplete, HarnessState
  <2>5. ev.type \in EndTypes /\ ev.run = harness.active.id
    BY DEF EndTypes
  <2> HIDE DEF ev, h
  <2>6. h.history \in Seq(Message)
    BY <2>3 DEF HarnessState
  <2> QED BY <2>1, <2>2, <2>4, <2>5, <2>6, RunEnds
<1>7. ASSUME NEW ok \in BOOLEAN, RunFails(ok)
      PROVE  RunInv' /\ StoreInv' /\ DeletionInv'
  <2> DEFINE ev == [type |-> "Failed", run |-> harness.active.id, failure |-> "run"]
  <2>1. Live /\ Running /\ harness' = HarnessDrop(harness) /\ activity' = FALSE
        /\ RecordDurably(ev, record.history, ok) /\ UNCHANGED <<deleting, deletion>>
    BY <1>7 DEF RunFails, RunEvent
  <2>2. ev \in SessionEvent /\ record.history \in Seq(Message) /\ harness'.active = None
    BY <1>b, <2>1 DEF SessionEvent, Failures, HarnessState, HarnessRun, Record, Running,
                      HarnessDrop
  <2>3. ev.type \in EndTypes /\ ev.run = harness.active.id
    BY DEF EndTypes
  <2> HIDE DEF ev
  <2> QED BY <2>1, <2>2, <2>3, RunEnds
<1>8. ASSUME NEW ok \in BOOLEAN, ToolStarted(ok)
      PROVE  RunInv' /\ StoreInv' /\ DeletionInv'
  <2> DEFINE ev == [type |-> "ToolStarted", run |-> harness.active.id]
  <2>1. Live /\ Running /\ RecordDurably(ev, record.history, ok)
        /\ UNCHANGED <<harness, activity, deleting, deletion>>
    BY <1>8 DEF ToolStarted, RunEvent
  <2>2. ev \in SessionEvent /\ record.history \in Seq(Message)
    BY <1>b, <2>1 DEF SessionEvent, HarnessState, HarnessRun, Record, Running
  <2>3. ev.type = "ToolStarted" /\ ev.run = harness.active.id
    OBVIOUS
  <2> HIDE DEF ev
  <2>4. DurableApplies(record, ev) /\ ValidEvent(projection, ev)
    BY <1>a, <2>1, <2>3, RunEventApplies DEF RunEventTypes
  <2>5. /\ record' \in Record /\ Shows(projection', record') /\ Settled(ok)
        /\ record'.turns = ApplyDurableEvent(record, ev).turns
        /\ record'.transcript = ApplyDurableEvent(record, ev).transcript
        /\ projection'.busy = Reduce(projection, ev).busy
        /\ projection'.active_run = Reduce(projection, ev).active_run
    BY <1>a, <2>1, <2>2, <2>3, <2>4, RecordedStep DEF VisibleTypes
  <2>6. /\ record'.turns = record.turns
        /\ record'.transcript = Append(record.transcript, ItemOf(ev))
        /\ ItemOf(ev) \in TranscriptItem
        /\ projection'.busy = projection.busy /\ projection'.active_run = projection.active_run
    <3>1. /\ ApplyDurableEvent(record, ev).turns = record.turns
          /\ ApplyDurableEvent(record, ev).transcript = Append(record.transcript, ItemOf(ev))
      BY <1>b, <2>1, <2>3 DEF ApplyDurableEvent, Record
    <3>2. Reduce(projection, ev).busy = projection.busy
          /\ Reduce(projection, ev).active_run = projection.active_run
      BY <1>b, <2>1, <2>3 DEF Reduce, Projection
    <3>3. ItemOf(ev) \in TranscriptItem
      BY <2>2, <2>3, ItemType DEF VisibleTypes
    <3> QED BY <2>5, <3>1, <3>2, <3>3
  <2>7. RunAgrees(harness, projection', record')
    BY <1>a, <1>b, <2>1, <2>6, KeepsRun DEF RunInv
  <2> QED BY <2>1, <2>5, <2>7, SettledStep
<1>9. ASSUME NEW tokens \in TokenCounts, NEW ok \in BOOLEAN, ContextUsage(tokens, ok)
      PROVE  RunInv' /\ StoreInv' /\ DeletionInv'
  <2> DEFINE ev == [type |-> "ContextUsage", run |-> harness.active.id, tokens |-> tokens]
             rec == [record EXCEPT !.settings.context_tokens = tokens]
  <2>1. Live /\ Running
    BY <1>9 DEF ContextUsage, RunEvent
  <2>2. ev \in SessionEvent
    BY <1>b, <2>1, ActorAssumption DEF SessionEvent, HarnessState, HarnessRun, Running
  <2>3. rec \in Record
    BY <1>b, <2>1, ActorAssumption DEF Record, Settings
  <2>4. ValidEvent(projection, ev)
    BY <1>a, <2>1, RunEventApplies DEF RunEventTypes
  <2>5. /\ PersistMetadata(rec, ok) /\ record' = rec
        /\ Show(EmitTransition(Emit(Visible, ev), Transition(Stores(ok))))
        /\ UNCHANGED <<harness, activity, deleting, deletion>>
    BY <1>9, <2>4 DEF ContextUsage
  <2>6. ev.type = "ContextUsage" /\ rec = [record EXCEPT !.settings.context_tokens = ev.tokens]
    OBVIOUS
  <2> HIDE DEF ev, rec
  <2> QED BY <2>1, <2>2, <2>3, <2>4, <2>5, <2>6, ChangedStep
<1>10. ASSUME NEW type \in {"AssistantDelta", "ToolFinished"}, ShowRunEvent(type)
       PROVE  RunInv' /\ StoreInv' /\ DeletionInv'
  <2> DEFINE ev == [type |-> type, run |-> harness.active.id]
  <2>1. Live /\ Running /\ ValidEvent(projection, ev) /\ Show(Emit(Visible, ev))
        /\ UNCHANGED <<row, record, dirty, harness, activity, deleting, deletion>>
    BY <1>10 DEF ShowRunEvent, RunEvent
  <2>2. ev \in SessionEvent
    BY <1>b, <2>1 DEF SessionEvent, HarnessState, HarnessRun, Running
  <2>3. ev.type \in {"AssistantDelta", "ToolFinished", "JobsChanged"}
    OBVIOUS
  <2> HIDE DEF ev
  <2> QED BY <2>1, <2>2, <2>3, ShownStep
\* What selecting a model and selecting a level have in common.
<1>d. ASSUME Live, NEW settings \in Settings, NEW ok \in BOOLEAN, ChangeSettings(settings, ok)
      PROVE  RunInv' /\ StoreInv' /\ DeletionInv'
  <2> DEFINE ev == [type |-> "SettingsChanged", settings |-> settings]
             rec == [record EXCEPT !.settings = settings]
  <2>1. rec \in Record
    BY <1>b, <1>d DEF Record
  <2>2. ev \in SessionEvent /\ ValidEvent(projection, ev)
    BY SessionEventValid DEF SessionEvent, RunEventTypes
  <2>3. /\ PersistMetadata(rec, ok) /\ record' = rec
        /\ Show(EmitTransition(Emit(Visible, ev), Transition(Stores(ok))))
        /\ UNCHANGED <<harness, activity, deleting, deletion>>
    BY <1>d DEF ChangeSettings
  <2>4. ev.type = "SettingsChanged" /\ rec = [record EXCEPT !.settings = ev.settings]
    OBVIOUS
  <2> HIDE DEF ev, rec
  <2> QED BY <1>d, <2>1, <2>2, <2>3, <2>4, ChangedStep
<1>11. ASSUME NEW model \in Models, NEW ok \in BOOLEAN, SelectModel(model, ok)
       PROVE  RunInv' /\ StoreInv' /\ DeletionInv'
  <2>1. Live /\ ChangeSettings([record.settings EXCEPT !.model = model], ok)
    BY <1>11 DEF SelectModel, Mutable
  <2>2. [record.settings EXCEPT !.model = model] \in Settings
    BY <1>b, <2>1 DEF Record, Settings
  <2> QED BY <1>d, <2>1, <2>2
<1>12. ASSUME NEW level \in Reasonings, NEW ok \in BOOLEAN, SelectReasoning(level, ok)
       PROVE  RunInv' /\ StoreInv' /\ DeletionInv'
  <2>1. Live /\ ChangeSettings([record.settings EXCEPT !.reasoning = level], ok)
    BY <1>12 DEF SelectReasoning, Mutable
  <2>2. [record.settings EXCEPT !.reasoning = level] \in Settings
    BY <1>b, <2>1 DEF Record, Settings
  <2> QED BY <1>d, <2>1, <2>2
<1>13. ASSUME NEW plan \in Plans, NEW ok \in BOOLEAN, UpdatePlan(plan, ok)
       PROVE  RunInv' /\ StoreInv' /\ DeletionInv'
  <2> DEFINE ev == [type |-> "PlanChanged", plan |-> plan]
             rec == [record EXCEPT !.plan = plan]
  <2>1. Live /\ PersistCheckpoint(rec, ok) /\ record' = rec
        /\ Show(EmitTransition(Emit(Visible, ev), Transition(Stores(ok))))
        /\ UNCHANGED <<harness, activity, deleting, deletion>>
    BY <1>13 DEF UpdatePlan, RanBefore
  <2>2. rec \in Record
    BY <1>b, <2>1 DEF Record
  <2>3. ev \in SessionEvent /\ ValidEvent(projection, ev)
    BY SessionEventValid DEF SessionEvent, RunEventTypes
  <2>4. ev.type = "PlanChanged" /\ rec = [record EXCEPT !.plan = ev.plan]
    OBVIOUS
  <2> HIDE DEF ev, rec
  <2> QED BY <2>1, <2>2, <2>3, <2>4, ChangedStep
<1>14. CASE JobsChanged
  <2> DEFINE ev == [type |-> "JobsChanged"]
  <2>1. Live /\ Show(Emit(Visible, ev))
        /\ UNCHANGED <<row, record, dirty, harness, activity, deleting, deletion>>
    BY <1>14 DEF JobsChanged, RanBefore
  <2>2. ev \in SessionEvent /\ ValidEvent(projection, ev)
    BY SessionEventValid DEF SessionEvent, RunEventTypes
  <2>3. ev.type \in {"AssistantDelta", "ToolFinished", "JobsChanged"}
    OBVIOUS
  <2> HIDE DEF ev
  <2> QED BY <2>1, <2>2, <2>3, ShownStep
<1>15. ASSUME NEW text \in Titles, Rename(text)
       PROVE  RunInv' /\ StoreInv' /\ DeletionInv'
  <2>1. Exists /\ row' = Retitled(row, text, "manual")
        /\ UNCHANGED <<harness, activity, deleting, shutting_down, deletion>>
    BY <1>15 DEF Rename
  <2>2. CASE Live
    <3>1. InstallTitle(row'.title)
      BY <1>15, <2>1, <2>2 DEF Rename
    <3> QED BY <2>1, <2>2, <3>1, TitledStep
  <2>3. CASE ~Live
    BY <1>15, <1>c, <2>1, <2>3 DEF Rename, Mutable, actorVars
  <2> QED BY <2>2, <2>3
<1>16. ASSUME NEW text \in Titles \cup {None}, TitleGenerated(text)
       PROVE  RunInv' /\ StoreInv' /\ DeletionInv'
  <2> DEFINE accepted == /\ Mutable /\ Exists /\ text # None
                         /\ AcceptsGenerated(row, titleTask)
             stored == Retitled(row, text, "generated")
  <2>1. /\ row' = IF accepted THEN stored ELSE row
        /\ IF accepted THEN InstallTitle(stored.title)
                       ELSE UNCHANGED <<record, dirty, projection, observers>>
        /\ UNCHANGED <<harness, activity, deleting, deletion>>
    BY <1>16 DEF TitleGenerated
  <2>2. CASE accepted
    <3>1. Live /\ Exists /\ text \in Titles /\ row' = Retitled(row, text, "generated")
          /\ InstallTitle(row'.title)
      BY <2>1, <2>2 DEF Mutable
    <3> QED BY <2>1, <3>1, TitledStep
  <2>3. CASE ~accepted
    BY <1>a, <2>1, <2>3 DEF RunInv, StoreInv, StoredOrDirty, WarningMeansUnsaved, DeletionInv,
                            Live, Running
  <2> QED BY <2>2, <2>3
<1>17. ASSUME NEW ok \in BOOLEAN, NEW jobsOk \in BOOLEAN, PrepareDelete(ok, jobsOk)
       PROVE  RunInv' /\ StoreInv' /\ DeletionInv'
  BY <1>17, PrepareStep
<1>18. ASSUME NEW ok \in BOOLEAN, RepositoryDelete(ok)
       PROVE  RunInv' /\ StoreInv' /\ DeletionInv'
  <2>1. /\ deletion = "prepared" /\ row' = IF Stores(ok) THEN Removed ELSE row
        /\ deletion' = IF Stores(ok) THEN "removed" ELSE "failed"
        /\ UNCHANGED <<actorVars, activity>>
    BY <1>18 DEF RepositoryDelete
  <2>2. RunInv'
    BY <1>a, <2>1 DEF RunInv, Live, Running, actorVars
  <2>3. StoreInv'
    BY <1>a, <2>1 DEF StoreInv, StoredOrDirty, WarningMeansUnsaved, Live, actorVars
  <2>4. DeletionInv'
    BY <1>a, <2>1, ActorAssumption DEF DeletionInv, Live, actorVars
  <2> QED BY <2>2, <2>3, <2>4
<1>19. CASE DeleteCold
  BY <1>c, <1>19 DEF DeleteCold
<1>20. ASSUME FinishDelete \/ AbortDelete \/ Abandoned \/ Crash
       PROVE  RunInv' /\ StoreInv' /\ DeletionInv'
  BY <1>20, ExitStep DEF FinishDelete, AbortDelete, Abandoned, Crash, ManagerIdle
<1>21. ASSUME NEW ok \in BOOLEAN, Flush(ok) \/ ShutdownFails(ok)
       PROVE  RunInv' /\ StoreInv' /\ DeletionInv'
  BY <1>21, FlushStep DEF Flush, ShutdownFails, CanShutdown
<1>22. ASSUME NEW ok \in BOOLEAN, Shutdown(ok)
       PROVE  RunInv' /\ StoreInv' /\ DeletionInv'
  BY <1>22, ExitStep DEF Shutdown, CanShutdown, ManagerIdle
<1>23. ASSUME UNCHANGED <<row, actorVars, activity, deletion>>
       PROVE  RunInv' /\ StoreInv' /\ DeletionInv'
  BY <1>a, <1>23 DEF RunInv, StoreInv, StoredOrDirty, WarningMeansUnsaved, DeletionInv, Live,
                     Running, actorVars
<1>24. CASE ObserverNext
  BY <1>23, <1>24 DEF ObserverNext, Attach, Detach, Receive, ObserverClosed, Disconnect,
                      DetachConnection
<1>25. CASE UNCHANGED vars
  BY <1>23, <1>25 DEF vars
<1> QED
  BY <1>1, <1>2, <1>3, <1>4, <1>5, <1>6, <1>7, <1>8, <1>9, <1>10, <1>11, <1>12, <1>13, <1>14,
     <1>15, <1>16, <1>17, <1>18, <1>19, <1>20, <1>21, <1>22, <1>24, <1>25
  DEF Next, ManagerNext, CommandNext, RunNext

\* The inductive invariant holds in every reachable state.
THEOREM Safety == Spec => []SafetyInv
<1>1. Init => RunInv /\ StoreInv /\ DeletionInv
  BY DEF Init, RunInv, StoreInv, StoredOrDirty, WarningMeansUnsaved, DeletionInv, Live
<1>2. TypeOK /\ RunInv /\ StoreInv /\ DeletionInv => SafetyInv
  BY DEF SafetyInv
<1>3. SafetyInv /\ TypeOK' /\ [Next]_vars => SafetyInv'
  BY SafetyStep DEF SafetyInv
<1> QED BY <1>1, <1>2, <1>3, TypeCorrect, PTL DEF Spec

\* The harness, the projection, the record and the activity tracker agree on
\* the run of a live session, in every state of every run.
THEOREM RunAgreementHolds == Spec => []RunAgreement
<1>1. SafetyInv => RunAgreement
  BY DEF SafetyInv, RunInv, RunAgrees, RunAgreement, Running
<1> QED BY <1>1, Safety, PTL

\* What an actor shows is stored, or waits in dirty to be stored whole.
THEOREM StoredOrDirtyHolds == Spec => []StoredOrDirty
<1>1. SafetyInv => StoredOrDirty
  BY DEF SafetyInv, StoreInv
<1> QED BY <1>1, Safety, PTL

\* The projection clients see is the durable record.
THEOREM ProjectionShowsRecordHolds == Spec => []ProjectionShowsRecord
<1>1. SafetyInv => ProjectionShowsRecord
  BY DEF SafetyInv, StoreInv, Shows, ProjectionShowsRecord
<1> QED BY <1>1, Safety, PTL

\* Clients are warned exactly while something is not stored.
THEOREM WarningMeansUnsavedHolds == Spec => []WarningMeansUnsaved
<1>1. SafetyInv => WarningMeansUnsaved
  BY DEF SafetyInv, StoreInv
<1> QED BY <1>1, Safety, PTL

\* A shutdown that succeeds has stored the record of its actor.
THEOREM ShutdownStoresRecord == Spec => ShutdownLosesNothing
<1>1. ASSUME SafetyInv, [Next]_vars
      PROVE  [(\E ok \in BOOLEAN : Shutdown(ok)) => row' = record]_vars
  <2>1. SUFFICES ASSUME NEW ok \in BOOLEAN, Shutdown(ok) PROVE row' = record
    OBVIOUS
  <2>2. Live /\ deletion = "none" /\ row' = IF dirty # None THEN dirty ELSE row
    BY <2>1 DEF Shutdown, CanShutdown, ManagerIdle
  <2>3. row # Removed
    BY <1>1, <2>2 DEF SafetyInv, DeletionInv
  <2> QED BY <1>1, <2>2, <2>3 DEF SafetyInv, StoreInv, StoredOrDirty
<1> QED BY <1>1, Safety, PTL DEF Spec, ShutdownLosesNothing

\* No step brings back the row of a deleted session.
LEMMA RemovedStays ==
    ASSUME row = Removed, [Next]_vars
    PROVE  row' = Removed
<1>1. row # None /\ ~Exists /\ \A ok \in BOOLEAN : ~Stores(ok)
  BY ActorAssumption DEF Exists, Stores
<1>2. ASSUME ManagerNext PROVE row' = Removed
  <2>1. \A ok \in BOOLEAN : FlushDirty(ok) \/ Shutdown(ok) => row' = Removed
    BY <1>1 DEF FlushDirty, Shutdown
  <2> QED
    BY <1>1, <1>2, <2>1
    DEF ManagerNext, MaterializeAndSubmit, MaterializeWithoutRun, Open, Rename,
        TitleGenerated, PrepareDelete, PersistCheckpoint, RepositoryDelete, FinishDelete,
        AbortDelete, DeleteCold, Flush, ShutdownFails
<1>3. ASSUME NEW rec, NEW ok \in BOOLEAN, PersistCheckpoint(rec, ok) \/ PersistMetadata(rec, ok)
      PROVE  row' = Removed
  BY <1>1, <1>3 DEF PersistCheckpoint, PersistMetadata
<1>4. ASSUME NEW ev, NEW history, NEW ok \in BOOLEAN, RecordDurably(ev, history, ok)
      PROVE  row' = Removed
  BY <1>3, <1>4 DEF RecordDurably
<1>5. ASSUME CommandNext PROVE row' = Removed
  BY <1>3, <1>4, <1>5 DEF CommandNext, Submit, Cancel, SelectModel, SelectReasoning,
                          ChangeSettings
<1>6. ASSUME RunNext PROVE row' = Removed
  BY <1>3, <1>4, <1>6 DEF RunNext, Completed, RunFails, ToolStarted, ContextUsage,
                                ShowRunEvent, UpdatePlan, JobsChanged
<1>7. ASSUME ObserverNext \/ Abandoned \/ Crash \/ UNCHANGED vars PROVE row' = Removed
  BY <1>7 DEF ObserverNext, Attach, Detach, Receive, ObserverClosed, Disconnect,
                    DetachConnection, Abandoned, Crash, vars
<1> QED BY <1>2, <1>5, <1>6, <1>7 DEF Next

\* Nothing an actor still does, and no late checkpoint, brings back the row of
\* a deleted session.
THEOREM DeletedRowStays == Spec => DeletedStaysDeleted
<1>1. ASSUME row = Removed, [Next]_vars PROVE row' = Removed
  BY <1>1, RemovedStays
<1> QED BY <1>1, PTL DEF Spec, DeletedStaysDeleted

-----------------------------------------------------------------------------
(***************************************************************************)
(* How a record changes.                                                   *)
(***************************************************************************)

\* Transcript, turns and history stay as they are.
Keeps(old, new) ==
    new.transcript = old.transcript /\ new.turns = old.turns /\ new.history = old.history

\* A turn starts at the end of the transcript, while none runs.
Prompted(old, new) ==
    /\ RunningTurns(old) = {} /\ new.history = old.history
    /\ \E run \in Nat, prompt \in Prompts :
        /\ new.transcript = Append(old.transcript, [kind |-> "user", text |-> prompt])
        /\ new.turns = Append(old.turns, [run |-> run, prompt_position |-> Len(old.transcript),
                                          status |-> "running"])

\* The running turn, which is the last one, calls a tool.
ToolRan(old, new) ==
    LET n == Len(old.turns)
    IN  /\ RunningTurns(old) = {n} /\ new.turns = old.turns /\ new.history = old.history
        /\ new.transcript =
             Append(old.transcript, [kind |-> "tool_started", run |-> old.turns[n].run])

\* The running turn, which is the last one, gets its outcome; an exchange that
\* completed is added to the history.
Ended(old, new) ==
    LET n == Len(old.turns)
    IN  /\ RunningTurns(old) = {n}
        /\ \E status \in TurnStatus \ {"running"}, item \in TranscriptItem :
            /\ item.kind = OutcomeItem(status)
            /\ new.transcript = Append(old.transcript, item)
            /\ new.turns = [old.turns EXCEPT ![n].status = status]
            /\ new.history =
                IF status # "completed" THEN old.history
                ELSE old.history \o
                       <<[role |-> "user",
                          text |-> old.transcript[old.turns[n].prompt_position + 1].text],
                         [role |-> "assistant", text |-> item.text]>>

\* What the steps of a conversation leave alone.
SameExceptConversation(old, new) ==
    new.title = old.title /\ new.settings = old.settings /\ new.plan = old.plan

Advances(old, new) ==
    Keeps(old, new) \/ Prompted(old, new) \/ ToolRan(old, new) \/ Ended(old, new)

\* Only the last turn can be running.
LastRuns(rec) == RunningTurns(rec) \subseteq {Len(rec.turns)}

\* The two ways in which the row of a session comes to be.
First(rec) ==
    \E p \in Prompts :
        LET new == Materialized(p, DefaultSettings, FallbackTitle)
        IN  rec = new \/ rec = FailedStart(new)

\* load_sync adds the outcome of the one turn that was running, if any.
LEMMA InterruptedAdvances ==
    ASSUME NEW rec \in Record, LastRuns(rec)
    PROVE  LET new == Interrupted(rec)
               n == Len(rec.turns)
           IN  /\ Advances(rec, new) /\ SameExceptConversation(rec, new)
               /\ RunningTurns(rec) = {} => new = rec
               /\ RunningTurns(rec) # {} =>
                    /\ Ended(rec, new) /\ new.history = rec.history
                    /\ new.turns = [rec.turns EXCEPT ![n].status = "interrupted"]
<1> DEFINE S == RunningTurns(rec)
           n == Len(rec.turns)
           turns == [i \in DOMAIN rec.turns |->
                        IF i \in S THEN [rec.turns[i] EXCEPT !.status = "interrupted"]
                                   ELSE rec.turns[i]]
           failure(k) == [kind |-> "failed", run |-> rec.turns[NthRunning(rec, k)].run,
                          failure |-> "interrupted"]
           failures == [k \in 1 .. Cardinality(S) |-> failure(k)]
           new == Interrupted(rec)
<1>1. new = [rec EXCEPT !.turns = turns, !.transcript = rec.transcript \o failures]
  BY DEF Interrupted
<1>2. rec.turns \in Seq(DurableTurn) /\ rec.transcript \in Seq(TranscriptItem) /\ n \in Nat
  BY DEF Record
<1> HIDE DEF new
<1>3. /\ new.turns = turns /\ new.transcript = rec.transcript \o failures
      /\ new.history = rec.history /\ SameExceptConversation(rec, new)
  <2> HIDE DEF turns, failures
  <2> QED BY <1>1 DEF Record, SameExceptConversation
<1>4. CASE S = {}
  <2>1. turns = rec.turns
    BY <1>2, <1>4
  <2>2. Cardinality(S) = 0
    BY <1>4, FS_EmptySet
  <2>3. failures = <<>>
    BY <2>2
  <2> HIDE DEF turns, failures
  <2>4. new.transcript = rec.transcript
    BY <1>2, <1>3, <2>3, ConcatEmptySeq
  <2>5. new = rec
    <3>1. new = [rec EXCEPT !.turns = rec.turns, !.transcript = rec.transcript]
      BY <1>1, <1>3, <2>1, <2>4
    <3> QED BY <3>1 DEF Record
  <2> QED BY <1>3, <1>4, <2>1, <2>4, <2>5 DEF Advances, Keeps, new
<1>5. CASE S # {}
  <2>1. S = {n} /\ n \in DOMAIN rec.turns
    BY <1>5 DEF LastRuns, RunningTurns
  <2>2. turns = [rec.turns EXCEPT ![n].status = "interrupted"]
    BY <1>2, <2>1
  <2>3. Cardinality(S) = 1
    BY <2>1, FS_Singleton
  <2> DEFINE item == [kind |-> "failed", run |-> rec.turns[n].run, failure |-> "interrupted"]
  <2>4. NthRunning(rec, 1) = n
    <3>1. 1 \in 1 .. Cardinality(RunningTurns(rec))
      BY <2>3
    <3>2. NthRunning(rec, 1) \in RunningTurns(rec)
      BY <3>1, NthRunningExists
    <3> QED BY <2>1, <3>2
  <2>5. failures = <<item>>
    BY <2>3, <2>4
  <2>6. item \in TranscriptItem /\ item.kind = OutcomeItem("interrupted")
    <3>1. rec.turns[n] \in DurableTurn
      BY <1>2, <2>1
    <3> QED BY <3>1 DEF TranscriptItem, DurableTurn, Failures, OutcomeItem
  <2> HIDE DEF turns, failures, item
  <2>7. new.transcript = Append(rec.transcript, item)
    BY <1>2, <1>3, <2>5, <2>6, AppendIsConcat
  <2>8. "interrupted" \in TurnStatus \ {"running"} /\ "interrupted" # "completed"
    BY DEF TurnStatus
  <2>9. Ended(rec, new)
    BY <1>3, <2>1, <2>2, <2>6, <2>7, <2>8 DEF Ended
  <2> QED BY <1>3, <1>5, <2>2, <2>9 DEF Advances, new
<1> QED BY <1>4, <1>5

\* A durable event that applies advances the record, if it is the start of a
\* turn or an event of the last turn, and the history it comes with is the
\* old one or, for an answer, the exchange added to it.
LEMMA DurableAdvances ==
    ASSUME NEW rec \in Record, NEW ev \in SessionEvent, NEW history \in Seq(Message),
           LET n == Len(rec.turns)
           IN  \/ /\ ev.type = "Started" /\ RunningTurns(rec) = {}
                  /\ history = rec.history
               \/ /\ RunningTurns(rec) = {n} /\ rec.turns[n].run = ev.run
                  /\ \/ /\ ev.type \in {"ToolStarted", "Failed", "Cancelled"}
                        /\ history = rec.history
                     \/ /\ ev.type = "Completed"
                        /\ history = rec.history \o
                             <<[role |-> "user",
                                text |-> rec.transcript[rec.turns[n].prompt_position + 1].text],
                               [role |-> "assistant", text |-> ev.response]>>
    PROVE  LET new == [ApplyDurableEvent(rec, ev) EXCEPT !.history = history]
           IN  Advances(rec, new) /\ SameExceptConversation(rec, new)
<1> DEFINE applied == ApplyDurableEvent(rec, ev)
           new == [applied EXCEPT !.history = history]
           n == Len(rec.turns)
<1>0. DurableApplies(rec, ev)
  BY DEF DurableApplies, RunningTurnsOf
<1>1. applied \in Record
  BY <1>0, DurableEventType
<1>2. /\ new.transcript = applied.transcript /\ new.turns = applied.turns
      /\ new.history = history /\ SameExceptConversation(applied, new)
  <2> HIDE DEF applied
  <2> QED BY <1>1 DEF Record, SameExceptConversation
<1>3. SameExceptConversation(rec, new)
  <2>1. SameExceptConversation(rec, applied)
    BY DEF ApplyDurableEvent, Record, SameExceptConversation
  <2> HIDE DEF applied, new
  <2> QED BY <1>2, <2>1 DEF SameExceptConversation
<1> HIDE DEF new
<1>4. CASE ev.type = "Started"
  <2>1. /\ applied.transcript = Append(rec.transcript, [kind |-> "user", text |-> ev.prompt])
        /\ applied.turns = Append(rec.turns, [run |-> ev.run,
                                              prompt_position |-> Len(rec.transcript),
                                              status |-> "running"])
    BY <1>4 DEF ApplyDurableEvent, ItemOf, Record
  <2>2. ev.run \in Nat /\ ev.prompt \in Prompts
    BY <1>4 DEF SessionEvent
  <2>3. RunningTurns(rec) = {} /\ history = rec.history
    BY <1>4
  <2> HIDE DEF applied
  <2>4. Prompted(rec, new)
    BY <1>2, <2>1, <2>2, <2>3 DEF Prompted
  <2> QED BY <1>2, <1>3, <2>4 DEF Advances, new, applied
<1>5. CASE ev.type = "ToolStarted"
  <2>1. /\ applied.transcript =
             Append(rec.transcript, [kind |-> "tool_started", run |-> rec.turns[n].run])
        /\ applied.turns = rec.turns
    BY <1>5 DEF ApplyDurableEvent, ItemOf, Record
  <2> HIDE DEF applied
  <2>2. ToolRan(rec, new)
    BY <1>2, <1>5, <2>1 DEF ToolRan
  <2> QED BY <1>2, <1>3, <2>2 DEF Advances, new, applied
<1>6. CASE ev.type \in EndTypes
  <2> DEFINE item == ItemOf(ev)
             status == OutcomeOf(ev)
  <2>1. RunningTurns(rec) = {n} /\ rec.turns[n].run = ev.run
    BY <1>6 DEF EndTypes
  <2>2. RunningTurn(rec, ev.run) = n
    <3>1. RunningTurnsOf(rec, ev.run) = {n}
      BY <2>1 DEF RunningTurnsOf
    <3> QED BY <3>1, RunningTurnExists
  <2>3. /\ applied.transcript = Append(rec.transcript, item)
        /\ applied.turns = [rec.turns EXCEPT ![n].status = status]
    BY <1>6, <2>2 DEF ApplyDurableEvent, EndTypes, Record
  <2>4. status \in TurnStatus \ {"running"} /\ item.kind = OutcomeItem(status)
        /\ (status = "completed" <=> ev.type = "Completed")
        /\ (ev.type = "Completed" => item.text = ev.response)
    BY <1>6 DEF OutcomeOf, EndTypes, TurnStatus, ItemOf, OutcomeItem
  <2>5. item \in TranscriptItem
    BY <1>6, ItemType DEF EndTypes, VisibleTypes
  <2>6. history = IF status # "completed" THEN rec.history
                  ELSE rec.history \o
                         <<[role |-> "user",
                            text |-> rec.transcript[rec.turns[n].prompt_position + 1].text],
                           [role |-> "assistant", text |-> item.text]>>
    BY <1>6, <2>4 DEF EndTypes
  <2> HIDE DEF applied, item, status
  <2>7. Ended(rec, new)
    BY ZenonT(60), <1>2, <2>1, <2>3, <2>4, <2>5, <2>6 DEF Ended
  <2> QED BY <1>2, <1>3, <2>7 DEF Advances, new, applied
<1> QED BY <1>4, <1>5, <1>6 DEF EndTypes

\* The harness sends the history the record keeps.
HistoryAgrees == Live => record.history = harness.history

-----------------------------------------------------------------------------
(***************************************************************************)
(* What a step does to the row and the record.                             *)
(***************************************************************************)

\* The record of a live actor advances, in its conversation or beside it, and the
\* store keeps the old row or has the new record; or the row is removed.
LiveShape ==
    /\ Live /\ Live' /\ Advances(record, record') /\ record'.title = record.title
    /\ Keeps(record, record') \/ SameExceptConversation(record, record')
    /\ row' \in {row, record'} \/ (row' = Removed /\ UNCHANGED record)

\* The store gives the row a title, and a live actor takes it over.
TitleShape ==
    /\ Exists
    /\ \E t \in Titles, source \in {"generated", "manual"} :
        /\ row' = Retitled(row, t, source)
        /\ source = "generated" => row.title.source # "manual"
    /\ \/ Live /\ Live' /\ record' = [record EXCEPT !.title = row'.title]
       \/ ~Live /\ ~Live'

\* The row is written, or loaded, and an actor may start with it.
StartShape ==
    /\ ~Live
    /\ \/ row = None /\ First(row')
       \/ Exists /\ row' = Interrupted(row)
    /\ Live' => record' = row'

\* There is no actor any more; its last step may store its record.
ExitShape == ~Live' /\ (row' = row \/ (~Live /\ row' = Removed) \/ (Live /\ row' = record))

StepShape == LiveShape \/ TitleShape \/ StartShape \/ ExitShape

\* A step that leaves the row, the record and the harness alone.
LEMMA UnchangedShape ==
    ASSUME HistoryAgrees, UNCHANGED <<row, record, harness>>
    PROVE  StepShape /\ HistoryAgrees'
BY DEF HistoryAgrees, StepShape, LiveShape, ExitShape, Advances, Keeps, Live

\* A durable event of the last turn, or the start of one.
LEMMA RecordedShape ==
    ASSUME TypeOK, Live, NEW ev \in SessionEvent, NEW history \in Seq(Message), NEW ok \in BOOLEAN,
           LET n == Len(record.turns)
           IN  \/ /\ ev.type = "Started" /\ RunningTurns(record) = {}
                  /\ history = record.history
               \/ /\ RunningTurns(record) = {n} /\ record.turns[n].run = ev.run
                  /\ \/ /\ ev.type \in {"ToolStarted", "Failed", "Cancelled"}
                        /\ history = record.history
                     \/ /\ ev.type = "Completed"
                        /\ history = record.history \o
                             <<[role |-> "user",
                                text |-> record.transcript[record.turns[n].prompt_position + 1].text],
                               [role |-> "assistant", text |-> ev.response]>>,
           ValidEvent(projection, ev), RecordDurably(ev, history, ok)
    PROVE  LiveShape /\ record'.history = history
<1> DEFINE applied == ApplyDurableEvent(record, ev)
           new == [applied EXCEPT !.history = history]
<1>1. record \in Record
  BY LiveTypes
<1>2. DurableApplies(record, ev)
  BY DEF DurableApplies, RunningTurnsOf
<1>3. applied \in Record
  BY <1>1, <1>2, DurableEventType
<1>4. new \in Record /\ new.history = history
  <2> HIDE DEF applied
  <2> QED BY <1>3 DEF Record
<1>5. Advances(record, new) /\ SameExceptConversation(record, new)
  BY <1>1, DurableAdvances
<1>6. record' = new /\ PersistCheckpoint(new, ok)
  BY <1>2 DEF RecordDurably
<1> HIDE DEF applied, new
<1>7. row' \in {row, record'}
  BY <1>6 DEF PersistCheckpoint
<1>8. Live'
  BY <1>4, <1>6, RecordAssumption DEF Live
<1> QED BY <1>4, <1>5, <1>6, <1>7, <1>8 DEF LiveShape, SameExceptConversation

\* The turn of an active run is the last turn of the record.
LEMMA ActiveTurn ==
    ASSUME SafetyInv, Live, Running
    PROVE  LET n == Len(record.turns)
           IN  /\ RunningTurns(record) = {n} /\ record.turns[n].run = harness.active.id
               /\ record.transcript[record.turns[n].prompt_position + 1]
                    = [kind |-> "user", text |-> harness.active.prompt]
BY DEF SafetyInv, RunInv, RunAgrees, Running

\* A change of settings or plan, stored or retained.
LEMMA ChangedShape ==
    ASSUME SafetyInv, HistoryAgrees, Live, NEW rec \in Record, NEW ok \in BOOLEAN,
           rec.transcript = record.transcript, rec.turns = record.turns,
           rec.history = record.history, rec.title = record.title,
           \/ PersistCheckpoint(rec, ok)
           \/ PersistMetadata(rec, ok) /\ rec = [record EXCEPT !.settings = rec.settings],
           record' = rec, UNCHANGED harness
    PROVE  StepShape /\ HistoryAgrees'
<1>1. row' \in {row, record'}
  <2>1. CASE PersistCheckpoint(rec, ok)
    BY <2>1 DEF PersistCheckpoint
  <2>2. CASE PersistMetadata(rec, ok) /\ rec = [record EXCEPT !.settings = rec.settings]
    <3>1. Stores(ok) /\ dirty = None => row = record
      BY DEF SafetyInv, StoreInv, StoredOrDirty, Stores, Exists
    <3>2. record \in Record
      BY LiveTypes DEF SafetyInv
    <3>3. Stores(ok) /\ dirty = None => WithMetadata(row, rec) = rec
      BY <2>2, <3>1, <3>2 DEF WithMetadata, Record
    <3> QED BY <2>2, <3>3 DEF PersistMetadata
  <2> QED BY <2>1, <2>2
<1>2. Live'
  BY RecordAssumption DEF Live
<1>3. LiveShape
  BY <1>1, <1>2 DEF LiveShape, Advances, Keeps
<1> QED BY <1>3 DEF StepShape, HistoryAgrees

\* A title the store accepted.
LEMMA TitledShape ==
    ASSUME SafetyInv, HistoryAgrees, Exists, NEW t \in Titles,
           NEW source \in {"generated", "manual"},
           row' = Retitled(row, t, source),
           source = "generated" => row.title.source # "manual",
           \/ Live /\ InstallTitle(row'.title)
           \/ ~Live /\ UNCHANGED record,
           UNCHANGED harness
    PROVE  StepShape /\ HistoryAgrees'
<1>1. CASE Live
  <2> DEFINE rec == [record EXCEPT !.title = row'.title]
  <2>1. record' = rec
    BY <1>1 DEF InstallTitle
  <2>2. row'.title \in Title
    BY ExistsType, StoredTypes DEF SafetyInv
  <2>3. record \in Record
    BY <1>1, LiveTypes DEF SafetyInv
  <2>4. rec \in Record /\ rec.history = record.history
    BY <2>2, <2>3 DEF Record
  <2>5. Live'
    BY <2>1, <2>4, RecordAssumption DEF Live
  <2>6. TitleShape
    BY <1>1, <2>1, <2>5 DEF TitleShape
  <2> QED BY <1>1, <2>1, <2>4, <2>6 DEF StepShape, HistoryAgrees
<1>2. CASE ~Live
  BY <1>2 DEF StepShape, TitleShape, HistoryAgrees, Live
<1> QED BY <1>1, <1>2

\* Every step of the session has one of the shapes, and keeps the histories of
\* the record and of the harness the same.
LEMMA StepHasShape ==
    ASSUME SafetyInv, HistoryAgrees, [Next]_vars
    PROVE  StepShape /\ HistoryAgrees'
<1>b. Live => record \in Record /\ harness \in HarnessState /\ projection \in Projection
  BY LiveTypes DEF SafetyInv
<1>1. ASSUME NEW p \in Prompts, MaterializeAndSubmit(p)
      PROVE  StepShape /\ HistoryAgrees'
  <2> DEFINE rec == Materialized(p, DefaultSettings, FallbackTitle)
             h == HarnessSubmit(WithHistory(rec.history), p)
  <2>1. row = None /\ row' = rec /\ record' = rec /\ harness' = h
    BY <1>1 DEF MaterializeAndSubmit, Spawn
  <2>2. ~Live
    BY <2>1 DEF SafetyInv, DeletionInv
  <2>3. h.history = rec.history
    BY DEF HarnessSubmit, WithHistory
  <2>4. First(rec)
    BY DEF First
  <2> HIDE DEF rec, h
  <2> QED BY <2>1, <2>2, <2>3, <2>4 DEF StepShape, StartShape, HistoryAgrees
<1>2. ASSUME NEW p \in Prompts, MaterializeWithoutRun(p)
      PROVE  StepShape /\ HistoryAgrees'
  <2> DEFINE rec == Materialized(p, DefaultSettings, FallbackTitle)
  <2>1. row = None /\ row' \in {FailedStart(rec), Removed, rec} /\ UNCHANGED actorVars
    BY <1>2 DEF MaterializeWithoutRun
  <2>2. ~Live
    BY <2>1 DEF SafetyInv, DeletionInv
  <2>3. First(rec) /\ First(FailedStart(rec))
    BY DEF First
  <2> HIDE DEF rec
  <2> QED BY <2>1, <2>2, <2>3 DEF StepShape, StartShape, ExitShape, HistoryAgrees, Live,
                                  actorVars
<1>3. ASSUME NEW created \in BOOLEAN, Open(created)
      PROVE  StepShape /\ HistoryAgrees'
  <2> DEFINE rec == Interrupted(row)
  <2>1. ~Live /\ Exists /\ row' = rec
        /\ IF created THEN Spawn(rec, FromRecord(rec), WithHistory(rec.history))
                      ELSE UNCHANGED actorVars
    BY <1>3 DEF Open
  <2>2. Live' => record' = rec /\ harness' = WithHistory(rec.history)
    BY <2>1 DEF Spawn, Live, actorVars
  <2> HIDE DEF rec
  <2>3. HistoryAgrees'
    BY <2>2 DEF HistoryAgrees, WithHistory
  <2> QED BY <2>1, <2>2, <2>3 DEF StepShape, StartShape, rec
<1>4. ASSUME NEW p \in Prompts, NEW ok \in BOOLEAN, Submit(p, ok)
      PROVE  StepShape /\ HistoryAgrees'
  <2> DEFINE ev == [type |-> "Started", run |-> harness.next_run_id, prompt |-> p]
  <2>1. Live /\ ~Running
    BY <1>4 DEF Submit, Mutable
  <2>2. RunningTurns(record) = {} /\ projection.active_run = None
    BY <2>1 DEF SafetyInv, RunInv, RunAgrees, Running
  <2>3. DurableApplies(record, ev) /\ ValidEvent(projection, ev)
    BY <2>2 DEF DurableApplies, ValidEvent, RunEventTypes
  <2>4. RecordDurably(ev, record.history, ok) /\ harness' = HarnessSubmit(harness, p)
    BY <1>4, <2>3 DEF Submit
  <2>5. ev \in SessionEvent /\ record.history \in Seq(Message) /\ ev.type = "Started"
    BY <1>b, <2>1 DEF SessionEvent, HarnessState, Record
  <2> HIDE DEF ev
  <2>6. LiveShape /\ record'.history = record.history
    BY <2>1, <2>2, <2>3, <2>4, <2>5, RecordedShape DEF SafetyInv
  <2>7. harness'.history = harness.history
    BY <1>b, <2>1, <2>4 DEF HarnessSubmit, HarnessState
  <2> QED BY <2>1, <2>6, <2>7 DEF StepShape, HistoryAgrees
\* What cancelling, failing and calling a tool have in common.
<1>a. ASSUME Live, Running, NEW ev \in SessionEvent, NEW ok \in BOOLEAN,
             ev.type \in {"ToolStarted", "Failed", "Cancelled"}, ev.run = harness.active.id,
             RecordDurably(ev, record.history, ok), harness' \in {harness, HarnessDrop(harness)}
      PROVE  StepShape /\ HistoryAgrees'
  <2>1. DurableApplies(record, ev) /\ ValidEvent(projection, ev)
    BY <1>a, RunEventApplies DEF SafetyInv, RunEventTypes
  <2>2. LiveShape /\ record'.history = record.history
    <3>1. record.history \in Seq(Message)
      BY <1>a, <1>b DEF Record
    <3> QED BY <1>a, <2>1, <3>1, ActiveTurn, RecordedShape DEF SafetyInv
  <2>3. harness'.history = harness.history
    BY <1>a, <1>b DEF HarnessDrop, HarnessState
  <2> QED BY <1>a, <2>2, <2>3 DEF StepShape, HistoryAgrees
<1>5. ASSUME NEW ok \in BOOLEAN, Cancel(ok)
      PROVE  StepShape /\ HistoryAgrees'
  <2> DEFINE ev == [type |-> "Cancelled", run |-> harness.active.id]
  <2>1. Live /\ Running /\ harness' = HarnessDrop(harness)
        /\ RecordDurably(ev, record.history, ok)
    BY <1>5 DEF Cancel, Mutable
  <2>2. ev \in SessionEvent
    BY <1>b, <2>1 DEF SessionEvent, HarnessState, HarnessRun, Running
  <2>3. ev.type = "Cancelled" /\ ev.run = harness.active.id
    OBVIOUS
  <2> HIDE DEF ev
  <2> QED BY <1>a, <2>1, <2>2, <2>3
<1>6. ASSUME NEW response \in Responses, NEW ok \in BOOLEAN, Completed(response, ok)
      PROVE  StepShape /\ HistoryAgrees'
  <2> DEFINE h == HarnessComplete(harness, response)
             ev == [type |-> "Completed", run |-> harness.active.id, response |-> response]
             n == Len(record.turns)
             prompt == record.transcript[record.turns[n].prompt_position + 1].text
             exchange == <<[role |-> "user", text |-> prompt],
                           [role |-> "assistant", text |-> response]>>
  <2>1. Live /\ Running /\ harness' = h /\ RecordDurably(ev, h.history, ok)
    BY <1>6 DEF Completed, RunEvent
  <2>2. ev \in SessionEvent
    BY <1>b, <2>1 DEF SessionEvent, HarnessState, HarnessRun, Running
  <2>3. h \in HarnessState /\ h.history \in Seq(Message)
    BY <1>b, <2>1, HarnessTypes DEF Running, HarnessState
  <2>4. prompt = harness.active.prompt
    BY <2>1, ActiveTurn
  <2> HIDE DEF prompt
  <2>5. h.history = record.history \o exchange
    BY <1>b, <2>1, <2>4 DEF HarnessComplete, HarnessState, HistoryAgrees
  <2>6. ev.type = "Completed" /\ ev.run = harness.active.id /\ ev.response = response
    OBVIOUS
  <2> HIDE DEF ev, h
  <2>7. ValidEvent(projection, ev)
    BY <2>1, <2>6, RunEventApplies DEF SafetyInv, RunEventTypes
  <2>8. LiveShape /\ record'.history = h.history
    <3> USE DEF prompt
    <3> QED BY <2>1, <2>2, <2>3, <2>5, <2>6, <2>7, ActiveTurn, RecordedShape DEF SafetyInv
  <2> QED BY <2>1, <2>8 DEF StepShape, HistoryAgrees
<1>7. ASSUME NEW ok \in BOOLEAN, RunFails(ok)
      PROVE  StepShape /\ HistoryAgrees'
  <2> DEFINE ev == [type |-> "Failed", run |-> harness.active.id, failure |-> "run"]
  <2>1. Live /\ Running /\ harness' = HarnessDrop(harness)
        /\ RecordDurably(ev, record.history, ok)
    BY <1>7 DEF RunFails, RunEvent
  <2>2. ev \in SessionEvent
    BY <1>b, <2>1 DEF SessionEvent, Failures, HarnessState, HarnessRun, Running
  <2>3. ev.type = "Failed" /\ ev.run = harness.active.id
    OBVIOUS
  <2> HIDE DEF ev
  <2> QED BY <1>a, <2>1, <2>2, <2>3
<1>8. ASSUME NEW ok \in BOOLEAN, ToolStarted(ok)
      PROVE  StepShape /\ HistoryAgrees'
  <2> DEFINE ev == [type |-> "ToolStarted", run |-> harness.active.id]
  <2>1. Live /\ Running /\ UNCHANGED harness /\ RecordDurably(ev, record.history, ok)
    BY <1>8 DEF ToolStarted, RunEvent
  <2>2. ev \in SessionEvent
    BY <1>b, <2>1 DEF SessionEvent, HarnessState, HarnessRun, Running
  <2>3. ev.type = "ToolStarted" /\ ev.run = harness.active.id
    OBVIOUS
  <2> HIDE DEF ev
  <2> QED BY <1>a, <2>1, <2>2, <2>3
<1>9. ASSUME NEW tokens \in TokenCounts, NEW ok \in BOOLEAN, ContextUsage(tokens, ok)
      PROVE  StepShape /\ HistoryAgrees'
  <2> DEFINE ev == [type |-> "ContextUsage", run |-> harness.active.id, tokens |-> tokens]
             rec == [record EXCEPT !.settings.context_tokens = tokens]
  <2>1. Live /\ Running /\ record' = rec /\ UNCHANGED harness
    BY <1>9 DEF ContextUsage, RunEvent
  <2>2. ValidEvent(projection, ev)
    BY <2>1, RunEventApplies DEF RunEventTypes, SafetyInv
  <2>3. PersistMetadata(rec, ok)
    BY <1>9, <2>2 DEF ContextUsage
  <2>4. /\ rec \in Record /\ rec = [record EXCEPT !.settings = rec.settings]
        /\ rec.transcript = record.transcript /\ rec.turns = record.turns
        /\ rec.history = record.history /\ rec.title = record.title
    BY <1>b, <2>1, ActorAssumption DEF Record, Settings
  <2> HIDE DEF rec
  <2> QED BY <2>1, <2>3, <2>4, ChangedShape
<1>10. ASSUME NEW type \in {"AssistantDelta", "ToolFinished"}, ShowRunEvent(type)
       PROVE  StepShape /\ HistoryAgrees'
  BY <1>10, UnchangedShape DEF ShowRunEvent
<1>d. ASSUME Live, NEW settings \in Settings, NEW ok \in BOOLEAN, ChangeSettings(settings, ok)
      PROVE  StepShape /\ HistoryAgrees'
  <2> DEFINE rec == [record EXCEPT !.settings = settings]
  <2>1. PersistMetadata(rec, ok) /\ record' = rec /\ UNCHANGED harness
    BY <1>d DEF ChangeSettings
  <2>2. /\ rec \in Record /\ rec = [record EXCEPT !.settings = rec.settings]
        /\ rec.transcript = record.transcript /\ rec.turns = record.turns
        /\ rec.history = record.history /\ rec.title = record.title
    BY <1>b, <1>d DEF Record
  <2> HIDE DEF rec
  <2> QED BY <1>d, <2>1, <2>2, ChangedShape
<1>11. ASSUME NEW model \in Models, NEW ok \in BOOLEAN, SelectModel(model, ok)
       PROVE  StepShape /\ HistoryAgrees'
  <2>1. Live /\ ChangeSettings([record.settings EXCEPT !.model = model], ok)
    BY <1>11 DEF SelectModel, Mutable
  <2>2. [record.settings EXCEPT !.model = model] \in Settings
    BY <1>b, <2>1 DEF Record, Settings
  <2> QED BY <1>d, <2>1, <2>2
<1>12. ASSUME NEW level \in Reasonings, NEW ok \in BOOLEAN, SelectReasoning(level, ok)
       PROVE  StepShape /\ HistoryAgrees'
  <2>1. Live /\ ChangeSettings([record.settings EXCEPT !.reasoning = level], ok)
    BY <1>12 DEF SelectReasoning, Mutable
  <2>2. [record.settings EXCEPT !.reasoning = level] \in Settings
    BY <1>b, <2>1 DEF Record, Settings
  <2> QED BY <1>d, <2>1, <2>2
<1>13. ASSUME NEW plan \in Plans, NEW ok \in BOOLEAN, UpdatePlan(plan, ok)
       PROVE  StepShape /\ HistoryAgrees'
  <2> DEFINE rec == [record EXCEPT !.plan = plan]
  <2>1. Live /\ PersistCheckpoint(rec, ok) /\ record' = rec /\ UNCHANGED harness
    BY <1>13 DEF UpdatePlan, RanBefore
  <2>2. /\ rec \in Record /\ rec.transcript = record.transcript /\ rec.turns = record.turns
        /\ rec.history = record.history /\ rec.title = record.title
    BY <1>b, <2>1 DEF Record
  <2> HIDE DEF rec
  <2> QED BY <2>1, <2>2, ChangedShape
<1>14. CASE JobsChanged
  BY <1>14, UnchangedShape DEF JobsChanged
<1>15. ASSUME NEW text \in Titles, Rename(text)
       PROVE  StepShape /\ HistoryAgrees'
  <2>1. /\ Exists /\ row' = Retitled(row, text, "manual") /\ UNCHANGED harness
        /\ Live => InstallTitle(row'.title)
        /\ ~Live => UNCHANGED record
    BY <1>15 DEF Rename, Mutable
  <2> QED BY <2>1, TitledShape
<1>16. ASSUME NEW text \in Titles \cup {None}, TitleGenerated(text)
       PROVE  StepShape /\ HistoryAgrees'
  <2> DEFINE accepted == /\ Mutable /\ Exists /\ text # None
                         /\ AcceptsGenerated(row, titleTask)
             stored == Retitled(row, text, "generated")
  <2>1. /\ row' = IF accepted THEN stored ELSE row
        /\ IF accepted THEN InstallTitle(stored.title)
                       ELSE UNCHANGED <<record, dirty, projection, observers>>
        /\ UNCHANGED harness
    BY <1>16 DEF TitleGenerated
  <2>2. CASE accepted
    <3>1. Live /\ Exists /\ text \in Titles /\ row' = Retitled(row, text, "generated")
          /\ InstallTitle(row'.title) /\ row.title.source # "manual"
      BY <2>1, <2>2 DEF Mutable, AcceptsGenerated
    <3> QED BY <2>1, <3>1, TitledShape
  <2>3. CASE ~accepted
    BY <2>1, <2>3, UnchangedShape
  <2> QED BY <2>2, <2>3
<1>17. ASSUME NEW ok \in BOOLEAN, NEW jobsOk \in BOOLEAN, PrepareDelete(ok, jobsOk)
       PROVE  StepShape /\ HistoryAgrees'
  <2> DEFINE ev == [type |-> "Cancelled", run |-> harness.active.id]
             rec == ApplyDurableEvent(record, ev)
  <2>1. Live /\ harness' = HarnessDrop(harness)
    BY <1>17 DEF PrepareDelete, Mutable
  <2>2. harness'.history = harness.history
    BY <1>b, <2>1 DEF HarnessDrop, HarnessState
  <2>3. CASE ~Running
    <3>1. PersistCheckpoint(record, ok) /\ record' = record
      BY <1>17, <2>3 DEF PrepareDelete
    <3>2. row' \in {row, record'}
      BY <3>1 DEF PersistCheckpoint
    <3>3. LiveShape
      BY <2>1, <3>1, <3>2 DEF LiveShape, Advances, Keeps, Live
    <3> QED BY <2>1, <2>2, <3>1, <3>3 DEF StepShape, HistoryAgrees
  <2>4. CASE Running
    <3>1. ev \in SessionEvent
      BY <1>b, <2>1, <2>4 DEF SessionEvent, HarnessState, HarnessRun, Running
    <3>2. DurableApplies(record, ev)
      BY <2>1, <2>4, RunEventApplies DEF SafetyInv, RunEventTypes
    <3>3. rec \in Record
      BY <1>b, <2>1, <3>1, <3>2, DurableEventType
    <3>4. record' = rec /\ PersistCheckpoint(rec, ok)
      BY <1>17, <2>4, <3>2 DEF PrepareDelete
    <3>5. rec.history = record.history
      BY <1>b, <2>1 DEF ApplyDurableEvent, Record
    <3>6. rec = [rec EXCEPT !.history = record.history]
      <4> HIDE DEF rec
      <4> QED BY <3>3, <3>5 DEF Record
    <3>7. Advances(record, rec) /\ SameExceptConversation(record, rec)
      <4> DEFINE new == [ApplyDurableEvent(record, ev) EXCEPT !.history = record.history]
      <4>1. ev.type = "Cancelled" /\ ev.run = harness.active.id
        OBVIOUS
      <4>2. record.history \in Seq(Message)
        BY <1>b, <2>1 DEF Record
      <4> HIDE DEF ev
      <4>3. Advances(record, new) /\ SameExceptConversation(record, new)
        BY <1>b, <2>1, <2>4, <3>1, <4>1, <4>2, ActiveTurn, DurableAdvances
      <4> QED BY <3>6, <4>3
    <3> HIDE DEF rec
    <3>8. row' \in {row, record'} /\ Live'
      BY <3>3, <3>4, RecordAssumption DEF PersistCheckpoint, Live
    <3>9. LiveShape
      BY <2>1, <3>4, <3>7, <3>8 DEF LiveShape, SameExceptConversation
    <3> QED BY <2>1, <2>2, <3>4, <3>5, <3>9 DEF StepShape, HistoryAgrees, rec
  <2> QED BY <2>3, <2>4
<1>18. ASSUME NEW ok \in BOOLEAN, RepositoryDelete(ok)
       PROVE  StepShape /\ HistoryAgrees'
  <2>1. row' \in {row, Removed} /\ Live /\ UNCHANGED <<record, harness>>
    BY <1>18 DEF RepositoryDelete, SafetyInv, DeletionInv, actorVars
  <2> QED BY <2>1 DEF HistoryAgrees, StepShape, LiveShape, Advances, Keeps, Live
<1>19. CASE DeleteCold
  BY <1>19 DEF DeleteCold, StepShape, ExitShape, HistoryAgrees, Live, actorVars
<1>20. ASSUME FinishDelete \/ AbortDelete \/ Abandoned \/ Crash
       PROVE  StepShape /\ HistoryAgrees'
  BY <1>20 DEF FinishDelete, AbortDelete, Abandoned, Crash, ActorExits, StepShape, ExitShape,
               HistoryAgrees, Live
<1>21. ASSUME NEW ok \in BOOLEAN, Flush(ok) \/ ShutdownFails(ok)
       PROVE  StepShape /\ HistoryAgrees'
  <2>1. Live /\ FlushDirty(ok) /\ UNCHANGED <<record, harness>>
    BY <1>21 DEF Flush, ShutdownFails, CanShutdown
  <2>2. row' \in {row, record'}
    BY <2>1 DEF FlushDirty, SafetyInv, StoreInv, StoredOrDirty
  <2> QED BY <2>1, <2>2 DEF HistoryAgrees, StepShape, LiveShape, Advances, Keeps, Live
<1>22. ASSUME NEW ok \in BOOLEAN, Shutdown(ok)
       PROVE  StepShape /\ HistoryAgrees'
  <2>1. Live /\ ActorExits /\ row' = IF dirty # None THEN dirty ELSE row
    BY <1>22 DEF Shutdown, CanShutdown
  <2>2. dirty # None => dirty = record
    BY <2>1 DEF SafetyInv, StoreInv, StoredOrDirty
  <2> QED BY <2>1, <2>2 DEF ActorExits, StepShape, ExitShape, HistoryAgrees, Live
<1>24. CASE ObserverNext
  BY <1>24, UnchangedShape DEF ObserverNext, Attach, Detach, Receive, ObserverClosed,
                               Disconnect, DetachConnection, actorVars
<1>25. CASE UNCHANGED vars
  BY <1>25, UnchangedShape DEF vars, actorVars
<1> QED
  BY <1>1, <1>2, <1>3, <1>4, <1>5, <1>6, <1>7, <1>8, <1>9, <1>10, <1>11, <1>12, <1>13, <1>14,
     <1>15, <1>16, <1>17, <1>18, <1>19, <1>20, <1>21, <1>22, <1>24, <1>25
  DEF Next, ManagerNext, CommandNext, RunNext

-----------------------------------------------------------------------------
(***************************************************************************)
(* What advancing a record preserves.                                      *)
(***************************************************************************)

\* new begins with old, and has the outcomes of old.
Extends(old, new) ==
    /\ Len(old.transcript) <= Len(new.transcript)
    /\ \A k \in 1 .. Len(old.transcript) : new.transcript[k] = old.transcript[k]
    /\ \A i \in DOMAIN old.turns :
        /\ i \in DOMAIN new.turns
        /\ old.turns[i].status # "running" => new.turns[i] = old.turns[i]

\* A record that extends an extension of a record extends the record.
LEMMA ExtendsTransitive ==
    ASSUME NEW a \in Record, NEW b \in Record, NEW c \in Record, Extends(a, b), Extends(b, c)
    PROVE  Extends(a, c)
<1>1. Len(a.transcript) \in Nat /\ Len(b.transcript) \in Nat /\ Len(c.transcript) \in Nat
  BY DEF Record
<1> QED BY <1>1 DEF Extends

\* The sequences of a record, and the turns of the two ends of a step.
LEMMA RecordSequences ==
    ASSUME NEW rec \in Record
    PROVE  /\ rec.transcript \in Seq(TranscriptItem) /\ Len(rec.transcript) \in Nat
           /\ rec.turns \in Seq(DurableTurn) /\ Len(rec.turns) \in Nat
           /\ DOMAIN rec.turns = 1 .. Len(rec.turns)
           /\ DOMAIN rec.transcript = 1 .. Len(rec.transcript)
           /\ \A i \in DOMAIN rec.turns : /\ rec.turns[i] \in DurableTurn
                                          /\ rec.turns[i].prompt_position \in Nat
           /\ rec.history \in Seq(Message)
<1>1. /\ rec.transcript \in Seq(TranscriptItem) /\ Len(rec.transcript) \in Nat
      /\ rec.turns \in Seq(DurableTurn) /\ Len(rec.turns) \in Nat
      /\ DOMAIN rec.turns = 1 .. Len(rec.turns)
      /\ DOMAIN rec.transcript = 1 .. Len(rec.transcript)
      /\ rec.history \in Seq(Message)
  BY DEF Record
<1>2. \A i \in DOMAIN rec.turns : rec.turns[i] \in DurableTurn
  BY <1>1
<1> QED BY <1>1, <1>2 DEF DurableTurn

\* A step of the record in terms of its items and turns.
LEMMA AdvancedItems ==
    ASSUME NEW old \in Record, NEW new \in Record, Advances(old, new)
    PROVE  LET m == Len(old.transcript)
               n == Len(old.turns)
           IN  /\ m <= Len(new.transcript)
               /\ \A k \in 1 .. m : new.transcript[k] = old.transcript[k]
               /\ Prompted(old, new) =>
                    /\ Len(new.turns) = n + 1 /\ Len(new.transcript) = m + 1
                    /\ \A i \in 1 .. n : new.turns[i] = old.turns[i]
                    /\ new.turns[n + 1].prompt_position = m
                    /\ new.turns[n + 1].status = "running"
                    /\ new.transcript[m + 1].kind = "user"
               /\ ToolRan(old, new) =>
                    /\ n >= 1 /\ old.turns[n].status = "running"
                    /\ Len(new.transcript) = m + 1
                    /\ new.transcript[m + 1] = [kind |-> "tool_started", run |-> old.turns[n].run]
               /\ Ended(old, new) =>
                    /\ n >= 1 /\ old.turns[n].status = "running"
                    /\ Len(new.turns) = n /\ Len(new.transcript) = m + 1
                    /\ \A i \in 1 .. n - 1 : new.turns[i] = old.turns[i]
                    /\ new.turns[n].prompt_position = old.turns[n].prompt_position
                    /\ new.turns[n].run = old.turns[n].run
                    /\ new.turns[n].status \in TurnStatus \ {"running"}
                    /\ new.transcript[m + 1].kind = OutcomeItem(new.turns[n].status)
                    /\ new.history =
                        IF new.turns[n].status # "completed" THEN old.history
                        ELSE old.history \o
                               <<[role |-> "user",
                                  text |-> old.transcript[old.turns[n].prompt_position + 1].text],
                                 [role |-> "assistant", text |-> new.transcript[m + 1].text]>>
<1> DEFINE m == Len(old.transcript)
           n == Len(old.turns)
<1>1. /\ old.transcript \in Seq(TranscriptItem) /\ m \in Nat
      /\ old.turns \in Seq(DurableTurn) /\ n \in Nat /\ DOMAIN old.turns = 1 .. n
  BY RecordSequences
<1>2. ASSUME NEW item \in TranscriptItem, new.transcript = Append(old.transcript, item)
      PROVE  /\ Len(new.transcript) = m + 1 /\ new.transcript[m + 1] = item
             /\ \A k \in 1 .. m : new.transcript[k] = old.transcript[k]
  BY <1>1, <1>2, AppendProperties
<1>3. CASE Keeps(old, new)
  <2>1. new.transcript = old.transcript /\ new.turns = old.turns
    BY <1>3 DEF Keeps
  <2>2. ~Prompted(old, new) /\ ~ToolRan(old, new) /\ ~Ended(old, new)
    <3>1. ASSUME NEW item, new.transcript = Append(old.transcript, item) PROVE FALSE
      <4>1. Len(Append(old.transcript, item)) = m + 1
        BY <1>1
      <4> QED BY <1>1, <2>1, <3>1, <4>1
    <3> QED BY <3>1 DEF Prompted, ToolRan, Ended
  <2> QED BY <1>1, <2>1, <2>2
<1>4. CASE Prompted(old, new)
  <2>1. PICK run \in Nat, prompt \in Prompts :
            /\ new.transcript = Append(old.transcript, [kind |-> "user", text |-> prompt])
            /\ new.turns = Append(old.turns, [run |-> run, prompt_position |-> m,
                                              status |-> "running"])
    BY <1>4 DEF Prompted
  <2> DEFINE item == [kind |-> "user", text |-> prompt]
             turn == [run |-> run, prompt_position |-> m, status |-> "running"]
  <2>2. item \in TranscriptItem /\ item.kind = "user"
    BY DEF TranscriptItem
  <2>3. turn \in DurableTurn /\ turn.prompt_position = m /\ turn.status = "running"
    BY <1>1 DEF DurableTurn, TurnStatus
  <2> HIDE DEF item, turn
  <2>4. /\ Len(new.turns) = n + 1 /\ new.turns[n + 1] = turn
        /\ \A i \in 1 .. n : new.turns[i] = old.turns[i]
    BY <1>1, <2>1, <2>3, AppendProperties DEF turn
  <2>5. /\ Len(new.transcript) = m + 1 /\ new.transcript[m + 1] = item
        /\ \A k \in 1 .. m : new.transcript[k] = old.transcript[k]
    BY <1>2, <2>1, <2>2 DEF item
  <2>6. ~ToolRan(old, new) /\ ~Ended(old, new)
    BY <1>4 DEF Prompted, ToolRan, Ended
  <2> QED BY <1>1, <2>2, <2>3, <2>4, <2>5, <2>6
<1>5. CASE ToolRan(old, new)
  <2> DEFINE item == [kind |-> "tool_started", run |-> old.turns[n].run]
  <2>1. RunningTurns(old) = {n} /\ new.transcript = Append(old.transcript, item)
    BY <1>5 DEF ToolRan
  <2>2. n \in DOMAIN old.turns /\ old.turns[n].status = "running" /\ old.turns[n] \in DurableTurn
    BY <1>1, <2>1 DEF RunningTurns
  <2>3. item \in TranscriptItem
    BY <2>2 DEF TranscriptItem, DurableTurn
  <2> HIDE DEF item
  <2>4. /\ Len(new.transcript) = m + 1 /\ new.transcript[m + 1] = item
        /\ \A k \in 1 .. m : new.transcript[k] = old.transcript[k]
    BY <1>2, <2>1, <2>3
  <2>5. ~Prompted(old, new)
    BY <2>1 DEF Prompted
  <2>6. ~Ended(old, new)
    <3>1. ASSUME Ended(old, new) PROVE FALSE
      <4>1. PICK status \in TurnStatus \ {"running"} :
                new.turns = [old.turns EXCEPT ![n].status = status]
        BY <3>1 DEF Ended
      <4>2. new.turns[n].status = status
        BY <1>1, <2>2, <4>1 DEF DurableTurn
      <4>3. new.turns = old.turns
        BY <1>5 DEF ToolRan
      <4> QED BY <2>2, <4>2, <4>3
    <3> QED BY <3>1
  <2> QED BY <1>1, <2>2, <2>4, <2>5, <2>6 DEF item
<1>6. CASE Ended(old, new)
  <2>1. RunningTurns(old) = {n}
    BY <1>6 DEF Ended
  <2>2. n \in DOMAIN old.turns /\ old.turns[n].status = "running" /\ old.turns[n] \in DurableTurn
    BY <1>1, <2>1 DEF RunningTurns
  <2>3. PICK status \in TurnStatus \ {"running"}, item \in TranscriptItem :
            /\ item.kind = OutcomeItem(status)
            /\ new.transcript = Append(old.transcript, item)
            /\ new.turns = [old.turns EXCEPT ![n].status = status]
            /\ new.history =
                IF status # "completed" THEN old.history
                ELSE old.history \o
                       <<[role |-> "user",
                          text |-> old.transcript[old.turns[n].prompt_position + 1].text],
                         [role |-> "assistant", text |-> item.text]>>
    BY <1>6 DEF Ended
  <2>4. /\ Len(new.transcript) = m + 1 /\ new.transcript[m + 1] = item
        /\ \A k \in 1 .. m : new.transcript[k] = old.transcript[k]
    BY <1>2, <2>3
  <2> DEFINE turn == [old.turns[n] EXCEPT !.status = status]
  <2>5. /\ turn.status = status /\ turn.run = old.turns[n].run
        /\ turn.prompt_position = old.turns[n].prompt_position /\ turn \in DurableTurn
    BY <2>2 DEF DurableTurn
  <2>6. new.turns = [old.turns EXCEPT ![n] = turn]
    BY <2>3
  <2> HIDE DEF turn
  <2>7. /\ Len(new.turns) = n /\ new.turns[n] = turn
        /\ \A i \in 1 .. n - 1 : new.turns[i] = old.turns[i]
    BY <1>1, <2>2, <2>5, <2>6, ExceptSeq
  <2>8. ~Prompted(old, new) /\ ~ToolRan(old, new)
    <3>1. ~Prompted(old, new)
      BY <2>1 DEF Prompted
    <3>2. ~ToolRan(old, new)
      <4>1. new.turns # old.turns
        BY <2>2, <2>3, <2>5, <2>7
      <4> QED BY <4>1 DEF ToolRan
    <3> QED BY <3>1, <3>2
  <2> QED BY <1>1, <2>2, <2>3, <2>4, <2>5, <2>7, <2>8
<1> QED BY <1>3, <1>4, <1>5, <1>6 DEF Advances

\* A record that advances extends itself.
LEMMA AdvancesExtends ==
    ASSUME NEW old \in Record, NEW new \in Record, Advances(old, new)
    PROVE  Extends(old, new)
<1> DEFINE m == Len(old.transcript)
           n == Len(old.turns)
<1>1. n \in Nat /\ DOMAIN old.turns = 1 .. n /\ DOMAIN new.turns = 1 .. Len(new.turns)
      /\ Len(new.turns) \in Nat
  BY RecordSequences
<1>2. m <= Len(new.transcript) /\ \A k \in 1 .. m : new.transcript[k] = old.transcript[k]
  BY AdvancedItems
<1>3. ASSUME NEW i \in 1 .. n
      PROVE  i \in DOMAIN new.turns
             /\ (old.turns[i].status # "running" => new.turns[i] = old.turns[i])
  <2>1. CASE Keeps(old, new) \/ ToolRan(old, new)
    <3>1. new.turns = old.turns
      BY <2>1 DEF Keeps, ToolRan
    <3> QED BY <1>1, <3>1
  <2>2. CASE Prompted(old, new)
    <3>1. Len(new.turns) = n + 1 /\ \A j \in 1 .. n : new.turns[j] = old.turns[j]
      BY <2>2, AdvancedItems
    <3>2. i \in 1 .. Len(new.turns)
      BY <1>1, <3>1
    <3> QED BY <1>1, <3>1, <3>2
  <2>3. CASE Ended(old, new)
    <3>1. /\ old.turns[n].status = "running" /\ Len(new.turns) = n
          /\ \A j \in 1 .. n - 1 : new.turns[j] = old.turns[j]
      BY <2>3, AdvancedItems
    <3>2. i = n \/ i \in 1 .. n - 1
      BY <1>1
    <3> QED BY <1>1, <3>1, <3>2
  <2> QED BY <2>1, <2>2, <2>3 DEF Advances
<1> QED BY <1>1, <1>2, <1>3 DEF Extends

\* What TurnsExplainTranscript says of one turn.
TurnExplained(rec, i) ==
    LET first == rec.turns[i].prompt_position + 1
        last == TurnEnd(rec, i)
        over == rec.turns[i].status # "running"
    IN  /\ first \in DOMAIN rec.transcript /\ rec.transcript[first].kind = "user"
        /\ over => last > first
                   /\ rec.transcript[last].kind = OutcomeItem(rec.turns[i].status)
        /\ \A k \in first + 1 .. (IF over THEN last - 1 ELSE last) :
                rec.transcript[k] = [kind |-> "tool_started", run |-> rec.turns[i].run]

\* TurnsExplainTranscript, one turn at a time.
LEMMA ExplainedTurnByTurn ==
    ASSUME NEW rec
    PROVE  TurnsExplainTranscript(rec) <=>
                /\ rec.turns # <<>> /\ rec.turns[1].prompt_position = 0
                /\ \A i \in DOMAIN rec.turns : TurnExplained(rec, i)
BY DEF TurnsExplainTranscript, TurnExplained

\* Every turn ends within the transcript.
LEMMA TurnEndInTranscript ==
    ASSUME NEW rec \in Record, TurnsExplainTranscript(rec), NEW i \in DOMAIN rec.turns
    PROVE  TurnEnd(rec, i) \in Nat /\ TurnEnd(rec, i) <= Len(rec.transcript)
           /\ rec.turns[i].prompt_position + 1 <= Len(rec.transcript)
<1>1. /\ Len(rec.transcript) \in Nat /\ Len(rec.turns) \in Nat
      /\ DOMAIN rec.turns = 1 .. Len(rec.turns)
      /\ DOMAIN rec.transcript = 1 .. Len(rec.transcript)
      /\ \A j \in DOMAIN rec.turns : rec.turns[j].prompt_position \in Nat
  BY RecordSequences
<1>2. \A j \in DOMAIN rec.turns : rec.turns[j].prompt_position + 1 \in DOMAIN rec.transcript
  BY DEF TurnsExplainTranscript
<1>3. i = Len(rec.turns) \/ i + 1 \in DOMAIN rec.turns
  BY <1>1
<1> QED BY <1>1, <1>2, <1>3 DEF TurnEnd

\* A turn that keeps its fields and its end is still explained.
LEMMA TurnStaysExplained ==
    ASSUME NEW old \in Record, NEW new \in Record, Advances(old, new),
           TurnsExplainTranscript(old), NEW i \in DOMAIN old.turns,
           new.turns[i] = old.turns[i], TurnEnd(new, i) = TurnEnd(old, i)
    PROVE  TurnExplained(new, i)
<1> DEFINE first == old.turns[i].prompt_position + 1
           last == TurnEnd(old, i)
           m == Len(old.transcript)
<1>1. /\ m \in Nat /\ Len(new.transcript) \in Nat /\ old.turns[i].prompt_position \in Nat
      /\ DOMAIN old.transcript = 1 .. m /\ DOMAIN new.transcript = 1 .. Len(new.transcript)
  BY RecordSequences
<1>2. m <= Len(new.transcript) /\ \A k \in 1 .. m : new.transcript[k] = old.transcript[k]
  BY AdvancedItems
<1>3. last \in Nat /\ last <= m /\ first <= m /\ first \in Nat /\ first >= 1
  BY <1>1, TurnEndInTranscript
<1>4. TurnExplained(old, i)
  BY ExplainedTurnByTurn
<1> HIDE DEF last
<1>5. first \in DOMAIN new.transcript /\ new.transcript[first].kind = "user"
  BY <1>1, <1>2, <1>3, <1>4 DEF TurnExplained
<1>6. old.turns[i].status # "running" =>
          last > first /\ new.transcript[last].kind = OutcomeItem(old.turns[i].status)
  <2>1. old.turns[i].status # "running" =>
            last > first /\ old.transcript[last].kind = OutcomeItem(old.turns[i].status)
    BY <1>4 DEF TurnExplained, last
  <2>2. last > first => last \in 1 .. m
    BY <1>1, <1>3
  <2> QED BY <1>2, <2>1, <2>2
<1>7. \A k \in first + 1 .. (IF old.turns[i].status # "running" THEN last - 1 ELSE last) :
          new.transcript[k] = [kind |-> "tool_started", run |-> old.turns[i].run]
  <2>1. \A k \in first + 1 .. (IF old.turns[i].status # "running" THEN last - 1 ELSE last) :
            old.transcript[k] = [kind |-> "tool_started", run |-> old.turns[i].run]
    BY <1>4 DEF TurnExplained, last
  <2>2. \A k \in first + 1 .. (IF old.turns[i].status # "running" THEN last - 1 ELSE last) :
            k \in 1 .. m
    BY <1>1, <1>3
  <2> QED BY <1>2, <2>1, <2>2
<1> QED BY <1>5, <1>6, <1>7 DEF TurnExplained, last

\* A record whose turns explain its transcript goes on explaining it.
LEMMA AdvancesExplained ==
    ASSUME NEW old \in Record, NEW new \in Record, Advances(old, new),
           TurnsExplainTranscript(old)
    PROVE  TurnsExplainTranscript(new)
<1> DEFINE m == Len(old.transcript)
           n == Len(old.turns)
<1>1. /\ m \in Nat /\ n \in Nat /\ DOMAIN old.turns = 1 .. n
      /\ DOMAIN new.turns = 1 .. Len(new.turns) /\ Len(new.turns) \in Nat
      /\ DOMAIN old.transcript = 1 .. m /\ DOMAIN new.transcript = 1 .. Len(new.transcript)
      /\ Len(new.transcript) \in Nat
      /\ \A i \in DOMAIN old.turns : old.turns[i].prompt_position \in Nat
  BY RecordSequences
<1>2. n >= 1 /\ old.turns[1].prompt_position = 0
  BY <1>1, RecordSequences, EmptySeq DEF TurnsExplainTranscript
<1>3. m <= Len(new.transcript) /\ \A k \in 1 .. m : new.transcript[k] = old.transcript[k]
  BY AdvancedItems
<1>4. CASE Keeps(old, new)
  <2>1. new.transcript = old.transcript /\ new.turns = old.turns
    BY <1>4 DEF Keeps
  <2> QED BY <2>1 DEF TurnsExplainTranscript, TurnEnd
<1>5. CASE Prompted(old, new)
  <2>1. /\ Len(new.turns) = n + 1 /\ Len(new.transcript) = m + 1
        /\ \A i \in 1 .. n : new.turns[i] = old.turns[i]
        /\ new.turns[n + 1].prompt_position = m
        /\ new.turns[n + 1].status = "running"
        /\ new.transcript[m + 1].kind = "user"
    BY <1>5, AdvancedItems
  <2>2. ASSUME NEW i \in 1 .. n PROVE TurnExplained(new, i)
    <3>1. TurnEnd(new, i) = TurnEnd(old, i)
      <4>1. i = n \/ i + 1 \in 1 .. n
        BY <1>1
      <4> QED BY <1>1, <2>1, <4>1 DEF TurnEnd
    <3> QED BY <1>1, <2>1, <3>1, TurnStaysExplained
  <2>3. TurnExplained(new, n + 1)
    <3>1. TurnEnd(new, n + 1) = m + 1
      BY <2>1 DEF TurnEnd
    <3> QED BY <1>1, <2>1, <3>1 DEF TurnExplained
  <2>4. \A i \in DOMAIN new.turns : TurnExplained(new, i)
    BY <1>1, <2>1, <2>2, <2>3
  <2>5. new.turns # <<>> /\ new.turns[1].prompt_position = 0
    BY <1>1, <1>2, <2>1
  <2> QED BY <2>4, <2>5, ExplainedTurnByTurn
<1>6. CASE ToolRan(old, new)
  <2>1. new.turns = old.turns
    BY <1>6 DEF ToolRan
  <2>2. /\ old.turns[n].status = "running" /\ Len(new.transcript) = m + 1
        /\ new.transcript[m + 1] = [kind |-> "tool_started", run |-> old.turns[n].run]
    BY <1>6, AdvancedItems
  <2>3. ASSUME NEW i \in 1 .. n - 1 PROVE TurnExplained(new, i)
    <3>1. TurnEnd(new, i) = TurnEnd(old, i)
      BY <1>1, <2>1 DEF TurnEnd
    <3> QED BY <1>1, <2>1, <3>1, TurnStaysExplained
  <2>4. TurnExplained(new, n)
    <3> DEFINE first == old.turns[n].prompt_position + 1
    <3>1. TurnEnd(new, n) = m + 1 /\ TurnEnd(old, n) = m
      BY <2>1, <2>2 DEF TurnEnd
    <3>2. TurnExplained(old, n)
      BY <1>1, <1>2, ExplainedTurnByTurn
    <3>3. /\ first \in 1 .. m /\ old.transcript[first].kind = "user"
          /\ \A k \in first + 1 .. m :
                old.transcript[k] = [kind |-> "tool_started", run |-> old.turns[n].run]
      BY <1>1, <2>2, <3>1, <3>2 DEF TurnExplained
    <3>4. first \in DOMAIN new.transcript /\ new.transcript[first].kind = "user"
      BY SMTT(30), <1>1, <1>3, <3>3
    <3>5. \A k \in first + 1 .. m + 1 :
              new.transcript[k] = [kind |-> "tool_started", run |-> old.turns[n].run]
      <4>1. ASSUME NEW k \in first + 1 .. m + 1
            PROVE  k = m + 1 \/ (k \in 1 .. m /\ k \in first + 1 .. m)
        BY SMTT(30), <1>1, <3>3
      <4> QED BY <1>3, <2>2, <3>3, <4>1
    <3> QED BY <2>1, <2>2, <3>1, <3>4, <3>5 DEF TurnExplained
  <2>5. \A i \in DOMAIN new.turns : i = n \/ i \in 1 .. n - 1
    BY <1>1, <2>1
  <2> QED BY <1>1, <1>2, <2>1, <2>3, <2>4, <2>5, ExplainedTurnByTurn
<1>7. CASE Ended(old, new)
  <2>1. /\ old.turns[n].status = "running"
        /\ Len(new.turns) = n /\ Len(new.transcript) = m + 1
        /\ \A i \in 1 .. n - 1 : new.turns[i] = old.turns[i]
        /\ new.turns[n].prompt_position = old.turns[n].prompt_position
        /\ new.turns[n].run = old.turns[n].run
        /\ new.turns[n].status \in TurnStatus \ {"running"}
        /\ new.transcript[m + 1].kind = OutcomeItem(new.turns[n].status)
    BY ZenonT(60), <1>7, AdvancedItems
  <2>2. ASSUME NEW i \in 1 .. n - 1 PROVE TurnExplained(new, i)
    <3>1. TurnEnd(new, i) = TurnEnd(old, i)
      <4>1. i # n /\ (i + 1 = n \/ i + 1 \in 1 .. n - 1)
        BY <1>1
      <4> QED BY <1>1, <2>1, <4>1 DEF TurnEnd
    <3> QED BY <1>1, <2>1, <3>1, TurnStaysExplained
  <2>3. TurnExplained(new, n)
    <3> DEFINE first == old.turns[n].prompt_position + 1
    <3>1. TurnEnd(new, n) = m + 1 /\ TurnEnd(old, n) = m
      BY <2>1 DEF TurnEnd
    <3>2. TurnExplained(old, n)
      BY <1>1, <1>2, ExplainedTurnByTurn
    <3>3. /\ first \in 1 .. m /\ old.transcript[first].kind = "user"
          /\ \A k \in first + 1 .. m :
                old.transcript[k] = [kind |-> "tool_started", run |-> old.turns[n].run]
      BY <1>1, <2>1, <3>1, <3>2 DEF TurnExplained
    <3>4. first \in DOMAIN new.transcript /\ new.transcript[first].kind = "user"
          /\ m + 1 > first
      BY <1>1, <1>3, <2>1, <3>3
    <3>5. \A k \in first + 1 .. m + 1 - 1 :
              new.transcript[k] = [kind |-> "tool_started", run |-> old.turns[n].run]
      <4>1. ASSUME NEW k \in first + 1 .. m + 1 - 1
            PROVE  k \in 1 .. m /\ k \in first + 1 .. m
        BY <1>1, <3>3
      <4> QED BY <1>3, <3>3, <4>1
    <3> QED BY <2>1, <3>1, <3>4, <3>5 DEF TurnExplained
  <2>4. \A i \in DOMAIN new.turns : i = n \/ i \in 1 .. n - 1
    BY <1>1, <2>1
  <2>5. new.turns # <<>> /\ new.turns[1].prompt_position = 0
    <3>1. n = 1 \/ n >= 2
      <4>1. n \in Nat /\ n >= 1
        BY <1>1, <1>2
      <4> HIDE DEF n
      <4> QED BY <4>1
    <3>2. new.turns[1].prompt_position = old.turns[1].prompt_position
      BY <1>1, <2>1, <3>1
    <3> QED BY <1>1, <1>2, <2>1, <3>2
  <2> QED BY <2>2, <2>3, <2>4, <2>5, ExplainedTurnByTurn
<1> QED BY <1>4, <1>5, <1>6, <1>7 DEF Advances

-----------------------------------------------------------------------------
(***************************************************************************)
(* Histories.                                                              *)
(***************************************************************************)

\* The completed turns.
Done(rec) == {j \in DOMAIN rec.turns : rec.turns[j].status = "completed"}

\* The completed turns up to a turn, and how many they are.
LEMMA CompletedTurnsCounted ==
    ASSUME NEW rec \in Record
    PROVE  /\ IsFiniteSet(Done(rec)) /\ Cardinality(Done(rec)) \in Nat
           /\ CompletedTurns(rec, Len(rec.turns)) = Done(rec)
           /\ \A i \in Done(rec) :
                /\ Cardinality(CompletedTurns(rec, i)) \in Nat
                /\ 1 <= Cardinality(CompletedTurns(rec, i))
                /\ Cardinality(CompletedTurns(rec, i)) <= Cardinality(Done(rec))
<1>1. Len(rec.turns) \in Nat /\ DOMAIN rec.turns = 1 .. Len(rec.turns)
  BY RecordSequences
<1>2. IsFiniteSet(Done(rec)) /\ Cardinality(Done(rec)) \in Nat
  <2>1. IsFiniteSet(1 .. Len(rec.turns))
    BY <1>1, FS_Interval
  <2>2. Done(rec) \subseteq 1 .. Len(rec.turns)
    BY <1>1 DEF Done
  <2> QED BY <2>1, <2>2, FS_Subset, FS_CardinalityType
<1>3. CompletedTurns(rec, Len(rec.turns)) = Done(rec)
  BY <1>1 DEF CompletedTurns, Done
<1>4. ASSUME NEW i \in Done(rec)
      PROVE  /\ Cardinality(CompletedTurns(rec, i)) \in Nat
             /\ 1 <= Cardinality(CompletedTurns(rec, i))
             /\ Cardinality(CompletedTurns(rec, i)) <= Cardinality(Done(rec))
  <2>1. CompletedTurns(rec, i) \subseteq Done(rec) /\ i \in CompletedTurns(rec, i)
    BY <1>1 DEF CompletedTurns, Done
  <2>2. IsFiniteSet(CompletedTurns(rec, i))
        /\ Cardinality(CompletedTurns(rec, i)) <= Cardinality(Done(rec))
    BY <1>2, <2>1, FS_Subset
  <2>3. Cardinality(CompletedTurns(rec, i)) \in Nat
    BY <2>2, FS_CardinalityType
  <2>4. Cardinality(CompletedTurns(rec, i)) # 0
    BY <2>1, <2>2, FS_EmptySet
  <2> HIDE DEF Done
  <2> QED BY <2>2, <2>3, <2>4
<1> QED BY <1>2, <1>3, <1>4

\* The exchange of a completed turn, at the place of the turn among the
\* completed ones.
Exchanged(rec, i, history) ==
    LET n == Cardinality(CompletedTurns(rec, i))
        prompt == rec.transcript[rec.turns[i].prompt_position + 1]
        answer == rec.transcript[TurnEnd(rec, i)]
    IN  /\ history[2 * n - 1] = [role |-> "user", text |-> prompt.text]
        /\ history[2 * n] = [role |-> "assistant", text |-> answer.text]

\* HistoryIsCompletedTurns, one turn at a time.
LEMMA HistoryTurnByTurn ==
    ASSUME NEW rec \in Record
    PROVE  HistoryIsCompletedTurns(rec) <=>
                /\ Len(rec.history) = 2 * Cardinality(Done(rec))
                /\ \A i \in Done(rec) : Exchanged(rec, i, rec.history)
BY CompletedTurnsCounted DEF HistoryIsCompletedTurns, Exchanged

\* A turn that was completed keeps its place, its prompt and its answer.
LEMMA CompletedTurnStays ==
    ASSUME NEW old \in Record, NEW new \in Record, Advances(old, new),
           TurnsExplainTranscript(old), NEW i \in Done(old)
    PROVE  /\ i \in Done(new)
           /\ CompletedTurns(new, i) = CompletedTurns(old, i)
           /\ \A history : Exchanged(old, i, history) => Exchanged(new, i, history)
<1> DEFINE m == Len(old.transcript)
           n == Len(old.turns)
<1>1. /\ m \in Nat /\ n \in Nat /\ DOMAIN old.turns = 1 .. n
      /\ DOMAIN new.turns = 1 .. Len(new.turns) /\ Len(new.turns) \in Nat
      /\ old.turns[i].prompt_position \in Nat
  BY RecordSequences DEF Done
<1>2. i \in 1 .. n /\ old.turns[i].status = "completed"
  BY <1>1 DEF Done
<1>3. /\ n <= Len(new.turns)
      /\ \A j \in 1 .. i : new.turns[j] = old.turns[j]
      /\ TurnEnd(new, i) = TurnEnd(old, i)
  <2>1. CASE Keeps(old, new)
    BY <1>1, <2>1 DEF Keeps, TurnEnd
  <2>2. CASE Prompted(old, new)
    <3>1. /\ Len(new.turns) = n + 1
          /\ \A j \in 1 .. n : new.turns[j] = old.turns[j]
          /\ new.turns[n + 1].prompt_position = m
      BY <2>2, AdvancedItems
    <3>2. i = n \/ i + 1 \in 1 .. n
      BY <1>1, <1>2
    <3> QED BY SMTT(30), <1>1, <1>2, <3>1, <3>2 DEF TurnEnd
  <2>3. CASE ToolRan(old, new)
    <3>1. old.turns[n].status = "running"
      BY <2>3, AdvancedItems
    <3>2. i # n /\ new.turns = old.turns
      BY <1>2, <2>3, <3>1 DEF ToolRan
    <3> QED BY <1>1, <1>2, <3>2 DEF TurnEnd
  <2>4. CASE Ended(old, new)
    <3>1. /\ old.turns[n].status = "running" /\ Len(new.turns) = n
          /\ \A j \in 1 .. n - 1 : new.turns[j] = old.turns[j]
          /\ new.turns[n].prompt_position = old.turns[n].prompt_position
      BY <2>4, AdvancedItems
    <3>2. i # n
      BY <1>2, <3>1
    <3>3. i \in 1 .. n - 1 /\ (i + 1 = n \/ i + 1 \in 1 .. n - 1)
      BY <1>1, <1>2, <3>2
    <3>4. \A j \in 1 .. i : new.turns[j] = old.turns[j]
      BY <1>1, <3>1, <3>3
    <3>5. TurnEnd(new, i) = TurnEnd(old, i)
      BY <1>1, <3>1, <3>2, <3>3 DEF TurnEnd
    <3> QED BY <1>1, <3>1, <3>4, <3>5
  <2> QED BY <2>1, <2>2, <2>3, <2>4 DEF Advances
<1>4. CompletedTurns(new, i) = CompletedTurns(old, i)
  <2>1. \A j \in Nat : j <= i => (j \in DOMAIN new.turns <=> j \in DOMAIN old.turns)
    BY <1>1, <1>2, <1>3
  <2>2. \A j \in DOMAIN old.turns : j <= i => new.turns[j] = old.turns[j]
    BY <1>1, <1>3
  <2>3. CompletedTurns(new, i) \subseteq Nat /\ CompletedTurns(old, i) \subseteq Nat
    BY <1>1 DEF CompletedTurns
  <2> QED BY <2>1, <2>2, <2>3 DEF CompletedTurns
<1>5. i \in Done(new)
  BY <1>1, <1>2, <1>3 DEF Done
<1>6. /\ new.turns[i] = old.turns[i]
      /\ new.transcript[old.turns[i].prompt_position + 1]
           = old.transcript[old.turns[i].prompt_position + 1]
      /\ new.transcript[TurnEnd(old, i)] = old.transcript[TurnEnd(old, i)]
  <2>1. \A k \in 1 .. m : new.transcript[k] = old.transcript[k]
    BY AdvancedItems
  <2>2. TurnEnd(old, i) \in Nat /\ TurnEnd(old, i) <= m
        /\ old.turns[i].prompt_position + 1 <= m
    BY <1>1, <1>2, TurnEndInTranscript
  <2>3. TurnEnd(old, i) > old.turns[i].prompt_position + 1
    BY <1>1, <1>2, ExplainedTurnByTurn DEF TurnExplained
  <2>4. TurnEnd(old, i) \in 1 .. m /\ old.turns[i].prompt_position + 1 \in 1 .. m
    BY <1>1, <2>2, <2>3
  <2> QED BY SMTT(30), <1>1, <1>2, <1>3, <2>1, <2>4
<1> QED BY <1>3, <1>4, <1>5, <1>6 DEF Exchanged

\* A history of exchanges grows by the exchange of the turn that completes,
\* and by nothing else.
LEMMA AdvancesHistory ==
    ASSUME NEW old \in Record, NEW new \in Record, Advances(old, new),
           TurnsExplainTranscript(old), HistoryIsCompletedTurns(old)
    PROVE  HistoryIsCompletedTurns(new)
<1> DEFINE m == Len(old.transcript)
           n == Len(old.turns)
           C == Cardinality(Done(old))
<1>1. /\ m \in Nat /\ n \in Nat /\ DOMAIN old.turns = 1 .. n
      /\ DOMAIN new.turns = 1 .. Len(new.turns) /\ Len(new.turns) \in Nat
      /\ old.history \in Seq(Message) /\ new.history \in Seq(Message)
  BY RecordSequences
<1>2. Len(old.history) = 2 * C /\ \A i \in Done(old) : Exchanged(old, i, old.history)
  BY HistoryTurnByTurn
<1>3. C \in Nat /\ IsFiniteSet(Done(old))
  BY CompletedTurnsCounted
\* Nothing completes.
<1>4. ASSUME Done(new) = Done(old), new.history = old.history
      PROVE  HistoryIsCompletedTurns(new)
  <2>1. \A i \in Done(new) : Exchanged(new, i, new.history)
    BY <1>2, <1>4, CompletedTurnStays
  <2> QED BY <1>2, <1>4, <2>1, HistoryTurnByTurn
<1>5. CASE Keeps(old, new) \/ ToolRan(old, new)
  BY <1>4, <1>5 DEF Keeps, ToolRan, Done
<1>6. CASE Prompted(old, new)
  <2>1. /\ Len(new.turns) = n + 1
        /\ \A j \in 1 .. n : new.turns[j] = old.turns[j]
        /\ new.turns[n + 1].status = "running"
    BY <1>6, AdvancedItems
  <2>2. \A j \in DOMAIN new.turns : j = n + 1 \/ j \in DOMAIN old.turns
    BY <1>1, <2>1
  <2>3. DOMAIN old.turns \subseteq DOMAIN new.turns
    BY <1>1, <2>1
  <2>4. Done(new) = Done(old)
    BY <1>1, <2>1, <2>2, <2>3 DEF Done
  <2> QED BY <1>4, <1>6, <2>4 DEF Prompted
<1>7. CASE Ended(old, new)
  <2>1. /\ n >= 1 /\ old.turns[n].status = "running"
        /\ Len(new.turns) = n /\ Len(new.transcript) = m + 1
        /\ \A i \in 1 .. n - 1 : new.turns[i] = old.turns[i]
        /\ new.turns[n].prompt_position = old.turns[n].prompt_position
        /\ new.history =
            IF new.turns[n].status # "completed" THEN old.history
            ELSE old.history \o
                   <<[role |-> "user",
                      text |-> old.transcript[old.turns[n].prompt_position + 1].text],
                     [role |-> "assistant", text |-> new.transcript[m + 1].text]>>
    BY ZenonT(60), <1>7, AdvancedItems
  <2>2. DOMAIN new.turns = 1 .. n /\ n \in 1 .. n
        /\ \A j \in 1 .. n : j = n \/ j \in 1 .. n - 1
    BY <1>1, <2>1
  <2>3. CASE new.turns[n].status # "completed"
    <3>1. Done(new) = Done(old)
      BY <1>1, <2>1, <2>2, <2>3 DEF Done
    <3> QED BY <1>4, <2>1, <2>3, <3>1
  <2>4. CASE new.turns[n].status = "completed"
    <3> DEFINE user == [role |-> "user",
                        text |-> old.transcript[old.turns[n].prompt_position + 1].text]
               assistant == [role |-> "assistant", text |-> new.transcript[m + 1].text]
    <3>1. new.history = old.history \o <<user, assistant>>
      BY <2>1, <2>4
    <3>2. Done(new) = Done(old) \cup {n} /\ n \notin Done(old)
      BY <1>1, <2>1, <2>2, <2>4 DEF Done
    <3>3. Cardinality(Done(new)) = C + 1
      BY <1>3, <3>2, FS_AddElement
    <3>4. new.transcript[old.turns[n].prompt_position + 1]
            = old.transcript[old.turns[n].prompt_position + 1]
      <4>1. old.turns[n].prompt_position \in Nat
            /\ old.turns[n].prompt_position + 1 <= m
        BY <1>1, <2>2, RecordSequences, TurnEndInTranscript
      <4>2. \A k \in 1 .. m : new.transcript[k] = old.transcript[k]
        BY AdvancedItems
      <4> QED BY SMTT(30), <1>1, <4>1, <4>2
    <3> HIDE DEF user, assistant, C
    <3>5. /\ Len(new.history) = 2 * C + 2
          /\ new.history[2 * C + 1] = user /\ new.history[2 * C + 2] = assistant
          /\ \A k \in 1 .. 2 * C : new.history[k] = old.history[k]
      <4> DEFINE d == Len(old.history)
                 S == Message \cup {user, assistant}
      <4>1. old.history \in Seq(S) /\ <<user, assistant>> \in Seq(S) /\ d \in Nat
        BY <1>1, SeqMonotonic
      <4>2. Len(<<user, assistant>>) = 2 /\ <<user, assistant>>[1] = user
            /\ <<user, assistant>>[2] = assistant
        OBVIOUS
      <4> HIDE DEF S
      <4>3. /\ Len(new.history) = d + 2
            /\ new.history[d + 1] = user /\ new.history[d + 2] = assistant
            /\ \A k \in 1 .. d : new.history[k] = old.history[k]
        BY <3>1, <4>1, <4>2, ConcatProperties
      <4> QED BY <1>2, <4>3 DEF C
    <3>6. Len(new.history) = 2 * Cardinality(Done(new))
      BY <1>3, <3>3, <3>5
    <3>7. ASSUME NEW i \in Done(old) PROVE Exchanged(new, i, new.history)
      <4> DEFINE c == Cardinality(CompletedTurns(old, i))
      <4>1. c \in Nat /\ 1 <= c /\ c <= C
        BY CompletedTurnsCounted DEF C
      <4>2. 2 * c - 1 \in 1 .. 2 * C /\ 2 * c \in 1 .. 2 * C
        <5> HIDE DEF c
        <5> QED BY <1>3, <4>1
      <4>3. /\ new.history[2 * c - 1] = old.history[2 * c - 1]
            /\ new.history[2 * c] = old.history[2 * c]
        BY <3>5, <4>2
      <4>4. Exchanged(old, i, new.history)
        BY <1>2, <4>3 DEF Exchanged
      <4> QED BY <4>4, CompletedTurnStays
    <3>8. Exchanged(new, n, new.history)
      <4>1. CompletedTurns(new, n) = Done(new)
        BY <2>1, CompletedTurnsCounted
      <4>2. TurnEnd(new, n) = m + 1
        BY <2>1 DEF TurnEnd
      <4>3. 2 * Cardinality(CompletedTurns(new, n)) = 2 * C + 2
            /\ 2 * Cardinality(CompletedTurns(new, n)) - 1 = 2 * C + 1
        BY <1>3, <3>3, <4>1
      <4> QED BY <2>1, <3>4, <3>5, <4>2, <4>3 DEF Exchanged, user, assistant
    <3> QED BY <3>2, <3>6, <3>7, <3>8, HistoryTurnByTurn
  <2> QED BY <2>3, <2>4
<1> QED BY <1>5, <1>6, <1>7 DEF Advances

\* The first row of a session has one turn, running or failed, and no history.
LEMMA FirstIsExplained ==
    ASSUME NEW rec, First(rec)
    PROVE  /\ rec \in Record /\ LastRuns(rec)
           /\ TurnsExplainTranscript(rec) /\ HistoryIsCompletedTurns(rec)
<1>1. PICK p \in Prompts :
          LET new == Materialized(p, DefaultSettings, FallbackTitle)
          IN  rec = new \/ rec = FailedStart(new)
  BY DEF First
<1> DEFINE new == Materialized(p, DefaultSettings, FallbackTitle)
           user == [kind |-> "user", text |-> p]
           failed == [kind |-> "failed", run |-> 0, failure |-> "startup"]
<1>2. rec \in Record
  BY <1>1, StoredTypes, ActorAssumption
<1> DEFINE turn(status) == [run |-> 0, prompt_position |-> 0, status |-> status]
<1>3. /\ new.transcript = <<user>> /\ new.history = <<>> /\ new.turns = <<turn("running")>>
  BY DEF Materialized
<1>4. /\ FailedStart(new).transcript = <<user, failed>> /\ FailedStart(new).history = <<>>
      /\ FailedStart(new).turns = <<turn("failed")>>
  BY DEF Materialized, FailedStart
<1>a. \A status : /\ turn(status).run = 0 /\ turn(status).prompt_position = 0
                  /\ turn(status).status = status
  OBVIOUS
<1>6. user.kind = "user" /\ failed.kind = "failed"
  OBVIOUS
<1> HIDE DEF new, user, failed, turn
<1>b. \A a : Len(<<a>>) = 1 /\ <<a>>[1] = a /\ DOMAIN <<a>> = {1}
  OBVIOUS
<1>c. \A a, b : Len(<<a, b>>) = 2 /\ <<a, b>>[1] = a /\ <<a, b>>[2] = b
  OBVIOUS
<1>5. /\ rec.history = <<>> /\ Len(rec.turns) = 1 /\ DOMAIN rec.turns = {1}
      /\ rec.turns[1].run = 0 /\ rec.turns[1].prompt_position = 0
      /\ rec.transcript[1] = user
      /\ \/ rec.turns[1].status = "running" /\ Len(rec.transcript) = 1
         \/ /\ rec.turns[1].status = "failed" /\ Len(rec.transcript) = 2
            /\ rec.transcript[2] = failed
  <2>1. CASE rec = new
    <3>1. rec.history = <<>> /\ rec.turns = <<turn("running")>> /\ rec.transcript = <<user>>
      BY <1>3, <2>1
    <3>2. /\ Len(rec.turns) = 1 /\ DOMAIN rec.turns = {1} /\ rec.turns[1] = turn("running")
          /\ Len(rec.transcript) = 1 /\ rec.transcript[1] = user
      BY <3>1, <1>b
    <3> QED BY <1>a, <3>1, <3>2
  <2>2. CASE rec = FailedStart(new)
    <3>1. /\ rec.history = <<>> /\ rec.turns = <<turn("failed")>>
          /\ rec.transcript = <<user, failed>>
      BY <1>4, <2>2
    <3>2. /\ Len(rec.turns) = 1 /\ DOMAIN rec.turns = {1} /\ rec.turns[1] = turn("failed")
          /\ Len(rec.transcript) = 2 /\ rec.transcript[1] = user /\ rec.transcript[2] = failed
      BY <3>1, <1>b, <1>c
    <3> QED BY <1>a, <3>1, <3>2
  <2> QED BY <1>1, <2>1, <2>2 DEF new
<1>7. LastRuns(rec)
  BY <1>5 DEF LastRuns, RunningTurns
<1>8. TurnsExplainTranscript(rec)
  <2>1. TurnEnd(rec, 1) = Len(rec.transcript)
    BY <1>5 DEF TurnEnd
  <2>2. DOMAIN rec.transcript = 1 .. Len(rec.transcript)
    BY <1>2, RecordSequences
  <2>3. TurnExplained(rec, 1)
    <3>1. CASE rec.turns[1].status = "running"
      BY <1>5, <1>6, <2>1, <2>2, <3>1 DEF TurnExplained
    <3>2. CASE rec.turns[1].status = "failed"
      <4>1. Len(rec.transcript) = 2 /\ rec.transcript[2].kind = OutcomeItem("failed")
        BY <1>5, <1>6, <3>2 DEF OutcomeItem
      <4> QED BY <1>5, <1>6, <2>1, <2>2, <3>2, <4>1 DEF TurnExplained
    <3> QED BY <1>5, <3>1, <3>2
  <2>4. rec.turns # <<>>
    BY <1>5
  <2> QED BY <1>5, <2>3, <2>4, ExplainedTurnByTurn
<1>9. HistoryIsCompletedTurns(rec)
  <2>1. Done(rec) = {}
    BY <1>5 DEF Done
  <2>2. Len(rec.history) = 2 * Cardinality(Done(rec))
    BY <1>5, <2>1, FS_EmptySet
  <2> QED BY <1>2, <2>1, <2>2, HistoryTurnByTurn
<1> QED BY <1>2, <1>7, <1>8, <1>9

-----------------------------------------------------------------------------
(***************************************************************************)
(* What is stored.                                                         *)
(***************************************************************************)

\* The record that is stored and the record the actor has, as far as there are.
Records == {row, record} \ {None, Removed}

\* What holds of the row and of the record, and between them while an actor is
\* live: the row is a beginning of the record, under the same title.
RecordInv ==
    /\ HistoryAgrees
    /\ \A rec \in Records : /\ LastRuns(rec)
                            /\ TurnsExplainTranscript(rec) /\ HistoryIsCompletedTurns(rec)
    /\ Live /\ Exists => Extends(row, record) /\ row.title = record.title

\* A record that extends itself, or keeps its transcript.
LEMMA KeepsExtends ==
    ASSUME NEW old \in Record, NEW new \in Record, Keeps(old, new)
    PROVE  Extends(old, new)
BY AdvancesExtends DEF Advances

\* The stored outcomes and the stored title after a step.
RowKept ==
    row \notin {None, Removed} /\ row' # Removed =>
        /\ row' \in Record /\ Extends(row, row')
        /\ row'.title # row.title =>
              /\ row'.title.revision = row.title.revision + 1
              /\ row.title.source = "manual" => row'.title.source = "manual"

\* A new title leaves everything else.
LEMMA RetitledKeeps ==
    ASSUME NEW rec \in Record, NEW t \in Titles, NEW source \in {"generated", "manual"}
    PROVE  LET new == Retitled(rec, t, source)
           IN  /\ new \in Record /\ Keeps(rec, new)
               /\ new.title.revision = rec.title.revision + 1 /\ new.title.source = source
               /\ new.title \in Title
<1>1. Retitled(rec, t, source) \in Record /\ Retitled(rec, t, source).title \in Title
  BY StoredTypes
<1>2. rec.title \in Title
  BY DEF Record
<1> QED BY <1>1, <1>2 DEF Retitled, Keeps, Record, Title

\* Every step keeps RecordInv, and what was stored stays.
LEMMA RecordStep ==
    ASSUME SafetyInv, SafetyInv', RecordInv, [Next]_vars
    PROVE  RecordInv' /\ RowKept
<1>1. StepShape /\ HistoryAgrees'
  BY StepHasShape DEF RecordInv
<1>2. /\ row \in Record \cup {None, Removed} /\ row' \in Record \cup {None, Removed}
      /\ record \in Record \cup {None} /\ record' \in Record \cup {None}
      /\ None \notin Record /\ Removed \notin Record /\ Removed # None
  BY RecordAssumption, ActorAssumption DEF SafetyInv, TypeOK
<1>3. /\ Live <=> record \in Record
      /\ Live' <=> record' \in Record
      /\ Exists <=> row \in Record
      /\ Exists' <=> row' \in Record
      /\ Live => row # None
  BY <1>2 DEF Live, Exists, SafetyInv, DeletionInv
<1>4. /\ Live => /\ LastRuns(record) /\ TurnsExplainTranscript(record)
                 /\ HistoryIsCompletedTurns(record)
      /\ Exists => /\ LastRuns(row) /\ TurnsExplainTranscript(row)
                   /\ HistoryIsCompletedTurns(row)
      /\ Live /\ Exists => Extends(row, record) /\ row.title = record.title
  BY <1>2, <1>3 DEF RecordInv, Records
<1>5. ASSUME NEW old \in Record, NEW new \in Record, Advances(old, new),
             TurnsExplainTranscript(old), HistoryIsCompletedTurns(old)
      PROVE  /\ TurnsExplainTranscript(new) /\ HistoryIsCompletedTurns(new)
             /\ Extends(old, new)
  BY <1>5, AdvancesExplained, AdvancesHistory, AdvancesExtends
<1>6. Live' => LastRuns(record')
  BY DEF SafetyInv, RunInv, RunAgrees, LastRuns
<1>7. \A rec \in Record : Extends(rec, rec)
  BY KeepsExtends DEF Keeps
\* It is enough to follow the row, the record and what relates them.
<1>8. SUFFICES /\ Exists' => /\ LastRuns(row') /\ TurnsExplainTranscript(row')
                             /\ HistoryIsCompletedTurns(row')
               /\ Live' => TurnsExplainTranscript(record') /\ HistoryIsCompletedTurns(record')
               /\ Live' /\ Exists' => Extends(row', record') /\ row'.title = record'.title
               /\ RowKept
  <2>1. Records' = {row', record'} \ {None, Removed}
    BY DEF Records
  <2> QED BY <1>1, <1>2, <1>3, <1>6, <2>1 DEF RecordInv
<1>9. CASE LiveShape
  <2>1. /\ Live /\ Live' /\ Advances(record, record') /\ record'.title = record.title
        /\ row' \in {row, record', Removed}
    BY <1>9 DEF LiveShape
  <2>2. TurnsExplainTranscript(record') /\ HistoryIsCompletedTurns(record')
        /\ Extends(record, record')
    BY <1>3, <1>4, <1>5, <2>1
  <2>3. Exists => Extends(row, record')
    BY <1>3, <1>4, <2>1, <2>2, ExtendsTransitive
  <2>4. CASE row' = record'
    BY <1>3, <1>4, <1>6, <1>7, <2>1, <2>2, <2>3, <2>4 DEF RowKept, Exists
  <2>5. CASE row' = row
    BY <1>3, <1>4, <1>7, <2>1, <2>2, <2>3, <2>5 DEF RowKept, Exists
  <2>6. CASE row' = Removed
    BY <1>2, <1>3, <2>2, <2>6 DEF RowKept
  <2> QED BY <2>1, <2>4, <2>5, <2>6
<1>10. CASE TitleShape
  <2>1. row \in Record
    BY <1>3, <1>10 DEF TitleShape
  <2>2. PICK t \in Titles, source \in {"generated", "manual"} :
            /\ row' = Retitled(row, t, source)
            /\ source = "generated" => row.title.source # "manual"
    BY <1>10 DEF TitleShape
  <2>3. /\ row' \in Record /\ Keeps(row, row') /\ row'.title \in Title
        /\ row'.title.revision = row.title.revision + 1 /\ row'.title.source = source
    BY <2>1, <2>2, RetitledKeeps
  <2>4. /\ Extends(row, row') /\ TurnsExplainTranscript(row') /\ HistoryIsCompletedTurns(row')
    BY <1>3, <1>4, <1>5, <2>1, <2>3 DEF Advances
  <2>5. LastRuns(row')
    BY <1>3, <1>4, <2>1, <2>3 DEF LastRuns, RunningTurns, Keeps
  <2>6. RowKept
    BY <2>2, <2>3, <2>4 DEF RowKept
  <2>7. CASE Live /\ Live' /\ record' = [record EXCEPT !.title = row'.title]
    <3>1. record \in Record /\ record' \in Record /\ Keeps(record, record')
          /\ record'.title = row'.title
      BY <1>3, <2>3, <2>7 DEF Record, Keeps
    <3>2. TurnsExplainTranscript(record') /\ HistoryIsCompletedTurns(record')
      BY <1>4, <1>5, <2>7, <3>1 DEF Advances
    <3>3. Extends(row', record')
      BY <1>3, <1>4, <2>1, <2>3, <2>7, <3>1 DEF Keeps, Extends
    <3> QED BY <2>4, <2>5, <2>6, <3>1, <3>2, <3>3
  <2>8. CASE ~Live /\ ~Live'
    BY <2>4, <2>5, <2>6, <2>8
  <2> QED BY <1>10, <2>7, <2>8 DEF TitleShape
<1>11. CASE StartShape
  <2>1. CASE row = None /\ First(row')
    BY <1>7, <1>11, <2>1, FirstIsExplained DEF StartShape, RowKept
  <2>2. CASE Exists /\ row' = Interrupted(row)
    <3>1. row \in Record /\ row' \in Record /\ RunningTurns(row') = {}
      BY <1>3, <2>2, InterruptedType
    <3>2. Advances(row, row') /\ row'.title = row.title
      BY <1>4, <2>2, <3>1, InterruptedAdvances DEF SameExceptConversation
    <3>3. /\ TurnsExplainTranscript(row') /\ HistoryIsCompletedTurns(row')
          /\ Extends(row, row') /\ LastRuns(row')
      BY <1>4, <1>5, <2>2, <3>1, <3>2 DEF LastRuns
    <3> QED BY <1>7, <1>11, <3>1, <3>2, <3>3 DEF StartShape, RowKept
  <2> QED BY <1>11, <2>1, <2>2 DEF StartShape
<1>12. CASE ExitShape
  <2>1. ~Live'
    BY <1>12 DEF ExitShape
  <2>2. CASE row' = row
    BY <1>3, <1>4, <1>7, <2>1, <2>2 DEF RowKept, Exists
  <2>3. CASE row' = Removed
    BY <1>2, <1>3, <2>1, <2>3 DEF RowKept
  <2>4. CASE Live /\ row' = record
    BY <1>3, <1>4, <2>1, <2>4 DEF RowKept, Exists
  <2> QED BY <1>12, <2>2, <2>3, <2>4 DEF ExitShape
<1> QED BY <1>1, <1>9, <1>10, <1>11, <1>12 DEF StepShape

\* The inductive invariant of what is stored.
THEOREM RecordSafety == Spec => []RecordInv
<1>1. Init => RecordInv
  BY DEF Init, RecordInv, HistoryAgrees, Records, Live
<1>2. SafetyInv /\ SafetyInv' /\ RecordInv /\ [Next]_vars => RecordInv'
  BY RecordStep
<1> QED BY <1>1, <1>2, Safety, PTL DEF Spec

\* Stored or live, through crashes, failed checkpoints and interrupted runs,
\* every turn accounts for its part of the transcript.
THEOREM TranscriptsStayWellFormed == Spec => []TranscriptsAreWellFormed
<1>1. RecordInv => TranscriptsAreWellFormed
  BY DEF RecordInv, Records, TranscriptsAreWellFormed
<1> QED BY <1>1, RecordSafety, PTL

\* What the model is sent is the exchanges of the completed turns, in order.
THEOREM HistoriesStayCompletedTurns == Spec => []HistoriesAreCompletedTurns
<1>1. RecordInv => HistoriesAreCompletedTurns
  BY DEF RecordInv, Records, HistoryAgrees, HistoriesAreCompletedTurns
<1> QED BY <1>1, RecordSafety, PTL

\* A record that extends another begins with it.
LEMMA ExtendsIsPrefix ==
    ASSUME NEW old \in Record, NEW new \in Record, Extends(old, new)
    PROVE  SubSeq(new.transcript, 1, Len(old.transcript)) = old.transcript
<1> DEFINE m == Len(old.transcript)
           s == SubSeq(new.transcript, 1, m)
<1>1. /\ old.transcript \in Seq(TranscriptItem) /\ new.transcript \in Seq(TranscriptItem)
      /\ m \in Nat /\ Len(new.transcript) \in Nat
  BY RecordSequences
<1>2. m <= Len(new.transcript) /\ \A k \in 1 .. m : new.transcript[k] = old.transcript[k]
  BY DEF Extends
<1>3. /\ s \in Seq(TranscriptItem) /\ Len(s) = m
      /\ \A k \in 1 .. m : s[k] = new.transcript[k]
  BY <1>1, <1>2
<1> HIDE DEF s
<1>4. s = old.transcript
  BY <1>1, <1>2, <1>3, SeqEqual
<1> QED BY <1>4 DEF s

\* A stored transcript only grows and a stored outcome is final.
THEOREM StoredOutcomesStay == Spec => StoredOutcomesAreFinal
<1>1. ASSUME SafetyInv, SafetyInv', RecordInv, [Next]_vars
      PROVE  [row \notin {None, Removed} /\ row' # Removed =>
                /\ SubSeq(row'.transcript, 1, Len(row.transcript)) = row.transcript
                /\ \A i \in DOMAIN row.turns :
                      /\ i \in DOMAIN row'.turns
                      /\ row.turns[i].status # "running" => row'.turns[i] = row.turns[i]]_vars
  <2>1. SUFFICES ASSUME row \notin {None, Removed}, row' # Removed
                 PROVE  /\ SubSeq(row'.transcript, 1, Len(row.transcript)) = row.transcript
                        /\ \A i \in DOMAIN row.turns :
                              /\ i \in DOMAIN row'.turns
                              /\ row.turns[i].status # "running" => row'.turns[i] = row.turns[i]
    OBVIOUS
  <2>2. Extends(row, row')
    BY <1>1, <2>1, RecordStep DEF RowKept
  <2>3. row \in Record
    BY <2>1, <1>1 DEF SafetyInv, TypeOK
  <2>4. row' \in Record
    BY <1>1, <2>1, RecordStep DEF RowKept
  <2> QED BY <2>2, <2>3, <2>4, ExtendsIsPrefix DEF Extends
<1> QED BY <1>1, Safety, RecordSafety, PTL DEF Spec, StoredOutcomesAreFinal

\* A stored title changes only to a newer revision, and a generated title never
\* replaces one the user chose.
THEOREM StoredTitleOnlyAdvances == Spec => StoredTitleAdvances
<1>1. ASSUME SafetyInv, SafetyInv', RecordInv, [Next]_vars
      PROVE  [row \notin {None, Removed} /\ row' # Removed /\ row'.title # row.title =>
                /\ row'.title.revision = row.title.revision + 1
                /\ row.title.source = "manual" => row'.title.source = "manual"]_vars
  BY <1>1, RecordStep DEF RowKept
<1> QED BY <1>1, Safety, RecordSafety, PTL DEF Spec, StoredTitleAdvances

-----------------------------------------------------------------------------
(***************************************************************************)
(* What the session keeps: SessionActor implements DurableSession.         *)
(***************************************************************************)

\* A sequence with something appended begins with itself.
LEMMA AppendedGrows ==
    ASSUME NEW S, NEW s \in Seq(S), NEW t \in Seq(S)
    PROVE  Durable!Grows(s, s \o t, Len(t))
<1> DEFINE both == s \o t
           first == SubSeq(both, 1, Len(s))
<1>1. /\ Len(s) \in Nat /\ Len(t) \in Nat /\ both \in Seq(S) /\ Len(both) = Len(s) + Len(t)
      /\ \A k \in 1 .. Len(s) : both[k] = s[k]
  OBVIOUS
<1> HIDE DEF both
<1>2. first \in Seq(S) /\ Len(first) = Len(s) /\ \A k \in 1 .. Len(s) : first[k] = both[k]
  BY <1>1
<1> HIDE DEF first
<1>3. first = s
  BY <1>1, <1>2, SeqEqual
<1> QED BY <1>1, <1>3 DEF Durable!Grows, both, first

\* The same for one element.
LEMMA AppendGrows ==
    ASSUME NEW S, NEW s \in Seq(S), NEW e \in S
    PROVE  Durable!Grows(s, Append(s, e), 1)
<1>1. <<e>> \in Seq(S) /\ Len(<<e>>) = 1 /\ Append(s, e) = s \o <<e>>
  BY AppendIsConcat
<1> QED BY <1>1, AppendedGrows

\* The two elements that end a sequence are elements of its type.
LEMMA LastTwo ==
    ASSUME NEW S, NEW s \in Seq(S), NEW a, NEW b, s \o <<a, b>> \in Seq(S)
    PROVE  <<a, b>> \in Seq(S)
<1> DEFINE both == s \o <<a, b>>
           n == Len(s)
<1>1. n \in Nat /\ Len(both) = n + 2 /\ both[n + 1] = a /\ both[n + 2] = b
  OBVIOUS
<1>2. both \in Seq(S)
  OBVIOUS
<1> HIDE DEF both, n
<1>3. a \in S /\ b \in S
  BY <1>1, <1>2
<1> QED
  BY <1>3

\* The turn that ends is the running one, which is the last.
LEMMA EndedEnds ==
    ASSUME NEW old \in Record, NEW new \in Record, Ended(old, new)
    PROVE  /\ Durable!Grows(old.transcript, new.transcript, 1)
           /\ \E outcome \in Durable!Outcomes : Durable!Ends(old, new, outcome)
<1> DEFINE n == Len(old.turns)
           prompt == old.transcript[old.turns[n].prompt_position + 1].text
<1>1. PICK status \in TurnStatus \ {"running"}, item \in TranscriptItem :
        /\ new.transcript = Append(old.transcript, item)
        /\ new.turns = [old.turns EXCEPT ![n].status = status]
        /\ new.history =
             IF status # "completed" THEN old.history
             ELSE old.history \o <<[role |-> "user", text |-> prompt],
                                   [role |-> "assistant", text |-> item.text]>>
  BY DEF Ended
<1>2. Durable!Grows(old.transcript, new.transcript, 1)
  BY <1>1, RecordSequences, AppendGrows
<1>3. status \in Durable!Outcomes
  BY DEF TurnStatus, Durable!Outcomes
<1>4. Durable!Running(old) = {n}
  BY DEF Ended, RunningTurns, Durable!Running
<1>5. ASSUME status = "completed"
      PROVE  Durable!Grows(old.history, new.history, 2)
  <2> DEFINE question == [role |-> "user", text |-> prompt]
             answer == [role |-> "assistant", text |-> item.text]
  <2>1. old.history \in Seq(Message) /\ new.history \in Seq(Message)
    BY RecordSequences
  <2>2. new.history = old.history \o <<question, answer>>
    BY <1>1, <1>5
  <2> HIDE DEF question, answer
  <2>3. old.history \o <<question, answer>> \in Seq(Message)
    BY <2>1, <2>2
  <2>4. <<question, answer>> \in Seq(Message)
    BY <2>1, <2>3, LastTwo
  <2>5. Durable!Grows(old.history, old.history \o <<question, answer>>, Len(<<question, answer>>))
    BY <2>1, <2>4, AppendedGrows
  <2> QED
    BY <2>2, <2>5
<1> QED
  BY <1>1, <1>2, <1>3, <1>4, <1>5 DEF Durable!Ends

\* What an advance is for the promise: a step of the conversation, or none.
LEMMA AdvancesConverses ==
    ASSUME NEW old \in Record, NEW new \in Record, Advances(old, new),
           Keeps(old, new) \/ SameExceptConversation(old, new)
    PROVE  Durable!Chooses(old, new) \/ Durable!Converses(old, new)
<1>1. CASE Keeps(old, new)
  BY <1>1 DEF Keeps, Durable!Chooses
<1>2. CASE Prompted(old, new)
  <2>1. PICK run \in Nat, prompt \in Prompts :
          /\ new.transcript = Append(old.transcript, [kind |-> "user", text |-> prompt])
          /\ new.turns = Append(old.turns, [run |-> run, prompt_position |-> Len(old.transcript),
                                            status |-> "running"])
    BY <1>2 DEF Prompted
  <2> DEFINE turn == [run |-> run, prompt_position |-> Len(old.transcript), status |-> "running"]
             item == [kind |-> "user", text |-> prompt]
  <2>2. turn \in DurableTurn /\ item \in TranscriptItem /\ turn.status = "running"
    BY RecordSequences DEF DurableTurn, TurnStatus, TranscriptItem
  <2> HIDE DEF turn, item
  <2>3. /\ new.transcript = Append(old.transcript, item) /\ new.turns = Append(old.turns, turn)
    BY <2>1 DEF turn, item
  <2>4. /\ Durable!Grows(old.transcript, new.transcript, 1)
        /\ Durable!Grows(old.turns, new.turns, 1)
    BY <2>2, <2>3, RecordSequences, AppendGrows
  <2>5. new.turns[Len(new.turns)].status = "running"
    BY <2>2, <2>3, RecordSequences
  <2>6. Durable!Running(old) = {} /\ new.history = old.history
    BY <1>2 DEF Prompted, RunningTurns, Durable!Running
  <2>7. Durable!Asks(old, new)
    BY <2>4, <2>5, <2>6 DEF Durable!Asks
  <2> QED
    BY <1>1, <2>4, <2>7 DEF Durable!Converses, SameExceptConversation
<1>3. CASE ToolRan(old, new)
  <2> DEFINE item == [kind |-> "tool_started", run |-> old.turns[Len(old.turns)].run]
  <2>1. /\ RunningTurns(old) = {Len(old.turns)} /\ new.turns = old.turns
        /\ new.history = old.history /\ new.transcript = Append(old.transcript, item)
    BY <1>3 DEF ToolRan
  <2>2. item \in TranscriptItem
    <3>1. Len(old.turns) \in DOMAIN old.turns
      BY <2>1 DEF RunningTurns
    <3>2. old.turns[Len(old.turns)] \in DurableTurn
      BY <3>1, RecordSequences
    <3> QED
      BY <3>2 DEF DurableTurn, TranscriptItem
  <2> HIDE DEF item
  <2>3. Durable!Grows(old.transcript, new.transcript, 1)
    BY <2>1, <2>2, RecordSequences, AppendGrows
  <2>4. Durable!Works(old, new)
    BY <2>1 DEF Durable!Works, Durable!Running, RunningTurns
  <2> QED
    BY <1>1, <2>3, <2>4 DEF Durable!Converses, SameExceptConversation
<1>4. CASE Ended(old, new)
  BY <1>1, <1>4, EndedEnds DEF Durable!Converses, SameExceptConversation
<1> QED
  BY <1>1, <1>2, <1>3, <1>4 DEF Advances

\* A session is created with one turn.
LEMMA FirstIsCreated ==
    ASSUME SafetyInv', row = None, ~Live, First(row'), Live' => record' = row'
    PROVE  Durable!Create
<1>1. PICK p \in Prompts :
        LET new == Materialized(p, DefaultSettings, FallbackTitle)
        IN  row' = new \/ row' = FailedStart(new)
  BY DEF First
<1> DEFINE new == Materialized(p, DefaultSettings, FallbackTitle)
           failed == FailedStart(new)
<1>2. /\ new.turns = <<[run |-> 0, prompt_position |-> 0, status |-> "running"]>>
      /\ Len(new.transcript) = 1 /\ new.history = << >> /\ new.title.revision = 0
  BY DEF Materialized
<1>3. /\ failed.turns = <<[run |-> 0, prompt_position |-> 0, status |-> "failed"]>>
      /\ Len(failed.transcript) = 2 /\ failed.history = << >>
      /\ failed.title.revision = 0
  BY DEF Materialized, FailedStart
<1>4. new \in Record /\ failed \in Record
  BY StoredTypes, ActorAssumption
<1>5. row' \in {new, failed}
  BY <1>1
<1> HIDE DEF new, failed
<1>6. row' \notin {None, Removed}
  BY <1>4, <1>5, RecordAssumption, ActorAssumption
<1>7. row'.history = << >> /\ row'.title.revision = 0
  BY <1>2, <1>3, <1>5
<1>8. ASSUME NEW status,
             row'.turns = <<[run |-> 0, prompt_position |-> 0, status |-> status]>>
      PROVE  /\ Len(row'.turns) = 1 /\ row'.turns[1].status = status
             /\ Durable!Running(row') = {} <=> status # "running"
  <2>1. Len(row'.turns) = 1 /\ DOMAIN row'.turns = {1} /\ row'.turns[1].status = status
    BY <1>8
  <2> QED
    BY <2>1 DEF Durable!Running
<1>9. /\ Len(row'.turns) = 1 /\ row'.turns[1].status \in {"running", "failed"}
      /\ Len(row'.transcript) = IF Durable!Running(row') = {} THEN 2 ELSE 1
  <2>1. CASE row' = new
    <3>1. row'.turns = <<[run |-> 0, prompt_position |-> 0, status |-> "running"]>>
      BY <1>2, <2>1
    <3>2. Len(row'.turns) = 1 /\ row'.turns[1].status = "running" /\ Durable!Running(row') # {}
      BY <1>8, <3>1
    <3> QED
      BY <1>2, <2>1, <3>2
  <2>2. CASE row' = failed
    <3>1. row'.turns = <<[run |-> 0, prompt_position |-> 0, status |-> "failed"]>>
      BY <1>3, <2>2
    <3>2. Len(row'.turns) = 1 /\ row'.turns[1].status = "failed" /\ Durable!Running(row') = {}
      BY <1>8, <3>1
    <3> QED
      BY <1>3, <2>2, <3>2
  <2> QED
    BY <1>5, <2>1, <2>2
<1> QED
  BY <1>6, <1>7, <1>9 DEF Durable!Create, Durable!Opened, Live

\* Every step of the session is one that DurableSession allows.
LEMMA DurableStep ==
    ASSUME SafetyInv, SafetyInv', RecordInv, [Next]_vars
    PROVE  [Durable!Next]_(Durable!vars)
<1>1. StepShape
  BY StepHasShape DEF RecordInv
<1>2. /\ row \in Record \cup {None, Removed} /\ row' \in Record \cup {None, Removed}
      /\ record \in Record \cup {None} /\ record' \in Record \cup {None}
      /\ None \notin Record /\ Removed \notin Record /\ Removed # None
  BY RecordAssumption, ActorAssumption DEF SafetyInv, TypeOK
<1>3. /\ Live <=> record \in Record
      /\ Live' <=> record' \in Record
      /\ ~Live => record = None
      /\ ~Live' => record' = None
      /\ Exists <=> row \in Record
      /\ Live => row # None
      /\ row = Removed => row' = Removed
  BY <1>2, RemovedStays DEF Live, Exists, SafetyInv, DeletionInv
<1>4. Durable!Honest /\ Durable!Honest'
  BY DEF SafetyInv, StoreInv, StoredOrDirty, WarningMeansUnsaved, Live, Durable!Honest,
         Durable!Opened
<1>5. Exists <=> Durable!Present
  BY DEF Exists, Durable!Present
<1>6. Live <=> Durable!Opened
  BY DEF Live, Durable!Opened
<1>7. CASE LiveShape
  <2>1. /\ Live /\ Live' /\ Advances(record, record') /\ record'.title = record.title
        /\ Keeps(record, record') \/ SameExceptConversation(record, record')
        /\ row' \in {row, record'} \/ (row' = Removed /\ UNCHANGED record)
    BY <1>7 DEF LiveShape
  <2>2. CASE row' \in {row, record'}
    <3>1. Durable!Chooses(record, record') \/ Durable!Converses(record, record')
      BY <1>3, <2>1, AdvancesConverses
    <3>2. row' = row \/ (Exists /\ row' = record')
      BY <1>2, <1>3, <2>1, <2>2
    <3>3. Durable!Change
      BY <1>2, <1>3, <1>5, <1>6, <2>1, <3>1, <3>2 DEF Durable!Change
    <3> QED
      BY <1>4, <3>3 DEF Durable!Next
  <2>3. CASE row' = Removed /\ UNCHANGED record /\ row # Removed
    BY <1>4, <2>3 DEF Durable!Next, Durable!Delete
  <2> QED
    BY <1>3, <2>1, <2>2, <2>3
<1>8. CASE TitleShape
  <2>1. PICK t \in Titles, source \in {"generated", "manual"} :
          /\ row' = Retitled(row, t, source)
          /\ source = "generated" => row.title.source # "manual"
    BY <1>8 DEF TitleShape
  <2>2. row \in Record /\ Exists
    BY <1>3, <1>8 DEF TitleShape
  <2>3. row' \in Record /\ row'.title.revision = row.title.revision + 1
        /\ row'.title.source = source
    BY <2>1, <2>2, RetitledKeeps
  <2>4. row' = [row EXCEPT !.title = row'.title]
    BY <2>1, <2>2 DEF Retitled, Record
  <2>5. record' = IF Live THEN [record EXCEPT !.title = row'.title] ELSE record
    BY <1>3, <1>8 DEF TitleShape
  <2>6. Durable!Retitle
    BY <1>2, <1>5, <1>6, <2>1, <2>2, <2>3, <2>4, <2>5 DEF Durable!Retitle
  <2> QED
    BY <1>4, <2>6 DEF Durable!Next
<1>9. CASE StartShape
  <2>1. CASE row = None /\ First(row')
    <3>1. Durable!Create
      BY <1>9, <2>1, FirstIsCreated DEF StartShape
    <3> QED
      BY <1>4, <3>1 DEF Durable!Next
  <2>2. CASE Exists /\ row' = Interrupted(row)
    <3>1. row \in Record /\ row' \in Record /\ LastRuns(row)
      BY <1>2, <1>3, <2>2, InterruptedType DEF RecordInv, Records
    <3>2. record' \in {None, row'} /\ ~Live
      BY <1>3, <1>9 DEF StartShape
    <3>3. CASE RunningTurns(row) = {}
      <4>1. row' = row
        BY <2>2, <3>1, <3>3, InterruptedAdvances
      <4>2. Durable!Running(row) = {}
        BY <3>3 DEF Durable!Running, RunningTurns
      <4> QED
        BY <1>2, <1>4, <1>5, <1>6, <2>2, <3>1, <3>2, <4>1, <4>2 DEF Durable!Next, Durable!Open
    <3>4. CASE RunningTurns(row) # {}
      <4>1. /\ Ended(row, row') /\ row'.history = row.history /\ SameExceptConversation(row, row')
            /\ row'.turns = [row.turns EXCEPT ![Len(row.turns)].status = "interrupted"]
        BY <2>2, <3>1, <3>4, InterruptedAdvances
      <4>2. Durable!Ends(row, row', "interrupted")
        BY <4>1 DEF Durable!Ends, Ended, Durable!Running, RunningTurns
      <4>3. Durable!Converses(row, row')
        BY <3>1, <4>1, EndedEnds DEF Durable!Converses, SameExceptConversation
      <4>4. Durable!Open
        BY <1>2, <1>5, <1>6, <2>2, <3>1, <3>2, <4>1, <4>2, <4>3
        DEF Durable!Open, SameExceptConversation
      <4> QED
        BY <1>4, <4>4 DEF Durable!Next
    <3> QED
      BY <3>3, <3>4
  <2> QED
    BY <1>9, <2>1, <2>2 DEF StartShape
<1>10. CASE ExitShape
  <2>1. ~Live' /\ (row' = row \/ (~Live /\ row' = Removed) \/ (Live /\ row' = record))
    BY <1>10 DEF ExitShape
  <2>2. CASE Live
    <3>1. \/ Exists /\ row' = record
          \/ row' = row
      BY <1>2, <1>3, <2>1, <2>2
    <3>2. Durable!Close
      BY <1>3, <1>4, <1>5, <1>6, <2>1, <2>2, <3>1 DEF Durable!Close, Durable!Honest
    <3> QED
      BY <1>4, <3>2 DEF Durable!Next
  <2>3. CASE ~Live
    <3>1. record' = record /\ row' \in {row, Removed}
      BY <1>3, <2>1, <2>3
    <3>2. CASE row' = row
      BY <2>1, <2>3, <3>1, <3>2 DEF Durable!vars
    <3>3. CASE row' # row
      BY <1>4, <3>1, <3>3 DEF Durable!Next, Durable!Delete
    <3> QED
      BY <3>2, <3>3
  <2> QED
    BY <2>2, <2>3
<1> QED
  BY <1>1, <1>7, <1>8, <1>9, <1>10 DEF StepShape

\* The session keeps what DurableSession promises, whatever fails in between: its
\* conversation is only continued, its title only advances, and what its clients
\* were shown is in the store unless they were warned.
THEOREM DurableCorrect == Spec => DurableSpec
<1>1. Init => Durable!Init
  BY DEF Init, Live, Durable!Init
<1>2. SafetyInv /\ SafetyInv' /\ RecordInv /\ [Next]_vars => [Durable!Next]_(Durable!vars)
  BY DurableStep
<1> QED
  BY <1>1, <1>2, Safety, RecordSafety, PTL DEF Spec, DurableSpec, Durable!Spec

-----------------------------------------------------------------------------
(***************************************************************************)
(* What clients see.                                                       *)
(***************************************************************************)

\* The reducer of a client reproduces the projection: the two programs, one in
\* projection.rs and one in workspace.rs, agree on every event.
LEMMA ReducersAgree ==
    ASSUME NEW p \in Projection, NEW ev \in SessionEvent, ValidEvent(p, ev)
    PROVE  LET envelope == [sequence |-> p.sequence + 1, event |-> ev]
           IN  /\ ClientAccepts(p, envelope)
               /\ ClientApply(p, envelope) = [Reduce(p, ev) EXCEPT !.sequence = p.sequence + 1]
<1> DEFINE envelope == [sequence |-> p.sequence + 1, event |-> ev]
           c == ClientApply(p, envelope)
           r == Reduce(p, ev)
           q == [r EXCEPT !.sequence = p.sequence + 1]
<1>1. r \in Projection
  BY ReduceType
<1>2. c \in Projection /\ ClientAccepts(p, envelope)
  <2>1. ClientAccepts(p, envelope)
    BY DEF ClientAccepts, ValidEvent
  <2>2. envelope \in Envelope
    BY DEF Envelope, Projection
  <2> HIDE DEF envelope
  <2> QED BY <2>1, <2>2, ClientApplyType
<1>3. q \in Projection /\ q.sequence = p.sequence + 1
      /\ q.title = r.title /\ q.title_revision = r.title_revision /\ q.busy = r.busy
      /\ q.transcript = r.transcript /\ q.active_run = r.active_run
      /\ q.settings = r.settings /\ q.plan = r.plan
      /\ q.persistence_warning = r.persistence_warning
  <2>1. p.sequence + 1 \in Nat
    BY DEF Projection
  <2> HIDE DEF r
  <2> QED BY <1>1, <2>1 DEF Projection
<1>4. c.sequence = p.sequence + 1
  BY DEF ClientApply
<1>5. c.title = r.title /\ c.title_revision = r.title_revision
  BY DEF ClientApply, Reduce, Projection
<1>6. c.transcript = r.transcript
  BY DEF ClientApply, Reduce, Projection
<1>7. c.busy = r.busy
  BY DEF ClientApply, Reduce, Projection
<1>8. c.active_run = r.active_run
  BY DEF ClientApply, Reduce, Projection
<1>9. c.settings = r.settings /\ c.plan = r.plan
  BY DEF ClientApply, Reduce, Projection
<1>10. c.persistence_warning = r.persistence_warning
  BY DEF ClientApply, Reduce, Projection
<1> HIDE DEF c, q, r
<1>11. c = q
  BY <1>2, <1>3, <1>4, <1>5, <1>6, <1>7, <1>8, <1>9, <1>10 DEF Projection
<1> QED BY <1>2, <1>11 DEF c, q, r

\* The views a client goes through while it drains its queue: it accepts every
\* event, and ends with projection p if it is still registered.
Replays(st, o, p) ==
    /\ st[0] = o.view
    /\ \A k \in 1 .. Len(o.queue) :
        /\ ClientAccepts(st[k - 1], o.queue[k])
        /\ st[k] = ClientApply(st[k - 1], o.queue[k])
        /\ st[k].sequence = o.view.sequence + k
    /\ o.sender => st[Len(o.queue)] = p

\* A client that has its receiver can drain its queue.
Follows(o, p) ==
    o.receiver => \E st \in [0 .. Len(o.queue) -> Projection] : Replays(st, o, p)

FollowAll(obs, p) == \A a \in Attachments : Follows(obs[a], p)

\* Every client follows, and no client is registered where there is no actor.
ViewsInv ==
    /\ FollowAll(observers, projection)
    /\ ~Live => \A a \in Attachments : ~observers[a].sender

\* A client that is dropped keeps what is queued.
LEMMA DroppedFollows ==
    ASSUME NEW o \in Observer, NEW p, NEW q, Follows(o, p)
    PROVE  Follows([o EXCEPT !.sender = FALSE], q)
<1> DEFINE c == [o EXCEPT !.sender = FALSE]
<1>1. c.receiver = o.receiver /\ c.queue = o.queue /\ c.view = o.view /\ c.sender = FALSE
  BY DEF Observer
<1> HIDE DEF c
<1>2. ASSUME NEW st, Replays(st, o, p) PROVE Replays(st, c, q)
  BY <1>1, <1>2 DEF Replays
<1>3. Follows(c, q)
  BY <1>1, <1>2 DEF Follows
<1> QED BY <1>3 DEF c

\* A registered client that is sent the next event follows the next projection.
LEMMA SentFollows ==
    ASSUME NEW o \in Observer, NEW p \in Projection, NEW ev \in SessionEvent,
           ValidEvent(p, ev), Follows(o, p), o.sender, o.receiver, p.sequence < MaxSequence
    PROVE  Follows([o EXCEPT !.queue = Append(@, [sequence |-> p.sequence + 1, event |-> ev])],
                   Project(p, ev))
<1> DEFINE envelope == [sequence |-> p.sequence + 1, event |-> ev]
           m == Len(o.queue)
           q == Project(p, ev)
           next == [o EXCEPT !.queue = Append(o.queue, envelope)]
<1>1. o.queue \in Seq(Envelope) /\ m \in Nat /\ o.view \in Projection
  <2>1. o.queue \in Seq(Envelope) /\ o.view \in Projection
    BY DEF Observer
  <2> QED BY <2>1, LenProperties
<1>2. envelope \in Envelope /\ p.sequence \in Nat
  BY DEF Envelope, Projection
<1>3. PICK st \in [0 .. m -> Projection] : Replays(st, o, p)
  BY DEF Follows
<1>4. ClientAccepts(p, envelope) /\ ClientApply(p, envelope) = q
  BY ReducersAgree DEF Project
<1>5. q \in Projection /\ q.sequence = p.sequence + 1
  <2> DEFINE r == Reduce(p, ev)
  <2>1. r \in Projection
    BY ReduceType
  <2>2. q = [r EXCEPT !.sequence = p.sequence + 1]
    BY DEF Project
  <2>3. p.sequence + 1 \in Nat
    BY <1>2
  <2> HIDE DEF r, q
  <2> QED BY <2>1, <2>2, <2>3 DEF Projection
<1> HIDE DEF envelope, q
<1>6. /\ next.view = o.view /\ next.sender = o.sender /\ next.receiver = o.receiver
      /\ next.queue = Append(o.queue, envelope)
  BY DEF Observer
<1>7. /\ Len(next.queue) = m + 1 /\ next.queue[m + 1] = envelope
      /\ \A k \in 1 .. m : next.queue[k] = o.queue[k]
  BY <1>1, <1>2, <1>6, AppendProperties
<1> HIDE DEF next
<1> DEFINE new == [k \in 0 .. m + 1 |-> IF k = m + 1 THEN q ELSE st[k]]
<1>8. new \in [0 .. Len(next.queue) -> Projection]
  BY <1>1, <1>3, <1>5, <1>7
<1>9. p.sequence = o.view.sequence + m
  <2>1. st[m] = p
    BY <1>3 DEF Replays
  <2>2. m = 0 \/ m \in 1 .. m
    BY <1>1
  <2>3. m = 0 => p.sequence = o.view.sequence + m
    <3>1. m = 0 => p = o.view
      BY <1>3, <2>1 DEF Replays
    <3> QED BY <1>2, <3>1
  <2>4. m \in 1 .. m => p.sequence = o.view.sequence + m
    BY <1>3, <2>1 DEF Replays
  <2> QED BY <2>2, <2>3, <2>4
<1>10. Replays(new, next, q)
  <2>1. new[0] = next.view
    BY <1>1, <1>3, <1>6 DEF Replays
  <2>2. ASSUME NEW k \in 1 .. m
        PROVE  /\ ClientAccepts(new[k - 1], next.queue[k])
               /\ new[k] = ClientApply(new[k - 1], next.queue[k])
               /\ new[k].sequence = next.view.sequence + k
    <3>1. new[k] = st[k] /\ new[k - 1] = st[k - 1]
      BY <1>1
    <3> HIDE DEF new
    <3> QED BY <1>3, <1>6, <1>7, <3>1 DEF Replays
  <2>3. /\ ClientAccepts(new[m + 1 - 1], next.queue[m + 1])
        /\ new[m + 1] = ClientApply(new[m + 1 - 1], next.queue[m + 1])
        /\ new[m + 1].sequence = next.view.sequence + (m + 1)
    <3>1. new[m + 1] = q /\ new[m + 1 - 1] = p
      <4>1. st[m] = p
        BY <1>3 DEF Replays
      <4> QED BY <1>1, <4>1
    <3>2. p.sequence + 1 = o.view.sequence + (m + 1)
      <4>1. o.view.sequence \in Nat
        BY <1>1 DEF Projection
      <4> QED BY SMTT(30), <1>1, <1>9, <4>1
    <3> HIDE DEF new
    <3> QED BY <1>4, <1>5, <1>6, <1>7, <3>1, <3>2
  <2>4. \A k \in 1 .. m + 1 : k \in 1 .. m \/ k = m + 1
    BY <1>1
  <2>5. new[m + 1] = q
    BY <1>1
  <2> HIDE DEF new
  <2> QED BY <1>7, <2>1, <2>2, <2>3, <2>4, <2>5 DEF Replays
<1> HIDE DEF new
<1>11. Follows(next, q)
  BY <1>8, <1>10 DEF Follows
<1> QED BY <1>11 DEF next, envelope, q

\* project and broadcast: who is sent the event follows, who is not is dropped.
LEMMA EmitUpToFollows ==
    ASSUME NEW s \in Shown, NEW ev \in SessionEvent, ValidEvent(s.projection, ev), NEW limit,
           FollowAll(s.observers, s.projection)
    PROVE  LET t == EmitUpTo(s, ev, limit) IN FollowAll(t.observers, t.projection)
<1> DEFINE p == s.projection
           obs == s.observers
           envelope == [sequence |-> p.sequence + 1, event |-> ev]
           t == EmitUpTo(s, ev, limit)
<1>1. p \in Projection /\ obs \in ObserverMap
  BY DEF Shown
<1>2. t.projection = Project(p, ev)
  BY DEF EmitUpTo
<1>3. ASSUME NEW a \in Attachments PROVE Follows(t.observers[a], Project(p, ev))
  <2>1. obs[a] \in Observer /\ Follows(obs[a], p)
    BY <1>1 DEF ObserverMap, FollowAll
  <2>2. CASE p.sequence < MaxSequence
    <3>1. t.observers = Deliver(obs, envelope, limit)
      BY <2>2 DEF EmitUpTo
    <3>2. t.observers[a] = IF obs[a].sender /\ obs[a].receiver /\ Len(obs[a].queue) < limit
                           THEN [obs[a] EXCEPT !.queue = Append(@, envelope)]
                           ELSE [obs[a] EXCEPT !.sender = FALSE]
      BY <3>1 DEF Deliver
    <3> HIDE DEF t
    <3> QED BY <1>1, <2>1, <2>2, <3>2, SentFollows, DroppedFollows
  <2>3. CASE ~(p.sequence < MaxSequence)
    <3>1. t.observers[a] = [obs[a] EXCEPT !.sender = FALSE]
      BY <2>3 DEF EmitUpTo, CloseObservers
    <3> HIDE DEF t
    <3> QED BY <2>1, <3>1, DroppedFollows
  <2> QED BY <2>2, <2>3
<1> QED BY <1>2, <1>3 DEF FollowAll

\* So for ordinary and terminal broadcasts, and for warnings.
LEMMA EmitFollows ==
    ASSUME NEW s \in Shown, NEW ev \in SessionEvent, ValidEvent(s.projection, ev),
           FollowAll(s.observers, s.projection)
    PROVE  /\ FollowAll(Emit(s, ev).observers, Emit(s, ev).projection)
           /\ FollowAll(EmitTerminal(s, ev).observers, EmitTerminal(s, ev).projection)
BY EmitUpToFollows DEF Emit, EmitTerminal

\* The clients follow a change of the persistence warning.
LEMMA EmitTransitionFollows ==
    ASSUME NEW s \in Shown, NEW transition, FollowAll(s.observers, s.projection)
    PROVE  LET t == EmitTransition(s, transition) IN FollowAll(t.observers, t.projection)
<1> DEFINE ev == [type |-> "PersistenceWarning", warning |-> transition = "warn"]
<1>1. ev \in SessionEvent /\ ValidEvent(s.projection, ev)
  BY SessionEventValid DEF SessionEvent, RunEventTypes
<1> HIDE DEF ev
<1>2. FollowAll(Emit(s, ev).observers, Emit(s, ev).projection)
  BY <1>1, EmitFollows
<1> QED BY <1>2 DEF EmitTransition, ev

\* Dropping every client.
LEMMA CloseFollows ==
    ASSUME NEW obs \in ObserverMap, NEW p, NEW q, FollowAll(obs, p)
    PROVE  /\ FollowAll(CloseObservers(obs), q)
           /\ \A a \in Attachments : ~CloseObservers(obs)[a].sender
<1>1. \A a \in Attachments : obs[a] \in Observer
  BY DEF ObserverMap
<1>2. \A a \in Attachments : CloseObservers(obs)[a] = [obs[a] EXCEPT !.sender = FALSE]
  BY DEF CloseObservers
<1>3. ASSUME NEW a \in Attachments PROVE ~CloseObservers(obs)[a].sender
  BY <1>1, <1>2 DEF Observer
<1>4. ASSUME NEW a \in Attachments PROVE Follows(CloseObservers(obs)[a], q)
  <2>1. obs[a] \in Observer /\ Follows(obs[a], p)
    BY <1>1 DEF FollowAll
  <2>2. Follows([obs[a] EXCEPT !.sender = FALSE], q)
    BY <2>1, DroppedFollows
  <2> QED BY <1>2, <2>2
<1> QED BY <1>3, <1>4 DEF FollowAll

\* The client takes the next event, and replays one event less.
LEMMA ReceivedFollows ==
    ASSUME NEW o \in Observer, NEW p, Follows(o, p), o.receiver, o.queue # <<>>
    PROVE  /\ ClientAccepts(o.view, Head(o.queue))
           /\ Follows([o EXCEPT !.queue = Tail(@), !.view = ClientApply(@, Head(o.queue))], p)
<1> DEFINE m == Len(o.queue)
           next == [o EXCEPT !.queue = Tail(o.queue), !.view = ClientApply(o.view, Head(o.queue))]
<1>1. o.queue \in Seq(Envelope) /\ m \in Nat /\ m >= 1 /\ o.view \in Projection
  <2>1. o.queue \in Seq(Envelope) /\ o.view \in Projection
    BY DEF Observer
  <2>2. m \in Nat /\ m # 0
    BY <2>1, LenProperties, EmptySeq
  <2> HIDE DEF m
  <2> QED BY <2>1, <2>2
<1>2. Head(o.queue) = o.queue[1] /\ Len(Tail(o.queue)) = m - 1 /\ Tail(o.queue) \in Seq(Envelope)
      /\ \A k \in 1 .. m - 1 : Tail(o.queue)[k] = o.queue[k + 1]
  BY <1>1
<1>3. PICK st \in [0 .. m -> Projection] : Replays(st, o, p)
  BY DEF Follows
<1>4. /\ st[0] = o.view
      /\ \A k \in 1 .. m : /\ ClientAccepts(st[k - 1], o.queue[k])
                           /\ st[k] = ClientApply(st[k - 1], o.queue[k])
                           /\ st[k].sequence = o.view.sequence + k
      /\ o.sender => st[m] = p
  BY <1>3 DEF Replays
<1>5. /\ ClientAccepts(o.view, o.queue[1]) /\ st[1] = ClientApply(o.view, o.queue[1])
      /\ st[1].sequence = o.view.sequence + 1
  <2>1. 1 \in 1 .. m /\ 1 - 1 = 0
    BY <1>1
  <2> QED BY <1>4, <2>1
<1>6. /\ next.view = st[1] /\ next.queue = Tail(o.queue) /\ next.sender = o.sender
      /\ next.receiver = o.receiver
  BY <1>2, <1>5 DEF Observer
<1> HIDE DEF next
<1> DEFINE new == [k \in 0 .. m - 1 |-> st[k + 1]]
<1>7. new \in [0 .. Len(next.queue) -> Projection]
  <2>1. ASSUME NEW k \in 0 .. m - 1 PROVE st[k + 1] \in Projection
    <3>1. k + 1 \in 0 .. m
      BY <1>1
    <3> QED BY <3>1
  <2> QED BY <1>2, <1>6, <2>1
<1>8. Replays(new, next, p)
  <2>1. new[0] = next.view
    BY <1>1, <1>6
  <2>2. ASSUME NEW k \in 1 .. m - 1
        PROVE  /\ ClientAccepts(new[k - 1], next.queue[k])
               /\ new[k] = ClientApply(new[k - 1], next.queue[k])
               /\ new[k].sequence = next.view.sequence + k
    <3>1. new[k] = st[k + 1] /\ new[k - 1] = st[k] /\ next.queue[k] = o.queue[k + 1]
      BY <1>1, <1>2, <1>6
    <3>2. k + 1 \in 1 .. m /\ k + 1 - 1 = k /\ k \in Nat
      BY <1>1
    <3>3. st[k + 1].sequence = st[1].sequence + k
      <4>1. o.view.sequence \in Nat
        BY <1>1 DEF Projection
      <4>2. st[k + 1].sequence = o.view.sequence + (k + 1)
        BY <1>4, <3>2
      <4>3. st[1].sequence = o.view.sequence + 1
        BY <1>5
      <4>4. \A x, a, b \in Int : a = x + (k + 1) /\ b = x + 1 => a = b + k
        BY <3>2
      <4>5. st[k + 1].sequence \in Int /\ st[1].sequence \in Int
        BY <3>2, <4>1, <4>2, <4>3
      <4> QED BY <4>1, <4>2, <4>3, <4>4, <4>5
    <3> HIDE DEF new
    <3> QED BY <1>4, <1>6, <3>1, <3>2, <3>3
  <2>3. next.sender => new[m - 1] = p
    BY <1>1, <1>4, <1>6
  <2> HIDE DEF new
  <2> QED BY <1>2, <1>6, <2>1, <2>2, <2>3 DEF Replays
<1> HIDE DEF new
<1>9. Follows(next, p)
  BY <1>7, <1>8 DEF Follows
<1> QED BY <1>2, <1>5, <1>9 DEF next

-----------------------------------------------------------------------------
\* What a live actor shows is followed after it is shown.
LEMMA ShownFollows ==
    ASSUME NEW s, FollowAll(s.observers, s.projection), Show(s), Live'
    PROVE  ViewsInv'
BY DEF Show, ViewsInv, Live

\* A durable event, shown and followed, or dropped.
LEMMA RecordedFollows ==
    ASSUME SafetyInv, ViewsInv, Live, Live', NEW ev \in SessionEvent, NEW history,
           NEW ok \in BOOLEAN, RecordDurably(ev, history, ok)
    PROVE  ViewsInv'
<1>1. Visible \in Shown /\ FollowAll(Visible.observers, Visible.projection)
  BY LiveTypes DEF SafetyInv, ViewsInv, Visible
<1>2. CASE DurableApplies(record, ev) /\ ValidEvent(projection, ev)
  <2> DEFINE s == Emit(Visible, ev)
             t == EmitTransition(s, Transition(Stores(ok)))
  <2>1. ValidEvent(Visible.projection, ev)
    BY <1>2 DEF Visible
  <2>2. s \in Shown /\ FollowAll(s.observers, s.projection)
    BY <1>1, <2>1, EmitType, EmitFollows
  <2>3. Show(t)
    BY <1>2 DEF RecordDurably
  <2> HIDE DEF s
  <2>4. FollowAll(t.observers, t.projection)
    BY <2>2, EmitTransitionFollows
  <2> HIDE DEF t
  <2> QED BY <2>3, <2>4, ShownFollows
<1>3. CASE ~(DurableApplies(record, ev) /\ ValidEvent(projection, ev))
  BY <1>3 DEF RecordDurably, ViewsInv, Live
<1> QED BY <1>2, <1>3

\* An event that is shown, with or without a warning.
LEMMA EventFollows ==
    ASSUME SafetyInv, ViewsInv, Live, Live', NEW ev \in SessionEvent,
           ValidEvent(projection, ev),
           \/ Show(Emit(Visible, ev))
           \/ \E transition : Show(EmitTransition(Emit(Visible, ev), transition))
    PROVE  ViewsInv'
<1>1. Visible \in Shown /\ FollowAll(Visible.observers, Visible.projection)
      /\ ValidEvent(Visible.projection, ev)
  BY LiveTypes DEF SafetyInv, ViewsInv, Visible
<1> DEFINE s == Emit(Visible, ev)
<1>2. s \in Shown /\ FollowAll(s.observers, s.projection)
  BY <1>1, EmitType, EmitFollows
<1> HIDE DEF s
<1>3. \A transition : LET t == EmitTransition(s, transition)
                      IN  FollowAll(t.observers, t.projection)
  BY <1>2, EmitTransitionFollows
<1> QED BY <1>2, <1>3, ShownFollows DEF s

\* A flush shows at most a warning.
LEMMA FlushFollows ==
    ASSUME SafetyInv, ViewsInv, Live, NEW ok \in BOOLEAN
    PROVE  Flushed(ok) \in Shown /\ FollowAll(Flushed(ok).observers, Flushed(ok).projection)
<1> DEFINE ev == [type |-> "PersistenceWarning", warning |-> ~Stores(ok)]
<1>1. Visible \in Shown /\ FollowAll(Visible.observers, Visible.projection)
  BY LiveTypes DEF SafetyInv, ViewsInv, Visible
<1>2. ev \in SessionEvent /\ ValidEvent(Visible.projection, ev)
  BY SessionEventValid DEF SessionEvent, RunEventTypes
<1> HIDE DEF ev
<1>3. Emit(Visible, ev) \in Shown
      /\ FollowAll(Emit(Visible, ev).observers, Emit(Visible, ev).projection)
  BY <1>1, <1>2, EmitType, EmitFollows
<1> QED BY <1>1, <1>3 DEF Flushed, ev

\* A step that changes neither the projection nor what clients have.
LEMMA UnseenFollows ==
    ASSUME ViewsInv, UNCHANGED <<record, projection, observers>>
    PROVE  ViewsInv'
BY DEF ViewsInv, Live

\* An actor that starts has no client yet, and one that ends has none left.
LEMMA NoClientFollows ==
    ASSUME SafetyInv, ViewsInv,
           \/ ~Live /\ UNCHANGED observers
           \/ ~Live' /\ \E obs \in ObserverMap : \E p :
                            FollowAll(obs, p) /\ observers' = CloseObservers(obs)
    PROVE  ViewsInv'
<1>1. observers \in ObserverMap
  BY DEF SafetyInv, TypeOK, ObserverMap
<1>2. CASE ~Live /\ UNCHANGED observers
  <2>1. \A a \in Attachments : ~observers[a].sender /\ Follows(observers[a], projection)
    BY <1>2 DEF ViewsInv, FollowAll
  <2>2. ASSUME NEW a \in Attachments PROVE Follows(observers[a], projection')
    <3>1. observers[a] \in Observer /\ ~observers[a].sender
      BY <1>1, <2>1 DEF ObserverMap
    <3>2. observers[a] = [observers[a] EXCEPT !.sender = FALSE]
      BY <3>1 DEF Observer
    <3> QED BY <2>1, <3>1, <3>2, DroppedFollows
  <2> QED BY <1>2, <2>1, <2>2 DEF ViewsInv, FollowAll
<1>3. CASE ~Live' /\ \E obs \in ObserverMap : \E p :
                            FollowAll(obs, p) /\ observers' = CloseObservers(obs)
  BY <1>3, CloseFollows DEF ViewsInv
<1> QED BY <1>2, <1>3

\* What clients do themselves.
LEMMA ClientStepFollows ==
    ASSUME SafetyInv, ViewsInv, ObserverNext
    PROVE  ViewsInv'
<1>1. observers \in ObserverMap /\ \A a \in Attachments : Follows(observers[a], projection)
  BY DEF SafetyInv, TypeOK, ObserverMap, ViewsInv, FollowAll
<1>2. UNCHANGED <<record, projection>>
  BY DEF ObserverNext, Attach, Detach, Receive, ObserverClosed, Disconnect, DetachConnection,
         actorVars
\* It is enough to follow each client.
<1>3. ASSUME \A b \in Attachments : /\ Follows(observers'[b], projection)
                                    /\ ~Live => ~observers'[b].sender
      PROVE  ViewsInv'
  BY <1>2, <1>3 DEF ViewsInv, FollowAll, Live
<1>4. ~Live => \A a \in Attachments : ~observers[a].sender
  BY DEF ViewsInv
\* A client that has no channel, or whose channel is dropped.
<1>5. ASSUME NEW a \in Attachments
      PROVE  /\ \A s : Follows([Unattached EXCEPT !.sender = s], projection)
             /\ \A s : [Unattached EXCEPT !.sender = s].sender = s
             /\ Follows(Unattached, projection) /\ ~Unattached.sender
             /\ Follows([observers[a] EXCEPT !.sender = FALSE], projection)
             /\ ~[observers[a] EXCEPT !.sender = FALSE].sender
  <2>1. observers[a] \in Observer
    BY <1>1 DEF ObserverMap
  <2>2. Follows([observers[a] EXCEPT !.sender = FALSE], projection)
    BY <1>1, <2>1, DroppedFollows
  <2> QED BY <2>1, <2>2 DEF Follows, Unattached, Observer
<1>6. ASSUME NEW a \in Attachments, Attach(a) PROVE ViewsInv'
  <2> DEFINE new == [sender |-> TRUE, receiver |-> TRUE, queue |-> <<>>, view |-> projection]
             st == [k \in 0 .. 0 |-> projection]
  <2>1. Live /\ observers' = [observers EXCEPT ![a] = new]
    BY <1>6 DEF Attach
  <2>2. Follows(new, projection)
    <3>1. projection \in Projection
      BY <2>1, LiveTypes DEF SafetyInv
    <3>2. st \in [0 .. Len(new.queue) -> Projection]
      BY <3>1
    <3>3. Replays(st, new, projection)
      BY DEF Replays
    <3> HIDE DEF st, new
    <3> QED BY <3>2, <3>3 DEF Follows
  <2> HIDE DEF new
  <2> QED BY <1>1, <1>3, <2>1, <2>2 DEF ObserverMap
<1>7. ASSUME NEW a \in Attachments, Detach(a) PROVE ViewsInv'
  <2>1. observers' = [observers EXCEPT ![a] = [observers[a] EXCEPT !.sender = FALSE]]
    BY <1>7 DEF Detach
  <2> QED BY <1>1, <1>3, <1>4, <1>5, <2>1 DEF ObserverMap
<1>8. ASSUME NEW a \in Attachments, Receive(a) PROVE ViewsInv'
  <2> DEFINE o == observers[a]
             taken == [o EXCEPT !.queue = Tail(@), !.view = ClientApply(@, Head(o.queue))]
             gone == [Unattached EXCEPT !.sender = o.sender]
  <2>1. o.receiver /\ o.queue # <<>> /\ o \in Observer /\ Follows(o, projection)
    BY <1>1, <1>8 DEF Receive, ObserverMap
  <2>2. \/ observers' = [observers EXCEPT ![a] = taken]
        \/ observers' = [observers EXCEPT ![a] = gone]
    BY <1>8 DEF Receive
  <2>3. Follows(taken, projection) /\ taken.sender = o.sender
    BY <2>1, ReceivedFollows DEF Observer
  <2>4. Follows(gone, projection) /\ gone.sender = o.sender
    BY <1>5
  <2> HIDE DEF taken, gone
  <2> QED BY <1>1, <1>3, <1>4, <2>2, <2>3, <2>4 DEF ObserverMap
<1>9. ASSUME NEW a \in Attachments, ObserverClosed(a) PROVE ViewsInv'
  <2>1. observers' = [observers EXCEPT ![a] = Unattached]
    BY <1>9 DEF ObserverClosed
  <2> QED BY <1>1, <1>3, <1>4, <1>5, <2>1 DEF ObserverMap
<1>10. ASSUME NEW c, Disconnect(c) PROVE ViewsInv'
  <2>1. \A b \in Attachments :
            observers'[b] = IF b[1] = c THEN [Unattached EXCEPT !.sender = observers[b].sender]
                                        ELSE observers[b]
    BY <1>10 DEF Disconnect
  <2>2. ASSUME NEW b \in Attachments
        PROVE  Follows(observers'[b], projection) /\ (~Live => ~observers'[b].sender)
    <3> DEFINE gone == [Unattached EXCEPT !.sender = observers[b].sender]
    <3>1. Follows(gone, projection) /\ gone.sender = observers[b].sender
      BY <1>5
    <3>2. Follows(observers[b], projection) /\ (~Live => ~observers[b].sender)
      BY <1>1, <1>4
    <3>3. observers'[b] = gone \/ observers'[b] = observers[b]
      BY <2>1
    <3> HIDE DEF gone
    <3> QED BY <3>1, <3>2, <3>3
  <2> QED BY <1>3, <2>2
<1>11. ASSUME NEW c, DetachConnection(c) PROVE ViewsInv'
  <2>1. \A b \in Attachments :
            observers'[b] = IF b[1] = c THEN [observers[b] EXCEPT !.sender = FALSE]
                                        ELSE observers[b]
    BY <1>11 DEF DetachConnection
  <2> QED BY <1>1, <1>3, <1>4, <1>5, <2>1
<1> QED BY <1>6, <1>7, <1>8, <1>9, <1>10, <1>11 DEF ObserverNext

\* Every step keeps the clients following.
LEMMA ViewsStep ==
    ASSUME SafetyInv, SafetyInv', ViewsInv, [Next]_vars
    PROVE  ViewsInv'
<1>a. observers \in ObserverMap /\ FollowAll(observers, projection)
  BY DEF SafetyInv, TypeOK, ObserverMap, ViewsInv
<1>b. Live => record \in Record /\ harness \in HarnessState /\ projection \in Projection
              /\ Visible \in Shown
  BY LiveTypes DEF SafetyInv
<1>1. ASSUME NEW p \in Prompts, MaterializeAndSubmit(p) \/ MaterializeWithoutRun(p)
      PROVE  ViewsInv'
  <2>1. row = None /\ UNCHANGED observers
    BY <1>1 DEF MaterializeAndSubmit, MaterializeWithoutRun
  <2>2. ~Live
    BY <2>1 DEF SafetyInv, DeletionInv
  <2> QED BY <2>1, <2>2, NoClientFollows
<1>2. ASSUME NEW created \in BOOLEAN, Open(created) PROVE ViewsInv'
  BY <1>2, NoClientFollows DEF Open
\* The durable events.
<1>3. ASSUME Live, NEW ev \in SessionEvent, NEW history \in Seq(Message), NEW ok \in BOOLEAN,
             RecordDurably(ev, history, ok)
      PROVE  ViewsInv'
  <2>1. record' \in Record
    BY <1>3, RecordDurablyTypes DEF SafetyInv, RecordedTypes
  <2>2. Live'
    BY <2>1, RecordAssumption DEF Live
  <2> QED BY <1>3, <2>2, RecordedFollows
<1>c. Live => /\ record.history \in Seq(Message) /\ harness.next_run_id \in Nat
              /\ Running => harness.active \in HarnessRun /\ harness.active.id \in Nat
  BY <1>b DEF Record, HarnessState, HarnessRun, Running
<1>4. ASSUME NEW p \in Prompts, NEW ok \in BOOLEAN, Submit(p, ok) PROVE ViewsInv'
  <2> DEFINE ev == [type |-> "Started", run |-> harness.next_run_id, prompt |-> p]
  <2>1. Live /\ RecordDurably(ev, record.history, ok)
    BY <1>4 DEF Submit, Mutable
  <2>2. ev \in SessionEvent
    BY <1>c, <2>1 DEF SessionEvent
  <2> HIDE DEF ev
  <2> QED BY <1>3, <1>c, <2>1, <2>2
<1>5. ASSUME NEW ok \in BOOLEAN, Cancel(ok) PROVE ViewsInv'
  <2> DEFINE ev == [type |-> "Cancelled", run |-> harness.active.id]
  <2>1. Live /\ Running /\ RecordDurably(ev, record.history, ok)
    BY <1>5 DEF Cancel, Mutable
  <2>2. ev \in SessionEvent
    BY <1>c, <2>1 DEF SessionEvent
  <2> HIDE DEF ev
  <2> QED BY <1>3, <1>c, <2>1, <2>2
<1>6. ASSUME NEW response \in Responses, NEW ok \in BOOLEAN, Completed(response, ok)
      PROVE  ViewsInv'
  <2> DEFINE h == HarnessComplete(harness, response)
             ev == [type |-> "Completed", run |-> harness.active.id, response |-> response]
  <2>1. Live /\ Running /\ RecordDurably(ev, h.history, ok)
    BY <1>6 DEF Completed, RunEvent
  <2>2. ev \in SessionEvent
    BY <1>c, <2>1 DEF SessionEvent
  <2>3. h \in HarnessState
    BY <1>b, <2>1, HarnessTypes DEF Running
  <2> HIDE DEF ev, h
  <2>4. h.history \in Seq(Message)
    BY <2>3 DEF HarnessState
  <2> QED BY <1>3, <2>1, <2>2, <2>4
<1>7. ASSUME NEW ok \in BOOLEAN, RunFails(ok) PROVE ViewsInv'
  <2> DEFINE ev == [type |-> "Failed", run |-> harness.active.id, failure |-> "run"]
  <2>1. Live /\ Running /\ RecordDurably(ev, record.history, ok)
    BY <1>7 DEF RunFails, RunEvent
  <2>2. ev \in SessionEvent
    BY <1>c, <2>1 DEF SessionEvent, Failures
  <2> HIDE DEF ev
  <2> QED BY <1>3, <1>c, <2>1, <2>2
<1>8. ASSUME NEW ok \in BOOLEAN, ToolStarted(ok) PROVE ViewsInv'
  <2> DEFINE ev == [type |-> "ToolStarted", run |-> harness.active.id]
  <2>1. Live /\ Running /\ RecordDurably(ev, record.history, ok)
    BY <1>8 DEF ToolStarted, RunEvent
  <2>2. ev \in SessionEvent
    BY <1>c, <2>1 DEF SessionEvent
  <2> HIDE DEF ev
  <2> QED BY <1>3, <1>c, <2>1, <2>2
\* The events that are not durable, and the changes of settings, plan and title.
<1>d. ASSUME Live, NEW ev \in SessionEvent, ValidEvent(projection, ev), NEW rec \in Record,
             record' = rec,
             \/ Show(Emit(Visible, ev))
             \/ \E transition : Show(EmitTransition(Emit(Visible, ev), transition))
      PROVE  ViewsInv'
  <2>1. Live'
    BY <1>d, RecordAssumption DEF Live
  <2> QED BY <1>d, <2>1, EventFollows
<1>9. ASSUME NEW tokens \in TokenCounts, NEW ok \in BOOLEAN, ContextUsage(tokens, ok)
      PROVE  ViewsInv'
  <2> DEFINE ev == [type |-> "ContextUsage", run |-> harness.active.id, tokens |-> tokens]
             rec == [record EXCEPT !.settings.context_tokens = tokens]
  <2>1. Live /\ Running /\ record' = rec
    BY <1>9 DEF ContextUsage, RunEvent
  <2>2. ev \in SessionEvent
    BY <1>c, <2>1, ActorAssumption DEF SessionEvent
  <2>3. ValidEvent(projection, ev)
    BY <2>1, RunEventApplies DEF RunEventTypes, SafetyInv
  <2>4. Show(EmitTransition(Emit(Visible, ev), Transition(Stores(ok))))
    BY <1>9, <2>3 DEF ContextUsage
  <2>5. rec \in Record
    BY <1>b, <2>1, ActorAssumption DEF Record, Settings
  <2> HIDE DEF ev, rec
  <2> QED BY <1>d, <2>1, <2>2, <2>3, <2>4, <2>5
<1>10. ASSUME NEW type \in {"AssistantDelta", "ToolFinished"}, ShowRunEvent(type)
       PROVE  ViewsInv'
  <2> DEFINE ev == [type |-> type, run |-> harness.active.id]
  <2>1. Live /\ Running /\ ValidEvent(projection, ev) /\ Show(Emit(Visible, ev))
        /\ record' = record
    BY <1>10 DEF ShowRunEvent, RunEvent
  <2>2. ev \in SessionEvent
    BY <1>c, <2>1 DEF SessionEvent
  <2> HIDE DEF ev
  <2> QED BY <1>b, <1>d, <2>1, <2>2
<1>11. ASSUME Live, NEW settings \in Settings, NEW ok \in BOOLEAN, ChangeSettings(settings, ok)
       PROVE  ViewsInv'
  <2> DEFINE ev == [type |-> "SettingsChanged", settings |-> settings]
             rec == [record EXCEPT !.settings = settings]
  <2>1. record' = rec /\ Show(EmitTransition(Emit(Visible, ev), Transition(Stores(ok))))
    BY <1>11 DEF ChangeSettings
  <2>2. ev \in SessionEvent /\ ValidEvent(projection, ev)
    BY SessionEventValid DEF SessionEvent, RunEventTypes
  <2>3. rec \in Record
    BY <1>b, <1>11 DEF Record
  <2> HIDE DEF ev, rec
  <2> QED BY <1>d, <1>11, <2>1, <2>2, <2>3
<1>12. ASSUME NEW model \in Models, NEW ok \in BOOLEAN, SelectModel(model, ok) PROVE ViewsInv'
  <2>1. Live /\ ChangeSettings([record.settings EXCEPT !.model = model], ok)
    BY <1>12 DEF SelectModel, Mutable
  <2>2. [record.settings EXCEPT !.model = model] \in Settings
    BY <1>b, <2>1 DEF Record, Settings
  <2> QED BY <1>11, <2>1, <2>2
<1>13. ASSUME NEW level \in Reasonings, NEW ok \in BOOLEAN, SelectReasoning(level, ok)
       PROVE  ViewsInv'
  <2>1. Live /\ ChangeSettings([record.settings EXCEPT !.reasoning = level], ok)
    BY <1>13 DEF SelectReasoning, Mutable
  <2>2. [record.settings EXCEPT !.reasoning = level] \in Settings
    BY <1>b, <2>1 DEF Record, Settings
  <2> QED BY <1>11, <2>1, <2>2
<1>14. ASSUME NEW plan \in Plans, NEW ok \in BOOLEAN, UpdatePlan(plan, ok) PROVE ViewsInv'
  <2> DEFINE ev == [type |-> "PlanChanged", plan |-> plan]
             rec == [record EXCEPT !.plan = plan]
  <2>1. Live /\ record' = rec
        /\ Show(EmitTransition(Emit(Visible, ev), Transition(Stores(ok))))
    BY <1>14 DEF UpdatePlan, RanBefore
  <2>2. ev \in SessionEvent /\ ValidEvent(projection, ev)
    BY SessionEventValid DEF SessionEvent, RunEventTypes
  <2>3. rec \in Record
    BY <1>b, <2>1 DEF Record
  <2> HIDE DEF ev, rec
  <2> QED BY <1>d, <2>1, <2>2, <2>3
<1>15. CASE JobsChanged
  <2> DEFINE ev == [type |-> "JobsChanged"]
  <2>1. Live /\ record' = record /\ Show(Emit(Visible, ev))
    BY <1>15 DEF JobsChanged, RanBefore
  <2>2. ev \in SessionEvent /\ ValidEvent(projection, ev)
    BY SessionEventValid DEF SessionEvent, RunEventTypes
  <2> HIDE DEF ev
  <2> QED BY <1>b, <1>d, <2>1, <2>2
<1>16. ASSUME Live, Exists, NEW t \in Titles, NEW source \in {"generated", "manual"},
              InstallTitle(Retitled(row, t, source).title)
       PROVE  ViewsInv'
  <2> DEFINE title == Retitled(row, t, source).title
             ev == [type |-> "TitleChanged", title |-> title.text,
                    title_revision |-> title.revision]
             rec == [record EXCEPT !.title = title]
  <2>1. title \in Title
    BY <1>16, ExistsType, StoredTypes DEF SafetyInv
  <2>2. record' = rec /\ Show(Emit(Visible, ev))
    BY <1>16 DEF InstallTitle
  <2> HIDE DEF title
  <2>3. ev \in SessionEvent /\ ValidEvent(projection, ev)
    BY <2>1, SessionEventValid DEF SessionEvent, RunEventTypes, Title
  <2>4. rec \in Record
    BY <1>b, <1>16, <2>1 DEF Record
  <2> HIDE DEF ev, rec
  <2> QED BY <1>d, <1>16, <2>2, <2>3, <2>4
<1>17. ASSUME NEW text \in Titles, Rename(text) PROVE ViewsInv'
  <2>1. /\ Exists
        /\ \/ Live /\ InstallTitle(Retitled(row, text, "manual").title)
           \/ UNCHANGED <<record, dirty, projection, observers>>
    BY <1>17 DEF Rename, Mutable
  <2> QED BY <1>16, <2>1, UnseenFollows
<1>18. ASSUME NEW text \in Titles \cup {None}, TitleGenerated(text) PROVE ViewsInv'
  <2>1. \/ /\ Live /\ Exists /\ text \in Titles
           /\ InstallTitle(Retitled(row, text, "generated").title)
        \/ UNCHANGED <<record, dirty, projection, observers>>
    BY <1>18 DEF TitleGenerated, Mutable
  <2> QED BY <1>16, <2>1, UnseenFollows
<1>19. ASSUME NEW ok \in BOOLEAN, NEW jobsOk \in BOOLEAN, PrepareDelete(ok, jobsOk)
       PROVE  ViewsInv'
  <2> DEFINE ev == [type |-> "Cancelled", run |-> harness.active.id]
             s == IF Running THEN Emit(Visible, ev) ELSE Visible
             cleared == Stores(ok) /\ projection.persistence_warning
             t == EmitTransition(s, IF cleared THEN "clear" ELSE "none")
  <2>1. Live
    BY <1>19 DEF PrepareDelete, Mutable
  <2>2. Running => DurableApplies(record, ev) /\ ValidEvent(projection, ev)
    BY <2>1, RunEventApplies DEF SafetyInv, RunEventTypes
  <2>3. Running => ev \in SessionEvent
    BY <1>c, <2>1 DEF SessionEvent
  <2>4. Show(t)
    BY <1>19, <2>2 DEF PrepareDelete
  <2>5. Live'
    <3>1. record' = IF Running THEN ApplyDurableEvent(record, ev) ELSE record
      BY <1>19, <2>2 DEF PrepareDelete
    <3>2. record' \in Record
      BY <1>b, <2>1, <2>2, <2>3, <3>1, DurableEventType
    <3> QED BY <3>2, RecordAssumption DEF Live
  <2>6. s \in Shown /\ FollowAll(s.observers, s.projection)
    <3>1. FollowAll(Visible.observers, Visible.projection) /\ Visible.projection = projection
      BY <1>a DEF Visible
    <3> HIDE DEF ev
    <3> QED BY <1>b, <2>1, <2>2, <2>3, <3>1, EmitType, EmitFollows
  <2> HIDE DEF s
  <2>7. FollowAll(t.observers, t.projection)
    BY <2>6, EmitTransitionFollows
  <2> HIDE DEF t
  <2> QED BY <2>4, <2>5, <2>7, ShownFollows
<1>20. ASSUME NEW ok \in BOOLEAN, RepositoryDelete(ok) \/ DeleteCold PROVE ViewsInv'
  BY <1>20, UnseenFollows DEF RepositoryDelete, DeleteCold, actorVars
<1>21. CASE FinishDelete
  <2> DEFINE ev == [type |-> "Deleted"]
             s == EmitTerminal(Visible, ev)
  <2>1. Live /\ ~Live' /\ observers' = CloseObservers(s.observers)
    BY <1>21 DEF FinishDelete, ActorExits, Live
  <2>2. ev \in SessionEvent /\ ValidEvent(Visible.projection, ev)
    BY SessionEventValid DEF SessionEvent, RunEventTypes
  <2>3. FollowAll(Visible.observers, Visible.projection)
    BY <1>a DEF Visible
  <2> HIDE DEF ev
  <2>4. s \in Shown /\ FollowAll(s.observers, s.projection)
    BY <1>b, <2>1, <2>2, <2>3, EmitType, EmitFollows
  <2> HIDE DEF s
  <2> QED BY <2>1, <2>4, NoClientFollows DEF Shown
<1>22. CASE AbortDelete \/ Abandoned
  <2>1. ~Live' /\ observers' = CloseObservers(observers)
    BY <1>22 DEF AbortDelete, Abandoned, ActorExits, Live
  <2> QED BY <1>a, <2>1, NoClientFollows
<1>23. CASE Crash
  <2>1. ~Live' /\ \A a \in Attachments : observers'[a] = Unattached
    BY <1>23 DEF Crash, ActorExits, Live
  <2> QED BY <2>1 DEF ViewsInv, FollowAll, Follows, Unattached
<1>24. ASSUME NEW ok \in BOOLEAN, Flush(ok) \/ ShutdownFails(ok) PROVE ViewsInv'
  <2>1. Live /\ Live' /\ Show(Flushed(ok))
    BY <1>24 DEF Flush, ShutdownFails, CanShutdown, FlushDirty, Live
  <2> QED BY <2>1, FlushFollows, ShownFollows
<1>25. ASSUME NEW ok \in BOOLEAN, Shutdown(ok) PROVE ViewsInv'
  <2>1. Live /\ ~Live' /\ observers' = CloseObservers(Flushed(ok).observers)
    BY <1>25 DEF Shutdown, CanShutdown, ActorExits, Live
  <2>2. Flushed(ok) \in Shown /\ FollowAll(Flushed(ok).observers, Flushed(ok).projection)
    BY <2>1, FlushFollows
  <2> QED BY <2>1, <2>2, NoClientFollows DEF Shown
<1>26. CASE ObserverNext
  BY <1>26, ClientStepFollows
<1>27. CASE UNCHANGED vars
  BY <1>27, UnseenFollows DEF vars, actorVars
<1> QED
  BY <1>1, <1>2, <1>4, <1>5, <1>6, <1>7, <1>8, <1>9, <1>10, <1>12, <1>13, <1>14, <1>15, <1>17,
     <1>18, <1>19, <1>20, <1>21, <1>22, <1>23, <1>24, <1>25, <1>26, <1>27
  DEF Next, ManagerNext, CommandNext, RunNext

\* In every state, a client that drains its queue goes through views that it
\* accepts, up to the projection if it is registered.
THEOREM ClientsReplay == Spec => []ViewsInv
<1>1. Init => ViewsInv
  BY DEF Init, ViewsInv, FollowAll, Follows, Unattached
<1>2. SafetyInv /\ SafetyInv' /\ ViewsInv /\ [Next]_vars => ViewsInv'
  BY ViewsStep
<1> QED BY <1>1, <1>2, Safety, PTL DEF Spec

\* A client accepts its next event, and a registered one that has drained its
\* queue has reproduced the projection of the actor.
THEOREM ViewsFollow == Spec => []ViewsFollowProjection
<1>1. ASSUME SafetyInv, ViewsInv PROVE ViewsFollowProjection
  <2>1. SUFFICES ASSUME NEW a \in Attachments, observers[a].receiver
                 PROVE  LET o == observers[a]
                        IN  /\ o.queue # <<>> => ClientAccepts(o.view, Head(o.queue))
                            /\ o.sender =>
                                 /\ o.view.sequence + Len(o.queue) = projection.sequence
                                 /\ o.queue = <<>> => o.view = projection
    BY DEF ViewsFollowProjection
  <2> DEFINE o == observers[a]
             m == Len(o.queue)
  <2>2. o \in Observer /\ Follows(o, projection)
    BY <1>1 DEF SafetyInv, TypeOK, ViewsInv, FollowAll
  <2>3. PICK st \in [0 .. m -> Projection] : Replays(st, o, projection)
    BY <2>1, <2>2 DEF Follows
  <2>4. o.queue \in Seq(Envelope) /\ o.view \in Projection
    BY <2>1, <2>2 DEF Observer
  <2>5. m \in Nat /\ (o.queue = <<>> <=> m = 0) /\ o.view.sequence \in Nat
    <3>1. m \in Nat /\ (o.queue = <<>> <=> m = 0)
      BY <2>4, LenProperties, EmptySeq
    <3> QED BY <2>4, <3>1 DEF Projection
  <2>6. o.queue # <<>> => ClientAccepts(o.view, Head(o.queue))
    BY <2>1, <2>2, ReceivedFollows
  <2>7. o.sender => st[m] = projection /\ st[0] = o.view
    BY <2>3 DEF Replays
  <2>8. m # 0 => st[m].sequence = o.view.sequence + m
    <3>1. m # 0 => m \in 1 .. m
      BY <2>5
    <3> QED BY <2>3, <3>1 DEF Replays
  <2> HIDE DEF o, m
  <2>9. o.sender => o.view.sequence + m = projection.sequence
    BY <2>5, <2>7, <2>8
  <2>10. o.sender /\ o.queue = <<>> => o.view = projection
    BY <2>5, <2>7
  <2> QED BY <2>6, <2>9, <2>10 DEF o, m
<1> QED BY <1>1, ClientsReplay, Safety, PTL
=============================================================================
