---------------------------- MODULE SessionRecord ----------------------------
(***************************************************************************)
(* The data of one moh session and the pure functions over it: the durable *)
(* record a session actor owns (src/src/session/store.rs, types.rs), the   *)
(* typed events of a session, the durable part of each event               *)
(* (apply_durable_event in actor.rs), the authoritative in-memory          *)
(* projection (projection.rs) and the reducer with which a terminal client *)
(* keeps its own copy of that projection (src/src/client/workspace.rs).    *)
(*                                                                         *)
(* Prompts, answers, titles, models and plans are uninterpreted values;    *)
(* the text streamed for an unfinished answer is the number of deltas in   *)
(* it; timestamps and the working directory are left out.                  *)
(***************************************************************************)
EXTENDS Naturals, Sequences, FiniteSets

CONSTANTS
    None,           \* the absent value of an Option
    Prompts,        \* texts a user submits
    Responses,      \* non-blank final answers of the model
    Titles,         \* session titles
    Models,         \* model identifiers a client may name
    Reasonings,     \* reasoning levels
    Plans,          \* execution plans
    EmptyPlan       \* the plan of a session that has none

-----------------------------------------------------------------------------
(***************************************************************************)
(* Types.                                                                  *)
(***************************************************************************)
Title == [text : Titles, source : {"fallback", "generated", "manual"}, revision : Nat]
Settings == [model : Models, reasoning : Reasonings, context_tokens : Nat]
Failures == {"run", "startup", "interrupted"}

TranscriptItem ==
         [kind : {"user"}, text : Prompts]
    \cup [kind : {"assistant"}, text : Responses]
    \cup [kind : {"tool_started", "cancelled"}, run : Nat]
    \cup [kind : {"failed"}, run : Nat, failure : Failures]

TurnStatus == {"running", "completed", "failed", "cancelled", "interrupted"}

\* The ordinal of a turn is its position in the sequence of turns.
DurableTurn == [run : Nat, prompt_position : Nat, status : TurnStatus]

Message == [role : {"user"}, text : Prompts] \cup [role : {"assistant"}, text : Responses]

Record == [title : Title, settings : Settings, transcript : Seq(TranscriptItem),
           turns : Seq(DurableTurn), history : Seq(Message), plan : Plans]

ActiveRun == [run : Nat, prompt : Prompts, text : Nat]

\* title and title_revision are summary fields, busy is summary.busy.
Projection == [title : Titles, title_revision : Nat, busy : BOOLEAN,
               transcript : Seq(TranscriptItem), active_run : ActiveRun \cup {None},
               settings : Settings, plan : Plans, persistence_warning : BOOLEAN,
               sequence : Nat]

\* Every event belongs to a run or to the session as a whole.
RunEventTypes == {"AssistantDelta", "ContextUsage", "ToolStarted", "ToolFinished",
                  "Completed", "Failed", "Cancelled"}

SessionEvent ==
         [type : {"Started"}, run : Nat, prompt : Prompts]
    \cup [type : {"AssistantDelta", "ToolStarted", "ToolFinished", "Cancelled"}, run : Nat]
    \cup [type : {"ContextUsage"}, run : Nat, tokens : Nat]
    \cup [type : {"Completed"}, run : Nat, response : Responses]
    \cup [type : {"Failed"}, run : Nat, failure : Failures]
    \cup [type : {"TitleChanged"}, title : Titles, title_revision : Nat]
    \cup [type : {"SettingsChanged"}, settings : Settings]
    \cup [type : {"PlanChanged"}, plan : Plans]
    \cup [type : {"PersistenceWarning"}, warning : BOOLEAN]
    \cup [type : {"JobsChanged", "Deleted"}]

Envelope == [sequence : Nat, event : SessionEvent]

\* An absent value is none of the values an Option can hold.
ASSUME RecordAssumption == /\ EmptyPlan \in Plans
                           /\ None \notin Record /\ None \notin Projection
                           /\ None \notin ActiveRun

-----------------------------------------------------------------------------
(***************************************************************************)
(* The durable effect of an event (apply_durable_event).                   *)
(***************************************************************************)
RunningTurns(rec) == {i \in DOMAIN rec.turns : rec.turns[i].status = "running"}

\* Mutant: the first turn with this run identifier, running or not.
TurnsOfRun(rec, r) == {i \in DOMAIN rec.turns : rec.turns[i].run = r}

\* running_turn_mut: the first running turn of run r.
RunningTurnsOf(rec, r) == {i \in RunningTurns(rec) : rec.turns[i].run = r}
RunningTurn(rec, r) ==
    CHOOSE i \in RunningTurnsOf(rec, r) : \A j \in RunningTurnsOf(rec, r) : i <= j

\* The error paths of apply_durable_event: a second running turn, or a run
\* event for a turn that is not running.
DurableApplies(rec, ev) ==
    CASE ev.type = "Started" -> RunningTurns(rec) = {}
      [] ev.type \in {"ToolStarted", "Completed", "Failed", "Cancelled"} ->
            RunningTurnsOf(rec, ev.run) # {}
      [] OTHER -> TRUE

\* The item an event adds to the visible transcript.
ItemOf(ev) ==
    CASE ev.type = "Started"     -> [kind |-> "user", text |-> ev.prompt]
      [] ev.type = "ToolStarted" -> [kind |-> "tool_started", run |-> ev.run]
      [] ev.type = "Completed"   -> [kind |-> "assistant", text |-> ev.response]
      [] ev.type = "Failed"      -> [kind |-> "failed", run |-> ev.run, failure |-> ev.failure]
      [] ev.type = "Cancelled"   -> [kind |-> "cancelled", run |-> ev.run]

OutcomeOf(ev) ==
    CASE ev.type = "Completed" -> "completed"
      [] ev.type = "Failed"    -> "failed"
      [] ev.type = "Cancelled" -> "cancelled"

ApplyDurableEvent(rec, ev) ==
    CASE ev.type = "Started" ->
            [rec EXCEPT !.transcript = Append(@, ItemOf(ev)),
                        !.turns = Append(@, [run |-> ev.run,
                                             prompt_position |-> Len(rec.transcript),
                                             status |-> "running"])]
      [] ev.type = "ToolStarted" ->
            [rec EXCEPT !.transcript = Append(@, ItemOf(ev))]
      [] ev.type \in {"Completed", "Failed", "Cancelled"} ->
            [rec EXCEPT !.transcript = Append(@, ItemOf(ev)),
                        !.turns[RunningTurn(rec, ev.run)].status = OutcomeOf(ev)]
      [] OTHER -> rec

-----------------------------------------------------------------------------
(***************************************************************************)
(* What the store writes (store.rs).                                       *)
(***************************************************************************)

\* materialize_sync: the row of a session whose first prompt p was submitted.
Materialized(p, settings, title) ==
    [title |-> [text |-> title, source |-> "fallback", revision |-> 0],
     settings |-> settings,
     transcript |-> <<[kind |-> "user", text |-> p]>>,
     turns |-> <<[run |-> 0, prompt_position |-> 0, status |-> "running"]>>,
     history |-> <<>>,
     plan |-> EmptyPlan]

\* load_sync: running turns become interrupted, and the transcript gains one
\* failure for each, in the order of the turns.
NthRunning(rec, n) ==
    CHOOSE i \in RunningTurns(rec) : Cardinality({j \in RunningTurns(rec) : j <= i}) = n

\* Mutant: load reports the interruption and leaves the turn running.
InterruptedOnlyShown(rec) ==
    [rec EXCEPT !.transcript = rec.transcript \o
        [n \in 1 .. Cardinality(RunningTurns(rec)) |->
            [kind |-> "failed", run |-> rec.turns[NthRunning(rec, n)].run,
             failure |-> "interrupted"]]]

Interrupted(rec) ==
    [rec EXCEPT
        !.turns = [i \in DOMAIN rec.turns |->
                     IF i \in RunningTurns(rec)
                     THEN [rec.turns[i] EXCEPT !.status = "interrupted"]
                     ELSE rec.turns[i]],
        !.transcript = rec.transcript \o
            [n \in 1 .. Cardinality(RunningTurns(rec)) |->
                [kind |-> "failed", run |-> rec.turns[NthRunning(rec, n)].run,
                 failure |-> "interrupted"]]]

\* update_metadata_sync writes the session row and none of its child tables.
WithMetadata(stored, rec) == [stored EXCEPT !.title = rec.title, !.settings = rec.settings]

\* Mutant: a title changes without a new revision.
RetitledInPlace(rec, text, source) ==
    [rec EXCEPT !.title = [text |-> text, source |-> source, revision |-> @.revision]]

\* rename_sync and compare_and_set_generated_title_sync.
Retitled(rec, text, source) ==
    [rec EXCEPT !.title = [text |-> text, source |-> source, revision |-> @.revision + 1]]

AcceptsGenerated(stored, expected) ==
    /\ stored.title.source # "manual"
    /\ stored.title.revision = expected

\* persist_failed_materialization in manager.rs: the first turn failed to start.
FailedStart(rec) ==
    [rec EXCEPT !.transcript = <<@[1], [kind |-> "failed", run |-> 0, failure |-> "startup"]>>,
                !.turns = <<[run |-> 0, prompt_position |-> 0, status |-> "failed"]>>,
                !.history = <<>>]

\* validate_materialized_start in actor.rs.
MaterializedStartIsValid(rec, run, prompt) ==
    \E i \in DOMAIN rec.turns :
        /\ RunningTurns(rec) = {i}
        /\ rec.turns[i].run = run
        /\ rec.turns[i].prompt_position + 1 \in DOMAIN rec.transcript
        /\ rec.transcript[rec.turns[i].prompt_position + 1] = [kind |-> "user", text |-> prompt]

-----------------------------------------------------------------------------
(***************************************************************************)
(* The authoritative projection (projection.rs).                           *)
(***************************************************************************)
FromRecord(rec) ==
    [title |-> rec.title.text, title_revision |-> rec.title.revision, busy |-> FALSE,
     transcript |-> rec.transcript, active_run |-> None, settings |-> rec.settings,
     plan |-> rec.plan, persistence_warning |-> FALSE, sequence |-> 0]

\* validate_event and validate_run_id.
ValidEvent(p, ev) ==
    /\ ev.type = "Started" => p.active_run = None
    /\ ev.type \in RunEventTypes => p.active_run # None /\ p.active_run.run = ev.run

\* install_persisted_started: the prompt is in the loaded transcript already.
InstallPersistedStarted(p, run, prompt) ==
    [p EXCEPT !.active_run = [run |-> run, prompt |-> prompt, text |-> 0], !.busy = TRUE]

Reduce(p, ev) ==
    CASE ev.type = "TitleChanged" ->
            [p EXCEPT !.title = ev.title, !.title_revision = ev.title_revision]
      [] ev.type = "Started" ->
            [p EXCEPT !.transcript = Append(@, ItemOf(ev)),
                      !.active_run = [run |-> ev.run, prompt |-> ev.prompt, text |-> 0],
                      !.busy = TRUE]
      [] ev.type = "AssistantDelta" ->
            [p EXCEPT !.active_run.text = @ + 1]
      [] ev.type = "ContextUsage" ->
            [p EXCEPT !.settings.context_tokens = ev.tokens]
      [] ev.type = "ToolStarted" ->
            [p EXCEPT !.transcript = Append(@, ItemOf(ev))]
      [] ev.type \in {"Completed", "Failed", "Cancelled"} ->
            [p EXCEPT !.transcript = Append(@, ItemOf(ev)),
                      !.active_run = None,
                      !.busy = FALSE]
      [] ev.type = "SettingsChanged" -> [p EXCEPT !.settings = ev.settings]
      [] ev.type = "PlanChanged" -> [p EXCEPT !.plan = ev.plan]
      [] ev.type = "PersistenceWarning" -> [p EXCEPT !.persistence_warning = ev.warning]
      [] OTHER -> p         \* ToolFinished, JobsChanged, Deleted

-----------------------------------------------------------------------------
(***************************************************************************)
(* The copy a terminal client keeps (client/workspace.rs).                 *)
(***************************************************************************)

\* validate_event_run and the sequence check of apply_session_event.
ClientAccepts(view, envelope) ==
    LET ev == envelope.event
    IN  /\ envelope.sequence = view.sequence + 1
        /\ ev.type = "Started" => view.active_run = None
        /\ ev.type \in RunEventTypes => view.active_run # None /\ view.active_run.run = ev.run

\* apply_session_event: what each field of the view becomes.
ClientApply(view, envelope) ==
    LET ev == envelope.event
        ends == ev.type \in {"Completed", "Failed", "Cancelled"}
        visible == ends \/ ev.type \in {"Started", "ToolStarted"}
    IN  [title |-> IF ev.type = "TitleChanged" THEN ev.title ELSE view.title,
         title_revision |->
            IF ev.type = "TitleChanged" THEN ev.title_revision ELSE view.title_revision,
         busy |-> IF ev.type = "Started" THEN TRUE ELSE view.busy /\ ~ends,
         transcript |-> IF visible THEN Append(view.transcript, ItemOf(ev)) ELSE view.transcript,
         active_run |->
            CASE ev.type = "Started" -> [run |-> ev.run, prompt |-> ev.prompt, text |-> 0]
              [] ev.type = "AssistantDelta" ->
                    [view.active_run EXCEPT !.text = @ + 1]
              [] ends -> None
              [] OTHER -> view.active_run,
         settings |->
            CASE ev.type = "SettingsChanged" -> ev.settings
              [] ev.type = "ContextUsage" ->
                    [view.settings EXCEPT !.context_tokens = ev.tokens]
              [] OTHER -> view.settings,
         plan |-> IF ev.type = "PlanChanged" THEN ev.plan ELSE view.plan,
         persistence_warning |->
            IF ev.type = "PersistenceWarning" THEN ev.warning ELSE view.persistence_warning,
         sequence |-> envelope.sequence]
=============================================================================
