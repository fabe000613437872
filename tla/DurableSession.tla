--------------------------- MODULE DurableSession ---------------------------
(***************************************************************************)
(* What a session is promised to keep: its conversation grows turn by turn *)
(* and is never rewritten, its title only advances, and what its clients   *)
(* were shown is in the store, unless they have been warned.  SessionActor *)
(* keeps this promise with checkpoints that fail, a title that is stored   *)
(* beside them, interrupted runs, and a backend that may die at any step.  *)
(***************************************************************************)
EXTENDS Naturals, Sequences

CONSTANTS
    Nothing,    \* no session: not yet stored, or not shown to anybody
    Gone        \* what is stored of a deleted session

VARIABLES
    saved,      \* the session as it is stored
    shown,      \* the session as its clients see it, while it is open
    warned      \* they were told that it is not saved, or that it is being deleted

vars == <<saved, shown, warned>>

Present == saved \notin {Nothing, Gone}
Opened == shown # Nothing

\* Whoever was not warned sees what is saved.
Honest == Opened /\ ~warned => saved \in {shown, Gone}

-----------------------------------------------------------------------------
(* How a conversation goes on *)

Running(s) == {i \in DOMAIN s.turns : s.turns[i].status = "running"}
Outcomes == {"completed", "failed", "cancelled", "interrupted"}

\* new is old with n elements added at its end.
Grows(old, new, n) == Len(new) = Len(old) + n /\ SubSeq(new, 1, Len(old)) = old

\* A turn begins when none runs.
Asks(old, new) ==
    /\ Running(old) = {}
    /\ Grows(old.turns, new.turns, 1)
    /\ new.turns[Len(new.turns)].status = "running"
    /\ new.history = old.history

\* The running turn shows something it did.
Works(old, new) ==
    /\ Running(old) # {}
    /\ new.turns = old.turns /\ new.history = old.history

\* The running turn, which is the last one, gets its outcome.  The model
\* remembers the prompt and the answer of a completed turn, and no other.
Ends(old, new, outcome) ==
    LET n == Len(old.turns)
    IN  /\ Running(old) = {n}
        /\ new.turns = [old.turns EXCEPT ![n].status = outcome]
        /\ IF outcome = "completed" THEN Grows(old.history, new.history, 2)
                                    ELSE new.history = old.history

\* One step of the conversation; settings and plan stay.
Converses(old, new) ==
    /\ new.settings = old.settings /\ new.plan = old.plan
    /\ Grows(old.transcript, new.transcript, 1)
    /\ Asks(old, new) \/ Works(old, new) \/ \E outcome \in Outcomes : Ends(old, new, outcome)

\* Settings and plan change; the conversation stays.
Chooses(old, new) ==
    new.transcript = old.transcript /\ new.turns = old.turns /\ new.history = old.history

-----------------------------------------------------------------------------
Init == saved = Nothing /\ shown = Nothing /\ warned = FALSE

\* The session is stored with its first prompt, whose turn runs or has failed.
Create ==
    /\ saved = Nothing /\ ~Opened /\ saved' \notin {Nothing, Gone}
    /\ Len(saved'.turns) = 1 /\ saved'.turns[1].status \in {"running", "failed"}
    /\ Len(saved'.transcript) = IF Running(saved') = {} THEN 2 ELSE 1
    /\ saved'.history = << >> /\ saved'.title.revision = 0
    /\ shown' \in {Nothing, saved'}

\* A stored session is opened as it is stored; a turn that was running then has
\* been interrupted.
Open ==
    /\ Present /\ ~Opened /\ saved' \notin {Nothing, Gone}
    /\ \/ Running(saved) = {} /\ saved' = saved
       \/ /\ Converses(saved, saved') /\ Ends(saved, saved', "interrupted")
          /\ saved'.title = saved.title
    /\ shown' \in {Nothing, saved'}

\* The conversation or a choice goes on, or stays, and all of it is saved or
\* nothing.
Change ==
    /\ Opened /\ shown' # Nothing
    /\ shown'.title = shown.title
    /\ Converses(shown, shown') \/ Chooses(shown, shown')
    /\ saved' = saved \/ (Present /\ saved' = shown')

\* A new title is saved and shown at once, whatever is not saved beside it; a
\* generated one does not replace one the user chose.
Retitle ==
    /\ Present /\ saved' \notin {Nothing, Gone}
    /\ saved' = [saved EXCEPT !.title = saved'.title]
    /\ saved'.title.revision = saved.title.revision + 1
    /\ saved.title.source = "manual" => saved'.title.source = "manual"
    /\ shown' = IF Opened THEN [shown EXCEPT !.title = saved'.title] ELSE shown

\* The session is no longer open: by request, by its deletion, or because the
\* backend died.  What is lost then, its clients were warned of.
Close ==
    /\ Opened /\ shown' = Nothing
    /\ \/ Present /\ saved' = shown
       \/ saved' = saved /\ (warned \/ saved \in {shown, Gone})

\* The session is deleted, for good.
Delete == saved # Gone /\ saved' = Gone /\ UNCHANGED shown

Next == (Create \/ Open \/ Change \/ Retitle \/ Close \/ Delete) /\ Honest'

Spec == Init /\ [][Next]_vars
=============================================================================
