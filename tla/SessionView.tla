---------------------------- MODULE SessionView -----------------------------
(***************************************************************************)
(* What a client is promised of the session it looks at: a view that is    *)
(* always a state the session really had, that never goes back, and an end *)
(* that says the session was deleted only when it was.  RpcSession shows   *)
(* how callbacks, queues and re-attachment keep this promise.              *)
(***************************************************************************)
EXTENDS Naturals, Sequences

CONSTANT Clients

VARIABLES
    lives,   \* for each actor the session has had, how many changes it made
    stored,  \* whether the session still exists
    views,   \* for each client, the actor it follows and the changes it shows
    ended    \* for each client, whether it stopped looking, and why

vars == <<lives, stored, views, ended>>

\* The first n changes of an actor, each once and in order.
UpTo(n) == [i \in 1 .. n |-> i]
Nothing == [life |-> 0, seen |-> << >>]

Init ==
    /\ lives = <<0>> /\ stored = TRUE
    /\ views = [c \in Clients |-> Nothing]
    /\ ended = [c \in Clients |-> "no"]

Change ==
    /\ stored
    /\ lives' = [lives EXCEPT ![Len(lives)] = @ + 1]
    /\ UNCHANGED <<stored, views, ended>>

Restart ==
    /\ stored
    /\ lives' = Append(lives, 0)
    /\ UNCHANGED <<stored, views, ended>>

Delete ==
    /\ stored' = FALSE
    /\ UNCHANGED <<lives, views, ended>>

\* A client shows the next change of the actor it follows.
Follow(c) ==
    LET next == Len(views[c].seen) + 1 IN
    /\ ended[c] = "no" /\ views[c].life # 0
    /\ next <= lives[views[c].life]
    /\ views' = [views EXCEPT ![c].seen = Append(@, next)]
    /\ UNCHANGED <<lives, stored, ended>>

\* A client shows a state that is no older than the one it shows.
Refresh(c) ==
    \E life \in (views[c].life .. Len(lives)) \ {0} : \E n \in 0 .. lives[life] :
        /\ ended[c] = "no"
        /\ life = views[c].life => n >= Len(views[c].seen)
        /\ views' = [views EXCEPT ![c] = [life |-> life, seen |-> UpTo(n)]]
        /\ UNCHANGED <<lives, stored, ended>>

Leave(c) ==
    \E outcome \in {"deleted", "other"} :
        /\ ended[c] = "no"
        /\ outcome = "deleted" => ~stored
        /\ ended' = [ended EXCEPT ![c] = outcome]
        /\ UNCHANGED <<lives, stored, views>>

Next ==
    \/ Change \/ Restart \/ Delete
    \/ \E c \in Clients : Follow(c) \/ Refresh(c) \/ Leave(c)

Spec == Init /\ [][Next]_vars
=============================================================================
