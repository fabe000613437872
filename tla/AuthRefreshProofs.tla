------------------------- MODULE AuthRefreshProofs --------------------------
(***************************************************************************)
(* No refresh token is spent twice or lost but by a fault, for every number*)
(* of backends, refreshes, rotations and restarts, whoever takes the lock, *)
(* and whenever the service handles the requests that were given up.       *)
(***************************************************************************)
EXTENDS AuthRefresh, TLAPS

InFlight == {"posted", "answered", "persist"}
Holding == {"load"} \cup InFlight
Active == {"lock"} \cup Holding
Stages == {"none", "done", "failed"} \cup Active

USE DEF Outsider, Nobody, Logins, At

-----------------------------------------------------------------------------
(* The types, and the shape of a step of one task *)

\* Before the other program has stored its login there is one family.
OneFamily ==
    login # "done" =>
        /\ file.family = 1 /\ families[2] = 0
        /\ \A t \in Tasks : tasks[t].before.family = 1 /\ tasks[t].new.family = 1

TypeInv == TypeOK /\ OneFamily

LEMMA TaskFields ==
    ASSUME TypeInv, NEW t \in Tasks
    PROVE  /\ tasks[t] \in Task /\ tasks[t].pc \in Stages /\ tasks[t].backend \in Backends
           /\ tasks[t].waiting \in BOOLEAN
           /\ tasks[t].before \in Credentials /\ tasks[t].new \in Credentials
           /\ file \in Credentials /\ t # Outsider /\ t # Nobody
           /\ tasks \in [Tasks -> Task]
  BY AuthAssumption DEF TypeInv, TypeOK, Task, Stages, Active, Holding, InFlight

LEMMA UnusedIsTask == Unused \in Task /\ First \in Credentials
<1>1. First \in Credentials
  BY AuthAssumption DEF First, Credentials
<1>2. (CHOOSE b \in Backends : TRUE) \in Backends
  BY AuthAssumption
<1> QED
  BY <1>1, <1>2 DEF Unused, Task

\* The parts of the state that a step of one task leaves alone or moves on.
Rest == <<backends, memory, pending, login, starts>>

\* Task t is r after the step; the file, the families and what is lost are
\* accounted for where they change.
LEMMA TaskStepTypes ==
    ASSUME TypeInv, NEW t \in Tasks, NEW r \in Task,
           tasks' = [tasks EXCEPT ![t] = r], UNCHANGED Rest,
           (r.before.family = 1 /\ r.new.family = 1) \/ login = "done",
           file' = file \/ file' = tasks[t].new,
           families' \in [Logins -> 0 .. MaxRotations],
           families'[2] = families[2] \/ login = "done",
           forfeited' \in SUBSET Logins, reused' \in SUBSET Logins,
           \/ lock' = lock /\ (r.pc \in Holding <=> tasks[t].pc \in Holding)
           \/ lock' = Nobody /\ lock = t /\ r.pc \notin Holding
           \/ lock' = t /\ lock = Nobody /\ r.pc \in Holding
    PROVE  TypeInv'
<1>1. /\ tasks' \in [Tasks -> Task] /\ tasks'[t] = r
      /\ \A u \in Tasks : u # t => tasks'[u] = tasks[u]
  BY TaskFields DEF TypeInv, TypeOK
<1>2. file' \in Credentials
  BY TaskFields
<1>3. \A u \in Tasks : lock' = u <=> tasks'[u].pc \in {"load", "posted", "answered", "persist"}
  BY <1>1, TaskFields DEF TypeInv, TypeOK, Holding, InFlight
<1>4. lock' \in Tasks \cup {Outsider, Nobody}
  BY DEF TypeInv, TypeOK
<1>5. TypeOK'
  BY <1>1, <1>2, <1>3, <1>4 DEF TypeInv, TypeOK, Rest
<1>6. OneFamily'
  BY <1>1 DEF TypeInv, OneFamily, Rest
<1> QED
  BY <1>5, <1>6 DEF TypeInv

-----------------------------------------------------------------------------
(* The credential file *)

\* A login without the lock has replaced the file that r has read.
Overtaken(r) ==
    /\ login = "done" /\ r.before.family = 1 /\ file.family = 2
    /\ Latest(file) \/ file.family \in forfeited

\* A task that has posted still sees the file it read, or a later login; what it
\* sent is the latest token but for a fault, and so is what it got.  Only a task
\* that has failed has given up a request.
Held(r) ==
    /\ r.pc \in InFlight => file = r.before \/ Overtaken(r)
    /\ r.pc = "posted" => Latest(r.before) \/ r.before.family \in forfeited
    /\ r.pc \in {"answered", "persist"} =>
          r.new.family = r.before.family /\ (Latest(r.new) \/ r.new.family \in forfeited)
    /\ r.request # "none" => r.pc = "failed"
HeldCredentials == \A t \in Tasks : Held(tasks[t])

\* A task that is not finished will be waited for.

Awaited == \A t \in Tasks : tasks[t].pc \in Active => t \in pending[tasks[t].backend]

CredentialInv ==
    TypeInv /\ HeldCredentials /\ Awaited /\ RotationsAreKept /\ TokensAreSpentOnce

LEMMA OneHolder ==
    ASSUME TypeInv, NEW t \in Tasks, tasks[t].pc \in Holding
    PROVE  lock = t /\ \A u \in Tasks : tasks[u].pc \in Holding => u = t
  BY DEF TypeInv, TypeOK, Holding, InFlight

\* A task that goes on excuses nothing: it has given nothing up.
LEMMA SpentOnceStays ==
    ASSUME HeldCredentials, TokensAreSpentOnce, NEW t \in Tasks, tasks[t].pc \in Active,
           \A u \in Tasks : u # t => tasks'[u] = tasks[u],
           forfeited \subseteq forfeited', reused' \subseteq reused \cup forfeited'
    PROVE  TokensAreSpentOnce'
<1> SUFFICES ASSUME NEW f \in reused, f \notin forfeited
             PROVE  \E u \in Tasks : tasks'[u].request = "handled" /\ tasks'[u].before.family = f
  BY DEF TokensAreSpentOnce
<1>1. PICK u \in Tasks : tasks[u].request = "handled" /\ tasks[u].before.family = f
  BY DEF TokensAreSpentOnce
<1>2. tasks[u].pc = "failed"
  BY <1>1 DEF HeldCredentials, Held
<1>3. u # t
  BY <1>2 DEF Active, Holding, InFlight
<1> QED
  BY <1>1, <1>3

\* A step of task t to r that leaves the file and the service alone.
LEMMA TaskStepKeeps ==
    ASSUME CredentialInv, NEW t \in Tasks, NEW r \in Task,
           tasks' = [tasks EXCEPT ![t] = r], UNCHANGED <<Rest, file, families>>,
           (r.before.family = 1 /\ r.new.family = 1) \/ login = "done",
           r.backend = tasks[t].backend,
           tasks[t].pc \in Active,
           Held(r),
           \/ lock' = lock /\ (r.pc \in Holding <=> tasks[t].pc \in Holding)
           \/ lock' = Nobody /\ lock = t /\ r.pc \notin Holding
           \/ lock' = t /\ lock = Nobody /\ r.pc \in Holding,
           forfeited \subseteq forfeited', forfeited' \in SUBSET Logins,
           reused' \in SUBSET Logins, reused' \subseteq reused \cup forfeited',
           tasks[t].pc \in {"answered", "persist"} =>
              \/ r.pc \in {"answered", "persist"} /\ r.before = tasks[t].before
              \/ Forfeits(t) \subseteq forfeited'
    PROVE  CredentialInv'
<1>1. /\ tasks' \in [Tasks -> Task] /\ tasks'[t] = r
      /\ \A u \in Tasks : u # t => tasks'[u] = tasks[u]
  BY TaskFields DEF CredentialInv, TypeInv, TypeOK
<1>2. TypeInv'
  <2>1. families' \in [Logins -> 0 .. MaxRotations]
    BY DEF CredentialInv, TypeInv, TypeOK
  <2> QED
    BY <2>1, TaskStepTypes DEF CredentialInv
<1>3. HeldCredentials'
  BY <1>1 DEF CredentialInv, HeldCredentials, Held, Overtaken, Latest, Rest
<1>4. Awaited'
  BY <1>1 DEF CredentialInv, Awaited, Rest
<1>5. RotationsAreKept'
  <2>1. CASE Latest(file)
    BY <2>1 DEF RotationsAreKept, Latest
  <2>2. CASE file.family \in forfeited
    BY <2>2 DEF RotationsAreKept
  <2>3. ASSUME NEW u \in Tasks, tasks[u].pc \in {"answered", "persist"}, tasks[u].before = file
        PROVE  RotationsAreKept'
    <3>1. CASE u # t
      BY <1>1, <2>3, <3>1 DEF RotationsAreKept
    <3>2. CASE u = t /\ r.pc \in {"answered", "persist"} /\ r.before = tasks[t].before
      BY <1>1, <2>3, <3>2 DEF RotationsAreKept
    <3>3. CASE u = t /\ Forfeits(t) \subseteq forfeited'
      <4>1. CASE tasks[t].new = tasks[t].before
        BY <2>3, <3>3, <4>1 DEF RotationsAreKept, CredentialInv, HeldCredentials, Held, Latest
      <4>2. CASE tasks[t].new # tasks[t].before
        BY <2>3, <3>3, <4>2 DEF RotationsAreKept, Forfeits
      <4> QED
        BY <4>1, <4>2
    <3> QED
      BY <2>3, <3>1, <3>2, <3>3
  <2> QED
    BY <2>1, <2>2, <2>3 DEF CredentialInv, RotationsAreKept
<1>6. TokensAreSpentOnce'
  BY <1>1, SpentOnceStays DEF CredentialInv
<1> QED
  BY <1>2, <1>3, <1>4, <1>5, <1>6 DEF CredentialInv

LEMMA TasksKeep ==
    ASSUME CredentialInv, NEW t \in Tasks, TaskStep(t)
    PROVE  CredentialInv'
<1> DEFINE me == tasks[t]
<1>1. /\ me \in Task /\ me.pc \in Stages /\ me.before \in Credentials /\ me.new \in Credentials
      /\ file \in Credentials /\ TypeInv /\ me.backend \in Backends
      /\ ((me.before.family = 1 /\ me.new.family = 1 /\ file.family = 1) \/ login = "done")
      /\ forfeited \in SUBSET Logins /\ reused \in SUBSET Logins
      /\ (me.pc \in Holding => lock = t) /\ Forfeits(t) \in SUBSET Logins
  BY TaskFields, OneHolder
     DEF CredentialInv, TypeInv, TypeOK, OneFamily, Forfeits, Credentials
<1>2. ASSUME NEW pc \in Stages PROVE [me EXCEPT !.pc = pc] \in Task
  BY <1>1, <1>2 DEF Task, Stages, Active, Holding, InFlight
<1>3. Held(me)
  BY DEF CredentialInv, HeldCredentials
<1> USE DEF Stages, Active, Holding, InFlight
<1>4. CASE Lock(t)
  <2> DEFINE r == [me EXCEPT !.pc = "load"]
  <2>1. /\ r \in Task /\ tasks' = [tasks EXCEPT ![t] = r] /\ UNCHANGED <<Rest, file, families>>
        /\ r.pc = "load" /\ r.before = me.before /\ r.new = me.new /\ r.backend = me.backend /\ r.request = me.request
        /\ lock = Nobody /\ lock' = t /\ UNCHANGED <<forfeited, reused>> /\ me.pc = "lock"
    BY <1>1, <1>2, <1>4 DEF Lock, Rest, service, Task
  <2> HIDE DEF r
  <2>2. Held(r)
    BY <1>3, <2>1 DEF Held
  <2> QED
    BY <1>1, <2>1, <2>2, TaskStepKeeps
<1>5. CASE Busy(t)
  <2> DEFINE r == [me EXCEPT !.pc = "failed"]
  <2>1. /\ r \in Task /\ tasks' = [tasks EXCEPT ![t] = r] /\ UNCHANGED <<Rest, file, families>>
        /\ r.pc = "failed" /\ r.before = me.before /\ r.new = me.new /\ r.backend = me.backend /\ r.request = me.request
        /\ lock' = lock /\ UNCHANGED <<forfeited, reused>> /\ me.pc = "lock"
    BY <1>1, <1>2, <1>5 DEF Busy, Rest, service, Task
  <2> HIDE DEF r
  <2>2. Held(r)
    BY <1>3, <2>1 DEF Held
  <2> QED
    BY <1>1, <2>1, <2>2, TaskStepKeeps
<1>6. CASE Post(t)
  <2> DEFINE r == [me EXCEPT !.pc = "posted", !.before = file]
  <2>1. /\ r \in Task /\ tasks' = [tasks EXCEPT ![t] = r] /\ UNCHANGED <<Rest, file, families>>
        /\ r.pc = "posted" /\ r.before = file /\ r.new = me.new /\ r.backend = me.backend /\ r.request = me.request
        /\ lock' = lock /\ UNCHANGED <<forfeited, reused>> /\ me.pc = "load"
    BY <1>1, <1>6 DEF Post, Rest, service, Task
  <2> HIDE DEF r
  <2>2. \A u \in Tasks : tasks[u].pc \notin {"answered", "persist"}
    BY <1>1, <2>1, OneHolder
  <2>3. Latest(file) \/ file.family \in forfeited
    BY <2>2 DEF CredentialInv, RotationsAreKept
  <2>4. Held(r)
    BY <1>3, <2>1, <2>3 DEF Held
  <2> QED
    BY <1>1, <2>1, <2>4, TaskStepKeeps
<1>7. CASE Rejected(t)
  <2> DEFINE r == [me EXCEPT !.pc = "failed"]
  <2>1. /\ r \in Task /\ tasks' = [tasks EXCEPT ![t] = r] /\ UNCHANGED <<Rest, file, families>>
        /\ r.pc = "failed" /\ r.before = me.before /\ r.new = me.new /\ r.backend = me.backend /\ r.request = me.request
        /\ lock' = Nobody /\ lock = t /\ UNCHANGED forfeited /\ me.pc = "posted"
        /\ reused' = reused \cup {me.before.family} /\ ~Latest(me.before)
    BY <1>1, <1>2, <1>7 DEF Rejected, Ends, Rest, service, Task
  <2> HIDE DEF r
  <2>2. me.before.family \in forfeited
    BY <1>3, <2>1 DEF Held
  <2>3. reused' \in SUBSET Logins /\ reused' \subseteq reused \cup forfeited'
    BY <1>1, <2>1, <2>2
  <2>4. Held(r)
    BY <1>3, <2>1 DEF Held
  <2> QED
    BY <1>1, <2>1, <2>3, <2>4, TaskStepKeeps
<1>8. CASE NoAnswer(t)
  <2> DEFINE r == [me EXCEPT !.pc = "failed", !.request = "late"]
  <2>1. /\ r \in Task /\ tasks' = [tasks EXCEPT ![t] = r] /\ UNCHANGED <<Rest, file, families>>
        /\ r.pc = "failed" /\ r.before = me.before /\ r.new = me.new /\ r.backend = me.backend
        /\ lock' = Nobody /\ lock = t /\ UNCHANGED <<forfeited, reused>> /\ me.pc = "posted"
    BY <1>1, <1>8 DEF NoAnswer, Rest, service, Task
  <2> HIDE DEF r
  <2>2. Held(r)
    BY <1>3, <2>1 DEF Held
  <2> QED
    BY <1>1, <2>1, <2>2, TaskStepKeeps
<1>9. CASE AnswerLost(t) \/ PersistFails(t) \/ (Recheck(t) /\ file # me.before)
  <2> DEFINE r == [me EXCEPT !.pc = "failed"]
  <2>1. /\ r \in Task /\ tasks' = [tasks EXCEPT ![t] = r] /\ UNCHANGED <<Rest, file, families>>
        /\ r.pc = "failed" /\ r.before = me.before /\ r.new = me.new /\ r.backend = me.backend /\ r.request = me.request
        /\ lock' = Nobody /\ lock = t /\ UNCHANGED reused
        /\ forfeited' = forfeited \cup Forfeits(t) /\ me.pc \in {"answered", "persist"}
    BY <1>1, <1>2, <1>9 DEF AnswerLost, PersistFails, Recheck, Ends, Forfeit, Rest, service, Task
  <2> HIDE DEF r
  <2>2. Held(r)
    BY <1>3, <2>1 DEF Held
  <2> QED
    BY <1>1, <2>1, <2>2, TaskStepKeeps
<1>10. CASE Recheck(t) /\ file = me.before
  <2> DEFINE r == [me EXCEPT !.pc = "persist"]
  <2>1. /\ r \in Task /\ tasks' = [tasks EXCEPT ![t] = r] /\ UNCHANGED <<Rest, file, families>>
        /\ r.pc = "persist" /\ r.before = me.before /\ r.new = me.new /\ r.backend = me.backend /\ r.request = me.request
        /\ lock' = lock /\ UNCHANGED <<forfeited, reused>> /\ me.pc = "answered"
    BY <1>1, <1>2, <1>10 DEF Recheck, Rest, service, Task
  <2> HIDE DEF r
  <2>2. Held(r)
    BY <1>3, <2>1 DEF Held, Overtaken
  <2> QED
    BY <1>1, <2>1, <2>2, TaskStepKeeps
<1>11. CASE Answer(t)
  <2>1. PICK new \in Credentials :
          /\ Rotated(me.before, new)
          /\ tasks' = [tasks EXCEPT ![t] = [me EXCEPT !.pc = "answered", !.new = new]]
    BY <1>11 DEF Answer
  <2>a. PICK r : r = [me EXCEPT !.pc = "answered", !.new = new]
    OBVIOUS
  <2>2. /\ r \in Task /\ tasks' = [tasks EXCEPT ![t] = r] /\ UNCHANGED <<Rest, file>>
        /\ r.pc = "answered" /\ r.before = me.before /\ r.new = new /\ r.backend = me.backend /\ r.request = me.request
        /\ lock' = lock /\ UNCHANGED <<forfeited, reused>> /\ me.pc = "posted"
    BY <1>1, <1>11, <2>1, <2>a DEF Answer, Rotated, Rest, service, Task
  <2>3. /\ new.family = me.before.family /\ new.family \in Logins /\ new.rotation \in 0 .. MaxRotations
        /\ families' = [families EXCEPT ![new.family] = new.rotation]
    BY <1>1, <2>1 DEF Rotated, Credentials
  <2>4. file = me.before \/ Overtaken(me)
    BY <1>3, <2>2 DEF Held
  <2>5. /\ families' \in [Logins -> 0 .. MaxRotations] /\ families'[new.family] = new.rotation
        /\ \A f \in Logins : f # new.family => families'[f] = families[f]
        /\ families'[2] = families[2] \/ login = "done"
    BY <1>1, <2>3 DEF TypeInv, TypeOK
  <2>6. TypeInv'
    BY <1>1, <2>2, <2>3, <2>5, TaskStepTypes
  <2>7. /\ tasks'[t] = r
        /\ \A u \in Tasks : u # t => tasks'[u] = tasks[u] /\ tasks[u].pc \notin Holding
    BY <1>1, <2>2, OneHolder, TaskFields
  <2>8. Overtaken(me) => Overtaken(r)'
    BY <2>2, <2>3, <2>5 DEF Overtaken, Latest, Rest
  <2>9. Held(r)'
    BY <1>3, <2>2, <2>3, <2>4, <2>5, <2>8 DEF Held, Overtaken, Latest
  <2>10. HeldCredentials'
    <3>1. Held(tasks[t])'
      BY ONLY <2>7, <2>9 DEF Held, Overtaken, Latest
    <3>2. ASSUME NEW u \in Tasks, u # t PROVE Held(tasks[u])'
      BY <2>7, <3>2 DEF Held, CredentialInv, HeldCredentials
    <3> QED
      BY <3>1, <3>2 DEF HeldCredentials
  <2>11. Awaited'
    BY <2>2, <2>7 DEF CredentialInv, Awaited, Rest
  <2>12. TokensAreSpentOnce'
    BY <2>2, <2>7, SpentOnceStays DEF CredentialInv
  <2>13. RotationsAreKept'
    <3>1. CASE file = me.before
      BY <2>2, <2>7, <3>1 DEF RotationsAreKept
    <3>2. CASE Overtaken(me)
      BY <2>8, <3>2 DEF RotationsAreKept, Overtaken
    <3> QED
      BY <2>4, <3>1, <3>2
  <2> QED
    BY <2>6, <2>10, <2>11, <2>12, <2>13 DEF CredentialInv
<1>12. CASE Persist(t)
  <2> DEFINE r == [me EXCEPT !.pc = "done"]
  <2>2. /\ r \in Task /\ tasks' = [tasks EXCEPT ![t] = r] /\ UNCHANGED <<Rest, families>>
        /\ r.pc = "done" /\ r.before = me.before /\ r.new = me.new /\ r.backend = me.backend /\ r.request = me.request
        /\ lock' = Nobody /\ lock = t /\ UNCHANGED <<forfeited, reused>> /\ me.pc = "persist"
        /\ file' = me.new
    BY <1>1, <1>2, <1>12 DEF Persist, Ends, Rest, service, Task
  <2> HIDE DEF r
  <2>5. families' \in [Logins -> 0 .. MaxRotations]
    BY <1>1, <2>2 DEF TypeInv, TypeOK
  <2>6. TypeInv'
    BY <1>1, <2>2, <2>5, TaskStepTypes
  <2>7. /\ tasks'[t] = r
        /\ \A u \in Tasks : u # t => tasks'[u] = tasks[u] /\ tasks[u].pc \notin Holding
    BY <1>1, <2>2, OneHolder, TaskFields
  <2>8. HeldCredentials'
    BY <1>3, <2>2, <2>7 DEF CredentialInv, HeldCredentials, Held
  <2>9. Awaited'
    BY <2>2, <2>7 DEF CredentialInv, Awaited, Rest
  <2>10. TokensAreSpentOnce'
    BY <2>2, <2>7, SpentOnceStays DEF CredentialInv
  <2>11. RotationsAreKept'
    BY <1>3, <2>2 DEF RotationsAreKept, Held, Latest
  <2> QED
    BY <2>6, <2>8, <2>9, <2>10, <2>11 DEF CredentialInv
<1> QED
  BY <1>4, <1>5, <1>6, <1>7, <1>8, <1>9, <1>10, <1>11, <1>12 DEF TaskStep, Recheck

\* A step that moves no task between the stages of Active, and touches neither
\* the file nor the service: callers come and go, backends stop and start.
LEMMA OthersKeep ==
    ASSUME CredentialInv, tasks' \in [Tasks -> Task],
           \A t \in Tasks :
              \/ /\ tasks'[t].pc = tasks[t].pc /\ tasks'[t].before = tasks[t].before
                 /\ tasks'[t].new = tasks[t].new /\ tasks'[t].backend = tasks[t].backend
                 /\ tasks'[t].request = tasks[t].request
                 /\ t \in pending[tasks[t].backend] /\ tasks[t].pc \in Active =>
                        t \in pending'[tasks[t].backend]
              \/ /\ tasks'[t].pc = "lock" /\ tasks[t].pc = "none"
                 /\ tasks'[t].before = First /\ tasks'[t].new = First
                 /\ tasks'[t].request = "none"
                 /\ t \in pending'[tasks'[t].backend]
              \/ /\ tasks'[t].pc = "failed" /\ tasks[t].pc \in Active
                 /\ tasks'[t].before = tasks[t].before
                 /\ tasks'[t].new = tasks[t].new
                 /\ Forfeits(t) \subseteq forfeited',
           lock' = IF \E t \in Tasks : lock = t /\ tasks'[t].pc \notin Holding THEN Nobody ELSE lock,
           backends' \in [Backends -> {"up", "draining", "down"}],
           memory' \in [Backends -> Credentials], pending' \in [Backends -> SUBSET Tasks],
           starts' \in 0 .. MaxStarts,
           forfeited \subseteq forfeited', forfeited' \in SUBSET Logins,
           UNCHANGED <<file, login, service>>
    PROVE  CredentialInv'
<1>1. TypeInv /\ \A t \in Tasks : t # Nobody /\ t # Outsider
  BY TaskFields DEF CredentialInv
<1>2. \A t \in Tasks : lock' = t <=> tasks'[t].pc \in {"load", "posted", "answered", "persist"}
  <2> SUFFICES ASSUME NEW t \in Tasks
               PROVE  lock' = t <=> tasks'[t].pc \in {"load", "posted", "answered", "persist"}
    OBVIOUS
  <2>1. lock = t <=> tasks[t].pc \in {"load", "posted", "answered", "persist"}
    BY <1>1 DEF TypeInv, TypeOK
  <2>2. tasks'[t].pc \in Holding => tasks[t].pc \in Holding
    BY DEF Holding, InFlight
  <2>3. tasks'[t].pc \in Holding => lock = t /\ lock' = t
    BY <2>1, <2>2 DEF Holding, InFlight
  <2>4. lock' = t => tasks'[t].pc \in Holding
    BY <1>1
  <2> QED
    BY <2>3, <2>4 DEF Holding, InFlight
<1>3. lock' \in Tasks \cup {Outsider, Nobody}
  BY <1>1 DEF TypeInv, TypeOK
<1>4. TypeOK'
  BY <1>1, <1>2, <1>3 DEF TypeInv, TypeOK, service
<1>5. OneFamily'
  BY <1>1 DEF TypeInv, OneFamily, service, First
<1>6. HeldCredentials'
  <2> SUFFICES ASSUME NEW t \in Tasks PROVE Held(tasks[t])'
    BY DEF HeldCredentials
  <2>1. Held(tasks[t])
    BY DEF CredentialInv, HeldCredentials
  <2>2. \/ tasks'[t].pc = tasks[t].pc /\ tasks'[t].before = tasks[t].before
           /\ tasks'[t].new = tasks[t].new /\ tasks'[t].request = tasks[t].request
        \/ (tasks'[t].pc = "lock" /\ tasks'[t].request = "none") \/ tasks'[t].pc = "failed"
    OBVIOUS
  <2>3. UNCHANGED <<file, login, families>> /\ forfeited \subseteq forfeited'
    BY DEF service
  <2>4. CASE (tasks'[t].pc = "lock" /\ tasks'[t].request = "none") \/ tasks'[t].pc = "failed"
    BY <2>4 DEF Held, InFlight
  <2>5. CASE tasks'[t].pc = tasks[t].pc /\ tasks'[t].before = tasks[t].before
             /\ tasks'[t].new = tasks[t].new /\ tasks'[t].request = tasks[t].request
    BY <2>1, <2>3, <2>5 DEF Held, Overtaken, Latest
  <2> QED
    BY <2>2, <2>4, <2>5
<1>7. Awaited'
  BY DEF CredentialInv, Awaited, Active, Holding, InFlight
<1>8. TokensAreSpentOnce'
  <2> SUFFICES ASSUME NEW f \in reused, f \notin forfeited
               PROVE  \E u \in Tasks : tasks'[u].request = "handled" /\ tasks'[u].before.family = f
    BY DEF TokensAreSpentOnce, service
  <2>1. PICK u \in Tasks : tasks[u].request = "handled" /\ tasks[u].before.family = f
    BY DEF CredentialInv, TokensAreSpentOnce
  <2>2. tasks[u].pc = "failed"
    BY <2>1 DEF CredentialInv, HeldCredentials, Held
  <2>3. tasks'[u].request = tasks[u].request /\ tasks'[u].before = tasks[u].before
    BY <2>2 DEF Active, Holding, InFlight
  <2> QED
    BY <2>1, <2>3
<1>9. RotationsAreKept'
  <2>1. CASE Latest(file) \/ file.family \in forfeited
    BY <2>1 DEF RotationsAreKept, Latest, service
  <2>2. ASSUME NEW u \in Tasks, tasks[u].pc \in {"answered", "persist"}, tasks[u].before = file
        PROVE  RotationsAreKept'
    <3>1. CASE tasks'[u].pc = tasks[u].pc /\ tasks'[u].before = tasks[u].before
      BY <2>2, <3>1 DEF RotationsAreKept
    <3>2. CASE Forfeits(u) \subseteq forfeited'
      <4>1. CASE tasks[u].new = tasks[u].before
        BY <2>2, <3>2, <4>1 DEF RotationsAreKept, CredentialInv, HeldCredentials,
                                         Held, Latest, service
      <4>2. CASE tasks[u].new # tasks[u].before
        BY <2>2, <3>2, <4>2 DEF RotationsAreKept, Forfeits
      <4> QED
        BY <4>1, <4>2
    <3> QED
      BY <2>2, <3>1, <3>2
  <2> QED
    BY <2>1, <2>2 DEF CredentialInv, RotationsAreKept
<1> QED
  BY <1>4, <1>5, <1>6, <1>7, <1>8, <1>9 DEF CredentialInv, TypeInv

LEMMA CallersKeep ==
    ASSUME CredentialInv, NEW t \in Tasks,
           Drop(t) \/ Return(t) \/ \E b \in Backends : Refresh(b, t)
    PROVE  CredentialInv'
<1>1. /\ tasks \in [Tasks -> Task] /\ backends \in [Backends -> {"up", "draining", "down"}]
      /\ memory \in [Backends -> Credentials] /\ pending \in [Backends -> SUBSET Tasks]
      /\ starts \in 0 .. MaxStarts /\ forfeited \in SUBSET Logins
      /\ \A u \in Tasks : /\ tasks[u] \in Task /\ tasks[u].pc \in Stages
                         /\ tasks[u].backend \in Backends /\ tasks[u].new \in Credentials
      /\ \A u \in Tasks : lock = u => tasks[u].pc \in Holding
  BY TaskFields DEF CredentialInv, TypeInv, TypeOK, Holding, InFlight
<1>2. CASE Drop(t)
  <2>1. /\ tasks' \in [Tasks -> Task]
        /\ \A u \in Tasks : /\ tasks'[u].pc = tasks[u].pc /\ tasks'[u].before = tasks[u].before
                           /\ tasks'[u].new = tasks[u].new /\ tasks'[u].backend = tasks[u].backend
                           /\ tasks'[u].request = tasks[u].request
    BY <1>1, <1>2 DEF Drop, Task
  <2> QED
    BY <1>1, <1>2, <2>1, OthersKeep DEF Drop
<1>3. CASE Return(t)
  <2>1. /\ tasks' \in [Tasks -> Task]
        /\ \A u \in Tasks : /\ tasks'[u].pc = tasks[u].pc /\ tasks'[u].before = tasks[u].before
                           /\ tasks'[u].new = tasks[u].new /\ tasks'[u].backend = tasks[u].backend
                           /\ tasks'[u].request = tasks[u].request
    BY <1>1, <1>3 DEF Return, Task
  <2>2. /\ pending' \in [Backends -> SUBSET Tasks] /\ memory' \in [Backends -> Credentials]
        /\ UNCHANGED <<backends, file, lock, login, service, forfeited, starts>>
    BY <1>1, <1>3 DEF Return
  <2>3. \A u \in Tasks : u \in pending[tasks[u].backend] /\ tasks[u].pc \in Active =>
                            u \in pending'[tasks[u].backend]
    <3>1. tasks[t].pc \notin Active
      BY <1>3 DEF Return, Finished, Active, Holding, InFlight
    <3> QED
      BY <1>1, <1>3, <3>1 DEF Return
  <2> QED
    BY <1>1, <2>1, <2>2, <2>3, OthersKeep
<1>4. ASSUME NEW b \in Backends, Refresh(b, t) PROVE CredentialInv'
  <2> DEFINE r == [Unused EXCEPT !.pc = "lock", !.backend = b, !.waiting = TRUE]
  <2>1. /\ r \in Task /\ r.pc = "lock" /\ r.before = First /\ r.new = First /\ r.backend = b
        /\ r.request = "none"
    BY UnusedIsTask DEF Task, Unused
  <2>2. /\ tasks' = [tasks EXCEPT ![t] = r] /\ tasks[t].pc = "none"
        /\ pending' = [pending EXCEPT ![b] = {u \in @ : ~Finished(u)} \cup {t}]
        /\ UNCHANGED <<backends, memory, file, lock, login, service, forfeited, starts>>
    BY <1>4 DEF Refresh
  <2> HIDE DEF r
  <2>3. tasks' \in [Tasks -> Task] /\ tasks'[t] = r /\ \A u \in Tasks : u # t => tasks'[u] = tasks[u]
    BY <1>1, <2>1, <2>2
  <2>4. pending' \in [Backends -> SUBSET Tasks] /\ t \in pending'[b]
    BY <1>1, <2>2
  <2>5. \A u \in Tasks : u \in pending[tasks[u].backend] /\ tasks[u].pc \in Active =>
                            u \in pending'[tasks[u].backend]
    BY <1>1, <2>2 DEF Finished, Active, Holding, InFlight
  <2>6. lock # t
    BY <1>1, <2>2 DEF Holding, InFlight
  <2> QED
    BY <1>1, <2>1, <2>2, <2>3, <2>4, <2>5, <2>6, OthersKeep
<1> QED
  BY <1>2, <1>3, <1>4

LEMMA BackendsKeep ==
    ASSUME CredentialInv, NEW b \in Backends, Shutdown(b) \/ Exit(b) \/ Crash(b) \/ Start(b)
    PROVE  CredentialInv'
<1>1. /\ tasks \in [Tasks -> Task] /\ backends \in [Backends -> {"up", "draining", "down"}]
      /\ memory \in [Backends -> Credentials] /\ pending \in [Backends -> SUBSET Tasks]
      /\ starts \in 0 .. MaxStarts /\ forfeited \in SUBSET Logins /\ file \in Credentials
      /\ \A u \in Tasks : /\ tasks[u] \in Task /\ tasks[u].pc \in Stages
                         /\ tasks[u].backend \in Backends
      /\ \A u \in Tasks : lock = u => tasks[u].pc \in Holding
      /\ Of(b) \subseteq Tasks /\ Nobody \notin Tasks
      /\ \A u \in Tasks : Forfeits(u) \in SUBSET Logins
  BY TaskFields, AuthAssumption
     DEF CredentialInv, TypeInv, TypeOK, Holding, InFlight, Of, Forfeits, Credentials
<1>2. CASE Shutdown(b)
  <2>1. /\ tasks' \in [Tasks -> Task]
        /\ \A u \in Tasks : /\ tasks'[u].pc = tasks[u].pc /\ tasks'[u].before = tasks[u].before
                           /\ tasks'[u].new = tasks[u].new /\ tasks'[u].backend = tasks[u].backend
                           /\ tasks'[u].request = tasks[u].request
    BY ZenonT(60), <1>1, <1>2 DEF Shutdown, Task
  <2>2. /\ backends' \in [Backends -> {"up", "draining", "down"}]
        /\ UNCHANGED <<memory, pending, file, lock, login, service, forfeited, starts>>
    BY <1>1, <1>2 DEF Shutdown
  <2> QED
    BY <1>1, <2>1, <2>2, OthersKeep
<1>3. CASE Start(b)
  <2>1. /\ memory' \in [Backends -> Credentials] /\ starts' \in 0 .. MaxStarts
        /\ backends' \in [Backends -> {"up", "draining", "down"}]
        /\ UNCHANGED <<pending, tasks, file, lock, login, service, forfeited>>
    BY <1>1, <1>3, AuthAssumption DEF Start
  <2> QED
    BY <1>1, <2>1, OthersKeep
<1>4. ASSUME Ended(b)
      PROVE  /\ backends' \in [Backends -> {"up", "draining", "down"}]
             /\ pending' \in [Backends -> SUBSET Tasks] /\ tasks' \in [Tasks -> Task]
             /\ lock' = IF \E t \in Tasks : lock = t /\ tasks'[t].pc \notin Holding THEN Nobody ELSE lock
             /\ \A t \in Tasks :
                   /\ tasks'[t].before = tasks[t].before /\ tasks'[t].new = tasks[t].new
                   /\ tasks'[t].backend = tasks[t].backend
                   /\ \/ tasks'[t].pc = tasks[t].pc /\ tasks'[t].request = tasks[t].request
                         /\ (tasks[t].pc \in Active => pending'[tasks[t].backend] = pending[tasks[t].backend])
                      \/ tasks'[t].pc = "failed" /\ t \in Of(b) /\ tasks[t].pc \in Active
  <2>1. /\ backends' \in [Backends -> {"up", "draining", "down"}]
        /\ pending' \in [Backends -> SUBSET Tasks]
    BY <1>1, <1>4 DEF Ended
  <2>2. ASSUME NEW t \in Of(b) PROVE
          /\ tasks'[t] = [tasks[t] EXCEPT !.waiting = FALSE,
                                          !.pc = IF Finished(t) THEN tasks[t].pc ELSE "failed",
                                          !.request = IF At(t, "posted") THEN "late"
                                                      ELSE tasks[t].request]
          /\ t \in Tasks
    BY <1>1, <1>4, <2>2 DEF Ended
  <2>a. ASSUME NEW t \in Of(b) PROVE
          /\ tasks'[t] \in Task /\ tasks'[t].before = tasks[t].before
          /\ tasks'[t].new = tasks[t].new /\ tasks'[t].backend = tasks[t].backend
          /\ tasks'[t].pc = IF Finished(t) THEN tasks[t].pc ELSE "failed"
          /\ Finished(t) => tasks'[t].request = tasks[t].request
    <3>1. tasks[t] \in Task /\ t \in Tasks
      BY <1>1, <2>a
    <3>2. CASE Finished(t)
      <4>1. tasks'[t] = [tasks[t] EXCEPT !.waiting = FALSE, !.pc = tasks[t].pc,
                                         !.request = tasks[t].request]
        BY <2>2, <2>a, <3>2 DEF Finished
      <4> QED
        BY <3>1, <3>2, <4>1 DEF Task
    <3>3. CASE ~Finished(t)
      <4>1. PICK request \in {"late", tasks[t].request} :
               tasks'[t] = [tasks[t] EXCEPT !.waiting = FALSE, !.pc = "failed", !.request = request]
        BY <2>2, <2>a, <3>3
      <4> QED
        BY <3>1, <3>3, <4>1 DEF Task
    <3> QED
      BY <3>2, <3>3
  <2>3. ASSUME NEW t \in Tasks, t \notin Of(b) PROVE tasks'[t] = tasks[t]
    BY <1>4, <2>3 DEF Ended
  <2>4. tasks' \in [Tasks -> Task]
    <3>1. \A t \in Of(b) : tasks'[t] \in Task
      BY <2>a
    <3>2. \A t \in Tasks : tasks'[t] \in Task
      BY <1>1, <2>3, <3>1
    <3>3. tasks' = [t \in Tasks |-> tasks'[t]]
      BY <1>4 DEF Ended
    <3> QED
      BY <3>2, <3>3
  <2>5. ASSUME NEW t \in Tasks
        PROVE /\ tasks'[t].before = tasks[t].before /\ tasks'[t].new = tasks[t].new
              /\ tasks'[t].backend = tasks[t].backend
              /\ \/ tasks'[t].pc = tasks[t].pc /\ tasks'[t].request = tasks[t].request
                    /\ (tasks[t].pc \in Active => pending'[tasks[t].backend] = pending[tasks[t].backend])
                 \/ tasks'[t].pc = "failed" /\ t \in Of(b) /\ tasks[t].pc \in Active
    <3>1. CASE t \in Of(b)
      BY <1>1, <2>a, <3>1 DEF Finished, Active, Stages, Holding, InFlight
    <3>2. CASE t \notin Of(b)
      <4>1. tasks[t].pc \in Active => tasks[t].backend # b
        BY <3>2 DEF Of, Active, Holding, InFlight
      <4> QED
        BY <1>1, <1>4, <2>3, <3>2, <4>1 DEF Ended
    <3> QED
      BY <3>1, <3>2
  <2>6. lock' = IF \E t \in Tasks : lock = t /\ tasks'[t].pc \notin Holding THEN Nobody ELSE lock
    <3>1. lock \in Of(b) => lock \in Tasks /\ tasks'[lock].pc = "failed"
      <4>1. ASSUME lock \in Of(b) PROVE tasks[lock].pc \in Holding /\ lock \in Tasks
        BY <1>1, <4>1
      <4> QED
        BY <2>a, <4>1 DEF Finished, Holding, InFlight
    <3>2. ASSUME NEW t \in Tasks, lock = t, tasks'[t].pc \notin Holding PROVE lock \in Of(b)
      BY <1>1, <2>3, <3>2
    <3>3. lock' = IF lock \in Of(b) THEN Nobody ELSE lock
      BY <1>4 DEF Ended
    <3> QED
      BY <3>1, <3>2, <3>3 DEF Holding, InFlight
  <2> QED
    BY <2>1, <2>4, <2>5, <2>6
<1>5. CASE Exit(b)
  <2>1. \A t \in Of(b) : tasks[t].pc \notin Active
    BY <1>1, <1>5 DEF Exit, CredentialInv, Awaited, Of, Finished, Active, Holding, InFlight
  <2>2. Ended(b) /\ UNCHANGED <<memory, file, login, service, forfeited, starts>>
    BY <1>5 DEF Exit
  <2> QED
    BY <1>1, <1>4, <2>1, <2>2, OthersKeep
<1>6. CASE Crash(b)
  <2>1. Ended(b) /\ UNCHANGED <<memory, file, login, service, starts>>
    BY <1>6 DEF Crash
  <2>2. /\ forfeited' \in SUBSET Logins /\ forfeited \subseteq forfeited'
        /\ \A t \in Of(b) : Forfeits(t) \subseteq forfeited'
    <3>1. forfeited' = forfeited \cup UNION {Forfeits(t) : t \in Of(b)}
      BY <1>6 DEF Crash
    <3>2. \A t \in Tasks : Forfeits(t) \in SUBSET Logins
      BY <1>1, TaskFields DEF Forfeits, Credentials
    <3>3. Of(b) \subseteq Tasks /\ forfeited \in SUBSET Logins
      BY <1>1 DEF Of, CredentialInv, TypeInv, TypeOK
    <3>4. UNION {Forfeits(t) : t \in Of(b)} \in SUBSET Logins
      BY <3>2, <3>3
    <3>5. \A t \in Of(b) : Forfeits(t) \subseteq UNION {Forfeits(u) : u \in Of(b)}
      BY Zenon
    <3> QED
      BY <3>1, <3>3, <3>4, <3>5
  <2> QED
    BY <1>1, <1>4, <2>1, <2>2, OthersKeep
<1> QED
  BY <1>2, <1>3, <1>5, <1>6

LEMMA LoginKeeps ==
    ASSUME CredentialInv, WriteLogin \/ \E locks \in Locking : BeginLogin(locks)
    PROVE  CredentialInv'
<1>1. TypeInv /\ \A t \in Tasks : t # Nobody /\ t # Outsider /\ tasks[t].pc \in Stages
  BY TaskFields DEF CredentialInv
<1>2. CASE \E locks \in Locking : BeginLogin(locks)
  <2>1. /\ login = "none" /\ login' = "writing"
        /\ lock' = lock \/ (lock = Nobody /\ lock' = Outsider)
        /\ UNCHANGED <<backends, memory, pending, tasks, file, service, forfeited, starts>>
    BY <1>2, AuthAssumption DEF BeginLogin
  <2>2. TypeInv'
    BY <1>1, <2>1 DEF TypeInv, TypeOK, OneFamily, service
  <2> QED
    BY <2>1, <2>2 DEF CredentialInv, HeldCredentials, Held, Overtaken, Awaited,
                      RotationsAreKept, TokensAreSpentOnce, Latest, service
<1>3. CASE WriteLogin
  <2>1. /\ login = "writing" /\ login' = "done"
        /\ lock' = lock \/ (lock = Outsider /\ lock' = Nobody)
        /\ file' = [family |-> 2, rotation |-> 0] /\ families[2] = 0
        /\ \A t \in Tasks : tasks[t].before.family = 1
        /\ UNCHANGED <<backends, memory, pending, tasks, service, forfeited, starts>>
    BY <1>1, <1>3 DEF WriteLogin, TypeInv, OneFamily
  <2>2. file' \in Credentials
    BY <2>1, AuthAssumption DEF Credentials
  <2>3. TypeInv'
    BY <1>1, <2>1, <2>2 DEF TypeInv, TypeOK, OneFamily, service
  <2>4. Latest(file)'
    BY <2>1 DEF Latest, service
  <2>5. \A t \in Tasks : Overtaken(tasks[t])'
    BY <2>1, <2>4 DEF Overtaken
  <2>6. HeldCredentials'
    BY <2>1, <2>5 DEF CredentialInv, HeldCredentials, Held, Latest, service
  <2>7. Awaited' /\ TokensAreSpentOnce' /\ RotationsAreKept'
    BY <2>1, <2>4 DEF CredentialInv, Awaited, TokensAreSpentOnce, RotationsAreKept, service
  <2> QED
    BY <2>3, <2>6, <2>7 DEF CredentialInv
<1> QED
  BY <1>2, <1>3

\* A request that was given up spends the latest token, or one that is spent.
LEMMA LateKeeps ==
    ASSUME CredentialInv, NEW t \in Tasks, HandledLate(t)
    PROVE  CredentialInv'
<1>1. /\ tasks[t] \in Task /\ tasks[t].request = "late" /\ tasks \in [Tasks -> Task]
      /\ tasks[t].before \in Credentials /\ TypeInv /\ tasks[t].pc = "failed"
      /\ (tasks[t].before.family = 1 \/ login = "done")
      /\ forfeited \in SUBSET Logins /\ reused \in SUBSET Logins
      /\ families \in [Logins -> 0 .. MaxRotations]
  BY TaskFields DEF CredentialInv, TypeInv, TypeOK, OneFamily, HeldCredentials, Held, HandledLate
<1> DEFINE r == [tasks[t] EXCEPT !.request = "handled"]
<1>2. /\ r \in Task /\ r.pc = tasks[t].pc /\ r.before = tasks[t].before
      /\ r.new = tasks[t].new /\ r.backend = tasks[t].backend /\ r.request = "handled"
      /\ tasks' = [tasks EXCEPT ![t] = r]
  BY <1>1 DEF HandledLate, Task
<1> HIDE DEF r
<1>3. /\ tasks' \in [Tasks -> Task] /\ tasks'[t] = r
      /\ \A u \in Tasks : u # t => tasks'[u] = tasks[u]
      /\ UNCHANGED <<Rest, file, lock>>
  BY <1>1, <1>2 DEF HandledLate, Rest
<1>4. \A u \in Tasks : /\ tasks'[u].pc = tasks[u].pc /\ tasks'[u].before = tasks[u].before
                       /\ tasks'[u].new = tasks[u].new /\ tasks'[u].backend = tasks[u].backend
                       /\ (tasks'[u].request # "none" => tasks[u].request # "none")
                       /\ (tasks[u].request = "handled" => tasks'[u].request = "handled")
  BY <1>1, <1>2, <1>3
<1> DEFINE f == tasks[t].before.family
<1>5. f \in Logins /\ (f = 1 \/ login = "done")
  BY <1>1 DEF Credentials
<1> DEFINE Accounted ==
      /\ families' \in [Logins -> 0 .. MaxRotations]
      /\ \A g \in Logins : families'[g] = families[g] \/ (g = f /\ f \in forfeited')
      /\ forfeited \subseteq forfeited' /\ forfeited' \in SUBSET Logins
      /\ reused' \subseteq reused \cup {f}
<1>6. Accounted
  <2>1. CASE ~Latest(tasks[t].before) /\ reused' = reused \cup {f} /\ UNCHANGED <<families, forfeited>>
    BY <1>1, <2>1
  <2>2. ASSUME NEW new \in Credentials, Rotated(tasks[t].before, new),
               forfeited' = forfeited \cup IF new = tasks[t].before THEN {} ELSE {f}
        PROVE  Accounted
    <3>1. /\ new.rotation \in 0 .. MaxRotations /\ families[f] = tasks[t].before.rotation
          /\ families' = [families EXCEPT ![f] = new.rotation] /\ reused' = reused
      BY <2>2 DEF Rotated, Latest, Credentials
    <3>2. CASE new = tasks[t].before
      BY <1>1, <1>5, <2>2, <3>1, <3>2
    <3>3. CASE new # tasks[t].before
      BY <1>1, <1>5, <2>2, <3>1, <3>3
    <3> QED
      BY <3>2, <3>3
  <2> QED
    BY <2>1, <2>2 DEF HandledLate
<1> HIDE DEF f
<1>7. TypeInv'
  <2>1. families'[2] = families[2] \/ login = "done"
    BY <1>5, <1>6
  <2>2. TypeOK'
    BY <1>1, <1>3, <1>4, <1>5, <1>6 DEF TypeInv, TypeOK, Rest
  <2>3. OneFamily'
    BY <1>1, <1>3, <1>4, <2>1 DEF TypeInv, OneFamily, Rest
  <2> QED
    BY <2>2, <2>3 DEF TypeInv
<1>8. \A c \in Credentials : Latest(c) => Latest(c)' \/ c.family \in forfeited'
  BY <1>6 DEF Latest, Credentials
<1>9. HeldCredentials'
  <2> SUFFICES ASSUME NEW u \in Tasks PROVE Held(tasks[u])'
    BY DEF HeldCredentials
  <2>1. Held(tasks[u]) /\ tasks[u].before \in Credentials /\ tasks[u].new \in Credentials
        /\ file \in Credentials
    BY <1>1, TaskFields DEF CredentialInv, HeldCredentials
  <2>2. UNCHANGED <<file, login>>
    BY <1>3 DEF Rest
  <2>3. Overtaken(tasks[u]) => Overtaken(tasks[u])'
    BY <1>4, <1>6, <1>8, <2>1, <2>2 DEF Overtaken
  <2>4. /\ tasks'[u].pc = tasks[u].pc /\ tasks'[u].before = tasks[u].before
        /\ tasks'[u].new = tasks[u].new
        /\ (tasks'[u].request # "none" => tasks[u].request # "none")
    BY <1>4
  <2>5. /\ Latest(tasks[u].before) => Latest(tasks[u].before)' \/ tasks[u].before.family \in forfeited'
        /\ Latest(tasks[u].new) => Latest(tasks[u].new)' \/ tasks[u].new.family \in forfeited'
        /\ forfeited \subseteq forfeited'
    <3>1. ASSUME NEW c \in Credentials, Latest(c), c.family \notin forfeited'
          PROVE  families'[c.family] = c.rotation
      BY <1>6, <3>1 DEF Latest, Credentials
    <3> QED
      BY <1>4, <1>6, <2>1, <3>1 DEF Latest
  <2> QED
    BY <2>1, <2>2, <2>3, <2>4, <2>5 DEF Held, Latest
<1>10. Awaited'
  BY <1>3, <1>4 DEF CredentialInv, Awaited, Rest
<1>11. RotationsAreKept'
  <2>1. file' = file /\ file \in Credentials
    BY <1>1, <1>3, TaskFields
  <2>2. CASE Latest(file)
    <3>1. Latest(file)' \/ file.family \in forfeited'
      BY <1>8, <2>1, <2>2 DEF Latest
    <3> QED
      BY <2>1, <3>1 DEF RotationsAreKept
  <2>3. CASE file.family \in forfeited
    BY <1>6, <2>1, <2>3 DEF RotationsAreKept
  <2>4. ASSUME NEW u \in Tasks, tasks[u].pc \in {"answered", "persist"}, tasks[u].before = file
        PROVE  RotationsAreKept'
    BY <1>4, <2>1, <2>4 DEF RotationsAreKept
  <2> QED
    BY <2>2, <2>3, <2>4 DEF CredentialInv, RotationsAreKept
<1>12. TokensAreSpentOnce'
  <2>1. tasks'[t].request = "handled" /\ tasks'[t].before.family = f
    BY <1>2, <1>3 DEF f
  <2> SUFFICES ASSUME NEW g \in reused', g \notin forfeited'
               PROVE  \E u \in Tasks : tasks'[u].request = "handled" /\ tasks'[u].before.family = g
    BY DEF TokensAreSpentOnce
  <2>2. CASE g = f
    BY <2>1, <2>2
  <2>3. CASE g \in reused /\ g \notin forfeited
    <3>1. PICK u \in Tasks : tasks[u].request = "handled" /\ tasks[u].before.family = g
      BY <2>3 DEF CredentialInv, TokensAreSpentOnce
    <3> QED
      BY <1>4, <3>1
  <2> QED
    BY <1>6, <2>2, <2>3
<1> QED
  BY <1>7, <1>9, <1>10, <1>11, <1>12 DEF CredentialInv

LEMMA CredentialsStay ==
    ASSUME CredentialInv, [Next]_vars
    PROVE  CredentialInv'
<1>1. CASE Next
  BY <1>1, TasksKeep, CallersKeep, BackendsKeep, LateKeeps, LoginKeeps DEF Next
<1>2. CASE UNCHANGED vars
  BY <1>2 DEF vars, service, CredentialInv, TypeInv, TypeOK, OneFamily, HeldCredentials, Held,
              Overtaken, Awaited, RotationsAreKept, TokensAreSpentOnce, Latest
<1> QED
  BY <1>1, <1>2

LEMMA CredentialsInitially == Init => CredentialInv
<1> SUFFICES ASSUME Init PROVE CredentialInv
  OBVIOUS
<1> USE UnusedIsTask, AuthAssumption DEF Init
<1>1. \A t \in Tasks : tasks[t] = Unused /\ Unused.pc = "none"
                     /\ Unused.before = First /\ Unused.new = First /\ Unused.request = "none"
  BY DEF Unused
<1>2. TypeOK
  BY <1>1 DEF TypeOK
<1>3. OneFamily /\ HeldCredentials /\ Awaited /\ TokensAreSpentOnce
  BY <1>1 DEF OneFamily, HeldCredentials, Held, Awaited, TokensAreSpentOnce, First,
              Active, Holding, InFlight
<1>4. RotationsAreKept
  BY DEF RotationsAreKept, Latest, First
<1> QED
  BY <1>2, <1>3, <1>4 DEF CredentialInv, TypeInv

LEMMA CredentialsHold == Spec => []CredentialInv
  BY CredentialsInitially, CredentialsStay, PTL DEF Spec

-----------------------------------------------------------------------------
(* What follows *)

\* The state keeps its types, and a refresh task has the lock of the credential
\* file exactly from taking it to its end.
THEOREM TypeCorrect == Spec => []TypeOK
<1>1. CredentialInv => TypeOK
  BY DEF CredentialInv, TypeInv
<1> QED
  BY <1>1, CredentialsHold, PTL

\* The service never sees a token twice, whatever callers are dropped, backends
\* restarted and refreshes run side by side, but after a fault that lost one or
\* for a request that was given up and arrived after all; also when a program
\* that logs in ignores the lock.
THEOREM SpentOnceCorrect == Spec => []TokensAreSpentOnce
<1>1. CredentialInv => TokensAreSpentOnce
  BY DEF CredentialInv
<1> QED
  BY <1>1, CredentialsHold, PTL

\* A shutdown, whenever it comes, does not lose the token the service gave last:
\* what drain_pending_refreshes waits for is all there is.
THEOREM RotationsCorrect == Spec => []RotationsAreKept
<1>1. CredentialInv => RotationsAreKept
  BY DEF CredentialInv
<1> QED
  BY <1>1, CredentialsHold, PTL

=============================================================================
