------------------------- MODULE JobRegistryProofs --------------------------
(***************************************************************************)
(* Theorems about JobRegistry for every value of its constants.            *)
(***************************************************************************)
EXTENDS JobRegistry, FiniteSetTheorems, SequenceTheorems, TLAPS

-----------------------------------------------------------------------------
(***************************************************************************)
(* The inductive invariant.                                                *)
(***************************************************************************)

Waiting == {c \in Callers : callers[c].pc \in {"looked", "asleep"}}

\* NoLostWakeup from the look on.
WakeInv ==
    \A c \in Waiting \ unseen : \A id \in Asked(c) :
        id \in RunningIds \/ \E p \in posts : p.op = "finish" /\ p.id = id

AllAsked == shutting_down => \A id \in RunningIds : jobs[id].cancelling

\* What a shutdown still waits for covers the running jobs and is retained:
\* a target that ended is followed in the queue by ends since the shutdown
\* alone, and there are too few of them to push it out.
ShutdownOf(c) ==
    /\ shutting_down
    /\ callers[c].result # "not_found"
    /\ callers[c].result \in {"none", "ok"} => RunningIds \subseteq callers[c].targets
    /\ callers[c].pc \in {"clean", "done"} => callers[c].targets = {}
    /\ callers[c].result = "ok" => callers[c].pc = "done"
    /\ callers[c].targets \subseteq DOMAIN jobs
    /\ \A k \in DOMAIN terminal_order : terminal_order[k] \in callers[c].targets =>
            Len(terminal_order) - k + Cardinality(RunningIds) < MaxRunning

ShutdownInv == \A c \in Callers : callers[c].op = "shutdown" => ShutdownOf(c)

\* LogsFollowJobs, and pending calls remove no log that must stay.
LogInv ==
    /\ LogsFollowJobs
    /\ \A p \in posts : \A id \in p.clean :
            /\ id < next_id
            /\ id \in DOMAIN jobs => jobs[id].cleaned \/ jobs[id].state = "failed"

RegistryInv == TypeOK /\ Retention /\ WakeInv /\ AllAsked /\ ShutdownInv /\ LogInv

-----------------------------------------------------------------------------
(***************************************************************************)
(* Eviction.                                                               *)
(***************************************************************************)

\* What is left of a sequence without its first n elements.
LEMMA SuffixFacts ==
    ASSUME NEW S, NEW s \in Seq(S), NEW n \in 0 .. Len(s)
    PROVE  /\ SubSeq(s, n + 1, Len(s)) \in Seq(S)
           /\ Len(SubSeq(s, n + 1, Len(s))) = Len(s) - n
           /\ \A i \in 1 .. Len(s) - n : SubSeq(s, n + 1, Len(s))[i] = s[i + n]
<1> DEFINE first == n + 1
           last == Len(s)
<1>1. /\ first \in Int /\ last \in Int /\ last \in Nat /\ n \in Nat /\ n <= last
      /\ \A i \in first .. last : s[i] \in S
  OBVIOUS
<1>2. first = n + 1 /\ last = Len(s)
  OBVIOUS
<1> HIDE DEF first, last
<1>3. SubSeq(s, first, last) \in Seq(S)
  BY <1>1, SubSeqProperties
<1>4. Len(SubSeq(s, first, last)) = IF first <= last THEN last - first + 1 ELSE 0
  BY <1>1, SubSeqProperties
<1>5. \A i \in 1 .. last - first + 1 : SubSeq(s, first, last)[i] = s[first + i - 1]
  BY <1>1, SubSeqProperties
<1>6. Len(SubSeq(s, first, last)) = last - n
  <2> DEFINE length == Len(SubSeq(s, first, last))
  <2>1. length = IF first <= last THEN last - first + 1 ELSE 0
    BY <1>4
  <2> HIDE DEF length
  <2>2. length = last - n
    BY <1>1, <1>2, <2>1
  <2> QED BY <2>2 DEF length
<1>7. ASSUME NEW i \in 1 .. last - n
      PROVE  SubSeq(s, first, last)[i] = s[i + n]
  <2>1. first + i - 1 = i + n /\ i \in 1 .. last - first + 1
    BY <1>1, <1>2
  <2> QED BY <1>5, <2>1
<1> QED BY <1>2, <1>3, <1>6, <1>7

\* Split drops the first n elements and keeps the others in order.
LEMMA SplitFacts ==
    ASSUME NEW S, NEW order \in Seq(S), NEW n \in 0 .. Len(order)
    PROVE  /\ Split(order, n).kept \in Seq(S)
           /\ Len(Split(order, n).kept) = Len(order) - n
           /\ \A i \in 1 .. Len(order) - n : Split(order, n).kept[i] = order[i + n]
           /\ Split(order, n).gone = {order[i] : i \in 1 .. n}
<1>1. /\ SubSeq(order, n + 1, Len(order)) \in Seq(S)
      /\ Len(SubSeq(order, n + 1, Len(order))) = Len(order) - n
      /\ \A i \in 1 .. Len(order) - n : SubSeq(order, n + 1, Len(order))[i] = order[i + n]
  BY SuffixFacts
<1>2. /\ SubSeq(order, 1, n) \in Seq(S) /\ Len(SubSeq(order, 1, n)) = n
      /\ \A i \in 1 .. n : SubSeq(order, 1, n)[i] = order[i]
  <2>1. \A i \in 1 .. n : order[i] \in S
    OBVIOUS
  <2> QED BY <2>1, SubSeqProperties
<1>3. Elements(SubSeq(order, 1, n)) = {order[i] : i \in 1 .. n}
  <2>1. DOMAIN SubSeq(order, 1, n) = 1 .. n
    BY <1>2
  <2> QED BY <1>2, <2>1 DEF Elements
<1>4. /\ Split(order, n).kept = SubSeq(order, n + 1, Len(order))
      /\ Split(order, n).gone = Elements(SubSeq(order, 1, n))
  BY DEF Split
<1> QED BY <1>1, <1>3, <1>4

\* evict drops the oldest terminal jobs, as many as there are too many.
LEMMA EvictSplits ==
    ASSUME NEW S, NEW order \in Seq(S)
    PROVE  \E n \in 0 .. Len(order) :
              /\ Evict(order) = Split(order, n)
              /\ Len(order) - n <= MaxTerminal
              /\ n > 0 => Len(order) - n = MaxTerminal
<1>1. Len(order) \in Nat /\ MaxTerminal \in Nat
  BY RegistryAssumption
<1>2. CASE Len(order) > MaxTerminal
  <2>1. Evict(order) = Split(order, Len(order) - MaxTerminal)
    BY <1>2 DEF Evict
  <2> QED BY <1>1, <1>2, <2>1
<1>3. CASE ~(Len(order) > MaxTerminal)
  <2>1. Evict(order) = Split(order, 0)
    BY <1>3 DEF Evict
  <2> QED BY <1>1, <1>3, <2>1
<1> QED BY <1>2, <1>3

\* The jobs are finitely many.
LEMMA FiniteJobs ==
    ASSUME TypeOK
    PROVE  /\ \A S \in SUBSET Ids : IsFiniteSet(S) /\ Cardinality(S) \in Nat
           /\ DOMAIN jobs \subseteq Ids /\ RunningIds \subseteq Ids
           /\ \A id \in DOMAIN jobs : jobs[id] \in Job
<1>1. IsFiniteSet(Ids)
  BY FS_Interval, RegistryAssumption DEF Ids
<1>2. DOMAIN jobs \subseteq Ids
  BY RegistryAssumption DEF TypeOK, Ids
<1>3. \A S \in SUBSET Ids : IsFiniteSet(S) /\ Cardinality(S) \in Nat
  BY <1>1, FS_Subset, FS_CardinalityType
<1> QED BY <1>2, <1>3 DEF TypeOK, RunningIds

\* start adds a running job and evicts nothing.
LEMMA StartFacts ==
    ASSUME TypeOK, Retention, Start
    PROVE  /\ next_id \in Ids /\ next_id \notin DOMAIN jobs
           /\ DOMAIN jobs' = DOMAIN jobs \cup {next_id}
           /\ \A id \in DOMAIN jobs : jobs'[id] = jobs[id]
           /\ jobs'[next_id] = [state |-> "running", cancelling |-> FALSE, cleaned |-> FALSE]
           /\ RunningIds' = RunningIds \cup {next_id} /\ TerminalIds' = TerminalIds
           /\ terminal_order' = terminal_order
           /\ posts' = posts \cup {PostOf("start", next_id, {})}
           /\ Cardinality(RunningIds') <= MaxRunning
<1> DEFINE table == WithJob(next_id)
<1> USE RegistryAssumption
<1>1. next_id \in Ids /\ next_id \notin DOMAIN jobs /\ next_id \in Nat
  BY DEF TypeOK, Ids, Start
<1>2. /\ Evict(terminal_order).gone = {}
      /\ Evict(terminal_order).kept = terminal_order
  <2>1. terminal_order \in Seq(Ids) /\ Len(terminal_order) <= MaxTerminal
    BY DEF TypeOK, Retention
  <2>2. Len(terminal_order) \in Nat /\ ~(Len(terminal_order) > MaxTerminal)
    BY <2>1
  <2>3. Evict(terminal_order) = Split(terminal_order, 0)
    BY <2>2 DEF Evict
  <2>4. Split(terminal_order, 0).gone = {terminal_order[i] : i \in 1 .. 0}
    BY <2>1, <2>2, SplitFacts
  <2>5. Split(terminal_order, 0).kept = SubSeq(terminal_order, 1, Len(terminal_order))
    BY DEF Split
  <2> QED BY <2>1, <2>3, <2>4, <2>5, SubSeqFull
<1>3. /\ DOMAIN table = DOMAIN jobs \cup {next_id}
      /\ \A id \in DOMAIN jobs : table[id] = jobs[id]
      /\ table[next_id] = [state |-> "running", cancelling |-> FALSE, cleaned |-> FALSE]
  BY <1>1 DEF WithJob
<1>4. /\ jobs' = [i \in DOMAIN table |-> table[i]] /\ terminal_order' = terminal_order
      /\ posts' = posts \cup {PostOf("start", next_id, {})}
  <2>1. Settle("start", next_id, table, terminal_order, {})
    BY DEF Start
  <2> HIDE DEF table
  <2> QED BY <1>2, <2>1 DEF Settle
<1> HIDE DEF table
<1>5. /\ DOMAIN jobs' = DOMAIN jobs \cup {next_id}
      /\ \A id \in DOMAIN jobs : jobs'[id] = jobs[id]
      /\ jobs'[next_id] = [state |-> "running", cancelling |-> FALSE, cleaned |-> FALSE]
  BY <1>3, <1>4
<1>6. RunningIds' = RunningIds \cup {next_id}
  BY <1>1, <1>5 DEF RunningIds
<1>7. TerminalIds' = TerminalIds
  BY <1>1, <1>5, <1>6 DEF TerminalIds, RunningIds
<1>8. Cardinality(RunningIds') <= MaxRunning
  <2>1. next_id \notin RunningIds /\ Cardinality(RunningIds) < MaxRunning
    BY <1>1 DEF RunningIds, Start
  <2>2. IsFiniteSet(RunningIds) /\ Cardinality(RunningIds) \in Nat
    BY FiniteJobs
  <2>3. Cardinality(RunningIds \cup {next_id}) = Cardinality(RunningIds) + 1
    BY <2>1, <2>2, FS_AddElement
  <2> QED BY <1>6, <2>1, <2>2, <2>3
<1> QED BY <1>1, <1>4, <1>5, <1>6, <1>7, <1>8

\* What finish and the drop of a lease leave: the queue with the job at its
\* end, less the n oldest ones.
Ended(id, outcome, clean, n, gone) ==
    LET order == Append(terminal_order, id)
    IN  /\ gone = {order[i] : i \in 1 .. n}
        /\ gone \subseteq TerminalIds \cup {id}
        /\ n > 0 => Len(terminal_order) + 1 - n = MaxTerminal
        /\ DOMAIN jobs' = DOMAIN jobs \ gone
        /\ \A i \in DOMAIN jobs' :
                jobs'[i] = IF i = id THEN [jobs[id] EXCEPT !.state = outcome] ELSE jobs[i]
        /\ RunningIds' = RunningIds \ {id}
        /\ TerminalIds' = (TerminalIds \cup {id}) \ gone
        /\ posts' = posts \cup {PostOf("finish", id, clean \cup {i \in gone : ~jobs[i].cleaned})}
        /\ terminal_order' \in Seq(Ids) /\ Len(terminal_order') = Len(terminal_order) + 1 - n
        /\ Len(terminal_order') <= MaxTerminal
        /\ \A i \in 1 .. Len(terminal_order) + 1 - n : terminal_order'[i] = order[i + n]

\* The end of a running job is as Ended says.
LEMMA EndFacts ==
    ASSUME TypeOK, Retention, NEW id \in RunningIds, NEW outcome \in Outcomes, NEW clean,
           Settle("finish", id, [jobs EXCEPT ![id].state = outcome],
                  Append(terminal_order, id), clean)
    PROVE  \E n \in 0 .. Len(terminal_order) + 1 : \E gone \in SUBSET DOMAIN jobs : Ended(id, outcome, clean, n, gone)
<1> DEFINE order == Append(terminal_order, id)
           table == [jobs EXCEPT ![id].state = outcome]
<1>1. id \in DOMAIN jobs /\ id \in Ids /\ \A i \in DOMAIN jobs : jobs[i] \in Job
  BY FiniteJobs DEF RunningIds
<1>2. terminal_order \in Seq(Ids) /\ Elements(terminal_order) = TerminalIds
  BY DEF TypeOK, Retention
<1>3. /\ order \in Seq(Ids) /\ Len(order) = Len(terminal_order) + 1
      /\ \A i \in 1 .. Len(terminal_order) : order[i] = terminal_order[i]
      /\ order[Len(terminal_order) + 1] = id
  BY <1>1, <1>2, AppendProperties
<1>4. /\ DOMAIN table = DOMAIN jobs
      /\ \A i \in DOMAIN jobs :
            table[i] = IF i = id THEN [jobs[id] EXCEPT !.state = outcome] ELSE jobs[i]
      /\ \A i \in DOMAIN jobs : table[i].cleaned = jobs[i].cleaned
  BY <1>1 DEF Job
<1>5. /\ jobs' = [i \in DOMAIN jobs \ Evict(order).gone |-> table[i]]
      /\ terminal_order' = Evict(order).kept
      /\ posts' = posts \cup {PostOf("finish", id,
                            clean \cup {i \in Evict(order).gone : ~table[i].cleaned})}
  BY <1>4 DEF Settle
<1> HIDE DEF order, table
<1>6. PICK n \in 0 .. Len(order) :
          /\ Evict(order) = Split(order, n)
          /\ Len(order) - n <= MaxTerminal /\ (n > 0 => Len(order) - n = MaxTerminal)
  BY <1>3, EvictSplits
<1> DEFINE gone == {order[i] : i \in 1 .. n}
<1>7. /\ Evict(order).gone = gone /\ Evict(order).kept \in Seq(Ids)
      /\ Len(Evict(order).kept) = Len(order) - n
      /\ \A i \in 1 .. Len(order) - n : Evict(order).kept[i] = order[i + n]
  <2>1. n \in 0 .. Len(order) /\ order \in Seq(Ids)
    BY <1>3, <1>6
  <2>2. /\ Split(order, n).kept \in Seq(Ids)
        /\ Len(Split(order, n).kept) = Len(order) - n
        /\ \A i \in 1 .. Len(order) - n : Split(order, n).kept[i] = order[i + n]
        /\ Split(order, n).gone = {order[i] : i \in 1 .. n}
    BY <2>1, SplitFacts
  <2> QED BY <1>6, <2>2
<1>8. gone \subseteq TerminalIds \cup {id}
  <2>1. ASSUME NEW i \in 1 .. Len(order)
        PROVE  order[i] \in TerminalIds \cup {id}
    <3>1. CASE i = Len(terminal_order) + 1
      BY <1>3, <3>1
    <3>2. CASE i \in 1 .. Len(terminal_order)
      <4>1. terminal_order[i] \in Elements(terminal_order)
        BY <1>2, <3>2 DEF Elements
      <4> QED BY <1>2, <1>3, <3>2, <4>1
    <3> QED BY <1>2, <1>3, <3>1, <3>2
  <2>2. 1 .. n \subseteq 1 .. Len(order)
    BY <1>3, <1>6
  <2> QED BY <2>1, <2>2
<1> HIDE DEF gone
<1>9. /\ DOMAIN jobs' = DOMAIN jobs \ gone
      /\ \A i \in DOMAIN jobs' :
            jobs'[i] = IF i = id THEN [jobs[id] EXCEPT !.state = outcome] ELSE jobs[i]
  BY <1>4, <1>5, <1>7
<1>10. TerminalIds \cap RunningIds = {} /\ TerminalIds \cup RunningIds = DOMAIN jobs
  BY DEF TerminalIds, RunningIds
<1>11. \A i \in DOMAIN jobs' :
          jobs'[i].state = IF i = id THEN outcome ELSE jobs[i].state
  BY <1>1, <1>9 DEF Job
<1>12. RunningIds' = RunningIds \ {id}
  <2>1. outcome # "running"
    BY RegistryAssumption
  <2> QED BY <1>8, <1>9, <1>10, <1>11, <2>1 DEF RunningIds
<1>13. TerminalIds' = (TerminalIds \cup {id}) \ gone
  BY <1>1, <1>8, <1>9, <1>10, <1>12 DEF TerminalIds
<1>14. {i \in Evict(order).gone : ~table[i].cleaned} = {i \in gone : ~jobs[i].cleaned}
  BY <1>1, <1>4, <1>7, <1>8, <1>10
<1>15. Ended(id, outcome, clean, n, gone)
  <2>1. /\ gone = {Append(terminal_order, id)[i] : i \in 1 .. n}
        /\ \A i \in 1 .. Len(terminal_order) + 1 - n :
                terminal_order'[i] = Append(terminal_order, id)[i + n]
    BY <1>3, <1>5, <1>7 DEF gone, order
  <2>2. /\ terminal_order' \in Seq(Ids) /\ Len(terminal_order') = Len(terminal_order) + 1 - n
        /\ Len(terminal_order') <= MaxTerminal
        /\ n > 0 => Len(terminal_order) + 1 - n = MaxTerminal
    BY <1>3, <1>5, <1>6, <1>7
  <2> QED BY <1>5, <1>7, <1>8, <1>9, <1>12, <1>13, <1>14, <2>1, <2>2 DEF Ended
<1>16. gone \subseteq DOMAIN jobs
  BY <1>1, <1>15 DEF Ended, TerminalIds
<1> QED BY <1>3, <1>6, <1>15, <1>16

-----------------------------------------------------------------------------
(***************************************************************************)
(* The steps.                                                              *)
(***************************************************************************)

\* The end of a job, by finish or by the drop of its lease.
EndStep(id, outcome, clean) ==
    /\ id \in RunningIds /\ outcome \in Outcomes /\ clean \subseteq {id}
    /\ id \in clean => jobs[id].cleaned \/ outcome = "failed"
    /\ jobs[id].cleaned => id \in clean
    /\ Settle("finish", id, [jobs EXCEPT ![id].state = outcome],
              Append(terminal_order, id), clean)
    /\ UNCHANGED <<next_id, shutting_down, logs, unseen, callers>>

\* A step of a caller that only moves the caller.
Moves(c) ==
    \/ \E ids \in Requests : Wait(c, ids)
    \/ \E id \in 0 .. MaxId - 1 : Cancel(c, id)
    \/ Check(c) \/ Sleep(c) \/ Wake(c) \/ Timeout(c) \/ ShutdownNotify(c)

\* A step of a caller that marks jobs.
Marks(c) == SendCancel(c) \/ Shutdown(c) \/ CleanRetained(c)

\* The kinds of steps.
LEMMA NextCases ==
    ASSUME Next
    PROVE  \/ Start
           \/ \E id \in DOMAIN jobs : Update(id)
           \/ \E id \in DOMAIN jobs, outcome \in Outcomes, clean \in SUBSET DOMAIN jobs : EndStep(id, outcome, clean)
           \/ \E p \in posts : Post(p)
           \/ \E c \in Callers : Moves(c) \/ Marks(c)
<1>1. ASSUME NEW id \in DOMAIN jobs, NEW outcome \in Outcomes, Finish(id, outcome)
      PROVE  EndStep(id, outcome, IF jobs[id].cleaned THEN {id} ELSE {})
  BY <1>1 DEF Finish, EndStep, Leased
<1>2. ASSUME NEW id \in DOMAIN jobs, Disappear(id)
      PROVE  EndStep(id, "failed", {id})
  BY <1>2, RegistryAssumption DEF Disappear, EndStep, Leased
<1>3. "failed" \in Outcomes
  BY RegistryAssumption
<1>4. \A id \in DOMAIN jobs : /\ {id} \subseteq DOMAIN jobs
                             /\ (IF jobs[id].cleaned THEN {id} ELSE {}) \subseteq DOMAIN jobs
  OBVIOUS
<1> QED BY <1>1, <1>2, <1>3, <1>4 DEF Next, Moves, Marks

\* A step that keeps the states of the retained jobs keeps who runs.
LEMMA SameStates ==
    ASSUME DOMAIN jobs' = DOMAIN jobs, \A id \in DOMAIN jobs : jobs'[id].state = jobs[id].state
    PROVE  RunningIds' = RunningIds /\ TerminalIds' = TerminalIds
BY DEF RunningIds, TerminalIds

\* Marking a job changes its flags alone, upwards.
LEMMA MarksFacts ==
    ASSUME TypeOK, NEW c \in Callers, Marks(c)
    PROVE  /\ DOMAIN jobs' = DOMAIN jobs
           /\ \A id \in DOMAIN jobs :
                  /\ jobs'[id] \in Job /\ jobs'[id].state = jobs[id].state
                  /\ jobs[id].cancelling => jobs'[id].cancelling
                  /\ jobs[id].cleaned => jobs'[id].cleaned
           /\ UNCHANGED <<terminal_order, next_id, posts>>
           /\ ~CleanRetained(c) => logs' = logs
                    /\ \A id \in DOMAIN jobs : jobs'[id].cleaned = jobs[id].cleaned
<1>1. \A id \in DOMAIN jobs : jobs[id] \in Job
  BY FiniteJobs
<1>2. CASE SendCancel(c)
  BY <1>1, <1>2 DEF SendCancel, Job
<1>3. CASE Shutdown(c)
  BY <1>1, <1>3 DEF Shutdown, Job
<1>4. CASE CleanRetained(c)
  BY <1>1, <1>4 DEF CleanRetained, Job
<1> QED BY <1>2, <1>3, <1>4 DEF Marks

\* A moving caller stays a caller, and nothing else changes but what it saw.
LEMMA MovesType ==
    ASSUME TypeOK, NEW c \in Callers, Moves(c)
    PROVE  /\ callers' \in [Callers -> Caller] /\ unseen' \subseteq Callers
           /\ UNCHANGED <<registry, logs, posts>>
           /\ \A d \in Callers \ {c} : callers'[d] = callers[d]
<1>1. callers \in [Callers -> Caller] /\ unseen \subseteq Callers /\ callers[c] \in Caller
  BY DEF TypeOK
<1>2. /\ RunningIds \subseteq Ids /\ Asked(c) \subseteq Ids /\ Subscribed \subseteq Callers
  BY <1>1, FiniteJobs DEF Asked, Caller, Subscribed
<1>3. Idle \in Caller /\ \A r \in {"not_found", "timeout"} :
        [Calling("shutdown", "clean", {}) EXCEPT !.result = r] \in Caller
  BY DEF Idle, Calling, Caller
<1>4. ASSUME NEW ids \in Requests, Wait(c, ids) PROVE Calling("wait", "check", ids) \in Caller
  BY RegistryAssumption DEF Calling, Caller, Ids
<1>5. \A id \in RunningIds : Calling("cancel", "notify", {id}) \in Caller
  BY <1>2 DEF Calling, Caller
<1>6. \A pc \in {"done", "notify", "check", "looked", "asleep", "clean"} :
        [callers[c] EXCEPT !.pc = pc] \in Caller
  BY <1>1 DEF Caller
<1>7. ASSUME NEW ids \in Requests, Wait(c, ids)
      PROVE  callers' = [callers EXCEPT ![c] = Calling("wait", "check", ids)]
             /\ unseen' \subseteq Callers /\ UNCHANGED <<registry, logs, posts>>
  BY <1>1, <1>7 DEF Wait
<1>8. CASE \E ids \in Requests : Wait(c, ids)
  BY <1>1, <1>4, <1>7, <1>8
<1>9. CASE \E id \in 0 .. MaxId - 1 : Cancel(c, id)
  BY <1>1, <1>5, <1>9 DEF Cancel
<1>10. CASE Check(c)
  <2>1. UNCHANGED <<registry, logs, posts>> /\ unseen' \subseteq Callers
    BY <1>1, <1>10 DEF Check, Return, StopWaiting, NextTarget
  <2>2. \E call \in Caller : callers' = [callers EXCEPT ![c] = call]
    <3>1. CASE callers' = [callers EXCEPT ![c].pc = "looked"]
      BY <1>1, <1>6, <3>1
    <3>2. CASE Return(c)
      BY <1>3, <3>2 DEF Return
    <3>3. CASE StopWaiting(c, "not_found")
      BY <1>3, <3>3 DEF StopWaiting
    <3>4. CASE NextTarget(c)
      <4> DEFINE call == [callers[c] EXCEPT
                            !.pc = IF callers[c].targets \ Asked(c) = {} THEN "clean" ELSE "check",
                            !.targets = callers[c].targets \ Asked(c)]
      <4>1. call \in Caller
        BY <1>1, <1>2 DEF Caller
      <4>2. callers' = [callers EXCEPT ![c] = call]
        BY <1>1, <3>4 DEF NextTarget
      <4> QED BY <4>1, <4>2
    <3> QED BY <1>10, <3>1, <3>2, <3>3, <3>4 DEF Check
  <2> QED BY <1>1, <2>1, <2>2
<1>11. CASE Sleep(c)
  BY <1>1, <1>6, <1>11 DEF Sleep
<1>12. CASE Wake(c)
  BY <1>1, <1>6, <1>12 DEF Wake
<1>13. CASE Timeout(c)
  BY <1>1, <1>3, <1>13 DEF Timeout, Return, StopWaiting
<1>14. CASE ShutdownNotify(c)
  BY <1>1, <1>2, <1>6, <1>14 DEF ShutdownNotify
<1> QED BY <1>8, <1>9, <1>10, <1>11, <1>12, <1>13, <1>14 DEF Moves

\* Marking keeps the callers typed.
LEMMA MarksType ==
    ASSUME TypeOK, NEW c \in Callers, Marks(c)
    PROVE  /\ callers' \in [Callers -> Caller] /\ unseen' \subseteq Callers
           /\ logs' \subseteq Ids /\ shutting_down' \in BOOLEAN
           /\ \A d \in Callers \ {c} : callers'[d] = callers[d]
<1>1. /\ callers \in [Callers -> Caller] /\ unseen \subseteq Callers /\ callers[c] \in Caller
      /\ logs \subseteq Ids /\ shutting_down \in BOOLEAN /\ Subscribed \subseteq Callers
  BY DEF TypeOK, Subscribed
<1>2. RunningIds \subseteq Ids
  BY FiniteJobs
<1>3. CASE SendCancel(c)
  <2>1. [callers[c] EXCEPT !.pc = "check"] \in Caller
    BY <1>1 DEF Caller
  <2> QED BY <1>1, <1>3, <2>1 DEF SendCancel
<1>4. CASE Shutdown(c)
  <2>1. Calling("shutdown", "notify", RunningIds) \in Caller
    BY <1>2 DEF Calling, Caller
  <2> QED BY <1>1, <1>4, <2>1 DEF Shutdown
<1>5. CASE CleanRetained(c)
  <2>1. \A r \in {"ok", callers[c].result} : [callers[c] EXCEPT !.pc = "done", !.result = r] \in Caller
    BY <1>1 DEF Caller
  <2>2. PICK r \in {"ok", callers[c].result} :
            callers' = [callers EXCEPT ![c] = [callers[c] EXCEPT !.pc = "done", !.result = r]]
    BY <1>1, <1>5 DEF CleanRetained
  <2> QED BY <1>1, <1>5, <2>1, <2>2 DEF CleanRetained
<1> QED BY <1>3, <1>4, <1>5 DEF Marks

\* Types and the queue of ended jobs are kept by every step.
LEMMA TypeStep ==
    ASSUME TypeOK, Retention, [Next]_vars
    PROVE  TypeOK' /\ Retention'
<1>1. CASE Start
  <2>1. /\ next_id' = next_id + 1 /\ next_id \in Nat /\ next_id < MaxId /\ MaxId \in Nat
        /\ logs' = logs \cup {next_id} /\ UNCHANGED <<shutting_down, unseen, callers>>
    BY <1>1, RegistryAssumption DEF Start, TypeOK
  <2>2. jobs' \in [DOMAIN jobs' -> Job]
    <3>1. [state |-> "running", cancelling |-> FALSE, cleaned |-> FALSE] \in Job
      BY DEF Job
    <3>2. \A id \in DOMAIN jobs' : jobs'[id] \in Job
      BY <1>1, <3>1, StartFacts, FiniteJobs
    <3>3. jobs' = [id \in DOMAIN jobs' |-> jobs'[id]]
      BY <1>1 DEF Start, Settle
    <3> QED BY <3>2, <3>3
  <2>3. PostOf("start", next_id, {}) \in Posts
    BY <1>1, StartFacts DEF PostOf, Posts
  <2>4. DOMAIN jobs' \subseteq 0 .. next_id' - 1 /\ next_id' \in 0 .. MaxId
    BY <1>1, <2>1, StartFacts DEF TypeOK
  <2>5. TypeOK'
    BY <1>1, <2>1, <2>2, <2>3, <2>4, StartFacts DEF TypeOK
  <2>6. Retention'
    BY <1>1, StartFacts DEF Retention
  <2> QED BY <2>5, <2>6
<1>2. CASE \E id \in DOMAIN jobs : Update(id)
  <2>1. PICK id \in DOMAIN jobs : Update(id)
    BY <1>2
  <2>2. PostOf("update", id, IF jobs[id].cleaned THEN {id} ELSE {}) \in Posts
    BY FiniteJobs DEF PostOf, Posts
  <2>3. RunningIds' = RunningIds /\ TerminalIds' = TerminalIds
    BY <2>1, SameStates DEF Update, registry
  <2>4. TypeOK'
    BY <2>1, <2>2 DEF Update, TypeOK, registry
  <2>5. Retention'
    BY <2>1, <2>3 DEF Update, Retention, registry
  <2> QED BY <2>4, <2>5
<1>3. CASE \E id \in DOMAIN jobs, outcome \in Outcomes, clean \in SUBSET DOMAIN jobs : EndStep(id, outcome, clean)
  <2>1. PICK id \in RunningIds, outcome \in Outcomes, clean \in SUBSET DOMAIN jobs : EndStep(id, outcome, clean)
    BY <1>3 DEF EndStep
  <2>2. PICK n \in 0 .. Len(terminal_order) + 1, gone \in SUBSET DOMAIN jobs : Ended(id, outcome, clean, n, gone)
    BY <2>1, EndFacts DEF EndStep
  <2> DEFINE order == Append(terminal_order, id)
  <2>3. /\ id \in DOMAIN jobs /\ id \in Ids /\ id \notin TerminalIds /\ DOMAIN jobs \subseteq Ids
        /\ TerminalIds \subseteq Ids /\ \A i \in DOMAIN jobs : jobs[i] \in Job
    BY FiniteJobs DEF RunningIds, TerminalIds
  <2>4. /\ UNCHANGED <<next_id, shutting_down, logs, unseen, callers>> /\ clean \subseteq {id}
    BY <2>1 DEF EndStep
  <2>5. jobs' \in [DOMAIN jobs' -> Job]
    <3>1. [jobs[id] EXCEPT !.state = outcome] \in Job
      BY <2>3 DEF Job
    <3>2. \A i \in DOMAIN jobs' : jobs'[i] \in Job
      BY <2>2, <2>3, <3>1 DEF Ended
    <3>3. jobs' = [i \in DOMAIN jobs' |-> jobs'[i]]
      BY <2>1 DEF EndStep, Settle
    <3> QED BY <3>2, <3>3
  <2>6. TypeOK'
    <3>1. gone \subseteq Ids /\ DOMAIN jobs' \subseteq DOMAIN jobs
      BY <2>2, <2>3 DEF Ended
    <3>2. PostOf("finish", id, clean \cup {i \in gone : ~jobs[i].cleaned}) \in Posts
      BY <2>3, <2>4, <3>1 DEF PostOf, Posts
    <3>3. terminal_order' \in Seq(Ids) /\ posts' \subseteq Posts
      BY <2>2, <3>2 DEF Ended, TypeOK
    <3> QED BY <2>4, <2>5, <3>1, <3>3 DEF TypeOK
  <2>7. /\ terminal_order \in Seq(Ids) /\ Len(terminal_order) \in Nat
        /\ order \in Seq(Ids) /\ Len(order) = Len(terminal_order) + 1
        /\ \A i \in 1 .. Len(terminal_order) : order[i] = terminal_order[i]
        /\ order[Len(terminal_order) + 1] = id
    BY <2>3, AppendProperties DEF TypeOK
  <2> HIDE DEF order
  <2>8. \A i \in 1 .. Len(terminal_order) : terminal_order[i] \in TerminalIds
    BY <2>7 DEF Retention, Elements
  <2>9. \A i, j \in 1 .. Len(terminal_order) + 1 : order[i] = order[j] => i = j
    BY <2>3, <2>7, <2>8 DEF Retention
  <2>10. /\ gone = {order[i] : i \in 1 .. n} /\ n \in Nat /\ n <= Len(terminal_order) + 1
         /\ DOMAIN terminal_order' = 1 .. Len(terminal_order) + 1 - n
         /\ \A i \in 1 .. Len(terminal_order) + 1 - n : terminal_order'[i] = order[i + n]
         /\ TerminalIds' = (TerminalIds \cup {id}) \ gone
    BY <2>2, <2>7 DEF Ended, order
  <2>11. \A i, j \in DOMAIN terminal_order' : terminal_order'[i] = terminal_order'[j] => i = j
    <3> SUFFICES ASSUME NEW i \in DOMAIN terminal_order', NEW j \in DOMAIN terminal_order',
                        terminal_order'[i] = terminal_order'[j]
                 PROVE  i = j
      OBVIOUS
    <3>1. i + n \in 1 .. Len(terminal_order) + 1 /\ j + n \in 1 .. Len(terminal_order) + 1
      BY <2>7, <2>10
    <3>2. i + n = j + n
      BY <2>9, <2>10, <3>1
    <3> QED BY <2>7, <2>10, <3>2
  <2>12. Elements(terminal_order') = TerminalIds'
    <3>1. ASSUME NEW i \in DOMAIN terminal_order'
          PROVE  terminal_order'[i] \in TerminalIds'
      <4>1. /\ i + n \in 1 .. Len(terminal_order) + 1 /\ i + n \notin 1 .. n
            /\ \A j \in 1 .. n : j \in 1 .. Len(terminal_order) + 1
        BY <2>7, <2>10
      <4>2. order[i + n] \notin gone
        BY <2>9, <2>10, <4>1
      <4>3. order[i + n] \in TerminalIds \cup {id}
        <5>1. CASE i + n = Len(terminal_order) + 1
          BY <2>7, <5>1
        <5>2. CASE i + n \in 1 .. Len(terminal_order)
          BY <2>7, <2>8, <5>2
        <5> QED BY <2>7, <4>1, <5>1, <5>2
      <4> QED BY <2>10, <4>2, <4>3
    <3>2. ASSUME NEW x \in TerminalIds'
          PROVE  \E i \in DOMAIN terminal_order' : terminal_order'[i] = x
      <4>1. x \in TerminalIds \cup {id} /\ x \notin gone
        BY <2>10
      <4>2. PICK k \in 1 .. Len(terminal_order) + 1 : order[k] = x
        <5>1. CASE x = id
          BY <2>7, <5>1
        <5>2. CASE x \in TerminalIds
          <6>1. PICK i \in DOMAIN terminal_order : terminal_order[i] = x
            BY <5>2 DEF Retention, Elements
          <6> QED BY <2>7, <6>1
        <5> QED BY <4>1, <5>1, <5>2
      <4>3. k \notin 1 .. n
        BY <2>10, <4>1, <4>2
      <4>4. k - n \in DOMAIN terminal_order' /\ k - n + n = k
        BY <2>7, <2>10, <4>3
      <4>5. terminal_order'[k - n] = order[k]
        <5> DEFINE i == k - n
        <5>1. i \in 1 .. Len(terminal_order) + 1 - n /\ i + n = k
          BY <2>10, <4>4
        <5> HIDE DEF i
        <5>2. terminal_order'[i] = order[k]
          BY <2>10, <5>1
        <5> QED BY <5>2 DEF i
      <4> QED BY <4>2, <4>4, <4>5
    <3> QED BY <3>1, <3>2 DEF Elements
  <2>13. Len(terminal_order') <= MaxTerminal /\ Cardinality(RunningIds') <= MaxRunning
    <3>1. IsFiniteSet(RunningIds) /\ Cardinality(RunningIds) \in Nat /\ Cardinality(RunningIds) <= MaxRunning
      BY FiniteJobs DEF Retention
    <3>2. Cardinality(RunningIds \ {id}) = Cardinality(RunningIds) - 1
      BY <3>1, FS_RemoveElement
    <3> QED BY <2>2, <3>1, <3>2, RegistryAssumption DEF Ended
  <2> QED BY <2>6, <2>11, <2>12, <2>13 DEF Retention
<1>4. CASE \E p \in posts : Post(p)
  <2>1. PICK p \in posts : Post(p)
    BY <1>4
  <2>2. RunningIds' = RunningIds /\ TerminalIds' = TerminalIds
    BY <2>1, SameStates DEF Post, registry
  <2>3. TypeOK'
    BY <2>1 DEF Post, TypeOK, registry, Subscribed
  <2> QED BY <2>1, <2>2, <2>3 DEF Post, Retention, registry
<1>5. ASSUME NEW c \in Callers, Moves(c)
      PROVE  TypeOK' /\ Retention'
  <2>1. RunningIds' = RunningIds /\ TerminalIds' = TerminalIds
    BY <1>5, MovesType, SameStates DEF registry
  <2>2. TypeOK'
    BY <1>5, MovesType DEF TypeOK, registry
  <2> QED BY <1>5, <2>1, <2>2, MovesType DEF Retention, registry
<1>6. ASSUME NEW c \in Callers, Marks(c)
      PROVE  TypeOK' /\ Retention'
  <2>1. RunningIds' = RunningIds /\ TerminalIds' = TerminalIds
    BY <1>6, MarksFacts, SameStates
  <2>2. jobs' \in [DOMAIN jobs' -> Job]
    <3>1. jobs' = [id \in DOMAIN jobs' |-> jobs'[id]]
      BY <1>6 DEF Marks, SendCancel, Shutdown, CleanRetained
    <3> QED BY <1>6, <3>1, MarksFacts
  <2>3. TypeOK'
    BY <1>6, <2>2, MarksFacts, MarksType DEF TypeOK
  <2> QED BY <1>6, <2>1, <2>3, MarksFacts DEF Retention
<1>7. CASE UNCHANGED vars
  <2>1. RunningIds' = RunningIds /\ TerminalIds' = TerminalIds
    BY <1>7, SameStates DEF vars, registry
  <2>2. TypeOK'
    BY <1>7 DEF vars, registry, TypeOK
  <2> QED BY <1>7, <2>1, <2>2 DEF vars, registry, Retention
<1> QED BY <1>1, <1>2, <1>3, <1>4, <1>5, <1>6, <1>7, NextCases

\* Sleeping waiters stay covered: an end leaves its announcement behind, and
\* an announcement reaches everyone who has looked.
LEMMA WakeStep ==
    ASSUME TypeOK, Retention, WakeInv, [Next]_vars
    PROVE  WakeInv'
<1> DEFINE Covered(id) == id \in RunningIds \/ \E p \in posts : p.op = "finish" /\ p.id = id
<1>1. \A c \in Waiting \ unseen : \A id \in Asked(c) : Covered(id)
  BY DEF WakeInv
<1>2. ASSUME UNCHANGED <<unseen, callers>>, \A id : Covered(id) => Covered(id)'
      PROVE  WakeInv'
  BY <1>1, <1>2 DEF WakeInv, Waiting, Asked
<1>3. CASE Start
  <2>1. RunningIds \subseteq RunningIds' /\ posts \subseteq posts'
    BY <1>3, StartFacts
  <2> QED BY <1>2, <1>3, <2>1 DEF Start
<1>4. CASE \E id \in DOMAIN jobs : Update(id)
  <2>1. RunningIds' = RunningIds /\ posts \subseteq posts'
    BY <1>4, SameStates DEF Update, registry
  <2> QED BY <1>2, <1>4, <2>1 DEF Update
<1>5. CASE \E id \in DOMAIN jobs, outcome \in Outcomes, clean \in SUBSET DOMAIN jobs : EndStep(id, outcome, clean)
  <2>1. PICK id \in RunningIds, outcome \in Outcomes, clean \in SUBSET DOMAIN jobs : EndStep(id, outcome, clean)
    BY <1>5 DEF EndStep
  <2>2. PICK n \in 0 .. Len(terminal_order) + 1, gone \in SUBSET DOMAIN jobs : Ended(id, outcome, clean, n, gone)
    BY <2>1, EndFacts DEF EndStep
  <2> DEFINE post == PostOf("finish", id, clean \cup {i \in gone : ~jobs[i].cleaned})
  <2>3. RunningIds' = RunningIds \ {id} /\ posts' = posts \cup {post}
    BY <2>2 DEF Ended
  <2>4. post.op = "finish" /\ post.id = id
    BY DEF PostOf
  <2> HIDE DEF post
  <2>5. \A i : Covered(i) => Covered(i)'
    BY <2>3, <2>4
  <2> QED BY <1>2, <2>1, <2>5 DEF EndStep
<1>6. CASE \E p \in posts : Post(p)
  <2>1. unseen' = Subscribed /\ callers' = callers
    BY <1>6 DEF Post
  <2> QED BY <2>1 DEF WakeInv, Waiting, Subscribed
<1>7. ASSUME NEW c \in Callers, Moves(c)
      PROVE  WakeInv'
  <2>1. /\ UNCHANGED <<registry, posts>> /\ RunningIds' = RunningIds
        /\ \A d \in Callers \ {c} : callers'[d] = callers[d]
        /\ callers \in [Callers -> Caller]
    BY <1>7, MovesType, SameStates DEF registry, TypeOK
  <2>2. \A id : Covered(id) => Covered(id)'
    BY <2>1
  <2>3. (Waiting \ {c}) \cap unseen \subseteq unseen'
    BY <1>7 DEF Moves, Wait, Cancel, Check, Return, StopWaiting, NextTarget, Sleep, Wake, Timeout,
                ShutdownNotify, Subscribed, Waiting
  <2>4. ASSUME NEW d \in Callers \ {c}, d \in (Waiting \ unseen)', NEW id \in Asked(d)'
        PROVE  Covered(id)'
    <3>1. d \in Waiting \ unseen /\ Asked(d)' = Asked(d)
      BY <2>1, <2>3, <2>4 DEF Waiting, Asked
    <3> QED BY <1>1, <2>2, <2>4, <3>1
  <2>5. ASSUME c \in (Waiting \ unseen)', NEW id \in Asked(c)'
        PROVE  Covered(id)'
    <3>1. callers'[c].pc \in {"looked", "asleep"} /\ c \notin unseen'
      BY <2>5 DEF Waiting
    <3>2. CASE Check(c)
      <4>1. callers' = [callers EXCEPT ![c].pc = "looked"] /\ Asked(c) \subseteq RunningIds
        <5>1. ~Return(c)
          BY <2>1, <3>1 DEF Return, Idle
        <5>2. ~StopWaiting(c, "not_found")
          BY <2>1, <3>1 DEF StopWaiting, Calling
        <5>3. ~NextTarget(c)
          BY <2>1, <3>1 DEF NextTarget, Caller
        <5> QED BY <3>2, <5>1, <5>2, <5>3 DEF Check
      <4>2. Asked(c)' = Asked(c)
        BY <2>1, <4>1 DEF Asked, Caller
      <4> QED BY <2>1, <2>5, <4>1, <4>2
    <3>3. CASE Sleep(c)
      <4>1. c \in Waiting \ unseen
        BY <3>1, <3>3 DEF Sleep, Waiting
      <4>2. Asked(c)' = Asked(c)
        BY <2>1, <3>3 DEF Sleep, Asked, Caller
      <4> QED BY <1>1, <2>2, <2>5, <4>1, <4>2
    <3>4. CASE ~Check(c) /\ ~Sleep(c)
      BY <1>7, <2>1, <3>1, <3>4
         DEF Moves, Wait, Cancel, Wake, Timeout, ShutdownNotify, Return, StopWaiting, Idle, Calling, Caller
    <3> QED BY <3>2, <3>3, <3>4
  <2> QED BY <2>4, <2>5 DEF WakeInv, Waiting
<1>8. ASSUME NEW c \in Callers, Marks(c)
      PROVE  WakeInv'
  <2>1. /\ posts' = posts /\ RunningIds' = RunningIds /\ callers \in [Callers -> Caller]
        /\ \A d \in Callers \ {c} : callers'[d] = callers[d]
    BY <1>8, MarksFacts, MarksType, SameStates DEF TypeOK
  <2>2. (Waiting \ {c}) \cap unseen \subseteq unseen' /\ c \notin Waiting'
    BY <1>8, <2>1 DEF Marks, SendCancel, Shutdown, CleanRetained, Subscribed, Waiting, Calling, Caller
  <2>3. ASSUME NEW d \in (Waiting \ unseen)', NEW id \in Asked(d)'
        PROVE  Covered(id)'
    <3>1. d \in Waiting \ unseen /\ Asked(d)' = Asked(d)
      BY <2>1, <2>2, <2>3 DEF Waiting, Asked
    <3> QED BY <1>1, <2>1, <2>3, <3>1
  <2> QED BY <2>3 DEF WakeInv
<1>9. CASE UNCHANGED vars
  <2>1. RunningIds' = RunningIds
    BY <1>9, SameStates DEF vars, registry
  <2> QED BY <1>2, <1>9, <2>1 DEF vars
<1> QED BY <1>3, <1>4, <1>5, <1>6, <1>7, <1>8, <1>9, NextCases

\* During a shutdown nothing starts, so whoever runs was asked to stop.
LEMMA AskedStep ==
    ASSUME TypeOK, Retention, AllAsked, [Next]_vars
    PROVE  AllAsked'
<1>1. ASSUME UNCHANGED <<jobs, shutting_down>>
      PROVE  AllAsked'
  BY <1>1 DEF AllAsked, RunningIds
<1>2. CASE Start
  BY <1>2 DEF Start, AllAsked
<1>3. CASE \E id \in DOMAIN jobs, outcome \in Outcomes, clean \in SUBSET DOMAIN jobs : EndStep(id, outcome, clean)
  <2>1. PICK id \in RunningIds, outcome \in Outcomes, clean \in SUBSET DOMAIN jobs : EndStep(id, outcome, clean)
    BY <1>3 DEF EndStep
  <2>2. PICK n \in 0 .. Len(terminal_order) + 1, gone \in SUBSET DOMAIN jobs : Ended(id, outcome, clean, n, gone)
    BY <2>1, EndFacts DEF EndStep
  <2>3. \A i \in RunningIds' : i \in RunningIds /\ jobs'[i] = jobs[i]
    <3>1. RunningIds' = RunningIds \ {id} /\ RunningIds' \subseteq DOMAIN jobs'
      BY <2>2 DEF Ended, RunningIds
    <3> QED BY <2>2, <3>1 DEF Ended
  <2> QED BY <2>1, <2>3 DEF EndStep, AllAsked
<1>4. ASSUME NEW c \in Callers, Marks(c)
      PROVE  AllAsked'
  <2>1. RunningIds' = RunningIds /\ RunningIds \subseteq DOMAIN jobs
    BY <1>4, MarksFacts, SameStates DEF RunningIds
  <2>2. CASE Shutdown(c)
    <3>1. \A id \in RunningIds : jobs[id] \in Job
      BY FiniteJobs DEF RunningIds
    <3> QED BY <2>1, <2>2, <3>1 DEF Shutdown, AllAsked, Job
  <2>3. CASE ~Shutdown(c)
    <3>1. shutting_down' = shutting_down
      BY <1>4, <2>3 DEF Marks, SendCancel, CleanRetained
    <3> QED BY <1>4, <2>1, <3>1, MarksFacts DEF AllAsked
  <2> QED BY <2>2, <2>3
<1>5. ASSUME NEW c \in Callers, Moves(c)
      PROVE  UNCHANGED <<jobs, shutting_down>>
  BY <1>5, MovesType DEF registry
<1>6. CASE (\E id \in DOMAIN jobs : Update(id)) \/ (\E p \in posts : Post(p)) \/ UNCHANGED vars
  BY <1>1, <1>6 DEF Update, Post, vars, registry
<1> QED BY <1>1, <1>2, <1>3, <1>4, <1>5, <1>6, NextCases

\* A call of shutdown that a step leaves alone stays covered, when no job
\* starts, ends or goes.
LEMMA ShutdownKept ==
    ASSUME NEW c \in Callers, callers[c].op = "shutdown" => ShutdownOf(c),
           callers'[c] = callers[c], shutting_down => shutting_down',
           RunningIds' = RunningIds, DOMAIN jobs' = DOMAIN jobs, terminal_order' = terminal_order
    PROVE  callers'[c].op = "shutdown" => ShutdownOf(c)'
BY DEF ShutdownOf

\* When a job ends, the targets of a shutdown stay retained.
LEMMA ShutdownEnd ==
    ASSUME TypeOK, Retention, NEW c \in Callers, ShutdownOf(c),
           NEW id \in RunningIds, NEW outcome \in Outcomes, NEW clean, EndStep(id, outcome, clean)
    PROVE  ShutdownOf(c)'
<1>1. PICK n \in 0 .. Len(terminal_order) + 1, gone \in SUBSET DOMAIN jobs : Ended(id, outcome, clean, n, gone)
  BY EndFacts DEF EndStep
<1> DEFINE order == Append(terminal_order, id)
           targets == callers[c].targets
           length == Len(terminal_order)
           running == Cardinality(RunningIds)
<1>2. UNCHANGED <<shutting_down, callers>>
  BY DEF EndStep
<1>3. /\ terminal_order \in Seq(Ids) /\ length \in Nat /\ order \in Seq(Ids)
      /\ \A i \in 1 .. length : order[i] = terminal_order[i]
      /\ order[length + 1] = id
  <2>1. id \in Ids
    BY FiniteJobs
  <2> QED BY <2>1, AppendProperties DEF TypeOK
<1>4. running \in Nat /\ running > 0 /\ running <= MaxRunning /\ Cardinality(RunningIds') = running - 1
  <2>1. IsFiniteSet(RunningIds) /\ running \in Nat /\ running <= MaxRunning
    BY FiniteJobs DEF Retention
  <2>2. Cardinality(RunningIds \ {id}) = running - 1 /\ running # 0
    BY <2>1, FS_RemoveElement, FS_EmptySet
  <2> QED BY <1>1, <2>1, <2>2 DEF Ended
<1>5. MaxRunning \in Nat /\ MaxTerminal \in Nat /\ MaxRunning <= MaxTerminal
  BY RegistryAssumption
<1> HIDE DEF order, length, running
<1>6. /\ gone = {order[i] : i \in 1 .. n} /\ n \in Nat /\ n <= length + 1
      /\ n > 0 => length + 1 - n = MaxTerminal
      /\ Len(terminal_order') = length + 1 - n /\ DOMAIN terminal_order' = 1 .. length + 1 - n
      /\ \A i \in 1 .. length + 1 - n : terminal_order'[i] = order[i + n]
      /\ RunningIds' = RunningIds \ {id} /\ DOMAIN jobs' = DOMAIN jobs \ gone
  <2>1. n \in 0 .. length + 1 /\ n \in Nat /\ n <= length + 1
    BY <1>3 DEF length
  <2>2. /\ gone = {order[i] : i \in 1 .. n} /\ (n > 0 => length + 1 - n = MaxTerminal)
        /\ Len(terminal_order') = length + 1 - n /\ terminal_order' \in Seq(Ids)
    BY <1>1 DEF Ended, order, length
  <2>3. \A i \in 1 .. length + 1 - n : terminal_order'[i] = order[i + n]
    BY <1>1 DEF Ended, order, length
  <2>4. RunningIds' = RunningIds \ {id} /\ DOMAIN jobs' = DOMAIN jobs \ gone
    BY <1>1 DEF Ended
  <2>5. DOMAIN terminal_order' = 1 .. length + 1 - n
    BY <2>2
  <2> QED BY <2>1, <2>2, <2>3, <2>4, <2>5
<1>7. \A i \in 1 .. length + 1 : order[i] \in targets => length + 1 - i + (running - 1) < MaxRunning
  <2> SUFFICES ASSUME NEW i \in 1 .. length + 1, order[i] \in targets
               PROVE  length + 1 - i + (running - 1) < MaxRunning
    OBVIOUS
  <2>1. CASE i = length + 1
    BY <1>3, <1>4, <1>5, <2>1
  <2>2. CASE i \in 1 .. length
    <3>1. terminal_order[i] \in targets /\ i \in DOMAIN terminal_order
      BY <1>3, <2>2 DEF length
    <3>2. length - i + running < MaxRunning
      BY <3>1 DEF ShutdownOf, length, running
    <3> QED BY <1>3, <1>4, <1>5, <2>2, <3>2
  <2> QED BY <1>3, <2>1, <2>2
<1>8. targets \cap gone = {}
  <2> SUFFICES ASSUME NEW i \in 1 .. n, order[i] \in targets
               PROVE  FALSE
    BY <1>6
  <2>1. i \in 1 .. length + 1 /\ length + 1 - n = MaxTerminal /\ i <= n
    BY <1>3, <1>6
  <2>2. length + 1 - i + (running - 1) < MaxRunning
    BY <1>7, <2>1
  <2> QED BY <1>3, <1>4, <1>5, <1>6, <2>1, <2>2
<1>9. ASSUME NEW k \in DOMAIN terminal_order', terminal_order'[k] \in targets
      PROVE  Len(terminal_order') - k + Cardinality(RunningIds') < MaxRunning
  <2>1. k + n \in 1 .. length + 1 /\ order[k + n] \in targets /\ k \in Nat
    BY SMTT(30), <1>3, <1>6, <1>9
  <2>2. length + 1 - (k + n) + (running - 1) < MaxRunning
    BY <1>7, <2>1
  <2> QED BY SMTT(30), <1>3, <1>4, <1>5, <1>6, <2>1, <2>2
<1> QED BY <1>2, <1>6, <1>8, <1>9 DEF ShutdownOf

\* Every shutdown keeps what it waits for.
LEMMA ShutdownStep ==
    ASSUME TypeOK, Retention, ShutdownInv, [Next]_vars
    PROVE  ShutdownInv'
<1>1. ASSUME callers' = callers, shutting_down => shutting_down', RunningIds' = RunningIds,
             DOMAIN jobs' = DOMAIN jobs, terminal_order' = terminal_order
      PROVE  ShutdownInv'
  BY <1>1, ShutdownKept DEF ShutdownInv
<1>2. CASE Start
  BY <1>2 DEF Start, ShutdownInv, ShutdownOf
<1>3. CASE (\E id \in DOMAIN jobs : Update(id)) \/ (\E p \in posts : Post(p)) \/ UNCHANGED vars
  <2>1. UNCHANGED <<jobs, callers, shutting_down, terminal_order>>
    BY <1>3 DEF Update, Post, vars, registry
  <2> QED BY <1>1, <2>1, SameStates
<1>4. CASE \E id \in DOMAIN jobs, outcome \in Outcomes, clean \in SUBSET DOMAIN jobs : EndStep(id, outcome, clean)
  <2>1. PICK id \in RunningIds, outcome \in Outcomes, clean \in SUBSET DOMAIN jobs : EndStep(id, outcome, clean)
    BY <1>4 DEF EndStep
  <2>2. callers' = callers
    BY <2>1 DEF EndStep
  <2> QED BY <2>1, <2>2, ShutdownEnd DEF ShutdownInv
<1>5. ASSUME NEW c \in Callers, Moves(c)
      PROVE  ShutdownInv'
  <2>1. /\ UNCHANGED <<jobs, shutting_down, terminal_order>>
        /\ RunningIds' = RunningIds /\ TerminalIds' = TerminalIds
        /\ \A d \in Callers \ {c} : callers'[d] = callers[d]
        /\ callers \in [Callers -> Caller] /\ callers[c] \in Caller
    BY <1>5, MovesType, SameStates DEF registry, TypeOK
  <2>2. \A d \in Callers \ {c} : callers'[d].op = "shutdown" => ShutdownOf(d)'
    BY <2>1, ShutdownKept DEF ShutdownInv
  <2>3. ASSUME callers'[c].op = "shutdown"
        PROVE  ShutdownOf(c)'
    <3>1. callers[c].op = "shutdown" /\ ShutdownOf(c)
      <4>1. callers[c].op = "shutdown"
        BY <1>5, <2>1, <2>3 DEF Moves, Wait, Cancel, Check, Return, StopWaiting, NextTarget, Sleep,
                                Wake, Timeout, ShutdownNotify, Idle, Calling, Caller
      <4> QED BY <4>1 DEF ShutdownInv
    <3>2. ~Return(c) /\ ~(\E ids \in Requests : Wait(c, ids)) /\ ~(\E id \in 0 .. MaxId - 1 : Cancel(c, id))
      BY <2>1, <2>3 DEF Return, Wait, Cancel, Idle, Calling
    <3>3. ASSUME NEW pc \in {"check", "looked", "asleep"}, callers' = [callers EXCEPT ![c].pc = pc],
                 callers[c].pc # "done"
          PROVE  ShutdownOf(c)'
      <4>1. callers'[c] = [callers[c] EXCEPT !.pc = pc]
        BY <2>1, <3>3
      <4> QED BY <2>1, <3>1, <3>3, <4>1 DEF ShutdownOf, Caller
    <3>4. CASE Sleep(c) \/ Wake(c)
      BY <3>3, <3>4 DEF Sleep, Wake
    <3>5. CASE ShutdownNotify(c)
      <4>1. CASE callers[c].targets = {}
        <5>1. callers'[c] = [callers[c] EXCEPT !.pc = "clean"]
          BY <2>1, <3>5, <4>1 DEF ShutdownNotify
        <5> QED BY <2>1, <3>1, <3>5, <4>1, <5>1 DEF ShutdownOf, Caller, ShutdownNotify
      <4>2. CASE callers[c].targets # {}
        BY <3>3, <3>5, <4>2 DEF ShutdownNotify
      <4> QED BY <4>1, <4>2
    <3>6. CASE Timeout(c)
      <4>1. callers'[c] = [Calling("shutdown", "clean", {}) EXCEPT !.result = "timeout"]
        BY <2>1, <3>1, <3>6 DEF Timeout, StopWaiting
      <4> QED BY <2>1, <3>1, <4>1 DEF ShutdownOf, Calling
    <3>7. CASE Check(c)
      <4>1. Asked(c) \subseteq callers[c].targets /\ \A i, j \in Asked(c) : i = j
        <5>1. callers[c].targets \subseteq Ids
          BY <2>1 DEF Caller
        <5> QED BY <3>1, <5>1, RegistryAssumption DEF Asked, Ids
      <4>2. Asked(c) \subseteq DOMAIN jobs
        BY <3>1, <4>1 DEF ShutdownOf
      <4>3. CASE callers' = [callers EXCEPT ![c].pc = "looked"]
        BY <3>3, <3>7, <4>3 DEF Check
      <4>4. CASE NextTarget(c) /\ Asked(c) \cap TerminalIds # {}
        <5> DEFINE rest == callers[c].targets \ Asked(c)
        <5>1. callers'[c] = [callers[c] EXCEPT !.pc = IF rest = {} THEN "clean" ELSE "check",
                                               !.targets = rest]
          BY <2>1, <4>4 DEF NextTarget
        <5>2. /\ callers'[c].targets = rest /\ callers'[c].result = callers[c].result
              /\ callers'[c].pc = IF rest = {} THEN "clean" ELSE "check"
          BY <2>1, <5>1 DEF Caller
        <5>3. RunningIds \cap Asked(c) = {}
          BY <4>1, <4>4 DEF TerminalIds
        <5>4. callers[c].result # "ok"
          BY <3>1, <3>7 DEF ShutdownOf, Check
        <5>5. rest \subseteq callers[c].targets
              /\ (RunningIds \subseteq callers[c].targets => RunningIds \subseteq rest)
          BY <5>3
        <5> HIDE DEF rest
        <5>6. callers'[c].pc \in {"clean", "done"} => callers'[c].targets = {}
          BY <5>2
        <5>7. /\ shutting_down' /\ callers'[c].result # "not_found" /\ callers'[c].result # "ok"
              /\ callers'[c].result \in {"none", "ok"} => RunningIds' \subseteq callers'[c].targets
              /\ callers'[c].targets \subseteq DOMAIN jobs'
          BY <2>1, <3>1, <5>2, <5>4, <5>5 DEF ShutdownOf
        <5>8. ASSUME NEW k \in DOMAIN terminal_order', terminal_order'[k] \in callers'[c].targets
              PROVE  Len(terminal_order') - k + Cardinality(RunningIds') < MaxRunning
          BY <2>1, <3>1, <5>2, <5>5, <5>8 DEF ShutdownOf
        <5> QED BY <5>6, <5>7, <5>8 DEF ShutdownOf
      <4> QED BY <3>1, <3>7, <4>2, <4>3, <4>4 DEF Check
    <3> QED BY <1>5, <3>2, <3>4, <3>5, <3>6, <3>7 DEF Moves
  <2> QED BY <2>2, <2>3 DEF ShutdownInv
<1>6. ASSUME NEW c \in Callers, Marks(c)
      PROVE  ShutdownInv'
  <2>1. /\ RunningIds' = RunningIds /\ DOMAIN jobs' = DOMAIN jobs /\ terminal_order' = terminal_order
        /\ \A d \in Callers \ {c} : callers'[d] = callers[d]
        /\ callers \in [Callers -> Caller] /\ callers[c] \in Caller
    BY <1>6, MarksFacts, MarksType, SameStates DEF TypeOK
  <2>2. shutting_down => shutting_down'
    BY <1>6 DEF Marks, SendCancel, Shutdown, CleanRetained
  <2>3. \A d \in Callers \ {c} : callers'[d].op = "shutdown" => ShutdownOf(d)'
    BY <2>1, <2>2, ShutdownKept DEF ShutdownInv
  <2>4. CASE SendCancel(c)
    BY <2>1, <2>3, <2>4 DEF SendCancel, ShutdownInv, Caller
  <2>5. CASE Shutdown(c)
    <3>1. callers'[c] = Calling("shutdown", "notify", RunningIds) /\ shutting_down'
      BY <2>1, <2>5 DEF Shutdown
    <3>2. RunningIds \subseteq DOMAIN jobs
      BY DEF RunningIds
    <3>3. \A k \in DOMAIN terminal_order : terminal_order[k] \notin RunningIds
      BY DEF Retention, Elements, TerminalIds
    <3>4. ShutdownOf(c)'
      BY <2>1, <3>1, <3>2, <3>3 DEF ShutdownOf, Calling
    <3> QED BY <2>3, <3>4 DEF ShutdownInv
  <2>6. CASE CleanRetained(c)
    <3>1. ASSUME callers'[c].op = "shutdown"
          PROVE  ShutdownOf(c)'
      <4>1. /\ callers[c].op = "shutdown" /\ callers[c].pc = "clean"
            /\ callers'[c].pc = "done" /\ callers'[c].targets = callers[c].targets
            /\ callers'[c].result = IF callers[c].result = "none" THEN "ok" ELSE callers[c].result
        BY <2>1, <2>6, <3>1 DEF CleanRetained, Caller
      <4>2. ShutdownOf(c)
        BY <4>1 DEF ShutdownInv
      <4> QED BY <2>1, <2>2, <4>1, <4>2 DEF ShutdownOf
    <3> QED BY <2>3, <3>1 DEF ShutdownInv
  <2> QED BY <1>6, <2>4, <2>5, <2>6 DEF Marks
<1> QED BY <1>2, <1>3, <1>4, <1>5, <1>6, NextCases

\* Logs stay with the jobs that own them, and go with them.
LEMMA LogStep ==
    ASSUME TypeOK, Retention, LogInv, [Next]_vars
    PROVE  LogInv'
<1> DEFINE Kept == \A id \in DOMAIN jobs :
                      ~jobs[id].cleaned /\ jobs[id].state # "failed" => id \in logs
           Owned == \A id \in logs : \/ id \in DOMAIN jobs /\ ~jobs[id].cleaned
                                     \/ \E p \in posts : id \in p.clean
           Due == \A p \in posts : \A id \in p.clean :
                      /\ id < next_id
                      /\ id \in DOMAIN jobs => jobs[id].cleaned \/ jobs[id].state = "failed"
<1>1. Kept /\ Owned /\ Due
  BY DEF LogInv, LogsFollowJobs
<1>2. ASSUME Kept', Owned', Due'
      PROVE  LogInv'
  BY <1>2 DEF LogInv, LogsFollowJobs
<1>3. ASSUME UNCHANGED <<jobs, logs, posts, next_id>>
      PROVE  LogInv'
  BY <1>1, <1>2, <1>3
<1>4. CASE Start
  <2>1. /\ posts' = posts \cup {PostOf("start", next_id, {})} /\ PostOf("start", next_id, {}).clean = {}
        /\ logs' = logs \cup {next_id} /\ next_id' = next_id + 1 /\ next_id \in Nat
        /\ DOMAIN jobs' = DOMAIN jobs \cup {next_id} /\ next_id \notin DOMAIN jobs
        /\ \A id \in DOMAIN jobs : jobs'[id] = jobs[id]
        /\ ~jobs'[next_id].cleaned
    BY <1>4, StartFacts DEF Start, PostOf, TypeOK
  <2>2. Kept'
    BY <1>1, <2>1
  <2>3. Owned'
    BY <1>1, <2>1
  <2>4. Due'
    <3> SUFFICES ASSUME NEW p \in posts', NEW id \in p.clean
                 PROVE  /\ id < next_id'
                        /\ id \in DOMAIN jobs' => jobs'[id].cleaned \/ jobs'[id].state = "failed"
      OBVIOUS
    <3>1. p \in posts /\ id < next_id /\ id \in Nat
      BY <1>1, <2>1 DEF TypeOK, Posts, Ids
    <3> QED BY <1>1, <2>1, <3>1
  <2> QED BY <1>2, <2>2, <2>3, <2>4
<1>5. CASE \E id \in DOMAIN jobs : Update(id)
  <2>1. PICK id \in DOMAIN jobs : Update(id)
    BY <1>5
  <2> DEFINE post == PostOf("update", id, IF jobs[id].cleaned THEN {id} ELSE {})
  <2>2. /\ posts' = posts \cup {post} /\ UNCHANGED <<jobs, next_id, logs>>
        /\ post.clean = IF jobs[id].cleaned THEN {id} ELSE {}
    BY <2>1 DEF Update, registry, PostOf
  <2>3. id < next_id
    BY DEF TypeOK
  <2> HIDE DEF post
  <2> QED BY <1>1, <1>2, <2>2, <2>3
<1>6. CASE \E id \in DOMAIN jobs, outcome \in Outcomes, clean \in SUBSET DOMAIN jobs : EndStep(id, outcome, clean)
  <2>1. PICK id \in RunningIds, outcome \in Outcomes, clean \in SUBSET DOMAIN jobs : EndStep(id, outcome, clean)
    BY <1>6 DEF EndStep
  <2>2. PICK n \in 0 .. Len(terminal_order) + 1, gone \in SUBSET DOMAIN jobs : Ended(id, outcome, clean, n, gone)
    BY <2>1, EndFacts DEF EndStep
  <2> DEFINE post == PostOf("finish", id, clean \cup {i \in gone : ~jobs[i].cleaned})
  <2>3. /\ posts' = posts \cup {post} /\ post.clean = clean \cup {i \in gone : ~jobs[i].cleaned}
        /\ gone \subseteq DOMAIN jobs /\ DOMAIN jobs' = DOMAIN jobs \ gone
        /\ id \in DOMAIN jobs /\ \A i \in DOMAIN jobs : jobs[i] \in Job
    BY <2>2, FiniteJobs DEF Ended, PostOf, RunningIds, TerminalIds
  <2>4. /\ UNCHANGED <<logs, next_id>> /\ clean \subseteq {id} /\ jobs[id].state = "running"
        /\ id \in clean => jobs[id].cleaned \/ outcome = "failed"
        /\ jobs[id].cleaned => id \in clean
    BY <2>1 DEF EndStep, RunningIds
  <2>5. /\ \A i \in DOMAIN jobs' : jobs'[i].cleaned = jobs[i].cleaned
        /\ \A i \in DOMAIN jobs' \ {id} : jobs'[i].state = jobs[i].state
        /\ id \in DOMAIN jobs' => jobs'[id].state = outcome
    BY ZenonT(60), <2>2, <2>3 DEF Ended, Job
  <2>6. "failed" # "running" /\ \A i \in DOMAIN jobs : i < next_id
    BY DEF TypeOK
  <2> HIDE DEF post
  <2>7. Kept'
    BY <1>1, <2>3, <2>4, <2>5, <2>6
  <2>8. Owned'
    BY <1>1, <2>3, <2>4, <2>5
  <2>9. Due'
    BY <1>1, <2>3, <2>4, <2>5, <2>6
  <2> QED BY <1>2, <2>7, <2>8, <2>9
<1>7. CASE \E p \in posts : Post(p)
  <2>1. PICK p \in posts : Post(p)
    BY <1>7
  <2>2. posts' = posts \ {p} /\ logs' = logs \ p.clean /\ UNCHANGED <<jobs, next_id>>
    BY <2>1 DEF Post, registry
  <2>3. Kept' /\ Owned' /\ Due'
    BY <1>1, <2>2
  <2> QED BY <1>2, <2>3
<1>8. ASSUME NEW c \in Callers, Moves(c)
      PROVE  LogInv'
  BY <1>3, <1>8, MovesType DEF registry
<1>9. ASSUME NEW c \in Callers, Marks(c)
      PROVE  LogInv'
  <2>1. /\ DOMAIN jobs' = DOMAIN jobs /\ UNCHANGED <<posts, next_id>>
        /\ \A id \in DOMAIN jobs : /\ jobs'[id].state = jobs[id].state
                                   /\ jobs[id].cleaned => jobs'[id].cleaned
    BY <1>9, MarksFacts
  <2>2. Due'
    BY <1>1, <2>1
  <2>3. Kept' /\ Owned'
    <3>1. CASE CleanRetained(c)
      <4>1. logs' = logs \ {id \in DOMAIN jobs : ~jobs[id].cleaned}
            /\ \A id \in DOMAIN jobs : jobs'[id].cleaned
        BY <3>1, FiniteJobs DEF CleanRetained, Job
      <4> QED BY <1>1, <2>1, <4>1
    <3>2. CASE ~CleanRetained(c)
      <4>1. logs' = logs /\ \A id \in DOMAIN jobs : jobs'[id].cleaned = jobs[id].cleaned
        BY <1>9, <3>2, MarksFacts
      <4> QED BY <1>1, <2>1, <4>1
    <3> QED BY <3>1, <3>2
  <2> QED BY <1>2, <2>2, <2>3
<1>10. CASE UNCHANGED vars
  BY <1>3, <1>10 DEF vars, registry
<1> QED BY <1>4, <1>5, <1>6, <1>7, <1>8, <1>9, <1>10, NextCases

-----------------------------------------------------------------------------
(***************************************************************************)
(* The theorems.                                                           *)
(***************************************************************************)

\* The empty registry satisfies the invariant.
LEMMA InitInv ==
    ASSUME Init
    PROVE  RegistryInv
<1>1. RunningIds = {} /\ TerminalIds = {} /\ DOMAIN jobs = {} /\ DOMAIN terminal_order = {}
  BY DEF Init, RunningIds, TerminalIds
<1>2. TypeOK
  <2>1. Idle \in Caller
    BY DEF Idle, Caller
  <2>2. jobs \in [DOMAIN jobs -> Job]
    BY <1>1 DEF Init
  <2>3. next_id \in 0 .. MaxId /\ terminal_order \in Seq(Ids)
    BY RegistryAssumption DEF Init
  <2>4. callers \in [Callers -> Caller]
    BY <2>1 DEF Init
  <2> QED BY <1>1, <2>2, <2>3, <2>4 DEF Init, TypeOK
<1>3. Retention
  <2>1. Cardinality(RunningIds) = 0
    BY <1>1, FS_EmptySet
  <2> QED BY <1>1, <2>1, RegistryAssumption DEF Init, Retention, Elements
<1>4. WakeInv /\ ShutdownInv
  BY DEF Init, WakeInv, Waiting, ShutdownInv, Idle
<1>5. AllAsked /\ LogInv
  BY <1>1 DEF Init, AllAsked, LogInv, LogsFollowJobs
<1> QED BY <1>2, <1>3, <1>4, <1>5 DEF RegistryInv

\* The invariant holds in every reachable state.
THEOREM RegistrySafety == Spec => []RegistryInv
<1>1. RegistryInv /\ [Next]_vars => RegistryInv'
  BY TypeStep, WakeStep, AskedStep, ShutdownStep, LogStep DEF RegistryInv
<1> QED BY <1>1, InitInv, PTL DEF Spec

\* Every variable keeps its type, and no identifier is out of the counter's reach.
THEOREM RegistryTypes == Spec => []TypeOK
<1>1. RegistryInv => TypeOK
  BY DEF RegistryInv
<1> QED BY <1>1, RegistrySafety, PTL

\* The queue of ended jobs names each retained one once, and the limits hold.
THEOREM RetentionHolds == Spec => []Retention
<1>1. RegistryInv => Retention
  BY DEF RegistryInv
<1> QED BY <1>1, RegistrySafety, PTL

\* No end is lost between a waiter's look and its sleep.
THEOREM NoWakeupIsLost == Spec => []NoLostWakeup
<1>1. RegistryInv => NoLostWakeup
  BY DEF RegistryInv, WakeInv, NoLostWakeup, Waiting
<1> QED BY <1>1, RegistrySafety, PTL

\* No shutdown fails for an evicted job.
THEOREM ShutdownAlwaysFinds == Spec => []ShutdownFindsItsJobs
<1>1. RegistryInv => ShutdownFindsItsJobs
  BY DEF RegistryInv, ShutdownInv, ShutdownOf, ShutdownFindsItsJobs
<1> QED BY <1>1, RegistrySafety, PTL

\* A shutdown asks every job to stop, and succeeds only when all have.
THEOREM ShutdownStopsEveryJob == Spec => []ShutdownStopsAll
<1>1. ASSUME RegistryInv PROVE ShutdownStopsAll
  <2>1. ASSUME NEW c \in Callers, callers[c].op = "shutdown", callers[c].result = "ok"
        PROVE  RunningIds = {}
    BY <1>1, <2>1 DEF RegistryInv, ShutdownInv, ShutdownOf
  <2> QED BY <1>1, <2>1 DEF RegistryInv, AllAsked, ShutdownStopsAll
<1> QED BY <1>1, RegistrySafety, PTL

\* The logs of retained jobs stay, and no other log does.
THEOREM LogsAlwaysFollowJobs == Spec => []LogsFollowJobs
<1>1. RegistryInv => LogsFollowJobs
  BY DEF RegistryInv, LogInv
<1> QED BY <1>1, RegistrySafety, PTL

\* No outcome changes, no request to stop is withdrawn, no job returns.
THEOREM OutcomesNeverChange == Spec => OutcomesAreFinal
<1> DEFINE Final == \A id \in DOMAIN jobs' :
        IF id \in DOMAIN jobs
        THEN /\ id \in TerminalIds => jobs'[id].state = jobs[id].state
             /\ jobs[id].cancelling => jobs'[id].cancelling
        ELSE id >= next_id
<1>1. ASSUME RegistryInv, [Next]_vars
      PROVE  Final
  <2>1. TypeOK /\ Retention
    BY <1>1 DEF RegistryInv
  <2>2. CASE jobs' = jobs
    BY <2>2
  <2>3. CASE Start
    <3>1. next_id >= next_id
      BY <2>1, RegistryAssumption DEF TypeOK
    <3> QED BY <2>1, <2>3, <3>1, StartFacts
  <2>4. CASE \E id \in DOMAIN jobs, outcome \in Outcomes, clean \in SUBSET DOMAIN jobs : EndStep(id, outcome, clean)
    <3>1. PICK id \in RunningIds, outcome \in Outcomes, clean \in SUBSET DOMAIN jobs : EndStep(id, outcome, clean)
      BY <2>4 DEF EndStep
    <3>2. PICK n \in 0 .. Len(terminal_order) + 1, gone \in SUBSET DOMAIN jobs : Ended(id, outcome, clean, n, gone)
      BY <2>1, <3>1, EndFacts DEF EndStep
    <3>3. id \notin TerminalIds /\ DOMAIN jobs' \subseteq DOMAIN jobs /\ jobs[id] \in Job
      BY <2>1, <3>2, FiniteJobs DEF Ended, TerminalIds, RunningIds
    <3>4. \A i \in DOMAIN jobs' : /\ i # id => jobs'[i] = jobs[i]
                                 /\ jobs'[i].cancelling = jobs[i].cancelling
      BY <3>2, <3>3 DEF Ended, Job
    <3> QED BY <3>3, <3>4
  <2>5. CASE \E c \in Callers : Marks(c)
    BY <2>1, <2>5, MarksFacts
  <2>6. CASE \E c \in Callers : Moves(c)
    BY <2>1, <2>2, <2>6, MovesType DEF registry
  <2>7. CASE (\E id \in DOMAIN jobs : Update(id)) \/ (\E p \in posts : Post(p)) \/ UNCHANGED vars
    BY <2>2, <2>7 DEF Update, Post, vars, registry
  <2> QED BY <1>1, <2>3, <2>4, <2>5, <2>6, <2>7, NextCases
<1>2. Spec => [][Final]_vars
  <2>1. RegistryInv /\ [Next]_vars => [Final]_vars
    BY <1>1
  <2> QED BY <2>1, RegistrySafety, PTL DEF Spec
<1> QED BY <1>2 DEF OutcomesAreFinal
=============================================================================
