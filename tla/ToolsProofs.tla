---------------------------- MODULE ToolsProofs -----------------------------
(***************************************************************************)
(* The tools, for every value of the constants.  A job shows all that its  *)
(* processes wrote and leaves none of its group behind, for any number of  *)
(* processes, pipes and lines; then, by induction over lines, anchors      *)
(* follow lines; and an agent replaces only what its session has seen.     *)
(***************************************************************************)
EXTENDS BashSupervisor, FileTools, FiniteSetTheorems, SequenceTheorems, WellFoundedInduction, TLAPS

\* Where the supervisor, the job and the call are with each other.
Stopped == {"cancelled", "timeout", "capture"}
StageInv ==
    /\ call = "none" => supervisor = "none"
    /\ supervisor = "none" => job = "none"
    /\ supervisor = "spawn" => job = "running"
    /\ Settled => supervisor = "done"
    /\ supervisor \in {"stop", "reap"} => outcome \in Stopped
    /\ supervisor = "read" => outcome \in Stopped \cup {"exited"}

\* Lines are in the pipe or shown; at the end of file nobody can write.
LinesInv ==
    /\ unread \in [Pipes -> Nat] /\ written \in [Pipes -> Nat] /\ published \in [Pipes -> Nat]
    /\ readers = [p \in Pipes |-> readers[p]]
    /\ \A p \in Pipes : written[p] = unread[p] + published[p]
    /\ \A p \in Pipes : readers[p] = "ended" => unread[p] = 0 /\ Holders(p) = {}
    /\ job \in {"completed", "cancelled"} => \A p \in Pipes : readers[p] = "ended"

\* Each process is a record; a group that was stopped stays empty, and the shell
\* that was reaped stays gone.
GroupInv ==
    /\ processes \in [Processes -> Process]
    /\ outcome \in Stopped /\ supervisor \in {"reap", "read", "done"} => Group = {}
    /\ supervisor = "read" \/ (supervisor = "done" /\ outcome # "unstarted")
            => processes[Shell].state = "gone"

SupervisorInv == StageInv /\ LinesInv /\ GroupInv

-----------------------------------------------------------------------------
(* The processes *)

\* A step that gives no process more than it had, and starts none.
Fewer(table) ==
    \A q \in Processes : table[q].state = "running" =>
        /\ processes[q].state = "running" /\ table[q].holds \subseteq processes[q].holds
        /\ table[q].group => processes[q].group

LEMMA FewerKeeps ==
    ASSUME processes \in [Processes -> Process], Fewer(processes')
    PROVE  /\ Group' \subseteq Group
           /\ \A p \in Pipes : Holders(p)' \subseteq Holders(p)
  BY DEF Fewer, Group, Holders

LEMMA AfterFacts ==
    ASSUME processes \in [Processes -> Process],
           NEW killed, killed \subseteq Processes,
           \A q \in killed : processes[q].state = "running",
           processes' = After(killed)
    PROVE  /\ processes' \in [Processes -> Process] /\ Fewer(processes')
           /\ \A q \in killed : processes'[q].state # "running"
           /\ processes[Shell].state = "gone" => processes'[Shell].state = "gone"
<1>1. \A q \in Processes :
        processes'[q] = IF q \in killed
                        THEN [NoProcess EXCEPT !.state = IF q = Shell THEN "zombie" ELSE "gone"]
                        ELSE processes[q]
  BY DEF After
<1>2. ASSUME NEW state \in {"zombie", "gone"}
      PROVE  [NoProcess EXCEPT !.state = state] \in Process
             /\ [NoProcess EXCEPT !.state = state].state = state
  BY DEF NoProcess, Process
<1>3. \A q \in killed :
        processes'[q] \in Process /\ processes'[q].state \in {"zombie", "gone"}
  BY <1>1, <1>2
<1>4. \A q \in Processes \ killed : processes'[q] = processes[q]
  BY <1>1
<1>5. processes' = [q \in Processes |-> processes'[q]]
  BY DEF After
<1>6. processes' \in [Processes -> Process]
  BY <1>3, <1>4, <1>5
<1>7. Fewer(processes')
  BY <1>3, <1>4 DEF Fewer
<1>8. Shell \in Processes
  BY DEF Processes
<1> QED
  BY <1>3, <1>4, <1>6, <1>7, <1>8

LEMMA ReapedFacts ==
    ASSUME processes \in [Processes -> Process],
           processes[Shell].state \in {"zombie", "gone"},
           processes' = Reaped(processes)
    PROVE  /\ processes' \in [Processes -> Process] /\ Fewer(processes')
           /\ processes'[Shell].state = "gone"
<1>1. Shell \in Processes /\ processes[Shell] \in Process
  BY DEF Processes
<1>2. [processes[Shell] EXCEPT !.state = "gone"] \in Process
  BY <1>1 DEF Process
<1>3. [processes[Shell] EXCEPT !.state = "gone"].state = "gone"
  BY <1>1 DEF Process
<1>4. /\ processes' \in [Processes -> Process] /\ processes'[Shell].state = "gone"
      /\ \A q \in Processes : q # Shell => processes'[q] = processes[q]
  BY <1>1, <1>2, <1>3 DEF Reaped
<1> QED
  BY <1>1, <1>4 DEF Fewer

-----------------------------------------------------------------------------
(* The steps *)

LEMMA CallKeeps ==
    ASSUME SupervisorInv, Call
    PROVE  SupervisorInv'
<1>1. /\ UNCHANGED <<outcome, processes, capture, output>>
      /\ \/ UNCHANGED <<job, supervisor>>
         \/ call' = "starting" /\ job' = "running" /\ supervisor' = "spawn"
      /\ call' # "none" \/ call' = call
  BY DEF Call, Bash, BashRefused, Started, Waited, Dropped,
         RequestCancel
<1>2. StageInv'
  BY <1>1 DEF SupervisorInv, StageInv, Settled
<1>3. LinesInv'
  BY <1>1 DEF SupervisorInv, LinesInv, Holders, capture, output
<1>4. GroupInv'
  BY <1>1 DEF SupervisorInv, GroupInv, Group
<1> QED
  BY <1>2, <1>3, <1>4 DEF SupervisorInv

\* A step of the supervisor on the processes.
LEMMA StopsKeep ==
    ASSUME SupervisorInv, UNCHANGED <<call, job, capture, output>>,
           job \notin {"completed", "cancelled"},
           processes' \in [Processes -> Process], Fewer(processes'),
           ~Settled, supervisor \notin {"none", "spawn"},
           supervisor' \in {"select", "stop", "reap", "read"},
           supervisor' \in {"stop", "reap"} => outcome' \in Stopped,
           supervisor' = "read" => outcome' \in Stopped \cup {"exited"},
           supervisor' \in {"reap", "read"} /\ outcome' \in Stopped => Group' = {},
           supervisor' = "read" => processes'[Shell].state = "gone"
    PROVE  SupervisorInv'
<1>1. StageInv'
  BY DEF SupervisorInv, StageInv, Settled
<1>2. \A p \in Pipes : Holders(p)' \subseteq Holders(p)
  BY FewerKeeps DEF SupervisorInv, GroupInv
<1>3. LinesInv'
  BY <1>2 DEF SupervisorInv, LinesInv, capture, output
<1>4. GroupInv'
  BY DEF SupervisorInv, GroupInv
<1> QED
  BY <1>1, <1>3, <1>4 DEF SupervisorInv

LEMMA SuperviseKeeps ==
    ASSUME SupervisorInv, Supervise
    PROVE  SupervisorInv'
<1>1. /\ processes \in [Processes -> Process] /\ Shell \in Processes
      /\ Group \subseteq Processes /\ \A q \in Group : processes[q].state = "running"
  BY DEF SupervisorInv, GroupInv, Group, Processes
<1>2. supervisor \in {"select", "stop", "reap", "read"} =>
        ~Settled /\ job \notin {"completed", "cancelled"}
  BY DEF SupervisorInv, StageInv, Settled
<1>3. CASE SpawnFails
  <2>1. /\ supervisor = "spawn" /\ supervisor' = "done"
        /\ outcome' = "unstarted" /\ job' = "failed"
        /\ UNCHANGED <<call, processes, capture, output>>
    BY <1>3 DEF SpawnFails
  <2>2. StageInv'
    BY <2>1 DEF SupervisorInv, StageInv, Settled, Stopped
  <2>3. LinesInv'
    BY <2>1 DEF SupervisorInv, LinesInv, Holders, capture, output
  <2>4. GroupInv'
    BY <2>1 DEF SupervisorInv, GroupInv, Stopped
  <2> QED
    BY <2>2, <2>3, <2>4 DEF SupervisorInv
<1>4. CASE Spawn
  <2> DEFINE shell == [state |-> "running", group |-> TRUE, holds |-> Pipes]
  <2>1. /\ supervisor = "spawn" /\ supervisor' = "select"
        /\ readers' = [p \in Pipes |-> "reading"]
        /\ processes' = [processes EXCEPT ![Shell] = shell]
        /\ UNCHANGED <<call, job, outcome, published, failures, output>>
    BY <1>4 DEF Spawn
  <2>2. shell \in Process
    BY DEF Process
  <2>3. StageInv'
    BY <2>1 DEF SupervisorInv, StageInv, Settled
  <2>4. LinesInv'
    BY <2>1 DEF SupervisorInv, LinesInv, StageInv, output
  <2> HIDE DEF shell
  <2>5. GroupInv'
    BY <1>1, <2>1, <2>2 DEF GroupInv
  <2> QED
    BY <2>3, <2>4, <2>5 DEF SupervisorInv
<1>5. CASE Exited
  <2>1. /\ Fewer(processes')
        /\ processes' \in [Processes -> Process]
        /\ processes'[Shell].state = "gone"
    BY <1>1, <1>5, ReapedFacts DEF Exited
  <2> QED
    BY <1>2, <1>5, <2>1, StopsKeep DEF Exited, Stopped
<1>6. ASSUME NEW reason \in Stopped, Stop(reason) PROVE SupervisorInv'
  <2>1. PICK surviving \in SUBSET Group : processes' = After(Group \ surviving)
    BY <1>6 DEF Stop
  <2>2. Fewer(processes') /\ processes' \in [Processes -> Process]
    BY <1>1, <2>1, AfterFacts
  <2> QED
    BY <1>2, <1>6, <2>2, StopsKeep DEF Stop
<1>7. CASE Poll
  <2>1. /\ Fewer(processes')
        /\ processes' \in [Processes -> Process]
        /\ processes'[Shell].state = "gone"
    BY <1>1, <1>7, ReapedFacts DEF Poll
  <2>2. Group = {} => Group' = {}
    BY <1>1, <2>1, FewerKeeps
  <2>3. outcome \in Stopped
    BY <1>7 DEF Poll, SupervisorInv, StageInv
  <2> QED
    BY <1>2, <1>7, <2>1, <2>2, <2>3, StopsKeep DEF Poll
<1>8. CASE Deadline
  <2>1. /\ Fewer(processes') /\ processes' \in [Processes -> Process]
        /\ \A q \in Group : processes'[q].state # "running"
        /\ processes[Shell].state = "gone" => processes'[Shell].state = "gone"
    BY <1>1, <1>8, AfterFacts DEF Deadline
  <2>2. Group' = {}
    BY <1>1, <2>1 DEF Group, Fewer
  <2>3. outcome \in Stopped
    BY <1>8 DEF Deadline, SupervisorInv, StageInv
  <2> QED
    BY <1>2, <1>8, <2>1, <2>2, <2>3, StopsKeep DEF Deadline
<1>9. CASE Reap
  <2>1. /\ Fewer(processes')
        /\ processes' \in [Processes -> Process]
        /\ processes'[Shell].state = "gone"
    BY <1>1, <1>9, ReapedFacts DEF Reap
  <2>2. outcome \in Stopped /\ Group = {}
    BY <1>9 DEF Reap, SupervisorInv, StageInv, GroupInv
  <2>3. Group' = {}
    BY <1>1, <2>1, <2>2, FewerKeeps
  <2> QED
    BY <1>2, <1>9, <2>1, <2>2, <2>3, StopsKeep DEF Reap
<1>10. ASSUME NEW flushed \in BOOLEAN, Finish(flushed) PROVE SupervisorInv'
  <2>1. /\ supervisor = "read" /\ supervisor' = "done"
        /\ UNCHANGED <<call, outcome, processes, readers, published, output>>
        /\ job' # "failed" => \A p \in Pipes : readers[p] = "ended"
    BY <1>10 DEF Finish
  <2>2. StageInv'
    BY <2>1 DEF SupervisorInv, StageInv
  <2>3. LinesInv'
    BY <2>1 DEF SupervisorInv, LinesInv, Holders, output
  <2>4. GroupInv'
    BY <2>1 DEF SupervisorInv, GroupInv, Group
  <2> QED
    BY <2>2, <2>3, <2>4 DEF SupervisorInv
<1> QED
  BY <1>3, <1>4, <1>5, <1>6, <1>7, <1>8, <1>9, <1>10 DEF Supervise, Stopped

LEMMA ReadKeeps ==
    ASSUME SupervisorInv, NEW p \in Pipes, Read(p)
    PROVE  SupervisorInv'
<1>1. UNCHANGED <<tasks, processes, written>>
  BY DEF Read, PublishLine, ReadEnds, ReadFails, output
<1>2. StageInv' /\ GroupInv'
  BY <1>1 DEF SupervisorInv, StageInv, GroupInv, Settled, Group, tasks
<1>3. /\ unread \in [Pipes -> Nat] /\ published \in [Pipes -> Nat] /\ written \in [Pipes -> Nat]
      /\ \A q \in Pipes : written[q] = unread[q] + published[q]
  BY DEF SupervisorInv, LinesInv
<1>4. CASE PublishLine(p)
  <2>1. /\ readers[p] = "reading" /\ unread[p] > 0 /\ readers' = readers
        /\ unread' = [unread EXCEPT ![p] = unread[p] - 1]
        /\ published' = [published EXCEPT ![p] = published[p] + 1]
    BY <1>4 DEF PublishLine
  <2>2. /\ unread' \in [Pipes -> Nat] /\ published' \in [Pipes -> Nat]
        /\ \A q \in Pipes : written[q] = unread'[q] + published'[q]
    BY <1>3, <2>1
  <2>3. LinesInv'
    BY <1>1, <2>1, <2>2 DEF SupervisorInv, LinesInv, Holders, tasks
  <2> QED
    BY <1>2, <2>3 DEF SupervisorInv
<1>5. CASE ReadEnds(p) \/ ReadFails(p)
  <2>1. /\ readers[p] = "reading" /\ UNCHANGED <<unread, published>>
        /\ \/ readers' = [readers EXCEPT ![p] = "failed"]
           \/ readers' = [readers EXCEPT ![p] = "ended"] /\ unread[p] = 0 /\ Holders(p) = {}
    BY <1>5 DEF ReadEnds, ReadFails, output
  <2>2. /\ readers' = [q \in Pipes |-> readers'[q]]
        /\ \A q \in Pipes : q # p => readers'[q] = readers[q]
    BY <2>1 DEF SupervisorInv, LinesInv
  <2>3. \A q \in Pipes : Holders(q)' = Holders(q)
    BY <1>1 DEF Holders
  <2>4. ASSUME NEW q \in Pipes, readers'[q] = "ended" PROVE unread'[q] = 0 /\ Holders(q)' = {}
    BY <2>1, <2>2, <2>3, <2>4 DEF SupervisorInv, LinesInv
  <2>5. LinesInv'
    BY <1>1, <1>3, <2>1, <2>2, <2>4 DEF SupervisorInv, LinesInv, tasks
  <2> QED
    BY <1>2, <2>5 DEF SupervisorInv
<1> QED
  BY <1>4, <1>5 DEF Read

LEMMA ProcessingKeeps ==
    ASSUME SupervisorInv, NEW q \in Processes, Processing(q)
    PROVE  SupervisorInv'
<1>1. UNCHANGED <<tasks, capture>>
  BY DEF Processing, Fork, Write, ClosePipes, LeaveGroup, Exit
<1>2. /\ processes \in [Processes -> Process]
      /\ Shell \in Processes /\ Shell \notin Descendants
      /\ Descendants \subseteq Processes /\ processes[q] \in Process
  BY BashAssumption DEF SupervisorInv, GroupInv, Processes
<1>3. StageInv'
  BY <1>1 DEF SupervisorInv, StageInv, Settled, tasks
\* No group or pipe gets its first process again.
<1>4. ASSUME UNCHANGED output, processes' \in [Processes -> Process],
             Group = {} => Group' = {},
             \A p \in Pipes : Holders(p) = {} => Holders(p)' = {},
             processes[Shell].state = "gone" => processes'[Shell].state = "gone"
      PROVE  SupervisorInv'
  <2>1. LinesInv'
    BY <1>1, <1>4 DEF SupervisorInv, LinesInv, tasks, capture, output
  <2>2. GroupInv'
    BY <1>1, <1>4 DEF SupervisorInv, GroupInv, tasks
  <2> QED
    BY <1>3, <2>1, <2>2 DEF SupervisorInv
<1>5. ASSUME UNCHANGED output, processes' \in [Processes -> Process],
             Fewer(processes'),
             processes[Shell].state = "gone" => processes'[Shell].state = "gone"
      PROVE  SupervisorInv'
  BY <1>2, <1>4, <1>5, FewerKeeps
<1>6. ASSUME NEW r \in Descendants, Fork(q, r) PROVE SupervisorInv'
  <2>1. /\ processes' = [processes EXCEPT ![r] = processes[q]] /\ UNCHANGED output
        /\ processes[q].state = "running"
    BY <1>6 DEF Fork, Running
  <2>2. /\ processes' \in [Processes -> Process] /\ processes'[Shell] = processes[Shell]
        /\ processes'[r] = processes[q]
        /\ \A s \in Processes : s # r => processes'[s] = processes[s]
    BY <1>2, <2>1
  <2>3. Group = {} => Group' = {}
    BY <2>1, <2>2 DEF Group
  <2>4. \A p \in Pipes : Holders(p) = {} => Holders(p)' = {}
    BY <2>1, <2>2 DEF Holders
  <2> QED
    BY <1>4, <2>1, <2>2, <2>3, <2>4
<1>7. ASSUME NEW p \in Pipes, Write(q, p) PROVE SupervisorInv'
  <2>1. /\ processes[q].state = "running" /\ p \in processes[q].holds /\ readers[p] = "reading"
        /\ written' = [written EXCEPT ![p] = written[p] + 1]
        /\ unread' = [unread EXCEPT ![p] = unread[p] + 1]
        /\ UNCHANGED processes
    BY <1>7 DEF Write, Running
  <2>2. /\ unread \in [Pipes -> Nat] /\ published \in [Pipes -> Nat] /\ written \in [Pipes -> Nat]
        /\ \A o \in Pipes : written[o] = unread[o] + published[o]
    BY DEF SupervisorInv, LinesInv
  <2>3. /\ unread' \in [Pipes -> Nat] /\ written' \in [Pipes -> Nat]
        /\ \A o \in Pipes : written'[o] = unread'[o] + published[o]
        /\ \A o \in Pipes : o # p => unread'[o] = unread[o]
    BY <2>1, <2>2
  <2>4. LinesInv'
    BY <1>1, <2>1, <2>3 DEF SupervisorInv, LinesInv, Holders, tasks, capture
  <2>5. GroupInv'
    BY <1>1, <2>1 DEF SupervisorInv, GroupInv, Group, tasks
  <2> QED
    BY <1>3, <2>4, <2>5 DEF SupervisorInv
<1>8. CASE ClosePipes(q)
  <2>1. /\ processes' = [processes EXCEPT ![q] = [processes[q] EXCEPT !.holds = {}]]
        /\ UNCHANGED output
    BY <1>8 DEF ClosePipes
  <2>2. PICK closed : closed = [processes[q] EXCEPT !.holds = {}]
    OBVIOUS
  <2>3. /\ closed \in Process /\ closed.holds = {} /\ closed.state = processes[q].state
        /\ closed.group = processes[q].group
    BY <1>2, <2>2 DEF Process
  <2>4. /\ processes' \in [Processes -> Process] /\ processes'[q] = closed
        /\ \A s \in Processes : s # q => processes'[s] = processes[s]
    BY <1>2, <2>1, <2>2, <2>3
  <2> QED
    BY <1>2, <1>5, <2>1, <2>3, <2>4 DEF Fewer
<1>9. CASE LeaveGroup(q)
  <2>1. /\ processes' = [processes EXCEPT ![q] = [processes[q] EXCEPT !.group = FALSE]]
        /\ UNCHANGED output
    BY <1>9 DEF LeaveGroup
  <2>2. PICK left : left = [processes[q] EXCEPT !.group = FALSE]
    OBVIOUS
  <2>3. /\ left \in Process
        /\ left.holds = processes[q].holds /\ left.state = processes[q].state
        /\ left.group = FALSE
    BY <1>2, <2>2 DEF Process
  <2>4. /\ processes' \in [Processes -> Process] /\ processes'[q] = left
        /\ \A s \in Processes : s # q => processes'[s] = processes[s]
    BY <1>2, <2>1, <2>2, <2>3
  <2> QED
    BY <1>2, <1>5, <2>1, <2>3, <2>4 DEF Fewer
<1>10. CASE Exit(q)
  <2>1. processes' = After({q}) /\ processes[q].state = "running" /\ UNCHANGED output
    BY <1>10 DEF Exit, Running
  <2>2. PICK killed : killed = {q}
    OBVIOUS
  <2>3. /\ processes' = After(killed) /\ killed \subseteq Processes
        /\ \A s \in killed : processes[s].state = "running"
    BY <2>1, <2>2
  <2>4. /\ processes' \in [Processes -> Process] /\ Fewer(processes')
        /\ processes[Shell].state = "gone" => processes'[Shell].state = "gone"
    BY <1>2, <2>3, AfterFacts
  <2> QED
    BY <1>5, <2>1, <2>4
<1> QED
  BY <1>6, <1>7, <1>8, <1>9, <1>10 DEF Processing

\* The parts of TypeOK that SupervisorInv leaves out.
Ranges ==
    /\ call \in {"none", "starting", "waiting", "returned", "dropped"}
    /\ background \in BOOLEAN /\ timed \in BOOLEAN /\ cancelling \in BOOLEAN
    /\ job \in {"none", "running", "completed", "cancelled", "failed"}
    /\ supervisor \in {"none", "spawn", "select", "stop", "reap", "read", "done"}
    /\ outcome \in {"none", "unstarted", "exited", "cancelled", "timeout", "capture"}
    /\ readers \in [Pipes -> {"none", "reading", "ended", "failed"}]
    /\ written \in [Pipes -> 0 .. MaxOutput] /\ failures \in 0 .. MaxFailures

LEMMA RangesKeep ==
    ASSUME SupervisorInv, Ranges, Next
    PROVE  Ranges'
<1> USE DEF Ranges
<1>1. CASE Call
  <2>1. UNCHANGED <<background, timed, outcome, readers, written, failures>>
    BY <1>1 DEF Call, Bash, BashRefused, Started, Waited, Dropped,
                RequestCancel, capture, output
  <2>2. cancelling' \in BOOLEAN
    BY <1>1 DEF Call, Bash, BashRefused, Started, Waited, Dropped,
                RequestCancel
  <2>3. /\ call' \in {call, "starting", "waiting", "returned", "dropped"}
        /\ job' \in {job, "running"} /\ supervisor' \in {supervisor, "spawn"}
    BY <1>1 DEF Call, Bash, BashRefused, Started, Waited, Dropped,
                RequestCancel
  <2> QED
    BY <2>1, <2>2, <2>3
<1>2. CASE SpawnFails \/ Spawn
  <2>1. readers' = readers \/ readers' = [p \in Pipes |-> "reading"]
    BY <1>2 DEF SpawnFails, Spawn, capture
  <2>2. UNCHANGED <<call, background, timed, cancelling, written, failures>>
    BY <1>2 DEF SpawnFails, Spawn, capture, output
  <2>3. /\ job' \in {job, "failed"} /\ supervisor' \in {"done", "select"}
        /\ outcome' \in {outcome, "unstarted"}
    BY <1>2 DEF SpawnFails, Spawn
  <2> QED
    BY <2>1, <2>2, <2>3
<1>3. CASE \/ Exited \/ Poll \/ Deadline \/ Reap
           \/ \E reason \in {"cancelled", "timeout", "capture"} : Stop(reason)
  BY <1>3 DEF Exited, Poll, Deadline, Reap, Stop, capture,
              output
<1>4. ASSUME NEW flushed \in BOOLEAN, Finish(flushed) PROVE Ranges'
  <2>1. outcome \in {"exited", "cancelled", "timeout", "capture"}
    BY <1>4 DEF Finish, SupervisorInv, StageInv, Stopped
  <2>2. job' \in {"completed", "cancelled", "failed"}
    BY <1>4, <2>1 DEF Finish
  <2>3. failures' \in 0 .. MaxFailures
    BY BashAssumption, <1>4 DEF Finish
  <2> QED
    BY <1>4, <2>2, <2>3 DEF Finish, output
<1>5. ASSUME NEW p \in Pipes, Read(p) PROVE Ranges'
  <2>1. failures' \in 0 .. MaxFailures
    BY BashAssumption, <1>5 DEF Read, PublishLine, ReadEnds, ReadFails
  <2>2. readers' \in [Pipes -> {"none", "reading", "ended", "failed"}]
    BY <1>5 DEF Read, PublishLine, ReadEnds, ReadFails
  <2> QED
    BY <1>5, <2>1, <2>2 DEF Read, PublishLine, ReadEnds, ReadFails,
                            tasks, output
<1>6. ASSUME NEW q \in Processes, Processing(q) PROVE Ranges'
  <2>1. written' \in [Pipes -> 0 .. MaxOutput]
    BY BashAssumption, <1>6 DEF Processing, Fork, Write, ClosePipes, LeaveGroup,
                Exit, output
  <2> QED
    BY <1>6, <2>1 DEF Processing, Fork, Write, ClosePipes, LeaveGroup,
                      Exit, tasks, capture
<1> QED
  BY <1>1, <1>2, <1>3, <1>4, <1>5, <1>6 DEF Next, Supervise

LEMMA SupervisorHolds == Spec => []SupervisorInv
<1>1. Init => SupervisorInv
  <2> SUFFICES ASSUME Init PROVE SupervisorInv
    OBVIOUS
  <2>1. NoProcess \in Process /\ NoProcess.state = "none"
    BY DEF NoProcess, Process
  <2>2. /\ processes \in [Processes -> Process]
        /\ \A q \in Processes : processes[q].state = "none"
    BY <2>1 DEF Init
  <2>3. StageInv
    BY DEF Init, StageInv, Settled
  <2>4. LinesInv
    BY DEF Init, LinesInv
  <2>5. GroupInv
    BY <2>2 DEF Init, GroupInv
  <2> QED
    BY <2>3, <2>4, <2>5 DEF SupervisorInv
<1>2. SupervisorInv /\ [Next]_vars => SupervisorInv'
  <2>1. SupervisorInv /\ Next => SupervisorInv'
    BY CallKeeps, SuperviseKeeps, ReadKeeps, ProcessingKeeps DEF Next
  <2>2. SupervisorInv /\ UNCHANGED vars => SupervisorInv'
    BY DEF vars, tasks, capture, output, SupervisorInv, StageInv, LinesInv,
           GroupInv, Settled, Group, Holders
  <2> QED
    BY <2>1, <2>2
<1> QED
  BY <1>1, <1>2, PTL DEF Spec

\* The state keeps its types, and the shell is reaped once its supervisor has
\* seen its end: no path to the end of a job forgets the wait.
THEOREM SupervisorTypes == Spec => []TypeOK
<1>1. Init => Ranges
  <2> SUFFICES ASSUME Init PROVE Ranges
    OBVIOUS
  <2>1. written \in [Pipes -> 0 .. MaxOutput] /\ readers = [p \in Pipes |-> "none"]
    BY BashAssumption DEF Init
  <2>2. failures \in 0 .. MaxFailures
    BY BashAssumption DEF Init
  <2>3. background \in BOOLEAN /\ timed \in BOOLEAN /\ cancelling \in BOOLEAN
    BY DEF Init
  <2>4. call = "none" /\ job = "none" /\ supervisor = "none" /\ outcome = "none"
    BY DEF Init
  <2> QED
    BY <2>1, <2>2, <2>3, <2>4 DEF Ranges
<1>2. SupervisorInv /\ Ranges /\ [Next]_vars => Ranges'
  BY RangesKeep DEF vars, tasks, capture, output, Ranges
<1>3. SupervisorInv /\ Ranges => TypeOK
  <2> SUFFICES ASSUME SupervisorInv, Ranges PROVE TypeOK
    OBVIOUS
  <2>1. /\ unread \in [Pipes -> Nat] /\ published \in [Pipes -> Nat]
        /\ written \in [Pipes -> 0 .. MaxOutput] /\ MaxOutput \in Nat
        /\ \A p \in Pipes : written[p] = unread[p] + published[p]
    BY BashAssumption DEF SupervisorInv, LinesInv, Ranges
  <2>2. unread \in [Pipes -> 0 .. MaxOutput] /\ published \in [Pipes -> 0 .. MaxOutput]
    BY <2>1
  <2> QED
    BY <2>2 DEF SupervisorInv, GroupInv, Ranges, TypeOK
<1> QED
  BY <1>1, <1>2, <1>3, SupervisorHolds, PTL DEF Spec

\* A job that is reported completed or cancelled shows every line that any of its
\* processes wrote, for any number of processes and lines.
THEOREM CaptureCorrect == Spec => []CaptureIsTotal
<1>1. SupervisorInv => CaptureIsTotal
  BY DEF SupervisorInv, LinesInv, CaptureIsTotal
<1> QED
  BY <1>1, SupervisorHolds, PTL

\* No process of the group is left of a job that was cancelled, timed out or
\* could not be captured, whatever its processes do with signals.
THEOREM LeftBehindCorrect == Spec => []NothingIsLeftBehind
<1>1. SupervisorInv => NothingIsLeftBehind
  BY DEF SupervisorInv, StageInv, GroupInv, Stopped, NothingIsLeftBehind
<1> QED
  BY <1>1, SupervisorHolds, PTL

-----------------------------------------------------------------------------
(* Induction over numbers, and functions that are defined by recursion *)

LEMMA Least ==
    ASSUME NEW S \in SUBSET Nat, S # {}
    PROVE  \E n \in S : \A m \in S : n <= m
<1> DEFINE R == OpToRel(<, Nat)
<1>1. \A m, n \in Nat : <<m, n>> \in R <=> m < n
  BY DEF OpToRel
<1>2. IsWellFoundedOn(R, Nat)
  BY NatLessThanWellFounded
<1> HIDE DEF R
<1>3. PICK n \in S : \A m \in S : ~(<<m, n>> \in R)
  BY <1>2, WFMin
<1>4. n \in Nat /\ \A m \in S : m \in Nat
  OBVIOUS
<1>5. \A m \in S : ~(m < n)
  BY <1>1, <1>3, <1>4
<1> QED
  BY <1>4, <1>5

\* A set of numbers with 0 and with the successor of each is all of them.
LEMMA Induction ==
    ASSUME NEW S \in SUBSET Nat, 0 \in S, \A n \in Nat : n \in S => n + 1 \in S
    PROVE  S = Nat
<1> SUFFICES ASSUME S # Nat PROVE FALSE
  OBVIOUS
<1>1. PICK n \in Nat \ S : \A m \in Nat \ S : n <= m
  BY Least
<1>2. n - 1 \in Nat /\ n - 1 \in S
  BY <1>1
<1> QED
  BY <1>1, <1>2

Iterates(f, T, base, N, step) ==
    f \in [0 .. N -> T] /\ f[0] = base /\ \A i \in 1 .. N : f[i] = step[i][f[i - 1]]

LEMMA Recursion ==
    ASSUME NEW T, NEW base \in T, NEW N \in Nat, NEW step \in [1 .. N -> [T -> T]]
    PROVE  \E f : Iterates(f, T, base, N, step)
<1> DEFINE Good(n, f) == f[0] = base /\ \A i \in 1 .. N : i <= n => f[i] = step[i][f[i - 1]]
           S == {n \in Nat : n <= N => \E f \in [0 .. N -> T] : Good(n, f)}
<1>1. 0 \in S
  <2>1. [i \in 0 .. N |-> base] \in [0 .. N -> T] /\ Good(0, [i \in 0 .. N |-> base])
    OBVIOUS
  <2> QED
    BY <2>1
<1>2. ASSUME NEW n \in Nat, n \in S PROVE n + 1 \in S
  <2> SUFFICES ASSUME n + 1 <= N PROVE \E f \in [0 .. N -> T] : Good(n + 1, f)
    OBVIOUS
  <2>1. PICK f \in [0 .. N -> T] : Good(n, f)
    BY <1>2
  <2>2. n + 1 \in 1 .. N /\ f[n] \in T /\ step[n + 1] \in [T -> T]
    BY <2>1
  <2>3. PICK next \in T : next = step[n + 1][f[n]]
    BY <2>2
  <2> DEFINE g == [f EXCEPT ![n + 1] = next]
  <2>4. /\ g \in [0 .. N -> T] /\ g[n + 1] = next
        /\ \A i \in 0 .. N : i # n + 1 => g[i] = f[i]
    BY <2>1, <2>2
  <2> HIDE DEF g
  <2>5. ASSUME NEW i \in 1 .. N, i <= n + 1 PROVE g[i] = step[i][g[i - 1]]
    <3>1. i - 1 \in 0 .. N /\ i - 1 # n + 1 /\ g[i - 1] = f[i - 1]
      BY <2>4, <2>5
    <3>2. CASE i = n + 1
      BY <2>3, <2>4, <3>1, <3>2
    <3>3. CASE i # n + 1
      <4>1. i <= n /\ g[i] = f[i]
        BY <2>4, <2>5, <3>3
      <4> QED
        BY <2>1, <3>1, <4>1
    <3> QED
      BY <3>2, <3>3
  <2>6. g[0] = base
    BY <2>1, <2>4
  <2> QED
    BY <2>4, <2>5, <2>6
<1>3. N \in S
  <2> HIDE DEF S
  <2>1. S \in SUBSET Nat
    BY DEF S
  <2> QED
    BY <1>1, <1>2, <2>1, Induction
<1> QED
  BY <1>3 DEF Iterates

-----------------------------------------------------------------------------
(***************************************************************************)
(* The anchors of the lines: for any texts, any number of slots, and any   *)
(* slots that the contents of lines start from.                            *)
(***************************************************************************)

Positions == 1 .. MaxLines

LEMMA NearestIsLeft ==
    ASSUME NEW old \in Positions, NEW remaining \in SUBSET Positions, remaining # {}
    PROVE  Nearest(old, remaining) \in remaining
<1> USE LineAnchorsAssumption DEF Positions
<1> DEFINE D == {Distance(old, new) : new \in remaining}
<1>1. \A new \in remaining : Distance(old, new) \in Nat
  BY DEF Distance
<1>2. PICK d \in D : \A e \in D : d <= e
  <2>1. D \in SUBSET Nat /\ D # {}
    BY <1>1
  <2> HIDE DEF D
  <2> QED
    BY <2>1, Least
<1> DEFINE Closest == {new \in remaining : Distance(old, new) = d}
<1>3. PICK first \in Closest : \A new \in Closest : first <= new
  <2>1. Closest \in SUBSET Nat /\ Closest # {}
    BY <1>2
  <2> HIDE DEF Closest
  <2> QED
    BY <2>1, Least
<1>4. ASSUME NEW other \in remaining
      PROVE  \/ Distance(old, first) < Distance(old, other)
             \/ Distance(old, first) = Distance(old, other) /\ first <= other
  <2>1. Distance(old, first) = d /\ d \in Nat /\ Distance(old, other) \in Nat
    BY <1>1, <1>2, <1>3
  <2>2. d <= Distance(old, other)
    BY <1>2
  <2>3. Distance(old, other) = d => first <= other
    BY <1>3
  <2> QED
    BY <2>1, <2>2, <2>3
<1>5. first \in remaining
  BY <1>3
<1> QED
  BY <1>4, <1>5 DEF Nearest

\* What is left where it was is nearest.
LEMMA OnlyItselfIsNearest ==
    ASSUME NEW old \in Positions, NEW remaining \in SUBSET Positions, old \in remaining
    PROVE  Nearest(old, remaining) = old
<1>1. \A new \in remaining : new \in Nat /\ Distance(old, new) \in Nat
                             /\ (Distance(old, new) = 0 => new = old)
  BY LineAnchorsAssumption DEF Distance, Positions
<1>2. Distance(old, old) = 0 /\ old \in Nat
  BY LineAnchorsAssumption DEF Distance, Positions
<1>3. ASSUME NEW new \in remaining,
             \/ Distance(old, new) < Distance(old, old)
             \/ Distance(old, new) = Distance(old, old) /\ new <= old
      PROVE  new = old
  BY <1>1, <1>2, <1>3
<1>4. ASSUME NEW other \in remaining
      PROVE  \/ Distance(old, old) < Distance(old, other)
             \/ Distance(old, old) = Distance(old, other) /\ old <= other
  BY <1>1, <1>2
<1> QED
  BY <1>3, <1>4 DEF Nearest

Walks == [remaining : SUBSET Positions, pairs : SUBSET (Positions \X Positions)]

LEMMA ClaimType ==
    ASSUME NEW state \in Walks, NEW old \in Positions
    PROVE  Claim(state, old) \in Walks
<1>1. CASE state.remaining = {}
  BY <1>1 DEF Claim
<1>2. CASE state.remaining # {}
  <2>1. PICK new \in state.remaining : new = Nearest(old, state.remaining)
    BY <1>2, NearestIsLeft DEF Walks
  <2> QED
    BY <1>2, <2>1 DEF Claim, Walks
<1> QED
  BY <1>1, <1>2

IsWalk(w, old, new) ==
    /\ w \in [0 .. MaxLines -> Walks] /\ w[0] = [remaining |-> new, pairs |-> {}]
    /\ \A i \in Positions : w[i] = IF i \in old THEN Claim(w[i - 1], i) ELSE w[i - 1]

\* The walk is what its recursive definition says.
LEMMA WalkIsDefined ==
    ASSUME NEW old \in SUBSET Positions, NEW new \in SUBSET Positions
    PROVE  IsWalk(Walk(old, new), old, new)
<1> DEFINE base == [remaining |-> new, pairs |-> {}]
           step == [i \in 1 .. MaxLines |-> [w \in Walks |-> IF i \in old THEN Claim(w, i) ELSE w]]
<1>1. MaxLines \in Nat /\ base \in Walks
  BY LineAnchorsAssumption DEF Walks
<1>2. step \in [1 .. MaxLines -> [Walks -> Walks]]
  BY ClaimType DEF Positions
<1>3. PICK f \in [0 .. MaxLines -> Walks] :
         f[0] = base /\ \A i \in 1 .. MaxLines : f[i] = step[i][f[i - 1]]
  <2>1. PICK s \in [1 .. MaxLines -> [Walks -> Walks]] : s = step
    BY <1>2
  <2>2. PICK b \in Walks : b = base
    BY <1>1
  <2>3. MaxLines \in Nat
    BY <1>1
  <2>4. PICK f : Iterates(f, Walks, b, MaxLines, s)
    BY <2>3, Recursion
  <2> HIDE DEF step, base
  <2> QED
    BY <2>1, <2>2, <2>4 DEF Iterates
<1>4. \A i \in 1 .. MaxLines : f[i] = IF i \in old THEN Claim(f[i - 1], i) ELSE f[i - 1]
  <2> SUFFICES ASSUME NEW i \in 1 .. MaxLines
               PROVE  f[i] = IF i \in old THEN Claim(f[i - 1], i) ELSE f[i - 1]
    OBVIOUS
  <2>1. i - 1 \in 0 .. MaxLines
    BY <1>1
  <2>2. f[i - 1] \in Walks
    BY <1>3, <2>1
  <2> QED
    BY <1>3, <2>2
<1>5. f = [i \in 0 .. MaxLines |-> CASE i = 0    -> [remaining |-> new, pairs |-> {}]
                                     [] i \in old -> Claim(f[i - 1], i)
                                     [] OTHER    -> f[i - 1]]
  <2>1. ASSUME NEW i \in 0 .. MaxLines
        PROVE  f[i] = CASE i = 0    -> [remaining |-> new, pairs |-> {}]
                        [] i \in old -> Claim(f[i - 1], i)
                        [] OTHER    -> f[i - 1]
    <3>1. CASE i = 0
      <4>1. i \notin old
        BY <3>1 DEF Positions
      <4> QED
      BY <1>3, <3>1, <4>1
    <3>2. CASE i # 0
      BY <1>1, <1>4, <3>2
    <3> QED
      BY <3>1, <3>2
  <2> QED
    BY <1>3, <2>1
<1> DEFINE W == Walk(old, new)
<1>6. W = [i \in 0 .. MaxLines |-> CASE i = 0    -> [remaining |-> new, pairs |-> {}]
                                     [] i \in old -> Claim(W[i - 1], i)
                                     [] OTHER    -> W[i - 1]]
  BY <1>5, Zenon DEF Walk
<1>7. 0 \notin old /\ MaxLines \in Nat
  BY <1>1 DEF Positions
<1> HIDE DEF W
<1>8. W[0] = [remaining |-> new, pairs |-> {}]
  BY <1>6, <1>7
<1>9. \A i \in Positions : W[i] = IF i \in old THEN Claim(W[i - 1], i) ELSE W[i - 1]
  <2> SUFFICES ASSUME NEW i \in Positions
               PROVE  W[i] = IF i \in old THEN Claim(W[i - 1], i) ELSE W[i - 1]
    OBVIOUS
  <2>1. i \in 0 .. MaxLines /\ i # 0
    BY <1>7 DEF Positions
  <2>2. W[i] = CASE i = 0    -> [remaining |-> new, pairs |-> {}]
                 [] i \in old -> Claim(W[i - 1], i)
                 [] OTHER    -> W[i - 1]
    BY <1>6, <2>1
  <2> QED
    BY <2>1, <2>2
<1>10. W \in [0 .. MaxLines -> Walks]
  <2> DEFINE S == {n \in Nat : n <= MaxLines => W[n] \in Walks}
  <2>1. 0 \in S
    BY <1>1, <1>8
  <2>2. ASSUME NEW n \in Nat, n \in S PROVE n + 1 \in S
    <3> SUFFICES ASSUME n + 1 <= MaxLines PROVE W[n + 1] \in Walks
      OBVIOUS
    <3>1. n + 1 \in Positions /\ (n + 1) - 1 = n /\ W[n] \in Walks
      BY <1>7, <2>2 DEF Positions
    <3>2. W[n + 1] = IF n + 1 \in old THEN Claim(W[n], n + 1) ELSE W[n]
      BY <1>9, <3>1
    <3> QED
      BY <3>1, <3>2, ClaimType
  <2>3. S = Nat
    <3>1. S \in SUBSET Nat
      OBVIOUS
    <3> HIDE DEF S
    <3> QED
      BY <2>1, <2>2, <3>1, Induction
  <2>4. \A n \in 0 .. MaxLines : W[n] \in Walks
    BY <1>7, <2>3
  <2> QED
    BY <1>6, <2>4
<1> QED
  BY <1>8, <1>9, <1>10 DEF W, IsWalk

Matching(pairs, old, new) ==
    /\ pairs \subseteq old \X new
    /\ \A p, q \in pairs : p[1] = q[1] <=> p[2] = q[2]
    /\ \/ \A i \in old : \E j \in new : <<i, j>> \in pairs
       \/ \A j \in new : \E i \in old : <<i, j>> \in pairs

\* After the first positions.
Matched(w, old, new, n) ==
    /\ w.pairs \subseteq old \X new /\ w.remaining \subseteq new
    /\ \A p \in w.pairs : p[1] <= n /\ p[2] \notin w.remaining
    /\ \A p, q \in w.pairs : p[1] = q[1] <=> p[2] = q[2]
    /\ \A j \in new \ w.remaining : \E i \in old : <<i, j>> \in w.pairs
    /\ w.remaining = {} \/ \A i \in old : i <= n => \E j \in new : <<i, j>> \in w.pairs

LEMMA ClaimMatches ==
    ASSUME NEW old \in SUBSET Positions, NEW new \in SUBSET Positions, NEW n \in 0 .. MaxLines,
           n + 1 \in old, NEW w \in Walks, Matched(w, old, new, n)
    PROVE  Matched(Claim(w, n + 1), old, new, n + 1)
<1>0. \A i \in old : i \in Nat
  BY DEF Positions
<1> USE LineAnchorsAssumption
<1>1. CASE w.remaining = {}
  <2>1. Claim(w, n + 1) = w
    BY <1>1 DEF Claim
  <2>2. \A p \in w.pairs : p[1] <= n + 1
    BY <1>0 DEF Matched
  <2> QED
    BY <1>1, <2>1, <2>2 DEF Matched
<1>2. CASE w.remaining # {}
  <2>1. PICK j \in w.remaining : j = Nearest(n + 1, w.remaining)
    BY <1>2, NearestIsLeft DEF Walks
  <2>2. PICK v : v = Claim(w, n + 1)
    OBVIOUS
  <2>3. v.remaining = w.remaining \ {j} /\ v.pairs = w.pairs \cup {<<n + 1, j>>}
    BY <1>2, <2>1, <2>2 DEF Claim
  <2>4. j \in new /\ n + 1 \in Nat /\ n \in Nat
    BY DEF Matched
  <2>5. v.pairs \subseteq old \X new /\ v.remaining \subseteq new
    BY <2>3, <2>4 DEF Matched
  <2>6. \A p \in v.pairs : p[1] <= n + 1 /\ p[2] \notin v.remaining
    BY <1>0, <2>3, <2>4 DEF Matched
  <2>7. \A p \in w.pairs : p[1] # n + 1 /\ p[2] # j
    BY <1>0, <2>1, <2>4 DEF Matched
  <2>8. \A p, q \in v.pairs : p[1] = q[1] <=> p[2] = q[2]
    BY <2>3, <2>7 DEF Matched
  <2>9. ASSUME NEW k \in new \ v.remaining PROVE \E i \in old : <<i, k>> \in v.pairs
    <3>1. CASE k = j
      BY <2>3, <3>1
    <3>2. CASE k # j
      BY <2>3, <2>9, <3>2 DEF Matched
    <3> QED
      BY <3>1, <3>2
  <2>10. ASSUME NEW i \in old, i <= n + 1 PROVE \E k \in new : <<i, k>> \in v.pairs
    <3>1. CASE i = n + 1
      BY <2>3, <2>4, <3>1
    <3>2. CASE i # n + 1
      <4>1. i <= n
        BY <1>0, <2>4, <2>10, <3>2
      <4>2. PICK k \in new : <<i, k>> \in w.pairs
        BY <1>2, <4>1 DEF Matched
      <4> QED
        BY <2>3, <4>2
    <3> QED
      BY <3>1, <3>2
  <2>11. Matched(v, old, new, n + 1)
    BY <2>5, <2>6, <2>8, <2>9, <2>10 DEF Matched
  <2> QED
    BY <2>2, <2>11
<1> QED
  BY <1>1, <1>2

\* nearest_occurrence_pairs: every pair is of an old and a new occurrence, none
\* is in two, and as many are paired as can be.
LEMMA NearestOccurrencesMatch ==
    ASSUME NEW old \in SUBSET Positions, NEW new \in SUBSET Positions
    PROVE  Matching(NearestOccurrencePairs(old, new), old, new)
<1>9. PICK W : W = Walk(old, new)
  OBVIOUS
<1>7. /\ W \in [0 .. MaxLines -> Walks] /\ W[0] = [remaining |-> new, pairs |-> {}]
      /\ \A i \in Positions : W[i] = IF i \in old THEN Claim(W[i - 1], i) ELSE W[i - 1]
  <2>1. IsWalk(Walk(old, new), old, new)
    BY WalkIsDefined
  <2> QED
    BY <1>9, <2>1 DEF IsWalk
<1>8. MaxLines \in Nat
  BY LineAnchorsAssumption
<1>0. \A i \in old : i \in Nat /\ 1 <= i /\ i <= MaxLines
  BY <1>8 DEF Positions
<1> DEFINE S == {n \in Nat : n <= MaxLines => Matched(W[n], old, new, n)}
<1>1. 0 \in S
  <2>1. Matched(W[0], old, new, 0)
    BY <1>0, <1>7 DEF Matched
  <2> QED
    BY <2>1
<1>2. ASSUME NEW n \in Nat, n \in S PROVE n + 1 \in S
  <2> SUFFICES ASSUME n + 1 <= MaxLines PROVE Matched(W[n + 1], old, new, n + 1)
    OBVIOUS
  <2>1. PICK w \in Walks : w = W[n]
    BY <1>7, <1>8
  <2>2. n + 1 \in Positions /\ (n + 1) - 1 = n /\ n \in 0 .. MaxLines
    BY <1>8 DEF Positions
  <2>3. W[n + 1] = IF n + 1 \in old THEN Claim(w, n + 1) ELSE w
    BY <1>7, <2>1, <2>2
  <2>4. Matched(w, old, new, n)
    BY <1>8, <1>2, <2>1, <2>2
  <2>5. CASE n + 1 \in old
    BY <2>2, <2>3, <2>4, <2>5, ClaimMatches
  <2>6. CASE n + 1 \notin old
    <3>1. \A i \in old : i <= n + 1 => i <= n
      BY <1>0, <2>6
    <3>2. \A p \in w.pairs : p[1] <= n + 1
      BY <1>0, <2>4 DEF Matched
    <3>3. Matched(w, old, new, n + 1)
      BY <2>4, <3>1, <3>2 DEF Matched
    <3> QED
      BY <2>3, <2>6, <3>3
  <2> QED
    BY <2>5, <2>6
<1>3. MaxLines \in S
  <2>1. S \in SUBSET Nat
    OBVIOUS
  <2> HIDE DEF S
  <2> QED
    BY <1>8, <1>1, <1>2, <2>1, Induction
<1>4. PICK w : w = W[MaxLines]
  OBVIOUS
<1>5. Matched(w, old, new, MaxLines)
  BY <1>8, <1>3, <1>4
<1>6. \/ \A i \in old : \E j \in new : <<i, j>> \in w.pairs
      \/ \A j \in new : \E i \in old : <<i, j>> \in w.pairs
  BY <1>0, <1>5 DEF Matched
<1> QED
  BY <1>9, <1>4, <1>5, <1>6 DEF Matched, Matching, NearestOccurrencePairs

\* After the first positions, where every old occurrence is still there.
Stay(w, old, n) ==
    /\ \A i \in old : i <= n => <<i, i>> \in w.pairs
    /\ \A i \in old : n < i => i \in w.remaining

\* Where every old occurrence is still there, each is paired with itself.
LEMMA OccurrencesStay ==
    ASSUME NEW old \in SUBSET Positions, NEW new \in SUBSET Positions, old \subseteq new
    PROVE  \A i \in old : <<i, i>> \in NearestOccurrencePairs(old, new)
<1>1. PICK W : W = Walk(old, new)
  OBVIOUS
<1>2. /\ W \in [0 .. MaxLines -> Walks] /\ W[0] = [remaining |-> new, pairs |-> {}]
      /\ \A i \in Positions : W[i] = IF i \in old THEN Claim(W[i - 1], i) ELSE W[i - 1]
  <2>1. IsWalk(Walk(old, new), old, new)
    BY WalkIsDefined
  <2> QED
    BY <1>1, <2>1 DEF IsWalk
<1>3. MaxLines \in Nat /\ \A i \in old : i \in Nat /\ 1 <= i /\ i <= MaxLines
  BY LineAnchorsAssumption DEF Positions
<1> DEFINE S == {n \in Nat : n <= MaxLines => Stay(W[n], old, n)}
<1>4. 0 \in S
  <2>1. Stay(W[0], old, 0)
    BY <1>2, <1>3 DEF Stay
  <2> QED
    BY <2>1
<1>5. ASSUME NEW n \in Nat, n \in S PROVE n + 1 \in S
  <2> SUFFICES ASSUME n + 1 <= MaxLines PROVE Stay(W[n + 1], old, n + 1)
    OBVIOUS
  <2>1. PICK w \in Walks : w = W[n]
    BY <1>2, <1>3
  <2>2. n + 1 \in Positions /\ (n + 1) - 1 = n
    BY <1>3 DEF Positions
  <2>3. W[n + 1] = IF n + 1 \in old THEN Claim(w, n + 1) ELSE w
    BY <1>2, <2>1, <2>2
  <2>4. Stay(w, old, n)
    BY <1>3, <1>5, <2>1
  <2>5. CASE n + 1 \notin old
    <3>1. Stay(w, old, n + 1)
      BY <1>3, <2>4, <2>5 DEF Stay
    <3> QED
      BY <2>3, <2>5, <3>1
  <2>6. CASE n + 1 \in old
    <3>1. n + 1 \in w.remaining
      BY <2>4, <2>6 DEF Stay
    <3>2. PICK j \in w.remaining : j = Nearest(n + 1, w.remaining)
      BY <2>2, <3>1, NearestIsLeft DEF Walks
    <3>3. j = n + 1
      BY <2>2, <3>1, <3>2, OnlyItselfIsNearest DEF Walks
    <3>4. /\ Claim(w, n + 1).remaining = w.remaining \ {n + 1}
          /\ Claim(w, n + 1).pairs = w.pairs \cup {<<n + 1, n + 1>>}
      BY <3>1, <3>2, <3>3 DEF Claim
    <3>5. PICK v : v = Claim(w, n + 1)
      OBVIOUS
    <3>6. Stay(v, old, n + 1)
      BY <1>3, <2>4, <3>4, <3>5 DEF Stay
    <3> QED
      BY <2>3, <2>6, <3>5, <3>6
  <2> QED
    BY <2>5, <2>6
<1>6. MaxLines \in S
  <2>1. S \in SUBSET Nat
    OBVIOUS
  <2> HIDE DEF S
  <2> QED
    BY <1>3, <1>4, <1>5, <2>1, Induction
<1>7. PICK w : w = W[MaxLines]
  OBVIOUS
<1>8. Stay(w, old, MaxLines)
  BY <1>3, <1>6, <1>7
<1> QED
  BY <1>1, <1>3, <1>7, <1>8 DEF NearestOccurrencePairs, Stay

-----------------------------------------------------------------------------
(* Kept and new hashes *)

OneToOne(pairs) == \A p, q \in pairs : p[1] = q[1] <=> p[2] = q[2]

IsText(lines, n) == n \in 1 .. MaxLines /\ lines \in [1 .. n -> Lines]

\* The pairs of all contents.
Keeps(pairs, old, new, m, n) ==
    /\ pairs \in SUBSET ((1 .. m) \X (1 .. n)) /\ OneToOne(pairs)
    /\ \A p \in pairs : old[p[1]] = new[p[2]]
    /\ \A line \in Lines :
        \/ \A i \in PositionsOf(old, line) : \E j \in PositionsOf(new, line) : <<i, j>> \in pairs
        \/ \A j \in PositionsOf(new, line) : \E i \in PositionsOf(old, line) : <<i, j>> \in pairs

\* Lines are paired with lines of the same content.
LEMMA KeptPairsMatch ==
    ASSUME NEW m, NEW n, NEW old, NEW new, IsText(old, m), IsText(new, n)
    PROVE  Keeps(KeptPairs(old, new), old, new, m, n)
<1> DEFINE P(line) == NearestOccurrencePairs(PositionsOf(old, line), PositionsOf(new, line))
           K == KeptPairs(old, new)
<1>1. DOMAIN old = 1 .. m /\ DOMAIN new = 1 .. n /\ m \in Nat /\ n \in Nat
      /\ m <= MaxLines /\ n <= MaxLines /\ MaxLines \in Nat
  BY LineAnchorsAssumption DEF IsText
<1>2. ASSUME NEW line \in Lines PROVE Matching(P(line), PositionsOf(old, line), PositionsOf(new, line))
  <2>1. PositionsOf(old, line) \in SUBSET Positions /\ PositionsOf(new, line) \in SUBSET Positions
    BY <1>1 DEF PositionsOf, Positions
  <2> QED
    BY <2>1, NearestOccurrencesMatch
<1> HIDE DEF P
<1>3. K = UNION {P(line) : line \in Lines}
  BY DEF KeptPairs, P
<1> HIDE DEF K
<1>4. ASSUME NEW p \in K
      PROVE  \E line \in Lines : /\ p \in P(line) /\ p \in PositionsOf(old, line) \X PositionsOf(new, line)
                                 /\ p[1] \in 1 .. m /\ p[2] \in 1 .. n
                                 /\ old[p[1]] = line /\ new[p[2]] = line
  <2>1. PICK line \in Lines : p \in P(line)
    BY <1>3
  <2>2. p \in PositionsOf(old, line) \X PositionsOf(new, line)
    BY <1>2, <2>1 DEF Matching
  <2>3. p[1] \in PositionsOf(old, line) /\ p[2] \in PositionsOf(new, line)
    BY <2>2
  <2> QED
    BY <1>1, <2>1, <2>2, <2>3 DEF PositionsOf
<1>5. K \subseteq (1 .. m) \X (1 .. n)
  <2> SUFFICES ASSUME NEW p \in K PROVE p \in (1 .. m) \X (1 .. n)
    OBVIOUS
  <2>1. PICK line \in Lines : /\ p \in PositionsOf(old, line) \X PositionsOf(new, line)
                              /\ p[1] \in 1 .. m /\ p[2] \in 1 .. n
    BY <1>4
  <2> QED
    BY <2>1
<1>6. \A p \in K : old[p[1]] = new[p[2]]
  BY <1>4
<1>7. ASSUME NEW p \in K, NEW q \in K PROVE p[1] = q[1] <=> p[2] = q[2]
  <2>1. PICK line \in Lines : p \in P(line) /\ old[p[1]] = line /\ new[p[2]] = line
    BY <1>4
  <2>2. PICK other \in Lines : q \in P(other) /\ old[q[1]] = other /\ new[q[2]] = other
    BY <1>4
  <2>3. CASE line = other
    BY <1>2, <2>1, <2>2, <2>3 DEF Matching
  <2>4. CASE line # other
    BY <2>1, <2>2, <2>4
  <2> QED
    BY <2>3, <2>4
<1>8. ASSUME NEW line \in Lines
      PROVE  \/ \A i \in PositionsOf(old, line) : \E j \in PositionsOf(new, line) : <<i, j>> \in K
             \/ \A j \in PositionsOf(new, line) : \E i \in PositionsOf(old, line) : <<i, j>> \in K
  <2>1. P(line) \subseteq K
    BY <1>3
  <2> QED
    BY <1>2, <2>1 DEF Matching
<1> QED
  BY <1>5, <1>6, <1>7, <1>8 DEF K, Keeps, OneToOne

\* Lines that are all where they were are paired with themselves.
LEMMA KeptPairsStay ==
    ASSUME NEW m, NEW n, NEW old, NEW new, IsText(old, m), IsText(new, n), NEW line \in Lines,
           PositionsOf(old, line) \subseteq PositionsOf(new, line)
    PROVE  \A i \in PositionsOf(old, line) : <<i, i>> \in KeptPairs(old, new)
<1>1. PositionsOf(old, line) \in SUBSET Positions /\ PositionsOf(new, line) \in SUBSET Positions
  BY LineAnchorsAssumption DEF IsText, PositionsOf, Positions
<1>2. \A i \in PositionsOf(old, line) :
          <<i, i>> \in NearestOccurrencePairs(PositionsOf(old, line), PositionsOf(new, line))
  BY <1>1, OccurrencesStay
<1> QED
  BY <1>2 DEF KeptPairs

\* A new line gets a slot that is free, if there is one.
LEMMA AllocatesFreeSlots ==
    ASSUME NEW line \in Lines, NEW occupied
    PROVE  \/ AllocateOne(line, occupied) = Full
           \/ AllocateOne(line, occupied) \in Slots \ occupied
<1> DEFINE free == {k \in Slots : Probe(line, k) \notin occupied}
<1>1. HashSpace \in Nat \ {0} /\ Stride \in Nat /\ BaseSlot[line] \in Nat /\ Slots \subseteq Nat
  BY LineAnchorsAssumption DEF Slots
<1>2. CASE free = {}
  BY <1>2 DEF AllocateOne
<1>3. CASE free # {}
  <2>1. Min(free) \in free
    <3>1. free \in SUBSET Nat
      BY <1>1
    <3> HIDE DEF free
    <3>2. PICK k \in free : \A other \in free : k <= other
      BY <1>3, <3>1, Least
    <3> QED
      BY <3>2 DEF Min
  <2>2. PICK k \in Slots : k = Min(free) /\ Probe(line, k) \notin occupied
    BY <2>1
  <2>3. Probe(line, k) \in Slots
    <3>1. k \in Nat /\ k * Stride \in Nat
      BY <1>1
    <3>2. PICK x \in Nat : x = BaseSlot[line] + k * Stride
      BY <1>1, <3>1
    <3>3. x % HashSpace \in 0 .. HashSpace - 1
      BY <1>1
    <3> QED
      BY <3>2, <3>3 DEF Probe, Slots
  <2> QED
    BY <1>3, <2>2, <2>3 DEF AllocateOne
<1> QED
  BY <1>2, <1>3

Anchors == Slots \cup {Full}

IsTaken(t, snapshot, lines, n, pairs) ==
    /\ t \in [0 .. n -> SUBSET Anchors] /\ t[0] = Occupied(snapshot, pairs)
    /\ \A i \in 1 .. n : t[i] = t[i - 1] \cup {HashOf(snapshot, lines, pairs, t[i - 1], i)}

LEMMA HashOfType ==
    ASSUME NEW m \in Nat, NEW snapshot, snapshot.hashes \in [1 .. m -> Slots], NEW pairs,
           NEW n, NEW lines, IsText(lines, n), NEW occupied, NEW i \in 1 .. n
    PROVE  HashOf(snapshot, lines, pairs, occupied, i) \in Anchors
<1> DEFINE kept == {j \in DOMAIN snapshot.hashes : <<j, i>> \in pairs}
<1>1. CASE kept = {}
  <2>1. lines[i] \in Lines
    BY DEF IsText
  <2> QED
    BY <1>1, <2>1, AllocatesFreeSlots DEF HashOf, Anchors
<1>2. CASE kept # {}
  <2>1. (CHOOSE j \in kept : TRUE) \in 1 .. m
    BY <1>2
  <2> QED
    BY <1>2, <2>1 DEF HashOf, Anchors
<1> QED
  BY <1>1, <1>2

\* The occupied slots are what their recursive definition says.
LEMMA TakenIsDefined ==
    ASSUME NEW m \in Nat, NEW snapshot, snapshot.hashes \in [1 .. m -> Slots], NEW pairs,
           Occupied(snapshot, pairs) \subseteq Slots, NEW n, NEW lines, IsText(lines, n)
    PROVE  IsTaken(Taken(snapshot, lines, pairs), snapshot, lines, n, pairs)
<1>0. PICK T : T = SUBSET Anchors
  OBVIOUS
<1> DEFINE step == [i \in 1 .. n |-> [t \in T |-> t \cup {HashOf(snapshot, lines, pairs, t, i)}]]
<1>1. n \in Nat
  BY DEF IsText
<1>2. Len(lines) = n
  BY <1>1 DEF IsText
<1>3. PICK s \in [1 .. n -> [T -> T]] : s = step
  <2>1. ASSUME NEW i \in 1 .. n, NEW t \in T
        PROVE  t \cup {HashOf(snapshot, lines, pairs, t, i)} \in T
    BY <1>0, HashOfType
  <2>2. step \in [1 .. n -> [T -> T]]
    BY <2>1
  <2> QED
    BY <2>2
<1>4. PICK b \in T : b = Occupied(snapshot, pairs)
  BY <1>0 DEF Anchors
<1>5. PICK f \in [0 .. n -> T] : f[0] = b /\ \A i \in 1 .. n : f[i] = s[i][f[i - 1]]
  <2>1. \E f : Iterates(f, T, b, n, s)
    BY <1>1, Recursion
  <2> QED
    BY <2>1 DEF Iterates
<1>6. ASSUME NEW i \in 1 .. n
      PROVE  f[i] = f[i - 1] \cup {HashOf(snapshot, lines, pairs, f[i - 1], i)}
  <2>1. f[i - 1] \in T
    BY <1>1, <1>5
  <2>2. f[i] = s[i][f[i - 1]]
    BY <1>5
  <2> QED
    BY <1>3, <2>1, <2>2
<1>7. f = [i \in 0 .. Len(lines) |->
              IF i = 0 THEN Occupied(snapshot, pairs)
              ELSE f[i - 1] \cup {HashOf(snapshot, lines, pairs, f[i - 1], i)}]
  <2>1. ASSUME NEW i \in 0 .. n
        PROVE  f[i] = IF i = 0 THEN Occupied(snapshot, pairs)
                      ELSE f[i - 1] \cup {HashOf(snapshot, lines, pairs, f[i - 1], i)}
    <3>1. CASE i = 0
      BY <1>4, <1>5, <3>1
    <3>2. CASE i # 0
      BY <1>1, <1>6, <3>2
    <3> QED
      BY <3>1, <3>2
  <2> QED
    BY <1>2, <1>5, <2>1
<1> DEFINE t == Taken(snapshot, lines, pairs)
<1>8. t = [i \in 0 .. Len(lines) |->
              IF i = 0 THEN Occupied(snapshot, pairs)
              ELSE t[i - 1] \cup {HashOf(snapshot, lines, pairs, t[i - 1], i)}]
  BY <1>7, Zenon DEF Taken
<1> HIDE DEF t
<1>9. t = [i \in 0 .. n |-> t[i]] /\ t[0] = Occupied(snapshot, pairs)
  BY <1>1, <1>2, <1>8
<1>10. ASSUME NEW i \in 1 .. n
       PROVE  t[i] = t[i - 1] \cup {HashOf(snapshot, lines, pairs, t[i - 1], i)}
  <2>1. i \in 0 .. n /\ i # 0
    BY <1>1
  <2> QED
    BY <1>2, <1>8, <2>1
<1>11. ASSUME NEW i \in 0 .. n PROVE t[i] \in SUBSET Anchors
  <2> DEFINE S == {k \in Nat : k <= n => t[k] \in SUBSET Anchors}
  <2>1. 0 \in S
    BY <1>9 DEF Anchors
  <2>2. ASSUME NEW k \in Nat, k \in S PROVE k + 1 \in S
    <3> SUFFICES ASSUME k + 1 <= n PROVE t[k + 1] \in SUBSET Anchors
      OBVIOUS
    <3>1. k + 1 \in 1 .. n /\ (k + 1) - 1 = k /\ t[k] \in SUBSET Anchors
      BY <1>1, <2>2
    <3>2. HashOf(snapshot, lines, pairs, t[k], k + 1) \in Anchors
      BY <3>1, HashOfType
    <3> QED
      BY <1>10, <3>1, <3>2
  <2>3. S = Nat
    <3>1. S \in SUBSET Nat
      OBVIOUS
    <3> HIDE DEF S
    <3> QED
      BY <2>1, <2>2, <3>1, Induction
  <2> QED
    BY <1>1, <2>3
<1> QED
  BY <1>9, <1>10, <1>11 DEF IsTaken, t

\* Every line has one slot of its own, and that of a line of the snapshot exactly
\* if they are paired.
FollowPairs(h, hashes, m, n, pairs) ==
    /\ h \in [1 .. n -> Slots] /\ IsInjective(h)
    /\ \A i \in 1 .. m, j \in 1 .. n : hashes[i] = h[j] <=> <<i, j>> \in pairs

Hashed(hashes, m) == hashes \in [1 .. m -> Slots] /\ IsInjective(hashes)
Paired(pairs, m, n) == pairs \in SUBSET ((1 .. m) \X (1 .. n)) /\ OneToOne(pairs)

LEMMA HashesFollowPairs ==
    ASSUME NEW m \in Nat, NEW snapshot, Hashed(snapshot.hashes, m),
           NEW n, NEW lines, IsText(lines, n), NEW pairs, Paired(pairs, m, n),
           NEW h, h = HashesFrom(snapshot, lines, pairs), Full \notin Range(h)
    PROVE  FollowPairs(h, snapshot.hashes, m, n, pairs)
<1>1. /\ snapshot.hashes \in [1 .. m -> Slots] /\ IsInjective(snapshot.hashes)
      /\ pairs \in SUBSET ((1 .. m) \X (1 .. n)) /\ OneToOne(pairs)
  BY DEF Hashed, Paired
<1>2. PICK t : t = Taken(snapshot, lines, pairs)
  OBVIOUS
<1>3. n \in Nat /\ DOMAIN lines = 1 .. n /\ DOMAIN snapshot.hashes = 1 .. m
  BY <1>1 DEF IsText
<1>4. IsTaken(t, snapshot, lines, n, pairs)
  <2>1. Occupied(snapshot, pairs) \subseteq Slots
    BY <1>1, <1>3 DEF Occupied
  <2>2. IsText(lines, n)
    OBVIOUS
  <2>3. snapshot.hashes \in [1 .. m -> Slots]
    BY <1>1
  <2>4. IsTaken(Taken(snapshot, lines, pairs), snapshot, lines, n, pairs)
    BY <2>1, <2>2, <2>3, TakenIsDefined
  <2> QED
    BY <1>2, <2>4
<1>5. DOMAIN h = 1 .. n /\ \A i \in 1 .. n : h[i] = HashOf(snapshot, lines, pairs, t[i - 1], i)
  BY <1>2, <1>3 DEF HashesFrom
<1>6. ASSUME NEW i \in 1 .. n PROVE h[i] \in Slots
  <2>1. HashOf(snapshot, lines, pairs, t[i - 1], i) \in Anchors
    <3>1. snapshot.hashes \in [1 .. m -> Slots]
      BY <1>1
    <3>2. PICK occupied : occupied = t[i - 1]
      OBVIOUS
    <3>3. IsText(lines, n)
      OBVIOUS
    <3>4. HashOf(snapshot, lines, pairs, occupied, i) \in Anchors
      BY <3>1, <3>3, HashOfType
    <3> QED
      BY <3>2, <3>4
  <2>2. h[i] # Full
    BY <1>5 DEF Range
  <2> QED
    BY <1>5, <2>1, <2>2 DEF Anchors
<1>7. ASSUME NEW j \in 1 .. n, NEW i \in 1 .. m, <<i, j>> \in pairs
      PROVE  h[j] = snapshot.hashes[i]
  <2> DEFINE kept == {k \in DOMAIN snapshot.hashes : <<k, j>> \in pairs}
  <2>1. kept = {i}
    <3>1. ASSUME NEW k \in 1 .. m, <<k, j>> \in pairs PROVE k = i
      BY <1>1, <1>7, <3>1 DEF OneToOne
    <3> QED
      BY <1>3, <1>7, <3>1
  <2>2. (CHOOSE k \in kept : TRUE) = i
    BY <2>1
  <2> QED
    BY <1>5, <2>1, <2>2 DEF HashOf
<1>8. ASSUME NEW j \in 1 .. n, \A i \in 1 .. m : <<i, j>> \notin pairs
      PROVE  h[j] \notin t[j - 1]
  <2>1. h[j] = AllocateOne(lines[j], t[j - 1])
    <3>1. {k \in DOMAIN snapshot.hashes : <<k, j>> \in pairs} = {}
      BY <1>3, <1>8
    <3> QED
      BY <1>5, <3>1 DEF HashOf
  <2>2. lines[j] \in Lines
    BY DEF IsText
  <2>3. h[j] # Full
    BY <1>5 DEF Range
  <2> QED
    BY <2>1, <2>2, <2>3, AllocatesFreeSlots
<1>9. ASSUME NEW i \in 0 .. n
      PROVE  /\ \A k \in 1 .. m : snapshot.hashes[k] \in t[i]
             /\ \A k \in 1 .. i : h[k] \in t[i]
  <2> DEFINE Q(x) == /\ \A k \in 1 .. m : snapshot.hashes[k] \in t[x]
                     /\ \A k \in 1 .. x : h[k] \in t[x]
             S == {x \in Nat : x <= n => Q(x)}
  <2>1. 0 \in S
    BY <1>3, <1>4 DEF IsTaken, Occupied
  <2>2. ASSUME NEW x \in Nat, x \in S PROVE x + 1 \in S
    <3> SUFFICES ASSUME x + 1 <= n PROVE Q(x + 1)
      OBVIOUS
    <3>1. x + 1 \in 1 .. n /\ (x + 1) - 1 = x /\ Q(x)
      BY <1>3, <2>2
    <3>2. t[x + 1] = t[x] \cup {h[x + 1]}
      BY <1>4, <1>5, <3>1 DEF IsTaken
    <3>3. \A k \in 1 .. x + 1 : k \in 1 .. x \/ k = x + 1
      OBVIOUS
    <3> QED
      BY <3>1, <3>2, <3>3
  <2>3. S = Nat
    <3>1. S \in SUBSET Nat
      OBVIOUS
    <3> HIDE DEF S
    <3> QED
      BY <2>1, <2>2, <3>1, Induction
  <2> QED
    BY <1>3, <2>3
<1>10. ASSUME NEW i \in 1 .. m, NEW j \in 1 .. n, snapshot.hashes[i] = h[j]
       PROVE  <<i, j>> \in pairs
  <2>1. j - 1 \in 0 .. n
    BY <1>3
  <2>2. PICK k \in 1 .. m : <<k, j>> \in pairs
    BY <1>8, <1>9, <1>10, <2>1
  <2>3. snapshot.hashes[k] = snapshot.hashes[i]
    BY <1>7, <1>10, <2>2
  <2>4. k = i
    BY <1>1, <1>3, <2>3 DEF IsInjective
  <2> QED
    BY <2>2, <2>4
<1>11. ASSUME NEW j \in 1 .. n, NEW k \in 1 .. n, h[j] = h[k], j < k PROVE FALSE
  <2>1. k - 1 \in 0 .. n /\ j \in 1 .. k - 1
    BY <1>3, <1>11
  <2>2. h[k] \in t[k - 1]
    BY <1>9, <1>11, <2>1
  <2>3. PICK i \in 1 .. m : <<i, k>> \in pairs
    BY <1>8, <2>2
  <2>4. <<i, j>> \in pairs
    BY <1>7, <1>10, <1>11, <2>3
  <2> QED
    BY <1>1, <1>3, <1>11, <2>3, <2>4 DEF OneToOne
<1>12. IsInjective(h)
  <2> SUFFICES ASSUME NEW j \in 1 .. n, NEW k \in 1 .. n, h[j] = h[k], j # k PROVE FALSE
    BY <1>5 DEF IsInjective
  <2>1. j < k \/ k < j
    BY <1>3
  <2> QED
    BY <1>11, <2>1
<1>13. h \in [1 .. n -> Slots]
  <2>1. h = [i \in 1 .. n |-> h[i]]
    BY <1>3 DEF HashesFrom
  <2> QED
    BY <1>6, <2>1
<1> QED
  BY <1>7, <1>10, <1>12, <1>13 DEF FollowPairs

LEMMA SmallerOfTwo ==
    ASSUME NEW a \in Nat, NEW b \in Nat
    PROVE  a <= b => Min({a, b}) = a /\ Min({b, a}) = a
<1> SUFFICES ASSUME a <= b PROVE Min({a, b}) = a /\ Min({b, a}) = a
  OBVIOUS
<1>1. \A x \in {a, b} : (\A y \in {a, b} : x <= y) <=> x = a
  OBVIOUS
<1>2. Min({a, b}) = a
  BY <1>1 DEF Min
<1>3. {b, a} = {a, b}
  OBVIOUS
<1> QED
  BY <1>2, <1>3

\* As many are paired as there are on the smaller side.
LEMMA PairsAreCounted ==
    ASSUME NEW old, NEW new, NEW pairs, IsFiniteSet(old), IsFiniteSet(new),
           OneToOne(pairs),
           \/ \A i \in old : \E j \in new : <<i, j>> \in pairs
           \/ \A j \in new : \E i \in old : <<i, j>> \in pairs
    PROVE  Cardinality({j \in new : \E i \in old : <<i, j>> \in pairs})
               = Min({Cardinality(old), Cardinality(new)})
<1>1. PICK paired : paired = {j \in new : \E i \in old : <<i, j>> \in pairs}
  OBVIOUS
<1>2. Cardinality(old) \in Nat /\ Cardinality(new) \in Nat
  BY FS_CardinalityType
<1>3. ASSUME NEW i, NEW j, NEW k, <<i, j>> \in pairs, <<i, k>> \in pairs PROVE j = k
  BY <1>3 DEF OneToOne
<1>4. ASSUME NEW i, NEW j, NEW k, <<i, j>> \in pairs, <<k, j>> \in pairs PROVE i = k
  BY <1>4 DEF OneToOne
<1>5. CASE \A i \in old : \E j \in new : <<i, j>> \in pairs
  <2> DEFINE f == [i \in old |-> CHOOSE j \in new : <<i, j>> \in pairs]
  <2>1. ASSUME NEW i \in old PROVE f[i] \in paired /\ <<i, f[i]>> \in pairs
    <3>1. \E j \in new : <<i, j>> \in pairs
      BY <1>5
    <3>2. f[i] \in new /\ <<i, f[i]>> \in pairs
      BY <3>1
    <3>3. PICK k \in new : k = f[i] /\ <<i, k>> \in pairs
      BY <3>2
    <3> HIDE DEF f
    <3>4. k \in paired
      BY <1>1, <3>3
    <3> QED
      BY <3>3, <3>4
  <2>2. f \in [old -> paired]
    BY <2>1
  <2> HIDE DEF f
  <2>3. \A i, k \in old : f[i] = f[k] => i = k
    BY <1>4, <2>1
  <2>4. \A j \in paired : \E i \in old : f[i] = j
    BY <1>1, <1>3, <2>1
  <2>5. f \in Bijection(old, paired)
    BY <2>2, <2>3, <2>4 DEF Bijection, Injection, Surjection, IsInjective
  <2>6. Cardinality(paired) = Cardinality(old)
    BY <2>5, FS_Bijection DEF ExistsBijection
  <2>7. paired \in SUBSET new
    BY <1>1
  <2>8. Cardinality(paired) <= Cardinality(new)
    BY <2>7, FS_Subset
  <2> QED
    BY <1>1, <1>2, <2>6, <2>8, SmallerOfTwo
<1>6. CASE \A j \in new : \E i \in old : <<i, j>> \in pairs
  <2> DEFINE f == [j \in new |-> CHOOSE i \in old : <<i, j>> \in pairs]
  <2>1. \A j \in new : f[j] \in old /\ <<f[j], j>> \in pairs
    BY <1>6
  <2>2. f \in [new -> old]
    BY <2>1
  <2> HIDE DEF f
  <2>3. \A j, k \in new : f[j] = f[k] => j = k
    BY <1>3, <2>1
  <2>4. f \in Injection(new, old)
    BY <2>2, <2>3 DEF Injection, IsInjective
  <2>5. Cardinality(new) <= Cardinality(old)
    BY <2>4, FS_Injection
  <2>6. paired = new
    BY <1>1, <1>6
  <2> QED
    BY <1>1, <1>2, <2>5, <2>6, SmallerOfTwo
<1> QED
  BY <1>5, <1>6

\* What the store holds of a file.
Stored == {s \in Snapshots \cup {NoSnapshot} : IsInjective(s.hashes)}

LEMMA PositionsAreFinite ==
    ASSUME NEW n \in Nat, NEW lines, DOMAIN lines = 1 .. n, NEW line
    PROVE  IsFiniteSet(PositionsOf(lines, line)) /\ Cardinality(PositionsOf(lines, line)) \in Nat
<1>1. IsFiniteSet(1 .. n)
  BY FS_Interval
<1>2. PositionsOf(lines, line) \in SUBSET (1 .. n)
  BY DEF PositionsOf
<1> QED
  BY <1>1, <1>2, FS_Subset, FS_CardinalityType

\* The hashes of a text follow its lines from the stored snapshot, whatever the
\* snapshot is, however long the two are and whatever slots their lines start from.
LEMMA HashesFollowLines ==
    ASSUME NEW old \in Stored, NEW lines \in Texts, NEW new,
           new = [lines |-> lines, hashes |-> HashesFromSnapshot(old, lines)],
           Full \notin Range(new.hashes)
    PROVE  new \in Snapshots /\ IsInjective(new.hashes) /\ Follows(old, new)
<1>1. PICK n \in 1 .. MaxLines : lines \in [1 .. n -> Lines]
  BY DEF Texts
<1>2. MaxLines \in Nat /\ n \in Nat /\ IsText(lines, n) /\ DOMAIN lines = 1 .. n
  BY <1>1, LineAnchorsAssumption DEF IsText
<1>3. ASSUME new.hashes \in [1 .. n -> Slots] PROVE new \in Snapshots
  BY <1>1, <1>3 DEF Snapshots
<1>4. CASE old = NoSnapshot
  <2>1. Hashed(NoSnapshot.hashes, 0)
    BY DEF Hashed, NoSnapshot, IsInjective
  <2>2. Paired({}, 0, n)
    BY DEF Paired, OneToOne
  <2>3. PICK h : h = new.hashes /\ h = HashesFrom(NoSnapshot, lines, {}) /\ Full \notin Range(h)
    BY <1>4 DEF HashesFromSnapshot, AllocateHashes
  <2>4. new.hashes \in [1 .. n -> Slots] /\ IsInjective(new.hashes)
    <3>1. IsText(lines, n)
      BY <1>2
    <3>2. h = HashesFrom(NoSnapshot, lines, {})
      BY <2>3
    <3>3. Full \notin Range(h)
      BY <2>3
    <3>4. 0 \in Nat
      OBVIOUS
    <3>5. FollowPairs(h, NoSnapshot.hashes, 0, n, {})
      BY <2>1, <2>2, <3>1, <3>2, <3>3, <3>4, HashesFollowPairs
    <3> QED
      BY <2>3, <3>5 DEF FollowPairs
  <2>5. DOMAIN old.hashes = {} /\ Range(old.hashes) = {} /\ DOMAIN old.lines = {}
    BY <1>4 DEF NoSnapshot, Range
  <2>6. ASSUME NEW line \in Lines
        PROVE  /\ Cardinality(Keeping(old, new, line))
                    = Min({Cardinality(PositionsOf(old.lines, line)), Cardinality(PositionsOf(new.lines, line))})
               /\ PositionsOf(old.lines, line) = {}
    <3>1. {j \in PositionsOf(new.lines, line) : new.hashes[j] \in Range(old.hashes)} = {}
          /\ PositionsOf(old.lines, line) = {}
      BY <2>5 DEF PositionsOf
    <3>2. Cardinality({}) = 0
      BY FS_EmptySet
    <3>3. PICK k \in Nat : k = Cardinality(PositionsOf(new.lines, line))
      BY <1>2, PositionsAreFinite
    <3>4. Min({0, k}) = 0
      BY <3>3, SmallerOfTwo
    <3> QED
      BY <3>1, <3>2, <3>3, <3>4 DEF Keeping
  <2> QED
    BY <1>3, <2>4, <2>5, <2>6 DEF Follows
<1>5. CASE old # NoSnapshot
  <2>1. PICK m \in 1 .. MaxLines : old \in [lines : [1 .. m -> Lines], hashes : [1 .. m -> Slots]]
    BY <1>5 DEF Stored, Snapshots
  <2>2. /\ m \in Nat /\ IsText(old.lines, m) /\ old.hashes \in [1 .. m -> Slots]
        /\ IsInjective(old.hashes) /\ DOMAIN old.hashes = 1 .. m /\ DOMAIN old.lines = 1 .. m
    BY <1>2, <2>1 DEF IsText, Stored
  <2>3. CASE old.lines = lines
    <3>1. new.hashes = old.hashes /\ new.lines = old.lines
      BY <1>5, <2>3 DEF HashesFromSnapshot
    <3>2. m = n
      BY <1>2, <2>2, <2>3
    <3>3. ASSUME NEW line \in Lines
          PROVE  Cardinality(Keeping(old, new, line))
                   = Min({Cardinality(PositionsOf(old.lines, line)), Cardinality(PositionsOf(new.lines, line))})
      <4>1. {j \in PositionsOf(new.lines, line) : new.hashes[j] \in Range(old.hashes)}
              = PositionsOf(old.lines, line)
        BY <2>2, <3>1 DEF PositionsOf, Range
      <4>2. PICK k \in Nat : k = Cardinality(PositionsOf(old.lines, line))
        BY <2>2, PositionsAreFinite
      <4>3. Min({k, k}) = k
        BY SmallerOfTwo
      <4> QED
        BY <3>1, <4>1, <4>2, <4>3 DEF Keeping
    <3>4. \A i \in DOMAIN old.hashes, j \in DOMAIN new.hashes :
              old.hashes[i] = new.hashes[j] => old.lines[i] = new.lines[j]
      BY <2>2, <3>1 DEF IsInjective
    <3>5. new \in Snapshots
      BY <1>3, <2>2, <3>1, <3>2
    <3> QED
      BY <2>2, <3>1, <3>3, <3>4, <3>5 DEF Follows
  <2>4. CASE old.lines # lines
    <3>1. PICK K : K = KeptPairs(old.lines, lines)
      OBVIOUS
    <3>2. Keeps(K, old.lines, lines, m, n)
      BY <1>2, <2>2, <3>1, KeptPairsMatch
    <3>10. K \in SUBSET ((1 .. m) \X (1 .. n)) /\ OneToOne(K)
      BY <3>2 DEF Keeps
    <3>3. PICK h : h = new.hashes /\ h = HashesFrom(old, lines, K) /\ Full \notin Range(h)
      BY <1>5, <2>4, <3>1 DEF HashesFromSnapshot, StableHashes
    <3>4. /\ h \in [1 .. n -> Slots] /\ IsInjective(h)
          /\ \A i \in 1 .. m, j \in 1 .. n : old.hashes[i] = h[j] <=> <<i, j>> \in K
      <4>1. Hashed(old.hashes, m)
        BY <2>2 DEF Hashed
      <4>2. Paired(K, m, n)
        BY <3>10 DEF Paired
      <4>3. IsText(lines, n)
        BY <1>2
      <4>4. h = HashesFrom(old, lines, K)
        BY <3>3
      <4>5. Full \notin Range(h)
        BY <3>3
      <4>6. m \in Nat
        BY <2>2
      <4>7. FollowPairs(h, old.hashes, m, n, K)
        BY <4>1, <4>2, <4>3, <4>4, <4>5, <4>6, HashesFollowPairs
      <4> QED
        BY <4>7 DEF FollowPairs
    <3>5. ASSUME NEW i \in 1 .. m, NEW j \in 1 .. n, old.hashes[i] = h[j]
          PROVE  old.lines[i] = lines[j] /\ <<i, j>> \in K
      BY <3>2, <3>4, <3>5 DEF Keeps
    <3>6. ASSUME NEW line \in Lines
          PROVE  Cardinality(Keeping(old, new, line))
                   = Min({Cardinality(PositionsOf(old.lines, line)), Cardinality(PositionsOf(lines, line))})
      <4>1. {j \in PositionsOf(lines, line) : h[j] \in Range(old.hashes)}
              = {j \in PositionsOf(lines, line) : \E i \in PositionsOf(old.lines, line) : <<i, j>> \in K}
        <5>1. ASSUME NEW j \in PositionsOf(lines, line)
              PROVE  h[j] \in Range(old.hashes)
                       <=> \E i \in PositionsOf(old.lines, line) : <<i, j>> \in K
          <6>1. j \in 1 .. n /\ lines[j] = line
            BY <1>2 DEF PositionsOf
          <6>2. h[j] \in Range(old.hashes) <=> \E i \in 1 .. m : old.hashes[i] = h[j]
            BY <2>2 DEF Range
          <6>3. \A i \in 1 .. m : i \in PositionsOf(old.lines, line) <=> old.lines[i] = line
            BY <2>2 DEF PositionsOf
          <6>4. PositionsOf(old.lines, line) \subseteq 1 .. m
            BY <2>2 DEF PositionsOf
          <6> QED
            BY <3>4, <3>5, <6>1, <6>2, <6>3, <6>4
        <5> QED
          BY <5>1
      <4>2. IsFiniteSet(PositionsOf(lines, line)) /\ IsFiniteSet(PositionsOf(old.lines, line))
        BY <1>2, <2>2, PositionsAreFinite
      <4>3. \/ \A i \in PositionsOf(old.lines, line) : \E j \in PositionsOf(lines, line) : <<i, j>> \in K
            \/ \A j \in PositionsOf(lines, line) : \E i \in PositionsOf(old.lines, line) : <<i, j>> \in K
        BY <3>2 DEF Keeps
      <4>4. Cardinality({j \in PositionsOf(lines, line) :
                            \E i \in PositionsOf(old.lines, line) : <<i, j>> \in K})
              = Min({Cardinality(PositionsOf(old.lines, line)), Cardinality(PositionsOf(lines, line))})
        BY <3>10, <4>2, <4>3, PairsAreCounted
      <4>5. Keeping(old, new, line) = {j \in PositionsOf(lines, line) : h[j] \in Range(old.hashes)}
        BY <3>3 DEF Keeping
      <4> QED
        BY <4>1, <4>4, <4>5
    <3>7. new.lines = lines /\ new.hashes = h /\ DOMAIN h = 1 .. n
      BY <3>3, <3>4
    <3>8. new \in Snapshots
      BY <1>3, <3>4, <3>7
    <3>9. \A i \in DOMAIN old.hashes, j \in DOMAIN new.hashes :
              old.hashes[i] = new.hashes[j] => old.lines[i] = new.lines[j]
      <4> SUFFICES ASSUME NEW i \in 1 .. m, NEW j \in 1 .. n, old.hashes[i] = h[j]
                   PROVE  old.lines[i] = lines[j]
        BY <2>2, <3>7
      <4> QED
        BY <3>5
    <3>11. ASSUME NEW line \in Lines, PositionsOf(old.lines, line) \subseteq PositionsOf(lines, line),
                  NEW i \in PositionsOf(old.lines, line)
           PROVE  h[i] = old.hashes[i]
      <4>1. PICK first \in Lines : first = line
        OBVIOUS
      <4>2. PICK before : before = old.lines
        OBVIOUS
      <4>3. IsText(before, m)
        BY <2>2, <4>2
      <4>4. IsText(lines, n)
        BY <1>2
      <4>5. PositionsOf(before, first) \subseteq PositionsOf(lines, first)
        BY <3>11, <4>1, <4>2
      <4>6. \A k \in PositionsOf(before, first) : <<k, k>> \in KeptPairs(before, lines)
        BY <4>3, <4>4, <4>5, KeptPairsStay
      <4>7. <<i, i>> \in K /\ i \in 1 .. m /\ i \in 1 .. n
        BY <1>2, <2>2, <3>1, <3>11, <4>1, <4>2, <4>6 DEF PositionsOf
      <4> QED
        BY <3>4, <4>7
    <3> QED
      BY <3>4, <3>6, <3>7, <3>8, <3>9, <3>11 DEF Follows
  <2> QED
    BY <2>3, <2>4
<1> QED
  BY <1>4, <1>5

-----------------------------------------------------------------------------
(***************************************************************************)
(* The file tools: an agent replaces only what its session has seen, for   *)
(* any number of sessions, files, links, calls and changes from outside.   *)
(***************************************************************************)

-----------------------------------------------------------------------------
(* The shape of the state *)

Shape ==
    /\ files = [f \in Files |-> files[f]] /\ target \in [Names -> Files]
    /\ observations = [s \in Sessions |-> [n \in Names |-> observations[s][n]]]
    /\ calls = [c \in Calls |-> calls[c]] /\ seen = [s \in Sessions |-> seen[s]]

\* The calls that go on when they are dropped.
Changing(r) ==
    \/ r.pc = "save" /\ r = [pc |-> r.pc, session |-> r.session, dropped |-> r.dropped,
                             name |-> r.name, file |-> r.file, read |-> r.read, snapshot |-> r.snapshot]
    \/ r.pc = "replace" /\ r = [pc |-> r.pc, session |-> r.session, dropped |-> r.dropped,
                                name |-> r.name, file |-> r.file, text |-> r.text, new |-> r.new]
    \/ r.pc = "create" /\ r = [pc |-> r.pc, session |-> r.session, dropped |-> r.dropped,
                               name |-> r.name, file |-> r.file, new |-> r.new]
    \/ r.pc = "overwrite" /\ r = [pc |-> r.pc, session |-> r.session, dropped |-> r.dropped,
                                  name |-> r.name, file |-> r.file, new |-> r.new,
                                  expected |-> r.expected]

\* What call r is about to replace, its session has seen.
Entitled(r) ==
    /\ r.pc \in {"find", "replace"} => <<r.file, r.text>> \in seen[r.session]
    /\ r.pc = "overwrite" => <<r.file, r.expected.text>> \in seen[r.session]

CallInv(r) ==
    \/ r = Idle
    \/ /\ r.session \in Sessions /\ r.name \in Names /\ Entitled(r)
       /\ r.pc \in {"load", "find", "reread"} \/ Changing(r)

\* Whatever counts as observed has been seen.
Known(s, observation) ==
    observation = None \/ <<observation.file, observation.text>> \in seen[s]

SeenInv ==
    /\ Shape
    /\ \A s \in Sessions, n \in Names : Known(s, observations[s][n])
    /\ \A c \in Calls : CallInv(calls[c])

LEMMA ObservedIsSeen ==
    ASSUME SeenInv, NEW s \in Sessions, NEW n \in Names,
           Observed(s, n) # None, Fresh(n, Observed(s, n))
    PROVE  <<target[n], files[target[n]]>> \in seen[s]
<1>1. target[n] \in Names
  BY FileToolsAssumption DEF SeenInv, Shape
<1>2. Known(s, Observed(s, n))
  BY <1>1 DEF SeenInv, Observed
<1> QED
  BY <1>2 DEF Known, Fresh

-----------------------------------------------------------------------------
(* What steps do *)

LEMMA RecordKeeps ==
    ASSUME SeenInv, NEW s \in Sessions, NEW n, NEW f, NEW text,
           observations' = Record(s, n, f, text), Seen(s, f, text)
    PROVE  /\ observations' = [t \in Sessions |-> [m \in Names |-> observations'[t][m]]]
           /\ seen' = [t \in Sessions |-> seen'[t]]
           /\ \A t \in Sessions : seen[t] \subseteq seen'[t]
           /\ \A t \in Sessions, m \in Names : Known(t, observations[t][m])'
<1>1. /\ seen' = [t \in Sessions |-> seen'[t]] /\ <<f, text>> \in seen'[s]
      /\ \A t \in Sessions : seen[t] \subseteq seen'[t]
  BY DEF SeenInv, Shape, Seen
<1>2. observations' = [t \in Sessions |-> [m \in Names |->
          IF t = s /\ m \in {n, f} THEN [file |-> f, text |-> text] ELSE observations[t][m]]]
  BY DEF SeenInv, Shape, Record
<1>3. \A t \in Sessions, m \in Names : Known(t, observations[t][m])'
  <2> SUFFICES ASSUME NEW t \in Sessions, NEW m \in Names PROVE Known(t, observations[t][m])'
    OBVIOUS
  <2>1. Known(t, observations[t][m])
    BY DEF SeenInv
  <2>2. CASE t = s /\ m \in {n, f}
    <3>1. observations'[t][m] = [file |-> f, text |-> text]
      BY <1>2, <2>2
    <3> QED
      BY <1>1, <2>2, <3>1 DEF Known
  <2>3. CASE ~(t = s /\ m \in {n, f})
    <3>1. observations'[t][m] = observations[t][m]
      BY <1>2, <2>3
    <3> QED
      BY <1>1, <2>1, <3>1 DEF Known
  <2> QED
    BY <2>2, <2>3
<1> QED
  BY <1>1, <1>2, <1>3

LEMMA ForgetKeeps ==
    ASSUME SeenInv, NEW s \in Sessions, NEW observation,
           observations' = Forget(s, observation), UNCHANGED seen
    PROVE  /\ observations' = [t \in Sessions |-> [m \in Names |-> observations'[t][m]]]
           /\ \A t \in Sessions, m \in Names : Known(t, observations[t][m])'
<1>1. observations' = [t \in Sessions |-> [m \in Names |->
          IF t = s /\ observations[t][m].file = observation.file
          THEN None ELSE observations[t][m]]]
  BY DEF SeenInv, Shape, Forget
<1>2. \A t \in Sessions, m \in Names :
          observations'[t][m] = None \/ observations'[t][m] = observations[t][m]
  BY <1>1
<1> QED
  BY <1>1, <1>2 DEF SeenInv, Known

\* A step of one call, or of none, as the invariant sees it.
LEMMA StepKeeps ==
    ASSUME SeenInv, NEW c \in Calls, NEW r, calls' = [calls EXCEPT ![c] = r],
           CallInv(r)', UNCHANGED target,
           files' = [f \in Files |-> files'[f]], seen' = [s \in Sessions |-> seen'[s]],
           observations' = [s \in Sessions |-> [n \in Names |-> observations'[s][n]]],
           \A s \in Sessions : seen[s] \subseteq seen'[s],
           \A s \in Sessions, n \in Names : Known(s, observations[s][n])'
    PROVE  SeenInv'
<1>1. /\ calls' = [d \in Calls |-> calls'[d]] /\ calls'[c] = r
      /\ \A d \in Calls : d # c => calls'[d] = calls[d]
  BY DEF SeenInv, Shape
<1>2. ASSUME NEW d \in Calls PROVE CallInv(calls[d])'
  <2>1. CASE d = c
    BY <1>1, <2>1 DEF CallInv, Entitled
  <2>2. CASE d # c
    <3>1. CallInv(calls[d]) /\ calls'[d] = calls[d]
      BY <1>1, <2>2 DEF SeenInv
    <3> QED
      BY <3>1 DEF CallInv, Entitled, Changing
  <2> QED
    BY <2>1, <2>2
<1> QED
  BY <1>1, <1>2 DEF SeenInv, Shape


\* A step that leaves files, observations and what was seen alone.
LEMMA QuietStepKeeps ==
    ASSUME SeenInv, NEW c \in Calls, NEW r, Goes(c, r), CallInv(r),
           UNCHANGED <<files, target, observations, seen>>
    PROVE  SeenInv'
<1>1. CallInv(r)'
  BY DEF CallInv, Entitled, Changing
<1>2. \A s \in Sessions, n \in Names : Known(s, observations[s][n])'
  BY DEF SeenInv, Known
<1> QED
  BY <1>1, <1>2, StepKeeps DEF SeenInv, Shape, Goes

LEMMA EndKeeps ==
    ASSUME SeenInv, NEW c \in Calls, Ends(c), UNCHANGED <<files, target, observations, seen>>
    PROVE  SeenInv'
BY QuietStepKeeps DEF Ends, CallInv

LEMMA ForgetEndKeeps ==
    ASSUME SeenInv, NEW c \in Calls, NEW s \in Sessions, NEW observation, Ends(c),
           observations' = Forget(s, observation), UNCHANGED <<files, target, seen>>
    PROVE  SeenInv'
<1>1. CallInv(Idle)'
  BY DEF CallInv, Idle
<1> QED
  BY <1>1, ForgetKeeps, StepKeeps DEF SeenInv, Shape, Ends, Goes

\* The file that a call installs, and sees.
LEMMA InstallKeeps ==
    ASSUME SeenInv, NEW c \in Calls, NEW mine, mine.session \in Sessions, Installed(mine),
           NEW r, Goes(c, r),
           r = Idle \/ (r.pc = "reread" /\ r.session \in Sessions /\ r.name \in Names),
           UNCHANGED target
    PROVE  SeenInv'
<1>1. CallInv(r)'
  BY DEF CallInv, Entitled
<1>2. files' = [f \in Files |-> files'[f]]
  BY DEF Installed, SeenInv, Shape
<1> QED
  BY <1>1, <1>2, RecordKeeps, StepKeeps DEF Installed, Goes

LEMMA CollectKeeps ==
    ASSUME SeenInv, NEW c \in Calls, NEW s \in Sessions, NEW n \in Names, Collect(c, s, n),
           UNCHANGED <<files, target, observations, seen>>
    PROVE  SeenInv'
<1>1. CASE Exists(n)
  <2> DEFINE r == [pc |-> "load", session |-> s, dropped |-> FALSE, name |-> n,
                   file |-> target[n], text |-> files[target[n]]]
  <2>1. Goes(c, r) /\ CallInv(r)
    BY <1>1 DEF Collect, CallInv, Entitled
  <2> QED
    BY <2>1, QuietStepKeeps
<1>2. CASE ~Exists(n)
  BY <1>2, EndKeeps DEF Collect
<1> QED
  BY <1>1, <1>2

LEMMA CollectObservedKeeps ==
    ASSUME SeenInv, NEW c \in Calls, NEW s \in Sessions, NEW n \in Names, NEW mine,
           CollectObserved(c, s, n, mine), UNCHANGED <<files, target, seen>>,
           Observed(s, n) # None /\ Fresh(n, Observed(s, n)) => CallInv(mine)
    PROVE  SeenInv'
<1>1. CASE ~Exists(n)
  BY <1>1, EndKeeps, ForgetEndKeeps DEF CollectObserved
<1>2. CASE Exists(n) /\ Observed(s, n) = None
  BY <1>2, EndKeeps DEF CollectObserved
<1>3. CASE Exists(n) /\ Observed(s, n) # None /\ ~Fresh(n, Observed(s, n))
  BY <1>3, ForgetEndKeeps DEF CollectObserved
<1>4. CASE Exists(n) /\ Observed(s, n) # None /\ Fresh(n, Observed(s, n))
  BY <1>4, QuietStepKeeps DEF CollectObserved
<1> QED
  BY <1>1, <1>2, <1>3, <1>4

-----------------------------------------------------------------------------
(* The actions *)

LEMMA StartsKeep ==
    ASSUME SeenInv, NEW c \in Calls, NEW s \in Sessions, NEW n \in Names,
           \/ StartRead(c, s, n)
           \/ \E from, to \in 1 .. MaxLines, lines \in Inserted :
                 StartEdit(c, s, n, from, to, lines)
           \/ \E text \in Written : StartWrite(c, s, n, text)
    PROVE  SeenInv'
<1>1. CASE StartRead(c, s, n)
  BY <1>1, CollectKeeps DEF StartRead
<1>2. ASSUME NEW from \in 1 .. MaxLines, NEW to \in 1 .. MaxLines, NEW lines \in Inserted,
             StartEdit(c, s, n, from, to, lines)
      PROVE  SeenInv'
  <2> DEFINE mine == [pc |-> "find", session |-> s, dropped |-> FALSE, name |-> n,
                      file |-> target[n], text |-> files[target[n]],
                      from |-> views[s][n].hashes[from], to |-> views[s][n].hashes[to],
                      lines |-> lines]
  <2>1. CollectObserved(c, s, n, mine) /\ UNCHANGED <<files, target, seen>>
    BY <1>2 DEF StartEdit
  <2>2. Observed(s, n) # None /\ Fresh(n, Observed(s, n)) => CallInv(mine)
    BY ObservedIsSeen DEF CallInv, Entitled
  <2> HIDE DEF mine
  <2> QED
    BY <2>1, <2>2, CollectObservedKeeps
<1>3. ASSUME NEW text \in Written, StartWrite(c, s, n, text) PROVE SeenInv'
  <2>0. UNCHANGED <<files, target, seen>>
    BY <1>3 DEF StartWrite
  <2>1. CASE Exists(n)
    <3> DEFINE mine == [pc |-> "overwrite", session |-> s, dropped |-> FALSE, name |-> n,
                        file |-> target[n], new |-> text, expected |-> Observed(s, n)]
    <3>1. CollectObserved(c, s, n, mine)
      BY <1>3, <2>1 DEF StartWrite
    <3>2. Observed(s, n) # None /\ Fresh(n, Observed(s, n)) => CallInv(mine)
      BY ObservedIsSeen DEF CallInv, Entitled, Changing, Fresh
    <3> HIDE DEF mine
    <3> QED
      BY <2>0, <3>1, <3>2, CollectObservedKeeps
  <2>2. CASE ~Exists(n) /\ observations[s][n] # None
    BY <1>3, <2>0, <2>2, ForgetEndKeeps DEF StartWrite
  <2>3. CASE ~Exists(n) /\ observations[s][n] = None
    <3> DEFINE mine == [pc |-> "create", session |-> s, dropped |-> FALSE, name |-> n,
                        file |-> target[n], new |-> text]
    <3>1. Goes(c, mine) /\ UNCHANGED observations
      BY <1>3, <2>3 DEF StartWrite
    <3>2. CallInv(mine)
      BY DEF CallInv, Entitled, Changing
    <3> QED
      BY <2>0, <3>1, <3>2, QuietStepKeeps
  <2> QED
    BY <2>1, <2>2, <2>3
<1> QED
  BY <1>1, <1>2, <1>3

LEMMA CallsKeep ==
    ASSUME SeenInv, NEW c \in Calls,
           \/ Reread(c) \/ Replace(c) \/ Overwrite(c) \/ Create(c) \/ Drop(c)
           \/ \E ok \in BOOLEAN : Load(c, ok) \/ Save(c, ok) \/ Find(c, ok)
    PROVE  SeenInv'
<1> DEFINE mine == calls[c]
<1>1. CallInv(mine) /\ calls = [d \in Calls |-> calls[d]]
  BY DEF SeenInv, Shape
<1>2. ASSUME mine.pc # "idle"
      PROVE  mine.session \in Sessions /\ mine.name \in Names /\ mine # Idle
  BY <1>1, <1>2 DEF CallInv, Idle
<1>3. CASE Reread(c)
  BY <1>2, <1>3, CollectKeeps DEF Reread, At
<1>4. ASSUME NEW ok \in BOOLEAN, Load(c, ok) PROVE SeenInv'
  <2>1. UNCHANGED <<files, target, observations, seen>> /\ mine.pc = "load"
    BY <1>4 DEF Load, At
  <2>2. CASE ~Ends(c)
    <3> DEFINE r == [pc |-> "save", session |-> mine.session, dropped |-> FALSE,
                     name |-> mine.name, file |-> mine.file, read |-> store[mine.file],
                     snapshot |-> [lines |-> mine.text,
                                   hashes |-> HashesFromSnapshot(store[mine.file], mine.text)]]
    <3>1. Goes(c, r)
      BY <1>4, <2>2 DEF Load
    <3>2. CallInv(r)
      BY <1>2, <2>1 DEF CallInv, Entitled, Changing
    <3> HIDE DEF r
    <3> QED
      BY <2>1, <3>1, <3>2, QuietStepKeeps
  <2>3. CASE Ends(c)
    BY <2>1, <2>3, EndKeeps
  <2> QED
    BY <2>2, <2>3
<1>5. ASSUME NEW ok \in BOOLEAN, Save(c, ok) PROVE SeenInv'
  <2>1. /\ UNCHANGED <<files, target>> /\ mine.pc = "save" /\ Ends(c)
        /\ \/ UNCHANGED <<observations, seen>>
           \/ /\ observations' = Record(mine.session, mine.name, mine.file, mine.snapshot.lines)
              /\ Seen(mine.session, mine.file, mine.snapshot.lines)
    BY <1>5 DEF Save, At
  <2>2. CASE UNCHANGED <<observations, seen>>
    BY <2>1, <2>2, EndKeeps
  <2>3. CASE /\ observations' = Record(mine.session, mine.name, mine.file, mine.snapshot.lines)
             /\ Seen(mine.session, mine.file, mine.snapshot.lines)
    <3>1. CallInv(Idle)'
      BY DEF CallInv
    <3>2. files' = [f \in Files |-> files'[f]]
      BY <2>1 DEF SeenInv, Shape
    <3> QED
      BY <1>2, <2>1, <2>3, <3>1, <3>2, RecordKeeps, StepKeeps DEF Ends, Goes
  <2> QED
    BY <2>1, <2>2, <2>3
<1>6. ASSUME NEW ok \in BOOLEAN, Find(c, ok) PROVE SeenInv'
  <2>1. UNCHANGED <<files, target, observations, seen>> /\ mine.pc = "find"
    BY <1>6 DEF Find, At
  <2>2. \/ Ends(c)
        \/ \E new : Goes(c, [pc |-> "replace", session |-> mine.session, dropped |-> FALSE,
                             name |-> mine.name, file |-> mine.file, text |-> mine.text,
                             new |-> new])
    BY <1>6 DEF Find
  <2>3. ASSUME NEW new, Goes(c, [pc |-> "replace", session |-> mine.session, dropped |-> FALSE,
                                 name |-> mine.name, file |-> mine.file, text |-> mine.text,
                                 new |-> new])
        PROVE  SeenInv'
    <3> DEFINE r == [pc |-> "replace", session |-> mine.session, dropped |-> FALSE,
                     name |-> mine.name, file |-> mine.file, text |-> mine.text, new |-> new]
    <3>1. CallInv(r)
      BY <1>1, <1>2, <2>1 DEF CallInv, Entitled, Changing, Idle
    <3> HIDE DEF r
    <3> QED
      BY <2>1, <2>3, <3>1, QuietStepKeeps DEF r
  <2> QED
    BY <2>1, <2>2, <2>3, EndKeeps
<1>7. CASE Replace(c)
  <2>1. UNCHANGED target /\ mine.pc = "replace"
    BY <1>7 DEF Replace, At
  <2>2. CASE files[mine.file] = mine.text
    <3>1. Installed(mine)
      BY <1>7, <2>2 DEF Replace, Installed
    <3>2. CASE mine.dropped
      BY <1>2, <1>7, <2>1, <2>2, <3>1, <3>2, InstallKeeps DEF Replace, Ends
    <3>3. CASE ~mine.dropped
      <4>1. calls' = [calls EXCEPT ![c].pc = "reread"]
        BY <1>7, <2>2, <3>3 DEF Replace, GoesOn
      <4>2. PICK r : r = [pc |-> "reread", session |-> mine.session, dropped |-> mine.dropped,
                          name |-> mine.name, file |-> mine.file, text |-> mine.text,
                          new |-> mine.new]
        OBVIOUS
      <4>3. mine = [pc |-> "replace", session |-> mine.session, dropped |-> mine.dropped,
                    name |-> mine.name, file |-> mine.file, text |-> mine.text, new |-> mine.new]
        BY <1>1, <1>2, <2>1 DEF CallInv, Changing
      <4>4. [mine EXCEPT !.pc = "reread"] = r
        BY <4>2, <4>3
      <4>5. Goes(c, r)
        BY <4>1, <4>4 DEF Goes
      <4>6. r.pc = "reread" /\ r.session \in Sessions /\ r.name \in Names
        BY <1>2, <2>1, <4>2
      <4> QED
        BY <1>2, <2>1, <3>1, <4>5, <4>6, InstallKeeps
    <3> QED
      BY <3>2, <3>3
  <2>3. CASE files[mine.file] # mine.text
    BY <1>7, <2>1, <2>3, EndKeeps DEF Replace
  <2> QED
    BY <2>2, <2>3
<1>8. CASE Overwrite(c)
  <2>1. UNCHANGED target /\ mine.pc = "overwrite" /\ Ends(c)
    BY <1>8 DEF Overwrite, At
  <2>2. CASE files[mine.file] = mine.expected.text /\ Installed(mine)
    BY <1>2, <2>1, <2>2, InstallKeeps DEF Ends
  <2>3. CASE UNCHANGED <<files, observations, seen>>
    BY <2>1, <2>3, EndKeeps
  <2>4. CASE observations' = Forget(mine.session, mine.expected) /\ UNCHANGED <<files, seen>>
    BY <1>2, <2>1, <2>4, ForgetEndKeeps
  <2> QED
    BY <1>8, <2>2, <2>3, <2>4 DEF Overwrite
<1>9. CASE Create(c)
  <2>1. UNCHANGED target /\ mine.pc = "create" /\ Ends(c)
    BY <1>9 DEF Create, At
  <2>2. CASE Installed(mine)
    BY <1>2, <2>1, <2>2, InstallKeeps DEF Ends
  <2>3. CASE UNCHANGED <<files, observations, seen>>
    BY <2>1, <2>3, EndKeeps
  <2> QED
    BY <1>9, <2>2, <2>3 DEF Create
<1>10. CASE Drop(c)
  <2>1. UNCHANGED <<files, target, observations, seen>> /\ mine # Idle
    BY <1>10 DEF Drop
  <2>2. CASE mine.pc \in {"load", "find", "reread"}
    BY <1>10, <2>1, <2>2, EndKeeps DEF Drop
  <2>3. CASE mine.pc \notin {"load", "find", "reread"}
    <3>1. calls' = [calls EXCEPT ![c].dropped = TRUE]
      BY <1>10, <2>3 DEF Drop
    <3>2. mine.session \in Sessions /\ mine.name \in Names /\ Entitled(mine) /\ Changing(mine)
      BY <1>1, <2>1, <2>3 DEF CallInv
    <3>3. PICK r : r = [mine EXCEPT !.dropped = TRUE]
      OBVIOUS
    <3>4. /\ r.pc = mine.pc /\ r.session = mine.session /\ r.name = mine.name
          /\ r.file = mine.file /\ Changing(r)
          /\ mine.pc = "replace" => r.text = mine.text
          /\ mine.pc = "overwrite" => r.expected = mine.expected
      BY <3>2, <3>3 DEF Changing
    <3>5. CallInv(r)
      BY <3>2, <3>4 DEF CallInv, Entitled, Changing
    <3>6. Goes(c, r)
      BY <3>1, <3>3 DEF Goes
    <3> QED
      BY <2>1, <3>5, <3>6, QuietStepKeeps
  <2> QED
    BY <2>2, <2>3
<1> QED
  BY <1>3, <1>4, <1>5, <1>6, <1>7, <1>8, <1>9, <1>10

LEMMA OthersKeep ==
    ASSUME SeenInv,
           \/ Restart \/ \E f \in Files, text \in Others : OtherWrites(f, text)
           \/ \E n \in Names, f \in Files : OtherLinks(n, f)
    PROVE  SeenInv'
<1>1. CASE Restart
  <2>1. /\ calls' = [c \in Calls |-> Idle] /\ seen' = [s \in Sessions |-> {}]
        /\ observations' = [s \in Sessions |-> [n \in Names |-> None]]
        /\ UNCHANGED <<files, target>>
    BY <1>1 DEF Restart
  <2> QED
    BY <2>1 DEF SeenInv, Shape, Known, CallInv
<1>2. ASSUME NEW f \in Files, NEW text \in Others, OtherWrites(f, text) PROVE SeenInv'
  <2>1. files' = [files EXCEPT ![f] = text] /\ UNCHANGED <<target, observations, calls, seen>>
    BY <1>2 DEF OtherWrites
  <2>2. Shape'
    BY <2>1 DEF SeenInv, Shape
  <2> QED
    BY <2>1, <2>2 DEF SeenInv, Known, CallInv, Entitled, Changing
<1>3. ASSUME NEW n \in Names, NEW f \in Files, OtherLinks(n, f) PROVE SeenInv'
  <2>1. target' = [target EXCEPT ![n] = f] /\ UNCHANGED <<files, observations, calls, seen>>
    BY <1>3 DEF OtherLinks
  <2>2. Shape'
    BY <2>1 DEF SeenInv, Shape
  <2> QED
    BY <2>1, <2>2 DEF SeenInv, Known, CallInv, Entitled, Changing
<1> QED
  BY <1>1, <1>2, <1>3

LEMMA SeenHolds == FileToolsSpec => []SeenInv
<1>1. FileToolsInit => SeenInv
  BY DEF FileToolsInit, SeenInv, Shape, Known, CallInv
<1>2. SeenInv /\ [FileToolsNext]_fileVars => SeenInv'
  <2>1. SeenInv /\ FileToolsNext => SeenInv'
    BY StartsKeep, CallsKeep, OthersKeep DEF FileToolsNext
  <2>2. SeenInv /\ UNCHANGED fileVars => SeenInv'
    <3> SUFFICES ASSUME SeenInv, UNCHANGED fileVars PROVE SeenInv'
      OBVIOUS
    <3>1. Shape'
      BY DEF fileVars, SeenInv, Shape
    <3>2. \A s \in Sessions, n \in Names : Known(s, observations[s][n])'
      BY DEF fileVars, SeenInv, Known
    <3>3. ASSUME NEW c \in Calls PROVE CallInv(calls[c])'
      <4>1. CallInv(calls[c])
        BY DEF SeenInv
      <4>2. CallInv(calls[c])' <=> CallInv(calls[c])
        BY DEF fileVars, CallInv, Entitled, Changing
      <4> QED
        BY <4>1, <4>2
    <3> QED
      BY <3>1, <3>2, <3>3 DEF SeenInv
  <2> QED
    BY <2>1, <2>2
<1> QED
  BY <1>1, <1>2, PTL DEF FileToolsSpec

-----------------------------------------------------------------------------
(* What an agent may change *)

\* A call changes a file only from a text that its session has seen since the
\* backend started, whatever other sessions read and other programs do meanwhile.
THEOREM OnlyObservedCorrect == FileToolsSpec => OnlyObservedIsReplaced
<1> DEFINE Step ==
      \A c \in Calls, f \in Files :
        calls[c] # Idle /\ calls'[c] # calls[c] /\ files'[f] # files[f] /\ files[f] # Missing
            => <<f, files[f]>> \in seen[calls[c].session]
<1>1. ASSUME SeenInv, [FileToolsNext]_fileVars PROVE [Step]_fileVars
  <2> SUFFICES ASSUME NEW c \in Calls, NEW f \in Files, calls[c] # Idle, calls'[c] # calls[c],
                      files'[f] # files[f], files[f] # Missing, FileToolsNext
               PROVE  <<f, files[f]>> \in seen[calls[c].session]
    BY <1>1 DEF fileVars
  <2>1. files = [g \in Files |-> files[g]] /\ calls = [d \in Calls |-> calls[d]]
    BY <1>1 DEF SeenInv, Shape
  <2>2. PICK d \in Calls : Replace(d) \/ Overwrite(d) \/ Create(d)
    <3>1. ASSUME NEW d \in Calls, NEW s \in Sessions, NEW n \in Names,
                 \/ StartRead(d, s, n)
                 \/ \E from, to \in 1 .. MaxLines, lines \in Inserted :
                        StartEdit(d, s, n, from, to, lines)
                 \/ \E text \in Written : StartWrite(d, s, n, text)
          PROVE  UNCHANGED files
      BY <3>1 DEF StartRead, StartEdit, StartWrite
    <3>2. ASSUME NEW d \in Calls,
                 \/ Reread(d) \/ Drop(d)
                 \/ \E ok \in BOOLEAN : Load(d, ok) \/ Save(d, ok) \/ Find(d, ok)
          PROVE  UNCHANGED files
      BY <3>2 DEF Reread, Drop, Load, Save, Find
    <3>3. Restart => UNCHANGED files
      BY DEF Restart
    <3>4. (\E g \in Files, text \in Others : OtherWrites(g, text)) => UNCHANGED calls
      BY DEF OtherWrites
    <3>5. (\E n \in Names, g \in Files : OtherLinks(n, g)) => UNCHANGED files
      BY DEF OtherLinks
    <3> QED
      BY <3>1, <3>2, <3>3, <3>4, <3>5 DEF FileToolsNext
  <2>3. \E r : calls' = [calls EXCEPT ![d] = r]
    <3>1. \/ calls' = [calls EXCEPT ![d] = Idle]
          \/ calls' = [calls EXCEPT ![d] = [calls[d] EXCEPT !.pc = "reread"]]
      BY <2>2 DEF Replace, Overwrite, Create, Ends, Goes, GoesOn
    <3> QED
      BY <3>1
  <2>4. d = c
    BY <2>1, <2>3
  <2>5. CallInv(calls[c])
    BY <1>1 DEF SeenInv
  <2>6. CASE Replace(c)
    <3>1. /\ files' = [files EXCEPT ![calls[c].file] = calls[c].new]
          /\ files[calls[c].file] = calls[c].text
      BY <2>6 DEF Replace
    <3>2. f = calls[c].file
      BY <2>1, <3>1
    <3> QED
      BY <2>5, <2>6, <3>1, <3>2 DEF CallInv, Entitled, Replace, At
  <2>7. CASE Overwrite(c)
    <3>1. /\ files' = [files EXCEPT ![calls[c].file] = calls[c].new]
          /\ files[calls[c].file] = calls[c].expected.text
      BY <2>7 DEF Overwrite, Installed
    <3>2. f = calls[c].file
      BY <2>1, <3>1
    <3> QED
      BY <2>5, <2>7, <3>1, <3>2 DEF CallInv, Entitled, Overwrite, At
  <2>8. CASE Create(c)
    <3>1. /\ files' = [files EXCEPT ![calls[c].file] = calls[c].new]
          /\ files[calls[c].file] = Missing
      BY <2>8 DEF Create, Installed
    <3> QED
      BY <2>1, <3>1
  <2> QED
    BY <2>2, <2>4, <2>6, <2>7, <2>8
<1> QED
  BY <1>1, SeenHolds, PTL DEF FileToolsSpec, OnlyObservedIsReplaced

-----------------------------------------------------------------------------
(***************************************************************************)
(* The types of what the file tools keep.                                  *)
(***************************************************************************)

\* The type invariant, part by part.
ObservationOK(n, o) ==
    /\ o = None \/ o \in [file : Files, text : Texts]
    /\ n \in Files /\ o # None => o.file = n

FilesOK == files \in [Files -> Texts \cup {Missing}]
StoreOK == store \in [Files -> Stored]
ObservationsOK == \A s \in Sessions, n \in Names : ObservationOK(n, observations[s][n])
CountersOK == uses \in 0 .. MaxUses /\ changes \in 0 .. MaxChanges /\ faults \in 0 .. MaxFaults

\* A file is its own name; links lead to files.
TargetOK == target \in [Names -> Files] /\ \A f \in Files : target[f] = f

\* What a call carries from one task to the next.
Typed(r) ==
    /\ r.pc \in {"load", "save", "find", "replace", "create", "overwrite"} =>
            r.file \in Files /\ (r.name \in Files => r.file = r.name)
    /\ r.pc \in {"load", "find"} => r.text \in Texts
    /\ r.pc = "save" => /\ r.snapshot \in Snapshots /\ IsInjective(r.snapshot.hashes)
                        /\ Follows(r.read, r.snapshot)
    /\ r.pc = "find" => r.lines \in Inserted
    /\ r.pc \in {"replace", "create", "overwrite"} => r.new \in Texts

TypesInv ==
    /\ FilesOK /\ StoreOK /\ ObservationsOK /\ CountersOK /\ TargetOK
    /\ \A c \in Calls : Typed(calls[c])

LEMMA RecordTypes ==
    ASSUME SeenInv, ObservationsOK, NEW s \in Sessions, NEW n \in Names, NEW f \in Files,
           n \in Files => f = n, NEW text \in Texts, observations' = Record(s, n, f, text)
    PROVE  ObservationsOK'
<1>1. [file |-> f, text |-> text] \in [file : Files, text : Texts]
      /\ [file |-> f, text |-> text].file = f
  OBVIOUS
<1>2. \A t \in Sessions, m \in Names :
        observations'[t][m] = IF t = s /\ m \in {n, f} THEN [file |-> f, text |-> text]
                              ELSE observations[t][m]
  BY DEF SeenInv, Shape, Record
<1>3. PICK o : o = [file |-> f, text |-> text]
  OBVIOUS
<1>4. ASSUME NEW m \in {n, f} PROVE ObservationOK(m, o)
  BY <1>1, <1>3 DEF ObservationOK
<1> QED
  BY <1>2, <1>3, <1>4 DEF ObservationsOK

LEMMA ForgetTypes ==
    ASSUME SeenInv, ObservationsOK, NEW s \in Sessions, NEW o, observations' = Forget(s, o)
    PROVE  ObservationsOK'
<1>1. \A t \in Sessions, m \in Names :
        observations'[t][m] = None \/ observations'[t][m] = observations[t][m]
  BY DEF SeenInv, Shape, Forget
<1> QED
  BY <1>1 DEF ObservationsOK, ObservationOK

\* A step of one call.
LEMMA StepTypes ==
    ASSUME SeenInv, TypesInv, NEW c \in Calls, NEW r, Goes(c, r), Typed(r), UNCHANGED target,
           FilesOK', StoreOK', ObservationsOK', CountersOK'
    PROVE  TypesInv'
<1>1. ASSUME NEW d \in Calls PROVE Typed(calls'[d])
  <2>1. calls'[d] = IF d = c THEN r ELSE calls[d]
    BY DEF SeenInv, Shape, Goes
  <2> QED
    BY <2>1 DEF TypesInv
<1>2. TargetOK'
  BY DEF TypesInv, TargetOK
<1> QED
  BY <1>1, <1>2 DEF TypesInv

LEMMA IdleTyped == Typed(Idle)
  BY DEF Typed, Idle

LEMMA UseCounts ==
    ASSUME CountersOK, NEW tool, NEW s, Use(tool, s), UNCHANGED <<changes, faults>>
    PROVE  CountersOK'
  BY FileToolsAssumption DEF CountersOK, Use

LEMMA WorkCounts ==
    ASSUME CountersOK, NEW ok \in BOOLEAN, Works(ok), UNCHANGED <<uses, changes>>
    PROVE  CountersOK'
  BY FileToolsAssumption DEF CountersOK, Works

\* A step of one call that changes nothing but the call and the counters.
LEMMA QuietStepTypes ==
    ASSUME SeenInv, TypesInv, NEW c \in Calls, NEW r, Goes(c, r), Typed(r), CountersOK',
           UNCHANGED <<files, target, store, observations>>
    PROVE  TypesInv'
<1>1. FilesOK' /\ StoreOK' /\ ObservationsOK'
  BY DEF TypesInv, FilesOK, StoreOK, ObservationsOK
<1> QED
  BY <1>1, StepTypes

\* What an edit makes of a text is a text.
LEMMA EditedText ==
    ASSUME NEW text \in Texts, NEW lines \in Inserted, NEW i \in Nat \ {0}, NEW j \in Nat,
           i <= j, j <= Len(text), NEW new,
           new = Encoded(SubSeq(text, 1, i - 1) \o lines \o SubSeq(text, j + 1, Len(text))),
           Len(new) <= MaxLines
    PROVE  new \in Texts
<1>1. PICK n \in 1 .. MaxLines : text \in [1 .. n -> Lines]
  BY DEF Texts
<1>2. n \in Nat /\ Len(text) = n /\ MaxLines \in Nat
  BY <1>1, LineAnchorsAssumption
<1>3. text[1] \in Lines
  BY <1>1, <1>2
<1>4. Empty \in Lines
  BY <1>3 DEF Empty
<1>5. SubSeq(text, 1, i - 1) \in Seq(Lines)
  <2>1. \A k \in 1 .. i - 1 : text[k] \in Lines
    BY <1>1, <1>2
  <2> QED
    BY <2>1, SubSeqProperties
<1>6. SubSeq(text, j + 1, Len(text)) \in Seq(Lines)
  <2>1. \A k \in j + 1 .. Len(text) : text[k] \in Lines
    BY <1>1, <1>2
  <2>2. j + 1 \in Int /\ Len(text) \in Int
    BY <1>2
  <2> QED
    BY <2>1, <2>2, SubSeqProperties
<1>7. PICK whole \in Seq(Lines) :
        whole = SubSeq(text, 1, i - 1) \o lines \o SubSeq(text, j + 1, Len(text))
  <2>1. lines \in Seq(Lines)
    BY FileToolsAssumption
  <2>2. PICK first, last \in Seq(Lines) :
            first = SubSeq(text, 1, i - 1) /\ last = SubSeq(text, j + 1, Len(text))
    BY <1>5, <1>6
  <2>3. PICK some \in Seq(Lines) : some = first \o lines
    BY <2>1, ConcatProperties
  <2>4. some \o last \in Seq(Lines)
    BY ConcatProperties
  <2> QED
    BY <2>2, <2>3, <2>4
<1>8. CASE whole = <<>>
  <2>1. new = <<Empty>>
    BY <1>7, <1>8 DEF Encoded
  <2>2. new \in [1 .. 1 -> Lines]
    BY <1>4, <2>1
  <2>3. 1 \in 1 .. MaxLines
    BY <1>2
  <2> QED
    BY <2>2, <2>3 DEF Texts
<1>9. CASE whole # <<>>
  <2>1. new = whole
    BY <1>7, <1>9 DEF Encoded
  <2>2. PICK k \in Nat : k = Len(whole) /\ whole \in [1 .. k -> Lines]
    OBVIOUS
  <2>3. k # 0
    BY <1>9, <2>2
  <2>4. k \in 1 .. MaxLines
    BY <1>2, <2>1, <2>2, <2>3
  <2> QED
    BY <2>1, <2>2, <2>4 DEF Texts
<1> QED
  BY <1>8, <1>9

LEMMA CollectTypes ==
    ASSUME SeenInv, TypesInv, NEW c \in Calls, NEW s \in Sessions, NEW n \in Names,
           Collect(c, s, n), CountersOK', UNCHANGED <<files, target, store, observations>>
    PROVE  TypesInv'
<1>1. target[n] \in Files /\ (n \in Files => target[n] = n)
      /\ (Exists(n) => files[target[n]] \in Texts)
  BY DEF TypesInv, TargetOK, FilesOK, Exists
<1>2. CASE Exists(n)
  <2> DEFINE r == [pc |-> "load", session |-> s, dropped |-> FALSE, name |-> n,
                   file |-> target[n], text |-> files[target[n]]]
  <2>1. Goes(c, r) /\ Typed(r)
    BY <1>1, <1>2 DEF Collect, Typed
  <2> HIDE DEF r
  <2> QED
    BY <2>1, QuietStepTypes
<1>3. CASE ~Exists(n)
  <2>1. Goes(c, Idle)
    BY <1>3 DEF Collect, Ends
  <2> QED
    BY <2>1, IdleTyped, QuietStepTypes
<1> QED
  BY <1>2, <1>3

LEMMA CollectObservedTypes ==
    ASSUME SeenInv, TypesInv, NEW c \in Calls, NEW s \in Sessions, NEW n \in Names, NEW r,
           CollectObserved(c, s, n, r), Exists(n) => Typed(r), CountersOK',
           UNCHANGED <<files, target, store>>
    PROVE  TypesInv'
<1>1. /\ \/ UNCHANGED observations
         \/ \E o : observations' = Forget(s, o)
      /\ \/ Goes(c, Idle)
         \/ Goes(c, r) /\ Exists(n)
  BY DEF CollectObserved, Ends
<1>2. ObservationsOK'
  <2>1. CASE UNCHANGED observations
    BY <2>1 DEF TypesInv, ObservationsOK
  <2>2. ObservationsOK
    BY DEF TypesInv
  <2> QED
    BY <1>1, <2>1, <2>2, ForgetTypes
<1>3. FilesOK' /\ StoreOK'
  BY DEF TypesInv, FilesOK, StoreOK
<1>4. PICK q : Goes(c, q) /\ Typed(q)
  BY <1>1, IdleTyped
<1> QED
  BY <1>2, <1>3, <1>4, StepTypes

\* A call that puts its text into its file.
LEMMA InstallTypes ==
    ASSUME SeenInv, TypesInv, NEW c \in Calls, NEW mine, mine.session \in Sessions,
           mine.name \in Names, mine.pc \in {"replace", "create", "overwrite"}, Typed(mine),
           Installed(mine), NEW r, Goes(c, r), Typed(r), CountersOK',
           UNCHANGED <<target, store>>
    PROVE  TypesInv'
<1>1. mine.file \in Files /\ (mine.name \in Files => mine.file = mine.name) /\ mine.new \in Texts
  BY DEF Typed
<1>2. FilesOK'
  BY <1>1 DEF TypesInv, FilesOK, Installed
<1>3. ObservationsOK'
  <2>1. observations' = Record(mine.session, mine.name, mine.file, mine.new) /\ ObservationsOK
    BY DEF TypesInv, Installed
  <2> QED
    BY <1>1, <2>1, RecordTypes
<1>4. StoreOK'
  BY DEF TypesInv, StoreOK
<1> QED
  BY <1>2, <1>3, <1>4, StepTypes

LEMMA StartsType ==
    ASSUME SeenInv, TypesInv, NEW c \in Calls, NEW s \in Sessions, NEW n \in Names,
           \/ StartRead(c, s, n)
           \/ \E from, to \in 1 .. MaxLines, lines \in Inserted : StartEdit(c, s, n, from, to, lines)
           \/ \E text \in Written : StartWrite(c, s, n, text)
    PROVE  TypesInv'
<1>1. /\ target[n] \in Files /\ (n \in Files => target[n] = n) /\ CountersOK
      /\ (Exists(n) => files[target[n]] \in Texts)
  BY DEF TypesInv, TargetOK, FilesOK, Exists
<1>2. CASE StartRead(c, s, n)
  <2>1. CountersOK'
    BY <1>1, <1>2, UseCounts DEF StartRead
  <2> QED
    BY <1>2, <2>1, CollectTypes DEF StartRead
<1>3. ASSUME NEW from \in 1 .. MaxLines, NEW to \in 1 .. MaxLines, NEW lines \in Inserted,
             StartEdit(c, s, n, from, to, lines)
      PROVE  TypesInv'
  <2> DEFINE r == [pc |-> "find", session |-> s, dropped |-> FALSE, name |-> n,
                   file |-> target[n], text |-> files[target[n]],
                   from |-> views[s][n].hashes[from], to |-> views[s][n].hashes[to],
                   lines |-> lines]
  <2>1. CollectObserved(c, s, n, r) /\ UNCHANGED <<files, target, store>>
    BY <1>3 DEF StartEdit
  <2>2. CountersOK'
    BY <1>1, <1>3, UseCounts DEF StartEdit
  <2>3. Exists(n) => Typed(r)
    BY <1>1 DEF Typed
  <2> HIDE DEF r
  <2> QED
    BY <2>1, <2>2, <2>3, CollectObservedTypes
<1>4. ASSUME NEW text \in Written, StartWrite(c, s, n, text) PROVE TypesInv'
  <2>1. CountersOK' /\ UNCHANGED <<files, target, store>>
    BY <1>1, <1>4, UseCounts DEF StartWrite
  <2>2. text \in Texts
    BY FileToolsAssumption
  <2>3. CASE Exists(n)
    <3> DEFINE r == [pc |-> "overwrite", session |-> s, dropped |-> FALSE, name |-> n,
                     file |-> target[n], new |-> text, expected |-> Observed(s, n)]
    <3>1. CollectObserved(c, s, n, r)
      BY <1>4, <2>3 DEF StartWrite
    <3>2. Typed(r)
      BY <1>1, <2>2 DEF Typed
    <3> HIDE DEF r
    <3> QED
      BY <2>1, <3>1, <3>2, CollectObservedTypes
  <2>4. CASE ~Exists(n) /\ observations[s][n] # None
    <3>1. Goes(c, Idle) /\ observations' = Forget(s, observations[s][n])
      BY <1>4, <2>4 DEF StartWrite, Ends
    <3>2. ObservationsOK' /\ FilesOK' /\ StoreOK'
      BY <2>1, <3>1, ForgetTypes DEF TypesInv, FilesOK, StoreOK
    <3> QED
      BY <2>1, <3>1, <3>2, IdleTyped, StepTypes
  <2>5. CASE ~Exists(n) /\ observations[s][n] = None
    <3> DEFINE r == [pc |-> "create", session |-> s, dropped |-> FALSE, name |-> n,
                     file |-> target[n], new |-> text]
    <3>1. Goes(c, r) /\ UNCHANGED observations
      BY <1>4, <2>5 DEF StartWrite
    <3>2. Typed(r)
      BY <1>1, <2>2 DEF Typed
    <3> HIDE DEF r
    <3> QED
      BY <2>1, <3>1, <3>2, QuietStepTypes
  <2> QED
    BY <2>3, <2>4, <2>5
<1> QED
  BY <1>2, <1>3, <1>4

\* A load gives the store what follows the lines of the stored snapshot.
LEMMA LoadFollows ==
    ASSUME SeenInv, TypesInv, NEW c \in Calls, NEW ok \in BOOLEAN, Load(c, ok)
    PROVE  \/ Goes(c, Idle)
           \/ \E snapshot :
                /\ Goes(c, [pc |-> "save", session |-> calls[c].session, dropped |-> FALSE,
                            name |-> calls[c].name, file |-> calls[c].file,
                            read |-> store[calls[c].file], snapshot |-> snapshot])
                /\ snapshot \in Snapshots /\ IsInjective(snapshot.hashes)
                /\ Follows(store[calls[c].file], snapshot)
<1>1. PICK r : r = calls[c] /\ r.pc = "load" /\ Typed(r)
  BY DEF Load, At, TypesInv
<1>2. r.file \in Files /\ r.text \in Texts /\ store[r.file] \in Stored
  BY <1>1 DEF Typed, TypesInv, StoreOK
<1>3. CASE Ends(c)
  BY <1>3 DEF Ends
<1>4. CASE ~Ends(c)
  <2>1. PICK new : new = [lines |-> r.text, hashes |-> HashesFromSnapshot(store[r.file], r.text)]
    OBVIOUS
  <2>2. /\ Full \notin Range(new.hashes)
        /\ Goes(c, [pc |-> "save", session |-> r.session, dropped |-> FALSE,
                    name |-> r.name, file |-> r.file, read |-> store[r.file], snapshot |-> new])
    BY <1>1, <1>4, <2>1 DEF Load
  <2>3. PICK old \in Stored : old = store[r.file]
    BY <1>2
  <2>4. PICK text \in Texts : text = r.text
    BY <1>2
  <2>5. new = [lines |-> text, hashes |-> HashesFromSnapshot(old, text)]
    BY <2>1, <2>3, <2>4
  <2>6. Full \notin Range(new.hashes)
    BY <2>2
  <2>7. new \in Snapshots /\ IsInjective(new.hashes) /\ Follows(old, new)
    BY <2>5, <2>6, HashesFollowLines
  <2> QED
    BY <1>1, <2>2, <2>3, <2>7
<1> QED
  BY <1>3, <1>4

LEMMA CallsType ==
    ASSUME SeenInv, TypesInv, NEW c \in Calls,
           \/ Reread(c) \/ Replace(c) \/ Overwrite(c) \/ Create(c) \/ Drop(c)
           \/ \E ok \in BOOLEAN : Load(c, ok) \/ Save(c, ok) \/ Find(c, ok)
    PROVE  TypesInv'
<1> DEFINE mine == calls[c]
<1>1. CallInv(mine) /\ Typed(mine) /\ CountersOK /\ ObservationsOK
  BY DEF SeenInv, TypesInv
<1>2. ASSUME mine.pc # "idle" PROVE mine.session \in Sessions /\ mine.name \in Names
  BY <1>1, <1>2 DEF CallInv, Idle
<1>3. ASSUME UNCHANGED <<uses, changes, faults>> PROVE CountersOK'
  BY <1>1, <1>3 DEF CountersOK
<1>4. CASE Reread(c)
  BY <1>2, <1>3, <1>4, CollectTypes DEF Reread, At
<1>5. ASSUME NEW ok \in BOOLEAN, Load(c, ok) PROVE TypesInv'
  <2>1. CountersOK' /\ UNCHANGED <<files, target, store, observations>> /\ mine.pc = "load"
    BY <1>1, <1>5, WorkCounts DEF Load, At
  <2>2. CASE Goes(c, Idle)
    BY <2>1, <2>2, IdleTyped, QuietStepTypes
  <2>3. ASSUME NEW snapshot, NEW r,
               r = [pc |-> "save", session |-> mine.session, dropped |-> FALSE,
                    name |-> mine.name, file |-> mine.file, read |-> store[mine.file],
                    snapshot |-> snapshot],
               Goes(c, r), snapshot \in Snapshots, IsInjective(snapshot.hashes),
               Follows(store[mine.file], snapshot)
        PROVE  TypesInv'
    <3>1. Typed(r)
      BY <1>1, <2>1, <2>3 DEF Typed
    <3> QED
      BY <2>1, <2>3, <3>1, QuietStepTypes
  <2> QED
    BY <1>5, <2>2, <2>3, LoadFollows
<1>6. ASSUME NEW ok \in BOOLEAN, Save(c, ok) PROVE TypesInv'
  <2>1. CountersOK' /\ UNCHANGED <<files, target>> /\ mine.pc = "save" /\ Goes(c, Idle)
    BY <1>1, <1>6, WorkCounts DEF Save, At, Ends
  <2>2. /\ mine.file \in Files /\ (mine.name \in Files => mine.file = mine.name)
        /\ mine.snapshot \in Snapshots /\ IsInjective(mine.snapshot.hashes)
    BY <1>1, <2>1 DEF Typed
  <2>3. mine.snapshot.lines \in Texts /\ mine.snapshot \in Stored
    BY <2>2 DEF Snapshots, Texts, Stored
  <2>4. StoreOK'
    <3>1. store' = store \/ store' = [store EXCEPT ![mine.file] = mine.snapshot]
      BY <1>6 DEF Save
    <3> QED
      BY <2>2, <2>3, <3>1 DEF TypesInv, StoreOK
  <2>5. ObservationsOK'
    <3>1. \/ UNCHANGED observations
          \/ observations' = Record(mine.session, mine.name, mine.file, mine.snapshot.lines)
      BY <1>6 DEF Save
    <3>2. CASE UNCHANGED observations
      BY <1>1, <3>2 DEF ObservationsOK
    <3>3. CASE observations' = Record(mine.session, mine.name, mine.file, mine.snapshot.lines)
      BY <1>1, <1>2, <2>1, <2>2, <2>3, <3>3, RecordTypes
    <3> QED
      BY <3>1, <3>2, <3>3
  <2>6. FilesOK'
    BY <2>1 DEF TypesInv, FilesOK
  <2> QED
    BY <2>1, <2>4, <2>5, <2>6, IdleTyped, StepTypes
<1>7. ASSUME NEW ok \in BOOLEAN, Find(c, ok) PROVE TypesInv'
  <2>1. CountersOK' /\ UNCHANGED <<files, target, store, observations>> /\ mine.pc = "find"
    BY <1>1, <1>7, WorkCounts DEF Find, At
  <2>2. /\ mine.file \in Files /\ (mine.name \in Files => mine.file = mine.name)
        /\ mine.text \in Texts /\ mine.lines \in Inserted
    BY <1>1, <2>1 DEF Typed
  <2>3. CASE Ends(c)
    BY <2>1, <2>3, IdleTyped, QuietStepTypes DEF Ends
  <2>4. CASE ~Ends(c)
    <3> DEFINE hashes == store[mine.file].hashes
               Found(hash) == {k \in DOMAIN hashes : hashes[k] = hash}
    <3>1. DOMAIN hashes \subseteq Nat \ {0}
      <4>1. store[mine.file] \in Snapshots \cup {NoSnapshot}
        BY <2>2 DEF TypesInv, StoreOK, Stored
      <4> QED
        BY <4>1 DEF Snapshots, NoSnapshot
    <3>2. PICK i, j, new :
            /\ i \in DOMAIN hashes /\ j \in DOMAIN hashes
            /\ new = Encoded(SubSeq(mine.text, 1, i - 1) \o mine.lines
                              \o SubSeq(mine.text, j + 1, Len(mine.text)))
            /\ i <= j /\ j <= Len(mine.text) /\ Len(new) <= MaxLines
            /\ Goes(c, [pc |-> "replace", session |-> mine.session, dropped |-> FALSE,
                        name |-> mine.name, file |-> mine.file, text |-> mine.text, new |-> new])
      <4>1. PICK i, j : i = (CHOOSE k \in Found(mine.from) : TRUE) /\ j = (CHOOSE k \in Found(mine.to) : TRUE)
        OBVIOUS
      <4>2. PICK new : new = Encoded(SubSeq(mine.text, 1, i - 1) \o mine.lines
                                     \o SubSeq(mine.text, j + 1, Len(mine.text)))
        OBVIOUS
      <4>3. /\ Found(mine.from) # {} /\ Found(mine.to) # {}
            /\ i <= j /\ j <= Len(mine.text) /\ Len(new) <= MaxLines
            /\ Goes(c, [pc |-> "replace", session |-> mine.session, dropped |-> FALSE,
                        name |-> mine.name, file |-> mine.file, text |-> mine.text, new |-> new])
        BY <1>7, <2>4, <4>1, <4>2 DEF Find
      <4>4. i \in Found(mine.from) /\ j \in Found(mine.to)
        BY <4>1, <4>3
      <4> QED
        BY <4>2, <4>3, <4>4
    <3>3. i \in Nat \ {0} /\ j \in Nat
      BY <3>1, <3>2
    <3>4. new \in Texts
      BY <2>2, <3>2, <3>3, EditedText
    <3>5. PICK r : r = [pc |-> "replace", session |-> mine.session, dropped |-> FALSE,
                        name |-> mine.name, file |-> mine.file, text |-> mine.text, new |-> new]
      OBVIOUS
    <3>6. Typed(r)
      BY <2>2, <3>4, <3>5 DEF Typed
    <3>7. Goes(c, r)
      BY <3>2, <3>5
    <3> QED
      BY <2>1, <3>6, <3>7, QuietStepTypes
  <2> QED
    BY <2>3, <2>4
<1>8. CASE Replace(c)
  <2>1. UNCHANGED <<target, store>> /\ mine.pc = "replace" /\ CountersOK'
    BY <1>3, <1>8 DEF Replace, At
  <2>2. CASE files[mine.file] = mine.text
    <3>1. Installed(mine)
      BY <1>8, <2>2 DEF Replace, Installed
    <3>2. PICK r : Goes(c, r) /\ r \in {Idle, [mine EXCEPT !.pc = "reread"]}
      BY <1>8, <2>2 DEF Replace, Ends, Goes, GoesOn
    <3>3. Typed(r)
      <4>1. mine # Idle
        BY <2>1 DEF Idle
      <4>2. r = Idle \/ r.pc = "reread"
        BY <1>1, <2>1, <3>2, <4>1 DEF CallInv, Changing
      <4> QED
        BY <4>2, IdleTyped DEF Typed
    <3> QED
      BY <1>1, <1>2, <2>1, <3>1, <3>2, <3>3, InstallTypes
  <2>3. CASE files[mine.file] # mine.text
    <3>1. Goes(c, Idle) /\ UNCHANGED <<files, observations>>
      BY <1>8, <2>3 DEF Replace, Ends
    <3> QED
      BY <2>1, <3>1, IdleTyped, QuietStepTypes
  <2> QED
    BY <2>2, <2>3
<1>9. CASE Overwrite(c) \/ Create(c)
  <2>1. /\ UNCHANGED <<target, store>> /\ mine.pc \in {"create", "overwrite"} /\ CountersOK'
        /\ Goes(c, Idle)
    BY <1>3, <1>9 DEF Overwrite, Create, At, Ends
  <2>2. CASE Installed(mine)
    BY <1>1, <1>2, <2>1, <2>2, IdleTyped, InstallTypes
  <2>3. CASE UNCHANGED <<files, observations>>
    BY <2>1, <2>3, IdleTyped, QuietStepTypes
  <2>4. CASE observations' = Forget(mine.session, mine.expected) /\ UNCHANGED files
    <3>1. ObservationsOK' /\ FilesOK' /\ StoreOK'
      BY <1>1, <1>2, <2>1, <2>4, ForgetTypes DEF TypesInv, FilesOK, StoreOK
    <3> QED
      BY <2>1, <3>1, IdleTyped, StepTypes
  <2> QED
    BY <1>9, <2>2, <2>3, <2>4 DEF Overwrite, Create
<1>10. CASE Drop(c)
  <2>1. UNCHANGED <<files, target, store, observations>> /\ mine # Idle /\ CountersOK'
    BY <1>1, <1>10, WorkCounts DEF Drop
  <2>2. CASE mine.pc \in {"load", "find", "reread"}
    BY <1>10, <2>1, <2>2, IdleTyped, QuietStepTypes DEF Drop, Ends
  <2>3. CASE mine.pc \notin {"load", "find", "reread"}
    <3>1. PICK r : r = [mine EXCEPT !.dropped = TRUE]
      OBVIOUS
    <3>2. Goes(c, r)
      BY <1>10, <2>3, <3>1 DEF Drop, Goes
    <3>3. Changing(mine)
      BY <1>1, <2>1, <2>3 DEF CallInv
    <3>4. /\ r.pc = mine.pc /\ r.name = mine.name /\ r.file = mine.file
          /\ mine.pc = "save" => r.snapshot = mine.snapshot /\ r.read = mine.read
          /\ mine.pc \in {"replace", "create", "overwrite"} => r.new = mine.new
      BY <3>1, <3>3 DEF Changing
    <3>5. Typed(r)
      BY <1>1, <2>3, <3>4 DEF Typed
    <3> QED
      BY <2>1, <3>2, <3>5, QuietStepTypes
  <2> QED
    BY <2>2, <2>3
<1> QED
  BY <1>4, <1>5, <1>6, <1>7, <1>8, <1>9, <1>10

LEMMA OthersType ==
    ASSUME SeenInv, TypesInv,
           \/ Restart \/ \E f \in Files, text \in Others : OtherWrites(f, text)
           \/ \E n \in Names, f \in Files : OtherLinks(n, f)
    PROVE  TypesInv'
<1>1. CountersOK
  BY DEF TypesInv
<1>2. CASE Restart
  <2>1. /\ calls' = [c \in Calls |-> Idle]
        /\ observations' = [s \in Sessions |-> [n \in Names |-> None]]
        /\ UNCHANGED <<files, target, store>>
    BY <1>2 DEF Restart
  <2>2. CountersOK'
    BY <1>1, <1>2, WorkCounts DEF Restart
  <2>3. ObservationsOK'
    BY <2>1 DEF ObservationsOK, ObservationOK
  <2>4. \A c \in Calls : Typed(calls'[c])
    BY <2>1, IdleTyped
  <2> QED
    BY <2>1, <2>2, <2>3, <2>4 DEF TypesInv, FilesOK, StoreOK, TargetOK
<1>3. ASSUME NEW f \in Files, NEW text \in Others, OtherWrites(f, text) PROVE TypesInv'
  <2>1. /\ files' = [files EXCEPT ![f] = text] /\ changes < MaxChanges /\ changes' = changes + 1
        /\ UNCHANGED <<target, store, observations, calls, uses, faults>>
    BY <1>3 DEF OtherWrites
  <2>2. text \in Texts \cup {Missing}
    BY FileToolsAssumption DEF Missing
  <2>3. FilesOK'
    BY <2>1, <2>2 DEF TypesInv, FilesOK
  <2>4. CountersOK'
    BY <1>1, <2>1, FileToolsAssumption DEF CountersOK
  <2> QED
    BY <2>1, <2>3, <2>4 DEF TypesInv, StoreOK, ObservationsOK, TargetOK
<1>4. ASSUME NEW n \in Names, NEW f \in Files, OtherLinks(n, f) PROVE TypesInv'
  <2>1. /\ target' = [target EXCEPT ![n] = f] /\ n \notin Files
        /\ changes < MaxChanges /\ changes' = changes + 1
        /\ UNCHANGED <<files, store, observations, calls, uses, faults>>
    BY <1>4 DEF OtherLinks
  <2>2. TargetOK'
    BY <2>1, FileToolsAssumption DEF TypesInv, TargetOK
  <2>3. CountersOK'
    BY <1>1, <2>1, FileToolsAssumption DEF CountersOK
  <2> QED
    BY <2>1, <2>2, <2>3 DEF TypesInv, StoreOK, ObservationsOK, FilesOK
<1> QED
  BY <1>2, <1>3, <1>4

LEMMA TypesHold == FileToolsSpec => []TypesInv
<1>1. FileToolsInit => TypesInv
  <2> SUFFICES ASSUME FileToolsInit PROVE TypesInv
    OBVIOUS
  <2>1. FilesOK
    BY FileToolsAssumption DEF FileToolsInit, FilesOK, Missing
  <2>2. NoSnapshot \in Stored
    BY DEF Stored, NoSnapshot, IsInjective
  <2>3. StoreOK
    BY <2>2 DEF FileToolsInit, StoreOK
  <2>4. ObservationsOK
    BY DEF FileToolsInit, ObservationsOK, ObservationOK
  <2>5. CountersOK
    BY FileToolsAssumption DEF FileToolsInit, CountersOK
  <2>6. TargetOK
    BY DEF FileToolsInit, TargetOK
  <2>7. \A c \in Calls : Typed(calls[c])
    BY IdleTyped DEF FileToolsInit
  <2> QED
    BY <2>1, <2>3, <2>4, <2>5, <2>6, <2>7 DEF TypesInv
<1>2. SeenInv /\ TypesInv /\ [FileToolsNext]_fileVars => TypesInv'
  <2>1. SeenInv /\ TypesInv /\ FileToolsNext => TypesInv'
    BY StartsType, CallsType, OthersType DEF FileToolsNext
  <2>2. TypesInv /\ UNCHANGED fileVars => TypesInv'
    BY DEF fileVars, TypesInv, FilesOK, StoreOK, ObservationsOK, CountersOK, TargetOK
  <2> QED
    BY <2>1, <2>2
<1> QED
  BY <1>1, <1>2, SeenHolds, PTL DEF FileToolsSpec

\* The file tools keep their types, whatever the files hold, however an edit cuts
\* and joins their lines, and whichever call is dropped when: a snapshot in the
\* store names no two lines by one anchor.
THEOREM FileToolsTypes == FileToolsSpec => []FileToolsTypeOK
<1>1. TypesInv => FileToolsTypeOK
  <2> SUFFICES ASSUME TypesInv PROVE FileToolsTypeOK
    OBVIOUS
  <2>1. /\ store \in [Files -> Snapshots \cup {NoSnapshot}]
        /\ \A f \in Files : IsInjective(store[f].hashes)
    BY DEF TypesInv, StoreOK, Stored
  <2>2. ASSUME NEW s \in Sessions, NEW n \in Names
        PROVE  /\ observations[s][n] = None \/ observations[s][n] \in [file : Files, text : Texts]
               /\ n \in Files /\ observations[s][n] # None => observations[s][n].file = n
    BY DEF TypesInv, ObservationsOK, ObservationOK
  <2> QED
    BY <2>1, <2>2 DEF TypesInv, FilesOK, TargetOK, CountersOK, FileToolsTypeOK
<1> QED
  BY <1>1, TypesHold, PTL

-----------------------------------------------------------------------------
(* From one version of a file to the next *)

\* Only its own save ends a call and stores a row.
LEMMA OnlySaveStores ==
    ASSUME SeenInv, FileToolsNext, NEW c \in Calls, calls'[c] # calls[c], store' # store
    PROVE  Save(c, TRUE)
<1>1. \A d \in Calls, s \in Sessions, n \in Names :
        /\ StartRead(d, s, n) => store' = store
        /\ \A from, to, lines : StartEdit(d, s, n, from, to, lines) => store' = store
        /\ \A text : StartWrite(d, s, n, text) => store' = store
  BY DEF StartRead, StartEdit, StartWrite
<1>2. \A d \in Calls :
        /\ Reread(d) \/ Replace(d) \/ Overwrite(d) \/ Create(d) \/ Drop(d) => store' = store
        /\ \A ok \in BOOLEAN : Load(d, ok) \/ Find(d, ok) => store' = store
  <2> SUFFICES ASSUME NEW d \in Calls
               PROVE  /\ Reread(d) \/ Replace(d) \/ Overwrite(d) \/ Create(d) \/ Drop(d) => store' = store
                      /\ \A ok \in BOOLEAN : Load(d, ok) \/ Find(d, ok) => store' = store
    OBVIOUS
  <2>1. Reread(d) \/ Replace(d) \/ Drop(d) => store' = store
    BY DEF Reread, Replace, Drop
  <2>2. Overwrite(d) \/ Create(d) => store' = store
    BY DEF Overwrite, Create
  <2>3. \A ok \in BOOLEAN : Load(d, ok) => store' = store
    BY DEF Load
  <2>4. \A ok \in BOOLEAN : Find(d, ok) => store' = store
    BY DEF Find
  <2> QED
    BY <2>1, <2>2, <2>3, <2>4
<1>3. /\ Restart => store' = store
      /\ \A f, text : OtherWrites(f, text) => store' = store
      /\ \A n, f : OtherLinks(n, f) => store' = store
  BY DEF Restart, OtherWrites, OtherLinks
<1>4. PICK d \in Calls, ok \in BOOLEAN : Save(d, ok)
  BY <1>1, <1>2, <1>3 DEF FileToolsNext
<1>5. d = c
  BY <1>4 DEF Save, Ends, Goes, SeenInv, Shape
<1>6. ok = TRUE
  BY <1>4 DEF Save
<1> QED
  BY <1>4, <1>5, <1>6

\* When a row of anchors replaces another, no anchor goes to a line of different
\* content, of every content as many lines keep theirs as both versions have, and
\* lines that are all where they were keep their own, unless another read of the
\* file was saved since the row was loaded: for texts of any length, wherever the
\* slots of their contents collide, and in any order of loads, saves and changes.
THEOREM AnchorsCorrect == FileToolsSpec => AnchorsFollowLines
<1> DEFINE Step ==
      \A c \in Calls :
        LET f == calls[c].file
        IN  At(c, "save") /\ calls'[c] # calls[c] /\ store'[f] # store[f] /\ calls[c].read = store[f]
                => Follows(store[f], store'[f])
<1>1. ASSUME SeenInv, TypesInv, [FileToolsNext]_fileVars PROVE [Step]_fileVars
  <2> SUFFICES ASSUME NEW c \in Calls, NEW f, f = calls[c].file, At(c, "save"),
                      calls'[c] # calls[c], store'[f] # store[f], calls[c].read = store[f],
                      FileToolsNext
               PROVE  Follows(store[f], store'[f])
    BY <1>1
  <2>1. Save(c, TRUE)
    BY <1>1, OnlySaveStores
  <2>2. f \in Files /\ Follows(calls[c].read, calls[c].snapshot)
    BY <1>1 DEF At, TypesInv, Typed
  <2>3. store'[f] = calls[c].snapshot
    BY <1>1, <2>1, <2>2 DEF Save, TypesInv, StoreOK
  <2> QED
    BY <2>2, <2>3
<1> QED
  BY <1>1, SeenHolds, TypesHold, PTL DEF FileToolsSpec, AnchorsFollowLines

-----------------------------------------------------------------------------
(* When the slots suffice *)

\* Division with remainder.
LEMMA Remainder ==
    ASSUME NEW d \in Nat \ {0}, NEW q \in Nat, NEW r \in 0 .. d - 1
    PROVE  (q * d + r) % d = r
  OBVIOUS

LEMMA Division ==
    ASSUME NEW d \in Nat \ {0}, NEW x \in Nat
    PROVE  \E q \in Nat : x = q * d + (x % d)
<1>1. x = d * (x \div d) + (x % d)
  OBVIOUS
<1>2. x \div d \in Nat
  OBVIOUS
<1>3. PICK q \in Nat : q = x \div d
  BY <1>2
<1>4. d * q = q * d
  OBVIOUS
<1> QED
  BY <1>1, <1>3, <1>4

\* Probing reaches every slot, from every line.
LEMMA ProbeReaches ==
    ASSUME NEW line \in Lines, NEW slot \in Slots
    PROVE  \E k \in Slots : Probe(line, k) = slot
<1>1. HashSpace \in Nat \ {0} /\ Stride \in Nat /\ BaseSlot[line] \in Slots /\ Slots = 0 .. HashSpace - 1
  BY LineAnchorsAssumption DEF Slots
<1>2. PICK base \in 0 .. HashSpace - 1 : base = BaseSlot[line]
  BY <1>1
<1>3. PICK d \in 0 .. HashSpace - 1 : d + base = slot \/ d + base = slot + HashSpace
  <2>1. CASE slot >= base
    <3>1. slot - base \in 0 .. HashSpace - 1 /\ (slot - base) + base = slot
      BY <1>1, <2>1
    <3> QED
      BY <3>1
  <2>2. CASE slot < base
    <3>1. slot + HashSpace - base \in 0 .. HashSpace - 1
          /\ (slot + HashSpace - base) + base = slot + HashSpace
      BY <1>1, <2>2
    <3> QED
      BY <3>1
  <2> QED
    BY <1>1, <2>1, <2>2
<1>4. PICK k \in Slots : (k * Stride) % HashSpace = d
  BY <1>1, <1>3, LineAnchorsAssumption
<1>5. PICK x \in Nat : x = k * Stride
  BY <1>1, <1>4
<1>6. PICK q \in Nat : x = q * HashSpace + d
  <2>1. PICK q \in Nat : x = q * HashSpace + (x % HashSpace)
    BY <1>1, <1>5, Division
  <2> QED
    BY <1>4, <1>5, <2>1
<1>7. PICK p \in Nat : base + x = p * HashSpace + slot
  <2>1. CASE d + base = slot
    BY <1>1, <1>6, <2>1
  <2>2. CASE d + base = slot + HashSpace
    <3>1. base + x = (q + 1) * HashSpace + slot
      BY <1>1, <1>6, <2>2
    <3> QED
      BY <3>1
  <2> QED
    BY <1>3, <2>1, <2>2
<1>8. (p * HashSpace + slot) % HashSpace = slot
  BY <1>1, Remainder
<1> QED
  BY <1>2, <1>4, <1>5, <1>7, <1>8 DEF Probe

\* A line gets a slot if there is one.
LEMMA AllocationSucceeds ==
    ASSUME NEW line \in Lines, NEW occupied, NEW slot \in Slots, slot \notin occupied
    PROVE  AllocateOne(line, occupied) # Full
<1> DEFINE free == {k \in Slots : Probe(line, k) \notin occupied}
<1>1. PICK k \in Slots : Probe(line, k) = slot
  BY ProbeReaches
<1>2. free # {}
  BY <1>1
<1>3. HashSpace \in Nat \ {0} /\ Stride \in Nat /\ BaseSlot[line] \in Nat /\ Slots \subseteq Nat
  BY LineAnchorsAssumption DEF Slots
<1>4. Min(free) \in free
  <2>1. free \in SUBSET Nat
    BY <1>3
  <2> HIDE DEF free
  <2>2. PICK first \in free : \A other \in free : first <= other
    BY <1>2, <2>1, Least
  <2> QED
    BY <2>1, <2>2 DEF Min
<1>5. PICK n \in Nat : n = Min(free)
  BY <1>3, <1>4
<1>6. Probe(line, n) # Full
  <2>1. PICK x \in Nat : x = BaseSlot[line] + n * Stride
    BY <1>3
  <2>2. x % HashSpace \in 0 .. HashSpace - 1
    BY <1>3
  <2> QED
    BY <1>3, <2>1, <2>2 DEF Probe, Full
<1> QED
  BY <1>2, <1>5, <1>6 DEF AllocateOne

\* The lines that keep no anchor.
NewIn(pairs, m, n) == {j \in 1 .. n : \A i \in 1 .. m : <<i, j>> \notin pairs}

LEMMA NewAreFinite ==
    ASSUME NEW m, NEW n \in Nat, NEW pairs, NEW S \in SUBSET NewIn(pairs, m, n)
    PROVE  IsFiniteSet(S) /\ Cardinality(S) \in Nat
<1>1. IsFiniteSet(1 .. n) /\ S \in SUBSET (1 .. n)
  BY FS_Interval DEF NewIn
<1> QED
  BY <1>1, FS_Subset, FS_CardinalityType

LEMMA OccupiedIsCounted ==
    ASSUME NEW m \in Nat, NEW snapshot, Hashed(snapshot.hashes, m), NEW pairs
    PROVE  /\ Occupied(snapshot, pairs) \subseteq Slots
           /\ IsFiniteSet(Occupied(snapshot, pairs)) /\ Cardinality(Occupied(snapshot, pairs)) = m
<1>1. PICK hashes : hashes = snapshot.hashes /\ hashes \in [1 .. m -> Slots] /\ IsInjective(hashes)
  BY DEF Hashed
<1>2. PICK O : O = Occupied(snapshot, pairs)
  OBVIOUS
<1>3. O = {hashes[i] : i \in 1 .. m}
  BY <1>1, <1>2 DEF Occupied
<1>4. hashes \in Bijection(1 .. m, O)
  BY <1>1, <1>3 DEF Bijection, Injection, Surjection, IsInjective
<1>5. IsFiniteSet(1 .. m) /\ Cardinality(1 .. m) = m
  BY FS_Interval
<1>6. IsFiniteSet(O) /\ Cardinality(O) = Cardinality(1 .. m)
  BY <1>4, <1>5, FS_Bijection DEF ExistsBijection
<1>7. O \subseteq Slots
  BY <1>1, <1>3
<1> QED
  BY <1>2, <1>5, <1>6, <1>7

\* Only new lines take slots.
LEMMA TakenIsCounted ==
    ASSUME NEW m \in Nat, NEW snapshot, Hashed(snapshot.hashes, m),
           NEW n, NEW lines, IsText(lines, n), NEW pairs, Paired(pairs, m, n),
           NEW t, IsTaken(t, snapshot, lines, n, pairs), NEW last \in 0 .. n
    PROVE  /\ IsFiniteSet(t[last])
           /\ Cardinality(t[last]) <= m + Cardinality({j \in NewIn(pairs, m, n) : j <= last})
<1>1. n \in Nat
  BY DEF IsText
<1>2. /\ t[0] = Occupied(snapshot, pairs)
      /\ \A i \in 1 .. n : t[i] = t[i - 1] \cup {HashOf(snapshot, lines, pairs, t[i - 1], i)}
  BY DEF IsTaken
<1>3. snapshot.hashes \in [1 .. m -> Slots]
  BY DEF Hashed
<1> DEFINE N == NewIn(pairs, m, n)
           Upto(k) == {j \in N : j <= k}
           Counted(k) == /\ IsFiniteSet(t[k]) /\ Cardinality(t[k]) <= m + Cardinality(Upto(k))
                         /\ t[0] \subseteq t[k]
           S == {k \in Nat : k <= n => Counted(k)}
<1>4. ASSUME NEW k PROVE IsFiniteSet(Upto(k)) /\ Cardinality(Upto(k)) \in Nat
  <2>1. PICK U \in SUBSET NewIn(pairs, m, n) : U = Upto(k)
    OBVIOUS
  <2> QED
    BY <1>1, <2>1, NewAreFinite
<1>5. 0 \in S
  <2>1. IsFiniteSet(t[0]) /\ Cardinality(t[0]) = m
    BY <1>2, OccupiedIsCounted
  <2>2. PICK c \in Nat : c = Cardinality(Upto(0))
    BY <1>4
  <2> QED
    BY <2>1, <2>2
<1>6. ASSUME NEW k \in Nat, k \in S PROVE k + 1 \in S
  <2> SUFFICES ASSUME k + 1 <= n PROVE Counted(k + 1)
    OBVIOUS
  <2>1. k + 1 \in 1 .. n /\ (k + 1) - 1 = k /\ Counted(k)
    BY <1>1, <1>6
  <2>2. PICK x : x = HashOf(snapshot, lines, pairs, t[k], k + 1)
    OBVIOUS
  <2>3. t[k + 1] = t[k] \cup {x}
    BY <1>2, <2>1, <2>2
  <2>4. PICK c \in Nat, d \in Nat : c = Cardinality(Upto(k)) /\ d = Cardinality(t[k])
    BY <1>4, <2>1, FS_CardinalityType
  <2>5. IsFiniteSet(t[k + 1]) /\ Cardinality(t[k + 1]) = IF x \in t[k] THEN d ELSE d + 1
    <3>1. PICK T : T = t[k] /\ IsFiniteSet(T)
      BY <2>1
    <3>2. IsFiniteSet(T \cup {x})
          /\ Cardinality(T \cup {x}) = IF x \in T THEN Cardinality(T) ELSE Cardinality(T) + 1
      BY <3>1, FS_AddElement
    <3> HIDE DEF Upto
    <3> QED
      BY <2>3, <2>4, <3>1, <3>2
  <2>6. CASE k + 1 \in N
    <3>1. PICK U : U = Upto(k) /\ IsFiniteSet(U)
      BY <1>4
    <3>2. Upto(k + 1) = U \cup {k + 1} /\ k + 1 \notin U
      BY <2>6, <3>1 DEF NewIn
    <3>3. Cardinality(U \cup {k + 1}) = Cardinality(U) + 1
      BY <3>1, <3>2, FS_AddElement
    <3>4. Cardinality(Upto(k + 1)) = c + 1
      BY <2>4, <3>1, <3>2, <3>3
    <3> HIDE DEF Upto
    <3> QED
      BY <2>1, <2>3, <2>4, <2>5, <3>4
  <2>7. CASE k + 1 \notin N
    <3>1. PICK i \in 1 .. m : <<i, k + 1>> \in pairs
      BY <2>1, <2>7 DEF NewIn
    <3>2. PICK kept : kept = {j \in DOMAIN snapshot.hashes : <<j, k + 1>> \in pairs}
      OBVIOUS
    <3>3. kept # {} /\ (CHOOSE j \in kept : TRUE) \in kept /\ kept \subseteq DOMAIN snapshot.hashes
      BY <1>3, <3>1, <3>2
    <3>4. x = snapshot.hashes[CHOOSE j \in kept : TRUE]
      BY <2>2, <3>2, <3>3 DEF HashOf
    <3>5. x \in t[0]
      BY <1>2, <3>3, <3>4 DEF Occupied
    <3>6. Upto(k + 1) = Upto(k)
      BY <2>7 DEF NewIn
    <3>7. t[k + 1] = t[k]
      BY <2>1, <2>3, <3>5
    <3> HIDE DEF Upto
    <3> QED
      BY <2>1, <3>6, <3>7
  <2> QED
    BY <2>6, <2>7
<1>7. S = Nat
  <2>1. S \in SUBSET Nat
    OBVIOUS
  <2> HIDE DEF S
  <2> QED
    BY <1>5, <1>6, <2>1, Induction
<1>8. last \in Nat /\ last <= n
  BY <1>1
<1>9. Counted(last)
  <2>1. last \in S
    BY <1>7, <1>8
  <2> QED
    BY <1>8, <2>1
<1> QED
  BY <1>9

LEMMA SlotsAreCounted == IsFiniteSet(Slots) /\ Cardinality(Slots) = HashSpace
<1>1. HashSpace \in Nat \ {0}
  BY LineAnchorsAssumption
<1>2. 0 \in Int /\ HashSpace - 1 \in Int /\ ~(0 > HashSpace - 1)
  BY <1>1
<1>3. IsFiniteSet(0 .. HashSpace - 1)
      /\ Cardinality(0 .. HashSpace - 1) = IF 0 > HashSpace - 1 THEN 0 ELSE (HashSpace - 1) - 0 + 1
  BY <1>2, FS_Interval
<1> QED
  BY <1>1, <1>2, <1>3 DEF Slots

LEMMA SlotsSuffice ==
    ASSUME NEW m \in Nat, NEW snapshot, Hashed(snapshot.hashes, m),
           NEW n, NEW lines, IsText(lines, n), NEW pairs, Paired(pairs, m, n),
           NEW h, h = HashesFrom(snapshot, lines, pairs),
           m + Cardinality(NewIn(pairs, m, n)) <= HashSpace
    PROVE  Full \notin Range(h)
<1>1. PICK t : t = Taken(snapshot, lines, pairs)
  OBVIOUS
<1>2. snapshot.hashes \in [1 .. m -> Slots] /\ n \in Nat /\ DOMAIN lines = 1 .. n
  BY DEF Hashed, IsText
<1>3. IsTaken(t, snapshot, lines, n, pairs)
  <2>1. Occupied(snapshot, pairs) \subseteq Slots
    BY OccupiedIsCounted
  <2>2. snapshot.hashes \in [1 .. m -> Slots]
    BY <1>2
  <2>3. IsTaken(Taken(snapshot, lines, pairs), snapshot, lines, n, pairs)
    BY <2>1, <2>2, TakenIsDefined
  <2> QED
    BY <1>1, <2>3
<1> SUFFICES ASSUME NEW j \in 1 .. n, h[j] = Full PROVE FALSE
  BY <1>2 DEF Range, HashesFrom
<1>4. Full = HashOf(snapshot, lines, pairs, t[j - 1], j)
  BY <1>1, <1>2 DEF HashesFrom
<1>5. Full \notin Slots
  BY LineAnchorsAssumption DEF Full, Slots
<1>6. PICK kept : kept = {i \in DOMAIN snapshot.hashes : <<i, j>> \in pairs}
  OBVIOUS
<1>7. kept = {}
  <2> SUFFICES ASSUME kept # {} PROVE FALSE
    OBVIOUS
  <2>1. (CHOOSE i \in kept : TRUE) \in 1 .. m
    BY <1>2, <1>6
  <2>2. HashOf(snapshot, lines, pairs, t[j - 1], j) = snapshot.hashes[CHOOSE i \in kept : TRUE]
    BY <1>6 DEF HashOf
  <2> QED
    BY <1>2, <1>4, <1>5, <2>1, <2>2
<1>8. AllocateOne(lines[j], t[j - 1]) = Full /\ lines[j] \in Lines
  BY <1>4, <1>6, <1>7 DEF HashOf, IsText
<1>9. Slots \subseteq t[j - 1]
  BY <1>8, AllocationSucceeds
<1>10. PICK N : N = NewIn(pairs, m, n)
  OBVIOUS
<1>11. j \in N
  BY <1>2, <1>6, <1>7, <1>10 DEF NewIn
<1>12. IsFiniteSet(N) /\ Cardinality(N) \in Nat
  BY <1>2, <1>10, NewAreFinite
<1>13. IsFiniteSet(N \ {j}) /\ Cardinality(N \ {j}) = Cardinality(N) - 1
  BY <1>11, <1>12, FS_RemoveElement
<1>14. PICK U : U = {k \in N : k <= j - 1}
  OBVIOUS
<1>15. U \in SUBSET (N \ {j})
  BY <1>2, <1>14
<1>16. Cardinality(U) <= Cardinality(N) - 1 /\ Cardinality(U) \in Nat
  BY <1>13, <1>15, FS_Subset, FS_CardinalityType
<1>17. IsFiniteSet(t[j - 1]) /\ Cardinality(t[j - 1]) <= m + Cardinality(U)
  <2>1. PICK last \in 0 .. n : last = j - 1
    BY <1>2
  <2>2. /\ IsFiniteSet(t[last])
        /\ Cardinality(t[last]) <= m + Cardinality({k \in NewIn(pairs, m, n) : k <= last})
    <3>1. Hashed(snapshot.hashes, m)
      OBVIOUS
    <3>2. IsText(lines, n)
      OBVIOUS
    <3>3. Paired(pairs, m, n)
      OBVIOUS
    <3>4. IsTaken(t, snapshot, lines, n, pairs)
      BY <1>3
    <3> QED
      BY <3>1, <3>2, <3>3, <3>4, TakenIsCounted
  <2> QED
    BY <1>10, <1>14, <2>1, <2>2
<1>18. HashSpace <= Cardinality(t[j - 1]) /\ Cardinality(t[j - 1]) \in Nat /\ HashSpace \in Nat
  BY <1>9, <1>17, SlotsAreCounted, FS_Subset, FS_CardinalityType, LineAnchorsAssumption
<1>19. m + Cardinality(N) <= HashSpace
  BY <1>10
<1> QED
  BY <1>12, <1>16, <1>17, <1>18, <1>19

LEMMA SlotsAreNeeded ==
    ASSUME NEW m \in Nat, NEW snapshot, Hashed(snapshot.hashes, m), NEW n \in Nat,
           NEW pairs, NEW h, FollowPairs(h, snapshot.hashes, m, n, pairs)
    PROVE  m + Cardinality(NewIn(pairs, m, n)) <= HashSpace
<1>1. PICK N, O : N = NewIn(pairs, m, n) /\ O = Occupied(snapshot, pairs)
  OBVIOUS
<1>2. snapshot.hashes \in [1 .. m -> Slots]
  BY DEF Hashed
<1>3. /\ h \in [1 .. n -> Slots] /\ IsInjective(h) /\ N \subseteq 1 .. n
      /\ \A i \in 1 .. m, j \in 1 .. n : snapshot.hashes[i] = h[j] <=> <<i, j>> \in pairs
  BY <1>1 DEF FollowPairs, NewIn
<1>4. O \subseteq Slots /\ IsFiniteSet(O) /\ Cardinality(O) = m
  BY <1>1, OccupiedIsCounted
<1>5. IsFiniteSet(N) /\ Cardinality(N) \in Nat
  BY <1>1, NewAreFinite
<1>6. PICK H : H = {h[j] : j \in N}
  OBVIOUS
<1>7. H \subseteq Slots
  BY <1>3, <1>6
<1>8. IsFiniteSet(H) /\ Cardinality(H) = Cardinality(N)
  <2> DEFINE g == [j \in N |-> h[j]]
  <2>1. g \in [N -> H]
    BY <1>6
  <2>2. \A j \in N : g[j] = h[j]
    OBVIOUS
  <2> HIDE DEF g
  <2>3. \A j, k \in N : g[j] = g[k] => j = k
    BY <1>3, <2>2 DEF IsInjective
  <2>4. \A x \in H : \E j \in N : g[j] = x
    BY <1>6, <2>2
  <2>5. g \in Bijection(N, H)
    BY <2>1, <2>3, <2>4 DEF Bijection, Injection, Surjection, IsInjective
  <2> QED
    BY <1>5, <2>5, FS_Bijection DEF ExistsBijection
<1>9. O \cap H = {}
  <2> SUFFICES ASSUME NEW x \in O, x \in H PROVE FALSE
    OBVIOUS
  <2>1. PICK i \in 1 .. m : x = snapshot.hashes[i]
    BY <1>1, <1>2 DEF Occupied
  <2>2. PICK j \in N : x = h[j]
    BY <1>6
  <2> QED
    BY <1>1, <1>3, <2>1, <2>2 DEF NewIn
<1>10. Cardinality(O \cup H) = m + Cardinality(N)
  <2>1. Cardinality(O \cup H) = Cardinality(O) + Cardinality(H) - Cardinality({})
    BY <1>4, <1>8, <1>9, FS_Union
  <2> QED
    BY <1>4, <1>5, <1>8, <2>1, FS_EmptySet
<1>11. O \cup H \in SUBSET Slots
  BY <1>4, <1>7
<1>12. Cardinality(O \cup H) <= HashSpace
  BY <1>11, SlotsAreCounted, FS_Subset
<1> QED
  BY <1>1, <1>10, <1>12

\* The lines that find none of their content before them, and whether there is a
\* slot for each beside those of the stored snapshot.
NewLines(old, lines) ==
    {j \in DOMAIN lines : \A i \in DOMAIN old.lines : <<i, j>> \notin KeptPairs(old.lines, lines)}

Fits(old, lines) == Len(old.lines) + Cardinality(NewLines(old, lines)) <= HashSpace

LEMMA UnchangedIsKept ==
    ASSUME NEW n, NEW lines, IsText(lines, n)
    PROVE  NewIn(KeptPairs(lines, lines), n, n) = {}
<1>1. n \in Nat /\ DOMAIN lines = 1 .. n
  BY DEF IsText
<1>2. PICK K : K = KeptPairs(lines, lines) /\ Keeps(K, lines, lines, n, n)
  BY KeptPairsMatch
<1>3. OneToOne(K)
  BY <1>2 DEF Keeps
<1> SUFFICES ASSUME NEW j \in 1 .. n, \A i \in 1 .. n : <<i, j>> \notin K PROVE FALSE
  BY <1>2 DEF NewIn
<1>4. PICK line \in Lines : line = lines[j]
  BY DEF IsText
<1>5. PICK P : P = PositionsOf(lines, line) /\ IsFiniteSet(P) /\ Cardinality(P) \in Nat
  BY <1>1, PositionsAreFinite
<1>6. j \in P /\ P \subseteq 1 .. n
  BY <1>1, <1>4, <1>5 DEF PositionsOf
<1>7. \/ \A i \in P : \E k \in P : <<i, k>> \in K
      \/ \A k \in P : \E i \in P : <<i, k>> \in K
  BY <1>2, <1>5 DEF Keeps
<1>8. PICK paired : paired = {k \in P : \E i \in P : <<i, k>> \in K}
  OBVIOUS
<1>9. Cardinality({k \in P : \E i \in P : <<i, k>> \in K}) = Min({Cardinality(P), Cardinality(P)})
  BY <1>3, <1>5, <1>7, PairsAreCounted
<1>10. Cardinality(paired) = Cardinality(P)
  BY <1>5, <1>8, <1>9, SmallerOfTwo
<1>11. paired = P
  <2>1. paired \in SUBSET P
    BY <1>8
  <2> QED
    BY <1>5, <1>10, <2>1, FS_Subset
<1>12. PICK i \in P : <<i, j>> \in K
  BY <1>6, <1>8, <1>11
<1>13. i \in 1 .. n
  BY <1>6
<1> QED
  BY <1>12, <1>13

LEMMA NothingIsKept ==
    ASSUME NEW n, NEW lines, IsText(lines, n)
    PROVE  NewLines(NoSnapshot, lines) = NewIn({}, 0, n)
  BY DEF NewLines, NewIn, NoSnapshot, IsText

LEMMA FitsExactly ==
    ASSUME NEW old \in Stored, NEW lines \in Texts, NEW h, h = HashesFromSnapshot(old, lines)
    PROVE  Full \notin Range(h) <=> Fits(old, lines)
<1>1. PICK n \in 1 .. MaxLines : lines \in [1 .. n -> Lines]
  BY DEF Texts
<1>2. MaxLines \in Nat /\ n \in Nat /\ IsText(lines, n) /\ DOMAIN lines = 1 .. n
  BY <1>1, LineAnchorsAssumption DEF IsText
<1>3. ASSUME NEW m \in Nat, Hashed(old.hashes, m), NEW pairs, Paired(pairs, m, n),
             h = HashesFrom(old, lines, pairs)
      PROVE  Full \notin Range(h) <=> m + Cardinality(NewIn(pairs, m, n)) <= HashSpace
  <2>1. ASSUME Full \notin Range(h) PROVE m + Cardinality(NewIn(pairs, m, n)) <= HashSpace
    <3>1. IsText(lines, n)
      BY <1>2
    <3>2. FollowPairs(h, old.hashes, m, n, pairs)
      BY <1>3, <2>1, <3>1, HashesFollowPairs
    <3>3. n \in Nat
      BY <1>2
    <3> QED
      BY <1>3, <3>2, <3>3, SlotsAreNeeded
  <2>2. ASSUME m + Cardinality(NewIn(pairs, m, n)) <= HashSpace PROVE Full \notin Range(h)
    <3>1. IsText(lines, n)
      BY <1>2
    <3> QED
      BY <1>3, <2>2, <3>1, SlotsSuffice
  <2> QED
    BY <2>1, <2>2
<1>4. CASE old = NoSnapshot
  <2>1. Hashed(old.hashes, 0)
    BY <1>4 DEF Hashed, NoSnapshot, IsInjective
  <2>2. Paired({}, 0, n)
    BY DEF Paired, OneToOne
  <2>3. h = HashesFrom(old, lines, {})
    BY <1>4 DEF HashesFromSnapshot, AllocateHashes
  <2>4. Len(old.lines) = 0 /\ NewLines(old, lines) = NewIn({}, 0, n)
    BY <1>2, <1>4, NothingIsKept DEF NoSnapshot
  <2> QED
    BY <1>3, <2>1, <2>2, <2>3, <2>4 DEF Fits
<1>5. CASE old # NoSnapshot
  <2>1. PICK m \in 1 .. MaxLines : old \in [lines : [1 .. m -> Lines], hashes : [1 .. m -> Slots]]
    BY <1>5 DEF Stored, Snapshots
  <2>2. /\ m \in Nat /\ m <= MaxLines /\ IsText(old.lines, m) /\ Hashed(old.hashes, m)
        /\ old.hashes \in [1 .. m -> Slots] /\ DOMAIN old.lines = 1 .. m /\ Len(old.lines) = m
    BY <1>2, <2>1 DEF IsText, Stored, Hashed
  <2>3. PICK K : K = KeptPairs(old.lines, lines)
    OBVIOUS
  <2>4. NewLines(old, lines) = NewIn(K, m, n)
    BY <1>2, <2>2, <2>3 DEF NewLines, NewIn
  <2>5. CASE old.lines = lines
    <3>1. m = n
      BY <1>2, <2>2, <2>5
    <3>2. NewIn(K, m, n) = {}
      BY <1>2, <2>3, <2>5, <3>1, UnchangedIsKept
    <3>3. Fits(old, lines)
      BY <2>2, <2>4, <3>2, FS_EmptySet, LineAnchorsAssumption DEF Fits
    <3>4. h = old.hashes
      BY <1>5, <2>5 DEF HashesFromSnapshot
    <3>5. Full \notin Slots
      BY LineAnchorsAssumption DEF Full, Slots
    <3>6. Full \notin Range(h)
      BY <2>2, <3>4, <3>5 DEF Range
    <3> QED
      BY <3>3, <3>6
  <2>6. CASE old.lines # lines
    <3>1. Keeps(K, old.lines, lines, m, n)
      BY <1>2, <2>2, <2>3, KeptPairsMatch
    <3>2. Paired(K, m, n)
      BY <3>1 DEF Keeps, Paired
    <3>3. h = HashesFrom(old, lines, K)
      BY <1>5, <2>3, <2>6 DEF HashesFromSnapshot, StableHashes
    <3> QED
      BY <1>3, <2>2, <2>4, <3>2, <3>3 DEF Fits
  <2> QED
    BY <2>5, <2>6
<1> QED
  BY <1>4, <1>5

\* allocate_one panics exactly if the lines of the stored snapshot and those lines of
\* the text that find none of their content in it are, together, more than the hash
\* space; never for a text that is read for the first time.  So the comment at its
\* panic, that the lines of one text are bounded by the hash space, does not suffice.
THEOREM PanicIsCharacterised ==
    FileToolsSpec =>
        [][\A c \in Calls : Load(c, TRUE) =>
            /\ calls'[c].pc = "save" <=> Fits(store[calls[c].file], calls[c].text)
            /\ store[calls[c].file] = NoSnapshot => calls'[c].pc = "save"]_fileVars
<1> DEFINE Step ==
      \A c \in Calls : Load(c, TRUE) =>
        /\ calls'[c].pc = "save" <=> Fits(store[calls[c].file], calls[c].text)
        /\ store[calls[c].file] = NoSnapshot => calls'[c].pc = "save"
<1>1. ASSUME SeenInv, TypesInv PROVE Step
  <2> SUFFICES ASSUME NEW c \in Calls, Load(c, TRUE)
               PROVE  /\ calls'[c].pc = "save" <=> Fits(store[calls[c].file], calls[c].text)
                      /\ store[calls[c].file] = NoSnapshot => calls'[c].pc = "save"
    OBVIOUS
  <2>1. PICK r : r = calls[c] /\ r.pc = "load" /\ Typed(r)
    BY <1>1 DEF Load, At, TypesInv
  <2>2. PICK old \in Stored, lines \in Texts : old = store[r.file] /\ lines = r.text
    BY <1>1, <2>1 DEF Typed, TypesInv, StoreOK
  <2>3. PICK h : h = HashesFromSnapshot(old, lines)
    OBVIOUS
  <2>4. \A q : Goes(c, q) => calls'[c] = q
    BY <1>1 DEF Goes, SeenInv, Shape
  <2>5. calls'[c].pc = "save" <=> Full \notin Range(h)
    <3>1. CASE Full \notin Range(h)
      <4>1. \E q : q.pc = "save" /\ Goes(c, q)
        BY <2>1, <2>2, <2>3, <3>1 DEF Load
      <4> QED
        BY <2>4, <3>1, <4>1
    <3>2. CASE Full \in Range(h)
      <4>1. Goes(c, Idle)
        BY <2>1, <2>2, <2>3, <3>2 DEF Load, Ends
      <4> QED
        BY <2>4, <3>2, <4>1 DEF Idle
    <3> QED
      BY <3>1, <3>2
  <2>6. Full \notin Range(h) <=> Fits(old, lines)
    BY <2>3, FitsExactly
  <2>7. old = NoSnapshot => Fits(old, lines)
    <3> SUFFICES ASSUME old = NoSnapshot PROVE Fits(old, lines)
      OBVIOUS
    <3>1. PICK n \in 1 .. MaxLines : IsText(lines, n)
      BY DEF Texts, IsText
    <3>2. NewLines(old, lines) \in SUBSET (1 .. n) /\ Len(old.lines) = 0
      BY <3>1 DEF NewLines, IsText, NoSnapshot
    <3>3. MaxLines \in Nat /\ MaxLines <= HashSpace /\ HashSpace \in Nat /\ n \in Nat
      BY LineAnchorsAssumption
    <3>4. IsFiniteSet(1 .. n) /\ Cardinality(1 .. n) = n
      BY <3>3, FS_Interval
    <3>5. Cardinality(NewLines(old, lines)) <= n /\ Cardinality(NewLines(old, lines)) \in Nat
      BY <3>2, <3>4, FS_Subset, FS_CardinalityType
    <3> QED
      BY <3>2, <3>3, <3>5 DEF Fits
  <2> QED
    BY <2>1, <2>2, <2>5, <2>6, <2>7
<1> QED
  BY <1>1, SeenHolds, TypesHold, PTL

=============================================================================
