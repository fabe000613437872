----------------------------- MODULE FileTools -----------------------------
(***************************************************************************)
(* The file tools (src/src/tools/read.rs, edit.rs, write.rs,               *)
(* observations.rs): an agent may change only what it has seen.            *)
(*                                                                         *)
(* A session remembers the files it has observed, in memory; the anchors   *)
(* of their lines are in a store that sessions share and that survives the *)
(* backend.  Work on files and on the store is done by blocking tasks: a   *)
(* step is such a task, or what comes after it, and a task goes on when    *)
(* the run that wanted it is cancelled.                                    *)
(*                                                                         *)
(* A text is its lines (checksums, newlines, the byte-order mark and       *)
(* staging are left out), and a read shows all of them.  The last look at  *)
(* a file and its replacement are one step: README.md:291-293 says that    *)
(* another program can still come in between.                              *)
(***************************************************************************)
EXTENDS LineAnchors

CONSTANTS
    Sessions,
    Files,          \* canonical paths
    Names,          \* paths that are asked for: the files, and links to them
    Calls,          \* tool calls under way
    Tools,          \* the tools that are used, of "read", "edit" and "write"
    Written,        \* the texts that write is given
    Others,         \* what other programs make of a file; Missing: they delete it
    Inserted,       \* what an edit puts in
    MaxUses,        \* calls of a tool
    MaxChanges,     \* changes by other programs
    MaxFaults       \* failures of the store, cancelled runs, restarts

ASSUME FileToolsAssumption ==
    /\ Files \subseteq Names /\ Written \subseteq Texts /\ Others \subseteq Texts \cup {<<>>}
    /\ Inserted \subseteq Seq(Lines)
    /\ {MaxUses, MaxChanges, MaxFaults} \subseteq Nat

VARIABLES
    files, target,  \* what is in the files, and where the names lead
    store,          \* the anchor store
    observations,   \* FileObservations of each session
    calls,
    views,          \* the rows a session's agent saw last under a name
    seen,           \* the texts it has seen, or made, since the backend started
    uses, changes, faults

fileVars == <<files, target, store, observations, calls, views, seen, uses, changes, faults>>

Missing == <<>>
None == [file |-> "none", text |-> Missing]
\* A text without lines reads as one empty line.
Empty == CHOOSE line \in Lines : TRUE

\* Mutant: it has no line at all.
EncodedAsIs(lines) == lines

Encoded(lines) == IF lines = <<>> THEN <<Empty>> ELSE lines

Idle == [pc |-> "idle"]
Exists(n) == files[target[n]] # Missing
Seen(s, f, text) == seen' = [seen EXCEPT ![s] = @ \cup {<<f, text>>}]

-----------------------------------------------------------------------------
(***************************************************************************)
(* FileObservations.                                                       *)
(***************************************************************************)

Record(s, n, f, text) ==
    [observations EXCEPT ![s] = [m \in Names |->
        IF m \in {n, f} THEN [file |-> f, text |-> text] ELSE @[m]]]

Forget(s, observation) ==
    [observations EXCEPT ![s] = [m \in Names |->
        IF @[m].file = observation.file THEN None ELSE @[m]]]

\* What is known of a path, or of the file it leads to.
Observed(s, n) ==
    IF observations[s][n] # None THEN observations[s][n] ELSE observations[s][target[n]]


\* Mutant: the text is compared, and not where the path leads.
FreshText(n, observation) == observation.text = files[target[n]]

Fresh(n, observation) == observation.file = target[n] /\ observation.text = files[target[n]]

-----------------------------------------------------------------------------
FileToolsInit ==
    /\ files \in [Files -> Others \ {Missing}] /\ target \in [Names -> Files]
    /\ \A f \in Files : target[f] = f
    /\ store = [f \in Files |-> NoSnapshot]
    /\ observations = [s \in Sessions |-> [n \in Names |-> None]]
    /\ calls = [c \in Calls |-> Idle]
    /\ views = [s \in Sessions |-> [n \in Names |-> NoSnapshot]]
    /\ seen = [s \in Sessions |-> {}]
    /\ uses = 0 /\ changes = 0 /\ faults = 0

\* A run has one tool call at a time; those of cancelled runs may be left.
Use(tool, s) ==
    /\ tool \in Tools /\ uses < MaxUses /\ uses' = uses + 1
    /\ \A c \in Calls : calls[c] # Idle /\ calls[c].session = s => calls[c].dropped

Goes(c, call) == calls' = [calls EXCEPT ![c] = call]
GoesOn(c, pc) == calls' = [calls EXCEPT ![c].pc = pc]
Ends(c) == Goes(c, Idle)
At(c, pc) == calls[c].pc = pc
Works(ok) == (ok \/ faults < MaxFaults) /\ faults' = IF ok THEN faults ELSE faults + 1

-----------------------------------------------------------------------------
(***************************************************************************)
(* read.                                                                   *)
(***************************************************************************)

\* collect_read_payload.
Collect(c, s, n) ==
    IF Exists(n)
    THEN Goes(c, [pc |-> "load", session |-> s, dropped |-> FALSE, name |-> n,
                  file |-> target[n], text |-> files[target[n]]])
    ELSE Ends(c)

StartRead(c, s, n) ==
    /\ calls[c] = Idle /\ Use("read", s) /\ Collect(c, s, n)
    /\ UNCHANGED <<files, target, store, observations, views, seen, changes, faults>>

\* An edit reads the file again when it is done.
Reread(c) ==
    /\ At(c, "reread") /\ Collect(c, calls[c].session, calls[c].name)
    /\ UNCHANGED <<files, target, store, observations, views, seen, uses, changes, faults>>

\* With no slot left for a line, allocate_one panics, and the call is over.
Load(c, ok) ==
    /\ At(c, "load") /\ Works(ok)
    /\ LET call == calls[c]
           hashes == HashesFromSnapshot(store[call.file], call.text)
       IN  IF ok /\ Full \notin Range(hashes)
           THEN Goes(c, [pc |-> "save", session |-> call.session, dropped |-> FALSE, name |-> call.name,
                         file |-> call.file, read |-> store[call.file],
                         snapshot |-> [lines |-> call.text, hashes |-> hashes]])
           ELSE Ends(c)
    /\ UNCHANGED <<files, target, store, observations, views, seen, uses, changes>>

\* The anchors are saved; then the file counts as observed and the rows are
\* shown, unless the call was dropped.
Save(c, ok) ==
    /\ At(c, "save") /\ Works(ok)
    /\ LET call == calls[c]
           shown == ok /\ ~call.dropped
       IN  /\ store' = IF ok THEN [store EXCEPT ![call.file] = call.snapshot] ELSE store
           /\ IF shown
              THEN /\ observations' = Record(call.session, call.name, call.file, call.snapshot.lines)
                   /\ views' = [views EXCEPT ![call.session][call.name] = call.snapshot]
                   /\ Seen(call.session, call.file, call.snapshot.lines)
              ELSE UNCHANGED <<observations, views, seen>>
    /\ Ends(c)
    /\ UNCHANGED <<files, target, uses, changes>>

-----------------------------------------------------------------------------
(***************************************************************************)
(* edit.                                                                   *)
(***************************************************************************)

\* collect_edit_payload: the file must be as it was observed; otherwise the
\* observation is forgotten.
CollectObserved(c, s, n, call) ==
    IF ~Exists(n)
    THEN /\ observations' = IF observations[s][n] # None
                            THEN Forget(s, observations[s][n]) ELSE observations
         /\ Ends(c)
    ELSE IF Observed(s, n) = None THEN Ends(c) /\ UNCHANGED observations
    ELSE IF ~Fresh(n, Observed(s, n))
    THEN Ends(c) /\ observations' = Forget(s, Observed(s, n))
    ELSE Goes(c, call) /\ UNCHANGED observations

\* The agent names anchors it was shown.
StartEdit(c, s, n, from, to, lines) ==
    /\ calls[c] = Idle /\ Use("edit", s)
    /\ {from, to} \subseteq DOMAIN views[s][n].hashes /\ from <= to
    /\ CollectObserved(c, s, n,
            [pc |-> "find", session |-> s, dropped |-> FALSE, name |-> n,
             file |-> target[n], text |-> files[target[n]],
             from |-> views[s][n].hashes[from], to |-> views[s][n].hashes[to], lines |-> lines])
    /\ UNCHANGED <<files, target, store, views, seen, changes, faults>>

\* The anchors are looked up in the stored snapshot of the file; with one
\* that has more lines than the file, splice panics.  (MaxLines is a bound.)
Find(c, ok) ==
    /\ At(c, "find") /\ Works(ok)
    /\ LET call == calls[c]
           hashes == store[call.file].hashes
           At1(hash) == {i \in DOMAIN hashes : hashes[i] = hash}
           found == ok /\ At1(call.from) # {} /\ At1(call.to) # {}
           i == CHOOSE k \in At1(call.from) : TRUE
           j == CHOOSE k \in At1(call.to) : TRUE
           new == Encoded(SubSeq(call.text, 1, i - 1) \o call.lines \o SubSeq(call.text, j + 1, Len(call.text)))
       IN  IF found /\ i <= j /\ j <= Len(call.text) /\ Len(new) <= MaxLines
           THEN Goes(c, [pc |-> "replace", session |-> call.session, dropped |-> FALSE, name |-> call.name,
                         file |-> call.file, text |-> call.text, new |-> new])
           ELSE Ends(c)
    /\ UNCHANGED <<files, target, store, observations, views, seen, uses, changes>>

\* The file is replaced if it still is what was collected.
Replace(c) ==
    /\ At(c, "replace")
    /\ LET call == calls[c]
       IN  IF files[call.file] = call.text
           THEN /\ files' = [files EXCEPT ![call.file] = call.new]
                /\ observations' = Record(call.session, call.name, call.file, call.new)
                /\ Seen(call.session, call.file, call.new)
                /\ IF call.dropped THEN Ends(c) ELSE GoesOn(c, "reread")
           ELSE Ends(c) /\ UNCHANGED <<files, observations, seen>>
    /\ UNCHANGED <<target, store, views, uses, changes, faults>>

-----------------------------------------------------------------------------
(***************************************************************************)
(* write.                                                                  *)
(***************************************************************************)
StartWrite(c, s, n, text) ==
    /\ calls[c] = Idle /\ Use("write", s)
    /\ LET call == [pc |-> "create", session |-> s, dropped |-> FALSE, name |-> n, file |-> target[n],
                    new |-> text]
       IN  IF Exists(n)
           THEN CollectObserved(c, s, n, [pc |-> "overwrite", session |-> s, dropped |-> FALSE, name |-> n,
                                          file |-> target[n], new |-> text, expected |-> Observed(s, n)])
           ELSE IF observations[s][n] # None
           THEN Ends(c) /\ observations' = Forget(s, observations[s][n])
           ELSE Goes(c, call) /\ UNCHANGED observations
    /\ UNCHANGED <<files, target, store, views, seen, changes, faults>>

Installed(call) ==
    /\ files' = [files EXCEPT ![call.file] = call.new]
    /\ observations' = Record(call.session, call.name, call.file, call.new)
    /\ Seen(call.session, call.file, call.new)

Overwrite(c) ==
    /\ At(c, "overwrite")
    /\ LET call == calls[c]
       IN  CASE files[call.file] = call.expected.text -> Installed(call)
             [] files[call.file] = Missing -> UNCHANGED <<files, observations, seen>>
             [] OTHER -> /\ observations' = Forget(call.session, call.expected)
                         /\ UNCHANGED <<files, seen>>
    /\ Ends(c)
    /\ UNCHANGED <<target, store, views, uses, changes, faults>>

\* persist_noclobber: a name that exists by now, also as a link that leads
\* nowhere, is left alone.
Create(c) ==
    /\ At(c, "create")
    /\ LET call == calls[c]
       IN  IF call.name = call.file /\ files[call.file] = Missing THEN Installed(call)
           ELSE UNCHANGED <<files, observations, seen>>
    /\ Ends(c)
    /\ UNCHANGED <<target, store, views, uses, changes, faults>>

-----------------------------------------------------------------------------
(***************************************************************************)
(* What happens to calls and files.                                        *)
(***************************************************************************)

\* The run is cancelled.  A task that changes something goes on.
Drop(c) ==
    /\ calls[c] # Idle /\ ~calls[c].dropped /\ Works(FALSE)
    /\ IF calls[c].pc \in {"load", "find", "reread"} THEN Ends(c)
       ELSE calls' = [calls EXCEPT ![c].dropped = TRUE]
    /\ UNCHANGED <<files, target, store, observations, views, seen, uses, changes>>

\* The backend dies and the sessions are opened again, with their history.
Restart ==
    /\ Works(FALSE)
    /\ calls' = [c \in Calls |-> Idle]
    /\ observations' = [s \in Sessions |-> [n \in Names |-> None]]
    /\ seen' = [s \in Sessions |-> {}]
    /\ UNCHANGED <<files, target, store, views, uses, changes>>

\* Another program writes or deletes a file, or changes a link.
OtherWrites(f, text) ==
    /\ changes < MaxChanges /\ changes' = changes + 1
    /\ files[f] # text /\ files' = [files EXCEPT ![f] = text]
    /\ UNCHANGED <<target, store, observations, calls, views, seen, uses, faults>>

OtherLinks(n, f) ==
    /\ n \notin Files /\ changes < MaxChanges /\ changes' = changes + 1
    /\ target[n] # f /\ target' = [target EXCEPT ![n] = f]
    /\ UNCHANGED <<files, store, observations, calls, views, seen, uses, faults>>

-----------------------------------------------------------------------------
FileToolsNext ==
    \/ \E c \in Calls, s \in Sessions, n \in Names :
        \/ StartRead(c, s, n)
        \/ \E from, to \in 1 .. MaxLines, lines \in Inserted : StartEdit(c, s, n, from, to, lines)
        \/ \E text \in Written : StartWrite(c, s, n, text)
    \/ \E c \in Calls :
        \/ Reread(c) \/ Replace(c) \/ Overwrite(c) \/ Create(c) \/ Drop(c)
        \/ \E ok \in BOOLEAN : Load(c, ok) \/ Save(c, ok) \/ Find(c, ok)
    \/ Restart
    \/ \E f \in Files, text \in Others : OtherWrites(f, text)
    \/ \E n \in Names, f \in Files : OtherLinks(n, f)

FileToolsSpec == FileToolsInit /\ [][FileToolsNext]_fileVars

-----------------------------------------------------------------------------
(***************************************************************************)
(* Properties.                                                             *)
(***************************************************************************)

\* The types of what is kept; a stored snapshot names each anchor once.
FileToolsTypeOK ==
    /\ files \in [Files -> Texts \cup {Missing}] /\ target \in [Names -> Files]
    /\ store \in [Files -> Snapshots \cup {NoSnapshot}]
    /\ \A f \in Files : IsInjective(store[f].hashes)
    /\ \A s \in Sessions, n \in Names :
        /\ observations[s][n] = None \/ observations[s][n] \in [file : Files, text : Texts]
        /\ n \in Files /\ observations[s][n] # None => observations[s][n].file = n
    /\ uses \in 0 .. MaxUses /\ changes \in 0 .. MaxChanges /\ faults \in 0 .. MaxFaults

\* README.md:283-293: an agent changes a file only from a text that its
\* session was shown, or made, since the backend started.  What other
\* sessions read, a link that leads elsewhere, a change in the middle of the
\* call, or a call that was dropped gives it no authority.
OnlyObservedIsReplaced ==
    [][\A c \in Calls, f \in Files :
        calls[c] # Idle /\ calls'[c] # calls[c] /\ files'[f] # files[f] /\ files[f] # Missing
            => <<f, files[f]>> \in seen[calls[c].session]]_fileVars

\* Which of the anchors of one row go to which lines of the next.
Keeping(old, new, line) == {j \in PositionsOf(new.lines, line) : new.hashes[j] \in Range(old.hashes)}
Follows(old, new) ==
    /\ \A i \in DOMAIN old.hashes, j \in DOMAIN new.hashes :
            old.hashes[i] = new.hashes[j] => old.lines[i] = new.lines[j]
    /\ \A line \in Lines :
        LET before == PositionsOf(old.lines, line)
            after == PositionsOf(new.lines, line)
        IN  /\ Cardinality(Keeping(old, new, line)) = Min({Cardinality(before), Cardinality(after)})
            /\ before \subseteq after => \A i \in before : new.hashes[i] = old.hashes[i]

\* An agent names lines by anchors it saw earlier.  When a row of the store is
\* replaced, no anchor goes to a line of different content, of every content as
\* many lines keep an anchor as both versions have, and lines that are all where
\* they were keep their own: one of the same content that is added borrows none.
\* That holds unless another read of the file has stored a row since this one
\* loaded the row it goes by.
AnchorsFollowLines ==
    [][\A c \in Calls :
        LET f == calls[c].file
        IN  At(c, "save") /\ calls'[c] # calls[c] /\ store'[f] # store[f] /\ calls[c].read = store[f]
                => Follows(store[f], store'[f])]_fileVars
=============================================================================
