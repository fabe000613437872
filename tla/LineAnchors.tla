---------------------------- MODULE LineAnchors ----------------------------
(***************************************************************************)
(* The anchors of a file's lines (src/src/tools/read.rs, anchor_store.rs): *)
(* every line that is read gets a short hash that is unique in the file,   *)
(* and lines that are found again in a changed file keep theirs.           *)
(*                                                                         *)
(* A line stands for its canonical identity, without trailing blanks, and  *)
(* an anchor for its slot among HASH_SPACE.  The checksum of a text is the *)
(* text.                                                                   *)
(***************************************************************************)
EXTENDS Naturals, Sequences, FiniteSets, Functions, FiniteSetsExt

CONSTANTS
    Lines,
    HashSpace,      \* HASH_SPACE
    Stride,         \* PROBE_STRIDE
    BaseSlot,       \* base_slot of a line
    MaxLines        \* MAX_LINES

Slots == 0 .. HashSpace - 1
Texts == UNION {[1 .. n -> Lines] : n \in 1 .. MaxLines}

\* The stride reaches every slot, and a text that is read has a slot for
\* every line.
ASSUME LineAnchorsAssumption ==
    /\ {HashSpace, Stride, MaxLines} \subseteq Nat \ {0} /\ MaxLines <= HashSpace
    /\ BaseSlot \in [Lines -> Slots]
    /\ \A slot \in Slots : \E k \in Slots : (k * Stride) % HashSpace = slot

\* A row of the store; lines tells which line an anchor was given to.
Snapshots == UNION {[lines : [1 .. n -> Lines], hashes : [1 .. n -> Slots]] : n \in 1 .. MaxLines}
NoSnapshot == [lines |-> <<>>, hashes |-> <<>>]

-----------------------------------------------------------------------------
(***************************************************************************)
(* nearest_occurrence_pairs: old and new are the sets of positions of one  *)
(* content.                                                                *)
(***************************************************************************)
Distance(a, b) == IF a < b THEN b - a ELSE a - b

Nearest(old, remaining) ==
    CHOOSE new \in remaining : \A other \in remaining :
        \/ Distance(old, new) < Distance(old, other)
        \/ Distance(old, new) = Distance(old, other) /\ new <= other

Claim(state, old) ==
    IF state.remaining = {} THEN state
    ELSE LET new == Nearest(old, state.remaining)
         IN  [remaining |-> state.remaining \ {new}, pairs |-> state.pairs \cup {<<old, new>>}]

\* The old positions in their order, and what is left of the new ones.
Walk(old, new) ==
    LET walk[i \in 0 .. MaxLines] ==
            CASE i = 0    -> [remaining |-> new, pairs |-> {}]
              [] i \in old -> Claim(walk[i - 1], i)
              [] OTHER    -> walk[i - 1]
    IN  walk

NearestOccurrencePairs(old, new) == Walk(old, new)[MaxLines].pairs

-----------------------------------------------------------------------------
(***************************************************************************)
(* stable_hashes and allocate_hashes.                                      *)
(***************************************************************************)
PositionsOf(lines, line) == {i \in DOMAIN lines : lines[i] = line}

\* Which old line's anchor a new line keeps.
KeptPairs(old, new) ==
    UNION {NearestOccurrencePairs(PositionsOf(old, line), PositionsOf(new, line)) : line \in Lines}

Probe(line, k) == (BaseSlot[line] + k * Stride) % HashSpace

\* allocate_one: the first free slot from the line's own; with none, it panics.
Full == HashSpace

AllocateOne(line, occupied) ==
    LET free == {k \in Slots : Probe(line, k) \notin occupied}
    IN  IF free = {} THEN Full ELSE Probe(line, Min(free))

\* Mutant: only the anchors that were kept are taken.
ForgottenSlots(snapshot, pairs) == {snapshot.hashes[p[1]] : p \in pairs}

\* The slots that no new line may get: all of the previous snapshot.
Occupied(snapshot, pairs) == {snapshot.hashes[i] : i \in DOMAIN snapshot.hashes}

\* The hash that a line keeps, or a free slot.
HashOf(snapshot, lines, pairs, occupied, i) ==
    LET kept == {j \in DOMAIN snapshot.hashes : <<j, i>> \in pairs}
    IN  IF kept # {} THEN snapshot.hashes[CHOOSE j \in kept : TRUE]
        ELSE AllocateOne(lines[i], occupied)

\* The slots that are occupied after the first lines.
Taken(snapshot, lines, pairs) ==
    LET taken[i \in 0 .. Len(lines)] ==
            IF i = 0 THEN Occupied(snapshot, pairs)
            ELSE taken[i - 1] \cup {HashOf(snapshot, lines, pairs, taken[i - 1], i)}
    IN  taken

HashesFrom(snapshot, lines, pairs) ==
    [i \in DOMAIN lines |->
        HashOf(snapshot, lines, pairs, Taken(snapshot, lines, pairs)[i - 1], i)]

AllocateHashes(lines) == HashesFrom(NoSnapshot, lines, {})

\* The second pass of stable_hashes, over the lines of a content that the
\* first one left, finds nothing: it left old ones or new ones, not both.
StableHashes(snapshot, lines) == HashesFrom(snapshot, lines, KeptPairs(snapshot.lines, lines))

HashesFromSnapshot(stored, lines) ==
    IF stored = NoSnapshot THEN AllocateHashes(lines)
    ELSE IF stored.lines = lines THEN stored.hashes
    ELSE StableHashes(stored, lines)

=============================================================================
