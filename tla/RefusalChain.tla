---------------------------- MODULE RefusalChain ----------------------------
(***************************************************************************)
(* The refusal ledger (kernel/src/ledger.rs): one file of lines, each a    *)
(* record that names the hash of the one before it, appended to by several *)
(* processes.  A writer takes a lock file, reads the hash of the last      *)
(* line, writes its record and then the newline, and removes the lock.     *)
(* Waiting for the lock ends after a second, and then it writes without    *)
(* it.  A process may stop anywhere and leaves the lock and whatever it    *)
(* wrote of its line.                                                      *)
(*                                                                         *)
(* A record's hash is the number it was made under: two records differ in  *)
(* their time or text, or are one.  What the hash commits to, and copies   *)
(* in which texts are replaced by their hashes, are not modelled.          *)
(***************************************************************************)
EXTENDS Naturals, Sequences

CONSTANTS
    Writers, Nobody,
    MaxRecords,   \* bound on the records made
    MaxStops      \* bound on the times a process stops

ASSUME ChainAssumption ==
    Nobody \notin Writers /\ MaxRecords \in Nat /\ MaxStops \in Nat

VARIABLES
    chain,        \* the lines of ledger.jsonl
    chainLock,    \* who made ledger.lock, or Nobody if it is not there
    doing,        \* where in `record` each writer is
    holds,        \* whether it made the lock that is there
    tailOf,       \* the hash it read
    written,      \* the records whose call returned Ok
    recordsMade, stops,
    overtaken     \* whether one that went past the lock met another inside

chainVars == <<chain, chainLock, doing, holds, tailOf, written,
               recordsMade, stops, overtaken>>

GENESIS == 0

Record == [hash : Nat, prev_hash : Nat, whole : BOOLEAN]

\* The pieces between two newlines, and whether the second is there.
Line == [pieces : Seq(Record), ended : BOOLEAN]

Steps == {"idle", "waiting", "tail", "body", "newline", "returning"}

ChainTypeOK ==
    /\ chain \in Seq(Line)
    /\ chainLock \in Writers \cup {Nobody}
    /\ doing \in [Writers -> Steps]
    /\ holds \in [Writers -> BOOLEAN]
    /\ tailOf \in [Writers -> Nat]
    /\ written \subseteq Nat
    /\ recordsMade \in Nat /\ stops \in Nat /\ overtaken \in BOOLEAN

ChainInit ==
    /\ chain = <<>> /\ chainLock = Nobody
    /\ doing = [w \in Writers |-> "idle"]
    /\ holds = [w \in Writers |-> FALSE]
    /\ tailOf = [w \in Writers |-> GENESIS]
    /\ written = {} /\ recordsMade = 0 /\ stops = 0 /\ overtaken = FALSE

-----------------------------------------------------------------------------
\* A line that `load` takes for a record, and what is on it.
Reads(l) == Len(l.pieces) = 1 /\ l.pieces[1].whole
RecordOn(l) == l.pieces[1]

\* last_hash, of a file whose last line reads.
LastHash == IF chain = <<>> THEN GENESIS ELSE RecordOn(chain[Len(chain)]).hash
TailReads == chain # <<>> => Reads(chain[Len(chain)])

Inside(w) == doing[w] \in {"body", "newline"}

Goes(w, step) == doing' = [doing EXCEPT ![w] = step]

Begin(w) ==
    /\ doing[w] = "idle" /\ Goes(w, "waiting")
    /\ UNCHANGED <<chain, chainLock, holds, tailOf, written, recordsMade, stops, overtaken>>

\* A bug to be noticed: the lock that is there is taken for this writer's.
TakeAnyLock(w) ==
    /\ doing[w] = "waiting"
    /\ chainLock' = w /\ holds' = [holds EXCEPT ![w] = TRUE] /\ Goes(w, "tail")
    /\ UNCHANGED <<chain, tailOf, written, recordsMade, stops, overtaken>>

TakeLock(w) ==
    /\ doing[w] = "waiting" /\ chainLock = Nobody
    /\ chainLock' = w /\ holds' = [holds EXCEPT ![w] = TRUE] /\ Goes(w, "tail")
    /\ UNCHANGED <<chain, tailOf, written, recordsMade, stops, overtaken>>

\* The fifty tries are over.
GoPast(w) ==
    /\ doing[w] = "waiting" /\ chainLock # Nobody
    /\ Goes(w, "tail")
    /\ UNCHANGED <<chain, chainLock, holds, tailOf, written, recordsMade, stops, overtaken>>

Meets(w) == \E v \in Writers \ {w} : Inside(v) /\ ~(holds[v] /\ holds[w])

ReadTail(w) ==
    /\ doing[w] = "tail" /\ TailReads
    /\ tailOf' = [tailOf EXCEPT ![w] = LastHash]
    /\ overtaken' = (overtaken \/ Meets(w))
    /\ Goes(w, "body")
    /\ UNCHANGED <<chain, chainLock, holds, written, recordsMade, stops>>

\* "tail is not a record": the call fails.
TailFails(w) ==
    /\ doing[w] = "tail" /\ ~TailReads
    /\ Goes(w, "returning")
    /\ UNCHANGED <<chain, chainLock, holds, tailOf, written, recordsMade, stops, overtaken>>

\* A piece goes to the end of the file, whatever the line is.
Appended(piece) ==
    LET n == Len(chain)
    IN IF n > 0 /\ ~chain[n].ended
       THEN [chain EXCEPT ![n] = [pieces |-> Append(chain[n].pieces, piece), ended |-> FALSE]]
       ELSE Append(chain, [pieces |-> <<piece>>, ended |-> FALSE])

RecordOf(w, whole) ==
    [hash |-> recordsMade + 1, prev_hash |-> tailOf[w], whole |-> whole]

WriteBody(w) ==
    /\ doing[w] = "body" /\ recordsMade < MaxRecords
    /\ chain' = Appended(RecordOf(w, TRUE))
    /\ recordsMade' = recordsMade + 1
    /\ tailOf' = [tailOf EXCEPT ![w] = recordsMade + 1]
    /\ Goes(w, "newline")
    /\ UNCHANGED <<chainLock, holds, written, stops, overtaken>>

\* A newline after a newline makes an empty line, which `load` skips.
EndLine ==
    IF chain # <<>> /\ ~chain[Len(chain)].ended
    THEN [chain EXCEPT ![Len(chain)] = [pieces |-> chain[Len(chain)].pieces, ended |-> TRUE]]
    ELSE chain

WriteNewline(w) ==
    /\ doing[w] = "newline"
    /\ chain' = EndLine
    /\ written' = written \cup {tailOf[w]}
    /\ Goes(w, "returning")
    /\ UNCHANGED <<chainLock, holds, tailOf, recordsMade, stops, overtaken>>

\* The lock is removed by who made it.
Return(w) ==
    /\ doing[w] = "returning"
    /\ chainLock' = IF holds[w] THEN Nobody ELSE chainLock
    /\ holds' = [holds EXCEPT ![w] = FALSE]
    /\ Goes(w, "idle")
    /\ UNCHANGED <<chain, tailOf, written, recordsMade, stops, overtaken>>

\* The process stops, perhaps with part of its record written.
StopWriting(w) ==
    /\ doing[w] # "idle" /\ stops < MaxStops /\ stops' = stops + 1
    /\ chain' \in IF doing[w] = "body" THEN {chain, Appended(RecordOf(w, FALSE))} ELSE {chain}
    /\ Goes(w, "idle")
    /\ holds' = [holds EXCEPT ![w] = FALSE]
    /\ UNCHANGED <<chainLock, tailOf, written, recordsMade, overtaken>>

Writing(w) ==
    \/ Begin(w) \/ TakeLock(w) \/ GoPast(w) \/ ReadTail(w) \/ TailFails(w)
    \/ WriteBody(w) \/ WriteNewline(w) \/ Return(w) \/ StopWriting(w)

ChainNext == \E w \in Writers : Writing(w)

ChainSpec == ChainInit /\ [][ChainNext]_chainVars

-----------------------------------------------------------------------------
(* Properties.                                                             *)

\* `verify`, of line i against the one before it.
Linked(i) ==
    RecordOn(chain[i]).prev_hash =
        IF i = 1 THEN GENESIS ELSE RecordOn(chain[i - 1]).hash

\* The chain holds, but for a last line that does not read.
Chained ==
    \A i \in 1..Len(chain) :
        /\ i < Len(chain) => Reads(chain[i])
        /\ Reads(chain[i]) => Linked(i)

\* What a call said is recorded is there to be read, unless it was written
\* onto the line of a process that stopped before its newline.
OneToALine == \A i \in 1..Len(chain) : Len(chain[i].pieces) = 1
WrittenIsThere ==
    \A h \in written : \E i \in 1..Len(chain) :
        Reads(chain[i]) /\ RecordOn(chain[i]).hash = h

\* The lock's promise, as far as it goes: the chain forks, or a recorded line
\* is spoilt, only when a writer that had waited out the lock was inside
\* together with another.  One that goes past the lock of a process that
\* stopped does no harm alone, and a line cut short by a stop ends the chain
\* and does not break it (ledger.rs, record: "Takes the ledger lock so two
\* writers cannot both chain onto the same predecessor").
ForksOnlyPastTheLock ==
    ~overtaken => Chained /\ (OneToALine => WrittenIsThere)
=============================================================================
