----------------------------- MODULE LedgerFile -----------------------------
(***************************************************************************)
(* The on-disk ledger of one order and the processes that append to it     *)
(* (crates/workshop/src/ledger.rs, `Ledger` and `LedgerLock`).  An append  *)
(* takes the operating system's lock, reads and replays the whole file,    *)
(* validates the new event by replay, writes one line and syncs it.        *)
(*                                                                         *)
(* `writeln!` on an unbuffered File issues one write for the JSON and one  *)
(* for the newline, so the two are separate steps, and a process can fail  *)
(* or die before, between and after them.  The file is the sequence of     *)
(* fragments written: whole events, torn ones and newlines.                *)
(***************************************************************************)
EXTENDS OrderReplay

CONSTANTS Writers,        \* processes that may append
          OrderId,        \* the id the ledger's order has
          Menu,           \* what a caller may ask for: <<order id, request>>
          Outcomes,       \* what generation adapters return
          MaxIterations,  \* bound on counted generations
          MaxEvents,      \* bound on the events on disk
          MaxFaults       \* bound on crashes and I/O errors

\* The calls there are: a generation through its own door, and the events
\* that `append` takes, which refuses a generation before the lock.
Calls ==
    [kind : {"generate"}, iteration : 0..MaxIterations, outcome : Outcomes]
    \cup [kind : {"open", "park", "commission", "close"}]
    \cup [kind : {"verdict"}, iteration : 0..MaxIterations, rung : Rungs, pass : BOOLEAN]
    \cup [kind : {"ask"}, iteration : 0..MaxIterations, request : Requests]
    \cup [kind : {"answer"}, iteration : 0..MaxIterations, request : Requests,
          answer : Answers]
    \cup [kind : {"propose"}, digest : Digests, reduced : BOOLEAN]
    \cup [kind : {"observe"}, digest : Digests]

ASSUME LedgerAssumption ==
    /\ None \notin Writers
    /\ \A m \in Menu : m.call \in Calls
    /\ Outcomes \subseteq Outcome /\ MaxIterations \in Nat

VARIABLES file,    \* the fragments written so far
          lock,    \* who holds the file lock
          pc,      \* where each writer is in its append
          want,    \* the call each writer is making
          minted,  \* the entry each writer has validated and is writing
          acked,   \* entries reported durable to a caller
          faults

vars == <<file, lock, pc, want, minted, acked, faults>>

Newline == [seq |-> 0, fragment |-> "newline"]
Torn == [seq |-> 0, fragment |-> "torn"]

IsWhole(f) == f.seq # 0

-----------------------------------------------------------------------------
(* Reading and replaying.                                                  *)

\* Every line of the file parses as one event: nothing is torn, and no two
\* events share a line.  Blank lines are skipped.
Readable == \A i \in DOMAIN file :
                /\ file[i] # Torn
                /\ i > 1 => file[i] = Newline \/ file[i - 1] = Newline

\* The whole events among the first i fragments, however they are framed.
WholeUpTo(i) == {j \in 1..i : IsWhole(file[j])}
Count == Cardinality(WholeUpTo(Len(file)))

\* A bug to be noticed: a verdict is taken whatever state the order is in.
ReplayAnyVerdict(acc, x) ==
    IF ~acc.ok THEN acc
    ELSE IF acc.n = 0
    THEN [ok |-> x.seq = 1 /\ x.ev.kind = "open" /\ x.order = OrderId,
          n |-> 1, st |-> Opened]
    ELSE IF /\ x.seq = acc.n + 1 /\ x.order = OrderId
            /\ x.ev.kind = "verdict" \/ Legal(acc.st, x.ev)
         THEN [ok |-> TRUE, n |-> acc.n + 1, st |-> Effect(acc.st, x.ev)]
         ELSE [acc EXCEPT !.ok = FALSE]

\* One step of `replay`; the first entry opens the order.
ReplayStep(acc, x) ==
    IF ~acc.ok THEN acc
    ELSE IF acc.n = 0
         THEN [ok |-> /\ x.seq = 1
                      /\ x.ev.kind = "open"
                      /\ OrderOK
                      /\ x.order = OrderId,
               n |-> 1, st |-> Opened]
         ELSE IF /\ x.seq = acc.n + 1
                 /\ x.order = OrderId
                 /\ Legal(acc.st, x.ev)
              THEN [ok |-> TRUE, n |-> acc.n + 1, st |-> Effect(acc.st, x.ev)]
              ELSE [acc EXCEPT !.ok = FALSE]

\* Of the whole events among the fragments.
Replay(fragments) ==
    LET after[n \in 0..Len(fragments)] ==
            IF n = 0 THEN [ok |-> TRUE, n |-> 0, st |-> Opened]
            ELSE IF IsWhole(fragments[n]) THEN ReplayStep(after[n - 1], fragments[n])
            ELSE after[n - 1]
    IN after[Len(fragments)]

-----------------------------------------------------------------------------
(* Building the event.                                                     *)

\* append_generation stores the outcome's surface and lock; append stores
\* the event it was given.
Event(call) ==
    IF call.kind = "generate"
    THEN LET o == call.outcome IN
         [kind |-> "generation", iteration |-> call.iteration,
          refused |-> o.refused,
          surface |-> IF o.refused THEN {} ELSE o.surface,
          lock |-> IF o.refused THEN None ELSE o.lock]
    ELSE call

\* The next entry, one past the entries read.
Entry(w) == [seq |-> Count + 1, order |-> want[w].order, ev |-> Event(want[w].call)]

\* append_generation replays what is there before it judges the outcome.
DoorOpen(w) == want[w].call.kind = "generate" =>
                   /\ Replay(file).ok /\ Count # 0
                   /\ ValidOutcome(want[w].call.outcome)

-----------------------------------------------------------------------------
(* The steps of an append.                                                 *)

\* A call begins.
Start(w) ==
    /\ pc[w] = "idle"
    /\ Count < MaxEvents
    /\ \E m \in Menu : want' = [want EXCEPT ![w] = m]
    /\ pc' = [pc EXCEPT ![w] = "locking"]
    /\ UNCHANGED <<file, lock, minted, acked, faults>>

\* A bug to be noticed: `let _ = LedgerLock::acquire(..)`, dropped at once.
AcquireDropped(w) ==
    /\ pc[w] = "locking"
    /\ lock = None
    /\ pc' = [pc EXCEPT ![w] = "locked"]
    /\ UNCHANGED <<file, lock, want, minted, acked, faults>>

Acquire(w) ==
    /\ pc[w] = "locking"
    /\ lock = None
    /\ lock' = w
    /\ pc' = [pc EXCEPT ![w] = "locked"]
    /\ UNCHANGED <<file, want, minted, acked, faults>>

\* The call is over, and its locals with it.
Return(w) == /\ pc' = [pc EXCEPT ![w] = "idle"]
             /\ want' = [want EXCEPT ![w] = None]
             /\ minted' = [minted EXCEPT ![w] = None]

\* Returning, like dying, closes the lock file and frees the lock.
Unlock(w) == lock' = IF lock = w THEN None ELSE lock

\* A bug to be noticed: the lock loop polls without a limit.
LockForever(w) == FALSE

\* Four thousand attempts found a live holder.
LockTimeout(w) ==
    /\ pc[w] = "locking"
    /\ lock # None
    /\ Return(w)
    /\ UNCHANGED <<file, lock, acked, faults>>

Validate(w) ==
    /\ pc[w] = "locked"
    /\ Readable /\ DoorOpen(w) /\ Replay(Append(file, Entry(w))).ok
    /\ minted' = [minted EXCEPT ![w] = Entry(w)]
    /\ pc' = [pc EXCEPT ![w] = "body"]
    /\ UNCHANGED <<file, lock, want, acked, faults>>

Refuse(w) ==
    /\ pc[w] = "locked"
    /\ ~(Readable /\ DoorOpen(w) /\ Replay(Append(file, Entry(w))).ok)
    /\ Return(w)
    /\ Unlock(w)
    /\ UNCHANGED <<file, acked, faults>>

\* A bug to be noticed: the file opened to truncate, not to append.
WriteBodyTruncating(w) ==
    /\ pc[w] = "body"
    /\ file' = <<minted[w]>>
    /\ pc' = [pc EXCEPT ![w] = "newline"]
    /\ UNCHANGED <<lock, want, minted, acked, faults>>

WriteBody(w) ==
    /\ pc[w] = "body"
    /\ file' = Append(file, minted[w])
    /\ pc' = [pc EXCEPT ![w] = "newline"]
    /\ UNCHANGED <<lock, want, minted, acked, faults>>

WriteNewline(w) ==
    /\ pc[w] = "newline"
    /\ file' = Append(file, Newline)
    /\ pc' = [pc EXCEPT ![w] = "sync"]
    /\ UNCHANGED <<lock, want, minted, acked, faults>>

SyncAndAck(w) ==
    /\ pc[w] = "sync"
    /\ acked' = acked \cup {minted[w]}
    /\ Return(w)
    /\ Unlock(w)
    /\ UNCHANGED <<file, faults>>

-----------------------------------------------------------------------------
(* Failures.  The process dies, or a write or the sync returns an error:   *)
(* either way the lock is freed and no caller is told the event is durable.*)

Fault(w) == /\ faults < MaxFaults
            /\ faults' = faults + 1
            /\ Return(w)
            /\ Unlock(w)
            /\ UNCHANGED acked

\* Anywhere in the call, with nothing half-written.
Stop(w) == /\ pc[w] # "idle"
           /\ Fault(w)
           /\ UNCHANGED file

\* In the middle of the JSON.
StopMidBody(w) == /\ pc[w] = "body"
                  /\ Fault(w)
                  /\ file' = Append(file, Torn)

-----------------------------------------------------------------------------
Init == /\ file = <<>>
        /\ lock = None
        /\ pc = [w \in Writers |-> "idle"]
        /\ want = [w \in Writers |-> None]
        /\ minted = [w \in Writers |-> None]
        /\ acked = {}
        /\ faults = 0

Step(w) == \/ Acquire(w)
           \/ LockTimeout(w)
           \/ Validate(w)
           \/ Refuse(w)
           \/ WriteBody(w)
           \/ WriteNewline(w)
           \/ SyncAndAck(w)

Next == \E w \in Writers : \/ Start(w)
                           \/ Step(w)
                           \/ Stop(w)
                           \/ StopMidBody(w)

Spec == Init /\ [][Next]_vars

\* A call that has begun keeps running: its thread is scheduled, the lock
\* loop polls and gives up after its last attempt.  Nothing obliges a caller
\* to begin, and nothing obliges a fault.
FairSpec == Spec /\ \A w \in Writers : WF_vars(Step(w))

-----------------------------------------------------------------------------
(* Properties.                                                             *)

\* "An illegal transition can never reach disk and two writers can never mint
\* the same sequence": the events in the file always replay, through
\* concurrent appends, errors and crashes.
DiskReplays == Replay(file).ok

\* An event a caller was told is durable is in the file for good, at the
\* sequence number it was given.
AckedIsKept ==
    \A a \in acked : \E i \in DOMAIN file :
        file[i] = a /\ a.seq = Cardinality(WholeUpTo(i))

\* An append that reports success leaves one event per line: "every append
\* ... writes one flushed line", so whoever opens the ledger next can read it.
AckLeavesReadable == [][acked' # acked => Readable']_vars

\* Every append call returns.
AppendReturns == \A w \in Writers : pc[w] # "idle" ~> pc[w] = "idle"

-----------------------------------------------------------------------------
(* The file implements the order's lifecycle: what replay makes of it.     *)

OfKind(k) == {i \in DOMAIN file : IsWhole(file[i]) /\ file[i].ev.kind = k}
IterationAt(i) == Cardinality({j \in OfKind("generation") : j <= i})

Asked == {<<IterationAt(i), file[i].ev.request>> : i \in OfKind("ask")}
SaidYes == {<<IterationAt(i), file[i].ev.request>> :
               i \in {j \in OfKind("answer") : file[j].ev.answer = "yes"}}
Offered == {<<IterationAt(i), file[i].ev.digest>> : i \in OfKind("propose")}
LastOf(is) == CHOOSE i \in is : \A j \in is : j <= i
LastSeen ==
    IF OfKind("observe") = {} THEN [iteration |-> 0, digest |-> None]
    ELSE [iteration |-> IterationAt(LastOf(OfKind("observe"))),
          digest |-> file[LastOf(OfKind("observe"))].ev.digest]

Lifecycle == INSTANCE OrderLifecycle
                 WITH st <- Replay(file).st, asked <- Asked, yes <- SaidYes,
                      offered <- Offered, seen <- LastSeen

\* Whatever the writers and the faults do, the state anyone replays from the
\* file moves only as the lifecycle moves.
ImplementsLifecycle == Lifecycle!Spec
=============================================================================
