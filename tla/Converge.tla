------------------------------ MODULE Converge ------------------------------
(***************************************************************************)
(* The convergence loop of the factory (crates/factory/src/converge.rs)    *)
(* over one order's ledger: generate, record, materialize, bench, record   *)
(* the verdict, again until green.  Several runner processes may be        *)
(* started on the same order, at once or after a crash; each resumes from  *)
(* the ledger.  Every append is one step here: LedgerFile shows that the   *)
(* file behind it moves as this state does.                                *)
(*                                                                         *)
(* The desk is everyone else who appends to the order meanwhile: the live  *)
(* rungs, the witness console, the declaration watcher, a human closing it.*)
(***************************************************************************)
EXTENDS OrderReplay

CONSTANTS Runners,
          Candidates,     \* what an adapter can write
          Good,           \* the ones whose self-tests all exit 0
          DeskEvents,     \* events the rest of the system may append
          MaxRounds,      \* max_iterations of every run
          MaxCrashes      \* bound on the runners that lie crashed at once

\* What the rest of the system appends: anything but a generation, which only
\* the loop does.
DeskEvent ==
    [kind : {"commission", "park", "close"}]
    \cup [kind : {"verdict"}, iteration : Nat, rung : Rungs, pass : BOOLEAN]
    \cup [kind : {"ask"}, iteration : Nat, request : Requests]
    \cup [kind : {"answer"}, iteration : Nat, request : Requests, answer : Answers]
    \cup [kind : {"propose"}, digest : Digests, reduced : BOOLEAN]
    \cup [kind : {"observe"}, digest : Digests]

ASSUME ConvergeAssumption ==
    /\ Good \subseteq Candidates
    /\ None \notin Candidates /\ "refused" \notin Candidates
    /\ DeskEvents \subseteq DeskEvent
    /\ MaxRounds \in Nat

VARIABLES order,     \* the order, as its ledger replays
          recorded,  \* per iteration, the outcome its generation event cites
          verdicts,  \* <<iteration, pass>> of the Bench verdicts on the ledger
          tree,      \* per directory, the candidate materialized in it
          pc,        \* where each runner is
          turn,      \* the iteration each runner works on
          held,      \* the outcome each runner holds
          green,     \* what the bench told each runner
          outcome    \* how each runner's last run ended

runs == <<order, recorded, verdicts, tree, pc, turn, held, green, outcome>>
ledger == <<order, recorded, verdicts>>
local == <<turn, held, green>>
answers == <<held, green>>

Rounds == 1..MaxRounds

\* env.workspace / iter-<iteration>
DirOf(i) == i

Goto(r, label) == pc' = [pc EXCEPT ![r] = label]

\* A run is over and its locals are gone; turn stays, as the iteration its
\* report names.
End(r, how) == /\ Goto(r, "idle")
               /\ outcome' = [outcome EXCEPT ![r] = how]
               /\ held' = [held EXCEPT ![r] = None]
               /\ green' = [green EXCEPT ![r] = FALSE]

-----------------------------------------------------------------------------
\* A bug to be noticed: every run has max_iterations of its own.
BeginOwnBudget(r) ==
    /\ pc[r] = "idle"
    /\ ~Terminal(order)
    /\ turn' = [turn EXCEPT ![r] = order.iteration + 1]
    /\ Goto(r, "generate")
    /\ outcome' = [outcome EXCEPT ![r] = "running"]
    /\ UNCHANGED <<ledger, tree, held, green>>

\* The replayed state says which iteration was last counted; a terminal
\* order is refused.
BeginRun(r) ==
    /\ pc[r] = "idle"
    /\ ~Terminal(order)
    /\ turn' = [turn EXCEPT ![r] = order.iteration + 1]
    /\ IF order.iteration + 1 <= MaxRounds
       THEN /\ Goto(r, "generate")
            /\ outcome' = [outcome EXCEPT ![r] = "running"]
            /\ UNCHANGED answers
       ELSE End(r, "exhausted")
    /\ UNCHANGED <<ledger, tree>>

\* The adapter answers a valid candidate or a refusal.
Generate(r) ==
    /\ pc[r] = "generate"
    /\ \E c \in Candidates \cup {"refused"} :
           held' = [held EXCEPT ![r] = c]
    /\ Goto(r, "record")
    /\ UNCHANGED <<ledger, tree, turn, green, outcome>>

\* It errs, or what it answers breaks the order's contract.
GenerateFails(r) ==
    /\ pc[r] = "generate"
    /\ \E how \in {"invalid outcome", "error"} : End(r, how)
    /\ UNCHANGED <<ledger, tree, turn>>

GenerationEvent(r) ==
    [kind |-> "generation", iteration |-> turn[r],
     refused |-> held[r] = "refused", surface |-> {}, lock |-> Lock]

RecordGeneration(r) ==
    /\ pc[r] = "record"
    /\ Legal(order, GenerationEvent(r))
    /\ order' = Effect(order, GenerationEvent(r))
    /\ recorded' = [recorded EXCEPT ![turn[r]] = held[r]]
    /\ IF held[r] = "refused"
       THEN End(r, "refused")
       ELSE Goto(r, "materialize") /\ UNCHANGED <<answers, outcome>>
    /\ UNCHANGED <<verdicts, tree, turn>>

\* Bugs to be noticed: a rejected record taken for "recorded already", or
\* answered by asking the adapter again.
RecordAssumed(r) ==
    /\ pc[r] = "record"
    /\ ~Legal(order, GenerationEvent(r))
    /\ Goto(r, "materialize")
    /\ UNCHANGED <<ledger, tree, local, outcome>>
RecordRetried(r) ==
    /\ pc[r] = "record"
    /\ ~Legal(order, GenerationEvent(r))
    /\ Goto(r, "generate")
    /\ UNCHANGED <<ledger, tree, local, outcome>>

\* Another writer has counted this iteration, or ended the order.
RecordRejected(r) ==
    /\ pc[r] = "record"
    /\ ~Legal(order, GenerationEvent(r))
    /\ End(r, "error")
    /\ UNCHANGED <<ledger, tree, turn>>

\* The iteration's directory is removed and written afresh.
Materialize(r) ==
    /\ pc[r] = "materialize"
    /\ tree' = [tree EXCEPT ![DirOf(turn[r])] = held[r]]
    /\ Goto(r, "bench")
    /\ UNCHANGED <<ledger, local, outcome>>

\* An artifact is missing or does not hash to its digest, or the disk fails:
\* the directory is left partly written.
MaterializeFails(r) ==
    /\ pc[r] = "materialize"
    /\ tree' = [tree EXCEPT ![DirOf(turn[r])] = None]
    /\ End(r, "error")
    /\ UNCHANGED <<ledger, turn>>

\* run_bench runs what lies in the candidate directory.
Bench(r) ==
    /\ pc[r] = "bench"
    /\ green' = [green EXCEPT ![r] = tree[DirOf(turn[r])] \in Good]
    /\ Goto(r, "verdict")
    /\ UNCHANGED <<ledger, tree, turn, held, outcome>>

BenchFails(r) ==
    /\ pc[r] = "bench"
    /\ End(r, "error")
    /\ UNCHANGED <<ledger, tree, turn>>

VerdictEvent(r) == [kind |-> "verdict", iteration |-> turn[r],
                    rung |-> "bench", pass |-> green[r]]

\* Green ends the run; red feeds back into the next iteration, if any.
Verdict(r) ==
    /\ pc[r] = "verdict"
    /\ Legal(order, VerdictEvent(r))
    /\ order' = Effect(order, VerdictEvent(r))
    /\ verdicts' = verdicts \cup {<<turn[r], green[r]>>}
    /\ IF green[r]
       THEN End(r, "converged") /\ UNCHANGED turn
       ELSE IF turn[r] = MaxRounds
            THEN End(r, "exhausted") /\ UNCHANGED turn
            ELSE /\ turn' = [turn EXCEPT ![r] = @ + 1]
                 /\ Goto(r, "generate")
                 /\ UNCHANGED <<answers, outcome>>
    /\ UNCHANGED <<recorded, tree>>

\* A bug to be noticed: green reported though the ledger refused it.
VerdictLost(r) ==
    /\ pc[r] = "verdict"
    /\ ~Legal(order, VerdictEvent(r))
    /\ End(r, IF green[r] THEN "converged" ELSE "error")
    /\ UNCHANGED <<ledger, tree, turn>>

VerdictRejected(r) ==
    /\ pc[r] = "verdict"
    /\ ~Legal(order, VerdictEvent(r))
    /\ End(r, "error")
    /\ UNCHANGED <<ledger, tree, turn>>

-----------------------------------------------------------------------------
(* The environment.                                                        *)

Crash(r) ==
    /\ pc[r] # "idle"
    /\ Cardinality({x \in Runners : outcome[x] = "crashed"}) < MaxCrashes
    /\ End(r, "crashed")
    /\ UNCHANGED <<ledger, tree, turn>>

Desk == \E e \in DeskEvents :
            /\ Legal(order, e)
            /\ order' = Effect(order, e)
            /\ UNCHANGED <<recorded, verdicts, tree, pc, local, outcome>>

LoopInit ==
    /\ order = Opened
    /\ recorded = [i \in Rounds |-> None]
    /\ verdicts = {}
    /\ tree = [i \in Rounds |-> None]
    /\ pc = [r \in Runners |-> "idle"]
    /\ turn = [r \in Runners |-> 0]
    /\ held = [r \in Runners |-> None]
    /\ green = [r \in Runners |-> FALSE]
    /\ outcome = [r \in Runners |-> "none"]

Step(r) == \/ Generate(r)
           \/ GenerateFails(r)
           \/ RecordGeneration(r)
           \/ RecordRejected(r)
           \/ Materialize(r)
           \/ MaterializeFails(r)
           \/ Bench(r)
           \/ BenchFails(r)
           \/ Verdict(r)
           \/ VerdictRejected(r)

LoopNext == \/ Desk
            \/ \E r \in Runners : BeginRun(r) \/ Step(r) \/ Crash(r)

LoopSpec == LoopInit /\ [][LoopNext]_runs

\* A running process keeps running: every call in the loop returns (the
\* consult and the jailed bench have wall-clock limits).
LoopFairSpec == LoopSpec /\ \A r \in Runners : WF_runs(Step(r))

-----------------------------------------------------------------------------
(* Properties.                                                             *)

\* A Bench verdict on the ledger is the verdict of the very candidate the
\* same iteration's generation event cites, whichever runners raced or died
\* on the order and whatever they left in the work tree.
VerdictIsOfRecorded ==
    \A v \in verdicts : v[2] = (recorded[v[1]] \in Good)

\* A run that reports Converged has its passing verdict on the ledger.
ConvergedIsOnLedger ==
    \A r \in Runners : outcome[r] = "converged" => <<turn[r], TRUE>> \in verdicts

\* However often runners restart, the order never counts more generations
\* than one run may: a restart continues the count and gets no new budget.
RestartsShareBudget == order.iteration <= MaxRounds

\* What every run comes to, however often it is started.
Ended(r) == pc[r] = "idle"
=============================================================================
