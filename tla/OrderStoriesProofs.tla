------------------------- MODULE OrderStoriesProofs -------------------------
(***************************************************************************)
(* Proofs about what shares a module of runs with the order: the           *)
(* convergence loop, the chain of refusals, the roadmap and the budget of  *)
(* a campaign, for any runners, writers, hosts, cells and bounds.          *)
(*                                                                         *)
(* The loop.  Who records an iteration has it to himself: the ledger       *)
(* counts each number once, so no other runner is past its record with the *)
(* same number, and none may touch its directory.  What lies there when    *)
(* the bench runs is then the candidate the record cites, and the verdict  *)
(* is that candidate's.                                                    *)
(***************************************************************************)
EXTENDS MCOrderLifecycle, FiniteSetTheorems, NaturalsInduction, WellFoundedInduction, TLAPS

Endings == {"none", "running", "exhausted", "refused", "converged",
             "invalid outcome", "error", "crashed"}
Places == {"idle", "generate", "record", "materialize", "bench", "verdict"}

LoopTypeOK ==
    /\ order \in OrderState
    /\ recorded \in [Rounds -> Candidates \cup {"refused", None}]
    /\ verdicts \subseteq Rounds \X BOOLEAN
    /\ tree \in [Rounds -> Candidates \cup {"refused", None}]
    /\ pc \in [Runners -> Places]
    /\ turn \in [Runners -> Nat]
    /\ held \in [Runners -> Candidates \cup {"refused", None}]
    /\ green \in [Runners -> BOOLEAN]
    /\ outcome \in [Runners -> Endings]

\* A runner whose generation is on the ledger and whose verdict is not.
Recorded(r) == pc[r] \in {"materialize", "bench", "verdict"}

\* A run that has not ended works on an iteration of the budget.
RunsInBudget ==
    \A r \in Runners : pc[r] # "idle" => turn[r] \in Rounds /\ outcome[r] = "running"

\* What it recorded is what it holds, and on the ledger.
RecordedIsHeld ==
    \A r \in Runners :
        Recorded(r) => turn[r] <= order.iteration /\ recorded[turn[r]] = held[r]

\* No two runners are past the record of one iteration.
OneRecords ==
    \A r, s \in Runners : Recorded(r) /\ Recorded(s) /\ turn[r] = turn[s] => r = s

\* What was materialized lies there, and what was benched was that.
BenchedIsHeld ==
    \A r \in Runners :
        /\ pc[r] = "bench" => tree[turn[r]] = held[r]
        /\ pc[r] = "verdict" => green[r] = (held[r] \in Good)

\* No verdict is of an iteration the ledger has not counted.
VerdictsAreOfCounted == \A v \in verdicts : v[1] <= order.iteration

ConvergeInv ==
    /\ LoopTypeOK
    /\ RunsInBudget
    /\ RecordedIsHeld
    /\ OneRecords
    /\ BenchedIsHeld
    /\ VerdictsAreOfCounted
    /\ VerdictIsOfRecorded
    /\ ConvergedIsOnLedger
    /\ RestartsShareBudget

-----------------------------------------------------------------------------
(* What an event does to the count.                                        *)

\* A generation that is admitted is the next one, and is counted.
LEMMA GenerationCounts ==
    ASSUME NEW s \in OrderState, NEW i \in Nat, NEW refused \in BOOLEAN,
           NEW e, e = [kind |-> "generation", iteration |-> i, refused |-> refused,
                       surface |-> {}, lock |-> Lock],
           Legal(s, e)
    PROVE  i = s.iteration + 1 /\ Effect(s, e) \in OrderState /\ Effect(s, e).iteration = i
<1>1. e.kind = "generation" /\ e.iteration = i /\ e.refused = refused OBVIOUS
<1>2. GenerationLegal(s, e) BY <1>1 DEF Legal
<1>3. Effect(s, e) = GenerationEffect(s, e) BY <1>1, Zenon DEF Effect
<1>4. i = s.iteration + 1 BY <1>1, <1>2 DEF GenerationLegal
<1>5. GenerationEffect(s, e) =
          [s EXCEPT !.iteration = i, !.refused = refused, !.passed = {},
                    !.broken = FALSE, !.outstanding = None, !.witnessed = FALSE,
                    !.parked = FALSE, !.proposed = None, !.declared = FALSE]
  BY <1>1, Zenon DEF GenerationEffect
<1>6. GenerationEffect(s, e) \in OrderState /\ GenerationEffect(s, e).iteration = i
  BY <1>5 DEF OrderState
<1> QED BY <1>3, <1>4, <1>6

LEMMA VerdictCounts ==
    ASSUME NEW s \in OrderState, NEW e, e.kind = "verdict",
           e.rung \in Rungs
    PROVE  Effect(s, e) \in OrderState /\ Effect(s, e).iteration = s.iteration
<1>1. Effect(s, e) = VerdictEffect(s, e) BY Zenon DEF Effect
<1>2. VerdictEffect(s, e) \in OrderState /\ VerdictEffect(s, e).iteration = s.iteration
  BY DEF VerdictEffect, OrderState
<1> QED BY <1>1, <1>2

\* Nothing else is counted.
LEMMA DeskCountsNothing ==
    ASSUME NEW s \in OrderState, NEW e \in DeskEvent
    PROVE  Effect(s, e) \in OrderState /\ Effect(s, e).iteration = s.iteration
<1>1. CASE e.kind = "verdict"
  <2>1. e.rung \in Rungs BY <1>1 DEF DeskEvent
  <2> QED BY <1>1, <2>1, VerdictCounts
<1>2. CASE e.kind = "ask"
  <2>1. Effect(s, e) = AskEffect(s, e) BY <1>2, Zenon DEF Effect
  <2>2. e.request \in Requests BY <1>2 DEF DeskEvent
  <2> QED BY <2>1, <2>2 DEF AskEffect, OrderState
<1>3. CASE e.kind = "answer"
  <2>1. Effect(s, e) = AnswerEffect(s, e) BY <1>3, Zenon DEF Effect
  <2>2. PICK w \in BOOLEAN, b \in BOOLEAN :
            Effect(s, e) = [s EXCEPT !.outstanding = None, !.witnessed = w, !.broken = b]
    BY <2>1, Zenon DEF AnswerEffect
  <2> QED BY <2>2 DEF OrderState
<1>4. CASE e.kind = "propose"
  <2>1. Effect(s, e) = ProposeEffect(s, e) BY <1>4, Zenon DEF Effect
  <2>2. e.digest \in Digests BY <1>4 DEF DeskEvent
  <2> QED BY <2>1, <2>2 DEF ProposeEffect, OrderState
<1>5. CASE e.kind = "observe"
  <2>1. Effect(s, e) = ObserveEffect(s, e) BY <1>5, Zenon DEF Effect
  <2> QED BY <2>1 DEF ObserveEffect, OrderState
<1>6. CASE e.kind = "commission"
  <2>1. Effect(s, e) = CommissionEffect(s) BY <1>6, Zenon DEF Effect
  <2> QED BY <2>1 DEF CommissionEffect, OrderState
<1>7. CASE e.kind = "park"
  <2>1. Effect(s, e) = ParkEffect(s) BY <1>7, Zenon DEF Effect
  <2> QED BY <2>1 DEF ParkEffect, OrderState
<1>8. CASE e.kind = "close"
  <2>1. Effect(s, e) = CloseEffect(s) BY <1>8, Zenon DEF Effect
  <2> QED BY <2>1 DEF CloseEffect, OrderState
<1>9. e.kind \in {"verdict", "ask", "answer", "propose", "observe", "commission",
                  "park", "close"}
  BY DEF DeskEvent
<1> QED BY <1>1, <1>2, <1>3, <1>4, <1>5, <1>6, <1>7, <1>8, <1>9

-----------------------------------------------------------------------------
(* The steps.                                                              *)

LEMMA InitInv == LoopInit => ConvergeInv
<1> SUFFICES ASSUME LoopInit PROVE ConvergeInv
  OBVIOUS
<1> USE DEF LoopInit
<1>1. Opened \in OrderState /\ Opened.iteration = 0
  BY NoneAssumption DEF Opened, OrderState
<1>2. LoopTypeOK BY <1>1 DEF LoopTypeOK, Endings, Places
<1>3. \A r \in Runners : pc[r] = "idle" /\ outcome[r] = "none" OBVIOUS
<1>4. RunsInBudget /\ RecordedIsHeld /\ OneRecords /\ BenchedIsHeld
  BY <1>3 DEF RunsInBudget, RecordedIsHeld, OneRecords, BenchedIsHeld, Recorded
<1>5. VerdictsAreOfCounted /\ VerdictIsOfRecorded
  BY DEF VerdictsAreOfCounted, VerdictIsOfRecorded
<1>6. ConvergedIsOnLedger BY <1>3 DEF ConvergedIsOnLedger
<1>7. RestartsShareBudget BY <1>1, ConvergeAssumption DEF RestartsShareBudget
<1> QED BY <1>2, <1>4, <1>5, <1>6, <1>7 DEF ConvergeInv

LEMMA DeskKeepsInv ==
    ASSUME ConvergeInv, Desk
    PROVE  ConvergeInv'
<1>1. PICK e \in DeskEvents : order' = Effect(order, e) BY DEF Desk
<1>2. /\ UNCHANGED <<recorded, verdicts, tree, pc, turn, held, green, outcome>>
  BY DEF Desk, local
<1>3. order' \in OrderState /\ order'.iteration = order.iteration
  BY <1>1, ConvergeAssumption, DeskCountsNothing DEF ConvergeInv, LoopTypeOK
<1>4. LoopTypeOK' BY <1>2, <1>3 DEF ConvergeInv, LoopTypeOK
<1>5. /\ RunsInBudget' /\ RecordedIsHeld' /\ OneRecords' /\ BenchedIsHeld'
      /\ VerdictsAreOfCounted' /\ VerdictIsOfRecorded' /\ ConvergedIsOnLedger'
      /\ RestartsShareBudget'
  BY <1>2, <1>3 DEF ConvergeInv, RunsInBudget, RecordedIsHeld, OneRecords, BenchedIsHeld,
     VerdictsAreOfCounted, VerdictIsOfRecorded, ConvergedIsOnLedger, RestartsShareBudget,
     Recorded
<1> QED BY <1>4, <1>5 DEF ConvergeInv

\* A run that ends, whatever becomes of the directory that was its own; only
\* with a verdict on the ledger may it say it converged.
LEMMA EndKeepsInv ==
    ASSUME ConvergeInv, NEW r \in Runners, NEW how \in Endings \ {"converged"},
           End(r, how), UNCHANGED <<order, recorded, verdicts>>,
           \/ UNCHANGED <<tree, turn>>
           \/ UNCHANGED turn /\ Recorded(r) /\ tree' = [tree EXCEPT ![turn[r]] = None]
           \/ UNCHANGED tree /\ pc[r] = "idle"
                /\ \E i \in Nat : turn' = [turn EXCEPT ![r] = i]
    PROVE  ConvergeInv'
<1> USE DEF ConvergeInv, LoopTypeOK, End, Goto
<1>1. LoopTypeOK'
  <2>1. tree' \in [Rounds -> Candidates \cup {"refused", None}] OBVIOUS
  <2>2. turn' \in [Runners -> Nat] OBVIOUS
  <2> QED BY <2>1, <2>2 DEF Endings, Places
<1>2. /\ pc'[r] = "idle" /\ outcome'[r] = how
      /\ \A s \in Runners \ {r} : /\ pc'[s] = pc[s] /\ turn'[s] = turn[s]
                                  /\ held'[s] = held[s] /\ green'[s] = green[s]
                                  /\ outcome'[s] = outcome[s]
  OBVIOUS
<1>3. RunsInBudget' BY <1>2 DEF RunsInBudget
<1>4. RecordedIsHeld' BY <1>2 DEF RecordedIsHeld, Recorded
<1>5. OneRecords' BY <1>2 DEF OneRecords, Recorded
<1>6. BenchedIsHeld'
  <2>1. ASSUME NEW s \in Runners, pc'[s] = "bench" PROVE tree'[turn'[s]] = held'[s]
    <3>1. s # r /\ Recorded(s) /\ turn[s] \in Rounds BY <1>2, <2>1 DEF Recorded, RunsInBudget
    <3>2. tree'[turn[s]] = tree[turn[s]] BY <3>1 DEF OneRecords
    <3> QED BY <1>2, <2>1, <3>1, <3>2 DEF BenchedIsHeld
  <2>2. ASSUME NEW s \in Runners, pc'[s] = "verdict"
        PROVE  green'[s] = (held'[s] \in Good)
    <3>1. s # r /\ pc[s] = "verdict" /\ green'[s] = green[s] /\ held'[s] = held[s]
      BY <1>2, <2>2
    <3>2. green[s] = (held[s] \in Good) BY <3>1 DEF BenchedIsHeld
    <3> QED BY <3>1, <3>2, Zenon
  <2> QED BY <2>1, <2>2, Zenon DEF BenchedIsHeld
<1>7. VerdictsAreOfCounted' /\ VerdictIsOfRecorded' /\ RestartsShareBudget'
  BY DEF VerdictsAreOfCounted, VerdictIsOfRecorded, RestartsShareBudget
<1>8. ConvergedIsOnLedger' BY <1>2 DEF ConvergedIsOnLedger
<1> QED BY <1>1, <1>3, <1>4, <1>5, <1>6, <1>7, <1>8

LEMMA BeginKeepsInv ==
    ASSUME ConvergeInv, NEW r \in Runners, BeginRun(r)
    PROVE  ConvergeInv'
<1> USE DEF ConvergeInv, LoopTypeOK
<1>1. /\ pc[r] = "idle" /\ turn' = [turn EXCEPT ![r] = order.iteration + 1]
      /\ UNCHANGED <<order, recorded, verdicts, tree>>
  BY DEF BeginRun, ledger
<1>2. order.iteration + 1 \in Nat BY DEF OrderState
<1>3. CASE order.iteration + 1 <= MaxRounds
  <2>1. /\ pc' = [pc EXCEPT ![r] = "generate"]
        /\ outcome' = [outcome EXCEPT ![r] = "running"] /\ UNCHANGED <<held, green>>
    BY <1>3 DEF BeginRun, Goto, answers
  <2>2. LoopTypeOK' BY <1>1, <1>2, <2>1 DEF Endings, Places
  <2>3. order.iteration + 1 \in Rounds
    <3>1. order.iteration \in Nat BY DEF OrderState
    <3> QED BY <1>3, <3>1, ConvergeAssumption DEF Rounds
  <2>4. /\ pc'[r] = "generate" /\ turn'[r] \in Rounds /\ outcome'[r] = "running"
        /\ \A s \in Runners \ {r} : /\ pc'[s] = pc[s] /\ turn'[s] = turn[s]
                                    /\ outcome'[s] = outcome[s]
    BY <1>1, <2>1, <2>3
  <2>5. RunsInBudget' /\ ConvergedIsOnLedger'
    BY <1>1, <2>1, <2>4 DEF RunsInBudget, ConvergedIsOnLedger
  <2>6. RecordedIsHeld' /\ OneRecords' /\ BenchedIsHeld'
    BY <1>1, <2>1, <2>4 DEF RecordedIsHeld, OneRecords, BenchedIsHeld, Recorded
  <2>7. VerdictsAreOfCounted' /\ VerdictIsOfRecorded' /\ RestartsShareBudget'
    BY <1>1 DEF VerdictsAreOfCounted, VerdictIsOfRecorded, RestartsShareBudget
  <2> QED BY <2>2, <2>5, <2>6, <2>7
<1>4. CASE ~(order.iteration + 1 <= MaxRounds)
  <2>1. End(r, "exhausted") BY <1>4 DEF BeginRun
  <2> QED BY <1>1, <1>2, <2>1, EndKeepsInv DEF Endings
<1> QED BY <1>3, <1>4

\* A step between the record and the end that leaves the ledger alone.
LEMMA GenerateKeepsInv ==
    ASSUME ConvergeInv, NEW r \in Runners, Generate(r)
    PROVE  ConvergeInv'
<1> USE DEF ConvergeInv, LoopTypeOK
<1>1. PICK c \in Candidates \cup {"refused"} : held' = [held EXCEPT ![r] = c]
  BY DEF Generate
<1>2. /\ pc[r] = "generate" /\ pc' = [pc EXCEPT ![r] = "record"]
      /\ UNCHANGED <<order, recorded, verdicts, tree, turn, green, outcome>>
  BY DEF Generate, Goto, ledger
<1>3. LoopTypeOK' BY <1>1, <1>2 DEF Places
<1>4. /\ pc'[r] = "record"
      /\ \A s \in Runners \ {r} : pc'[s] = pc[s] /\ held'[s] = held[s]
  BY <1>1, <1>2
<1>5. RunsInBudget' /\ ConvergedIsOnLedger'
  BY <1>2, <1>4 DEF RunsInBudget, ConvergedIsOnLedger
<1>6. RecordedIsHeld' /\ OneRecords' /\ BenchedIsHeld'
  BY <1>2, <1>4 DEF RecordedIsHeld, OneRecords, BenchedIsHeld, Recorded
<1>7. VerdictsAreOfCounted' /\ VerdictIsOfRecorded' /\ RestartsShareBudget'
  BY <1>2 DEF VerdictsAreOfCounted, VerdictIsOfRecorded, RestartsShareBudget
<1> QED BY <1>3, <1>5, <1>6, <1>7

\* The iteration is the runner's from here: no other has recorded it, or could.
LEMMA RecordKeepsInv ==
    ASSUME ConvergeInv, NEW r \in Runners, RecordGeneration(r)
    PROVE  ConvergeInv'
<1> USE DEF ConvergeInv, LoopTypeOK
<1> DEFINE i == turn[r]
<1>1. /\ pc[r] = "record" /\ order' = Effect(order, GenerationEvent(r))
      /\ recorded' = [recorded EXCEPT ![i] = held[r]]
      /\ UNCHANGED <<verdicts, tree, turn>>
  BY DEF RecordGeneration
<1>2. i \in Rounds /\ i \in Nat /\ outcome[r] = "running" BY <1>1 DEF RunsInBudget
<1>3. i = order.iteration + 1 /\ order' \in OrderState /\ order'.iteration = i
  <2>1. Legal(order, GenerationEvent(r)) BY DEF RecordGeneration
  <2>2. (held[r] = "refused") \in BOOLEAN OBVIOUS
  <2>3. order \in OrderState OBVIOUS
  <2>4. GenerationEvent(r) = [kind |-> "generation", iteration |-> i,
                              refused |-> held[r] = "refused",
                              surface |-> {}, lock |-> Lock]
    BY DEF GenerationEvent
  <2> QED BY <1>1, <1>2, <2>1, <2>2, <2>3, <2>4, GenerationCounts, Zenon
<1>4. order.iteration \in Nat BY DEF OrderState
<1>5. /\ recorded' \in [Rounds -> Candidates \cup {"refused", None}]
      /\ recorded'[i] = held[r]
      /\ \A j \in Rounds : j <= order.iteration => recorded'[j] = recorded[j]
  BY <1>1, <1>2, <1>3, <1>4
<1>6. \A s \in Runners : Recorded(s) => turn[s] # i /\ turn[s] \in Rounds
  BY <1>3, <1>4 DEF RecordedIsHeld, Recorded, RunsInBudget
<1>7. VerdictsAreOfCounted' /\ VerdictIsOfRecorded'
  <2>1. \A v \in verdicts : /\ v[1] \in Rounds /\ v[1] \in Nat
                            /\ v[1] <= order.iteration
    BY DEF VerdictsAreOfCounted, Rounds
  <2>2. ASSUME NEW v \in verdicts PROVE v[2] = (recorded'[v[1]] \in Good)
    <3>1. recorded'[v[1]] = recorded[v[1]] BY <1>5, <2>1
    <3>2. v[2] = (recorded[v[1]] \in Good) BY DEF VerdictIsOfRecorded
    <3> QED BY <3>1, <3>2, Zenon
  <2>3. VerdictIsOfRecorded' BY <1>1, <2>2, Zenon DEF VerdictIsOfRecorded
  <2>4. VerdictsAreOfCounted' BY <1>1, <1>3, <1>4, <2>1 DEF VerdictsAreOfCounted
  <2> QED BY <2>3, <2>4
<1>8. RestartsShareBudget'
  BY <1>2, <1>3, ConvergeAssumption DEF RestartsShareBudget, Rounds
<1>9. CASE held[r] = "refused"
  <2>1. End(r, "refused") BY <1>9 DEF RecordGeneration
  <2>2. LoopTypeOK' BY <1>1, <1>3, <1>5, <2>1 DEF End, Goto, Places, Endings
  <2>3. /\ pc'[r] = "idle" /\ outcome'[r] = "refused"
        /\ \A s \in Runners \ {r} : /\ pc'[s] = pc[s] /\ held'[s] = held[s]
                                    /\ green'[s] = green[s] /\ outcome'[s] = outcome[s]
    BY <2>1 DEF End, Goto
  <2>4. RunsInBudget' /\ ConvergedIsOnLedger'
    BY <1>1, <2>3 DEF RunsInBudget, ConvergedIsOnLedger
  <2>5. RecordedIsHeld'
    BY <1>1, <1>3, <1>4, <1>5, <1>6, <2>3 DEF RecordedIsHeld, Recorded
  <2>6. OneRecords' BY <1>1, <2>3 DEF OneRecords, Recorded
  <2>7. BenchedIsHeld'
    BY <1>1, <2>3 DEF BenchedIsHeld
  <2> QED BY <1>7, <1>8, <2>2, <2>4, <2>5, <2>6, <2>7
<1>10. CASE held[r] # "refused"
  <2>1. pc' = [pc EXCEPT ![r] = "materialize"] /\ UNCHANGED <<held, green, outcome>>
    BY <1>10 DEF RecordGeneration, Goto, answers
  <2>2. LoopTypeOK' BY <1>1, <1>3, <1>5, <2>1 DEF Places
  <2>3. pc'[r] = "materialize" /\ \A s \in Runners \ {r} : pc'[s] = pc[s]
    BY <2>1
  <2>4. RunsInBudget' /\ ConvergedIsOnLedger'
    BY <1>1, <1>2, <2>1, <2>3 DEF RunsInBudget, ConvergedIsOnLedger
  <2>5. RecordedIsHeld'
    BY <1>1, <1>3, <1>4, <1>5, <1>6, <2>1, <2>3 DEF RecordedIsHeld, Recorded
  <2>6. OneRecords' BY <1>1, <1>6, <2>3 DEF OneRecords, Recorded
  <2>7. BenchedIsHeld' BY <1>1, <2>1, <2>3 DEF BenchedIsHeld
  <2> QED BY <1>7, <1>8, <2>2, <2>4, <2>5, <2>6, <2>7
<1> QED BY <1>9, <1>10

LEMMA MaterializeKeepsInv ==
    ASSUME ConvergeInv, NEW r \in Runners, Materialize(r)
    PROVE  ConvergeInv'
<1> USE DEF ConvergeInv, LoopTypeOK
<1>1. /\ pc[r] = "materialize" /\ pc' = [pc EXCEPT ![r] = "bench"]
      /\ tree' = [tree EXCEPT ![turn[r]] = held[r]]
      /\ UNCHANGED <<order, recorded, verdicts, turn, held, green, outcome>>
  BY DEF Materialize, Goto, DirOf, ledger, local
<1>2. turn[r] \in Rounds BY <1>1 DEF RunsInBudget
<1>3. LoopTypeOK' BY <1>1 DEF Places
<1>4. pc'[r] = "bench" /\ \A s \in Runners \ {r} : pc'[s] = pc[s] BY <1>1
<1>5. RunsInBudget' /\ RecordedIsHeld' /\ OneRecords' /\ ConvergedIsOnLedger'
  <2>1. RunsInBudget' BY <1>1, <1>4 DEF RunsInBudget
  <2>2. ConvergedIsOnLedger' BY <1>1, <1>4 DEF ConvergedIsOnLedger
  <2>3. \A s \in Runners : Recorded(s)' = Recorded(s)
    BY <1>1, <1>4 DEF Recorded
  <2>4. RecordedIsHeld' BY <1>1, <2>3 DEF RecordedIsHeld
  <2>5. OneRecords' BY <1>1, <2>3 DEF OneRecords
  <2> QED BY <2>1, <2>2, <2>4, <2>5
<1>6. BenchedIsHeld'
  <2>1. ASSUME NEW s \in Runners, pc'[s] = "bench" PROVE tree'[turn[s]] = held[s]
    <3>1. CASE s = r BY <1>1, <1>2, <3>1
    <3>2. CASE s # r
      <4>1. pc[s] = "bench" /\ turn[s] \in Rounds /\ turn[s] # turn[r]
        BY <1>1, <1>4, <2>1, <3>2 DEF RunsInBudget, OneRecords, Recorded
      <4> QED BY <1>1, <4>1 DEF BenchedIsHeld
    <3> QED BY <3>1, <3>2
  <2>2. ASSUME NEW s \in Runners, pc'[s] = "verdict" PROVE green[s] = (held[s] \in Good)
    BY <1>4, <2>2 DEF BenchedIsHeld
  <2> QED BY <1>1, <2>1, <2>2, Zenon DEF BenchedIsHeld
<1>7. VerdictsAreOfCounted' /\ VerdictIsOfRecorded' /\ RestartsShareBudget'
  BY <1>1 DEF VerdictsAreOfCounted, VerdictIsOfRecorded, RestartsShareBudget
<1> QED BY <1>3, <1>5, <1>6, <1>7

LEMMA BenchKeepsInv ==
    ASSUME ConvergeInv, NEW r \in Runners, Bench(r)
    PROVE  ConvergeInv'
<1> USE DEF ConvergeInv, LoopTypeOK
<1>1. /\ pc[r] = "bench" /\ pc' = [pc EXCEPT ![r] = "verdict"]
      /\ green' = [green EXCEPT ![r] = tree[turn[r]] \in Good]
      /\ UNCHANGED <<order, recorded, verdicts, tree, turn, held, outcome>>
  BY DEF Bench, Goto, DirOf, ledger
<1>2. green' \in [Runners -> BOOLEAN] BY <1>1
<1>3. LoopTypeOK' BY <1>1, <1>2 DEF Places
<1>4. pc'[r] = "verdict" /\ \A s \in Runners \ {r} : pc'[s] = pc[s] BY <1>1
<1>5. RunsInBudget' /\ RecordedIsHeld' /\ OneRecords' /\ ConvergedIsOnLedger'
  <2>1. RunsInBudget' BY <1>1, <1>4 DEF RunsInBudget
  <2>2. ConvergedIsOnLedger' BY <1>1, <1>4 DEF ConvergedIsOnLedger
  <2>3. \A s \in Runners : Recorded(s)' = Recorded(s)
    BY <1>1, <1>4 DEF Recorded
  <2>4. RecordedIsHeld' BY <1>1, <2>3 DEF RecordedIsHeld
  <2>5. OneRecords' BY <1>1, <2>3 DEF OneRecords
  <2> QED BY <2>1, <2>2, <2>4, <2>5
<1>6. BenchedIsHeld'
  <2>1. ASSUME NEW s \in Runners, pc'[s] = "bench" PROVE tree[turn[s]] = held[s]
    BY <1>4, <2>1 DEF BenchedIsHeld
  <2>2. ASSUME NEW s \in Runners, pc'[s] = "verdict" PROVE green'[s] = (held[s] \in Good)
    <3>1. CASE s = r
      <4>1. tree[turn[r]] = held[r] BY <1>1 DEF BenchedIsHeld
      <4>2. green'[r] = (tree[turn[r]] \in Good) BY <1>1
      <4> QED BY <3>1, <4>1, <4>2, Zenon
    <3>2. CASE s # r
      <4>1. pc[s] = "verdict" /\ green'[s] = green[s] BY <1>1, <1>4, <2>2, <3>2
      <4> QED BY <4>1 DEF BenchedIsHeld
    <3> QED BY <3>1, <3>2
  <2> QED BY <1>1, <2>1, <2>2, Zenon DEF BenchedIsHeld
<1>7. VerdictsAreOfCounted' /\ VerdictIsOfRecorded' /\ RestartsShareBudget'
  BY <1>1 DEF VerdictsAreOfCounted, VerdictIsOfRecorded, RestartsShareBudget
<1> QED BY <1>3, <1>5, <1>6, <1>7

\* The verdict is of the candidate its iteration's record cites.
LEMMA VerdictKeepsInv ==
    ASSUME ConvergeInv, NEW r \in Runners, Verdict(r)
    PROVE  ConvergeInv'
<1> USE DEF ConvergeInv, LoopTypeOK
<1> DEFINE i == turn[r]
           v == <<i, green[r]>>
<1>1. /\ pc[r] = "verdict" /\ order' = Effect(order, VerdictEvent(r))
      /\ verdicts' = verdicts \cup {v}
      /\ UNCHANGED <<recorded, tree>>
  BY DEF Verdict
<1>2. /\ i \in Rounds /\ i \in Nat /\ outcome[r] = "running" /\ i <= order.iteration
      /\ recorded[i] = held[r]
  BY <1>1 DEF RunsInBudget, RecordedIsHeld, Recorded
<1>3. order' \in OrderState /\ order'.iteration = order.iteration
  <2>1. VerdictEvent(r).kind = "verdict" /\ VerdictEvent(r).rung \in Rungs
    BY DEF VerdictEvent, Rungs
  <2> QED BY <1>1, <2>1, VerdictCounts
<1>4. verdicts' \subseteq Rounds \X BOOLEAN BY <1>1, <1>2
<1>5. v[1] = i /\ v[2] = green[r] OBVIOUS
<1>6. VerdictIsOfRecorded'
  <2>1. green[r] = (held[r] \in Good) BY <1>1 DEF BenchedIsHeld
  <2>2. v[2] = (recorded[v[1]] \in Good) BY <1>2, <1>5, <2>1, Zenon
  <2> QED BY <1>1, <2>2 DEF VerdictIsOfRecorded
<1>7. VerdictsAreOfCounted' /\ RestartsShareBudget'
  BY <1>1, <1>2, <1>3, <1>5 DEF VerdictsAreOfCounted, RestartsShareBudget
<1> HIDE DEF v
<1>8. CASE green[r] = TRUE
  <2>1. End(r, "converged") /\ UNCHANGED turn BY <1>8 DEF Verdict
  <2>2. LoopTypeOK' BY <1>1, <1>3, <1>4, <2>1 DEF End, Goto, Places, Endings
  <2>3. /\ pc'[r] = "idle" /\ outcome'[r] = "converged"
        /\ \A s \in Runners \ {r} : /\ pc'[s] = pc[s] /\ held'[s] = held[s]
                                    /\ green'[s] = green[s] /\ outcome'[s] = outcome[s]
    BY <2>1 DEF End, Goto
  <2>4. ConvergedIsOnLedger'
    BY <1>1, <1>8, <2>1, <2>3 DEF ConvergedIsOnLedger, v
  <2>5. RunsInBudget' /\ RecordedIsHeld' /\ OneRecords' /\ BenchedIsHeld'
    BY <1>1, <1>3, <2>1, <2>3 DEF RunsInBudget, RecordedIsHeld, OneRecords,
       BenchedIsHeld, Recorded
  <2> QED BY <1>6, <1>7, <2>2, <2>4, <2>5
<1>9. CASE green[r] = FALSE /\ i = MaxRounds
  <2>1. End(r, "exhausted") /\ UNCHANGED turn BY <1>9 DEF Verdict
  <2>2. LoopTypeOK' BY <1>1, <1>3, <1>4, <2>1 DEF End, Goto, Places, Endings
  <2>3. /\ pc'[r] = "idle" /\ outcome'[r] = "exhausted"
        /\ \A s \in Runners \ {r} : /\ pc'[s] = pc[s] /\ held'[s] = held[s]
                                    /\ green'[s] = green[s] /\ outcome'[s] = outcome[s]
    BY <2>1 DEF End, Goto
  <2>4. ConvergedIsOnLedger' BY <1>1, <2>1, <2>3 DEF ConvergedIsOnLedger
  <2>5. RunsInBudget' /\ RecordedIsHeld' /\ OneRecords' /\ BenchedIsHeld'
    BY <1>1, <1>3, <2>1, <2>3 DEF RunsInBudget, RecordedIsHeld, OneRecords,
       BenchedIsHeld, Recorded
  <2> QED BY <1>6, <1>7, <2>2, <2>4, <2>5
<1>10. CASE green[r] = FALSE /\ i # MaxRounds
  <2>1. /\ turn' = [turn EXCEPT ![r] = i + 1] /\ pc' = [pc EXCEPT ![r] = "generate"]
        /\ UNCHANGED <<held, green, outcome>>
    BY <1>10 DEF Verdict, Goto, answers
  <2>2. i + 1 \in Rounds /\ i + 1 \in Nat
    BY <1>2, <1>10, ConvergeAssumption DEF Rounds
  <2>3. LoopTypeOK' BY <1>1, <1>3, <1>4, <2>1, <2>2 DEF Places
  <2>4. /\ pc'[r] = "generate" /\ turn'[r] = i + 1
        /\ \A s \in Runners \ {r} : pc'[s] = pc[s] /\ turn'[s] = turn[s]
    BY <2>1
  <2>5. ConvergedIsOnLedger'
    BY <1>1, <1>2, <2>1, <2>4 DEF ConvergedIsOnLedger
  <2>6. RunsInBudget' BY <1>2, <2>1, <2>2, <2>4 DEF RunsInBudget
  <2>7. RecordedIsHeld' /\ OneRecords' /\ BenchedIsHeld'
    BY <1>1, <1>3, <2>1, <2>4 DEF RecordedIsHeld, OneRecords, BenchedIsHeld, Recorded
  <2> QED BY <1>6, <1>7, <2>3, <2>5, <2>6, <2>7
<1>11. green[r] \in BOOLEAN OBVIOUS
<1> QED BY <1>8, <1>9, <1>10, <1>11

\* The ways a run ends without a word on the ledger.
LEMMA FailureKeepsInv ==
    ASSUME ConvergeInv, NEW r \in Runners,
           \/ GenerateFails(r) \/ RecordRejected(r) \/ MaterializeFails(r)
           \/ BenchFails(r) \/ VerdictRejected(r) \/ Crash(r)
    PROVE  ConvergeInv'
<1>1. \E how \in {"invalid outcome", "error", "crashed"} : End(r, how)
  BY Zenon DEF GenerateFails, RecordRejected, MaterializeFails, BenchFails, VerdictRejected, Crash
<1>2. UNCHANGED <<order, recorded, verdicts, turn>>
  BY DEF GenerateFails, RecordRejected, MaterializeFails, BenchFails, VerdictRejected,
     Crash, ledger
<1>3. \/ UNCHANGED tree
      \/ Recorded(r) /\ tree' = [tree EXCEPT ![turn[r]] = None]
  BY DEF GenerateFails, RecordRejected, MaterializeFails, BenchFails, VerdictRejected,
     Crash, Recorded, DirOf
<1> QED BY <1>1, <1>2, <1>3, EndKeepsInv DEF Endings

LEMMA NextKeepsInv ==
    ASSUME ConvergeInv, [LoopNext]_runs
    PROVE  ConvergeInv'
<1>1. CASE UNCHANGED runs
  BY <1>1 DEF runs, ConvergeInv, LoopTypeOK, RunsInBudget, RecordedIsHeld, OneRecords,
     BenchedIsHeld, VerdictsAreOfCounted, VerdictIsOfRecorded, ConvergedIsOnLedger,
     RestartsShareBudget, Recorded
<1>2. ASSUME NEW r \in Runners, BeginRun(r) \/ Step(r) \/ Crash(r) PROVE ConvergeInv'
  BY <1>2, BeginKeepsInv, GenerateKeepsInv, RecordKeepsInv, MaterializeKeepsInv,
     BenchKeepsInv, VerdictKeepsInv, FailureKeepsInv, Zenon DEF Step
<1> QED BY <1>1, <1>2, DeskKeepsInv, Zenon DEF LoopNext

-----------------------------------------------------------------------------
(* The theorems.                                                           *)

\* The inductive invariant: a recorded iteration is its runner's alone until
\* the run ends (converge.rs, converge).
THEOREM ConvergeInvariant == LoopSpec => []ConvergeInv
<1>1. LoopInit => ConvergeInv BY InitInv
<1>2. ConvergeInv /\ [LoopNext]_runs => ConvergeInv' BY NextKeepsInv
<1> QED BY <1>1, <1>2, PTL DEF LoopSpec

\* A bench verdict is of the very candidate its iteration's record cites,
\* whoever raced or died on the order (converge.rs, converge).
THEOREM VerdictsAreOfRecorded == LoopSpec => []VerdictIsOfRecorded
<1>1. ConvergeInv => VerdictIsOfRecorded BY DEF ConvergeInv
<1> QED BY <1>1, ConvergeInvariant, PTL

\* A run that reports Converged has its passing verdict on the ledger
\* (converge.rs, ConvergeOutcome).
THEOREM ReportsAreOnLedger == LoopSpec => []ConvergedIsOnLedger
<1>1. ConvergeInv => ConvergedIsOnLedger BY DEF ConvergeInv
<1> QED BY <1>1, ConvergeInvariant, PTL

\* However often runs are started, the order counts no more generations than
\* one run may (converge.rs, converge).
THEOREM BudgetIsShared == LoopSpec => []RestartsShareBudget
<1>1. ConvergeInv => RestartsShareBudget BY DEF ConvergeInv
<1> QED BY <1>1, ConvergeInvariant, PTL

-----------------------------------------------------------------------------
(***************************************************************************)
(* The chain of the refusal ledger.  Of two writers inside, one does not   *)
(* hold the lock, so until that happens whoever is inside is alone there,  *)
(* the hash it read is still the last one, and the line it is about to end *)
(* is still its own.                                                       *)
(***************************************************************************)

\* Where a writer that holds the lock may be.
HolderIsBusy ==
    \A w \in Writers :
        holds[w] => chainLock = w /\ doing[w] \notin {"idle", "waiting"}

AloneInside == \A v, w \in Writers : Inside(v) /\ Inside(w) => v = w

\* What a writer is about to chain onto is what it read.
TailIsFresh ==
    \A w \in Writers : doing[w] = "body" => TailReads /\ tailOf[w] = LastHash

\* The line that a writer is about to end is its own.
LineIsIts ==
    \A w \in Writers : doing[w] = "newline" =>
        /\ chain # <<>>
        /\ OneToALine => Reads(chain[Len(chain)]) /\ LastHash = tailOf[w]

\* What holds while nobody was overtaken, with the state it rests on.
Sound ==
    /\ AloneInside /\ TailIsFresh /\ LineIsIts
    /\ Chained /\ (OneToALine => WrittenIsThere)

ChainInv == ChainTypeOK /\ HolderIsBusy /\ (~overtaken => Sound)

-----------------------------------------------------------------------------
\* Appending makes a sequence longer by one.
LEMMA OneLonger ==
    ASSUME NEW S, NEW s \in Seq(S), NEW e \in S
    PROVE  Len(Append(s, e)) = Len(s) + 1
OBVIOUS

\* What is appended is a file again: a longer one, or one whose last line is.
LEMMA AppendedOK ==
    ASSUME chain \in Seq(Line), NEW piece \in Record
    PROVE  /\ Appended(piece) \in Seq(Line)
           /\ Len(chain) > 0 /\ ~chain[Len(chain)].ended =>
                /\ Len(Appended(piece)) = Len(chain)
                /\ \A i \in 1..Len(chain) : i < Len(chain) => Appended(piece)[i] = chain[i]
                /\ Appended(piece)[Len(chain)].pieces = Append(chain[Len(chain)].pieces, piece)
           /\ ~(Len(chain) > 0 /\ ~chain[Len(chain)].ended) =>
                /\ Len(Appended(piece)) = Len(chain) + 1
                /\ \A i \in 1..Len(chain) : Appended(piece)[i] = chain[i]
                /\ Appended(piece)[Len(chain) + 1].pieces = <<piece>>
<1> DEFINE n == Len(chain)
<1>1. CASE n > 0 /\ ~chain[n].ended
  <2> DEFINE l == [pieces |-> Append(chain[n].pieces, piece), ended |-> FALSE]
  <2>1. chain[n] \in Line BY <1>1
  <2>2. chain[n].pieces \in Seq(Record) BY <2>1 DEF Line
  <2>3. Append(chain[n].pieces, piece) \in Seq(Record) BY <2>2
  <2>4. l \in Line BY <2>3 DEF Line
  <2>5. Appended(piece) = [chain EXCEPT ![n] = l] BY <1>1 DEF Appended
  <2> HIDE DEF l
  <2>6. [chain EXCEPT ![n] = l] \in Seq(Line) BY <1>1, <2>4
  <2>7. /\ Len([chain EXCEPT ![n] = l]) = n
        /\ \A i \in 1..n : i < n => [chain EXCEPT ![n] = l][i] = chain[i]
        /\ [chain EXCEPT ![n] = l][n] = l
    BY <1>1
  <2>8. l.pieces = Append(chain[n].pieces, piece) BY DEF l
  <2> QED BY <1>1, <2>5, <2>6, <2>7, <2>8
<1>2. CASE ~(n > 0 /\ ~chain[n].ended)
  <2> DEFINE l == [pieces |-> <<piece>>, ended |-> FALSE]
  <2>1. <<piece>> \in Seq(Record) OBVIOUS
  <2>2. l \in Line BY <2>1 DEF Line
  <2>3. Appended(piece) = Append(chain, l) BY <1>2 DEF Appended
  <2>4. l.pieces = <<piece>> OBVIOUS
  <2> HIDE DEF l
  <2> QED BY <1>2, <2>2, <2>3, <2>4
<1> QED BY <1>1, <1>2

\* Ending the line changes no line's pieces.
LEMMA EndLineOK ==
    ASSUME chain \in Seq(Line)
    PROVE  /\ EndLine \in Seq(Line) /\ Len(EndLine) = Len(chain)
           /\ \A i \in 1..Len(chain) : EndLine[i].pieces = chain[i].pieces
<1>1. CASE chain # <<>> /\ ~chain[Len(chain)].ended
  <2> DEFINE n == Len(chain)
             l == [pieces |-> chain[n].pieces, ended |-> TRUE]
  <2>1. n \in 1..Len(chain) BY <1>1
  <2>2. chain[n] \in Line BY <2>1
  <2>2a. l \in Line BY <2>2 DEF Line
  <2>3. EndLine = [chain EXCEPT ![n] = l] BY <1>1 DEF EndLine
  <2>4. l.pieces = chain[n].pieces OBVIOUS
  <2> HIDE DEF l
  <2> QED BY <2>1, <2>2a, <2>3, <2>4
<1>2. CASE ~(chain # <<>> /\ ~chain[Len(chain)].ended)
  BY <1>2 DEF EndLine
<1> QED BY <1>1, <1>2

\* `Chained` and the rest depend on the pieces of the lines alone.
LEMMA SamePieces ==
    ASSUME chain \in Seq(Line), chain' \in Seq(Line), Len(chain') = Len(chain),
           \A i \in 1..Len(chain) : chain'[i].pieces = chain[i].pieces
    PROVE  /\ Chained => Chained'
           /\ OneToALine' <=> OneToALine
           /\ TailReads' <=> TailReads
           /\ LastHash' = LastHash
           /\ WrittenIsThere /\ written' = written => WrittenIsThere'
<1>1. \A i \in 1..Len(chain) :
        /\ Reads(chain'[i]) <=> Reads(chain[i])
        /\ RecordOn(chain'[i]) = RecordOn(chain[i])
  BY DEF Reads, RecordOn
<1>2. Chained => Chained'
  <2> SUFFICES ASSUME Chained, NEW i \in 1..Len(chain)
               PROVE  /\ i < Len(chain) => Reads(chain'[i])
                      /\ Reads(chain'[i]) => Linked(i)'
    BY DEF Chained
  <2>1. i # 1 => i - 1 \in 1..Len(chain) OBVIOUS
  <2>2. Linked(i)' <=> Linked(i) BY <1>1, <2>1 DEF Linked
  <2> QED BY <1>1, <2>2 DEF Chained
<1>3. OneToALine' <=> OneToALine BY DEF OneToALine
<1>4. chain # <<>> => Len(chain) \in 1..Len(chain) OBVIOUS
<1>5. chain' = <<>> <=> chain = <<>> OBVIOUS
<1>6. TailReads' <=> TailReads BY <1>1, <1>4, <1>5 DEF TailReads
<1>7. LastHash' = LastHash BY <1>1, <1>4, <1>5 DEF LastHash
<1>8. WrittenIsThere /\ written' = written => WrittenIsThere'
  BY <1>1 DEF WrittenIsThere
<1> QED BY <1>2, <1>3, <1>6, <1>7, <1>8

\* A piece appended by whoever is alone inside, onto a tail that is fresh.
LEMMA AppendKeeps ==
    ASSUME chain \in Seq(Line), NEW piece \in Record,
           Chained, TailReads, piece.prev_hash = LastHash,
           chain' = Appended(piece)
    PROVE  /\ chain' \in Seq(Line) /\ chain' # <<>>
           /\ Chained'
           /\ OneToALine' =>
                /\ OneToALine
                /\ Reads(chain'[Len(chain')]) <=> piece.whole
                /\ RecordOn(chain'[Len(chain')]) = piece
                /\ WrittenIsThere /\ written' = written => WrittenIsThere'
<1> DEFINE n == Len(chain)
<1>0. n \in Nat /\ chain' \in Seq(Line) BY AppendedOK
<1>1. CASE n > 0 /\ ~chain[n].ended
  <2>1. /\ Len(chain') = n
        /\ \A i \in 1..n : i < n => chain'[i] = chain[i]
        /\ chain'[n].pieces = Append(chain[n].pieces, piece)
    BY <1>1, AppendedOK
  <2>2. Reads(chain[n]) /\ chain[n] \in Line BY <1>1 DEF TailReads
  <2>3. Len(chain[n].pieces) = 1 /\ chain[n].pieces \in Seq(Record)
    BY <2>2 DEF Reads, Line
  <2>4. Len(chain'[n].pieces) = 2
    <3>1. Len(Append(chain[n].pieces, piece)) = Len(chain[n].pieces) + 1
      BY <2>3, OneLonger
    <3> QED BY <2>1, <2>3, <3>1
  <2>5. ~Reads(chain'[n]) BY <2>4 DEF Reads
  <2>6. ~OneToALine' BY <1>1, <2>1, <2>4 DEF OneToALine
  <2>7. Chained'
    <3> SUFFICES ASSUME NEW i \in 1..n
                 PROVE  /\ i < n => Reads(chain'[i])
                        /\ Reads(chain'[i]) => Linked(i)'
      BY <2>1 DEF Chained
    <3>1. CASE i < n
      <4>1. chain'[i] = chain[i] BY <2>1, <3>1
      <4>2. i # 1 => chain'[i - 1] = chain[i - 1] BY <2>1, <3>1
      <4>3. Linked(i)' <=> Linked(i) BY <4>1, <4>2 DEF Linked
      <4> QED BY <4>1, <4>3, <3>1 DEF Chained
    <3>2. CASE i = n BY <3>2, <2>5
    <3> QED BY <3>1, <3>2, <1>0
  <2>8. chain' # <<>> BY <1>1, <2>1
  <2> QED BY <1>0, <2>6, <2>7, <2>8
<1>2. CASE ~(n > 0 /\ ~chain[n].ended)
  <2>1. /\ Len(chain') = n + 1
        /\ \A i \in 1..n : chain'[i] = chain[i]
        /\ chain'[n + 1].pieces = <<piece>>
    BY <1>2, AppendedOK
  <2>2. RecordOn(chain'[n + 1]) = piece BY <2>1 DEF RecordOn
  <2>3. Reads(chain'[n + 1]) <=> piece.whole BY <2>1 DEF Reads
  <2>4. piece.prev_hash =
          IF n + 1 = 1 THEN GENESIS ELSE RecordOn(chain'[(n + 1) - 1]).hash
    <3>1. CASE n = 0
      <4>1. LastHash = GENESIS BY <3>1 DEF LastHash
      <4> QED BY <4>1, <3>1
    <3>2. CASE n # 0
      <4>1. chain # <<>> /\ n \in 1..n BY <3>2, <1>0
      <4>2. LastHash = RecordOn(chain[n]).hash BY <4>1 DEF LastHash
      <4>3. (n + 1) - 1 = n /\ n + 1 # 1 BY <3>2, <1>0
      <4>4. chain'[(n + 1) - 1] = chain[n] BY <4>1, <4>3, <2>1
      <4>5. RecordOn(chain'[(n + 1) - 1]).hash = LastHash BY <4>2, <4>4
      <4> QED BY <4>3, <4>5
    <3> QED BY <3>1, <3>2
  <2>5. Chained'
    <3> SUFFICES ASSUME NEW i \in 1..(n + 1)
                 PROVE  /\ i < n + 1 => Reads(chain'[i])
                        /\ Reads(chain'[i]) => Linked(i)'
      BY <2>1 DEF Chained
    <3>1. CASE i < n + 1
      <4>1. chain'[i] = chain[i] /\ i \in 1..n BY <2>1, <3>1, <1>0
      <4>2. i # 1 => chain'[i - 1] = chain[i - 1] BY <2>1, <4>1
      <4>3. Linked(i)' <=> Linked(i) BY <4>1, <4>2 DEF Linked
      <4>4. Reads(chain[i])
        <5>1. CASE i = n
          <6>1. chain # <<>> BY <5>1, <4>1
          <6> QED BY <5>1, <6>1 DEF TailReads
        <5>2. CASE i < n BY <5>2, <4>1 DEF Chained
        <5> QED BY <5>1, <5>2, <4>1, <1>0
      <4> QED BY <4>1, <4>3, <4>4 DEF Chained
    <3>2. CASE i = n + 1
      <4>1. RecordOn(chain'[i]) = piece BY <3>2, <2>2
      <4>2. Linked(i)' BY <4>1, <2>4, <3>2 DEF Linked
      <4> QED BY <4>2, <3>2
    <3> QED BY <3>1, <3>2, <1>0
  <2>6. OneToALine' => OneToALine
    <3> SUFFICES ASSUME OneToALine', NEW i \in 1..n PROVE Len(chain[i].pieces) = 1
      BY DEF OneToALine
    <3>1. i \in 1..Len(chain') /\ chain'[i] = chain[i] BY <2>1, <1>0
    <3> QED BY <3>1 DEF OneToALine
  <2>7. WrittenIsThere /\ written' = written => WrittenIsThere'
    <3> SUFFICES ASSUME WrittenIsThere, NEW h \in written
                 PROVE \E i \in 1..Len(chain') :
                          Reads(chain'[i]) /\ RecordOn(chain'[i]).hash = h
      BY DEF WrittenIsThere
    <3>1. PICK i \in 1..n : Reads(chain[i]) /\ RecordOn(chain[i]).hash = h
      BY DEF WrittenIsThere
    <3>2. i \in 1..Len(chain') /\ chain'[i] = chain[i] BY <2>1, <1>0
    <3> QED BY <3>1, <3>2
  <2>8. chain' # <<>> BY <2>1, <1>0
  <2> QED BY <1>0, <2>1, <2>2, <2>3, <2>5, <2>6, <2>7, <2>8
<1> QED BY <1>1, <1>2

-----------------------------------------------------------------------------
\* The types, for every step.
LEMMA ChainTypeStep ==
    ASSUME ChainTypeOK, [ChainNext]_chainVars PROVE ChainTypeOK'
<1> USE ChainAssumption DEF ChainTypeOK
<1>1. CASE UNCHANGED chainVars BY <1>1 DEF chainVars
<1>2. ASSUME NEW w \in Writers, Writing(w) PROVE ChainTypeOK'
  <2>1. CASE Begin(w) BY <2>1 DEF Begin, Goes, Steps
  <2>2. CASE TakeLock(w) BY <2>2 DEF TakeLock, Goes, Steps
  <2>3. CASE GoPast(w) BY <2>3 DEF GoPast, Goes, Steps
  <2>4. CASE ReadTail(w)
    <3>1. LastHash \in Nat
      <4>1. CASE chain = <<>> BY <4>1 DEF LastHash, GENESIS
      <4>2. CASE chain # <<>>
        <5> DEFINE l == chain[Len(chain)]
        <5>1. Reads(l) BY <2>4, <4>2 DEF ReadTail, TailReads
        <5>2. l \in Line BY <4>2
        <5>3. l.pieces \in Seq(Record) BY <5>2 DEF Line
        <5>4. Len(l.pieces) = 1 BY <5>1 DEF Reads
        <5> HIDE DEF l
        <5>5. l.pieces[1] \in Record BY <5>3, <5>4
        <5>6. l.pieces[1].hash \in Nat BY <5>5 DEF Record
        <5> QED BY <4>2, <5>6 DEF LastHash, RecordOn, l
      <4> QED BY <4>1, <4>2
    <3>2. tailOf' \in [Writers -> Nat] BY <2>4, <3>1 DEF ReadTail
    <3>3. overtaken' \in BOOLEAN BY <2>4 DEF ReadTail, Meets
    <3> QED BY <2>4, <3>2, <3>3 DEF ReadTail, Goes, Steps
  <2>5. CASE TailFails(w) BY <2>5 DEF TailFails, Goes, Steps
  <2>6. CASE WriteBody(w)
    <3>1. RecordOf(w, TRUE) \in Record BY <2>6 DEF RecordOf, Record
    <3>2. chain' \in Seq(Line) BY <2>6, <3>1, AppendedOK DEF WriteBody
    <3>3. doing' \in [Writers -> Steps] BY <2>6 DEF WriteBody, Goes, Steps
    <3>4. recordsMade' \in Nat /\ tailOf' \in [Writers -> Nat]
      BY <2>6 DEF WriteBody
    <3>5. UNCHANGED <<chainLock, holds, written, stops, overtaken>>
      BY <2>6 DEF WriteBody
    <3> HIDE DEF Steps
    <3> QED BY <3>2, <3>3, <3>4, <3>5
  <2>7. CASE WriteNewline(w)
    <3>1. chain' \in Seq(Line) BY <2>7, EndLineOK DEF WriteNewline
    <3>2. tailOf[w] \in Nat OBVIOUS
    <3>3. written' \subseteq Nat BY <2>7, <3>2 DEF WriteNewline
    <3>4. doing' \in [Writers -> Steps] BY <2>7 DEF WriteNewline, Goes, Steps
    <3>5. UNCHANGED <<chainLock, holds, tailOf, recordsMade, stops, overtaken>>
      BY <2>7 DEF WriteNewline
    <3> HIDE DEF Steps
    <3> QED BY <3>1, <3>3, <3>4, <3>5
  <2>8. CASE Return(w) BY <2>8 DEF Return, Goes, Steps
  <2>9. CASE StopWriting(w)
    <3>1. RecordOf(w, FALSE) \in Record BY <2>9 DEF RecordOf, Record
    <3>2. Appended(RecordOf(w, FALSE)) \in Seq(Line) BY <3>1, AppendedOK
    <3>3. chain' \in Seq(Line) BY <2>9, <3>2 DEF StopWriting
    <3> QED BY <2>9, <3>3 DEF StopWriting, Goes, Steps
  <2> QED BY <1>2, <2>1, <2>2, <2>3, <2>4, <2>5, <2>6, <2>7, <2>8, <2>9 DEF Writing
<1> QED BY <1>1, <1>2 DEF ChainNext

\* Whoever holds the lock is in the call, and is the one the lock names.
LEMMA HolderStep ==
    ASSUME ChainTypeOK, HolderIsBusy, NEW w \in Writers, Writing(w)
    PROVE  HolderIsBusy'
<1> USE ChainAssumption DEF ChainTypeOK, HolderIsBusy, Goes
<1>1. CASE Begin(w) BY <1>1 DEF Begin
<1>2. CASE TakeLock(w) BY <1>2 DEF TakeLock
<1>3. CASE GoPast(w) BY <1>3 DEF GoPast
<1>4. CASE ReadTail(w) BY <1>4 DEF ReadTail
<1>5. CASE TailFails(w) BY <1>5 DEF TailFails
<1>6. CASE WriteBody(w) BY <1>6 DEF WriteBody
<1>7. CASE WriteNewline(w) BY <1>7 DEF WriteNewline
<1>8. CASE Return(w) BY <1>8 DEF Return
<1>9. CASE StopWriting(w) BY <1>9 DEF StopWriting
<1> QED BY <1>1, <1>2, <1>3, <1>4, <1>5, <1>6, <1>7, <1>8, <1>9 DEF Writing

\* A step that leaves the file alone, of a writer that is then not inside.
LEMMA OutsideKeeps ==
    ASSUME ChainTypeOK, Sound, NEW w \in Writers,
           chain' = chain, tailOf' = tailOf, written' = written,
           \A v \in Writers \ {w} : doing'[v] = doing[v],
           doing'[w] \notin {"body", "newline"}
    PROVE  Sound'
<1>1. \A v \in Writers : Inside(v)' => Inside(v) /\ doing'[v] = doing[v]
  BY DEF Inside
<1>2. AloneInside' BY <1>1 DEF Sound, AloneInside
<1>3. (Chained' <=> Chained) /\ (OneToALine' <=> OneToALine)
      /\ (WrittenIsThere' <=> WrittenIsThere)
      /\ (TailReads' <=> TailReads) /\ LastHash' = LastHash
  BY DEF Chained, Linked, OneToALine, WrittenIsThere, TailReads, LastHash
<1>4. \A v \in Writers : doing'[v] = "body" => doing[v] = "body"
  BY <1>1 DEF Inside
<1>5. \A v \in Writers : doing'[v] = "newline" => doing[v] = "newline"
  BY <1>1 DEF Inside
<1>6. TailIsFresh' BY <1>3, <1>4 DEF Sound, TailIsFresh
<1>7. LineIsIts' BY <1>3, <1>5 DEF Sound, LineIsIts
<1> QED BY <1>2, <1>3, <1>6, <1>7 DEF Sound

\* What a record does to the file, of the one writer that is inside.
LEMMA BodyKeeps ==
    ASSUME ChainTypeOK, Sound, NEW w \in Writers, doing[w] = "body",
           NEW whole \in BOOLEAN, chain' = Appended(RecordOf(w, whole)),
           written' = written
    PROVE  /\ chain' # <<>> /\ Chained' /\ (OneToALine => WrittenIsThere)'
           /\ OneToALine' =>
                /\ Reads(chain'[Len(chain')]) <=> whole
                /\ RecordOn(chain'[Len(chain')]).hash = recordsMade + 1
           /\ \A v \in Writers \ {w} : ~Inside(v)
<1> DEFINE piece == RecordOf(w, whole)
<1>1. piece \in Record BY DEF RecordOf, Record, ChainTypeOK
<1>2. piece.prev_hash = tailOf[w] /\ piece.hash = recordsMade + 1 /\ piece.whole = whole
  BY DEF RecordOf
<1>3. TailReads /\ tailOf[w] = LastHash BY DEF Sound, TailIsFresh
<1>4. \A v \in Writers \ {w} : ~Inside(v) BY DEF Sound, AloneInside, Inside
<1>5. chain \in Seq(Line) /\ Chained BY DEF ChainTypeOK, Sound
<1>6. piece.prev_hash = LastHash /\ chain' = Appended(piece) BY <1>2, <1>3
<1> HIDE DEF piece
<1>7. /\ chain' # <<>> /\ Chained'
      /\ OneToALine' =>
           /\ OneToALine
           /\ Reads(chain'[Len(chain')]) <=> piece.whole
           /\ RecordOn(chain'[Len(chain')]) = piece
           /\ WrittenIsThere /\ written' = written => WrittenIsThere'
  BY <1>1, <1>3, <1>5, <1>6, AppendKeeps
<1>8. (OneToALine => WrittenIsThere)' BY <1>7 DEF Sound
<1> QED BY <1>2, <1>4, <1>7, <1>8

\* Nobody is inside: then only the file has to be sound.
LEMMA NobodyInside ==
    ASSUME \A v \in Writers : ~Inside(v)', Chained', (OneToALine => WrittenIsThere)'
    PROVE  Sound'
BY DEF Sound, AloneInside, TailIsFresh, LineIsIts, Inside

\* Every step keeps the file sound until someone is overtaken.
LEMMA SoundStep ==
    ASSUME ChainInv, NEW w \in Writers, Writing(w), ~overtaken'
    PROVE  Sound'
<1> USE DEF Goes
<1>0. /\ ChainTypeOK /\ HolderIsBusy /\ (~overtaken => Sound)
      /\ doing \in [Writers -> Steps] /\ tailOf \in [Writers -> Nat]
  BY DEF ChainInv, ChainTypeOK
<1>1. CASE Begin(w)
  <2>1. Sound BY <1>0, <1>1 DEF Begin
  <2> QED BY <1>0, <1>1, <2>1, OutsideKeeps DEF Begin
<1>2. CASE TakeLock(w)
  <2>1. Sound BY <1>0, <1>2 DEF TakeLock
  <2> QED BY <1>0, <1>2, <2>1, OutsideKeeps DEF TakeLock
<1>3. CASE GoPast(w)
  <2>1. Sound BY <1>0, <1>3 DEF GoPast
  <2> QED BY <1>0, <1>3, <2>1, OutsideKeeps DEF GoPast
<1>4. CASE ReadTail(w)
  <2>1. ~overtaken /\ ~Meets(w) /\ Sound BY <1>0, <1>4 DEF ReadTail
  <2>2. \A v \in Writers \ {w} : ~Inside(v)
    <3> SUFFICES ASSUME NEW v \in Writers \ {w}, Inside(v) PROVE FALSE OBVIOUS
    <3>1. holds[v] /\ holds[w] BY <2>1 DEF Meets
    <3>2. chainLock = v /\ chainLock = w BY <1>0, <3>1 DEF HolderIsBusy
    <3> QED BY <3>2
  <2>3. /\ doing'[w] = "body" /\ tailOf'[w] = LastHash /\ TailReads
        /\ \A v \in Writers \ {w} : doing'[v] = doing[v]
        /\ chain' = chain /\ written' = written
    BY <1>0, <1>4 DEF ReadTail
  <2>4. \A v \in Writers \ {w} : ~Inside(v)' BY <2>2, <2>3 DEF Inside
  <2>5. (Chained' <=> Chained) /\ (OneToALine' <=> OneToALine)
        /\ (WrittenIsThere' <=> WrittenIsThere)
        /\ (TailReads' <=> TailReads) /\ LastHash' = LastHash
    BY <2>3 DEF Chained, Linked, OneToALine, WrittenIsThere, TailReads, LastHash
  <2>6. AloneInside' BY <2>4 DEF AloneInside
  <2>7. TailIsFresh'
    <3>1. \A v \in Writers : doing'[v] = "body" => v = w BY <2>4 DEF Inside
    <3> QED BY <2>3, <2>5, <3>1 DEF TailIsFresh
  <2>8. LineIsIts'
    <3>1. \A v \in Writers : doing'[v] # "newline" BY <2>3, <2>4 DEF Inside
    <3> QED BY <3>1 DEF LineIsIts
  <2> QED BY <2>1, <2>5, <2>6, <2>7, <2>8 DEF Sound
<1>5. CASE TailFails(w)
  <2>1. Sound BY <1>0, <1>5 DEF TailFails
  <2> QED BY <1>0, <1>5, <2>1, OutsideKeeps DEF TailFails
<1>6. CASE WriteBody(w)
  <2>1. Sound BY <1>0, <1>6 DEF WriteBody
  <2>2. /\ doing[w] = "body" /\ doing'[w] = "newline"
        /\ tailOf'[w] = recordsMade + 1 /\ chain' = Appended(RecordOf(w, TRUE))
        /\ written' = written
        /\ \A v \in Writers \ {w} : doing'[v] = doing[v]
    BY <1>0, <1>6 DEF WriteBody
  <2>3. /\ chain' # <<>> /\ Chained' /\ (OneToALine => WrittenIsThere)'
        /\ OneToALine' =>
             /\ Reads(chain'[Len(chain')]) <=> TRUE
             /\ RecordOn(chain'[Len(chain')]).hash = recordsMade + 1
        /\ \A v \in Writers \ {w} : ~Inside(v)
    BY <1>0, <2>1, <2>2, BodyKeeps
  <2>4. \A v \in Writers \ {w} : ~Inside(v)' BY <2>2, <2>3 DEF Inside
  <2>5. AloneInside' BY <2>4 DEF AloneInside
  <2>6. TailIsFresh'
    <3>1. \A v \in Writers : doing'[v] # "body" BY <2>2, <2>4 DEF Inside
    <3> QED BY <3>1 DEF TailIsFresh
  <2>7. LineIsIts'
    <3>1. \A v \in Writers : doing'[v] = "newline" => v = w BY <2>4 DEF Inside
    <3>2. LastHash' = RecordOn(chain'[Len(chain')]).hash BY <2>3 DEF LastHash
    <3> QED BY <2>2, <2>3, <3>1, <3>2 DEF LineIsIts
  <2> QED BY <2>3, <2>5, <2>6, <2>7 DEF Sound
<1>7. CASE WriteNewline(w)
  <2>1. Sound BY <1>0, <1>7 DEF WriteNewline
  <2>2. /\ doing[w] = "newline" /\ doing'[w] = "returning" /\ chain' = EndLine
        /\ written' = written \cup {tailOf[w]}
        /\ \A v \in Writers \ {w} : doing'[v] = doing[v]
    BY <1>0, <1>7 DEF WriteNewline
  <2>3. \A v \in Writers : ~Inside(v)'
    BY <2>1, <2>2 DEF Sound, AloneInside, Inside
  <2>4. /\ chain \in Seq(Line) /\ chain' \in Seq(Line) /\ Len(chain') = Len(chain)
        /\ \A i \in 1..Len(chain) : chain'[i].pieces = chain[i].pieces
    BY <1>0, <2>2, EndLineOK DEF ChainTypeOK
  <2>5. Chained' /\ (OneToALine' <=> OneToALine)
    BY <2>1, <2>4, SamePieces DEF Sound
  <2>6. ASSUME OneToALine PROVE WrittenIsThere'
    <3>1. WrittenIsThere /\ chain # <<>> /\ Reads(chain[Len(chain)])
          /\ LastHash = tailOf[w]
      BY <2>1, <2>2, <2>6 DEF Sound, LineIsIts
    <3>2. \A i \in 1..Len(chain) :
            /\ Reads(chain'[i]) <=> Reads(chain[i])
            /\ RecordOn(chain'[i]) = RecordOn(chain[i])
      BY <2>4 DEF Reads, RecordOn
    <3>3. \A h \in written : \E i \in 1..Len(chain') :
            Reads(chain'[i]) /\ RecordOn(chain'[i]).hash = h
      BY <2>4, <3>1, <3>2 DEF WrittenIsThere
    <3>4. Len(chain) \in 1..Len(chain) BY <2>4, <3>1
    <3>5. RecordOn(chain[Len(chain)]).hash = tailOf[w] BY <3>1 DEF LastHash
    <3>6. \E i \in 1..Len(chain') :
            Reads(chain'[i]) /\ RecordOn(chain'[i]).hash = tailOf[w]
      BY <2>4, <3>1, <3>2, <3>4, <3>5
    <3> QED BY <2>2, <3>3, <3>6 DEF WrittenIsThere
  <2> QED BY <2>3, <2>5, <2>6, NobodyInside
<1>8. CASE Return(w)
  <2>1. Sound BY <1>0, <1>8 DEF Return
  <2> QED BY <1>0, <1>8, <2>1, OutsideKeeps DEF Return
<1>9. CASE StopWriting(w)
  <2>1. Sound BY <1>0, <1>9 DEF StopWriting
  <2>2. /\ doing'[w] = "idle" /\ tailOf' = tailOf /\ written' = written
        /\ \A v \in Writers \ {w} : doing'[v] = doing[v]
    BY <1>0, <1>9 DEF StopWriting
  <2>3. CASE chain' = chain BY <1>0, <2>1, <2>2, <2>3, OutsideKeeps
  <2>4. CASE doing[w] = "body" /\ chain' = Appended(RecordOf(w, FALSE))
    <3>1. /\ Chained' /\ (OneToALine => WrittenIsThere)'
          /\ \A v \in Writers \ {w} : ~Inside(v)
      BY <1>0, <2>1, <2>2, <2>4, BodyKeeps
    <3>2. \A v \in Writers : ~Inside(v)' BY <2>2, <3>1 DEF Inside
    <3> QED BY <3>1, <3>2, NobodyInside
  <2> QED BY <1>9, <2>3, <2>4 DEF StopWriting
<1> QED BY <1>1, <1>2, <1>3, <1>4, <1>5, <1>6, <1>7, <1>8, <1>9 DEF Writing

LEMMA ChainStart == ChainInit => ChainInv
<1> SUFFICES ASSUME ChainInit PROVE ChainInv OBVIOUS
<1>1. ChainTypeOK
  <2>1. chain \in Seq(Line) BY DEF ChainInit
  <2>2. doing \in [Writers -> Steps] BY DEF ChainInit, Steps
  <2>3. holds \in [Writers -> BOOLEAN] BY DEF ChainInit
  <2>4. tailOf \in [Writers -> Nat] BY DEF ChainInit, GENESIS
  <2>5. /\ chainLock \in Writers \cup {Nobody} /\ written \subseteq Nat
        /\ recordsMade \in Nat /\ stops \in Nat /\ overtaken \in BOOLEAN
    BY DEF ChainInit
  <2> QED BY <2>1, <2>2, <2>3, <2>4, <2>5 DEF ChainTypeOK
<1>2. HolderIsBusy BY DEF ChainInit, HolderIsBusy
<1>3. AloneInside /\ TailIsFresh /\ LineIsIts
  BY DEF ChainInit, AloneInside, Inside, TailIsFresh, LineIsIts
<1>4. Chained /\ WrittenIsThere BY DEF ChainInit, Chained, WrittenIsThere
<1> QED BY <1>1, <1>2, <1>3, <1>4 DEF ChainInv, Sound

LEMMA ChainStep ==
    ASSUME ChainInv, [ChainNext]_chainVars PROVE ChainInv'
<1>0. ChainTypeOK' BY ChainTypeStep DEF ChainInv
<1>1. CASE UNCHANGED chainVars
  BY <1>0, <1>1
     DEF chainVars, ChainInv, ChainTypeOK, HolderIsBusy, Sound, AloneInside, Inside,
         TailIsFresh, LineIsIts, TailReads, LastHash, Chained, Linked, OneToALine,
         WrittenIsThere
<1>2. ASSUME NEW w \in Writers, Writing(w) PROVE ChainInv'
  <2>1. HolderIsBusy' BY <1>2, HolderStep DEF ChainInv
  <2>2. ~overtaken' => Sound' BY <1>2, SoundStep
  <2> QED BY <1>0, <2>1, <2>2 DEF ChainInv
<1> QED BY <1>1, <1>2 DEF ChainNext

\* The chain of refusals forks, and a refusal that was recorded is lost, only
\* when a writer that had waited out the lock was inside with another, for any
\* number of processes and wherever any of them stops (ledger.rs, record).
THEOREM ChainForksOnlyPastTheLock == ChainSpec => []ForksOnlyPastTheLock
<1>1. ChainInit => ChainInv BY ChainStart
<1>2. ChainInv /\ [ChainNext]_chainVars => ChainInv' BY ChainStep
<1>3. ChainInv => ForksOnlyPastTheLock
  BY DEF ChainInv, Sound, ForksOnlyPastTheLock
<1> QED BY <1>1, <1>2, <1>3, PTL DEF ChainSpec

-----------------------------------------------------------------------------
(***************************************************************************)
(* The roadmap.  A host counts at least the records it wrote, and of every *)
(* goal it owns it wrote one more than it began runs (the claim's), but    *)
(* for the one it has still to write and those that stops have cost it.    *)
(* Nobody else writes them: who is said to own a goal has it, so no brief  *)
(* gives it one it did not claim.                                          *)
(***************************************************************************)

\* A set of numbers that is not empty has a least.
LEMMA LeastExists ==
    ASSUME NEW S \in SUBSET Nat, S # {}
    PROVE  \E x \in S : \A y \in S : x <= y
<1> DEFINE R == {ss \in Nat \X Nat : ss[1] < ss[2]}
<1>1. IsWellFoundedOn(R, Nat)
  BY NatLessThanWellFounded, Zenon DEF OpToRel
<1> HIDE DEF R
<1>2. PICK x \in S : \A y \in S : ~(<<y, x>> \in R)
  BY <1>1, WFMin, Zenon
<1>3. ASSUME NEW y \in S PROVE x <= y
  <2>1. ~(<<y, x>> \in R) BY <1>2
  <2> QED BY <2>1 DEF R
<1> QED BY <1>3

Statuses == {"proposed", "claimed", "in_progress", "awaiting_human", "done", "failed"}
Goal == [id : Nat, gated : BOOLEAN, status : Statuses, owner : Hosts \cup {Unowned}]
Doing == [step : {"idle", "run", "park", "note"}, id : Nat]

GoalsTypeOK ==
    /\ goals \in [Hosts -> Seq(Goal)]
    /\ known \in [Hosts -> [Hosts -> [Road!Ids -> Nat]]]
    /\ pursuing \in [Hosts -> Doing]
    /\ tries \in [Hosts -> [Road!Ids -> Nat]]
    /\ faults \in Nat

\* Host m has a row of the goal that n owns.
HasOf(m, id, n) ==
    \E k \in DOMAIN goals[m] : goals[m][k].id = id /\ goals[m][k].owner = n

Pending(n, id) == IF pursuing[n] # Road!Idle /\ pursuing[n].id = id THEN 1 ELSE 0

\* Who is said to own a goal has a row of it; so no brief brings it one.
OwnersHave ==
    \A m, n \in Hosts, id \in Nat :
        HasOf(m, id, n) => \E k \in DOMAIN goals[n] : goals[n][k].id = id

\* What a tick has still to do is of a goal the host owns.
DoingOwned == \A n \in Hosts : pursuing[n] # Road!Idle => HasOf(n, pursuing[n].id, n)

\* Of every goal a host owns it has one record more than runs, but for those
\* a stop has cost it and the one that is still to be written.
EveryRunIsKnown ==
    \A n \in Hosts, id \in Road!Ids :
        tries[n][id] + (IF HasOf(n, id, n) THEN 1 ELSE 0)
            <= known[n][n][id] + faults + Pending(n, id)

GoalsInv ==
    /\ GoalsTypeOK /\ OwnersHave /\ DoingOwned /\ EveryRunIsKnown
    /\ RunsAreBounded

LEMMA GoalsInit == Road!Init => GoalsInv
<1> SUFFICES ASSUME Road!Init PROVE GoalsInv OBVIOUS
<1> USE DEF Road!Init
<1>1. GoalsTypeOK
  <2>1. goals \in [Hosts -> Seq(Goal)]
    <3>1. <<>> \in Seq(Goal) OBVIOUS
    <3> QED BY <3>1
  <2>2. pursuing \in [Hosts -> Doing] BY DEF Doing, Road!Idle
  <2>3. known \in [Hosts -> [Hosts -> [Road!Ids -> Nat]]] OBVIOUS
  <2>4. tries \in [Hosts -> [Road!Ids -> Nat]] /\ faults \in Nat OBVIOUS
  <2> QED BY <2>1, <2>2, <2>3, <2>4 DEF GoalsTypeOK
<1>2. \A m, n \in Hosts, id \in Nat : ~HasOf(m, id, n) BY DEF HasOf
<1>3. OwnersHave BY <1>2 DEF OwnersHave
<1>4. DoingOwned BY DEF DoingOwned
<1>5. EveryRunIsKnown BY <1>2 DEF EveryRunIsKnown, Pending, Road!Ids
<1>6. RunsAreBounded
  BY RoadAssumption DEF RunsAreBounded, Road!RunsAreBounded, Road!GoalsAssumption
<1> QED BY <1>1, <1>3, <1>4, <1>5, <1>6 DEF GoalsInv

\* The road's cardinality is everybody's.
LEMMA RoadFinite == \A S : Road!IsFiniteSet(S) <=> IsFiniteSet(S)
  BY Zenon DEF Road!IsFiniteSet, IsFiniteSet

LEMMA RoadCardinality == \A S : Road!Cardinality(S) = Cardinality(S)
  BY Zenon, RoadFinite DEF Road!Cardinality, Cardinality

\* A host counts all the records it wrote.
LEMMA AttemptsCountOwn ==
    ASSUME GoalsTypeOK, NEW n \in Hosts, NEW id \in Road!Ids
    PROVE  /\ known[n][n][id] \in Nat
           /\ Road!goal_attempts(n, id) \in Nat
           /\ known[n][n][id] <= Road!goal_attempts(n, id)
<1> DEFINE mine == {n} \X (1..known[n][n][id])
<1> DEFINE of(o) == {o} \X (1..known[n][o][id])
<1> DEFINE every == {of(o) : o \in Hosts}
<1> DEFINE f == [o \in Hosts |-> of(o)]
<1>1. known[n][n][id] \in Nat BY DEF GoalsTypeOK
<1>2. ASSUME NEW o \in Hosts
      PROVE  IsFiniteSet(of(o)) /\ Cardinality(of(o)) = known[n][o][id]
  <2>1. known[n][o][id] \in Nat BY DEF GoalsTypeOK
  <2>2. IsFiniteSet(1..known[n][o][id]) /\ Cardinality(1..known[n][o][id]) = known[n][o][id]
    <3> DEFINE c == known[n][o][id]
    <3>1. c \in Nat BY <2>1
    <3> HIDE DEF c
    <3>2. c \in Int /\ 1 \in Int BY <3>1
    <3>3. IsFiniteSet(1..c) /\ Cardinality(1..c) = IF 1 > c THEN 0 ELSE c - 1 + 1
      BY <3>2, FS_Interval, Zenon
    <3>4. (IF 1 > c THEN 0 ELSE c - 1 + 1) = c BY <3>1
    <3>5. IsFiniteSet(1..c) /\ Cardinality(1..c) = c BY <3>3, <3>4
    <3> QED BY <3>5 DEF c
  <2>3. IsFiniteSet({o}) /\ Cardinality({o}) = 1 BY FS_Singleton
  <2>4. IsFiniteSet({o} \X (1..known[n][o][id]))
        /\ Cardinality({o} \X (1..known[n][o][id]))
              = Cardinality({o}) * Cardinality(1..known[n][o][id])
    BY <2>2, <2>3, FS_Product
  <2> QED BY <2>1, <2>2, <2>3, <2>4
<1>3. IsFiniteSet(every)
  <2>1. IsFiniteSet(Hosts) BY RoadAssumption, RoadFinite, Zenon DEF Road!GoalsAssumption
  <2>2. f \in Surjection(Hosts, every) BY DEF Surjection
  <2> HIDE DEF f, every
  <2> QED BY <2>1, <2>2, FS_Surjection, Zenon
<1>4. \A s \in every : IsFiniteSet(s) BY <1>2
<1>5. IsFiniteSet(UNION every) BY <1>3, <1>4, FS_UNION, Zenon
<1>6. Road!Progress(n, id) = UNION every BY Zenon DEF Road!Progress
<1>10. Road!goal_attempts(n, id) = Cardinality(UNION every)
  BY <1>6, RoadCardinality, Zenon DEF Road!goal_attempts
<1>7. of(n) \subseteq UNION every OBVIOUS
<1>8. Cardinality(of(n)) <= Cardinality(UNION every) BY <1>5, <1>7, FS_Subset, Zenon
<1>9. Cardinality(UNION every) \in Nat BY <1>5, FS_CardinalityType, Zenon
<1> QED
  <2>1. Cardinality(of(n)) = known[n][n][id] BY <1>2
  <2> HIDE DEF of, every
  <2> QED BY <1>1, <1>8, <1>9, <1>10, <2>1

\* What a tick takes is one of the rows it looked for.
LEMMA FirstIsOne ==
    ASSUME GoalsTypeOK, NEW n \in Hosts, NEW rows \in SUBSET (DOMAIN goals[n]), rows # {}
    PROVE  \E k \in rows : Road!First(n, rows) = goals[n][k]
<1>1. rows \in SUBSET Nat BY DEF GoalsTypeOK
<1>2. \E k \in rows : \A j \in rows : k <= j BY <1>1, LeastExists
<1>3. (CHOOSE k \in rows : \A j \in rows : k <= j) \in rows BY <1>2, Zenon
<1> QED BY <1>3 DEF Road!First

LEMMA OwnIsOne ==
    ASSUME GoalsTypeOK, NEW n \in Hosts, Road!Own(n) # {}
    PROVE  /\ Road!First(n, Road!Own(n)).id \in Nat
           /\ HasOf(n, Road!First(n, Road!Own(n)).id, n)
<1>1. \A k \in Road!Own(n) : k \in DOMAIN goals[n] /\ goals[n][k].owner = n
  BY DEF Road!Own
<1>2. PICK k \in Road!Own(n) : Road!First(n, Road!Own(n)) = goals[n][k]
  BY <1>1, FirstIsOne
<1>3. goals[n][k] \in Goal BY <1>1 DEF GoalsTypeOK
<1> QED BY <1>1, <1>2, <1>3 DEF HasOf, Goal

LEMMA FreeIsOne ==
    ASSUME GoalsTypeOK, NEW n \in Hosts, Road!Free(n) # {}
    PROVE  /\ Road!First(n, Road!Free(n)).id \in Nat
           /\ \E k \in DOMAIN goals[n] : goals[n][k].id = Road!First(n, Road!Free(n)).id
<1>1. \A k \in Road!Free(n) : k \in DOMAIN goals[n]
  BY DEF Road!Free
<1>2. PICK k \in Road!Free(n) : Road!First(n, Road!Free(n)) = goals[n][k]
  BY <1>1, FirstIsOne
<1>3. goals[n][k] \in Goal BY <1>1 DEF GoalsTypeOK
<1> QED BY <1>1, <1>2, <1>3 DEF Goal

\* A counter is one up, if there is such a counter.
LEMMA CountedUp ==
    ASSUME NEW S, NEW f \in [S -> Nat], NEW x
    PROVE  [f EXCEPT ![x] = @ + 1] \in [S -> Nat]
<1>1. CASE x \in S BY <1>1
<1>2. CASE x \notin S
  <2>1. [f EXCEPT ![x] = f[x] + 1] = f BY <1>2
  <2> QED BY <2>1
<1> QED BY <1>1, <1>2

\* An advance gives the goal to the host, and changes nobody's goals else.
LEMMA AdvancedKeeps ==
    ASSUME GoalsTypeOK, OwnersHave, NEW n \in Hosts, NEW id \in Nat,
           \E k \in DOMAIN goals[n] : goals[n][k].id = id,
           NEW status \in Statuses, Road!Advanced(n, id, status, n)
    PROVE  /\ goals' \in [Hosts -> Seq(Goal)]
           /\ OwnersHave'
           /\ \A m, o \in Hosts, i \in Nat :
                 HasOf(m, i, o)' => HasOf(m, i, o) \/ (m = n /\ i = id /\ o = n)
           /\ \A i \in Nat : HasOf(n, i, n) => HasOf(n, i, n)'
           /\ \A m \in Hosts \ {n} : \A i \in Nat : HasOf(m, i, m) => HasOf(m, i, m)'
           /\ HasOf(n, id, n)'
<1> DEFINE new(k) == IF goals[n][k].id = id
                     THEN [goals[n][k] EXCEPT !.status = status, !.owner = n]
                     ELSE goals[n][k]
<1>1. goals[n] \in Seq(Goal) BY DEF GoalsTypeOK
<1>2. goals' = [goals EXCEPT ![n] = [k \in DOMAIN goals[n] |-> new(k)]]
  BY DEF Road!Advanced
<1>3. \A k \in DOMAIN goals[n] :
         /\ new(k) \in Goal /\ new(k).id = goals[n][k].id
         /\ new(k).owner = IF goals[n][k].id = id THEN n ELSE goals[n][k].owner
  <2> SUFFICES ASSUME NEW k \in DOMAIN goals[n]
               PROVE  /\ new(k) \in Goal /\ new(k).id = goals[n][k].id
                      /\ new(k).owner = IF goals[n][k].id = id THEN n ELSE goals[n][k].owner
    OBVIOUS
  <2> DEFINE g == goals[n][k]
  <2>1. g \in Goal BY <1>1
  <2>2. new(k) = IF g.id = id THEN [g EXCEPT !.status = status, !.owner = n] ELSE g
    OBVIOUS
  <2> HIDE DEF g, new
  <2>3. new(k) \in Goal /\ new(k).id = g.id
        /\ new(k).owner = IF g.id = id THEN n ELSE g.owner
    BY <2>1, <2>2 DEF Goal
  <2> QED BY <2>3 DEF g
<1> HIDE DEF new
<1>4. [k \in DOMAIN goals[n] |-> new(k)] \in Seq(Goal)
  <2>1. DOMAIN goals[n] = 1..Len(goals[n]) /\ Len(goals[n]) \in Nat BY <1>1
  <2>2. [k \in DOMAIN goals[n] |-> new(k)] \in [1..Len(goals[n]) -> Goal] BY <1>3, <2>1
  <2> QED BY <2>1, <2>2
<1>5. goals' \in [Hosts -> Seq(Goal)] BY <1>2, <1>4 DEF GoalsTypeOK
<1>6. /\ goals'[n] = [k \in DOMAIN goals[n] |-> new(k)]
      /\ DOMAIN goals'[n] = DOMAIN goals[n]
      /\ \A m \in Hosts \ {n} : goals'[m] = goals[m]
  BY <1>2 DEF GoalsTypeOK
<1>7. \A k \in DOMAIN goals[n] :
         /\ goals'[n][k].id = goals[n][k].id
         /\ goals'[n][k].owner = IF goals[n][k].id = id THEN n ELSE goals[n][k].owner
  BY <1>3, <1>6
<1>8. \A m \in Hosts, i \in Nat :
         (\E k \in DOMAIN goals'[m] : goals'[m][k].id = i)
            <=> \E k \in DOMAIN goals[m] : goals[m][k].id = i
  BY <1>6, <1>7
<1>9. \A m, o \in Hosts, i \in Nat :
         HasOf(m, i, o)' => HasOf(m, i, o) \/ (m = n /\ i = id /\ o = n)
  <2> SUFFICES ASSUME NEW m \in Hosts, NEW o \in Hosts, NEW i \in Nat, HasOf(m, i, o)'
               PROVE  HasOf(m, i, o) \/ (m = n /\ i = id /\ o = n)
    OBVIOUS
  <2>1. PICK k \in DOMAIN goals'[m] : goals'[m][k].id = i /\ goals'[m][k].owner = o
    BY DEF HasOf
  <2>2. CASE m = n
    <3>1. k \in DOMAIN goals[n] BY <1>6, <2>1, <2>2
    <3>2. /\ goals[n][k].id = i
          /\ o = IF goals[n][k].id = id THEN n ELSE goals[n][k].owner
      BY <1>7, <2>1, <2>2, <3>1
    <3>3. CASE i = id BY <2>2, <3>2, <3>3
    <3>4. CASE i # id
      <4>1. goals[m][k].id = i /\ goals[m][k].owner = o BY <2>2, <3>2, <3>4
      <4> QED BY <2>2, <3>1, <4>1 DEF HasOf
    <3> QED BY <3>3, <3>4
  <2>3. CASE m # n
    <3>1. goals'[m] = goals[m] BY <1>6, <2>3
    <3>2. k \in DOMAIN goals[m] /\ goals[m][k].id = i /\ goals[m][k].owner = o
      BY <2>1, <3>1
    <3> QED BY <3>2 DEF HasOf
  <2> QED BY <2>2, <2>3
<1>10. OwnersHave'
  <2> SUFFICES ASSUME NEW m \in Hosts, NEW o \in Hosts, NEW i \in Nat, HasOf(m, i, o)'
               PROVE  \E k \in DOMAIN goals'[o] : goals'[o][k].id = i
    BY Zenon DEF OwnersHave
  <2>1. \E k \in DOMAIN goals[o] : goals[o][k].id = i
    <3>1. CASE HasOf(m, i, o) BY <3>1, Zenon DEF OwnersHave
    <3>2. CASE m = n /\ i = id /\ o = n BY <3>2
    <3> QED BY <1>9, <3>1, <3>2
  <2> QED BY <1>8, <2>1
<1>11. HasOf(n, id, n)' BY <1>6, <1>7 DEF HasOf
<1>12. \A i \in Nat : HasOf(n, i, n) => HasOf(n, i, n)' BY <1>6, <1>7 DEF HasOf
<1>13. \A m \in Hosts \ {n} : \A i \in Nat : HasOf(m, i, m) => HasOf(m, i, m)'
  BY <1>6 DEF HasOf
<1> QED BY <1>5, <1>9, <1>10, <1>11, <1>12, <1>13

\* A tick writes a goal's row, and has it for the next thing to do.
LEMMA TakenKeeps ==
    ASSUME GoalsInv, NEW n \in Hosts, NEW id \in Nat,
           \E k \in DOMAIN goals[n] : goals[n][k].id = id,
           NEW status \in Statuses, Road!Advanced(n, id, status, n),
           NEW step \in {"run", "park", "note"}, Road!Then(n, step, id),
           pursuing[n] # Road!Idle => pursuing[n].id = id,
           known' = known, faults' = faults,
           NEW ran \in {0, 1},
           tries' \in [Hosts -> [Road!Ids -> Nat]],
           \A m \in Hosts, i \in Road!Ids :
              tries'[m][i] = tries[m][i] + (IF m = n /\ i = id THEN ran ELSE 0),
           ran = 1 => pursuing[n] = Road!Idle /\ HasOf(n, id, n)
    PROVE  (GoalsTypeOK /\ OwnersHave /\ DoingOwned /\ EveryRunIsKnown)'
<1> USE DEF GoalsInv
<1>1. /\ goals' \in [Hosts -> Seq(Goal)]
      /\ OwnersHave'
      /\ \A m, o \in Hosts, i \in Nat :
            HasOf(m, i, o)' => HasOf(m, i, o) \/ (m = n /\ i = id /\ o = n)
      /\ \A i \in Nat : HasOf(n, i, n) => HasOf(n, i, n)'
      /\ \A m \in Hosts \ {n} : \A i \in Nat : HasOf(m, i, m) => HasOf(m, i, m)'
      /\ HasOf(n, id, n)'
  BY AdvancedKeeps
<1>2. /\ pursuing' \in [Hosts -> Doing]
      /\ pursuing'[n] = [step |-> step, id |-> id]
      /\ \A m \in Hosts \ {n} : pursuing'[m] = pursuing[m]
  BY DEF Road!Then, GoalsTypeOK, Doing
<1>3. GoalsTypeOK' BY <1>1, <1>2 DEF GoalsTypeOK
<1>4. pursuing'[n] # Road!Idle /\ pursuing'[n].id = id BY <1>2 DEF Road!Idle
<1>5. DoingOwned'
  <2> SUFFICES ASSUME NEW m \in Hosts, pursuing'[m] # Road!Idle
               PROVE  HasOf(m, pursuing[m].id, m)'
    BY Zenon DEF DoingOwned, Road!Idle
  <2>1. CASE m = n
    <3>1. HasOf(n, id, n)' => \E k \in DOMAIN goals'[n] :
            goals'[n][k].id = id /\ goals'[n][k].owner = n
      BY Zenon DEF HasOf
    <3> QED BY <1>1, <1>4, <2>1, <3>1 DEF HasOf
  <2>2. CASE m # n
    <3>1. pursuing'[m] = pursuing[m] /\ pursuing[m].id \in Nat
      BY <1>2, <2>2 DEF GoalsTypeOK, Doing
    <3>2. HasOf(m, pursuing[m].id, m) BY <3>1, Zenon DEF DoingOwned
    <3>3. HasOf(m, pursuing[m].id, m)' <=> \E k \in DOMAIN goals'[m] :
            goals'[m][k].id = pursuing'[m].id /\ goals'[m][k].owner = m
      BY Zenon DEF HasOf
    <3>4. goals'[m] = goals[m] BY <2>2 DEF Road!Advanced, GoalsTypeOK
    <3> QED BY <3>1, <3>2, <3>3, <3>4, Zenon DEF HasOf
  <2> QED BY <2>1, <2>2
<1>6. EveryRunIsKnown'
  <2> SUFFICES ASSUME NEW m \in Hosts, NEW i \in Road!Ids
               PROVE  (tries[m][i] + (IF HasOf(m, i, m) THEN 1 ELSE 0)
                          <= known[m][m][i] + faults + Pending(m, i))'
    BY Zenon DEF EveryRunIsKnown, Road!Ids
  <2>1. /\ tries[m][i] + (IF HasOf(m, i, m) THEN 1 ELSE 0)
              <= known[m][m][i] + faults + Pending(m, i)
        /\ tries[m][i] \in Nat /\ known[m][m][i] \in Nat /\ faults \in Nat
        /\ Pending(m, i) \in {0, 1} /\ i \in Nat
    <3>1. tries[m][i] + (IF HasOf(m, i, m) THEN 1 ELSE 0)
              <= known[m][m][i] + faults + Pending(m, i)
      BY Zenon DEF EveryRunIsKnown
    <3>2. tries[m][i] \in Nat /\ known[m][m][i] \in Nat /\ faults \in Nat
      BY DEF GoalsTypeOK
    <3>3. Pending(m, i) \in {0, 1} BY DEF Pending
    <3>4. i \in Nat BY RoadAssumption DEF Road!Ids, Road!GoalsAssumption
    <3> QED BY <3>1, <3>2, <3>3, <3>4
  <2>2. tries'[m][i] = tries[m][i] + (IF m = n /\ i = id THEN ran ELSE 0) OBVIOUS
  <2>3. CASE m = n /\ i = id
    <3>1. Pending(m, i)' = 1 BY <1>4, <2>3 DEF Pending
    <3>2. CASE pursuing[n] = Road!Idle
      <4>1. Pending(m, i) = 0 BY <2>3, <3>2 DEF Pending
      <4>2. CASE ran = 1 BY <2>1, <2>2, <2>3, <3>1, <4>1, <4>2
      <4>3. CASE ran = 0 BY <2>1, <2>2, <2>3, <3>1, <4>1, <4>3
      <4> QED BY <4>2, <4>3
    <3>3. CASE pursuing[n] # Road!Idle
      <4>1. ran = 0 BY <3>3
      <4>2. HasOf(m, i, m) BY <2>3, <3>3, Zenon DEF DoingOwned
      <4> QED BY <2>1, <2>2, <2>3, <3>1, <4>1, <4>2
    <3> QED BY <3>2, <3>3
  <2>4. CASE ~(m = n /\ i = id)
    <3>1. HasOf(m, i, m)' => HasOf(m, i, m) BY <1>1, <2>1, <2>4
    <3>2. Pending(m, i)' = Pending(m, i)
      <4>1. CASE m = n
        <5>1. Pending(m, i) = 0 BY <2>4, <4>1 DEF Pending
        <5>2. Pending(m, i)' = 0 BY <1>4, <2>4, <4>1 DEF Pending
        <5> QED BY <5>1, <5>2
      <4>2. CASE m # n
        <5>1. pursuing'[m] = pursuing[m] BY <1>2, <4>2
        <5> QED BY <5>1 DEF Pending, Road!Idle
      <4> QED BY <4>1, <4>2
    <3>3. tries'[m][i] = tries[m][i] BY <2>1, <2>2, <2>4
    <3> QED BY <2>1, <3>1, <3>2, <3>3
  <2> QED BY <2>3, <2>4
<1> QED BY <1>1, <1>3, <1>5, <1>6

LEMMA BoundKept ==
    ASSUME GoalsInv, tries' = tries, faults' \in Nat, faults <= faults'
    PROVE  RunsAreBounded'
<1> SUFFICES ASSUME NEW n \in Hosts, NEW id \in Road!Ids
             PROVE  (tries[n][id] < MaxAttempts + faults)'
  BY Zenon DEF RunsAreBounded, Road!RunsAreBounded, Road!Ids
<1>1. tries[n][id] < MaxAttempts + faults BY DEF GoalsInv, RunsAreBounded, Road!RunsAreBounded
<1>2. tries[n][id] \in Nat /\ MaxAttempts \in Nat /\ faults \in Nat
  BY RoadAssumption DEF GoalsInv, GoalsTypeOK, Road!GoalsAssumption
<1> QED BY <1>1, <1>2

LEMMA TriedNone ==
    ASSUME GoalsInv, tries' = tries, NEW n, NEW id
    PROVE  /\ tries' \in [Hosts -> [Road!Ids -> Nat]]
           /\ \A m \in Hosts, i \in Road!Ids :
                tries'[m][i] = tries[m][i] + (IF m = n /\ i = id THEN 0 ELSE 0)
BY DEF GoalsInv, GoalsTypeOK

LEMMA GiveUpKeeps ==
    ASSUME GoalsInv, NEW n \in Hosts, Road!GiveUp(n)  PROVE GoalsInv'
<1> DEFINE id == Road!First(n, Road!Own(n)).id
<1>1. id \in Nat /\ HasOf(n, id, n) BY OwnIsOne, Zenon DEF GoalsInv, Road!GiveUp
<1> HIDE DEF id
<1>2. /\ pursuing[n] = Road!Idle
      /\ Road!Advanced(n, id, "failed", n) /\ Road!Then(n, "note", id)
      /\ known' = known /\ tries' = tries /\ faults' = faults
  BY Zenon DEF Road!GiveUp, Road!Ticks, id
<1>3. \E k \in DOMAIN goals[n] : goals[n][k].id = id BY <1>1, Zenon DEF HasOf
<1>4. (GoalsTypeOK /\ OwnersHave /\ DoingOwned /\ EveryRunIsKnown)'
  BY <1>1, <1>2, <1>3, TriedNone, TakenKeeps DEF Statuses
<1>5. faults \in Nat BY DEF GoalsInv, GoalsTypeOK
<1>6. RunsAreBounded' BY <1>2, <1>5, BoundKept
<1> QED BY <1>4, <1>6 DEF GoalsInv

LEMMA RunKeeps ==
    ASSUME GoalsInv, NEW n \in Hosts, Road!Run(n)  PROVE GoalsInv'
<1> DEFINE id == Road!First(n, Road!Own(n)).id
<1>1. id \in Nat /\ HasOf(n, id, n) BY OwnIsOne, Zenon DEF GoalsInv, Road!Run
<1> HIDE DEF id
<1>2. /\ pursuing[n] = Road!Idle /\ Road!goal_attempts(n, id) < MaxAttempts
      /\ Road!Advanced(n, id, "in_progress", n) /\ Road!Then(n, "run", id)
      /\ tries' = [tries EXCEPT ![n][id] = @ + 1]
      /\ known' = known /\ faults' = faults
  BY Zenon DEF Road!Run, Road!Ticks, id
<1>3. \E k \in DOMAIN goals[n] : goals[n][k].id = id BY <1>1, Zenon DEF HasOf
<1>4. /\ tries' \in [Hosts -> [Road!Ids -> Nat]]
      /\ \A m \in Hosts, i \in Road!Ids :
            tries'[m][i] = tries[m][i] + (IF m = n /\ i = id THEN 1 ELSE 0)
  <2>1. tries \in [Hosts -> [Road!Ids -> Nat]] BY DEF GoalsInv, GoalsTypeOK
  <2>2. [tries[n] EXCEPT ![id] = @ + 1] \in [Road!Ids -> Nat] BY <2>1, CountedUp
  <2>3. tries' = [tries EXCEPT ![n] = [tries[n] EXCEPT ![id] = @ + 1]] BY <1>2, <2>1
  <2> QED BY <2>1, <2>2, <2>3
<1>5. (GoalsTypeOK /\ OwnersHave /\ DoingOwned /\ EveryRunIsKnown)'
  BY <1>1, <1>2, <1>3, <1>4, TakenKeeps DEF Statuses
<1>6. ASSUME NEW m \in Hosts, NEW i \in Road!Ids
      PROVE  tries'[m][i] < MaxAttempts + faults'
  <2>1. tries[m][i] < MaxAttempts + faults
    BY DEF GoalsInv, RunsAreBounded, Road!RunsAreBounded
  <2>2. tries[m][i] \in Nat /\ MaxAttempts \in Nat /\ faults \in Nat
    BY RoadAssumption DEF GoalsInv, GoalsTypeOK, Road!GoalsAssumption
  <2>3. CASE m = n /\ i = id
    <3>1. /\ known[n][n][i] \in Nat /\ Road!goal_attempts(n, i) \in Nat
          /\ known[n][n][i] <= Road!goal_attempts(n, i)
      BY AttemptsCountOwn DEF GoalsInv
    <3>2. tries[n][i] + 1 <= known[n][n][i] + faults
      <4>1. Pending(n, i) = 0 BY <1>2 DEF Pending
      <4>2. tries[n][i] + (IF HasOf(n, i, n) THEN 1 ELSE 0)
               <= known[n][n][i] + faults + Pending(n, i)
        BY DEF GoalsInv, EveryRunIsKnown
      <4> QED BY <1>1, <2>2, <2>3, <3>1, <4>1, <4>2
    <3>3. tries'[m][i] = tries[n][i] + 1 BY <1>4, <2>3
    <3> QED BY <1>2, <2>2, <2>3, <3>1, <3>2, <3>3
  <2>4. CASE ~(m = n /\ i = id) BY <1>2, <1>4, <2>1, <2>2, <2>4
  <2> QED BY <2>3, <2>4
<1>7. RunsAreBounded' BY <1>6, Zenon DEF RunsAreBounded, Road!RunsAreBounded, Road!Ids
<1> QED BY <1>5, <1>7 DEF GoalsInv

LEMMA ClaimKeeps ==
    ASSUME GoalsInv, NEW n \in Hosts, Road!Claim(n)  PROVE GoalsInv'
<1> DEFINE g == Road!First(n, Road!Free(n))
<1> DEFINE step == IF g.gated THEN "park" ELSE "note"
<1>1. g.id \in Nat /\ \E k \in DOMAIN goals[n] : goals[n][k].id = g.id
  BY FreeIsOne, Zenon DEF GoalsInv, Road!Claim
<1>2. step \in {"run", "park", "note"} OBVIOUS
<1>3. /\ pursuing[n] = Road!Idle
      /\ Road!Advanced(n, g.id, "claimed", n) /\ Road!Then(n, step, g.id)
      /\ known' = known /\ tries' = tries /\ faults' = faults
  BY Zenon DEF Road!Claim, Road!Ticks
<1> HIDE DEF g, step
<1>4. (GoalsTypeOK /\ OwnersHave /\ DoingOwned /\ EveryRunIsKnown)'
  <2> DEFINE id == g.id
  <2>1. id \in Nat /\ (\E k \in DOMAIN goals[n] : goals[n][k].id = id)
        /\ Road!Advanced(n, id, "claimed", n) /\ Road!Then(n, step, id)
    BY <1>1, <1>3
  <2> HIDE DEF id
  <2> QED BY <2>1, <1>2, <1>3, TriedNone, TakenKeeps DEF Statuses
<1>5. faults \in Nat BY DEF GoalsInv, GoalsTypeOK
<1>6. RunsAreBounded' BY <1>3, <1>5, BoundKept
<1> QED BY <1>4, <1>6 DEF GoalsInv

\* The agent answers, or a gated goal is parked: of the goal at hand.
LEMMA WrittenKeeps ==
    ASSUME GoalsInv, NEW n \in Hosts, pursuing[n] # Road!Idle, NEW status \in Statuses,
           Road!Advanced(n, pursuing[n].id, status, n),
           Road!Then(n, "note", pursuing[n].id),
           known' = known, tries' = tries, faults' = faults
    PROVE  GoalsInv'
<1> DEFINE id == pursuing[n].id
<1>1. id \in Nat /\ \E k \in DOMAIN goals[n] : goals[n][k].id = id
  <2>1. pursuing[n] \in Doing BY DEF GoalsInv, GoalsTypeOK
  <2>2. HasOf(n, id, n) BY Zenon DEF GoalsInv, DoingOwned
  <2> QED BY <2>1, <2>2 DEF Doing, HasOf
<1>2. pursuing[n].id = id /\ Road!Advanced(n, id, status, n) /\ Road!Then(n, "note", id)
  OBVIOUS
<1> HIDE DEF id
<1>3. (GoalsTypeOK /\ OwnersHave /\ DoingOwned /\ EveryRunIsKnown)'
  BY <1>1, <1>2, TriedNone, TakenKeeps
<1>4. faults \in Nat BY DEF GoalsInv, GoalsTypeOK
<1>5. RunsAreBounded' BY <1>4, BoundKept
<1> QED BY <1>3, <1>5 DEF GoalsInv

\* What was pending has its record, or a stop has cost it that.
LEMMA EndedKeeps ==
    ASSUME GoalsInv, NEW n \in Hosts, pursuing[n] # Road!Idle,
           pursuing' = [pursuing EXCEPT ![n] = Road!Idle],
           goals' = goals, tries' = tries,
           \/ Road!Recorded(n, pursuing[n].id) /\ faults' = faults
           \/ known' = known /\ faults' = faults + 1
    PROVE  GoalsInv'
<1> USE DEF GoalsInv
<1>1. known \in [Hosts -> [Hosts -> [Road!Ids -> Nat]]] /\ faults \in Nat
      /\ pursuing \in [Hosts -> Doing] /\ tries \in [Hosts -> [Road!Ids -> Nat]]
  BY DEF GoalsTypeOK
<1>2. /\ known' \in [Hosts -> [Hosts -> [Road!Ids -> Nat]]] /\ faults' \in Nat
      /\ faults <= faults'
      /\ \A m \in Hosts, i \in Road!Ids :
            known'[m][m][i] + faults' >= known[m][m][i] + faults
               + (IF m = n /\ i = pursuing[n].id THEN 1 ELSE 0)
  <2>1. CASE Road!Recorded(n, pursuing[n].id) /\ faults' = faults
    <3>1. known' = [known EXCEPT ![n][n][pursuing[n].id] = @ + 1]
      BY <2>1 DEF Road!Recorded
    <3>2. known' \in [Hosts -> [Hosts -> [Road!Ids -> Nat]]]
      <4> DEFINE row == [known[n][n] EXCEPT ![pursuing[n].id] = @ + 1]
      <4>1. row \in [Road!Ids -> Nat] BY <1>1, CountedUp
      <4>2. known' = [known EXCEPT ![n] = [known[n] EXCEPT ![n] = row]] BY <1>1, <3>1
      <4> HIDE DEF row
      <4>3. [known[n] EXCEPT ![n] = row] \in [Hosts -> [Road!Ids -> Nat]] BY <1>1, <4>1
      <4> QED BY <1>1, <4>2, <4>3
    <3>3. ASSUME NEW m \in Hosts, NEW i \in Road!Ids
          PROVE known'[m][m][i] = known[m][m][i]
                   + (IF m = n /\ i = pursuing[n].id THEN 1 ELSE 0)
      BY <1>1, <3>1
    <3>4. \A m \in Hosts, i \in Road!Ids : known[m][m][i] \in Nat BY <1>1
    <3> QED BY <1>1, <2>1, <3>2, <3>3, <3>4
  <2>2. CASE known' = known /\ faults' = faults + 1
    <3>1. \A m \in Hosts, i \in Road!Ids : known[m][m][i] \in Nat BY <1>1
    <3> QED BY <1>1, <2>2, <3>1
  <2> QED BY <2>1, <2>2
<1>3. pursuing' \in [Hosts -> Doing] /\ pursuing'[n] = Road!Idle
      /\ \A m \in Hosts \ {n} : pursuing'[m] = pursuing[m]
  BY <1>1 DEF Doing, Road!Idle
<1>4. GoalsTypeOK' BY <1>1, <1>2, <1>3 DEF GoalsTypeOK
<1>5. OwnersHave'
  <2>1. \A m, o \in Hosts, i \in Nat : HasOf(m, i, o)' <=> HasOf(m, i, o)
    BY Zenon DEF HasOf
  <2> QED BY <2>1, Zenon DEF OwnersHave
<1>6. DoingOwned'
  <2> SUFFICES ASSUME NEW m \in Hosts, pursuing'[m] # Road!Idle
               PROVE  HasOf(m, pursuing[m].id, m)'
    BY Zenon DEF DoingOwned, Road!Idle
  <2>1. m # n /\ pursuing'[m] = pursuing[m] BY <1>3
  <2>2. HasOf(m, pursuing[m].id, m) BY <2>1, Zenon DEF DoingOwned
  <2> QED BY <2>1, <2>2, Zenon DEF HasOf
<1>7. EveryRunIsKnown'
  <2> SUFFICES ASSUME NEW m \in Hosts, NEW i \in Road!Ids
               PROVE  (tries[m][i] + (IF HasOf(m, i, m) THEN 1 ELSE 0)
                          <= known[m][m][i] + faults + Pending(m, i))'
    BY Zenon DEF EveryRunIsKnown, Road!Ids
  <2>1. /\ tries[m][i] + (IF HasOf(m, i, m) THEN 1 ELSE 0)
              <= known[m][m][i] + faults + Pending(m, i)
        /\ tries[m][i] \in Nat /\ known[m][m][i] \in Nat /\ faults \in Nat
        /\ known'[m][m][i] \in Nat /\ faults' \in Nat
        /\ Pending(m, i) \in {0, 1} /\ Pending(m, i)' \in {0, 1}
    BY <1>1, <1>2 DEF EveryRunIsKnown, Pending
  <2>2. HasOf(m, i, m)' <=> HasOf(m, i, m) BY Zenon DEF HasOf
  <2>3. Pending(m, i) <= Pending(m, i)' + (IF m = n /\ i = pursuing[n].id THEN 1 ELSE 0)
    <3>1. CASE m = n
      <4>1. i # pursuing[n].id => Pending(m, i) = 0 BY <3>1 DEF Pending
      <4> QED BY <2>1, <3>1, <4>1
    <3>2. CASE m # n
      <4>1. pursuing'[m] = pursuing[m] BY <1>3, <3>2
      <4>2. Pending(m, i)' = Pending(m, i) BY <4>1 DEF Pending, Road!Idle
      <4> QED BY <2>1, <4>2, <3>2
    <3> QED BY <3>1, <3>2
  <2>4. known'[m][m][i] + faults' >= known[m][m][i] + faults
               + (IF m = n /\ i = pursuing[n].id THEN 1 ELSE 0)
    BY <1>2
  <2> QED BY <2>1, <2>2, <2>3, <2>4
<1>8. RunsAreBounded' BY <1>2, BoundKept
<1> QED BY <1>4, <1>5, <1>6, <1>7, <1>8

\* Rows that come to a host that has their goals' ids not, or are nobody's.
LEMMA AddedKeeps ==
    ASSUME GoalsInv, NEW n \in Hosts, NEW rows \in Seq(Goal),
           goals' = [goals EXCEPT ![n] = @ \o rows],
           \A k \in DOMAIN rows : rows[k].owner # n,
           \A k \in DOMAIN rows : rows[k].owner \in Hosts =>
              \E m \in Hosts : HasOf(m, rows[k].id, rows[k].owner),
           pursuing' = pursuing, tries' = tries, faults' = faults,
           known' \in [Hosts -> [Hosts -> [Road!Ids -> Nat]]],
           \A m \in Hosts, i \in Road!Ids : known'[m][m][i] = known[m][m][i]
    PROVE  GoalsInv'
<1> USE DEF GoalsInv
<1>1. goals \in [Hosts -> Seq(Goal)] BY DEF GoalsTypeOK
<1>2. /\ goals' \in [Hosts -> Seq(Goal)]
      /\ goals'[n] = goals[n] \o rows
      /\ \A m \in Hosts \ {n} : goals'[m] = goals[m]
  BY <1>1
<1>3. GoalsTypeOK' BY <1>2 DEF GoalsTypeOK
<1>4. /\ \A k \in DOMAIN goals[n] : k \in DOMAIN goals'[n] /\ goals'[n][k] = goals[n][k]
      /\ \A k \in DOMAIN goals'[n] :
            \/ k \in DOMAIN goals[n] /\ goals'[n][k] = goals[n][k]
            \/ \E j \in DOMAIN rows : goals'[n][k] = rows[j]
  <2> DEFINE s == goals[n]
  <2>1. s \in Seq(Goal) /\ goals'[n] = s \o rows BY <1>1, <1>2
  <2> HIDE DEF s
  <2>2. \A k \in DOMAIN s : k \in DOMAIN (s \o rows) /\ (s \o rows)[k] = s[k] BY <2>1
  <2>3. ASSUME NEW k \in DOMAIN (s \o rows), k \notin DOMAIN s
        PROVE  \E j \in DOMAIN rows : (s \o rows)[k] = rows[j]
    <3>1. k - Len(s) \in DOMAIN rows /\ (s \o rows)[k] = rows[k - Len(s)] BY <2>1, <2>3
    <3> QED BY <3>1
  <2> QED BY <2>1, <2>2, <2>3 DEF s
<1>5. \A m \in Hosts, i \in Nat :
         (\E k \in DOMAIN goals[m] : goals[m][k].id = i)
            => \E k \in DOMAIN goals'[m] : goals'[m][k].id = i
  BY <1>2, <1>4
<1>6. \A m, o \in Hosts, i \in Nat : HasOf(m, i, o) => HasOf(m, i, o)'
  BY <1>2, <1>4 DEF HasOf
<1>7. ASSUME NEW m \in Hosts, NEW o \in Hosts, NEW i \in Nat, HasOf(m, i, o)'
      PROVE  /\ \E h \in Hosts : HasOf(h, i, o)
             /\ m = o => HasOf(m, i, o)
  <2>1. PICK k \in DOMAIN goals'[m] : goals'[m][k].id = i /\ goals'[m][k].owner = o
    BY <1>7 DEF HasOf
  <2>2. CASE m = n
    <3>1. CASE k \in DOMAIN goals[n] /\ goals'[n][k] = goals[n][k]
      <4>1. HasOf(m, i, o) BY <2>1, <2>2, <3>1 DEF HasOf
      <4> QED BY <4>1
    <3>2. CASE \E j \in DOMAIN rows : goals'[n][k] = rows[j]
      <4>1. PICK j \in DOMAIN rows : goals'[n][k] = rows[j] BY <3>2
      <4>2. rows[j].id = i /\ rows[j].owner = o /\ o # n BY <2>1, <2>2, <4>1
      <4> QED BY <2>2, <4>2
    <3> QED BY <1>4, <2>1, <2>2, <3>1, <3>2
  <2>3. CASE m # n
    <3>1. HasOf(m, i, o) BY <1>2, <2>1, <2>3 DEF HasOf
    <3> QED BY <3>1
  <2> QED BY <2>2, <2>3
<1>8. OwnersHave'
  <2> SUFFICES ASSUME NEW m \in Hosts, NEW o \in Hosts, NEW i \in Nat, HasOf(m, i, o)'
               PROVE  \E k \in DOMAIN goals'[o] : goals'[o][k].id = i
    BY Zenon DEF OwnersHave
  <2>1. PICK h \in Hosts : HasOf(h, i, o) BY <1>7
  <2>2. \E k \in DOMAIN goals[o] : goals[o][k].id = i BY <2>1 DEF OwnersHave
  <2> QED BY <1>5, <2>2
<1>9. DoingOwned'
  <2> SUFFICES ASSUME NEW m \in Hosts, pursuing'[m] # Road!Idle
               PROVE  HasOf(m, pursuing[m].id, m)'
    BY Zenon DEF DoingOwned, Road!Idle
  <2>1. pursuing[m] \in Doing /\ pursuing'[m] = pursuing[m] BY DEF GoalsTypeOK
  <2>2. HasOf(m, pursuing[m].id, m) BY <2>1, Zenon DEF DoingOwned
  <2>3. HasOf(m, pursuing[m].id, m) =>
          \E k \in DOMAIN goals[m] : goals[m][k].id = pursuing[m].id /\ goals[m][k].owner = m
    BY Zenon DEF HasOf
  <2>4. \E k \in DOMAIN goals'[m] : goals'[m][k].id = pursuing[m].id /\ goals'[m][k].owner = m
    BY <1>2, <1>4, <2>2, <2>3
  <2> QED BY <2>1, <2>4, Zenon DEF HasOf
<1>10. EveryRunIsKnown'
  <2> SUFFICES ASSUME NEW m \in Hosts, NEW i \in Road!Ids
               PROVE  (tries[m][i] + (IF HasOf(m, i, m) THEN 1 ELSE 0)
                          <= known[m][m][i] + faults + Pending(m, i))'
    BY Zenon DEF EveryRunIsKnown, Road!Ids
  <2>1. /\ tries[m][i] + (IF HasOf(m, i, m) THEN 1 ELSE 0)
              <= known[m][m][i] + faults + Pending(m, i)
        /\ tries[m][i] \in Nat /\ known[m][m][i] \in Nat /\ faults \in Nat
        /\ Pending(m, i) \in {0, 1} /\ i \in Nat
    <3>1. tries[m][i] + (IF HasOf(m, i, m) THEN 1 ELSE 0)
              <= known[m][m][i] + faults + Pending(m, i)
      BY Zenon DEF EveryRunIsKnown
    <3>2. tries[m][i] \in Nat /\ known[m][m][i] \in Nat /\ faults \in Nat
      BY DEF GoalsTypeOK
    <3>3. Pending(m, i) \in {0, 1} BY DEF Pending
    <3>4. i \in Nat BY RoadAssumption DEF Road!Ids, Road!GoalsAssumption
    <3> QED BY <3>1, <3>2, <3>3, <3>4
  <2>2. HasOf(m, i, m)' => HasOf(m, i, m) BY <1>7, <2>1
  <2>3. Pending(m, i)' = Pending(m, i) BY Zenon DEF Pending, Road!Idle
  <2>4. known'[m][m][i] = known[m][m][i] OBVIOUS
  <2> QED BY <2>1, <2>2, <2>3, <2>4
<1>11. faults \in Nat BY DEF GoalsTypeOK
<1>12. RunsAreBounded' BY <1>11, BoundKept
<1> QED BY <1>3, <1>8, <1>9, <1>10, <1>12

LEMMA SeedKeeps ==
    ASSUME GoalsInv, NEW n \in Hosts, NEW gated \in BOOLEAN, Road!Seed(n, gated)
    PROVE  GoalsInv'
<1> DEFINE g == [id |-> Len(goals[n]) + 1, gated |-> gated,
                 status |-> "proposed", owner |-> Unowned]
<1> DEFINE rows == <<g>>
<1>1. goals \in [Hosts -> Seq(Goal)]
      /\ known \in [Hosts -> [Hosts -> [Road!Ids -> Nat]]]
  BY DEF GoalsInv, GoalsTypeOK
<1>2. Len(goals[n]) \in Nat BY <1>1
<1>3. g \in Goal BY <1>2 DEF Goal, Statuses
<1>4. /\ goals' = [goals EXCEPT ![n] = Append(goals[n], g)]
      /\ known' = known /\ pursuing' = pursuing /\ tries' = tries /\ faults' = faults
  BY DEF Road!Seed
<1>5. g.owner = Unowned /\ Unowned \notin Hosts
  BY RoadAssumption DEF Road!GoalsAssumption
<1> HIDE DEF g
<1>6. rows \in Seq(Goal) /\ DOMAIN rows = {1} /\ rows[1] = g BY <1>3
<1>7. Append(goals[n], g) = goals[n] \o rows
  <2> DEFINE s == goals[n]
  <2>1. s \in Seq(Goal) BY <1>1
  <2> HIDE DEF s
  <2>2. Append(s, g) = s \o <<g>> BY <1>3, <2>1, SMTT(20)
  <2> QED BY <2>2 DEF s
<1>8. goals' = [goals EXCEPT ![n] = @ \o rows] BY <1>4, <1>7
<1> HIDE DEF rows
<1>9. \A k \in DOMAIN rows : rows[k].owner # n /\ rows[k].owner \notin Hosts
  BY <1>5, <1>6
<1> QED BY <1>1, <1>4, <1>6, <1>8, <1>9, AddedKeeps

LEMMA MergeKeeps ==
    ASSUME GoalsInv, NEW n \in Hosts, NEW from \in Hosts, Road!MergeBrief(n, from)
    PROVE  GoalsInv'
<1> DEFINE miss == Road!Missing(n, from)
<1>1. PICK queue \in Road!NewestFirst(miss) :
         goals' = [goals EXCEPT ![n] = @ \o [i \in DOMAIN queue |-> goals[from][queue[i]]]]
  BY DEF Road!MergeBrief
<1> DEFINE rows == [i \in DOMAIN queue |-> goals[from][queue[i]]]
<1>2. goals \in [Hosts -> Seq(Goal)]
      /\ known \in [Hosts -> [Hosts -> [Road!Ids -> Nat]]]
  BY DEF GoalsInv, GoalsTypeOK
<1>3. miss \subseteq DOMAIN goals[from] BY DEF Road!Missing
<1>4. \A k \in miss : \A j \in DOMAIN goals[n] : goals[n][j].id # goals[from][k].id
  BY DEF Road!Missing
<1> HIDE DEF miss
<1> DEFINE c == Road!Cardinality(miss)
<1>5. queue \in [1..c -> miss] BY DEF Road!NewestFirst
<1>6. c \in Nat
  <2>1. IsFiniteSet(DOMAIN goals[from])
    <3>1. DOMAIN goals[from] = 1..Len(goals[from]) /\ Len(goals[from]) \in Nat BY <1>2
    <3>2. IsFiniteSet(1..Len(goals[from])) BY <3>1, FS_Interval
    <3> QED BY <3>1, <3>2
  <2>2. IsFiniteSet(miss) BY <1>3, <2>1, FS_Subset, Zenon
  <2> QED BY <2>2, FS_CardinalityType, RoadCardinality, Zenon
<1> HIDE DEF c
<1>7. DOMAIN rows = 1..c /\ \A k \in 1..c : queue[k] \in miss /\ rows[k] = goals[from][queue[k]]
  BY <1>5
<1>8. rows \in Seq(Goal)
  <2>1. \A k \in 1..c : rows[k] \in Goal BY <1>2, <1>3, <1>7
  <2>2. rows \in [1..c -> Goal] BY <1>7, <2>1
  <2> QED BY <1>6, <2>2
<1>9. ASSUME NEW k \in DOMAIN rows
      PROVE  /\ rows[k].owner # n
             /\ rows[k].owner \in Hosts => HasOf(from, rows[k].id, rows[k].owner)
  <2>1. queue[k] \in miss /\ rows[k] = goals[from][queue[k]] BY <1>7
  <2>2. queue[k] \in DOMAIN goals[from] BY <1>3, <2>1
  <2>3. HasOf(from, rows[k].id, rows[k].owner) BY <2>1, <2>2 DEF HasOf
  <2>4. rows[k] \in Goal BY <1>2, <2>1, <2>2
  <2>5. rows[k].owner # n
    <3> SUFFICES ASSUME rows[k].owner = n PROVE FALSE OBVIOUS
    <3>1. HasOf(from, rows[k].id, n) BY <2>3
    <3>2. rows[k].id \in Nat BY <2>4 DEF Goal
    <3>3. \E j \in DOMAIN goals[n] : goals[n][j].id = rows[k].id
      BY <3>1, <3>2 DEF GoalsInv, OwnersHave
    <3> QED BY <1>4, <2>1, <3>3
  <2> QED BY <2>3, <2>5
<1>10. /\ pursuing' = pursuing /\ tries' = tries /\ faults' = faults
       /\ known' = [known EXCEPT ![n] = [o \in Hosts |-> [i \in Road!Ids |->
                      IF o = n THEN known[n][o][i]
                      ELSE Road!More(known[n][o][i], known[from][o][i])]]]
  BY DEF Road!MergeBrief
<1>11. known' \in [Hosts -> [Hosts -> [Road!Ids -> Nat]]]
  <2>1. \A o \in Hosts, i \in Road!Ids :
          /\ known[n][o][i] \in Nat
          /\ Road!More(known[n][o][i], known[from][o][i]) \in Nat
    BY <1>2 DEF Road!More
  <2> QED BY <1>2, <1>10, <2>1
<1>12. \A m \in Hosts, i \in Road!Ids : known'[m][m][i] = known[m][m][i] BY <1>2, <1>10
<1>13. goals' = [goals EXCEPT ![n] = @ \o rows] BY <1>1
<1>14. \A k \in DOMAIN rows : rows[k].owner # n BY <1>9
<1>15. \A k \in DOMAIN rows : rows[k].owner \in Hosts =>
          \E m \in Hosts : HasOf(m, rows[k].id, rows[k].owner)
  BY <1>9
<1> HIDE DEF rows
<1> QED BY <1>8, <1>10, <1>11, <1>12, <1>13, <1>14, <1>15, AddedKeeps

LEMMA GoalsStep == GoalsInv /\ [Road!Next]_road => GoalsInv'
<1> SUFFICES ASSUME GoalsInv, [Road!Next]_road PROVE GoalsInv' OBVIOUS
<1>1. CASE UNCHANGED road
  <2>1. /\ goals' = goals /\ known' = known /\ pursuing' = pursuing /\ tries' = tries
        /\ faults' = faults
    BY <1>1 DEF road
  <2> QED BY <2>1 DEF GoalsInv, GoalsTypeOK, OwnersHave, DoingOwned, EveryRunIsKnown,
                  RunsAreBounded, Road!RunsAreBounded, HasOf, Pending, Road!Idle, Road!Ids
<1>2. CASE Road!Next
  <2>1. PICK n \in Hosts :
          \/ Road!Pursue(n) \/ Road!Stop(n)
          \/ \E gated \in BOOLEAN : Road!Seed(n, gated)
          \/ \E from \in Hosts : Road!MergeBrief(n, from)
    BY <1>2 DEF Road!Next
  <2>2. CASE Road!GiveUp(n) BY <2>2, GiveUpKeeps
  <2>3. CASE Road!Run(n) BY <2>3, RunKeeps
  <2>4. CASE Road!Unavailable(n)
    <3>1. pursuing[n] # Road!Idle BY <2>4 DEF Road!Unavailable, Road!Idle
    <3> QED BY <2>4, <3>1, EndedKeeps DEF Road!Unavailable
  <2>5. CASE Road!Claim(n) BY <2>5, ClaimKeeps
  <2>6. CASE Road!Park(n)
    <3>1. pursuing[n] # Road!Idle BY <2>6 DEF Road!Park, Road!Idle
    <3> QED BY <2>6, <3>1, WrittenKeeps DEF Road!Park, Statuses
  <2>7. CASE Road!Note(n)
    <3>1. pursuing[n] # Road!Idle BY <2>7 DEF Road!Note, Road!Idle
    <3> QED BY <2>7, <3>1, EndedKeeps DEF Road!Note
  <2>8. ASSUME NEW status \in {"done", "in_progress"}, Road!Answered(n, status)
        PROVE  GoalsInv'
    <3>1. pursuing[n] # Road!Idle BY <2>8 DEF Road!Answered, Road!Idle
    <3> QED BY <2>8, <3>1, WrittenKeeps DEF Road!Answered, Statuses
  <2>9. CASE Road!Stop(n) BY <2>9, EndedKeeps DEF Road!Stop
  <2>10. CASE \E gated \in BOOLEAN : Road!Seed(n, gated) BY <2>10, SeedKeeps
  <2>11. CASE \E from \in Hosts : Road!MergeBrief(n, from) BY <2>11, MergeKeeps
  <2> QED BY <2>1, <2>2, <2>3, <2>4, <2>5, <2>6, <2>7, <2>8, <2>9, <2>10, <2>11
          DEF Road!Pursue
<1> QED BY <1>1, <1>2

\* The inductive invariant of the roadmap.
THEOREM RoadmapInvariant == MCSpec => []GoalsInv
<1>1. MCInit => GoalsInv BY GoalsInit, Zenon DEF MCInit
<1>2. GoalsInv /\ [MCNext]_all => GoalsInv'
  <2> SUFFICES ASSUME GoalsInv, [MCNext]_all PROVE [Road!Next]_road
    BY GoalsStep, Zenon
  <2> QED BY Zenon DEF MCNext, all, road
<1> QED BY <1>1, <1>2, PTL DEF MCSpec

\* A goal is taken up by a host at most MAX_GOAL_ATTEMPTS times, and once
\* more for each time a process stopped or the agent erred, whatever the
\* hosts, the seeds, the briefs between them, and the deploys
\* (cycle/src/lib.rs, pursue_goals).
THEOREM NoGoalBurns == MCSpec => []RunsAreBounded
<1>1. GoalsInv => RunsAreBounded BY Zenon DEF GoalsInv
<1> QED BY <1>1, RoadmapInvariant, PTL

-----------------------------------------------------------------------------
(* The laboratory.  A cell's calls are in the running state, in the file   *)
(* once it is saved, or lost with the cell; a cell begins below the cap.   *)

\* What the checkpoint would be resumed with.
Saved == IF file = None THEN 0 ELSE file.llm_calls

LabTypeOK ==
    /\ file \in Lab!State \cup {None, Torn}
    /\ where \in {"idle", "boundary", "saving"}
    /\ where # "idle" => mem \in Lab!State
    /\ key \in Nat /\ made \in Nat /\ lost \in Nat

LabInv ==
    /\ LabTypeOK
    /\ where # "idle" => made <= mem.llm_calls + MaxCalls * lost
    /\ file # Torn =>
          made <= Saved + MaxCalls * lost + (IF where = "saving" THEN MaxCalls ELSE 0)
    /\ Lab!CapHolds

LEMMA LabNats == Cells \in Nat /\ Cap \in Nat /\ MaxCalls \in Nat
BY LabAssumption DEF Lab!CampaignAssumption

LEMMA FreshState == Lab!Fresh \in Lab!State /\ Lab!Fresh.llm_calls = 0
BY LabNats DEF Lab!Fresh, Lab!State, Lab!Status

\* One lost cell more allows one cell's calls more.
LEMMA OneMore ==
    ASSUME NEW n \in Nat
    PROVE  /\ MaxCalls * n \in Nat /\ MaxCalls * (n + 1) = MaxCalls * n + MaxCalls
           /\ MaxCalls * (1 + n) = MaxCalls * n + MaxCalls
BY LabNats

LEMMA LabInit == Lab!Init => LabInv
<1> SUFFICES ASSUME Lab!Init PROVE LabInv OBVIOUS
<1>1. file = None /\ where = "idle" /\ key = 1 /\ made = 0 /\ lost = 0 BY DEF Lab!Init
<1>2. MaxCalls * lost \in Nat /\ MaxCalls * (1 + lost) = MaxCalls * lost + MaxCalls
  BY <1>1, OneMore
<1> QED BY <1>1, <1>2, LabNats DEF LabInv, LabTypeOK, Saved, Lab!CapHolds

LEMMA LabStep == LabInv /\ [Lab!Next]_lab => LabInv'
<1> SUFFICES ASSUME LabInv, [Lab!Next]_lab PROVE LabInv' OBVIOUS
<1> DEFINE p == MaxCalls * lost
<1>1. /\ LabTypeOK
      /\ where # "idle" => mem \in Lab!State /\ made <= mem.llm_calls + p
      /\ file # Torn => made <= Saved + p + (IF where = "saving" THEN MaxCalls ELSE 0)
      /\ Cap > 0 => made < Cap + (p + MaxCalls)
      /\ p \in Nat /\ made \in Nat /\ lost \in Nat /\ key \in Nat
  BY OneMore DEF LabInv, LabTypeOK, Lab!CapHolds
<1>2. MaxCalls * (lost + 1) = p + MaxCalls /\ MaxCalls * 0 = 0
  BY <1>1, OneMore, LabNats
<1>3. ASSUME NEW s \in Lab!State PROVE s.llm_calls \in Nat /\ s # None /\ s # Torn
  BY <1>3, LabAssumption DEF Lab!State, Lab!CampaignAssumption
<1>4. file # Torn => Saved \in Nat BY <1>1, <1>3 DEF LabTypeOK, Saved
\* What a step must show, of the new bound q.
<1>5. ASSUME NEW q \in Nat, q = MaxCalls * lost', LabTypeOK',
             where' # "idle" => made' <= mem'.llm_calls + q,
             file' # Torn =>
                made' <= Saved' + q + (IF where' = "saving" THEN MaxCalls ELSE 0),
             Cap > 0 => made' < Cap + (q + MaxCalls)
      PROVE  LabInv'
  <2>1. lost' \in Nat BY <1>5 DEF LabTypeOK
  <2>2. MaxCalls * (1 + lost') = q + MaxCalls BY <1>5, <2>1, OneMore
  <2> QED BY <1>5, <2>2, Zenon DEF LabInv, Lab!CapHolds
<1> HIDE DEF p
<1>6. lost' = lost => p = MaxCalls * lost' BY DEF p
<1>7. lost' = lost + 1 => p + MaxCalls = MaxCalls * lost' BY <1>2
<1>8. file' = file => Saved' = Saved BY DEF Saved
<1>9. CASE UNCHANGED lab
  <2>1. file' = file /\ mem' = mem /\ where' = where /\ key' = key /\ made' = made
        /\ lost' = lost
    BY <1>9 DEF lab
  <2>2. LabTypeOK' BY <1>1, <2>1 DEF LabTypeOK
  <2> QED BY <1>1, <1>5, <1>6, <1>8, <2>1, <2>2
<1>10. CASE Lab!Resume
  <2>1. /\ where = "idle" /\ file # Torn /\ where' = "boundary" /\ key' = 1 /\ file' = file
        /\ made' = made /\ lost' = lost
        /\ mem' = IF file = None THEN Lab!Fresh ELSE file
    BY <1>10 DEF Lab!Resume, Lab!Begin, Lab!Kept
  <2>2. mem' \in Lab!State /\ mem'.llm_calls = Saved
    BY <1>1, <2>1, FreshState DEF LabTypeOK, Saved
  <2>3. LabTypeOK' BY <1>1, <2>1, <2>2 DEF LabTypeOK
  <2>4. made' <= mem'.llm_calls + p BY <1>1, <1>4, <2>1, <2>2
  <2> QED BY <1>1, <1>5, <1>6, <1>8, <2>1, <2>3, <2>4
<1>11. CASE Lab!StartAfresh
  <2>1. /\ where' = "boundary" /\ key' = 1 /\ file' = file /\ made' = 0 /\ lost' = 0
        /\ mem' = Lab!Fresh
    BY <1>11 DEF Lab!StartAfresh, Lab!Begin
  <2>2. LabTypeOK' BY <1>1, <2>1, FreshState DEF LabTypeOK
  <2>3. 0 = MaxCalls * lost' BY <1>2, <2>1
  <2> QED BY <1>4, <1>5, <1>8, <2>1, <2>2, <2>3, FreshState, LabNats
<1>12. CASE Lab!Skip
  <2>1. file' = file /\ mem' = mem /\ where' = where /\ key' = key + 1 /\ made' = made
        /\ lost' = lost
    BY <1>12 DEF Lab!Skip
  <2>2. LabTypeOK' BY <1>1, <2>1 DEF LabTypeOK
  <2> QED BY <1>1, <1>5, <1>6, <1>8, <2>1, <2>2
<1>13. CASE Lab!HaltAtBoundary \/ Lab!Complete
  <2>1. /\ where = "boundary" /\ where' = "saving" /\ file' = file /\ mem' = mem
        /\ key' = key /\ made' = made /\ lost' = lost
    BY <1>13 DEF Lab!HaltAtBoundary, Lab!Complete, Lab!Halt, Lab!AtCell
  <2>2. LabTypeOK' BY <1>1, <2>1 DEF LabTypeOK
  <2> QED BY <1>1, <1>4, <1>5, <1>6, <1>8, <2>1, <2>2, LabNats
\* A cell that comes to an end, its calls counted or lost.
<1>14. ASSUME NEW status \in Lab!Status, NEW n \in 0..MaxCalls, NEW counted \in {0, n},
              NEW why, Lab!Ran(status, counted, why), made' = made + n,
              (lost' = lost /\ counted = n) \/ lost' = lost + 1
       PROVE  LabInv'
  <2>1. /\ where = "boundary" /\ where' = "saving" /\ file' = file /\ key' = key
        /\ key \in 1..Cells /\ (Cap > 0 => mem.llm_calls < Cap)
        /\ mem' = [cells |-> [mem.cells EXCEPT ![key] = status],
                   llm_calls |-> mem.llm_calls + counted]
    <3>1. Cap > 0 => ~(mem.llm_calls >= Cap) BY <1>14 DEF Lab!Ran, Lab!OverCap
    <3>2. mem.llm_calls \in Nat
      BY <1>1, <1>3, <1>14 DEF Lab!Ran, Lab!AtCell
    <3> QED BY <1>14, <3>1, <3>2, LabNats DEF Lab!Ran, Lab!AtCell
  <2>2. n \in Nat /\ n <= MaxCalls /\ counted \in Nat BY LabNats
  <2>3. mem \in Lab!State /\ mem.llm_calls \in Nat BY <1>1, <1>3, <2>1
  <2>4. mem' \in Lab!State /\ mem'.llm_calls = mem.llm_calls + counted
    BY <2>1, <2>2, <2>3 DEF Lab!State
  <2>5. LabTypeOK' BY <1>1, <1>14, <2>1, <2>2, <2>4 DEF LabTypeOK
  <2>6. CASE lost' = lost /\ counted = n
    BY <1>1, <1>4, <1>5, <1>6, <1>8, <1>14, <2>1, <2>2, <2>3, <2>4, <2>5, <2>6, LabNats
  <2>7. CASE lost' = lost + 1
    BY <1>1, <1>4, <1>5, <1>7, <1>8, <1>14, <2>1, <2>2, <2>3, <2>4, <2>5, <2>7, LabNats
  <2> QED BY <1>14, <2>6, <2>7
<1>15. CASE Lab!CellDone \/ Lab!CellPaused
  <2>1. PICK n \in 0..MaxCalls : \E status \in Lab!Status, why \in {"none", "paused"} :
            Lab!Ran(status, n, why) /\ made' = made + n /\ lost' = lost
    BY <1>15 DEF Lab!CellDone, Lab!CellPaused, Lab!Status
  <2> QED BY <1>14, <2>1
<1>16. CASE Lab!CellFailed
  <2>1. PICK n \in 0..MaxCalls :
            Lab!Ran("failed", 0, "none") /\ made' = made + n /\ lost' = lost + 1
    BY <1>16 DEF Lab!CellFailed
  <2> QED BY <1>14, <2>1 DEF Lab!Status
<1>17. CASE Lab!Save
  <2>1. /\ where = "saving" /\ file' = mem /\ where' \in {"boundary", "idle"}
        /\ where' = "boundary" => mem' = mem
        /\ key' \in {key + 1, 1} /\ made' = made /\ lost' = lost
    BY <1>17 DEF Lab!Save
  <2>2. Saved' = mem.llm_calls /\ mem \in Lab!State BY <1>1, <1>3, <2>1 DEF Saved
  <2>3. LabTypeOK' BY <1>1, <2>1, <2>2 DEF LabTypeOK
  <2> QED BY <1>1, <1>3, <1>5, <1>6, <2>1, <2>2, <2>3
<1>18. CASE Lab!Crash
  <2>1. /\ where # "idle" /\ where' = "idle" /\ key' = 1 /\ lost' = lost + 1
        /\ file' = file \/ file' = Torn
    BY <1>18 DEF Lab!Crash
  <2>2. \/ made' = made
        \/ \E n \in 0..MaxCalls :
              /\ made' = made + n /\ where = "boundary" /\ (Cap > 0 => mem.llm_calls < Cap)
    <3> DEFINE at == Lab!AtCell /\ ~stopFile /\ ~Lab!OverCap
    <3>1. \E n \in 0..(IF at THEN MaxCalls ELSE 0) : made' = made + n
      BY <1>18 DEF Lab!Crash
    <3>2. CASE at
      <4>1. where = "boundary" /\ ~(Cap > 0 /\ mem.llm_calls >= Cap)
        BY <3>2 DEF Lab!AtCell, Lab!OverCap
      <4>2. mem.llm_calls \in Nat BY <1>1, <1>3, <4>1
      <4>3. Cap > 0 => mem.llm_calls < Cap BY <4>1, <4>2, LabNats
      <4> QED BY <3>1, <3>2, <4>1, <4>3
    <3>3. CASE ~at
      <4>1. made' = made + 0 BY <3>1, <3>3
      <4> QED BY <1>1, <4>1
    <3> QED BY <3>2, <3>3
  <2>3. made' \in Nat BY <1>1, <2>2, LabNats
  <2>4. LabTypeOK' BY <1>1, <2>1, <2>3 DEF LabTypeOK
  <2>5. CASE made' = made
    BY <1>1, <1>4, <1>5, <1>7, <1>8, <2>1, <2>4, <2>5, LabNats
  <2>6. ASSUME NEW n \in 0..MaxCalls, made' = made + n, where = "boundary",
               Cap > 0 => mem.llm_calls < Cap
        PROVE  LabInv'
    <3>1. mem.llm_calls \in Nat BY <1>1, <1>3, <2>6
    <3> QED BY <1>1, <1>4, <1>5, <1>7, <1>8, <2>1, <2>4, <2>6, <3>1, LabNats
  <2> QED BY <2>2, <2>5, <2>6
<1>19. CASE Lab!PutStop \/ Lab!TakeStop
  <2>1. file' = file /\ mem' = mem /\ where' = where /\ key' = key /\ made' = made
        /\ lost' = lost
    BY <1>19 DEF Lab!PutStop, Lab!TakeStop
  <2>2. LabTypeOK' BY <1>1, <2>1 DEF LabTypeOK
  <2> QED BY <1>1, <1>5, <1>6, <1>8, <2>1, <2>2
<1> QED
  BY <1>9, <1>10, <1>11, <1>12, <1>13, <1>15, <1>16, <1>17, <1>18, <1>19
  DEF Lab!Next, Lab!Go

\* The calls of a campaign pass its cap by less than one cell's, and one
\* cell's more for each cell that failed or a crash cut off, however often
\* it halts and is resumed (scenario/src/campaign.rs, `run`).
THEOREM TheBudgetIsTheCampaigns == MCSpec => []CallsAreCapped
<1>1. MCInit => LabInv BY LabInit, Zenon DEF MCInit
<1>2. LabInv /\ [MCNext]_all => LabInv'
  <2> SUFFICES ASSUME LabInv, [MCNext]_all PROVE [Lab!Next]_lab
    BY LabStep, Zenon
  <2> QED BY Zenon DEF MCNext, all, lab
<1>3. LabInv => CallsAreCapped BY Zenon DEF LabInv, CallsAreCapped
<1> QED BY <1>1, <1>2, <1>3, PTL DEF MCSpec
=============================================================================
