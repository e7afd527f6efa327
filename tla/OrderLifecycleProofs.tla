------------------------ MODULE OrderLifecycleProofs ------------------------
(***************************************************************************)
(* Proofs about the life of a production order, for every plan, surface,   *)
(* set of requests and digests, and every number of generations.           *)
(***************************************************************************)
EXTENDS OrderLifecycle, TLAPS

-----------------------------------------------------------------------------
\* Type correctness: whatever the ledger admits, replay derives a state the
\* OrderState structure can hold (ledger.rs, `apply`).
THEOREM TypeCorrect == Spec => []TypeOK
<1>1. Init => TypeOK
  BY NoneAssumption, BoundAssumption
     DEF Init, TypeOK, OrderState, Opened, Iterations
<1>2. TypeOK /\ [Next]_vars => TypeOK'
  <2> SUFFICES ASSUME TypeOK, [Next]_vars
               PROVE  TypeOK'
    OBVIOUS
  <2> USE DEF TypeOK, OrderState
  <2>1. CASE AppendGeneration
    <3>1. PICK o \in Outcomes, i \in Iterations :
              /\ st' = GenerationEffect(st,
                           [iteration |-> i, refused |-> o.refused,
                            surface |-> IF o.refused THEN {} ELSE o.surface,
                            lock |-> IF o.refused THEN None ELSE o.lock])
              /\ UNCHANGED <<asked, yes, offered, seen>>
      BY <2>1 DEF AppendGeneration, Admit
    <3>2. i \in Nat /\ o.refused \in BOOLEAN
      BY BoundAssumption DEF Iterations, Outcome
    <3>3. st' = [st EXCEPT !.iteration = i, !.refused = o.refused,
                           !.passed = {}, !.broken = FALSE,
                           !.outstanding = None, !.witnessed = FALSE,
                           !.parked = FALSE, !.proposed = None,
                           !.declared = FALSE]
      BY <3>1 DEF GenerationEffect
    <3>4. st' \in OrderState /\ st'.iteration = i
      BY <3>2, <3>3
    <3>. QED  BY <3>1, <3>4
  <2>2. CASE AppendVerdict
    <3>1. PICK i \in Iterations, r \in Rungs, p \in BOOLEAN :
              /\ st' = IF p THEN [st EXCEPT !.passed = @ \cup {r}]
                            ELSE [st EXCEPT !.broken = TRUE]
              /\ UNCHANGED <<asked, yes, offered, seen>>
      BY <2>2 DEF AppendVerdict, Admit, VerdictEffect
    <3>2. st' \in OrderState /\ st'.iteration = st.iteration
      BY <3>1
    <3>. QED  BY <3>1, <3>2
  <2>3. CASE RequestWitness
    BY <2>3 DEF RequestWitness, Admit, AskEffect
  <2>4. CASE AnswerWitness
    <3>1. PICK i \in Iterations, q \in Requests, a \in Answers :
              /\ st' = AnswerEffect(st, [iteration |-> i, request |-> q,
                                         answer |-> a])
              /\ yes' = IF a = "yes" THEN yes \cup {<<i, q>>} ELSE yes
              /\ UNCHANGED <<asked, offered, seen>>
      BY <2>4, Zenon DEF AnswerWitness, Admit
    <3>2. PICK w \in BOOLEAN, b \in BOOLEAN :
              st' = [st EXCEPT !.outstanding = None, !.witnessed = w,
                               !.broken = b]
      BY <3>1, Zenon DEF AnswerEffect
    <3>3. st' \in OrderState /\ st'.iteration = st.iteration
      BY <3>2
    <3>. QED  BY <3>1, <3>3
  <2>5. CASE Park
    BY <2>5 DEF Park, Admit, ParkEffect
  <2>6. CASE ProposeDeclaration
    <3>1. PICK d \in Digests :
              /\ st' = [st EXCEPT !.proposed = d, !.parked = FALSE]
              /\ offered' = offered \cup {<<st.iteration, d>>}
              /\ UNCHANGED <<asked, yes, seen>>
      BY <2>6 DEF ProposeDeclaration, Admit, ProposeEffect
    <3>2. st' \in OrderState /\ st'.iteration = st.iteration
      BY <3>1
    <3>. QED  BY <3>1, <3>2
  <2>7. CASE ObserveDeclaration
    <3>1. PICK d \in Digests :
              /\ st' = [st EXCEPT !.declared = (st.proposed = d)]
              /\ seen' = [iteration |-> st.iteration, digest |-> d]
              /\ UNCHANGED <<asked, yes, offered>>
      BY <2>7 DEF ObserveDeclaration, Admit, ObserveEffect
    <3>2. st' \in OrderState /\ st'.iteration = st.iteration
      BY <3>1
    <3>. QED  BY <3>1, <3>2
  <2>8. CASE Commission
    BY <2>8 DEF Commission, Admit, CommissionEffect
  <2>9. CASE Close
    BY <2>9 DEF Close, Admit, CloseEffect
  <2>10. CASE UNCHANGED vars
    BY <2>10 DEF vars
  <2>. QED
    BY <2>1, <2>2, <2>3, <2>4, <2>5, <2>6, <2>7, <2>8, <2>9, <2>10 DEF Next
<1>. QED  BY <1>1, <1>2, PTL DEF Spec

-----------------------------------------------------------------------------
\* The inductive step, one lemma per action that can disturb the invariant.

\* A new generation starts with nothing passed, asked, proposed or declared.
LEMMA GenerationKeepsInv ==
    ASSUME LifecycleInv, AppendGeneration, TypeOK'
    PROVE  LifecycleInv'
<1>1. PICK i \in Iterations, b \in BOOLEAN :
          /\ ~Terminal(st)
          /\ st' = [st EXCEPT !.iteration = i, !.refused = b, !.passed = {},
                              !.broken = FALSE, !.outstanding = None,
                              !.witnessed = FALSE, !.parked = FALSE,
                              !.proposed = None, !.declared = FALSE]
  <2>1. PICK o \in Outcomes, i \in Iterations :
            /\ ~Terminal(st)
            /\ st' = GenerationEffect(st,
                         [iteration |-> i, refused |-> o.refused,
                          surface |-> IF o.refused THEN {} ELSE o.surface,
                          lock |-> IF o.refused THEN None ELSE o.lock])
    BY DEF AppendGeneration, Admit
  <2>2. o.refused \in BOOLEAN
    BY BoundAssumption DEF Outcome
  <2>. QED  BY <2>1, <2>2 DEF GenerationEffect
<1>2. /\ st'.passed = {} /\ st'.outstanding = None /\ st'.witnessed = FALSE
      /\ st'.proposed = None /\ st'.declared = FALSE
      /\ st'.commissioned = st.commissioned
  BY <1>1 DEF LifecycleInv, TypeOK, OrderState
<1>3. st.commissioned = FALSE
  BY <1>1 DEF Terminal, LifecycleInv, TypeOK, OrderState
<1>. QED
  BY <1>2, <1>3
     DEF LifecycleInv, PassedIsPrefix, ProposalIsProven,
         WitnessRungIsWitnessed, DeclaredIsOfThisCandidate,
         StandsInThisIteration

\* A verdict passes the next rung only, and the witness rung on a Yes.
LEMMA VerdictKeepsInv ==
    ASSUME LifecycleInv, AppendVerdict, TypeOK'
    PROVE  LifecycleInv'
<1>1. PICK r \in Rungs, p \in BOOLEAN :
          /\ PredecessorPassed(st, r)
          /\ p /\ r = "witness" => st.witnessed
          /\ st' = IF p THEN [st EXCEPT !.passed = st.passed \cup {r}]
                        ELSE [st EXCEPT !.broken = TRUE]
          /\ UNCHANGED <<asked, yes, offered, seen>>
  BY DEF AppendVerdict, Admit, VerdictLegal, VerdictEffect,
         PredecessorPassed
<1>2. /\ st'.iteration = st.iteration /\ st'.proposed = st.proposed
      /\ st'.declared = st.declared /\ st'.commissioned = st.commissioned
      /\ st'.witnessed = st.witnessed /\ st'.outstanding = st.outstanding
      /\ st'.passed = IF p THEN st.passed \cup {r} ELSE st.passed
  BY <1>1 DEF LifecycleInv, TypeOK, OrderState
<1>3. PassedIsPrefix'
  <2> SUFFICES ASSUME NEW i \in Positions, NEW j \in Positions,
                      i < j, Plan[j] \in st'.passed
               PROVE  Plan[i] \in st'.passed
    BY DEF PassedIsPrefix
  <2>1. Plan \in Seq(Rungs) /\ i \in Nat /\ j \in Nat
    BY PlanAssumption DEF OrderOK, Positions
  <2>2. CASE Plan[j] \in st.passed
    BY <2>2, <1>2 DEF LifecycleInv, PassedIsPrefix
  <2>3. CASE Plan[j] = r /\ p
    <3>1. j - 1 \in Positions /\ j > 1
      BY <2>1 DEF Positions
    <3>2. Plan[j - 1] \in st.passed
      BY <1>1, <2>3, <3>1 DEF PredecessorPassed
    <3>3. CASE i = j - 1
      BY <3>2, <3>3, <1>2
    <3>4. CASE i < j - 1
      BY <3>1, <3>2, <3>4, <1>2 DEF LifecycleInv, PassedIsPrefix
    <3>. QED  BY <3>3, <3>4, <2>1
  <2>. QED  BY <2>2, <2>3, <1>2
<1>4. ProposalIsProven' /\ DeclaredIsOfThisCandidate'
  BY <1>1, <1>2
     DEF LifecycleInv, ProposalIsProven, DeclaredIsOfThisCandidate, Required,
         Planned, Positions
<1>5. WitnessRungIsWitnessed' /\ StandsInThisIteration'
  BY <1>1, <1>2
     DEF LifecycleInv, WitnessRungIsWitnessed, StandsInThisIteration
<1>. QED  BY <1>3, <1>4, <1>5 DEF LifecycleInv

\* A witness request is of this iteration.
LEMMA AskKeepsInv ==
    ASSUME LifecycleInv, RequestWitness, TypeOK'
    PROVE  LifecycleInv'
<1>1. PICK q \in Requests :
          /\ st' = [st EXCEPT !.outstanding = q]
          /\ asked' = asked \cup {<<st.iteration, q>>}
          /\ UNCHANGED <<yes, offered, seen>>
  BY DEF RequestWitness, Admit, AskLegal, AskEffect
<1>2. /\ st'.iteration = st.iteration /\ st'.proposed = st.proposed
      /\ st'.declared = st.declared /\ st'.commissioned = st.commissioned
      /\ st'.witnessed = st.witnessed /\ st'.passed = st.passed
      /\ st'.outstanding = q
  BY <1>1 DEF LifecycleInv, TypeOK, OrderState
<1>. QED
  BY <1>1, <1>2
     DEF LifecycleInv, PassedIsPrefix, ProposalIsProven, Required, Planned,
         Positions, WitnessRungIsWitnessed, DeclaredIsOfThisCandidate,
         StandsInThisIteration

\* An answer counts for the request outstanding.
LEMMA AnswerKeepsInv ==
    ASSUME LifecycleInv, AnswerWitness, TypeOK'
    PROVE  LifecycleInv'
<1>1. PICK q \in Requests, a \in Answers :
          /\ st.outstanding = q
          /\ st' = AnswerEffect(st, [iteration |-> st.iteration,
                                     request |-> q, answer |-> a])
          /\ yes' = IF a = "yes" THEN yes \cup {<<st.iteration, q>>} ELSE yes
          /\ UNCHANGED <<asked, offered, seen>>
  BY DEF AnswerWitness, Admit, AnswerLegal
<1>2. PICK w \in BOOLEAN, b \in BOOLEAN :
          /\ w <=> st.witnessed \/ a = "yes"
          /\ st' = [st EXCEPT !.outstanding = None, !.witnessed = w,
                              !.broken = b]
  BY <1>1, Zenon DEF AnswerEffect
<1>3. /\ st'.iteration = st.iteration /\ st'.proposed = st.proposed
      /\ st'.declared = st.declared /\ st'.commissioned = st.commissioned
      /\ st'.witnessed = w /\ st'.passed = st.passed
      /\ st'.outstanding = None
  BY <1>2 DEF LifecycleInv, TypeOK, OrderState
<1>4. <<st.iteration, q>> \in asked
  BY <1>1, NoneAssumption DEF LifecycleInv, StandsInThisIteration
<1>5. w \/ "witness" \in st.passed =>
          \E x \in Requests : <<st.iteration, x>> \in yes' \cap asked
  BY <1>1, <1>2, <1>4 DEF LifecycleInv, StandsInThisIteration
<1>. QED
  BY <1>1, <1>3, <1>5
     DEF LifecycleInv, PassedIsPrefix, ProposalIsProven, Required, Planned,
         Positions, WitnessRungIsWitnessed, DeclaredIsOfThisCandidate,
         StandsInThisIteration

\* A proposal has the mechanical rungs behind it.
LEMMA ProposeKeepsInv ==
    ASSUME LifecycleInv, ProposeDeclaration, TypeOK'
    PROVE  LifecycleInv'
<1>1. PICK d \in Digests :
          /\ Required \subseteq st.passed
          /\ st' = [st EXCEPT !.proposed = d, !.parked = FALSE]
          /\ offered' = offered \cup {<<st.iteration, d>>}
          /\ UNCHANGED <<asked, yes, seen>>
  BY DEF ProposeDeclaration, Admit, ProposeLegal, ProposeEffect
<1>2. /\ st'.iteration = st.iteration /\ st'.proposed = d
      /\ st'.declared = st.declared /\ st'.commissioned = st.commissioned
      /\ st'.witnessed = st.witnessed /\ st'.passed = st.passed
      /\ st'.outstanding = st.outstanding
  BY <1>1 DEF LifecycleInv, TypeOK, OrderState
<1>3. d # None
  BY NoneAssumption
<1>. QED
  BY <1>1, <1>2, <1>3
     DEF LifecycleInv, PassedIsPrefix, ProposalIsProven, Required, Planned,
         Positions, WitnessRungIsWitnessed, DeclaredIsOfThisCandidate,
         StandsInThisIteration

\* A declaration is derived from the digest proposed in this iteration.
LEMMA ObserveKeepsInv ==
    ASSUME LifecycleInv, ObserveDeclaration, TypeOK'
    PROVE  LifecycleInv'
<1>1. PICK d \in Digests :
          /\ st.proposed # None
          /\ st' = [st EXCEPT !.declared = (st.proposed = d)]
          /\ seen' = [iteration |-> st.iteration, digest |-> d]
          /\ UNCHANGED <<asked, yes, offered>>
  BY DEF ObserveDeclaration, Admit, ObserveLegal, ObserveEffect
<1>2. /\ st'.iteration = st.iteration /\ st'.proposed = st.proposed
      /\ st'.declared = (st.proposed = d)
      /\ st'.commissioned = st.commissioned
      /\ st'.witnessed = st.witnessed /\ st'.passed = st.passed
      /\ st'.outstanding = st.outstanding
  BY <1>1 DEF LifecycleInv, TypeOK, OrderState
<1>3. DeclaredIsOfThisCandidate'
  <2> SUFFICES ASSUME st'.declared
               PROVE  /\ seen'.iteration = st'.iteration
                      /\ <<st'.iteration, seen'.digest>> \in offered'
    BY DEF DeclaredIsOfThisCandidate
  <2>1. st.proposed = d
    BY <1>2
  <2>2. <<st.iteration, d>> \in offered
    BY <2>1, <1>1 DEF LifecycleInv, StandsInThisIteration
  <2>. QED  BY <2>2, <1>1, <1>2
<1>. QED
  BY <1>1, <1>2, <1>3
     DEF LifecycleInv, PassedIsPrefix, ProposalIsProven, Required, Planned,
         Positions, WitnessRungIsWitnessed, StandsInThisIteration

\* Parking, closing and commissioning touch nothing the invariant reads but
\* `commissioned`.
LEMMA EndingKeepsInv ==
    ASSUME LifecycleInv, Park \/ Commission \/ Close, TypeOK'
    PROVE  LifecycleInv'
<1>1. /\ \/ st' = [st EXCEPT !.parked = TRUE]
         \/ st' = [st EXCEPT !.closed = TRUE]
         \/ st.declared /\ st' = [st EXCEPT !.commissioned = TRUE]
      /\ UNCHANGED <<asked, yes, offered, seen>>
  BY DEF Park, Commission, Close, Admit, CommissionLegal, ParkEffect,
         CommissionEffect, CloseEffect
<1>2. /\ st'.iteration = st.iteration /\ st'.proposed = st.proposed
      /\ st'.declared = st.declared /\ st'.outstanding = st.outstanding
      /\ st'.witnessed = st.witnessed /\ st'.passed = st.passed
      /\ st'.commissioned => st.commissioned \/ st.declared
  BY <1>1 DEF LifecycleInv, TypeOK, OrderState
<1>. QED
  BY <1>1, <1>2
     DEF LifecycleInv, PassedIsPrefix, ProposalIsProven, Required, Planned,
         Positions, WitnessRungIsWitnessed, DeclaredIsOfThisCandidate,
         StandsInThisIteration

-----------------------------------------------------------------------------
\* The inductive invariant holds of every lifecycle.
THEOREM LifecycleInvariant == Spec => []LifecycleInv
<1>1. Init => LifecycleInv
  <2> SUFFICES ASSUME Init
               PROVE  LifecycleInv
    OBVIOUS
  <2>1. TypeOK
    BY NoneAssumption, BoundAssumption
       DEF Init, TypeOK, OrderState, Opened, Iterations
  <2>. QED
    BY <2>1 DEF Init, Opened, LifecycleInv, PassedIsPrefix, ProposalIsProven,
                WitnessRungIsWitnessed, DeclaredIsOfThisCandidate,
                StandsInThisIteration
<1>2. LifecycleInv /\ [Next]_vars /\ TypeOK' => LifecycleInv'
  <2> SUFFICES ASSUME LifecycleInv, [Next]_vars, TypeOK'
               PROVE  LifecycleInv'
    OBVIOUS
  <2>1. CASE UNCHANGED vars
    BY <2>1 DEF vars, LifecycleInv, TypeOK, PassedIsPrefix, ProposalIsProven,
                WitnessRungIsWitnessed, DeclaredIsOfThisCandidate,
                StandsInThisIteration, Required, Planned, Positions,
                Iterations
  <2>2. CASE Next
    BY <2>2, GenerationKeepsInv, VerdictKeepsInv, AskKeepsInv,
       AnswerKeepsInv, ProposeKeepsInv, ObserveKeepsInv, EndingKeepsInv
       DEF Next
  <2>. QED  BY <2>1, <2>2
<1>. QED  BY <1>1, <1>2, TypeCorrect, PTL DEF Spec

\* On no path through failed rungs, refusals and new generations is a rung
\* passed over one that has not passed (ledger.rs, the RungVerdict arm).
THEOREM RungsClimbInOrder == Spec => []PassedIsPrefix
BY LifecycleInvariant, PTL DEF LifecycleInv

\* A proposal, a declaration and a commissioning all stand on the mechanical
\* rungs of the candidate they are for (the DeclarationProposed arm, and the
\* resets of GenerationRecorded).
THEOREM ProposalsAreProven == Spec => []ProposalIsProven
BY LifecycleInvariant, PTL DEF LifecycleInv

\* No witness rung passes without a human Yes to a request of the same
\* iteration (the WitnessAnswered and RungVerdict arms).
THEOREM WitnessedByHuman == Spec => []WitnessRungIsWitnessed
BY LifecycleInvariant, PTL DEF LifecycleInv

\* No generation is declared, and so none commissioned, on an observation or
\* a proposal of an earlier one (the DeclarationObserved arm).
THEOREM DeclaredAfresh == Spec => []DeclaredIsOfThisCandidate
BY LifecycleInvariant, PTL DEF LifecycleInv

\* Nothing that stands in the state is left over from an earlier iteration.
THEOREM NothingLeftOver == Spec => []StandsInThisIteration
BY LifecycleInvariant, PTL DEF LifecycleInv
=============================================================================
