--------------------------- MODULE OrderLifecycle ---------------------------
(***************************************************************************)
(* The life of one production order: any sequence of events the workshop's *)
(* ledger admits, from the opening to a commissioning or a close.  Whoever *)
(* appends (the convergence loop, the witness console, the declaration     *)
(* watcher, a human) goes through the same validation, so every append is  *)
(* an action here and the actors are left open.                            *)
(*                                                                         *)
(* st is the state replay derives.  The other variables are history, kept  *)
(* to state what a lifecycle proves; no guard reads them.                  *)
(***************************************************************************)
EXTENDS OrderReplay

CONSTANTS Outcomes,        \* what generation adapters return
          MaxIterations    \* bound on counted generations

ASSUME BoundAssumption == Outcomes \subseteq Outcome /\ MaxIterations \in Nat

VARIABLES st,        \* the replayed OrderState
          asked,     \* <<iteration, request>> of every witness ask
          yes,       \* <<iteration, request>> of every Yes answer
          offered,   \* <<iteration, digest>> of every proposal
          seen       \* [iteration, digest] of the last declaration observed

vars == <<st, asked, yes, offered, seen>>

Iterations == 0..MaxIterations

Init == /\ st = Opened
        /\ asked = {}
        /\ yes = {}
        /\ offered = {}
        /\ seen = [iteration |-> 0, digest |-> None]

\* Validation by replay, then the line is written: the two cannot be told
\* apart while the ledger's lock is held.
Admit(legal, after) == ~Terminal(st) /\ legal /\ st' = after

\* append_generation: the typed outcome is validated against the order in
\* the ledger, then the event carries its surface and lock (empty when it
\* is a refusal).
AppendGeneration ==
    \E o \in Outcomes, i \in Iterations :
        LET e == [iteration |-> i, refused |-> o.refused,
                  surface |-> IF o.refused THEN {} ELSE o.surface,
                  lock |-> IF o.refused THEN None ELSE o.lock]
        IN /\ ValidOutcome(o)
           /\ Admit(GenerationLegal(st, e), GenerationEffect(st, e))
           /\ UNCHANGED <<asked, yes, offered, seen>>

AppendVerdict ==
    \E i \in Iterations, r \in Rungs, p \in BOOLEAN :
        LET e == [iteration |-> i, rung |-> r, pass |-> p]
        IN /\ Admit(VerdictLegal(st, e), VerdictEffect(st, e))
           /\ UNCHANGED <<asked, yes, offered, seen>>

RequestWitness ==
    \E i \in Iterations, q \in Requests :
        LET e == [iteration |-> i, request |-> q]
        IN /\ Admit(AskLegal(st, e), AskEffect(st, e))
           /\ asked' = asked \cup {<<i, q>>}
           /\ UNCHANGED <<yes, offered, seen>>

AnswerWitness ==
    \E i \in Iterations, q \in Requests, a \in Answers :
        LET e == [iteration |-> i, request |-> q, answer |-> a]
        IN /\ Admit(AnswerLegal(st, e), AnswerEffect(st, e))
           /\ yes' = IF a = "yes" THEN yes \cup {<<i, q>>} ELSE yes
           /\ UNCHANGED <<asked, offered, seen>>

Park == /\ Admit(TRUE, ParkEffect(st))
        /\ UNCHANGED <<asked, yes, offered, seen>>

ProposeDeclaration ==
    \E d \in Digests, reduced \in BOOLEAN :
        LET e == [digest |-> d, reduced |-> reduced]
        IN /\ Admit(ProposeLegal(st, e), ProposeEffect(st, e))
           /\ offered' = offered \cup {<<st.iteration, d>>}
           /\ UNCHANGED <<asked, yes, seen>>

ObserveDeclaration ==
    \E d \in Digests :
        LET e == [digest |-> d]
        IN /\ Admit(ObserveLegal(st, e), ObserveEffect(st, e))
           /\ seen' = [iteration |-> st.iteration, digest |-> d]
           /\ UNCHANGED <<asked, yes, offered>>

Commission == /\ Admit(CommissionLegal(st), CommissionEffect(st))
              /\ UNCHANGED <<asked, yes, offered, seen>>

Close == /\ Admit(TRUE, CloseEffect(st))
         /\ UNCHANGED <<asked, yes, offered, seen>>

Next == \/ AppendGeneration
        \/ AppendVerdict
        \/ RequestWitness
        \/ AnswerWitness
        \/ Park
        \/ ProposeDeclaration
        \/ ObserveDeclaration
        \/ Commission
        \/ Close

Spec == Init /\ [][Next]_vars

-----------------------------------------------------------------------------
(* Properties.                                                             *)

\* The state is always one OrderState can represent, and the histories hold
\* what their names say.
TypeOK == /\ st \in OrderState
          /\ st.iteration \in Iterations
          /\ asked \subseteq Iterations \X Requests
          /\ yes \subseteq Iterations \X Requests
          /\ offered \subseteq Iterations \X Digests
          /\ seen \in [iteration : Iterations, digest : Digests \cup {None}]

\* The rungs passed are always an initial segment of the order's plan, on
\* every path through failures, refusals and new generations: no rung is
\* climbed over one that has not passed for this very candidate.
PassedIsPrefix ==
    \A i \in Positions : \A j \in Positions :
        i < j /\ Plan[j] \in st.passed => Plan[i] \in st.passed

\* A proposal standing in the ledger has its mechanical rungs behind it, for
\* the candidate of the current iteration and no earlier one; so has
\* everything that follows from it, up to commissioning.
ProposalIsProven ==
    /\ st.proposed # None => Required \subseteq st.passed
    /\ st.commissioned => st.proposed # None

\* The witness rung passes only on a human Yes, given in this iteration to a
\* request that was put in this iteration.
WitnessRungIsWitnessed ==
    "witness" \in st.passed =>
        \E q \in Requests : /\ <<st.iteration, q>> \in yes
                            /\ <<st.iteration, q>> \in asked

\* A declared or commissioned order rests on an observation made in this
\* iteration, of a digest the factory proposed in this iteration: generation
\* N+1 is never commissioned on generation N's declaration.
DeclaredIsOfThisCandidate ==
    st.declared => /\ seen.iteration = st.iteration
                   /\ <<st.iteration, seen.digest>> \in offered

\* Why the four hold: nothing that stands in the state is left over from an
\* earlier iteration.  An outstanding request was put, a standing Yes was
\* given and a standing proposal was made in this very iteration, and an
\* order is declared only while a proposal stands.
StandsInThisIteration ==
    /\ st.outstanding # None => <<st.iteration, st.outstanding>> \in asked
    /\ st.witnessed \/ "witness" \in st.passed =>
           \E q \in Requests : <<st.iteration, q>> \in yes \cap asked
    /\ st.proposed # None => <<st.iteration, st.proposed>> \in offered
    /\ st.declared => st.proposed # None

\* The inductive invariant.
LifecycleInv == /\ TypeOK
                /\ PassedIsPrefix
                /\ ProposalIsProven
                /\ WitnessRungIsWitnessed
                /\ DeclaredIsOfThisCandidate
                /\ StandsInThisIteration

\* What the module's header promises: "Declaration equality is derived, never
\* asserted.  An observed declaration advances the order only when its digest
\* equals the proposed digest."  A commissioned order would then have been
\* declared exactly as it stands proposed.
CommissionedAsProposed == st.commissioned => seen.digest = st.proposed
=============================================================================
