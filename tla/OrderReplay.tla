----------------------------- MODULE OrderReplay -----------------------------
(***************************************************************************)
(* What one ledger event does to a production order.  There is no mutable  *)
(* status in the workshop: an order's state is what replaying its ledger   *)
(* gives, and the same rules decide an append and a read                   *)
(* (crates/workshop/src/ledger.rs, `apply`; order.rs, the two validators). *)
(*                                                                         *)
(* For every event kind K there is a guard KLegal(s, e), the conjunction   *)
(* of the negated early returns of that arm of `apply`, and an effect      *)
(* KEffect(s, e), its assignments.  Digests, labels and reasons are        *)
(* members of small sets: `apply` only compares them.                      *)
(***************************************************************************)
EXTENDS Naturals, Sequences, FiniteSets

CONSTANTS Plan,      \* order.oracle_plan
          Labels,    \* act labels a candidate may claim
          Surface,   \* order.capability_surface
          Locks,     \* toolchain locks a candidate may name
          Lock,      \* order.toolchain.lock_digest
          Requests,  \* witness request digests
          Digests,   \* declaration digests
          None       \* Option::None

Rungs == {"bench", "read", "act", "witness"}

\* The derived order of the OracleRung enum.
Rank == [r \in Rungs |->
           CASE r = "bench" -> 1 [] r = "read" -> 2 [] r = "act" -> 3
             [] r = "witness" -> 4]

Answers == {"yes", "no", "unclear"}

\* The positions a plan has, and the rungs it names.
Positions == 1..Len(Plan)
Planned == {Plan[i] : i \in Positions}

\* validate_order, for the part of an order that later decisions read.
OrderOK == /\ Plan \in Seq(Rungs)
           /\ Len(Plan) > 0
           /\ \A i \in Positions : \A j \in Positions :
                i < j => Rank[Plan[i]] < Rank[Plan[j]]
           /\ Surface # {}

ASSUME PlanAssumption == OrderOK
ASSUME DataAssumption == Surface \subseteq Labels /\ Lock \in Locks
ASSUME NoneAssumption == None \notin Requests /\ None \notin Digests

-----------------------------------------------------------------------------
(* Generation outcomes and the contract at the door.                       *)

\* A candidate's paths are judged by three bits: the manifest validates,
\* every entrypoint is a Source file of it, every self-test a SelfTest.
Outcome == [refused : BOOLEAN, surface : SUBSET Labels,
            effects : SUBSET Labels, lock : Locks,
            manifest : BOOLEAN, roles : BOOLEAN]

ValidOutcome(o) ==
    \/ o.refused
    \/ /\ o.manifest
       /\ o.lock = Lock
       /\ o.roles
       /\ o.effects \subseteq Surface
       /\ o.surface \subseteq Surface

-----------------------------------------------------------------------------
(* The state replay derives.                                               *)

OrderState ==
    [iteration : Nat, refused : BOOLEAN, passed : SUBSET Rungs,
     broken : BOOLEAN, outstanding : Requests \cup {None},
     witnessed : BOOLEAN, parked : BOOLEAN,
     proposed : Digests \cup {None}, declared : BOOLEAN,
     commissioned : BOOLEAN, closed : BOOLEAN]

\* The state right after the Opened event.
Opened == [iteration |-> 0, refused |-> FALSE, passed |-> {},
           broken |-> FALSE, outstanding |-> None, witnessed |-> FALSE,
           parked |-> FALSE, proposed |-> None, declared |-> FALSE,
           commissioned |-> FALSE, closed |-> FALSE]

Terminal(s) == s.commissioned \/ s.closed

\* Rungs a proposal of any kind must have behind it.
Required == Planned \cap {"bench", "read", "act"}

-----------------------------------------------------------------------------
(* One guard and one effect per event kind.                                *)

GenerationLegal(s, e) ==
    /\ e.iteration = s.iteration + 1
    /\ ~e.refused => e.surface \subseteq Surface /\ e.lock = Lock

\* Bugs to be noticed: a reset the new generation forgets.
GenerationKeepsProposal(s, e) ==
    [s EXCEPT !.iteration = e.iteration, !.refused = e.refused, !.passed = {},
              !.broken = FALSE, !.outstanding = None, !.witnessed = FALSE,
              !.parked = FALSE, !.declared = FALSE]
GenerationKeepsWitness(s, e) ==
    [s EXCEPT !.iteration = e.iteration, !.refused = e.refused, !.passed = {},
              !.broken = FALSE, !.outstanding = None,
              !.parked = FALSE, !.proposed = None, !.declared = FALSE]
GenerationKeepsDeclared(s, e) ==
    [s EXCEPT !.iteration = e.iteration, !.refused = e.refused, !.passed = {},
              !.broken = FALSE, !.outstanding = None, !.witnessed = FALSE,
              !.parked = FALSE, !.proposed = None]

GenerationEffect(s, e) ==
    [s EXCEPT !.iteration = e.iteration, !.refused = e.refused, !.passed = {},
              !.broken = FALSE, !.outstanding = None, !.witnessed = FALSE,
              !.parked = FALSE, !.proposed = None, !.declared = FALSE]

\* A bug to be noticed: the plan's positions taken to count from zero.
PredecessorOffByOne(s, r) ==
    \A i \in Positions : Plan[i] = r /\ i > 2 => Plan[i - 1] \in s.passed

\* The rung just below r in the plan has passed, or r is the plan's first.
PredecessorPassed(s, r) ==
    \A i \in Positions : Plan[i] = r /\ i > 1 => Plan[i - 1] \in s.passed

VerdictLegal(s, e) ==
    /\ s.iteration # 0
    /\ e.iteration = s.iteration
    /\ ~s.refused
    /\ ~s.broken
    /\ e.rung \in Planned
    /\ e.rung \notin s.passed
    /\ PredecessorPassed(s, e.rung)
    /\ e.pass /\ e.rung = "witness" => s.witnessed

VerdictEffect(s, e) ==
    IF e.pass THEN [s EXCEPT !.passed = @ \cup {e.rung}]
              ELSE [s EXCEPT !.broken = TRUE]

AskLegal(s, e) ==
    /\ s.iteration # 0
    /\ e.iteration = s.iteration
    /\ ~s.broken
    /\ s.outstanding = None

AskEffect(s, e) == [s EXCEPT !.outstanding = e.request]

AnswerLegal(s, e) ==
    /\ e.iteration = s.iteration
    /\ s.outstanding # None
    /\ s.outstanding = e.request

AnswerEffect(s, e) ==
    [s EXCEPT !.outstanding = None,
              !.witnessed = @ \/ e.answer = "yes",
              !.broken = @ \/ e.answer = "no"]

ParkEffect(s) == [s EXCEPT !.parked = TRUE]

ProposeLegal(s, e) ==
    /\ Required \subseteq s.passed
    /\ ~e.reduced /\ "witness" \in Planned => "witness" \in s.passed

ProposeEffect(s, e) == [s EXCEPT !.proposed = e.digest, !.parked = FALSE]

ObserveLegal(s, e) == s.proposed # None

ObserveEffect(s, e) == [s EXCEPT !.declared = (s.proposed = e.digest)]

CommissionLegal(s) == s.declared

CommissionEffect(s) == [s EXCEPT !.commissioned = TRUE]

CloseEffect(s) == [s EXCEPT !.closed = TRUE]

-----------------------------------------------------------------------------
(* The dispatch of `apply`: every kind is refused after a terminal state.  *)

Legal(s, e) ==
    /\ ~Terminal(s)
    /\ \/ e.kind = "generation" /\ GenerationLegal(s, e)
       \/ e.kind = "verdict" /\ VerdictLegal(s, e)
       \/ e.kind = "ask" /\ AskLegal(s, e)
       \/ e.kind = "answer" /\ AnswerLegal(s, e)
       \/ e.kind = "propose" /\ ProposeLegal(s, e)
       \/ e.kind = "observe" /\ ObserveLegal(s, e)
       \/ e.kind = "commission" /\ CommissionLegal(s)
       \/ e.kind \in {"park", "close"}

Effect(s, e) ==
    CASE e.kind = "generation" -> GenerationEffect(s, e)
      [] e.kind = "verdict" -> VerdictEffect(s, e)
      [] e.kind = "ask" -> AskEffect(s, e)
      [] e.kind = "answer" -> AnswerEffect(s, e)
      [] e.kind = "propose" -> ProposeEffect(s, e)
      [] e.kind = "observe" -> ObserveEffect(s, e)
      [] e.kind = "commission" -> CommissionEffect(s)
      [] e.kind = "park" -> ParkEffect(s)
      [] e.kind = "close" -> CloseEffect(s)
=============================================================================
