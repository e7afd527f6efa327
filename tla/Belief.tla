------------------------------- MODULE Belief -------------------------------
(* What the familiar thinks of one of its theories (kernel/belief.rs and   *)
(* update_beliefs of cycle/lib.rs): settled predictions folded into a      *)
(* state with hysteresis, human corrections and reversed acts as typed     *)
(* overrides, and at most one aside at a time about a change.  Results     *)
(* are counted; a stop of the process may fall between any two writes.     *)
EXTENDS Integers

CONSTANTS None,
          Corrections,   \* ids of utterances that contradict the theory
          Reversals,     \* ids of acts for the theory that a person undid
          Cooldown,      \* NARRATION_COOLDOWN_SECS
          MaxResults,    \* bound: results of each kind
          MaxTime,       \* bound: the clock
          MaxStops       \* bound: stops of the process

BeliefAssumption ==
    /\ Cooldown \in Nat /\ MaxResults \in Nat /\ MaxTime \in Nat \ {0} /\ MaxStops \in Nat
    /\ None \notin [{"to", "at"} -> STRING \cup Nat]

VARIABLES
    tally,      \* the append-only results of the theory: favorable, unfavorable
    belief,     \* its row of beliefs.json
    spoken,     \* the contradicting utterances in the observation window
    moved,      \* what moved the row, last, and on how many results (a line of the
                \* transitions log whose row was not saved moves nothing)
    told,       \* the last aside in the dialogue: when, and after how many stops
    step,       \* where the tick is: score, correct, narrate, mark
    stops,
    clock

vars == <<tally, belief, spoken, moved, told, step, stops, clock>>

States == {"tentative", "supported", "doubtful", "abandoned"}
Total(e) == e.favorable + e.unfavorable

Init ==
    /\ tally = [favorable |-> 0, unfavorable |-> 0]
    /\ belief = [state |-> "tentative", evaluated |-> 0, applied |-> {},
                 pending |-> None, narratedAt |-> 0]
    /\ spoken = {}
    /\ moved = [cause |-> "none", results |-> 0]
    /\ told = [at |-> 0, stops |-> 0]
    /\ step = "score"
    /\ stops = 0
    /\ clock = 1

(* calibrated_next: entering a state asks for more than staying in it.     *)
CalibratedNext(state, e) ==
    CASE state = "tentative" /\ e.favorable >= 3 /\ e.favorable >= e.unfavorable + 2
           -> "supported"
      [] state = "supported" /\ e.unfavorable >= 2 /\ e.unfavorable >= e.favorable
           -> "doubtful"
      [] state = "doubtful" /\ e.unfavorable >= 4 /\ e.unfavorable >= e.favorable + 2
           -> "abandoned"
      [] state = "doubtful" /\ e.favorable >= 4 /\ e.favorable >= e.unfavorable + 3
           -> "supported"
      [] OTHER -> state

Pending(b, to) == [b EXCEPT !.state = to, !.pending = [to |-> to, at |-> clock]]

(* record_transition; the line of the log goes before the row.             *)
Move(b, to, cause) ==
    /\ belief' = Pending(b, to)
    /\ moved' = [cause |-> cause, results |-> Total(tally)]

(***************************************************************************)
(* The tick: predictions settle, evaluate folds them, corrections are      *)
(* applied, the strongest pending change is told and marked as told.       *)
(***************************************************************************)
(* prediction::score appends what settled, then the fold runs over all.    *)
Settle ==
    /\ step = "score"
    /\ \E f, u \in 0..2 :
         /\ f + u <= 2
         /\ tally.favorable + f <= MaxResults /\ tally.unfavorable + u <= MaxResults
         /\ tally' = [favorable |-> tally.favorable + f,
                      unfavorable |-> tally.unfavorable + u]
    /\ step' = "evaluate"
    /\ UNCHANGED <<belief, spoken, moved, told, stops, clock>>

(* A bug to be noticed: the results are folded whether they grew or not.   *)
GrewAlways == TRUE
Grew == Total(tally) > belief.evaluated

(* Only new evidence may move a belief, one state at a time.               *)
Evaluate ==
    /\ step = "evaluate"
    /\ LET folded == [belief EXCEPT !.evaluated = Total(tally)]
           to == CalibratedNext(belief.state, tally)
       IN  IF Grew /\ to # belief.state
           THEN Move(folded, to, "calibration")
           ELSE belief' = folded /\ UNCHANGED moved
    /\ step' = "correct"
    /\ UNCHANGED <<tally, spoken, told, stops, clock>>

Target(kind) == IF kind = "correction" THEN "doubtful" ELSE "abandoned"

(* apply_override: once per piece of evidence; abandonment is final.       *)
TargetMoves(b, kind) == b.state # "abandoned" /\ Target(kind) # b.state
Override(id, kind) ==
    /\ id \notin belief.applied
    /\ LET noted == [belief EXCEPT !.applied = @ \cup {id}]
       IN  IF TargetMoves(belief, kind) THEN Move(noted, Target(kind), kind)
           ELSE belief' = noted /\ UNCHANGED moved

(* Every contradicting utterance in the window is looked at each tick.     *)
Correct ==
    /\ step = "correct"
    /\ \/ \E id \in spoken : Override(id, "correction") /\ UNCHANGED step
       \/ spoken \subseteq belief.applied /\ step' = "narrate" /\ UNCHANGED <<belief, moved>>
    /\ UNCHANGED <<tally, spoken, told, stops, clock>>

Quiet == belief.narratedAt > 0 /\ clock - belief.narratedAt < Cooldown

Narrate ==
    /\ step = "narrate"
    /\ IF belief.pending # None /\ ~Quiet
       THEN told' = [at |-> clock, stops |-> stops] /\ step' = "mark"
       ELSE UNCHANGED told /\ step' = "done"
    /\ UNCHANGED <<tally, belief, spoken, moved, stops, clock>>

(* A bug to be noticed: the aside is taken off the row and not dated.      *)
MarkUntimed ==
    /\ step = "mark"
    /\ belief' = [belief EXCEPT !.pending = None]
    /\ step' = "done"
    /\ UNCHANGED <<tally, spoken, moved, told, stops, clock>>

Mark ==
    /\ step = "mark"
    /\ belief' = [belief EXCEPT !.pending = None, !.narratedAt = clock]
    /\ step' = "done"
    /\ UNCHANGED <<tally, spoken, moved, told, stops, clock>>

(* The rest of the tick, in which an act for the theory may be reversed:   *)
(* demote_after_reaction overrides the belief.                             *)
Reverse ==
    /\ step = "done"
    /\ \E id \in Reversals : Override(id, "reversal")
    /\ UNCHANGED <<tally, spoken, told, step, stops, clock>>

NextTick ==
    /\ step = "done" /\ step' = "score"
    /\ clock' \in {c \in clock..clock + 1 : c <= MaxTime}
    /\ UNCHANGED <<tally, belief, spoken, moved, told, stops>>

(* People speak at any time; the tick loads what they said when it begins. *)
Speak ==
    /\ step = "done"
    /\ \E id \in Corrections \ spoken : spoken' = spoken \cup {id}
    /\ UNCHANGED <<tally, belief, moved, told, step, stops, clock>>

(* The process stops: what was appended stays, what was to be saved next   *)
(* is lost, and the next tick begins from the files.                       *)
Stop ==
    /\ stops < MaxStops /\ stops' = stops + 1
    /\ step \in {"evaluate", "correct", "mark"} /\ step' = "done"
    /\ UNCHANGED <<tally, belief, spoken, moved, told, clock>>

Tick == Settle \/ Evaluate \/ Correct \/ Narrate \/ Mark \/ NextTick

Next == Tick \/ Reverse \/ Speak \/ Stop

Spec == Init /\ [][Next]_vars

-----------------------------------------------------------------------------
(* The row keeps its shape and counts no result that was never settled.    *)
BeliefTypeOK ==
    /\ tally \in [{"favorable", "unfavorable"} -> 0..MaxResults]
    /\ belief.state \in States /\ belief.evaluated \in 0..Total(tally)
    /\ belief.applied \subseteq Corrections \cup Reversals
    /\ belief.pending # None => belief.pending.to \in States \ {"tentative"}
    /\ belief.narratedAt \in 0..clock
    /\ spoken \subseteq Corrections
    /\ moved.results \in 0..Total(tally) /\ stops \in 0..MaxStops /\ clock \in 1..MaxTime

(* evaluate: "an old result cannot ... immediately undo a newer human      *)
(* correction".  A calibrated move always rests on a result that settled   *)
(* after the move before it, whoever made that one.                        *)
MovesNeedNewResults ==
    [][moved'.cause = "calibration" /\ moved' # moved
         => Total(tally) > moved.results]_vars

(* calibrated_next, apply_override: an abandoned belief is never taken up  *)
(* again, by results or by corrections.                                    *)
AbandonedIsFinal ==
    [][belief.state = "abandoned" => belief'.state = "abandoned"]_vars

(* evaluate: support is earned by three favorable results that lead by     *)
(* two, and after a doubt by four that lead by three.                      *)
SupportIsEarned ==
    [][belief.state # "supported" /\ belief'.state = "supported" =>
         /\ tally.favorable >= 3 /\ tally.favorable >= tally.unfavorable + 2
         /\ belief.state = "doubtful" =>
              tally.favorable >= 4 /\ tally.favorable >= tally.unfavorable + 3]_vars

(* A belief moves on results it has not moved on before, never out of      *)
(* abandonment, and into support only by the whole measure.                *)
BeliefsMoveForCause == MovesNeedNewResults /\ AbandonedIsFinal /\ SupportIsEarned

(* next_narration and mark_narrated: two asides on one theory are a        *)
(* cooldown apart, except that a stop between telling and marking may      *)
(* cost one repetition.                                                    *)
Telling == step # "mark" /\ step' = "mark"
AsidesArePaced ==
    [][Telling => \/ told.at = 0 \/ stops > told.stops
                  \/ clock - told.at >= Cooldown]_vars
=============================================================================
