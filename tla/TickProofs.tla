------------------------------ MODULE TickProofs ------------------------------
(***************************************************************************)
(* Proofs about what the tick tends: what is believed of a theory moves    *)
(* for cause and its asides are paced, scoring is fair to evidence and     *)
(* settles once, a recorded assent has a whole policy, and replies keep    *)
(* faith - whoever speaks, corrects or turns a device, and wherever the    *)
(* process stops, for every bound and every duration.                      *)
(***************************************************************************)
EXTENDS MCTick, SequenceTheorems, NaturalsInduction, WellFoundedInduction, TLAPS

-----------------------------------------------------------------------------
(* The belief of one theory.                                               *)

Tallies == [favorable : Nat, unfavorable : Nat]
Asides == {None} \cup [to : States \ {"tentative"}, at : Nat]
Causes == {"none", "calibration", "correction", "reversal"}
BeliefRows == [state : States, evaluated : Nat, applied : SUBSET (Corrections \cup Reversals),
         pending : Asides, narratedAt : Nat]

(* What every variable is, and that no row counts a result that has not    *)
(* settled.                                                                *)
BeliefShape ==
    /\ tally \in Tallies /\ belief \in BeliefRows
    /\ spoken \subseteq Corrections
    /\ moved \in [cause : Causes, results : Nat]
    /\ told \in [at : Nat, stops : Nat]
    /\ stops \in Nat /\ clock \in Nat /\ clock > 0
    /\ moved.results <= Total(tally) /\ belief.evaluated <= Total(tally)

(* A row that can still be calibrated has counted every result its last    *)
(* move rests on: only a reversal may be made on results not yet folded,   *)
(* and it abandons.                                                        *)
Rested ==
    /\ step = "correct" => belief.evaluated = Total(tally)
    /\ belief.state # "abandoned" => moved.results <= belief.evaluated

(* The row knows the last aside, unless a stop came between.               *)
Dated ==
    /\ told.stops <= stops
    /\ step = "mark" => told.at = clock
    /\ told.at > 0 /\ told.stops = stops /\ step # "mark" => belief.narratedAt = told.at

BeliefInv == BeliefShape /\ Rested /\ Dated

-----------------------------------------------------------------------------
(* calibrated_next: what it returns, and what it asks for.                 *)
LEMMA CalibratedFacts ==
    ASSUME NEW s \in States, NEW e \in Tallies
    PROVE  /\ CalibratedNext(s, e) \in States
           /\ CalibratedNext(s, e) # s => CalibratedNext(s, e) # "tentative"
           /\ s = "abandoned" => CalibratedNext(s, e) = "abandoned"
           /\ CalibratedNext(s, e) = "supported" /\ s # "supported" =>
                /\ e.favorable >= 3 /\ e.favorable >= e.unfavorable + 2
                /\ s = "doubtful" =>
                     e.favorable >= 4 /\ e.favorable >= e.unfavorable + 3
BY DEF CalibratedNext, States, Tallies

(* record_transition: the fields a move leaves alone.                      *)
LEMMA MovedRow ==
    ASSUME NEW b \in BeliefRows, NEW to \in States \ {"tentative"}, NEW at \in Nat
    PROVE  LET row == [b EXCEPT !.state = to, !.pending = [to |-> to, at |-> at]]
           IN  /\ row \in BeliefRows /\ row.state = to
               /\ row.evaluated = b.evaluated /\ row.narratedAt = b.narratedAt
BY DEF BeliefRows, Asides

LEMMA TotalIsNat ==
    ASSUME NEW e \in Tallies
    PROVE  Total(e) \in Nat
BY DEF Total, Tallies

(* apply_override: an abandoned row stays as it is, and any other rests on *)
(* what has settled.                                                       *)
LEMMA OverrideEffect ==
    ASSUME BeliefShape, NEW id \in Corrections \cup Reversals,
           NEW kind \in {"correction", "reversal"}, Override(id, kind)
    PROVE  /\ belief' \in BeliefRows
           /\ belief'.evaluated = belief.evaluated
           /\ belief'.narratedAt = belief.narratedAt
           /\ \/ belief'.state = belief.state /\ moved' = moved
              \/ /\ belief.state # "abandoned" /\ belief'.state = Target(kind)
                 /\ moved' = [cause |-> kind, results |-> Total(tally)]
<1> DEFINE noted == [belief EXCEPT !.applied = @ \cup {id}]
<1>1. /\ noted \in BeliefRows /\ noted.evaluated = belief.evaluated
      /\ noted.narratedAt = belief.narratedAt /\ noted.state = belief.state
  BY DEF BeliefShape, BeliefRows
<1>2. Target(kind) \in States \ {"tentative"}
  BY DEF Target, States
<1>3. CASE TargetMoves(belief, kind)
  <2>1. /\ belief' = [noted EXCEPT !.state = Target(kind),
                                   !.pending = [to |-> Target(kind), at |-> clock]]
        /\ moved' = [cause |-> kind, results |-> Total(tally)]
    BY <1>3 DEF Override, Move, Pending
  <2>2. clock \in Nat
    BY DEF BeliefShape
  <2> HIDE DEF noted
  <2>3. /\ belief' \in BeliefRows /\ belief'.state = Target(kind)
        /\ belief'.evaluated = noted.evaluated /\ belief'.narratedAt = noted.narratedAt
    BY <1>1, <1>2, <2>1, <2>2, MovedRow
  <2>4. belief.state # "abandoned"
    BY <1>3 DEF TargetMoves
  <2> QED BY <1>1, <2>1, <2>3, <2>4
<1>4. CASE ~TargetMoves(belief, kind)
  <2>1. belief' = noted /\ moved' = moved
    BY <1>4 DEF Override
  <2> HIDE DEF noted
  <2> QED BY <1>1, <2>1
<1> QED BY <1>3, <1>4

(* evaluate: the row counts what has settled, and a move by calibration is *)
(* one of calibrated_next, on results that grew.                           *)
LEMMA EvaluateEffect ==
    ASSUME BeliefShape, Evaluate
    PROVE  /\ belief' \in BeliefRows
           /\ belief'.evaluated = Total(tally)
           /\ belief'.narratedAt = belief.narratedAt
           /\ \/ belief'.state = belief.state /\ moved' = moved
              \/ /\ Grew /\ belief'.state # belief.state
                 /\ belief'.state = CalibratedNext(belief.state, tally)
                 /\ moved' = [cause |-> "calibration", results |-> Total(tally)]
<1> DEFINE folded == [belief EXCEPT !.evaluated = Total(tally)]
           to == CalibratedNext(belief.state, tally)
<1>1. /\ folded \in BeliefRows /\ folded.evaluated = Total(tally)
      /\ folded.narratedAt = belief.narratedAt /\ folded.state = belief.state
  BY TotalIsNat DEF BeliefShape, BeliefRows
<1>2. to \in States /\ (to # belief.state => to \in States \ {"tentative"})
  BY CalibratedFacts DEF BeliefShape, BeliefRows
<1>3. CASE Grew /\ to # belief.state
  <2>1. /\ belief' = [folded EXCEPT !.state = to, !.pending = [to |-> to, at |-> clock]]
        /\ moved' = [cause |-> "calibration", results |-> Total(tally)]
    BY <1>3 DEF Evaluate, Move, Pending
  <2>2. clock \in Nat
    BY DEF BeliefShape
  <2> HIDE DEF folded, to
  <2>3. /\ belief' \in BeliefRows /\ belief'.state = to
        /\ belief'.evaluated = folded.evaluated /\ belief'.narratedAt = folded.narratedAt
    BY <1>1, <1>2, <1>3, <2>1, <2>2, MovedRow
  <2> QED BY <1>1, <1>3, <2>1, <2>3 DEF to
<1>4. CASE ~(Grew /\ to # belief.state)
  <2>1. belief' = folded /\ moved' = moved
    BY <1>4 DEF Evaluate
  <2> HIDE DEF folded, to
  <2> QED BY <1>1, <2>1
<1> QED BY <1>3, <1>4

-----------------------------------------------------------------------------
(* The invariant                                                           *)
LEMMA BeliefInitInv == BeliefAssumption /\ Init => BeliefInv
<1> SUFFICES ASSUME BeliefAssumption, Init PROVE BeliefInv
  OBVIOUS
<1>1. belief \in BeliefRows
  BY DEF Init, BeliefRows, States, Asides
<1>2. Total(tally) = 0 /\ tally \in Tallies
  BY DEF Init, Total, Tallies
<1>3. BeliefShape
  BY <1>1, <1>2 DEF Init, BeliefShape, Causes
<1>4. Rested
  BY <1>2 DEF Init, Rested
<1>5. Dated
  BY DEF Init, Dated
<1> QED BY <1>3, <1>4, <1>5 DEF BeliefInv

(* Settling only adds.                                                     *)
LEMMA SettleKeeps == BeliefInv /\ Settle => BeliefInv'
<1> SUFFICES ASSUME BeliefInv, Settle PROVE BeliefInv'
  OBVIOUS
<1>1. /\ tally' \in Tallies /\ Total(tally) <= Total(tally')
      /\ Total(tally) \in Nat /\ Total(tally') \in Nat
  <2>1. PICK f \in 0..2, u \in 0..2 :
          tally' = [favorable |-> tally.favorable + f, unfavorable |-> tally.unfavorable + u]
    BY DEF Settle
  <2> QED BY <2>1 DEF BeliefInv, BeliefShape, Tallies, Total
<1>2. UNCHANGED <<belief, spoken, moved, told, stops, clock>> /\ step' = "evaluate"
  BY DEF Settle
<1>3. belief.evaluated \in Nat /\ moved.results \in Nat
  BY DEF BeliefInv, BeliefShape, BeliefRows
<1>4. BeliefShape'
  BY <1>1, <1>2, <1>3 DEF BeliefInv, BeliefShape
<1>5. Rested'
  BY <1>2 DEF BeliefInv, Rested
<1>6. Dated'
  BY <1>2 DEF BeliefInv, Dated, Settle
<1> QED BY <1>4, <1>5, <1>6 DEF BeliefInv

(* A fold counts everything, so what it moves rests on what it counted.    *)
LEMMA EvaluateKeeps == BeliefInv /\ Evaluate => BeliefInv'
<1> SUFFICES ASSUME BeliefInv, Evaluate PROVE BeliefInv'
  OBVIOUS
<1>1. /\ belief' \in BeliefRows /\ belief'.evaluated = Total(tally)
      /\ belief'.narratedAt = belief.narratedAt
      /\ \/ moved' = moved
         \/ moved' = [cause |-> "calibration", results |-> Total(tally)]
  BY EvaluateEffect DEF BeliefInv
<1>2. /\ UNCHANGED <<tally, spoken, told, stops, clock>>
      /\ step = "evaluate" /\ step' = "correct"
  BY DEF Evaluate
<1>3. Total(tally) \in Nat /\ Total(tally)' = Total(tally)
  BY <1>2, TotalIsNat DEF BeliefInv, BeliefShape, Total
<1>4. moved' \in [cause : Causes, results : Nat] /\ moved'.results <= Total(tally)
  BY <1>1, <1>3 DEF BeliefInv, BeliefShape, Causes
<1>5. BeliefShape'
  BY <1>1, <1>2, <1>3, <1>4 DEF BeliefInv, BeliefShape
<1>6. Rested'
  BY <1>1, <1>2, <1>3, <1>4 DEF Rested
<1>7. Dated'
  BY <1>1, <1>2 DEF BeliefInv, Dated
<1> QED BY <1>5, <1>6, <1>7 DEF BeliefInv

(* An override never leaves a row that can be calibrated on results it has *)
(* not counted: a correction comes right after the fold, a reversal        *)
(* abandons.                                                               *)
LEMMA OverrideKeeps ==
    ASSUME BeliefInv, NEW id \in Corrections \cup Reversals,
           NEW kind \in {"correction", "reversal"}, Override(id, kind),
           UNCHANGED <<tally, spoken, told, step, stops, clock>>,
           kind = "correction" => step = "correct",
           step # "mark"
    PROVE  BeliefInv'
<1>1. /\ belief' \in BeliefRows
      /\ belief'.evaluated = belief.evaluated
      /\ belief'.narratedAt = belief.narratedAt
      /\ \/ belief'.state = belief.state /\ moved' = moved
         \/ /\ belief.state # "abandoned" /\ belief'.state = Target(kind)
            /\ moved' = [cause |-> kind, results |-> Total(tally)]
  BY OverrideEffect DEF BeliefInv
<1>2. Total(tally) \in Nat /\ Total(tally)' = Total(tally)
  BY TotalIsNat DEF BeliefInv, BeliefShape, Total
<1>3. kind \in Causes
  BY DEF Causes
<1>4. moved' \in [cause : Causes, results : Nat] /\ moved'.results <= Total(tally)
  BY <1>1, <1>2, <1>3 DEF BeliefInv, BeliefShape
<1>5. BeliefShape'
  BY <1>1, <1>2, <1>4 DEF BeliefInv, BeliefShape
<1>6. Rested'
  <2>1. (step = "correct" => belief.evaluated = Total(tally))'
    BY <1>1, <1>2 DEF BeliefInv, Rested
  <2>2. (belief.state # "abandoned" => moved.results <= belief.evaluated)'
    <3>1. CASE moved' = moved /\ belief'.state = belief.state
      BY <1>1, <3>1 DEF BeliefInv, Rested
    <3>2. CASE belief'.state = Target(kind) /\ kind = "reversal"
      BY <3>2 DEF Target
    <3>3. CASE kind = "correction" /\ moved' = [cause |-> kind, results |-> Total(tally)]
      BY <1>1, <1>2, <3>3 DEF BeliefInv, Rested
    <3> QED BY <1>1, <3>1, <3>2, <3>3
  <2> QED BY <2>1, <2>2 DEF Rested
<1>7. Dated'
  BY <1>1 DEF BeliefInv, Dated
<1> QED BY <1>5, <1>6, <1>7 DEF BeliefInv

LEMMA CorrectKeeps == BeliefInv /\ Correct => BeliefInv'
<1> SUFFICES ASSUME BeliefInv, Correct PROVE BeliefInv'
  OBVIOUS
<1>1. step = "correct" /\ UNCHANGED <<tally, spoken, told, stops, clock>>
  BY DEF Correct
<1>2. ASSUME NEW id \in spoken, Override(id, "correction"), UNCHANGED step
      PROVE  BeliefInv'
  <2>1. id \in Corrections \cup Reversals
    BY DEF BeliefInv, BeliefShape
  <2> QED BY <1>1, <1>2, <2>1, OverrideKeeps
<1>3. ASSUME step' = "narrate", UNCHANGED <<belief, moved>>
      PROVE  BeliefInv'
  <2>1. BeliefShape'
    BY <1>1, <1>3 DEF BeliefInv, BeliefShape, Total
  <2>2. Rested' /\ Dated'
    BY <1>1, <1>3 DEF BeliefInv, Rested, Dated, Total
  <2> QED BY <2>1, <2>2 DEF BeliefInv
<1> QED BY <1>2, <1>3 DEF Correct

LEMMA NarrateKeeps == BeliefInv /\ Narrate => BeliefInv'
<1> SUFFICES ASSUME BeliefInv, Narrate PROVE BeliefInv'
  OBVIOUS
<1>1. step = "narrate" /\ UNCHANGED <<tally, belief, spoken, moved, stops, clock>>
  BY DEF Narrate
<1>2. \/ told' = [at |-> clock, stops |-> stops] /\ step' = "mark"
      \/ UNCHANGED told /\ step' = "done"
  BY DEF Narrate
<1>3. BeliefShape'
  BY <1>1, <1>2 DEF BeliefInv, BeliefShape, Total
<1>4. Rested'
  BY <1>1, <1>2 DEF BeliefInv, Rested
<1>5. Dated'
  BY <1>1, <1>2 DEF BeliefInv, Dated, BeliefShape
<1> QED BY <1>3, <1>4, <1>5 DEF BeliefInv

LEMMA MarkKeeps == BeliefInv /\ Mark => BeliefInv'
<1> SUFFICES ASSUME BeliefInv, Mark PROVE BeliefInv'
  OBVIOUS
<1>1. /\ step = "mark" /\ step' = "done"
      /\ UNCHANGED <<tally, spoken, moved, told, stops, clock>>
  BY DEF Mark
<1>2. /\ belief' \in BeliefRows /\ belief'.evaluated = belief.evaluated
      /\ belief'.state = belief.state /\ belief'.narratedAt = clock
  BY DEF Mark, BeliefInv, BeliefShape, BeliefRows, Asides
<1>3. BeliefShape'
  BY <1>1, <1>2 DEF BeliefInv, BeliefShape, Total
<1>4. Rested'
  BY <1>1, <1>2 DEF BeliefInv, Rested
<1>5. Dated'
  BY <1>1, <1>2 DEF BeliefInv, Dated
<1> QED BY <1>3, <1>4, <1>5 DEF BeliefInv

LEMMA ReverseKeeps == BeliefInv /\ Reverse => BeliefInv'
<1> SUFFICES ASSUME BeliefInv, Reverse PROVE BeliefInv'
  OBVIOUS
<1>1. PICK id \in Reversals : Override(id, "reversal")
  BY DEF Reverse
<1>2. id \in Corrections \cup Reversals
  OBVIOUS
<1>3. step # "mark" /\ UNCHANGED <<tally, spoken, told, step, stops, clock>>
  BY DEF Reverse
<1> QED BY <1>1, <1>2, <1>3, OverrideKeeps

(* Time, speech and a stop touch no row.                                   *)
LEMMA BeliefRests == BeliefInv /\ (NextTick \/ Speak \/ Stop \/ UNCHANGED vars) => BeliefInv'
<1> SUFFICES ASSUME BeliefInv, NextTick \/ Speak \/ Stop \/ UNCHANGED vars
             PROVE  BeliefInv'
  OBVIOUS
<1>1. CASE NextTick
  <2>1. clock' \in Nat /\ clock' > 0
    BY <1>1 DEF NextTick, BeliefInv, BeliefShape
  <2> QED BY <1>1, <2>1 DEF NextTick, BeliefInv, BeliefShape, Rested, Dated, Total
<1>2. CASE Speak
  BY <1>2 DEF Speak, BeliefInv, BeliefShape, Rested, Dated, Total
<1>3. CASE Stop
  BY <1>3 DEF Stop, BeliefInv, BeliefShape, Rested, Dated, Total
<1>4. CASE UNCHANGED vars
  BY <1>4 DEF vars, BeliefInv, BeliefShape, Rested, Dated, Total
<1> QED BY <1>1, <1>2, <1>3, <1>4

LEMMA BeliefNextKeeps == BeliefInv /\ [Next]_vars => BeliefInv'
BY SettleKeeps, EvaluateKeeps, CorrectKeeps, NarrateKeeps, MarkKeeps, ReverseKeeps,
   BeliefRests DEF Next, Tick

(* The row and the last aside, in every state that can be reached.         *)
THEOREM BeliefInvariant ==
    ASSUME BeliefAssumption
    PROVE  Spec => []BeliefInv
<1> QED BY BeliefInitInv, BeliefNextKeeps, PTL DEF Spec

-----------------------------------------------------------------------------
(* What a step does to the row, for the three action properties.           *)
LEMMA BeliefStepMoves ==
    ASSUME BeliefInv, [Next]_vars
    PROVE  /\ moved'.cause = "calibration" /\ moved' # moved
                => Total(tally) > moved.results
           /\ belief.state = "abandoned" => belief'.state = "abandoned"
           /\ belief.state # "supported" /\ belief'.state = "supported" =>
                /\ tally.favorable >= 3 /\ tally.favorable >= tally.unfavorable + 2
                /\ belief.state = "doubtful" =>
                     tally.favorable >= 4 /\ tally.favorable >= tally.unfavorable + 3
<1>1. CASE Evaluate
  <2>1. /\ \/ belief'.state = belief.state /\ moved' = moved
           \/ /\ Grew /\ belief'.state # belief.state
              /\ belief'.state = CalibratedNext(belief.state, tally)
              /\ moved' = [cause |-> "calibration", results |-> Total(tally)]
    BY <1>1, EvaluateEffect DEF BeliefInv
  <2>2. belief.state \in States /\ tally \in Tallies
    BY DEF BeliefInv, BeliefShape, BeliefRows
  <2>3. /\ belief.state = "abandoned" => CalibratedNext(belief.state, tally) = "abandoned"
        /\ CalibratedNext(belief.state, tally) = "supported" /\ belief.state # "supported" =>
             /\ tally.favorable >= 3 /\ tally.favorable >= tally.unfavorable + 2
             /\ belief.state = "doubtful" =>
                  tally.favorable >= 4 /\ tally.favorable >= tally.unfavorable + 3
    BY <2>2, CalibratedFacts
  <2>4. CASE belief'.state = belief.state /\ moved' = moved
    BY <2>4
  <2>5. CASE /\ Grew /\ belief'.state # belief.state
             /\ belief'.state = CalibratedNext(belief.state, tally)
    <3>1. belief.state # "abandoned"
      BY <2>3, <2>5
    <3>2. moved.results <= belief.evaluated /\ Total(tally) > belief.evaluated
      BY <2>5, <3>1 DEF Grew, BeliefInv, Rested
    <3>3. Total(tally) \in Nat /\ moved.results \in Nat /\ belief.evaluated \in Nat
      BY TotalIsNat DEF BeliefInv, BeliefShape, BeliefRows
    <3> QED BY <2>3, <2>5, <3>1, <3>2, <3>3
  <2> QED BY <2>1, <2>4, <2>5
<1>2. ASSUME NEW id \in Corrections \cup Reversals,
             NEW kind \in {"correction", "reversal"}, Override(id, kind)
      PROVE  /\ moved'.cause = "calibration" => moved' = moved
             /\ belief.state = "abandoned" => belief'.state = "abandoned"
             /\ belief'.state = "supported" => belief.state = "supported"
  <2>1. \/ belief'.state = belief.state /\ moved' = moved
        \/ /\ belief.state # "abandoned" /\ belief'.state = Target(kind)
           /\ moved' = [cause |-> kind, results |-> Total(tally)]
    BY <1>2, OverrideEffect DEF BeliefInv
  <2>2. Target(kind) # "supported"
    BY DEF Target
  <2>3. CASE belief'.state = belief.state /\ moved' = moved
    BY <2>3
  <2>4. CASE /\ belief.state # "abandoned" /\ belief'.state = Target(kind)
             /\ moved' = [cause |-> kind, results |-> Total(tally)]
    <3>1. moved'.cause = kind
      BY <2>4
    <3> QED BY <2>2, <2>4, <3>1
  <2> QED BY <2>1, <2>3, <2>4
<1>3. CASE Correct
  <2>1. CASE \E id \in spoken : Override(id, "correction")
    <3>1. PICK id \in spoken : Override(id, "correction")
      BY <2>1
    <3>2. id \in Corrections \cup Reversals
      BY DEF BeliefInv, BeliefShape
    <3> QED BY <1>2, <3>1, <3>2
  <2>2. CASE UNCHANGED <<belief, moved>>
    BY <2>2
  <2> QED BY <1>3, <2>1, <2>2 DEF Correct
<1>4. CASE Reverse
  <2>1. PICK id \in Reversals : Override(id, "reversal")
    BY <1>4 DEF Reverse
  <2> QED BY <1>2, <2>1
<1>5. CASE Mark
  <2>1. belief'.state = belief.state /\ moved' = moved
    BY <1>5 DEF Mark, BeliefInv, BeliefShape, BeliefRows
  <2> QED BY <2>1
<1>6. CASE Settle \/ Narrate \/ NextTick \/ Speak \/ Stop \/ UNCHANGED vars
  <2>1. UNCHANGED <<belief, moved>>
    BY <1>6 DEF Settle, Narrate, NextTick, Speak, Stop, vars
  <2> QED BY <2>1
<1> QED BY <1>1, <1>3, <1>4, <1>5, <1>6 DEF Next, Tick

(* evaluate, calibrated_next, apply_override: a belief moves on results it *)
(* has not moved on before, is never taken out of abandonment, and is      *)
(* supported only by the whole measure.                                    *)
THEOREM BeliefsMove ==
    ASSUME BeliefAssumption
    PROVE  Spec => BeliefsMoveForCause
<1>1. Spec => []BeliefInv
  BY BeliefInvariant
<1>2. BeliefInv /\ [Next]_vars =>
        /\ [moved'.cause = "calibration" /\ moved' # moved
               => Total(tally) > moved.results]_vars
        /\ [belief.state = "abandoned" => belief'.state = "abandoned"]_vars
        /\ [belief.state # "supported" /\ belief'.state = "supported" =>
               /\ tally.favorable >= 3 /\ tally.favorable >= tally.unfavorable + 2
               /\ belief.state = "doubtful" =>
                    tally.favorable >= 4 /\ tally.favorable >= tally.unfavorable + 3]_vars
  BY BeliefStepMoves
<1> QED BY <1>1, <1>2, PTL
     DEF Spec, BeliefsMoveForCause, MovesNeedNewResults, AbandonedIsFinal, SupportIsEarned

(* next_narration and mark_narrated: two asides are a cooldown apart,      *)
(* unless a stop came between telling and marking.                         *)
THEOREM AsidesKeepTheirPace ==
    ASSUME BeliefAssumption
    PROVE  Spec => AsidesArePaced
<1>1. Spec => []BeliefInv
  BY BeliefInvariant
<1>2. BeliefInv /\ [Next]_vars =>
        [Telling => \/ told.at = 0 \/ stops > told.stops
                    \/ clock - told.at >= Cooldown]_vars
  <2> SUFFICES ASSUME BeliefInv, Next, Telling
               PROVE  told.at = 0 \/ stops > told.stops \/ clock - told.at >= Cooldown
    BY DEF Telling, vars
  <2>1. Narrate
    BY DEF Telling, Next, Tick, Settle, Evaluate, Correct, Mark, NextTick, Reverse, Speak, Stop
  <2>2. ~Quiet /\ step # "mark"
    BY <2>1 DEF Narrate, Telling
  <2>3. told.at \in Nat /\ told.stops \in Nat /\ stops \in Nat /\ clock \in Nat
    BY DEF BeliefInv, BeliefShape
  <2>4. Cooldown \in Nat
    BY DEF BeliefAssumption
  <2>5. told.at > 0 /\ told.stops = stops => belief.narratedAt = told.at
    BY <2>2 DEF BeliefInv, Dated
  <2>6. told.stops <= stops
    BY DEF BeliefInv, Dated
  <2> QED BY <2>2, <2>3, <2>4, <2>5, <2>6 DEF Quiet
<1> QED BY <1>1, <1>2, PTL DEF Spec, AsidesArePaced

(* What the bounds and the clock say of the row.                           *)
BeliefBounds ==
    /\ tally.favorable <= MaxResults /\ tally.unfavorable <= MaxResults
    /\ stops <= MaxStops /\ clock <= MaxTime /\ belief.narratedAt <= clock

LEMMA BeliefBoundsKept ==
    ASSUME BeliefAssumption, BeliefInv, BeliefBounds, [Next]_vars
    PROVE  BeliefBounds'
<1>1. clock \in Nat /\ stops \in Nat /\ belief.narratedAt \in Nat /\ MaxStops \in Nat
      /\ MaxTime \in Nat
  BY DEF BeliefInv, BeliefShape, BeliefRows, BeliefAssumption
<1>2. CASE Settle
  BY <1>1, <1>2 DEF Settle, BeliefBounds
<1>3. CASE Evaluate
  <2>1. belief'.narratedAt = belief.narratedAt /\ UNCHANGED <<tally, stops, clock>>
    BY <1>3, EvaluateEffect DEF Evaluate, BeliefInv
  <2> QED BY <2>1 DEF BeliefBounds
<1>4. ASSUME NEW id \in Corrections \cup Reversals, NEW kind \in {"correction", "reversal"},
             Override(id, kind), UNCHANGED <<tally, stops, clock>>
      PROVE  BeliefBounds'
  <2>1. belief'.narratedAt = belief.narratedAt
    BY <1>4, OverrideEffect DEF BeliefInv
  <2> QED BY <1>4, <2>1 DEF BeliefBounds
<1>5. CASE Correct
  <2>1. \A id \in spoken : id \in Corrections \cup Reversals
    BY DEF BeliefInv, BeliefShape
  <2>2. UNCHANGED <<tally, stops, clock>>
    BY <1>5 DEF Correct
  <2>3. CASE UNCHANGED belief
    BY <2>2, <2>3 DEF BeliefBounds
  <2>4. CASE \E id \in spoken : Override(id, "correction")
    BY <1>4, <2>1, <2>2, <2>4
  <2> QED BY <1>5, <2>3, <2>4 DEF Correct
<1>6. CASE Reverse
  BY <1>4, <1>6 DEF Reverse
<1>7. CASE Mark
  <2>1. belief'.narratedAt = clock
    BY <1>7 DEF Mark, BeliefInv, BeliefShape, BeliefRows
  <2>2. UNCHANGED <<tally, stops, clock>>
    BY <1>7 DEF Mark
  <2> QED BY <1>1, <2>1, <2>2 DEF BeliefBounds
<1>8. CASE Narrate \/ Speak \/ UNCHANGED vars
  BY <1>8 DEF Narrate, Speak, vars, BeliefBounds
<1>9. CASE NextTick
  BY <1>1, <1>9 DEF NextTick, BeliefBounds
<1>10. CASE Stop
  BY <1>1, <1>10 DEF Stop, BeliefBounds
<1> QED BY <1>2, <1>3, <1>5, <1>6, <1>7, <1>8, <1>9, <1>10 DEF Next, Tick

LEMMA BeliefBoundsInit == BeliefAssumption /\ Init => BeliefBounds
BY DEF BeliefAssumption, Init, BeliefBounds

LEMMA BeliefTyped ==
    ASSUME BeliefAssumption, BeliefInv, BeliefBounds
    PROVE  BeliefTypeOK
<1>1. /\ tally \in Tallies /\ belief \in BeliefRows /\ spoken \subseteq Corrections
      /\ moved \in [cause : Causes, results : Nat] /\ stops \in Nat /\ clock \in Nat
      /\ clock > 0 /\ moved.results <= Total(tally) /\ belief.evaluated <= Total(tally)
  BY DEF BeliefInv, BeliefShape
<1>2. tally.favorable \in 0..MaxResults /\ tally.unfavorable \in 0..MaxResults
  BY <1>1 DEF Tallies, BeliefBounds, BeliefAssumption
<1>3. tally \in [{"favorable", "unfavorable"} -> 0..MaxResults]
  BY <1>1, <1>2 DEF Tallies
<1>4. Total(tally) \in Nat
  BY <1>1, TotalIsNat
<1>5. /\ belief.state \in States /\ belief.evaluated \in 0..Total(tally)
      /\ belief.applied \subseteq Corrections \cup Reversals
      /\ belief.narratedAt \in 0..clock
  BY <1>1, <1>4 DEF BeliefRows, BeliefBounds
<1>6. belief.pending # None => belief.pending.to \in States \ {"tentative"}
  BY <1>1 DEF BeliefRows, Asides
<1>7. moved.results \in 0..Total(tally) /\ stops \in 0..MaxStops /\ clock \in 1..MaxTime
  BY <1>1, <1>4 DEF BeliefBounds, BeliefAssumption
<1> QED BY <1>1, <1>3, <1>5, <1>6, <1>7 DEF BeliefTypeOK

-----------------------------------------------------------------------------
(* The scoring of standing predictions.                                    *)

Observations == [ts : Nat, late : Nat, class : BOOLEAN]
ScoredOutcomes == {"confirmed", "missed", "absent_violated", "absent_confirmed"}
ScoredRows == [of : Claims, outcome : ScoredOutcomes, from : Nat, deadline : Nat, at : Nat, run : Nat]

(* What every variable is; an open instance is not matched yet, and no     *)
(* observation is of the future.                                           *)
ScoringShape ==
    /\ claim \in [Claims -> Instances \cup {NoClaim}]
    /\ \A c \in Claims : claim[c] # NoClaim => claim[c].matched = FALSE
    /\ results \subseteq ScoredRows
    /\ events \subseteq Observations /\ \A o \in events : o.ts <= hour
    /\ scored \in Nat /\ scored <= hour
    /\ halts \in Nat /\ hour \in Nat

(* A claim that is still open has no row of this run.                      *)
OpenHasNoRow ==
    /\ \A r \in results : r.run <= halts
    /\ \A c \in Claims, r \in results : claim[c] # NoClaim /\ r.of = c => r.run < halts

Punctual(o) == o.class = TRUE /\ o.late < Grace
Within_(from, deadline, o) == o.ts >= from /\ o.ts <= deadline

(* What was recorded in time and lies in the window of an open claim will  *)
(* be looked at by the next pass.                                          *)
InSight ==
    \A c \in Claims, o \in events :
        claim[c] # NoClaim /\ Punctual(o) /\ Within_(claim[c].from, claim[c].deadline, o)
            => o.ts > scored - Grace

(* A quiet outcome comes too late for more such evidence.                  *)
QuietIsLate ==
    \A r \in results : r.at <= hour /\ (IsQuiet(r) => r.at > r.deadline + Grace)

ScoringInv ==
    /\ ScoringShape /\ OpenHasNoRow /\ InSight /\ QuietIsLate
    /\ OneRowPerSettlement /\ PunctualEvidenceCounts

-----------------------------------------------------------------------------
(* What a pass makes of an open instance.                                  *)
LEMMA MatchedFacts ==
    ASSUME NEW i \in Instances
    PROVE  /\ Matched(i) \in Instances
           /\ Matched(i).polarity = i.polarity
           /\ Matched(i).from = i.from /\ Matched(i).deadline = i.deadline
           /\ Matched(i).matched = (i.matched \/ \E o \in Fresh : InWindow(i, o))
BY DEF Matched, Instances

(* A row of a pass: its fields, and that it is quiet only of what nothing  *)
(* matched.                                                                *)
LEMMA ResultFacts ==
    ASSUME NEW c \in Claims, NEW i \in Instances, hour \in Nat, halts \in Nat
    PROVE  /\ Result(c, i) \in ScoredRows
           /\ Result(c, i).of = c /\ Result(c, i).run = halts /\ Result(c, i).at = hour
           /\ Result(c, i).from = i.from /\ Result(c, i).deadline = i.deadline
           /\ IsQuiet(Result(c, i)) => i.matched = FALSE
<1>1. Outcome(i) \in ScoredOutcomes
  BY DEF Outcome, ScoredOutcomes
<1>2. Outcome(i) \in {"missed", "absent_confirmed"} => i.matched = FALSE
  BY DEF Outcome, Instances
<1>3. i.from \in Nat /\ i.deadline \in Nat
  BY DEF Instances
<1> QED BY <1>1, <1>2, <1>3 DEF Result, ScoredRows, IsQuiet

(* The rows a pass appends, all of them or those before it was cut off:    *)
(* one for each claim, none of it open in an earlier row of this run, and  *)
(* quiet only when no punctual evidence is on the record.                  *)
LEMMA SettledRows ==
    ASSUME PredictionAssumption, ScoringInv, NEW done \in SUBSET Due,
           NEW r \in {Result(c, Matched(claim[c])) : c \in done}
    PROVE  /\ r \in ScoredRows /\ r.of \in done /\ r.run = halts /\ r.at = hour
           /\ r = Result(r.of, Matched(claim[r.of]))
           /\ IsQuiet(r) => r.at > r.deadline + Grace
           /\ \A o \in events : IsQuiet(r) /\ Punctual(o) => ~Within_(r.from, r.deadline, o)
<1>1. PICK c \in done : r = Result(c, Matched(claim[c]))
  OBVIOUS
<1>2. c \in Claims /\ claim[c] # NoClaim /\ Settled(Matched(claim[c]))
  BY DEF Due
<1> DEFINE i == claim[c]
<1>3. i \in Instances /\ i.matched = FALSE
  BY <1>2 DEF ScoringInv, ScoringShape
<1>4. /\ Matched(i) \in Instances
      /\ Matched(i).from = i.from /\ Matched(i).deadline = i.deadline
      /\ Matched(i).matched = (i.matched \/ \E o \in Fresh : InWindow(i, o))
  BY <1>3, MatchedFacts
<1>5. hour \in Nat /\ halts \in Nat /\ Grace \in Nat
  BY DEF ScoringInv, ScoringShape, PredictionAssumption
<1>6. /\ r \in ScoredRows /\ r.of = c /\ r.run = halts /\ r.at = hour
      /\ r.from = i.from /\ r.deadline = i.deadline
      /\ IsQuiet(r) => Matched(i).matched = FALSE
  BY <1>1, <1>2, <1>4, <1>5, ResultFacts
<1>7. IsQuiet(r) => r.at > r.deadline + Grace
  BY <1>2, <1>4, <1>6 DEF Settled
<1>8. ASSUME NEW o \in events, IsQuiet(r), Punctual(o), Within_(r.from, r.deadline, o)
      PROVE  FALSE
  <2>1. o.ts > scored - Grace
    BY <1>2, <1>6, <1>8 DEF ScoringInv, InSight
  <2>2. o \in Fresh
    BY <2>1 DEF Fresh, ScoringInv, ScoringShape
  <2>3. InWindow(i, o)
    BY <1>6, <1>8 DEF InWindow, Within_, Punctual
  <2> QED BY <1>4, <1>6, <1>8, <2>2, <2>3
<1> QED BY <1>1, <1>6, <1>7, <1>8

-----------------------------------------------------------------------------
LEMMA ScoringInitInv == ScoringInit => ScoringInv
<1> SUFFICES ASSUME ScoringInit PROVE ScoringInv
  OBVIOUS
<1>1. \A c \in Claims : claim[c] = NoClaim
  BY DEF ScoringInit
<1>2. ScoringShape
  BY <1>1 DEF ScoringInit, ScoringShape
<1> QED BY <1>1, <1>2
    DEF ScoringInit, ScoringInv, OpenHasNoRow, InSight, QuietIsLate, OneRowPerSettlement,
        PunctualEvidenceCounts

(* A new claim opens at this hour, and what was observed at this hour has  *)
(* not been passed over: the cursor is no later.                           *)
LEMMA MintKeeps == PredictionAssumption /\ ScoringInv /\ Mint => ScoringInv'
<1> SUFFICES ASSUME PredictionAssumption, ScoringInv, Mint PROVE ScoringInv'
  OBVIOUS
<1>1. PICK c \in Claims, p \in Polarities :
        /\ claim[c] = NoClaim /\ \A r \in results : r.of # c
        /\ claim' = [claim EXCEPT ![c] = Instance(p)]
  BY DEF Mint
<1>2. UNCHANGED <<results, events, scored, pass, halts, hour>>
  BY DEF Mint
<1>3. Instance(p) \in Instances /\ Instance(p).from = hour /\ Instance(p).matched = FALSE
  BY DEF Instance, Instances, ScoringInv, ScoringShape, PredictionAssumption
<1>4. \A d \in Claims : claim'[d] = IF d = c THEN Instance(p) ELSE claim[d]
  BY <1>1 DEF ScoringInv, ScoringShape
<1>5. ScoringShape'
  BY <1>1, <1>2, <1>3, <1>4 DEF ScoringInv, ScoringShape
<1>6. OpenHasNoRow'
  BY <1>1, <1>2, <1>4 DEF ScoringInv, OpenHasNoRow
<1>7. InSight'
  <2> SUFFICES ASSUME NEW d \in Claims, NEW o \in events, claim'[d] # NoClaim, Punctual(o),
                      Within_(claim'[d].from, claim'[d].deadline, o)
               PROVE  o.ts > scored - Grace
    BY <1>2 DEF InSight, Punctual, Within_
  <2>1. CASE d = c
    <3>1. o.ts >= hour
      BY <1>3, <1>4, <2>1 DEF Within_
    <3> QED BY <3>1 DEF ScoringInv, ScoringShape, Observations, PredictionAssumption
  <2>2. CASE d # c
    BY <1>4, <2>2 DEF ScoringInv, InSight
  <2> QED BY <2>1, <2>2
<1> QED BY <1>2, <1>5, <1>6, <1>7
    DEF ScoringInv, QuietIsLate, IsQuiet, OneRowPerSettlement, PunctualEvidenceCounts

(* What is recorded in time is still to be looked at; what is late for     *)
(* that is not punctual against a quiet outcome.                           *)
LEMMA RecordKeeps == PredictionAssumption /\ ScoringInv /\ Record => ScoringInv'
<1> SUFFICES ASSUME PredictionAssumption, ScoringInv, Record PROVE ScoringInv'
  OBVIOUS
<1>1. PICK late \in 0..MaxDelay, class \in BOOLEAN :
        /\ late < hour
        /\ events' = events \cup {[ts |-> hour - late, late |-> late, class |-> class]}
  BY DEF Record
<1>2. UNCHANGED <<claim, results, scored, pass, halts, hour>>
  BY DEF Record
<1> DEFINE new == [ts |-> hour - late, late |-> late, class |-> class]
<1>3. /\ new \in Observations /\ new.ts <= hour /\ new.ts = hour - new.late
      /\ late \in Nat /\ hour \in Nat
  BY <1>1 DEF Observations, ScoringInv, ScoringShape
<1> HIDE DEF new
<1>4. ScoringShape'
  BY <1>1, <1>2, <1>3 DEF ScoringInv, ScoringShape, new
<1>5. InSight'
  <2> SUFFICES ASSUME NEW c \in Claims, NEW o \in events', claim[c] # NoClaim, Punctual(o),
                      Within_(claim[c].from, claim[c].deadline, o)
               PROVE  o.ts > scored - Grace
    BY <1>2 DEF InSight, Punctual, Within_
  <2>1. CASE o = new
    <3>1. o.late < Grace /\ o.late \in Nat /\ scored \in Nat /\ scored <= hour
      BY <1>3, <2>1 DEF Punctual, Observations, ScoringInv, ScoringShape
    <3> QED BY <1>3, <2>1, <3>1 DEF PredictionAssumption
  <2>2. CASE o # new
    BY <1>1, <2>2 DEF ScoringInv, InSight, new
  <2> QED BY <2>1, <2>2
<1>6. PunctualEvidenceCounts'
  <2> SUFFICES ASSUME NEW r \in results, NEW o \in events', IsQuiet(r), o.class, o.late < Grace
               PROVE  ~(o.ts >= r.from /\ o.ts <= r.deadline)
    BY <1>2 DEF PunctualEvidenceCounts, IsQuiet
  <2>1. CASE o = new
    <3>1. r.at <= hour /\ r.at > r.deadline + Grace
      BY DEF ScoringInv, QuietIsLate
    <3>2. r.at \in Nat /\ r.deadline \in Nat /\ o.late \in Nat
      BY <1>3, <2>1 DEF ScoringInv, ScoringShape, ScoredRows, Observations
    <3> QED BY <1>3, <2>1, <3>1, <3>2 DEF PredictionAssumption
  <2>2. CASE o # new
    BY <1>1, <2>2 DEF ScoringInv, PunctualEvidenceCounts, new
  <2> QED BY <2>1, <2>2
<1> QED BY <1>2, <1>4, <1>5, <1>6
    DEF ScoringInv, OpenHasNoRow, QuietIsLate, IsQuiet, OneRowPerSettlement

(* The rows of a pass go with what was settled before.                     *)
LEMMA RowsKeep ==
    ASSUME PredictionAssumption, ScoringInv, NEW done \in SUBSET Due,
           results' = results \cup {Result(c, Matched(claim[c])) : c \in done},
           UNCHANGED <<events, hour>>
    PROVE  /\ results' \subseteq ScoredRows
           /\ \A r \in results' : r.run <= halts /\ (r \notin results => r.of \in done)
           /\ QuietIsLate' /\ OneRowPerSettlement' /\ PunctualEvidenceCounts'
<1> DEFINE rows == {Result(c, Matched(claim[c])) : c \in done}
<1>1. \A r \in rows :
        /\ r \in ScoredRows /\ r.of \in done /\ r.run = halts /\ r.at = hour
        /\ r = Result(r.of, Matched(claim[r.of]))
        /\ IsQuiet(r) => r.at > r.deadline + Grace
        /\ \A o \in events : IsQuiet(r) /\ Punctual(o) => ~Within_(r.from, r.deadline, o)
  BY SettledRows
<1>2. results' = results \cup rows
  OBVIOUS
<1> HIDE DEF rows
<1>3. hour \in Nat /\ halts \in Nat
  BY DEF ScoringInv, ScoringShape
<1>4. results' \subseteq ScoredRows
  BY <1>1, <1>2 DEF ScoringInv, ScoringShape
<1>5. \A r \in results' : r.run <= halts /\ (r \notin results => r.of \in done)
  BY <1>1, <1>2, <1>3 DEF ScoringInv, OpenHasNoRow
<1>6. QuietIsLate'
  BY <1>1, <1>2, <1>3 DEF ScoringInv, QuietIsLate, IsQuiet
<1>7. OneRowPerSettlement'
  <2> SUFFICES ASSUME NEW r \in results', NEW s \in results', r.of = s.of, r.run = s.run
               PROVE  r = s
    BY DEF OneRowPerSettlement
  <2>1. \A x \in rows, y \in results : x.of = y.of => y.run < halts
    BY <1>1 DEF ScoringInv, OpenHasNoRow, Due
  <2>2. CASE r \in results /\ s \in results
    BY <2>2 DEF ScoringInv, OneRowPerSettlement
  <2>3. CASE r \in rows /\ s \in rows
    BY <1>1, <2>3
  <2>4. CASE r \in rows /\ s \in results
    BY <1>1, <1>3, <2>1, <2>4
  <2>5. CASE r \in results /\ s \in rows
    BY <1>1, <1>3, <2>1, <2>5
  <2> QED BY <1>2, <2>2, <2>3, <2>4, <2>5
<1>8. PunctualEvidenceCounts'
  <2> SUFFICES ASSUME NEW r \in results', NEW o \in events, IsQuiet(r), o.class, o.late < Grace
               PROVE  ~(o.ts >= r.from /\ o.ts <= r.deadline)
    BY DEF PunctualEvidenceCounts, IsQuiet
  <2>1. CASE r \in results
    BY <2>1 DEF ScoringInv, PunctualEvidenceCounts
  <2>2. CASE r \in rows
    <3>1. Punctual(o)
      BY DEF Punctual, ScoringInv, ScoringShape, Observations
    <3> QED BY <1>1, <2>2, <3>1 DEF Within_
  <2> QED BY <1>2, <2>1, <2>2
<1> QED BY <1>4, <1>5, <1>6, <1>7, <1>8

(* A whole pass leaves open only what nothing punctual on the record lies  *)
(* in the window of.                                                       *)
LEMMA ScoreKeeps == PredictionAssumption /\ ScoringInv /\ Score => ScoringInv'
<1> SUFFICES ASSUME PredictionAssumption, ScoringInv, Score PROVE ScoringInv'
  OBVIOUS
<1>1. /\ results' = results \cup {Result(c, Matched(claim[c])) : c \in Due}
      /\ claim' = [c \in Claims |-> IF claim[c] = NoClaim \/ c \in Due THEN NoClaim
                                    ELSE Matched(claim[c])]
      /\ UNCHANGED <<events, halts, hour>>
  BY DEF Score
<1>2. /\ results' \subseteq ScoredRows
      /\ \A r \in results' : r.run <= halts /\ (r \notin results => r.of \in Due)
      /\ QuietIsLate' /\ OneRowPerSettlement' /\ PunctualEvidenceCounts'
  BY <1>1, RowsKeep
<1>3. scored' \in Nat /\ scored' <= hour
  <2>1. PICK t \in {scored} \cup {o.ts : o \in Fresh} : scored' = t
    BY DEF Score
  <2>2. \A o \in Fresh : o.ts \in Nat /\ o.ts <= hour
    BY DEF Fresh, ScoringInv, ScoringShape, Observations
  <2> QED BY <2>1, <2>2 DEF ScoringInv, ScoringShape
<1>4. ASSUME NEW c \in Claims, claim'[c] # NoClaim
      PROVE  /\ claim[c] # NoClaim /\ c \notin Due
             /\ claim'[c] = Matched(claim[c]) /\ claim[c] \in Instances
             /\ Matched(claim[c]) \in Instances /\ Matched(claim[c]).matched = FALSE
             /\ Matched(claim[c]).from = claim[c].from
             /\ Matched(claim[c]).deadline = claim[c].deadline
             /\ ~\E o \in Fresh : InWindow(claim[c], o)
  <2>1. claim[c] # NoClaim /\ c \notin Due /\ claim'[c] = Matched(claim[c])
    BY <1>1, <1>4
  <2>2. claim[c] \in Instances
    BY <2>1 DEF ScoringInv, ScoringShape
  <2>3. /\ Matched(claim[c]) \in Instances
        /\ Matched(claim[c]).from = claim[c].from
        /\ Matched(claim[c]).deadline = claim[c].deadline
        /\ Matched(claim[c]).matched
             = (claim[c].matched \/ \E o \in Fresh : InWindow(claim[c], o))
    BY <2>2, MatchedFacts
  <2>4. ~Matched(claim[c]).matched
    BY <2>1 DEF Due, Settled
  <2>5. Matched(claim[c]).matched \in BOOLEAN
    BY <2>3 DEF Instances
  <2> QED BY <2>1, <2>2, <2>3, <2>4, <2>5
<1>5. ScoringShape'
  <2>1. claim' \in [Claims -> Instances \cup {NoClaim}]
    <3>1. \A c \in Claims : claim'[c] \in Instances \cup {NoClaim}
      BY <1>4
    <3> QED BY <1>1, <3>1
  <2>2. \A c \in Claims : claim'[c] # NoClaim => claim'[c].matched = FALSE
    BY <1>4
  <2> QED BY <1>1, <1>2, <1>3, <2>1, <2>2 DEF ScoringInv, ScoringShape
<1>6. OpenHasNoRow'
  BY <1>1, <1>2, <1>4 DEF ScoringInv, OpenHasNoRow
<1>7. InSight'
  <2> SUFFICES ASSUME NEW c \in Claims, NEW o \in events, claim'[c] # NoClaim, Punctual(o),
                      Within_(claim'[c].from, claim'[c].deadline, o)
               PROVE  FALSE
    BY <1>1 DEF InSight, Punctual, Within_
  <2>1. Within_(claim[c].from, claim[c].deadline, o) /\ claim[c] # NoClaim
    BY <1>4
  <2>2. o.ts > scored - Grace
    BY <2>1 DEF ScoringInv, InSight
  <2>3. o \in Fresh
    BY <2>2 DEF Fresh, ScoringInv, ScoringShape
  <2>4. InWindow(claim[c], o)
    BY <2>1 DEF InWindow, Within_, Punctual
  <2> QED BY <1>4, <2>3, <2>4
<1> QED BY <1>2, <1>5, <1>6, <1>7 DEF ScoringInv

(* A pass that is cut off leaves rows of a run that is over.               *)
LEMMA StopInScoreKeeps == PredictionAssumption /\ ScoringInv /\ StopInScore => ScoringInv'
<1> SUFFICES ASSUME PredictionAssumption, ScoringInv, StopInScore PROVE ScoringInv'
  OBVIOUS
<1>1. PICK done \in SUBSET Due :
        results' = results \cup {Result(c, Matched(claim[c])) : c \in done}
  BY DEF StopInScore
<1>2. halts' = halts + 1 /\ UNCHANGED <<claim, events, scored, pass, hour>>
  BY DEF StopInScore
<1>3. /\ results' \subseteq ScoredRows /\ \A r \in results' : r.run <= halts
      /\ QuietIsLate' /\ OneRowPerSettlement' /\ PunctualEvidenceCounts'
  BY <1>1, <1>2, RowsKeep
<1>4. ScoringShape'
  BY <1>2, <1>3 DEF ScoringInv, ScoringShape
<1>5. OpenHasNoRow'
  BY <1>2, <1>3, <1>4 DEF OpenHasNoRow, ScoringShape, ScoringInv, ScoredRows
<1> QED BY <1>2, <1>3, <1>4, <1>5 DEF ScoringInv, InSight, Punctual, Within_

LEMMA ElapseKeeps == ScoringInv /\ (Elapse \/ UNCHANGED foresight) => ScoringInv'
<1> SUFFICES ASSUME ScoringInv, Elapse \/ UNCHANGED foresight PROVE ScoringInv'
  OBVIOUS
<1>1. /\ UNCHANGED <<claim, results, events, scored, halts>>
      /\ hour' \in Nat /\ hour <= hour'
  BY DEF Elapse, foresight, ScoringInv, ScoringShape
<1>2. ScoringShape'
  BY <1>1 DEF ScoringInv, ScoringShape, Observations
<1>3. QuietIsLate'
  BY <1>1 DEF ScoringInv, QuietIsLate, IsQuiet, ScoringShape, ScoredRows
<1> QED BY <1>1, <1>2, <1>3
    DEF ScoringInv, OpenHasNoRow, InSight, OneRowPerSettlement, PunctualEvidenceCounts, IsQuiet

LEMMA ScoringNextKeeps ==
    PredictionAssumption /\ ScoringInv /\ [ScoringNext]_foresight => ScoringInv'
BY MintKeeps, RecordKeeps, ScoreKeeps, StopInScoreKeeps, ElapseKeeps DEF ScoringNext

(* The record of a scoring, in every state that can be reached.            *)
THEOREM ScoringInvariant ==
    ASSUME PredictionAssumption
    PROVE  ScoringSpec => []ScoringInv
<1> QED BY ScoringInitInv, ScoringNextKeeps, PTL DEF ScoringSpec

(* score: evidence recorded less than the grace after it happened is never *)
(* contradicted by a quiet outcome, and a claim settles once, except that  *)
(* each stop inside a pass may cost one more row.                          *)
THEOREM ScoresSound ==
    ASSUME PredictionAssumption
    PROVE  ScoringSpec => []ScoresAreSound
<1>1. ScoringInv => ScoresAreSound
  BY DEF ScoringInv, ScoresAreSound
<1> QED BY ScoringInvariant, <1>1, PTL

(* What the bounds and the clock say of the claims.                        *)
ScoringBounds ==
    /\ halts <= MaxHalts /\ hour >= 1 /\ hour <= MaxHour /\ pass \in {"idle", "done"}
    /\ \A c \in Claims : claim[c] # NoClaim => claim[c].deadline = claim[c].from + Within
    /\ \A r \in results : r.at >= 1

LEMMA ScoringBoundsInit == PredictionAssumption /\ ScoringInit => ScoringBounds
BY DEF PredictionAssumption, ScoringInit, ScoringBounds

LEMMA ScoringBoundsKept ==
    ASSUME PredictionAssumption, ScoringInv, ScoringBounds, [ScoringNext]_foresight
    PROVE  ScoringBounds'
<1>1. /\ hour \in Nat /\ halts \in Nat /\ MaxHour \in Nat /\ MaxHalts \in Nat
      /\ claim \in [Claims -> Instances \cup {NoClaim}]
  BY DEF ScoringInv, ScoringShape, PredictionAssumption
<1>2. CASE Mint
  <2>1. PICK c \in Claims, p \in Polarities : claim' = [claim EXCEPT ![c] = Instance(p)]
    BY <1>2 DEF Mint
  <2>2. Instance(p).deadline = hour + Within /\ Instance(p).from = hour
    BY DEF Instance
  <2>3. ASSUME NEW d \in Claims, claim'[d] # NoClaim
        PROVE  claim'[d].deadline = claim'[d].from + Within
    BY <1>1, <2>1, <2>2, <2>3 DEF ScoringBounds
  <2>4. UNCHANGED <<results, pass, halts, hour>>
    BY <1>2 DEF Mint
  <2> QED BY <2>3, <2>4 DEF ScoringBounds
<1>3. CASE Record \/ UNCHANGED foresight
  BY <1>3 DEF Record, foresight, ScoringBounds
<1>4. ASSUME NEW done \in SUBSET Due,
             results' = results \cup {Result(c, Matched(claim[c])) : c \in done}
      PROVE  \A r \in results' : r.at >= 1
  <2> DEFINE rows == {Result(c, Matched(claim[c])) : c \in done}
  <2>1. \A r \in rows : r.at = hour
    BY SettledRows
  <2>2. results' = results \cup rows
    BY <1>4
  <2> HIDE DEF rows
  <2> QED BY <2>1, <2>2 DEF ScoringBounds
<1>5. CASE Score
  <2>1. /\ results' = results \cup {Result(c, Matched(claim[c])) : c \in Due}
        /\ claim' = [c \in Claims |-> IF claim[c] = NoClaim \/ c \in Due THEN NoClaim
                                      ELSE Matched(claim[c])]
        /\ pass' = "done" /\ UNCHANGED <<halts, hour>>
    BY <1>5 DEF Score
  <2>2. \A r \in results' : r.at >= 1
    BY <1>4, <2>1
  <2>3. ASSUME NEW c \in Claims, claim'[c] # NoClaim
        PROVE  claim'[c].deadline = claim'[c].from + Within
    <3>1. claim[c] # NoClaim /\ claim'[c] = Matched(claim[c])
      BY <2>1, <2>3
    <3>2. claim[c] \in Instances
      BY <1>1, <3>1
    <3>3. Matched(claim[c]).from = claim[c].from /\ Matched(claim[c]).deadline = claim[c].deadline
      BY <3>2, MatchedFacts
    <3> QED BY <3>1, <3>3 DEF ScoringBounds
  <2> QED BY <2>1, <2>2, <2>3 DEF ScoringBounds
<1>6. CASE StopInScore
  <2>1. PICK done \in SUBSET Due :
          results' = results \cup {Result(c, Matched(claim[c])) : c \in done}
    BY <1>6 DEF StopInScore
  <2>2. \A r \in results' : r.at >= 1
    BY <1>4, <2>1
  <2>3. halts' <= MaxHalts /\ UNCHANGED <<claim, pass, hour>>
    BY <1>1, <1>6 DEF StopInScore
  <2> QED BY <2>2, <2>3 DEF ScoringBounds
<1>7. CASE Elapse
  BY <1>1, <1>7 DEF Elapse, ScoringBounds
<1> QED BY <1>2, <1>3, <1>5, <1>6, <1>7 DEF ScoringNext

LEMMA ScoringTyped ==
    ASSUME PredictionAssumption, ScoringInv, ScoringBounds
    PROVE  PredictionTypeOK
<1>1. /\ hour \in Nat /\ halts \in Nat /\ MaxHour \in Nat /\ MaxHalts \in Nat
      /\ scored \in Nat /\ scored <= hour
      /\ claim \in [Claims -> Instances \cup {NoClaim}] /\ results \subseteq ScoredRows
      /\ \A r \in results : r.at <= hour
      /\ \A c \in Claims : claim[c] # NoClaim => claim[c].matched = FALSE
  BY DEF ScoringInv, ScoringShape, QuietIsLate, PredictionAssumption
<1>2. ASSUME NEW c \in Claims, claim[c] # NoClaim
      PROVE  /\ claim[c].polarity \in Polarities /\ ~claim[c].matched
             /\ claim[c].deadline = claim[c].from + Within
  BY <1>1, <1>2 DEF Instances, ScoringBounds
<1>3. ASSUME NEW r \in results PROVE r.of \in Claims /\ r.at \in 1..MaxHour
  BY <1>1 DEF ScoredRows, ScoringBounds
<1> QED BY <1>1, <1>2, <1>3 DEF PredictionTypeOK, ScoringBounds

-----------------------------------------------------------------------------
(* The surface, its people and the tick.  What a pass loaded stays a       *)
(* record the surface could have, and a pass that is about to act has read *)
(* a label that differs from what it will set, so that there is something  *)
(* to undo.                                                                *)

ActRecords == [of : {"theory"} \cup Act!Edges, label : Act!Labels, prev : Act!Labels,
               at : 0..SurfaceTime, seen : Nat]
SurfRecords == [bucket : Act!Labels \cup {""}, polledAt : (-Poll)..SurfaceTime,
                restUntil : 0..(SurfaceTime + Rest), act : ActRecords \cup {None}]
Stages == {"idle", "decide", "poll", "polled", "heed", "undone", "tend", "tending", "tended",
           "rules", "firing", "fired"}
Holding == {"polled", "undone", "tending", "tended", "firing", "fired"}
Passes == [at : Stages, snap : SurfRecords \cup {None}, read : Act!Labels \cup {None},
           edge : Act!Edges \cup {None}, seen : Nat]
Asks == [status : Act!Decided, seen : Nat, note : {"", "weakened", "no", "gate", "world"}, weakened : BOOLEAN]
Edge == [minted : BOOLEAN, on : BOOLEAN, paired : BOOLEAN]

\* An act and a record of the surface, when n answers have been given.
GoodAct(act, n) == act = None \/ (act \in ActRecords /\ act.prev # act.label /\ act.seen <= n)
GoodSurf(s, n) == s \in SurfRecords /\ GoodAct(s.act, n)

GoodPass(t, n) ==
    /\ t \in Passes /\ t.seen <= n
    /\ IF t.at \in Holding THEN GoodSurf(t.snap, n) ELSE t.snap = None
    /\ t.at \in {"tending", "tended"} => t.read \in Act!Labels \ {Act!Want}
    /\ t.at \in {"firing", "fired"} =>
          t.edge \in Act!Edges /\ t.read \in Act!Labels \ {Act!EdgeAct[t.edge]}
    /\ t.at = "undone" => t.snap.act \in ActRecords /\ t.snap.act.prev # t.snap.act.label

Heardof == Len(theory.answers)

ActuationInv ==
    /\ device \in Act!Labels /\ GoodSurf(surf, Heardof)
    /\ theory \in [status : {"open", "pursued", "abandoned"}, answers : Seq(Act!Answers)]
    /\ asked \in Asks \cup {None} /\ (asked # None => asked.seen <= Heardof)
    /\ rules \in [Act!Edges -> Edge] /\ AssentedIsPaired
    /\ GoodPass(tick, Heardof)
    /\ mover \in [who : {"hand", "partner"}, label : Act!Labels] \cup {None}
    /\ memory \in {"unseen"} \cup Act!Edges /\ home \in BOOLEAN /\ gate \in BOOLEAN
    /\ dismissal \in (-1)..SurfaceTime /\ now \in 0..SurfaceTime

LEMMA SurfaceBounds == Poll \in Nat /\ Rest \in Nat /\ SurfaceTime \in Nat
BY TickAssumption DEF Act!ActuationAssumption

LEMMA EdgesAre == Act!Edges = {"away", "back"} /\ Act!Want \in Act!Labels
                  /\ \A e \in Act!Edges : Act!EdgeAct[e] \in Act!Labels
BY DEF Act!Edges, Act!EdgeAct, Act!Want, Act!Labels

\* More answers spoil no record.
LEMMA GoodLater ==
    ASSUME NEW n \in Nat, NEW m \in Nat, n <= m
    PROVE  /\ \A s : GoodSurf(s, n) => GoodSurf(s, m)
           /\ \A t : GoodPass(t, n) => GoodPass(t, m)
<1>1. ASSUME NEW act, GoodAct(act, n) PROVE GoodAct(act, m)
  BY <1>1 DEF GoodAct, ActRecords
<1>2. ASSUME NEW s, GoodSurf(s, n) PROVE GoodSurf(s, m)
  BY <1>1, <1>2 DEF GoodSurf
<1>3. ASSUME NEW t, GoodPass(t, n) PROVE GoodPass(t, m)
  BY <1>2, <1>3 DEF GoodPass, Passes
<1> QED BY <1>2, <1>3

\* The edits the passes and people make of the record.
LEMMA SurfEdits ==
    ASSUME NEW s, NEW n, GoodSurf(s, n), NEW b \in Act!Labels \cup {""},
           NEW p \in (-Poll)..SurfaceTime, NEW r \in 0..(SurfaceTime + Rest),
           NEW act, GoodAct(act, n)
    PROVE  /\ GoodSurf([s EXCEPT !.bucket = b], n) /\ GoodSurf([s EXCEPT !.polledAt = p], n)
           /\ GoodSurf([s EXCEPT !.act = act], n)
           /\ GoodSurf([s EXCEPT !.bucket = b, !.act = act], n)
           /\ GoodSurf([s EXCEPT !.bucket = b, !.restUntil = r], n)
           /\ GoodSurf([s EXCEPT !.bucket = b, !.act = act, !.restUntil = r], n)
           /\ s.restUntil \in 0..(SurfaceTime + Rest)
<1>1. act \in ActRecords \cup {None} BY DEF GoodAct
<1>2. s \in SurfRecords /\ GoodAct(s.act, n) BY DEF GoodSurf
<1> HIDE DEF GoodAct
<1>3. /\ [s EXCEPT !.bucket = b] \in SurfRecords /\ [s EXCEPT !.bucket = b].act = s.act
      /\ [s EXCEPT !.polledAt = p] \in SurfRecords /\ [s EXCEPT !.polledAt = p].act = s.act
      /\ s.restUntil \in 0..(SurfaceTime + Rest)
  BY <1>2 DEF SurfRecords
<1>4. /\ [s EXCEPT !.act = act] \in SurfRecords /\ [s EXCEPT !.act = act].act = act
      /\ [s EXCEPT !.bucket = b, !.act = act] \in SurfRecords
      /\ [s EXCEPT !.bucket = b, !.act = act].act = act
  BY <1>1, <1>2 DEF SurfRecords
<1>5. /\ [s EXCEPT !.bucket = b, !.restUntil = r] \in SurfRecords
      /\ [s EXCEPT !.bucket = b, !.restUntil = r].act = s.act
  BY <1>2 DEF SurfRecords
<1>6. /\ [s EXCEPT !.bucket = b, !.act = act, !.restUntil = r] \in SurfRecords
      /\ [s EXCEPT !.bucket = b, !.act = act, !.restUntil = r].act = act
  BY <1>1, <1>2 DEF SurfRecords
<1> QED BY <1>2, <1>3, <1>4, <1>5, <1>6 DEF GoodSurf

LEMMA NoActIsGood == \A n : GoodAct(None, n)
BY DEF GoodAct

LEMMA ReachIsGood ==
    ASSUME NEW n \in Nat
    PROVE  /\ GoodPass(Act!Idle, n)
           /\ \A stage \in Stages \ Holding : GoodPass(Act!Reach(stage), n)
<1>1. Act!Idle \in Passes /\ Act!Idle.at = "idle" /\ Act!Idle.snap = None /\ Act!Idle.seen = 0
  BY DEF Act!Idle, Passes, Stages
<1>2. ASSUME NEW stage \in Stages \ Holding PROVE GoodPass(Act!Reach(stage), n)
  <2>1. /\ Act!Reach(stage) \in Passes /\ Act!Reach(stage).at = stage
        /\ Act!Reach(stage).snap = None /\ Act!Reach(stage).seen = 0
    BY <1>1 DEF Act!Reach, Passes
  <2> QED BY <2>1 DEF GoodPass, Holding
<1> QED BY <1>1, <1>2 DEF GoodPass, Holding

LEMMA LoadedIsGood ==
    ASSUME ActuationInv, NEW stage \in Holding, NEW reading \in Act!Labels \cup {None}
    PROVE  LET t == Act!Loaded(stage, reading)
           IN  /\ t \in Passes /\ t.seen <= Heardof /\ GoodSurf(t.snap, Heardof)
               /\ t.at = stage /\ t.read = reading /\ t.snap = surf
<1>1. surf \in SurfRecords /\ GoodSurf(surf, Heardof) BY DEF ActuationInv, GoodSurf
<1>2. Heardof \in Nat BY DEF ActuationInv, Heardof
<1>3. stage \in Stages BY DEF Stages, Holding
<1>4. Act!Idle \in Passes BY DEF Act!Idle, Passes, Stages
<1> DEFINE t == Act!Loaded(stage, reading)
<1>5. t = [Act!Idle EXCEPT !.at = stage, !.snap = surf, !.read = reading, !.seen = Heardof]
  BY DEF Act!Loaded, Heardof
<1> HIDE DEF t
<1>6. /\ t \in Passes /\ t.at = stage /\ t.snap = surf /\ t.read = reading /\ t.seen = Heardof
  BY <1>1, <1>2, <1>3, <1>4, <1>5 DEF Passes
<1>7. t.seen <= Heardof
  BY <1>2, <1>6
<1>8. GoodSurf(t.snap, Heardof)
  BY <1>1, <1>6
<1> QED BY <1>6, <1>7, <1>8, Zenon DEF t

Needs == [status : {"open", "pursued", "abandoned"}, answers : Seq(Act!Answers)]
Movers == [who : {"hand", "partner"}, label : Act!Labels] \cup {None}

\* No step takes an edge back, or apart from its pair.
PolicyKept ==
    /\ rules' \in [Act!Edges -> Edge]
    /\ \A e \in Act!Edges : /\ rules[e].minted => rules'[e].minted
                            /\ rules[e].paired => rules'[e].paired

\* A step that leaves the people's words and the decision alone.
LEMMA SurfaceMoves ==
    ASSUME ActuationInv, UNCHANGED <<asked, home, gate, dismissal, now>>,
           theory' \in Needs, theory'.answers = theory.answers, PolicyKept,
           device' \in Act!Labels, GoodSurf(surf', Heardof), GoodPass(tick', Heardof),
           mover' \in Movers, memory' \in {"unseen"} \cup Act!Edges
    PROVE  ActuationInv'
<1>1. Heardof' = Heardof BY DEF Heardof
<1>2. AssentedIsPaired'
  BY DEF ActuationInv, AssentedIsPaired, Act!AssentedIsPaired, PolicyKept
<1> QED BY <1>1, <1>2 DEF ActuationInv, PolicyKept, Needs, Movers

\* Minting and reverting, whatever of it is done.
LEMMA PolicyEdits ==
    ASSUME rules \in [Act!Edges -> Edge]
    PROVE  /\ \A k \in 1..3 : rules' = Act!Minted(k) => PolicyKept
           /\ \A e \in Act!Edges : rules' = Act!Reverted(e) => PolicyKept
           /\ \A e \in Act!Edges : Act!Minted(3)[e].minted /\ Act!Minted(3)[e].paired
           /\ UNCHANGED rules => PolicyKept
<1>0. ASSUME NEW k \in 1..3, NEW e \in Act!Edges
      PROVE  /\ Act!Minted(k)[e] \in Edge
             /\ rules[e].minted => Act!Minted(k)[e].minted
             /\ rules[e].paired => Act!Minted(k)[e].paired
             /\ k = 3 => Act!Minted(k)[e].minted /\ Act!Minted(k)[e].paired
  <2>1. \A x \in Act!Edges : rules[x] \in Edge OBVIOUS
  <2>2. /\ Act!Minted(k)[e] \in Edge
        /\ rules[e].minted => Act!Minted(k)[e].minted
        /\ rules[e].paired => Act!Minted(k)[e].paired
    BY <2>1 DEF Act!Minted, Edge
  <2>3. ASSUME k = 3 PROVE Act!Minted(k)[e].minted /\ Act!Minted(k)[e].paired
    <3> DEFINE p == rules[e].paired \/ k = 3
    <3>1. Act!Minted(k)[e] = [minted |-> TRUE, on |-> TRUE, paired |-> p]
      BY <2>3 DEF Act!Minted
    <3>2. p = TRUE
      BY <2>3, Zenon
    <3>3. Act!Minted(k)[e] = [minted |-> TRUE, on |-> TRUE, paired |-> TRUE]
      BY <3>1, <3>2, Zenon
    <3> QED BY <3>3
  <2> QED BY <2>2, <2>3
<1>1. ASSUME NEW k \in 1..3, rules' = Act!Minted(k) PROVE PolicyKept
  <2>1. Act!Minted(k) = [e \in Act!Edges |-> Act!Minted(k)[e]]
    BY DEF Act!Minted
  <2> QED BY <1>0, <1>1, <2>1 DEF PolicyKept
<1>2. ASSUME NEW e \in Act!Edges, rules' = Act!Reverted(e) PROVE PolicyKept
  <2>1. \A x \in Act!Edges : rules[x] \in Edge OBVIOUS
  <2>2. ASSUME NEW x \in Act!Edges
        PROVE  /\ Act!Reverted(e)[x] \in Edge
               /\ Act!Reverted(e)[x].minted = rules[x].minted
               /\ Act!Reverted(e)[x].paired = rules[x].paired
    BY <2>1 DEF Act!Reverted, Edge
  <2>3. Act!Reverted(e) = [x \in Act!Edges |-> Act!Reverted(e)[x]]
    BY DEF Act!Reverted
  <2> QED BY <1>2, <2>2, <2>3 DEF PolicyKept
<1>3. \A e \in Act!Edges : Act!Minted(3)[e].minted /\ Act!Minted(3)[e].paired
  BY <1>0, 3 \in 1..3
<1> QED BY <1>1, <1>2, <1>3 DEF PolicyKept

LEMMA ActuationInitInv == Act!Init => ActuationInv
<1> SUFFICES ASSUME Act!Init PROVE ActuationInv
  OBVIOUS
<1>1. /\ surf = [bucket |-> "", polledAt |-> -Poll, restUntil |-> 0, act |-> None]
      /\ theory = [status |-> "pursued", answers |-> <<>>]
      /\ rules = [e \in Act!Edges |-> [minted |-> FALSE, on |-> FALSE, paired |-> FALSE]]
      /\ device = "bright" /\ asked = None /\ memory = "unseen" /\ home = TRUE /\ gate = TRUE
      /\ dismissal = -1 /\ tick = Act!Idle /\ mover = None /\ now = 0
  BY Zenon DEF Act!Init
<1>2. surf \in SurfRecords /\ surf.act = None
  <2>1. surf = [bucket |-> "", polledAt |-> -Poll, restUntil |-> 0, act |-> None]
    BY <1>1, Zenon
  <2>2. -Poll \in (-Poll)..SurfaceTime /\ 0 \in 0..(SurfaceTime + Rest)
    BY SurfaceBounds
  <2> HIDE DEF ActRecords
  <2> QED BY <2>1, <2>2 DEF SurfRecords
<1>3. theory \in Needs /\ Heardof = 0
  <2>1. theory = [status |-> "pursued", answers |-> <<>>]
    BY <1>1, Zenon
  <2> QED BY <2>1 DEF Needs, Heardof
<1>4. rules \in [Act!Edges -> Edge]
  BY <1>1 DEF Edge
<1>5. dismissal \in (-1)..SurfaceTime /\ now \in 0..SurfaceTime
  <2>1. dismissal = -1 /\ now = 0
    BY <1>1, Zenon
  <2> QED BY <2>1, SurfaceBounds
<1>6. GoodSurf(surf, Heardof)
  BY <1>2 DEF GoodSurf, GoodAct
<1>7. GoodPass(tick, Heardof)
  BY <1>1, <1>3, ReachIsGood
<1>8. AssentedIsPaired
  BY <1>1, Zenon DEF AssentedIsPaired, Act!AssentedIsPaired
<1>9. device \in Act!Labels
  BY <1>1 DEF Act!Labels
<1> QED BY <1>1, <1>3, <1>4, <1>5, <1>6, <1>7, <1>8, <1>9 DEF ActuationInv, Needs

\* Everything but the surface and the tick stays where it is.
LEMMA StillGood ==
    ASSUME ActuationInv, UNCHANGED theory, UNCHANGED rules, UNCHANGED mover
    PROVE  /\ theory' \in Needs /\ theory'.answers = theory.answers /\ PolicyKept
           /\ mover' \in Movers /\ memory \in {"unseen"} \cup Act!Edges
           /\ device \in Act!Labels /\ GoodSurf(surf, Heardof) /\ GoodPass(tick, Heardof)
           /\ Heardof \in Nat /\ rules \in [Act!Edges -> Edge]
BY PolicyEdits DEF ActuationInv, Needs, Movers, Heardof

LEMMA AnswerKeeps == ActuationInv /\ Act!Answer => ActuationInv'
<1> SUFFICES ASSUME ActuationInv, Act!Answer PROVE ActuationInv'
  OBVIOUS
<1>1. PICK a \in Act!Answers :
        theory' = [status |-> IF theory.status = "pursued" THEN "pursued" ELSE "open",
                   answers |-> Append(theory.answers, a)]
  BY DEF Act!Answer
<1>2. UNCHANGED <<device, surf, asked, rules, memory, home, gate, dismissal, tick, mover, now>>
  BY DEF Act!Answer
<1>3. theory.answers \in Seq(Act!Answers) /\ Heardof \in Nat
  BY DEF ActuationInv, Heardof
<1>4. Append(theory.answers, a) \in Seq(Act!Answers)
      /\ Len(Append(theory.answers, a)) = Heardof + 1
  BY <1>3 DEF Heardof
<1>5. theory' \in Needs /\ theory'.answers = Append(theory.answers, a)
  <2> DEFINE ans == Append(theory.answers, a)
  <2>1. ans \in Seq(Act!Answers) BY <1>4
  <2>2. theory' = [status |-> IF theory.status = "pursued" THEN "pursued" ELSE "open",
                   answers |-> ans]
    BY <1>1
  <2> HIDE DEF ans
  <2>3. theory' \in Needs /\ theory'.answers = ans
    BY <2>1, <2>2 DEF Needs
  <2> QED BY <2>3 DEF ans
<1>6. Heardof' \in Nat /\ Heardof <= Heardof'
  BY <1>3, <1>4, <1>5 DEF Heardof
<1>7. GoodSurf(surf, Heardof') /\ GoodPass(tick, Heardof')
  BY <1>3, <1>6, GoodLater DEF ActuationInv
<1>8. asked # None => asked.seen <= Heardof'
  <2> SUFFICES ASSUME asked # None PROVE asked.seen <= Heardof'
    OBVIOUS
  <2>1. asked \in Asks /\ asked.seen <= Heardof
    BY DEF ActuationInv
  <2>2. asked.seen \in Nat
    BY <2>1 DEF Asks
  <2> QED BY <1>3, <1>6, <2>1, <2>2
<1>9. AssentedIsPaired'
  BY <1>2 DEF ActuationInv, AssentedIsPaired, Act!AssentedIsPaired
<1> QED BY <1>2, <1>5, <1>7, <1>8, <1>9 DEF ActuationInv, Needs

LEMMA AskKeeps == ActuationInv /\ Act!Ask => ActuationInv'
<1> SUFFICES ASSUME ActuationInv, Act!Ask PROVE ActuationInv'
  OBVIOUS
<1>1. /\ asked' = [status |-> "pending", seen |-> Heardof, note |-> "", weakened |-> FALSE]
      /\ UNCHANGED <<device, surf, theory, rules, memory, home, gate, dismissal, tick, mover, now>>
  BY DEF Act!Ask, Heardof
<1>2. Heardof \in Nat /\ Heardof' = Heardof
  BY <1>1, StillGood DEF Heardof
<1>3. asked' \in Asks /\ asked'.seen = Heardof /\ asked'.status = "pending"
  <2>1. asked' = [status |-> "pending", seen |-> Heardof, note |-> "", weakened |-> FALSE]
    BY <1>1, Zenon
  <2> QED BY <1>2, <2>1 DEF Asks, Act!Decided
<1>4. asked'.seen <= Heardof'
  BY <1>2, <1>3
<1>5. AssentedIsPaired'
  BY <1>3 DEF AssentedIsPaired, Act!AssentedIsPaired
<1> QED BY <1>1, <1>2, <1>3, <1>4, <1>5 DEF ActuationInv

\* What people do without a word for the familiar.
LEMMA LifeKeeps ==
    ASSUME ActuationInv,
           Act!Dismiss \/ Act!Triage \/ Act!ComeAndGo \/ Act!SetGate \/ Act!Pass
    PROVE  ActuationInv'
<1>1. UNCHANGED <<device, surf, asked, rules, memory, tick, mover>>
  BY DEF Act!Dismiss, Act!Triage, Act!ComeAndGo, Act!SetGate, Act!Pass
<1>2. theory' \in Needs /\ theory'.answers = theory.answers
  <2>1. theory \in Needs BY DEF ActuationInv, Needs
  <2>2. UNCHANGED theory \/ theory' = [theory EXCEPT !.status = "abandoned"]
        \/ theory' = [theory EXCEPT !.status = "pursued"]
    BY DEF Act!Dismiss, Act!Triage, Act!ComeAndGo, Act!SetGate, Act!Pass
  <2> QED BY <2>1, <2>2 DEF Needs
<1>3. home' \in BOOLEAN /\ gate' \in BOOLEAN
  BY DEF ActuationInv, Act!Dismiss, Act!Triage, Act!ComeAndGo, Act!SetGate, Act!Pass
<1>4. dismissal' \in (-1)..SurfaceTime /\ now' \in 0..SurfaceTime
  BY SurfaceBounds
  DEF ActuationInv, Act!Dismiss, Act!Triage, Act!ComeAndGo, Act!SetGate, Act!Pass
<1>5. Heardof' = Heardof
  BY <1>2 DEF Heardof
<1>6. AssentedIsPaired'
  BY <1>1 DEF ActuationInv, AssentedIsPaired, Act!AssentedIsPaired
<1> QED BY <1>1, <1>2, <1>3, <1>4, <1>5, <1>6 DEF ActuationInv, Needs

\* Hands on the device, and what is recorded of them.
LEMMA HandsKeep ==
    ASSUME ActuationInv,
           Act!Turn \/ Act!Run("hand") \/ Act!Run("partner") \/ Act!PartnerRecords
    PROVE  ActuationInv'
<1>1. UNCHANGED <<theory, asked, rules, memory, home, gate, dismissal, tick, now>>
  BY DEF Act!Turn, Act!Run, Act!PartnerRecords
<1>2. mover \in Movers
  BY DEF ActuationInv, Movers
<1>3. device' \in Act!Labels /\ mover' \in Movers
  <2>1. CASE Act!Turn
    BY <1>2, <2>1 DEF Act!Turn
  <2>2. ASSUME NEW who \in {"hand", "partner"}, Act!Run(who)
        PROVE  device' \in Act!Labels /\ mover' \in Movers
    BY <2>2 DEF Act!Run, Movers
  <2>3. CASE Act!PartnerRecords
    BY <2>3 DEF Act!PartnerRecords, Movers, ActuationInv
  <2> QED BY <2>1, <2>2, <2>3
<1>4. GoodSurf(surf', Heardof)
  <2>1. GoodSurf(surf, Heardof)
    BY DEF ActuationInv
  <2>2. CASE Act!PartnerRecords
    <3>1. mover.label \in Act!Labels /\ surf' = [surf EXCEPT !.bucket = mover.label]
      BY <1>2, <2>2 DEF Act!PartnerRecords, Movers
    <3>2. GoodSurf([surf EXCEPT !.bucket = mover.label], Heardof)
      BY <2>1, <3>1, SurfEdits, NoActIsGood, SurfaceBounds DEF GoodSurf, SurfRecords
    <3> QED BY <3>1, <3>2
  <2>3. CASE ~Act!PartnerRecords
    BY <2>1, <2>3 DEF Act!Turn, Act!Run
  <2> QED BY <2>2, <2>3
<1>5. GoodPass(tick', Heardof)
  BY <1>1 DEF ActuationInv
<1>6. theory' \in Needs /\ theory'.answers = theory.answers /\ PolicyKept
      /\ memory' \in {"unseen"} \cup Act!Edges
  BY <1>1 DEF ActuationInv, Needs, PolicyKept
<1> QED BY <1>1, <1>3, <1>4, <1>5, <1>6, SurfaceMoves

\* An act reacted against, of the record or of what a pass has loaded.
LEMMA DepreciateKeeps ==
    ASSUME ActuationInv, NEW act \in ActRecords, Act!Depreciate(act)
    PROVE  theory' \in Needs /\ theory'.answers = theory.answers /\ PolicyKept
<1>1. theory \in Needs /\ rules \in [Act!Edges -> Edge]
  BY DEF ActuationInv, Needs
<1>2. CASE act.of = "theory"
  <2>1. theory' = [theory EXCEPT !.status = "abandoned"] /\ UNCHANGED rules
    BY <1>2 DEF Act!Depreciate
  <2> QED BY <1>1, <2>1, PolicyEdits DEF Needs
<1>3. CASE act.of # "theory"
  <2>1. act.of \in Act!Edges
    BY <1>3 DEF ActRecords
  <2>2. rules' = Act!Reverted(act.of) /\ UNCHANGED theory
    BY <1>3 DEF Act!Depreciate
  <2> QED BY <1>1, <2>1, <2>2, PolicyEdits
<1> QED BY <1>2, <1>3

LEMMA HandRecordsKeeps == ActuationInv /\ Act!HandRecords => ActuationInv'
<1> SUFFICES ASSUME ActuationInv, Act!HandRecords PROVE ActuationInv'
  OBVIOUS
<1> DEFINE act == surf.act
           against == act # None /\ mover.label # act.label
<1>1. /\ IF against THEN Act!Depreciate(act) ELSE UNCHANGED <<theory, rules>>
      /\ surf' = [surf EXCEPT !.bucket = mover.label, !.act = None,
                              !.restUntil = IF against THEN now + Rest ELSE surf.restUntil]
      /\ mover # None /\ mover' = None
      /\ UNCHANGED <<device, asked, memory, home, gate, dismissal, tick, now>>
  BY DEF Act!HandRecords
<1>2. GoodSurf(surf, Heardof) /\ surf.act \in ActRecords \cup {None}
      /\ surf.restUntil \in 0..(SurfaceTime + Rest)
  BY DEF ActuationInv, GoodSurf, SurfRecords
<1>3. mover.label \in Act!Labels
  BY <1>1 DEF ActuationInv
<1> DEFINE r == IF against THEN now + Rest ELSE surf.restUntil
<1>4. r \in 0..(SurfaceTime + Rest)
  BY <1>2, SurfaceBounds DEF ActuationInv
<1>5. surf' = [surf EXCEPT !.bucket = mover.label, !.act = None, !.restUntil = r]
  BY <1>1
<1> HIDE DEF r
<1>6. GoodSurf(surf', Heardof)
  <2>1. GoodSurf([surf EXCEPT !.bucket = mover.label, !.act = None, !.restUntil = r], Heardof)
    <3>1. -Poll \in (-Poll)..SurfaceTime
      BY SurfaceBounds
    <3> HIDE DEF act, against
    <3> QED BY <1>2, <1>3, <1>4, <3>1, SurfEdits, NoActIsGood
  <2> QED BY <1>5, <2>1
<1>7. theory' \in Needs /\ theory'.answers = theory.answers /\ PolicyKept
  <2>1. CASE against
    BY <1>1, <1>2, <2>1, DepreciateKeeps
  <2>2. CASE ~against
    BY <1>1, <2>2 DEF ActuationInv, Needs, PolicyKept
  <2> QED BY <2>1, <2>2
<1>8. /\ mover' \in Movers /\ device' \in Act!Labels /\ GoodPass(tick', Heardof)
      /\ memory' \in {"unseen"} \cup Act!Edges
  BY <1>1 DEF ActuationInv, Movers
<1> QED BY <1>1, <1>6, <1>7, <1>8, SurfaceMoves

\* The decision moves between the shapes it may have.
LEMMA DecisionMoves ==
    ASSUME ActuationInv, Act!Deciding(asked), NEW d, d = Act!Stamped(asked)
    PROVE  /\ d \in Asks /\ d.seen = asked.seen /\ d.status = asked.status
           /\ \A status \in Act!Decided, note \in {"", "weakened", "no", "gate", "world"} :
                /\ Act!Moved(d, status, note) \in Asks
                /\ Act!Moved(d, status, note).seen = asked.seen
                /\ Act!Moved(d, status, note).status = status
<1>1. asked \in Asks /\ d \in {asked, [asked EXCEPT !.note = "weakened", !.weakened = TRUE]}
  BY DEF ActuationInv, Act!Deciding, Act!Stamped
<1>2. d \in Asks /\ d.seen = asked.seen /\ d.status = asked.status
  BY <1>1 DEF Asks
<1>3. ASSUME NEW status \in Act!Decided, NEW note \in {"", "weakened", "no", "gate", "world"}
      PROVE  /\ Act!Moved(d, status, note) \in Asks
             /\ Act!Moved(d, status, note).seen = d.seen
             /\ Act!Moved(d, status, note).status = status
  <2> DEFINE kept == IF note = "" THEN d.note ELSE note
  <2>1. kept \in {"", "weakened", "no", "gate", "world"}
    BY <1>2 DEF Asks
  <2>2. Act!Moved(d, status, note) = [d EXCEPT !.status = status, !.note = kept]
    BY <1>2 DEF Act!Moved, Asks
  <2> HIDE DEF kept
  <2> QED BY <1>2, <2>1, <2>2 DEF Asks
<1> QED BY <1>2, <1>3

LEMMA AfterDecideIsGood ==
    ActuationInv => GoodPass(Act!AfterDecide, Heardof)
<1>1. ActuationInv => Heardof \in Nat
  BY DEF ActuationInv, Heardof
<1> QED BY <1>1, ReachIsGood DEF Act!AfterDecide, Stages, Holding

\* A pass over the decision: the surface is not touched.
LEMMA DecideKeeps ==
    ASSUME ActuationInv,
           Act!DecideNothing \/ Act!Decline \/ Act!StageAssent \/ Act!Assent
           \/ Act!AssentRefused \/ Act!StopInMint
    PROVE  ActuationInv'
<1>1. UNCHANGED <<device, surf, theory, memory, home, gate, dismissal, mover, now>>
  BY DEF Act!DecideNothing, Act!Decline, Act!StageAssent, Act!Assent, Act!AssentRefused,
        Act!StopInMint
<1>2. Heardof' = Heardof /\ Heardof \in Nat
  BY <1>1 DEF Heardof, ActuationInv
<1>3. GoodPass(tick', Heardof)
  <2>1. tick' = Act!AfterDecide \/ tick' = Act!Idle
    BY DEF Act!DecideNothing, Act!Decline, Act!StageAssent, Act!Assent, Act!AssentRefused,
        Act!StopInMint
  <2> QED BY <1>2, <2>1, AfterDecideIsGood, ReachIsGood
<1>4. /\ asked' \in Asks \cup {None} /\ (asked' # None => asked'.seen <= Heardof)
      /\ PolicyKept /\ AssentedIsPaired'
  <2>1. /\ rules \in [Act!Edges -> Edge] /\ AssentedIsPaired
        /\ asked \in Asks \cup {None} /\ (asked # None => asked.seen <= Heardof)
    BY DEF ActuationInv
  <2>2. CASE Act!DecideNothing /\ ~Act!Deciding(asked)
    <3>1. UNCHANGED <<asked, rules>>
      BY <2>2 DEF Act!DecideNothing
    <3> QED BY <2>1, <3>1, PolicyEdits DEF AssentedIsPaired, Act!AssentedIsPaired
  <2>3. CASE Act!Deciding(asked)
    <3>1. asked # None /\ asked.status \in {"pending", "awaiting_gate"} /\ asked.seen <= Heardof
      BY <2>1, <2>3 DEF Act!Deciding
    <3> DEFINE d == Act!Stamped(asked)
    <3>2. /\ d \in Asks /\ d.seen = asked.seen /\ d.status = asked.status
          /\ \A status \in Act!Decided, note \in {"", "weakened", "no", "gate", "world"} :
                /\ Act!Moved(d, status, note) \in Asks
                /\ Act!Moved(d, status, note).seen = asked.seen
                /\ Act!Moved(d, status, note).status = status
      BY <2>3, DecisionMoves
    <3>3. d.note \in {"", "weakened", "no", "gate", "world"}
      BY <3>2 DEF Asks
    <3> HIDE DEF d
    <3>4. CASE Act!DecideNothing \/ Act!StopInMint
      <4>1. asked' = d /\ PolicyKept
        BY <2>1, <2>3, <3>4, PolicyEdits DEF Act!DecideNothing, Act!StopInMint, d
      <4> QED BY <3>1, <3>2, <4>1 DEF AssentedIsPaired, Act!AssentedIsPaired
    <3>5. CASE Act!Decline
      <4>1. asked' = Act!Moved(d, "declined", "no") /\ UNCHANGED rules
        BY <3>5 DEF Act!Decline, d
      <4>2. asked' \in Asks /\ asked'.seen = asked.seen /\ asked'.status = "declined"
        BY <3>2, <4>1 DEF Act!Decided
      <4> QED BY <2>1, <3>1, <4>1, <4>2, PolicyEdits DEF AssentedIsPaired, Act!AssentedIsPaired
    <3>6. CASE Act!StageAssent
      <4>1. asked' = Act!Moved(d, "awaiting_gate", "gate") /\ UNCHANGED rules
        BY <3>6 DEF Act!StageAssent, d
      <4>2. asked' \in Asks /\ asked'.seen = asked.seen /\ asked'.status = "awaiting_gate"
        BY <3>2, <4>1 DEF Act!Decided
      <4> QED BY <2>1, <3>1, <4>1, <4>2, PolicyEdits DEF AssentedIsPaired, Act!AssentedIsPaired
    <3>7. CASE Act!Assent
      <4>1. asked' = Act!Moved(d, "assented", d.note) /\ rules' = Act!Minted(3)
        BY <3>7 DEF Act!Assent, d
      <4>2. asked' \in Asks /\ asked'.seen = asked.seen
        BY <3>2, <3>3, <4>1 DEF Act!Decided
      <4>3. PolicyKept /\ \A e \in Act!Edges : rules'[e].minted /\ rules'[e].paired
        BY <2>1, <4>1, PolicyEdits, 3 \in 1..3
      <4> QED BY <3>1, <4>2, <4>3 DEF AssentedIsPaired, Act!AssentedIsPaired
    <3>8. CASE Act!AssentRefused
      <4>1. asked' = Act!Moved(d, "declined", "world") /\ UNCHANGED rules
        BY <3>8 DEF Act!AssentRefused, d
      <4>2. asked' \in Asks /\ asked'.seen = asked.seen /\ asked'.status = "declined"
        BY <3>2, <4>1 DEF Act!Decided
      <4> QED BY <2>1, <3>1, <4>1, <4>2, PolicyEdits DEF AssentedIsPaired, Act!AssentedIsPaired
    <3> QED BY <3>4, <3>5, <3>6, <3>7, <3>8
  <2> QED BY <2>2, <2>3
    DEF Act!DecideNothing, Act!Decline, Act!StageAssent, Act!Assent, Act!AssentRefused,
        Act!StopInMint
<1> QED BY <1>1, <1>2, <1>3, <1>4 DEF ActuationInv, PolicyKept

\* A step that only moves the tick.
LEMMA TickMoves ==
    ASSUME ActuationInv, GoodPass(tick', Heardof),
           UNCHANGED <<device, surf, theory, asked, rules, home, gate, dismissal, mover, now>>,
           memory' \in {"unseen"} \cup Act!Edges
    PROVE  ActuationInv'
<1>1. theory' \in Needs /\ theory'.answers = theory.answers /\ PolicyKept
      /\ device' \in Act!Labels /\ GoodSurf(surf', Heardof) /\ mover' \in Movers
  BY StillGood
<1> QED BY <1>1, SurfaceMoves

LEMMA PassStarts ==
    ASSUME ActuationInv,
           \/ Act!TickStart \/ Act!HeedNothing \/ Act!HeedUndoFails \/ Act!PollRead
           \/ Act!TendRead
    PROVE  ActuationInv'
<1>1. UNCHANGED <<device, surf, theory, asked, rules, memory, home, gate, dismissal, mover, now>>
  BY DEF Act!TickStart, Act!HeedNothing, Act!HeedUndoFails, Act!PollRead, Act!TendRead
<1>2. Heardof \in Nat /\ device \in Act!Labels /\ memory' \in {"unseen"} \cup Act!Edges
  BY <1>1 DEF ActuationInv, Heardof
<1>3. \A stage \in Stages \ Holding : GoodPass(Act!Reach(stage), Heardof)
  BY <1>2, ReachIsGood
<1>4. CASE \E stage \in Stages \ Holding : tick' = Act!Reach(stage)
  BY <1>1, <1>2, <1>3, <1>4, TickMoves
<1>5. CASE Act!TickStart \/ Act!HeedNothing \/ Act!HeedUndoFails
  BY <1>4, <1>5 DEF Act!TickStart, Act!HeedNothing, Act!HeedUndoFails, Stages, Holding
<1>6. CASE Act!PollRead
  <2>1. CASE tick' = Act!Reach("heed")
    BY <1>4, <2>1 DEF Stages, Holding
  <2>2. CASE \E reading \in Act!Labels \cup {None} : tick' = Act!Loaded("polled", reading)
    <3>1. PICK reading \in Act!Labels \cup {None} : tick' = Act!Loaded("polled", reading)
      BY <2>2
    <3>2. /\ tick' \in Passes /\ tick'.seen <= Heardof /\ GoodSurf(tick'.snap, Heardof)
          /\ tick'.at = "polled"
      BY <3>1, LoadedIsGood, Zenon DEF Holding
    <3>3. GoodPass(tick', Heardof)
      BY <3>2 DEF GoodPass, Holding
    <3> QED BY <1>1, <1>2, <3>3, TickMoves
  <2> QED BY <1>2, <1>6, <2>1, <2>2 DEF Act!PollRead
<1>7. CASE Act!TendRead
  <2>1. CASE tick' = Act!Reach("rules")
    BY <1>4, <2>1 DEF Stages, Holding
  <2>2. CASE tick' = Act!Loaded("tending", device) /\ device # Act!Want
    <3>1. /\ tick' \in Passes /\ tick'.seen <= Heardof /\ GoodSurf(tick'.snap, Heardof)
          /\ tick'.at = "tending" /\ tick'.read = device
      BY <1>2, <2>2, LoadedIsGood, Zenon DEF Holding
    <3>2. GoodPass(tick', Heardof)
      BY <1>2, <2>2, <3>1 DEF GoodPass, Holding
    <3> QED BY <1>1, <1>2, <3>2, TickMoves
  <2> QED BY <1>7, <2>1, <2>2 DEF Act!TendRead, Act!Differs
<1> QED BY <1>5, <1>6, <1>7

LEMMA DueKeeps == ActuationInv /\ Act!Due => ActuationInv'
<1> SUFFICES ASSUME ActuationInv, Act!Due PROVE ActuationInv'
  OBVIOUS
<1> DEFINE e == IF home THEN "back" ELSE "away"
<1>1. UNCHANGED <<device, surf, theory, asked, rules, home, gate, dismissal, mover, now>>
  BY DEF Act!Due
<1>2. memory' = IF \E x \in Act!Edges : rules[x].minted THEN e ELSE memory
  BY DEF Act!Due
<1>3. \/ tick' = Act!Idle
      \/ /\ tick' = [Act!Loaded("firing", device) EXCEPT !.edge = e]
         /\ device # Act!EdgeAct[e]
  BY DEF Act!Due, Act!Differs
<1>4. e \in Act!Edges
  BY EdgesAre
<1> HIDE DEF e
<1>5. memory' \in {"unseen"} \cup Act!Edges
  <2>1. memory \in {"unseen"} \cup Act!Edges
    BY DEF ActuationInv
  <2> QED BY <1>2, <1>4, <2>1
<1>6. Heardof \in Nat /\ device \in Act!Labels
  BY DEF ActuationInv, Heardof
<1>7. CASE tick' = Act!Idle
  BY <1>1, <1>5, <1>6, <1>7, ReachIsGood, TickMoves
<1>8. CASE /\ tick' = [Act!Loaded("firing", device) EXCEPT !.edge = e]
           /\ device # Act!EdgeAct[e]
  <2> DEFINE t == Act!Loaded("firing", device)
  <2>1. /\ t \in Passes /\ t.seen <= Heardof /\ GoodSurf(t.snap, Heardof)
        /\ t.at = "firing" /\ t.read = device
    BY <1>6, LoadedIsGood, Zenon DEF Holding
  <2>2. tick' = [t EXCEPT !.edge = e]
    BY <1>8
  <2> HIDE DEF t
  <2>3. /\ tick' \in Passes /\ tick'.seen = t.seen /\ tick'.snap = t.snap
        /\ tick'.at = "firing" /\ tick'.read = device /\ tick'.edge = e
    BY <1>4, <2>1, <2>2 DEF Passes
  <2>4. GoodPass(tick', Heardof)
    BY <1>4, <1>6, <1>8, <2>1, <2>3 DEF GoodPass, Holding
  <2> QED BY <1>1, <1>5, <2>4, TickMoves
<1> QED BY <1>3, <1>7, <1>8

LEMMA PollSaveKeeps == ActuationInv /\ Act!PollSave => ActuationInv'
<1> SUFFICES ASSUME ActuationInv, Act!PollSave PROVE ActuationInv'
  OBVIOUS
<1> DEFINE act == tick.snap.act
<1>1. /\ UNCHANGED <<device, asked, memory, home, gate, dismissal, mover, now>>
      /\ tick' = Act!Reach("heed") /\ tick.at = "polled"
  BY DEF Act!PollSave
<1>2. /\ tick \in Passes /\ GoodSurf(tick.snap, Heardof) /\ tick.read \in Act!Labels \cup {None}
      /\ Heardof \in Nat
  BY <1>1 DEF ActuationInv, GoodPass, Holding, Passes, Heardof
<1>3. now \in (-Poll)..SurfaceTime /\ now + Rest \in 0..(SurfaceTime + Rest)
  BY SurfaceBounds DEF ActuationInv
<1>4. Act!Polled = [tick.snap EXCEPT !.polledAt = now] /\ GoodSurf(Act!Polled, Heardof)
  BY <1>2, <1>3, SurfEdits, NoActIsGood DEF Act!Polled
<1>5. Act!Polled.act = act /\ act \in ActRecords \cup {None}
  BY <1>2, <1>4 DEF GoodSurf, SurfRecords
<1> DEFINE polled == Act!Polled
<1>6. /\ \/ surf' = polled
         \/ tick.read # None /\ surf' = [polled EXCEPT !.bucket = tick.read]
         \/ surf' = Act!Closed(polled)
         \/ tick.read # None /\ surf' = [Act!Closed(polled) EXCEPT !.bucket = tick.read,
                                                                  !.restUntil = now + Rest]
      /\ (act # None /\ Act!Depreciate(act)) \/ UNCHANGED <<theory, rules>>
  BY DEF Act!PollSave, Act!Undone
<1>7. Act!Closed(polled) = [polled EXCEPT !.act = None]
  BY DEF Act!Closed
<1> HIDE DEF polled, act
<1>8. GoodSurf(surf', Heardof)
  <2>1. GoodSurf(polled, Heardof) /\ polled \in SurfRecords
    BY <1>4 DEF polled, GoodSurf
  <2>2. GoodSurf(Act!Closed(polled), Heardof)
    <3>1. GoodSurf([polled EXCEPT !.act = None], Heardof)
      BY <1>3, <2>1, SurfEdits, NoActIsGood
    <3> QED BY <1>7, <3>1, Zenon
  <2>3. ASSUME tick.read # None
        PROVE  /\ GoodSurf([polled EXCEPT !.bucket = tick.read], Heardof)
               /\ GoodSurf([Act!Closed(polled) EXCEPT !.bucket = tick.read,
                                                     !.restUntil = now + Rest], Heardof)
    BY <1>2, <1>3, <2>1, <2>2, <2>3, SurfEdits, NoActIsGood
  <2> QED BY <1>6, <2>1, <2>2, <2>3
<1>9. theory' \in Needs /\ theory'.answers = theory.answers /\ PolicyKept
  BY <1>5, <1>6, DepreciateKeeps DEF act, ActuationInv, Needs, PolicyKept
<1>10. GoodPass(tick', Heardof)
  BY <1>1, <1>2, ReachIsGood DEF Stages, Holding
<1>11. /\ mover' \in Movers /\ device' \in Act!Labels /\ memory' \in {"unseen"} \cup Act!Edges
  BY <1>1 DEF ActuationInv, Movers
<1> QED BY <1>1, <1>8, <1>9, <1>10, <1>11, SurfaceMoves

LEMMA HeedKeeps ==
    ASSUME ActuationInv, Act!HeedAssent \/ Act!HeedUndo \/ Act!HeedSave
    PROVE  ActuationInv'
<1>1. UNCHANGED <<asked, memory, home, gate, dismissal, mover, now>>
  BY DEF Act!HeedAssent, Act!HeedUndo, Act!HeedSave
<1>2. /\ GoodSurf(surf, Heardof) /\ surf \in SurfRecords /\ Heardof \in Nat
      /\ rules \in [Act!Edges -> Edge] /\ theory \in Needs /\ tick \in Passes
  BY DEF ActuationInv, GoodSurf, GoodPass, Needs, Heardof
<1>3. now \in (-Poll)..SurfaceTime /\ now + Rest \in 0..(SurfaceTime + Rest)
      /\ -Poll \in (-Poll)..SurfaceTime
  BY SurfaceBounds DEF ActuationInv
<1>4. mover' \in Movers /\ memory' \in {"unseen"} \cup Act!Edges
  BY <1>1 DEF ActuationInv, Movers
<1>5. GoodPass(Act!Reach("tend"), Heardof)
  BY <1>2, ReachIsGood DEF Stages, Holding
<1>6. CASE Act!HeedAssent
  <2>1. /\ surf' = [surf EXCEPT !.act = None] /\ tick' = Act!Reach("tend")
        /\ UNCHANGED <<device, theory>>
        /\ rules' = Act!Minted(3) \/ UNCHANGED rules
    BY <1>6 DEF Act!HeedAssent, Act!Closed
  <2>2. GoodSurf(surf', Heardof)
    BY <1>2, <1>3, <2>1, SurfEdits, NoActIsGood
  <2>3. PolicyKept
    BY <1>2, <2>1, PolicyEdits, 3 \in 1..3
  <2>4. device' \in Act!Labels
    BY <2>1 DEF ActuationInv
  <2> QED BY <1>1, <1>2, <1>4, <1>5, <2>1, <2>2, <2>3, <2>4, SurfaceMoves
<1>7. CASE Act!HeedUndo
  <2>1. UNCHANGED <<surf, theory, rules>> /\ PolicyKept
    BY <1>2, <1>7, PolicyEdits DEF Act!HeedUndo
  <2>2. surf.act \in ActRecords /\ surf.act.prev # surf.act.label /\ surf.act.prev \in Act!Labels
    <3>1. surf.act # None
      BY <1>7 DEF Act!HeedUndo, Act!Heard
    <3> QED BY <1>2, <3>1 DEF GoodSurf, GoodAct, ActRecords
  <2>3. device' = surf.act.prev /\ tick' = Act!Loaded("undone", None)
    BY <1>7 DEF Act!HeedUndo
  <2>4. device' \in Act!Labels
    BY <2>2, <2>3
  <2>5. GoodPass(tick', Heardof)
    <3>1. /\ tick' \in Passes /\ tick'.seen <= Heardof /\ GoodSurf(tick'.snap, Heardof)
          /\ tick'.at = "undone" /\ tick'.snap = surf
      BY <2>3, LoadedIsGood, Zenon DEF Holding
    <3> QED BY <2>2, <3>1 DEF GoodPass, Holding
  <2> QED BY <1>1, <1>2, <1>4, <2>1, <2>4, <2>5, SurfaceMoves
<1>8. CASE Act!HeedSave
  <2>1. /\ surf' = [Act!Closed(tick.snap) EXCEPT !.bucket = tick.snap.act.prev,
                                                 !.restUntil = now + Rest]
        /\ theory' = [theory EXCEPT !.status = "abandoned"] /\ tick' = Act!Reach("tend")
        /\ UNCHANGED <<device, rules>> /\ tick.at = "undone"
    BY <1>8 DEF Act!HeedSave
  <2>2. GoodSurf(tick.snap, Heardof) /\ tick.snap.act.prev \in Act!Labels
    BY <2>1 DEF ActuationInv, GoodPass, Holding, ActRecords
  <2>3. GoodSurf(Act!Closed(tick.snap), Heardof)
    BY <1>3, <2>2, SurfEdits, NoActIsGood DEF Act!Closed
  <2>4. GoodSurf(surf', Heardof)
    BY <1>3, <2>1, <2>2, <2>3, SurfEdits, NoActIsGood
  <2>5. theory' \in Needs /\ theory'.answers = theory.answers
    BY <1>2, <2>1 DEF Needs
  <2>6. PolicyKept /\ device' \in Act!Labels
    BY <1>2, <2>1, PolicyEdits DEF ActuationInv
  <2> QED BY <1>1, <1>4, <1>5, <2>1, <2>4, <2>5, <2>6, SurfaceMoves
<1> QED BY <1>6, <1>7, <1>8

\* The tool runs or fails, and what came of it is saved.
LEMMA ActKeeps ==
    ASSUME ActuationInv, Act!ActRuns \/ Act!ActFails \/ Act!ActSave
    PROVE  ActuationInv'
<1> DEFINE label == IF tick.at \in {"tending", "tended"} THEN Act!Want ELSE Act!EdgeAct[tick.edge]
<1>1. /\ UNCHANGED <<theory, asked, rules, memory, home, gate, dismissal, mover, now>>
      /\ tick.at \in {"tending", "tended", "firing", "fired"}
  BY DEF Act!ActRuns, Act!ActFails, Act!ActSave
<1>2. GoodPass(tick, Heardof) /\ Heardof \in Nat /\ tick \in Passes /\ now \in 0..SurfaceTime
  BY DEF ActuationInv, GoodPass, Heardof
<1>3. /\ GoodSurf(tick.snap, Heardof) /\ label \in Act!Labels
      /\ tick.read \in Act!Labels \ {label} /\ tick.seen <= Heardof /\ tick.seen \in Nat
      /\ tick.at \in {"firing", "fired"} => tick.edge \in Act!Edges
  BY <1>1, <1>2, EdgesAre DEF GoodPass, Holding, Passes
<1>4. /\ theory' \in Needs /\ theory'.answers = theory.answers /\ PolicyKept
      /\ mover' \in Movers /\ memory' \in {"unseen"} \cup Act!Edges
      /\ device \in Act!Labels /\ GoodSurf(surf, Heardof)
  BY <1>1, StillGood
<1>5. GoodPass(Act!Idle, Heardof) /\ GoodPass(Act!Reach("rules"), Heardof)
  BY <1>2, ReachIsGood DEF Stages, Holding
<1>6. CASE Act!ActRuns
  <2>1. UNCHANGED surf /\ device' = label
    BY <1>6 DEF Act!ActRuns
  <2>2. GoodPass(tick', Heardof)
    <3> DEFINE next == IF tick.at = "tending" THEN "tended" ELSE "fired"
    <3>1. tick' = [tick EXCEPT !.at = next] /\ tick.at \in {"tending", "firing"}
      BY <1>6 DEF Act!ActRuns
    <3>2. /\ tick' \in Passes /\ tick'.at = next /\ tick'.snap = tick.snap
          /\ tick'.read = tick.read /\ tick'.edge = tick.edge /\ tick'.seen = tick.seen
      BY <1>2, <3>1 DEF Passes, Stages
    <3> QED BY <1>2, <3>1, <3>2 DEF GoodPass, Holding
  <2> QED BY <1>1, <1>3, <1>4, <2>1, <2>2, SurfaceMoves
<1>7. CASE Act!ActFails
  <2>1. UNCHANGED device /\ surf' = tick.snap
        /\ (tick' = Act!Idle \/ tick' = Act!Reach("rules"))
    BY <1>7 DEF Act!ActFails
  <2> QED BY <1>1, <1>3, <1>4, <1>5, <2>1, SurfaceMoves
<1>8. CASE Act!ActSave
  <2> DEFINE of == IF tick.at = "tended" THEN "theory" ELSE tick.edge
             act == [of |-> of, label |-> label, prev |-> tick.read, at |-> now,
                     seen |-> tick.seen]
  <2>1. /\ UNCHANGED device /\ surf' = [tick.snap EXCEPT !.bucket = label, !.act = act]
        /\ (tick' = Act!Idle \/ tick' = Act!Reach("rules")) /\ tick.at \in {"tended", "fired"}
    BY <1>8 DEF Act!ActSave
  <2>2. of \in {"theory"} \cup Act!Edges
    BY <1>3, <2>1
  <2>3. GoodAct(act, Heardof)
    <3> HIDE DEF of, label
    <3>1. act \in ActRecords /\ act.prev # act.label /\ act.seen <= Heardof
      BY <1>2, <1>3, <2>2 DEF ActRecords
    <3> QED BY <3>1 DEF GoodAct
  <2> HIDE DEF act, label
  <2>4. GoodSurf(surf', Heardof)
    <3>1. now \in (-Poll)..SurfaceTime /\ now + Rest \in 0..(SurfaceTime + Rest)
      BY <1>2, SurfaceBounds
    <3> QED BY <1>3, <2>1, <2>3, <3>1, SurfEdits
  <2> QED BY <1>1, <1>4, <1>5, <2>1, <2>4, SurfaceMoves
<1> QED BY <1>6, <1>7, <1>8

LEMMA ActuationNextKeeps == ActuationInv /\ [Act!Next]_(Act!vars) => ActuationInv'
<1> SUFFICES ASSUME ActuationInv, [Act!Next]_(Act!vars) PROVE ActuationInv'
  OBVIOUS
<1>1. CASE UNCHANGED Act!vars
  BY <1>1 DEF Act!vars, ActuationInv, Heardof, AssentedIsPaired, Act!AssentedIsPaired
<1>2. CASE Act!Next
  BY <1>2, AnswerKeeps, AskKeeps, LifeKeeps, HandsKeep, HandRecordsKeeps, DecideKeeps,
     PassStarts, DueKeeps, PollSaveKeeps, HeedKeeps, ActKeeps
  DEF Act!Next, Act!TickStep
<1> QED BY <1>1, <1>2

(* What a surface, its record, its policy and a pass over them look like   *)
(* in every state that can be reached.                                     *)
THEOREM ActuationInvariant == Act!Spec => []ActuationInv
<1> QED BY ActuationInitInv, ActuationNextKeeps, PTL DEF Act!Spec

(* heed_pending_decisions and mint_policy: a decision is only recorded as  *)
(* assented over a whole policy, whatever stops in between, however often  *)
(* people answer, dismiss and turn the device, and however long it lasts.  *)
THEOREM AssentsArePaired == Act!Spec => []AssentedIsPaired
<1>1. ActuationInv => AssentedIsPaired
  BY DEF ActuationInv
<1> QED BY ActuationInvariant, <1>1, PTL

(* Every variable of the story keeps its shape.                            *)
LEMMA ActuationTyped == ActuationInv => Act!ActuationTypeOK
<1> SUFFICES ASSUME ActuationInv PROVE Act!ActuationTypeOK
  OBVIOUS
<1>0. Heardof \in Nat
  BY DEF ActuationInv, Heardof
<1>1. ASSUME NEW s, GoodSurf(s, Heardof) PROVE Act!SurfaceOK(s)
  <2>1. Act!ActOK(s.act)
    <3>1. CASE s.act = None
      BY <3>1 DEF Act!ActOK
    <3>2. CASE s.act \in ActRecords /\ s.act.prev # s.act.label /\ s.act.seen <= Heardof
      <4>1. /\ s.act.of \in {"theory"} \cup Act!Edges /\ s.act.at \in 0..SurfaceTime
            /\ s.act.label \in Act!Labels /\ s.act.prev \in Act!Labels /\ s.act.seen \in Nat
        BY <3>2 DEF ActRecords
      <4>2. s.act.seen \in 0..Len(theory.answers)
        BY <1>0, <3>2, <4>1 DEF Heardof
      <4> QED BY <3>2, <4>1, <4>2 DEF Act!ActOK
    <3> QED BY <1>1, <3>1, <3>2 DEF GoodSurf, GoodAct
  <2>2. /\ s.bucket \in Act!Labels \cup {""} /\ s.polledAt \in (-Poll)..SurfaceTime
        /\ s.restUntil \in 0..(SurfaceTime + Rest)
    BY <1>1 DEF GoodSurf, SurfRecords
  <2> QED BY <2>1, <2>2 DEF Act!SurfaceOK
<1>2. Act!SurfaceOK(surf) /\ (tick.snap # None => Act!SurfaceOK(tick.snap))
  BY <1>1 DEF ActuationInv, GoodPass
<1>3. asked # None => asked.status \in Act!Decided /\ asked.seen \in 0..Len(theory.answers)
  <2> SUFFICES ASSUME asked # None PROVE asked.status \in Act!Decided /\ asked.seen \in 0..Heardof
    BY DEF Heardof
  <2>1. asked \in Asks /\ asked.seen <= Heardof
    BY DEF ActuationInv
  <2>2. asked.status \in Act!Decided /\ asked.seen \in Nat /\ Heardof \in Nat
    BY <1>0, <2>1 DEF Asks
  <2> QED BY <2>1, <2>2
<1> QED BY <1>2, <1>3 DEF Act!ActuationTypeOK, ActuationInv, Edge

-----------------------------------------------------------------------------
(* A conversation and its two answerers.                                   *)

Lines == [by : {"human"} \cup Dia!Answerers, word : Words, ts : Nat, seen : Nat]
Minds == [at : {"idle", "loading", "drafting", "looking", "recording", "asking", "answering"},
          now : Nat, read : Nat, word : Words \cup {None}, kind : Dia!Kinds \cup {None},
          reply : Nat]
Paired == [requests : SUBSET Nat, answers : SUBSET Nat]

DialogueShape ==
    /\ log \in Seq(Lines) /\ mind \in [Dia!Answerers -> Minds]
    /\ pairs \in [Words -> Paired] /\ wake \in BOOLEAN
    /\ breaks \in 0..DialogueStops /\ second \in 1..DialogueTime

(* A thing is said once, before anyone replies to it, and nothing on the   *)
(* log is dated in the future.                                             *)
LogIsSound ==
    /\ \A k \in DOMAIN log : log[k].ts \in 1..second /\ log[k].seen < k
    /\ \A j, k \in Dia!Utterances(log) : log[j].word = log[k].word => j = k
    /\ \A k \in Dia!Replied(log) : \E u \in Dia!Utterances(log) : log[u].word = log[k].word

(* An echo, of words said at some place of the log.                        *)
EchoesAreRaces ==
    \A j, k \in Dia!Replied(log), u \in Dia!Utterances(log) :
        j < k /\ log[j].word = log[k].word /\ log[u].word = log[j].word
            => log[k].seen < j \/ log[j].ts < log[u].ts

(* Who is about to record has seen every reply that is as new as the words *)
(* it answers, so that any it has not seen came after it looked.           *)
SoundMind(m) ==
    /\ m.read <= Len(log) /\ m.now <= second
    /\ m.at # "idle" => m.now >= 1
    /\ m.at \notin {"idle", "loading"} =>
         m.word \in Words /\ \E u \in Dia!Utterances(log) : log[u].word = m.word
    /\ m.at = "recording" =>
         \A k \in Dia!Replied(log), u \in Dia!Utterances(log) :
            k <= m.read /\ log[k].word = m.word /\ log[u].word = m.word
                => log[k].ts < log[u].ts
    /\ m.at \in {"asking", "answering"} =>
         m.reply \in Dia!Replied(log) /\ log[m.reply].word = m.word
    /\ m.at = "answering" => m.reply \in pairs[m.word].requests

DialogueInv ==
    /\ DialogueShape /\ LogIsSound /\ \A a \in Dia!Answerers : SoundMind(mind[a])
    /\ EchoesAreRaces /\ Dia!PairsFollowReplies

LEMMA DialogueBounds ==
    /\ None \notin Words /\ DialogueTime \in Nat \ {0} /\ DialogueStops \in Nat
    /\ ReplyWindow \in Nat /\ "human" \notin Dia!Answerers
BY TickAssumption DEF Dia!DialogueAssumption, Dia!Answerers

\* Any set of naturals that is not empty has a least member.
LEMMA LeastExists ==
    ASSUME NEW S \in SUBSET Nat, S # {}
    PROVE  \E x \in S : \A y \in S : x <= y
<1> DEFINE R == {ss \in Nat \X Nat : ss[1] < ss[2]}
<1>1. IsWellFoundedOn(R, Nat)
  BY NatLessThanWellFounded, Zenon DEF OpToRel
<1> HIDE DEF R
<1>2. PICK x \in S : \A y \in S : ~(<<y, x>> \in R)
  BY <1>1, WFMin, Zenon
<1>3. ASSUME NEW y \in S PROVE x <= y
  <2>1. ~(<<y, x>> \in R) BY <1>2
  <2> QED BY <2>1 DEF R
<1> QED BY <1>3

\* Among the things said there is a freshest one.
LEMMA FreshestIsSaid ==
    ASSUME DialogueInv, Dia!Utterances(log) # {}
    PROVE  Dia!Freshest(log) \in Dia!Utterances(log)
<1> DEFINE U == Dia!Utterances(log)
<1>1. /\ U \subseteq 1..Len(log) /\ Len(log) \in Nat /\ second \in Nat
      /\ \A k \in U : log[k].ts \in Nat /\ log[k].ts <= second
  BY DEF DialogueInv, DialogueShape, LogIsSound, Dia!Utterances
<1> HIDE DEF U
<1> DEFINE ages == {second - log[k].ts : k \in U}
<1>2. ages \subseteq Nat /\ ages # {}
  BY <1>1 DEF U
<1>3. PICK age \in ages : \A y \in ages : age <= y
  <2> HIDE DEF ages
  <2> QED BY <1>2, LeastExists
<1>4. PICK first \in U : age = second - log[first].ts
  OBVIOUS
<1>5. \A k \in U : log[k].ts <= log[first].ts
  <2> SUFFICES ASSUME NEW k \in U PROVE log[k].ts <= log[first].ts
    OBVIOUS
  <2>1. second - log[k].ts \in ages
    OBVIOUS
  <2>2. second - log[first].ts <= second - log[k].ts
    BY <1>3, <1>4, <2>1
  <2> QED BY <1>1, <2>2
<1> DEFINE V == {k \in U : log[k].ts = log[first].ts}
           places == {Len(log) - k : k \in V}
<1>6. places \subseteq Nat /\ places # {}
  BY <1>1
<1>7. PICK place \in places : \A y \in places : place <= y
  <2> HIDE DEF places
  <2> QED BY <1>6, LeastExists
<1>8. PICK last \in V : place = Len(log) - last
  OBVIOUS
<1>9. \A k \in V : k <= last
  <2> SUFFICES ASSUME NEW k \in V PROVE k <= last
    OBVIOUS
  <2>1. Len(log) - k \in places
    OBVIOUS
  <2>2. Len(log) - last <= Len(log) - k
    BY <1>7, <1>8, <2>1
  <2>3. k \in Nat /\ last \in Nat /\ Len(log) \in Nat
    BY <1>1
  <2> QED BY <2>2, <2>3
<1>10. \A j \in U \ {last} :
         log[last].ts > log[j].ts \/ (log[last].ts = log[j].ts /\ last > j)
  BY <1>1, <1>5, <1>9
<1>11. \E k \in U : \A j \in U \ {k} :
         log[k].ts > log[j].ts \/ (log[k].ts = log[j].ts /\ k > j)
  BY <1>10
<1> HIDE DEF V, places, ages
<1> QED BY <1>11 DEF Dia!Freshest, U

\* When a thing was said, once it was.
LEMMA SaidAtIs ==
    ASSUME LogIsSound, NEW k \in Dia!Utterances(log)
    PROVE  Dia!SaidAt(log[k].word) = log[k].ts
<1>1. \A j \in Dia!Utterances(log) : log[j].word = log[k].word => j = k
  BY DEF LogIsSound
<1> QED BY <1>1, Zenon DEF Dia!SaidAt

\* What is on the log already, after a line is added to it.
LEMMA LogGrows ==
    ASSUME DialogueInv, NEW line \in Lines, log' = Append(log, line)
    PROVE  /\ log' \in Seq(Lines) /\ Len(log') = Len(log) + 1 /\ Len(log) \in Nat
           /\ DOMAIN log' = DOMAIN log \cup {Len(log) + 1} /\ DOMAIN log = 1..Len(log)
           /\ \A k \in DOMAIN log : log'[k] = log[k]
           /\ log'[Len(log) + 1] = line
           /\ Len(log) + 1 \notin DOMAIN log
<1>1. log \in Seq(Lines)
  BY DEF DialogueInv, DialogueShape
<1> QED BY <1>1

(* Nothing is taken back: not a line, not what was filed, not an hour.     *)
Grows ==
    /\ Len(log) <= Len(log') /\ second <= second' /\ second' \in Nat
    /\ \A w \in Words : pairs[w].requests \subseteq pairs'[w].requests
    /\ \A u \in Dia!Utterances(log) : u \in Dia!Utterances(log') /\ log'[u] = log[u]
    /\ \A k \in Dia!Replied(log) : k \in Dia!Replied(log') /\ log'[k] = log[k]
    /\ \A k \in Dia!Replied(log') : k \in Dia!Replied(log) \/ k > Len(log)

LEMMA MindsStaySound ==
    ASSUME DialogueInv, DialogueShape', LogIsSound', Grows, NEW m \in Minds, SoundMind(m)
    PROVE  SoundMind(m)'
<1>1. /\ m.read \in Nat /\ m.now \in Nat /\ Len(log) \in Nat /\ Len(log') \in Nat
      /\ second \in Nat /\ second' \in Nat
  BY DEF DialogueInv, DialogueShape, Minds
<1>2. m.read <= Len(log') /\ m.now <= second' /\ (m.at # "idle" => m.now >= 1)
  BY <1>1 DEF SoundMind, Grows
<1>3. ASSUME m.at \notin {"idle", "loading"}
      PROVE  /\ m.word \in Words
             /\ \E u \in Dia!Utterances(log') : log'[u].word = m.word
             /\ \A u \in Dia!Utterances(log') : log'[u].word = m.word =>
                  u \in Dia!Utterances(log) /\ log'[u] = log[u]
  <2>1. PICK u \in Dia!Utterances(log) : log[u].word = m.word
    BY <1>3 DEF SoundMind
  <2>2. u \in Dia!Utterances(log') /\ log'[u] = log[u]
    BY DEF Grows
  <2>3. \A v \in Dia!Utterances(log') : log'[v].word = m.word => v = u
    BY <2>1, <2>2 DEF LogIsSound
  <2> QED BY <1>3, <2>1, <2>2, <2>3 DEF SoundMind
<1>4. ASSUME m.at = "recording", NEW k \in Dia!Replied(log'), NEW u \in Dia!Utterances(log'),
             k <= m.read, log'[k].word = m.word, log'[u].word = m.word
      PROVE  log'[k].ts < log'[u].ts
  <2>1. k \in Nat
    BY DEF DialogueShape, Dia!Replied
  <2>2. k \in Dia!Replied(log) /\ log'[k] = log[k]
    BY <1>1, <1>4, <2>1 DEF Grows, SoundMind
  <2>3. u \in Dia!Utterances(log) /\ log'[u] = log[u]
    BY <1>3, <1>4
  <2> QED BY <1>4, <2>2, <2>3 DEF SoundMind
<1>5. m.at \in {"asking", "answering"} =>
         m.reply \in Dia!Replied(log') /\ log'[m.reply].word = m.word
  BY DEF SoundMind, Grows
<1>6. m.at = "answering" => m.reply \in pairs'[m.word].requests
  BY <1>3 DEF SoundMind, Grows
<1> QED BY <1>2, <1>3, <1>4, <1>5, <1>6 DEF SoundMind

\* An answerer takes a step that leaves the log and the files alone.
LEMMA OnlyTheMindMoves ==
    ASSUME DialogueInv, NEW a \in Dia!Answerers, NEW m \in Minds,
           mind' = [mind EXCEPT ![a] = m], SoundMind(m), wake' \in BOOLEAN,
           UNCHANGED <<log, pairs, breaks, second>>
    PROVE  DialogueInv'
<1>1. DialogueShape'
  BY DEF DialogueInv, DialogueShape
<1>2. LogIsSound' /\ EchoesAreRaces' /\ Dia!PairsFollowReplies'
  BY DEF DialogueInv, LogIsSound, EchoesAreRaces, Dia!PairsFollowReplies
<1>3. ASSUME NEW b \in Dia!Answerers PROVE SoundMind(mind[b])'
  <2>1. SoundMind(mind[b]')
    BY DEF DialogueInv, DialogueShape
  <2> QED BY <2>1 DEF SoundMind
<1> QED BY <1>1, <1>2, <1>3 DEF DialogueInv

LEMMA DialogueInitInv == Dia!Init => DialogueInv
<1> SUFFICES ASSUME Dia!Init PROVE DialogueInv
  OBVIOUS
<1>1. /\ log = <<>> /\ wake = FALSE /\ breaks = 0 /\ second = 1
      /\ mind = [a \in Dia!Answerers |-> Dia!Quiet]
      /\ pairs = [w \in Words |-> [requests |-> {}, answers |-> {}]]
  BY DEF Dia!Init
<1>2. Dia!Quiet \in Minds /\ Dia!Quiet.at = "idle" /\ Dia!Quiet.read = 0 /\ Dia!Quiet.now = 0
  BY DEF Dia!Quiet, Minds
<1>3. log \in Seq(Lines) /\ Len(log) = 0 /\ DOMAIN log = {}
  BY <1>1
<1>4. DialogueShape
  <2>1. mind \in [Dia!Answerers -> Minds] /\ wake \in BOOLEAN
    BY <1>1, <1>2
  <2>2. pairs \in [Words -> Paired]
    <3>1. [requests |-> {}, answers |-> {}] \in Paired
      BY DEF Paired
    <3> QED BY <1>1, <3>1
  <2>3. breaks \in 0..DialogueStops /\ second \in 1..DialogueTime
    BY <1>1, DialogueBounds
  <2> QED BY <1>3, <2>1, <2>2, <2>3 DEF DialogueShape
<1>5. LogIsSound /\ EchoesAreRaces
  BY <1>3 DEF LogIsSound, EchoesAreRaces, Dia!Utterances, Dia!Replied
<1>6. Dia!PairsFollowReplies
  BY <1>1 DEF Dia!PairsFollowReplies
<1>7. \A a \in Dia!Answerers : SoundMind(mind[a])
  BY <1>1, <1>2, <1>3 DEF SoundMind
<1> QED BY <1>4, <1>5, <1>6, <1>7 DEF DialogueInv

\* An answerer, and the mind it has.
LEMMA MindOf ==
    ASSUME DialogueInv, NEW a \in Dia!Answerers
    PROVE  /\ mind[a] \in Minds /\ SoundMind(mind[a]) /\ Dia!Quiet \in Minds
           /\ SoundMind(Dia!Quiet) /\ second \in Nat /\ second >= 1 /\ Len(log) \in Nat
           /\ mind[a].read \in Nat /\ mind[a].now \in Nat
<1>1. second \in Nat /\ second >= 1 /\ Len(log) \in Nat /\ mind[a] \in Minds
  BY DEF DialogueInv, DialogueShape
<1>2. Dia!Quiet \in Minds /\ Dia!Quiet.at = "idle" /\ Dia!Quiet.read = 0 /\ Dia!Quiet.now = 0
  BY DEF Dia!Quiet, Minds
<1>3. SoundMind(Dia!Quiet)
  BY <1>1, <1>2 DEF SoundMind
<1>4. mind[a].read \in Nat /\ mind[a].now \in Nat
  BY <1>1 DEF Minds
<1> QED BY <1>1, <1>2, <1>3, <1>4 DEF DialogueInv

LEMMA BeginKeeps ==
    ASSUME DialogueInv, NEW a \in Dia!Answerers, Dia!Begin(a) \/ Dia!LoadNothing(a)
    PROVE  DialogueInv'
<1>1. UNCHANGED <<log, pairs, breaks, second>> /\ wake' \in BOOLEAN
  BY DEF Dia!Begin, Dia!LoadNothing, DialogueInv, DialogueShape
<1>2. CASE Dia!LoadNothing(a)
  BY <1>1, <1>2, MindOf, OnlyTheMindMoves DEF Dia!LoadNothing, Dia!Fall
<1>3. CASE Dia!Begin(a)
  <2> DEFINE m == [Dia!Quiet EXCEPT !.at = "loading", !.now = second]
  <2>1. m \in Minds /\ m.at = "loading" /\ m.now = second /\ m.read = 0
    BY MindOf DEF Dia!Quiet, Minds
  <2>2. mind' = [mind EXCEPT ![a] = m]
    BY <1>3 DEF Dia!Begin, Dia!Step
  <2> HIDE DEF m
  <2>3. SoundMind(m)
    BY <2>1, MindOf DEF SoundMind
  <2> QED BY <1>1, <2>1, <2>2, <2>3, OnlyTheMindMoves
<1> QED BY <1>2, <1>3

LEMMA LoadKeeps ==
    ASSUME DialogueInv, NEW a \in Dia!Answerers, Dia!Load(a)
    PROVE  DialogueInv'
<1> DEFINE f == Dia!Freshest(log)
           w == log[f].word
           heard == [mind[a] EXCEPT !.word = w]
           refused == [heard EXCEPT !.at = "recording", !.kind = "refused", !.read = Len(log)]
           drafting == [heard EXCEPT !.at = "drafting"]
           m == IF w \in Corrupting THEN refused ELSE drafting
<1>1. /\ UNCHANGED <<log, pairs, breaks, second, wake>> /\ mind[a].at = "loading"
      /\ mind' = [mind EXCEPT ![a] = m] /\ Dia!Utterances(log) # {}
      /\ ~Dia!Answered(log, log[f].ts)
  BY DEF Dia!Load, Dia!Step, Dia!Owed
<1>2. f \in Dia!Utterances(log)
  BY <1>1, FreshestIsSaid
<1>3. /\ w \in Words /\ \E u \in Dia!Utterances(log) : log[u].word = w
      /\ \A u \in Dia!Utterances(log) : log[u].word = w => u = f
  <2>1. log[f] \in Lines
    BY <1>2 DEF Dia!Utterances, DialogueInv, DialogueShape
  <2> QED BY <1>2, <2>1 DEF DialogueInv, LogIsSound, Lines
<1>4. \A k \in Dia!Replied(log) : log[k].ts < log[f].ts
  <2> SUFFICES ASSUME NEW k \in Dia!Replied(log) PROVE log[k].ts < log[f].ts
    OBVIOUS
  <2>1. ~(log[k].ts >= log[f].ts)
    BY <1>1 DEF Dia!Answered
  <2>2. log[k].ts \in Nat /\ log[f].ts \in Nat
    BY <1>2 DEF DialogueInv, LogIsSound, Dia!Replied, Dia!Utterances
  <2> QED BY <2>1, <2>2
<1>5. /\ mind[a] \in Minds /\ SoundMind(mind[a]) /\ Len(log) \in Nat
      /\ wake' \in BOOLEAN
  BY <1>1, MindOf DEF DialogueInv, DialogueShape
<1> HIDE DEF f, w
<1>6. /\ heard \in Minds /\ heard.word = w /\ heard.now = mind[a].now
      /\ heard.read = mind[a].read
  BY <1>3, <1>5 DEF Minds
<1> HIDE DEF heard
<1>7. /\ refused \in Minds /\ refused.word = w /\ refused.now = mind[a].now
      /\ refused.at = "recording" /\ refused.read = Len(log)
  BY <1>5, <1>6 DEF Minds, Dia!Kinds
<1>8. /\ drafting \in Minds /\ drafting.word = w /\ drafting.now = mind[a].now
      /\ drafting.at = "drafting" /\ drafting.read = mind[a].read
  BY <1>5, <1>6 DEF Minds
<1> HIDE DEF refused, drafting
<1>9. SoundMind(refused)
  BY <1>1, <1>3, <1>4, <1>5, <1>7 DEF SoundMind
<1>10. SoundMind(drafting)
  BY <1>1, <1>3, <1>5, <1>8 DEF SoundMind
<1>11. m \in Minds /\ SoundMind(m)
  BY <1>7, <1>8, <1>9, <1>10
<1> QED BY <1>1, <1>5, <1>11, OnlyTheMindMoves

LEMMA DraftKeeps ==
    ASSUME DialogueInv, NEW a \in Dia!Answerers, Dia!Draft(a)
    PROVE  DialogueInv'
<1>1. PICK kind \in {"admitted", "templated"} :
        mind' = [mind EXCEPT ![a] = [mind[a] EXCEPT !.at = "looking", !.kind = kind]]
  BY DEF Dia!Draft, Dia!Step
<1>2. UNCHANGED <<log, pairs, breaks, second, wake>> /\ mind[a].at = "drafting"
  BY DEF Dia!Draft, Dia!Step
<1> DEFINE m == [mind[a] EXCEPT !.at = "looking", !.kind = kind]
<1>3. /\ m \in Minds /\ m.at = "looking" /\ m.read = mind[a].read /\ m.now = mind[a].now
      /\ m.word = mind[a].word
  BY MindOf DEF Minds, Dia!Kinds
<1> HIDE DEF m
<1>4. SoundMind(m)
  BY <1>2, <1>3, MindOf DEF SoundMind
<1>5. mind' = [mind EXCEPT ![a] = m] /\ wake' \in BOOLEAN
  BY <1>1, <1>2 DEF m, DialogueInv, DialogueShape
<1> QED BY <1>2, <1>3, <1>4, <1>5, OnlyTheMindMoves

LEMMA LookAgainKeeps ==
    ASSUME DialogueInv, NEW a \in Dia!Answerers, Dia!LookAgain(a)
    PROVE  DialogueInv'
<1> DEFINE w == mind[a].word
           m == [mind[a] EXCEPT !.at = "recording", !.read = Len(log)]
<1>1. /\ UNCHANGED <<log, pairs, breaks, second, wake>> /\ mind[a].at = "looking"
      /\ mind' = [mind EXCEPT ![a] = IF Dia!Answered(log, Dia!SaidAt(w)) THEN Dia!Quiet ELSE m]
  BY DEF Dia!LookAgain, Dia!Step, Dia!Look
<1>2. wake' \in BOOLEAN
  BY <1>1 DEF DialogueInv, DialogueShape
<1>3. CASE Dia!Answered(log, Dia!SaidAt(w))
  BY <1>1, <1>2, <1>3, MindOf, OnlyTheMindMoves
<1>4. CASE ~Dia!Answered(log, Dia!SaidAt(w))
  <2>1. /\ m \in Minds /\ m.at = "recording" /\ m.read = Len(log) /\ m.now = mind[a].now
        /\ m.word = w
    BY MindOf DEF Minds
  <2>2. w \in Words /\ \E u \in Dia!Utterances(log) : log[u].word = w
    BY <1>1, MindOf DEF SoundMind
  <2>3. ASSUME NEW k \in Dia!Replied(log), NEW u \in Dia!Utterances(log), log[u].word = w
        PROVE  log[k].ts < log[u].ts
    <3>1. ~(log[k].ts >= Dia!SaidAt(w))
      BY <1>4 DEF Dia!Answered
    <3>2. Dia!SaidAt(w) = log[u].ts
      BY <2>3, SaidAtIs DEF DialogueInv
    <3>3. log[k].ts \in Nat /\ log[u].ts \in Nat
      BY DEF DialogueInv, LogIsSound, Dia!Replied, Dia!Utterances
    <3> QED BY <3>1, <3>2, <3>3
  <2> HIDE DEF m
  <2>4. SoundMind(m)
    BY <1>1, <2>1, <2>2, <2>3, MindOf DEF SoundMind
  <2>5. mind' = [mind EXCEPT ![a] = m]
    BY <1>1, <1>4
  <2> QED BY <1>1, <1>2, <2>1, <2>4, <2>5, OnlyTheMindMoves
<1> QED BY <1>3, <1>4

\* A line added to the log, and what it does to what was there.
LEMMA LineIsAdded ==
    ASSUME DialogueInv, NEW line \in Lines, log' = Append(log, line), UNCHANGED <<pairs, second>>,
           line.ts \in 1..second, line.seen <= Len(log),
           \/ line.by = "human" /\ \A u \in Dia!Utterances(log) : log[u].word # line.word
           \/ line.by \in Dia!Answerers /\ \E u \in Dia!Utterances(log) : log[u].word = line.word
    PROVE  /\ LogIsSound' /\ Grows /\ Dia!PairsFollowReplies'
           /\ \A k \in Dia!Replied(log') :
                 \/ k \in Dia!Replied(log) /\ log'[k] = log[k] /\ k <= Len(log)
                 \/ line.by # "human" /\ k = Len(log) + 1 /\ log'[k] = line
<1> DEFINE n == Len(log)
<1>1. /\ n \in Nat /\ DOMAIN log = 1..n /\ DOMAIN log' = DOMAIN log \cup {n + 1}
      /\ log'[n + 1] = line /\ \A k \in DOMAIN log : log'[k] = log[k] /\ k <= n /\ k \in Nat
      /\ Len(log') = n + 1
  BY LogGrows
<1> HIDE DEF n
<1>2. \A k \in Dia!Utterances(log') :
        \/ k \in Dia!Utterances(log) /\ log'[k] = log[k]
        \/ line.by = "human" /\ k = n + 1 /\ log'[k] = line
  BY <1>1 DEF Dia!Utterances
<1>3. \A k \in Dia!Replied(log') :
        \/ k \in Dia!Replied(log) /\ log'[k] = log[k] /\ k <= n
        \/ line.by \in Dia!Answerers /\ k = n + 1 /\ log'[k] = line
  BY <1>1 DEF Dia!Replied
<1>4. \A k \in Dia!Utterances(log) : k \in Dia!Utterances(log') /\ log'[k] = log[k]
  BY <1>1 DEF Dia!Utterances
<1>6. LogIsSound'
  <2>1. \A k \in DOMAIN log' : log'[k].ts \in 1..second' /\ log'[k].seen < k
    <3> SUFFICES ASSUME NEW k \in DOMAIN log' PROVE log'[k].ts \in 1..second /\ log'[k].seen < k
      OBVIOUS
    <3>1. CASE k \in DOMAIN log
      BY <1>1, <3>1 DEF DialogueInv, LogIsSound
    <3>2. CASE k = n + 1
      <4>1. line.seen \in Nat /\ line.seen <= n
        BY DEF Lines, n
      <4> QED BY <1>1, <3>2, <4>1
    <3> QED BY <1>1, <3>1, <3>2
  <2>2. ASSUME NEW j \in Dia!Utterances(log'), NEW k \in Dia!Utterances(log'),
               log'[j].word = log'[k].word
        PROVE  j = k
    <3>1. CASE line.by = "human"
      <4>1. \A i \in Dia!Utterances(log) : log[i].word # line.word
        BY <3>1, DialogueBounds
      <4>2. CASE j \in Dia!Utterances(log) /\ k \in Dia!Utterances(log)
        BY <1>4, <2>2, <4>2 DEF DialogueInv, LogIsSound
      <4>3. CASE j \notin Dia!Utterances(log) \/ k \notin Dia!Utterances(log)
        BY <1>2, <2>2, <4>1, <4>3
      <4> QED BY <4>2, <4>3
    <3>2. CASE line.by # "human"
      <4>1. j \in Dia!Utterances(log) /\ k \in Dia!Utterances(log)
        BY <1>2, <3>2
      <4> QED BY <1>4, <2>2, <4>1 DEF DialogueInv, LogIsSound
    <3> QED BY <3>1, <3>2
  <2>3. ASSUME NEW k \in Dia!Replied(log')
        PROVE  \E u \in Dia!Utterances(log') : log'[u].word = log'[k].word
    <3>1. \E u \in Dia!Utterances(log) : log[u].word = log'[k].word
      BY <1>3, DialogueBounds DEF DialogueInv, LogIsSound
    <3>2. PICK u \in Dia!Utterances(log) : log[u].word = log'[k].word
      BY <3>1
    <3>3. u \in Dia!Utterances(log') /\ log'[u] = log[u]
      BY <1>4
    <3> QED BY <3>2, <3>3
  <2> QED BY <2>1, <2>2, <2>3 DEF LogIsSound
<1>8. \A k \in Dia!Replied(log) : k \in Dia!Replied(log') /\ log'[k] = log[k]
  BY <1>1 DEF Dia!Replied
<1>9. Grows
  <2>1. n <= Len(log') /\ second <= second' /\ second' \in Nat
    BY <1>1 DEF DialogueInv, DialogueShape
  <2>2. \A k \in Dia!Replied(log') : k \in Dia!Replied(log) \/ k > n
    BY <1>1, <1>3
  <2> QED BY <1>4, <1>8, <2>1, <2>2 DEF Grows, n
<1>10. Dia!PairsFollowReplies'
  <2> SUFFICES ASSUME NEW w \in Words
               PROVE  /\ pairs[w].answers \subseteq pairs[w].requests
                      /\ \A k \in pairs[w].requests : k \in Dia!Replied(log') /\ log'[k].word = w
    BY DEF Dia!PairsFollowReplies
  <2>1. /\ pairs[w].answers \subseteq pairs[w].requests
        /\ pairs[w].requests \subseteq {k \in Dia!Replied(log) : log[k].word = w}
    BY DEF DialogueInv, Dia!PairsFollowReplies
  <2> QED BY <1>8, <2>1
<1> QED BY <1>3, <1>6, <1>9, <1>10, DialogueBounds DEF n

LEMMA SpeakKeeps ==
    ASSUME DialogueInv, NEW w \in Words, Dia!Speak(w)
    PROVE  DialogueInv'
<1> DEFINE line == [by |-> "human", word |-> w, ts |-> second, seen |-> 0]
<1>1. /\ log' = Append(log, line) /\ UNCHANGED <<mind, pairs, breaks, second>>
      /\ \A u \in Dia!Utterances(log) : log[u].word # w
  BY DEF Dia!Speak, Dia!Said
<1>2. /\ second \in Nat /\ second >= 1 /\ Len(log) \in Nat /\ wake' \in BOOLEAN
      /\ \A b \in Dia!Answerers : mind[b] \in Minds /\ SoundMind(mind[b])
  <2>1. wake \in BOOLEAN /\ wake' \in {TRUE, wake}
    BY Zenon DEF DialogueInv, DialogueShape, Dia!Speak
  <2>2. wake' \in BOOLEAN
    BY <2>1
  <2> QED BY <2>2, MindOf DEF DialogueInv, DialogueShape
<1>3. /\ line \in Lines /\ line.ts \in 1..second /\ line.seen <= Len(log)
      /\ line.by = "human" /\ line.word = w
  BY <1>2 DEF Lines
<1> HIDE DEF line
<1>4. /\ LogIsSound' /\ Grows /\ Dia!PairsFollowReplies'
      /\ \A k \in Dia!Replied(log') : k \in Dia!Replied(log) /\ log'[k] = log[k]
  BY <1>1, <1>3, LineIsAdded
<1>5. DialogueShape'
  BY <1>1, <1>2, <1>3, LogGrows DEF DialogueInv, DialogueShape
<1>6. EchoesAreRaces'
  <2> SUFFICES ASSUME NEW j \in Dia!Replied(log'), NEW k \in Dia!Replied(log'),
                      NEW u \in Dia!Utterances(log'),
                      j < k, log'[j].word = log'[k].word, log'[u].word = log'[j].word
               PROVE  log'[k].seen < j \/ log'[j].ts < log'[u].ts
    BY DEF EchoesAreRaces
  <2>1. /\ j \in Dia!Replied(log) /\ k \in Dia!Replied(log)
        /\ log'[j] = log[j] /\ log'[k] = log[k]
    BY <1>4
  <2>2. PICK v \in Dia!Utterances(log) : log[v].word = log[j].word
    BY <2>1 DEF DialogueInv, LogIsSound
  <2>3. v \in Dia!Utterances(log') /\ log'[v] = log[v]
    BY <1>4 DEF Grows
  <2>4. u = v
    BY <1>4, <2>1, <2>2, <2>3 DEF LogIsSound
  <2> QED BY <2>1, <2>2, <2>3, <2>4 DEF DialogueInv, EchoesAreRaces
<1>7. ASSUME NEW b \in Dia!Answerers PROVE SoundMind(mind[b])'
  <2> DEFINE m == mind[b]
  <2>1. m \in Minds /\ SoundMind(m) /\ m' = m
    BY <1>1, <1>2
  <2>2. \A x \in Minds : SoundMind(x) => SoundMind(x)'
    BY <1>4, <1>5, MindsStaySound
  <2> QED BY <2>1, <2>2 DEF SoundMind
<1> QED BY <1>4, <1>5, <1>6, <1>7 DEF DialogueInv

LEMMA ReplyKeeps ==
    ASSUME DialogueInv, NEW a \in Dia!Answerers, Dia!Record(a)
    PROVE  DialogueInv'
<1> DEFINE was == mind[a]
           n == Len(log)
           line == [by |-> a, word |-> was.word, ts |-> was.now, seen |-> was.read]
           asks == [was EXCEPT !.at = "asking", !.reply = n + 1]
           m == IF was.kind = "templated" THEN Dia!Quiet ELSE asks
<1>1. /\ log' = Append(log, line) /\ UNCHANGED <<wake, pairs, breaks, second>>
      /\ mind' = [mind EXCEPT ![a] = m] /\ was.at = "recording"
  BY DEF Dia!Record, Dia!Step
<1>2. /\ was \in Minds /\ SoundMind(was) /\ Dia!Quiet \in Minds /\ SoundMind(Dia!Quiet)
      /\ second \in Nat /\ n \in Nat /\ was.read \in Nat /\ was.now \in Nat
  BY MindOf
<1>3. /\ was.now \in 1..second /\ was.read <= n /\ was.word \in Words
      /\ \E u \in Dia!Utterances(log) : log[u].word = was.word
      /\ \A k \in Dia!Replied(log), u \in Dia!Utterances(log) :
            k <= was.read /\ log[k].word = was.word /\ log[u].word = was.word
                => log[k].ts < log[u].ts
  BY <1>1, <1>2 DEF SoundMind
<1> HIDE DEF was
<1>4. /\ line \in Lines /\ line.ts \in 1..second /\ line.seen = was.read
      /\ line.by = a /\ line.word = was.word
  BY <1>2, <1>3 DEF Lines
<1> HIDE DEF line
<1>5. /\ LogIsSound' /\ Grows /\ Dia!PairsFollowReplies'
      /\ \A k \in Dia!Replied(log') :
            \/ k \in Dia!Replied(log) /\ log'[k] = log[k] /\ k <= n
            \/ k = n + 1 /\ log'[k] = line
  BY <1>1, <1>3, <1>4, LineIsAdded
<1>6. n + 1 \in Dia!Replied(log') /\ log'[n + 1] = line
  BY <1>1, <1>4, LogGrows DEF Dia!Replied
<1>7. asks \in Minds /\ asks.at = "asking" /\ asks.reply = n + 1 /\ asks.word = was.word
      /\ asks.read = was.read /\ asks.now = was.now
  <2>1. n + 1 \in Nat
    BY <1>2
  <2> DEFINE place == n + 1
  <2>2. place \in Nat /\ asks = [was EXCEPT !.at = "asking", !.reply = place]
    BY <2>1
  <2> HIDE DEF place
  <2>3. /\ asks \in Minds /\ asks.at = "asking" /\ asks.reply = place
        /\ asks.word = was.word /\ asks.read = was.read /\ asks.now = was.now
    BY <1>2, <2>2 DEF Minds
  <2> QED BY <2>3 DEF place
<1>8. m \in Minds
  BY <1>2, <1>7
<1>9. DialogueShape'
  <2>1. log' \in Seq(Lines)
    BY <1>1, <1>4, LogGrows
  <2>2. mind' \in [Dia!Answerers -> Minds]
    <3> HIDE DEF m
    <3> QED BY <1>1, <1>8 DEF DialogueInv, DialogueShape
  <2> QED BY <1>1, <2>1, <2>2 DEF DialogueInv, DialogueShape
<1>10. EchoesAreRaces'
  <2> SUFFICES ASSUME NEW j \in Dia!Replied(log'), NEW k \in Dia!Replied(log'),
                      NEW u \in Dia!Utterances(log'),
                      j < k, log'[j].word = log'[k].word, log'[u].word = log'[j].word
               PROVE  log'[k].seen < j \/ log'[j].ts < log'[u].ts
    BY DEF EchoesAreRaces
  <2>1. j \in Nat /\ k \in Nat
    BY <1>9 DEF DialogueShape, Dia!Replied
  <2>2. j \in Dia!Replied(log) /\ log'[j] = log[j] /\ j <= n
    <3>1. k <= n + 1
      BY <1>2, <1>5, <2>1
    <3>2. j # n + 1
      BY <1>2, <2>1, <3>1
    <3> QED BY <1>5, <3>2
  <2>3. PICK v \in Dia!Utterances(log) : log[v].word = log[j].word
    BY <2>2 DEF DialogueInv, LogIsSound
  <2>4. v \in Dia!Utterances(log') /\ log'[v] = log[v]
    BY <1>5 DEF Grows
  <2>5. u = v
    BY <1>5, <2>2, <2>3, <2>4 DEF LogIsSound
  <2>6. CASE k \in Dia!Replied(log) /\ log'[k] = log[k]
    BY <2>2, <2>3, <2>4, <2>5, <2>6 DEF DialogueInv, EchoesAreRaces
  <2>7. CASE k = n + 1 /\ log'[k] = line
    <3>1. log[j].word = was.word /\ log[v].word = was.word
      BY <1>4, <2>2, <2>3, <2>7
    <3>2. j <= was.read => log[j].ts < log[v].ts
      BY <1>3, <2>2, <3>1
    <3> QED BY <1>2, <1>4, <2>1, <2>2, <2>4, <2>5, <2>7, <3>2
  <2> QED BY <1>5, <2>6, <2>7
<1>11. ASSUME NEW b \in Dia!Answerers PROVE SoundMind(mind[b])'
  <2>1. \A x \in Minds : SoundMind(x) => SoundMind(x)'
    BY <1>5, <1>9, MindsStaySound
  <2>2. CASE b # a
    <3> DEFINE o == mind[b]
    <3>1. o \in Minds /\ SoundMind(o) /\ o' = o
      BY <1>1, <2>2 DEF DialogueInv, DialogueShape
    <3> QED BY <2>1, <3>1 DEF SoundMind
  <2>3. CASE b = a
    <3>1. mind'[b] = m
      BY <1>1, <2>3 DEF DialogueInv, DialogueShape
    <3>2. CASE was.kind = "templated"
      <4>1. mind'[b] = Dia!Quiet /\ Dia!Quiet' = Dia!Quiet
        BY <3>1, <3>2 DEF Dia!Quiet
      <4>2. SoundMind(Dia!Quiet)'
        BY <1>2, <2>1
      <4> QED BY <4>1, <4>2 DEF SoundMind
    <3>3. CASE was.kind # "templated"
      <4>1. mind'[b] = asks
        BY <3>1, <3>3
      <4>2. was.read <= Len(log') /\ was.now <= second'
        BY <1>1, <1>2, <1>3, <1>4, LogGrows
      <4>3. \E u \in Dia!Utterances(log') : log'[u].word = was.word
        BY <1>3, <1>5 DEF Grows
      <4> HIDE DEF asks
      <4> QED BY <1>2, <1>3, <1>4, <1>6, <1>7, <4>1, <4>2, <4>3 DEF SoundMind
    <3> QED BY <3>2, <3>3
  <2> QED BY <2>2, <2>3
<1>12. QED
  BY <1>5, <1>9, <1>10, <1>11 DEF DialogueInv

\* A step that adds to what is filed of an exchange.
LEMMA FileKeeps ==
    ASSUME DialogueInv, NEW a \in Dia!Answerers, Dia!FileRequest(a) \/ Dia!FileAnswer(a)
    PROVE  DialogueInv'
<1> DEFINE w == mind[a].word
           r == mind[a].reply
<1>1. /\ UNCHANGED <<log, wake, breaks, second>> /\ mind[a].at \in {"asking", "answering"}
  BY DEF Dia!FileRequest, Dia!FileAnswer, Dia!Step
<1>2. /\ w \in Words /\ r \in Dia!Replied(log) /\ log[r].word = w
      /\ mind[a].at = "answering" => r \in pairs[w].requests
      /\ mind[a] \in Minds /\ SoundMind(mind[a])
  BY <1>1, MindOf DEF SoundMind
<1>3. r \in Nat /\ pairs[w] \in Paired /\ pairs \in [Words -> Paired]
  BY <1>2 DEF DialogueInv, DialogueShape, Minds
<1> DEFINE m == IF mind[a].at = "asking" THEN [mind[a] EXCEPT !.at = "answering"] ELSE Dia!Quiet
           row == IF mind[a].at = "asking"
                  THEN [pairs[w] EXCEPT !.requests = pairs[w].requests \cup {r}]
                  ELSE [pairs[w] EXCEPT !.answers = pairs[w].answers \cup {r}]
<1>4. mind' = [mind EXCEPT ![a] = m] /\ pairs' = [pairs EXCEPT ![w] = row]
  BY <1>3 DEF Dia!FileRequest, Dia!FileAnswer, Dia!Step
<1>5. /\ row \in Paired /\ pairs[w].requests \subseteq row.requests
      /\ row.answers \subseteq row.requests
      /\ \A k \in row.requests : k \in Dia!Replied(log) /\ log[k].word = w
      /\ mind[a].at = "asking" => r \in row.requests
  <2>1. pairs[w].answers \subseteq pairs[w].requests
        /\ pairs[w].requests \subseteq {k \in Dia!Replied(log) : log[k].word = w}
    BY <1>2 DEF DialogueInv, Dia!PairsFollowReplies
  <2>2. CASE mind[a].at = "asking"
    <3>1. row = [pairs[w] EXCEPT !.requests = pairs[w].requests \cup {r}]
      BY <2>2
    <3>2. row \in Paired /\ row.requests = pairs[w].requests \cup {r}
          /\ row.answers = pairs[w].answers
      BY <1>3, <3>1 DEF Paired
    <3> HIDE DEF row
    <3> QED BY <1>2, <2>1, <3>2
  <2>3. CASE mind[a].at = "answering"
    <3>1. row = [pairs[w] EXCEPT !.answers = pairs[w].answers \cup {r}]
      BY <2>3
    <3>2. row \in Paired /\ row.answers = pairs[w].answers \cup {r}
          /\ row.requests = pairs[w].requests
      BY <1>3, <3>1 DEF Paired
    <3> HIDE DEF row
    <3> QED BY <1>2, <2>1, <2>3, <3>2
  <2> QED BY <1>1, <2>2, <2>3
<1> HIDE DEF row
<1>6. m \in Minds
  BY <1>2, MindOf DEF Minds
<1>7. DialogueShape'
  <2>1. mind' \in [Dia!Answerers -> Minds]
    <3> HIDE DEF m
    <3> QED BY <1>4, <1>6 DEF DialogueInv, DialogueShape
  <2>2. pairs' \in [Words -> Paired]
    <3> HIDE DEF w
    <3> QED BY <1>2, <1>3, <1>4, <1>5
  <2> QED BY <1>1, <2>1, <2>2 DEF DialogueInv, DialogueShape
<1>12. ASSUME NEW v \in Words
       PROVE  pairs'[v] = IF v = w THEN row ELSE pairs[v]
  <2> HIDE DEF w
  <2> QED BY <1>2, <1>3, <1>4
<1>8. Dia!PairsFollowReplies'
  <2> SUFFICES ASSUME NEW v \in Words
               PROVE  /\ pairs'[v].answers \subseteq pairs'[v].requests
                      /\ \A k \in pairs'[v].requests : k \in Dia!Replied(log) /\ log[k].word = v
    BY <1>1 DEF Dia!PairsFollowReplies
  <2>1. CASE v = w
    <3>1. pairs'[v] = row
      BY <1>12, <2>1
    <3> HIDE DEF w, r
    <3> QED BY <1>5, <2>1, <3>1
  <2>2. CASE v # w
    <3>1. pairs'[v] = pairs[v]
      BY <1>12, <2>2
    <3> QED BY <3>1 DEF DialogueInv, Dia!PairsFollowReplies
  <2> QED BY <2>1, <2>2
<1>9. Grows
  <2>1. ASSUME NEW v \in Words PROVE pairs[v].requests \subseteq pairs'[v].requests
    <3>1. CASE v = w
      <4> HIDE DEF w, r
      <4> QED BY <1>5, <1>12, <3>1
    <3>2. CASE v # w
      BY <1>12, <3>2
    <3> QED BY <3>1, <3>2
  <2> QED BY <1>1, <2>1 DEF Grows, DialogueInv, DialogueShape
<1>10. LogIsSound' /\ EchoesAreRaces'
  BY <1>1 DEF DialogueInv, LogIsSound, EchoesAreRaces
<1>11. ASSUME NEW b \in Dia!Answerers PROVE SoundMind(mind[b])'
  <2>1. \A x \in Minds : SoundMind(x) => SoundMind(x)'
    BY <1>7, <1>9, <1>10, MindsStaySound
  <2>2. CASE b # a
    <3> DEFINE o == mind[b]
    <3>1. o \in Minds /\ SoundMind(o) /\ o' = o
      BY <1>4, <2>2 DEF DialogueInv, DialogueShape
    <3> QED BY <2>1, <3>1 DEF SoundMind
  <2>3. CASE b = a
    <3>1. mind'[b] = m
      BY <1>4, <2>3 DEF DialogueInv, DialogueShape
    <3>2. CASE mind[a].at = "answering"
      <4>1. mind'[b] = Dia!Quiet /\ Dia!Quiet' = Dia!Quiet
        BY <3>1, <3>2 DEF Dia!Quiet
      <4>2. SoundMind(Dia!Quiet)'
        BY <2>1, MindOf
      <4> QED BY <4>1, <4>2 DEF SoundMind
    <3>3. CASE mind[a].at = "asking"
      <4> DEFINE t == [mind[a] EXCEPT !.at = "answering"]
      <4>1. mind'[b] = t
        BY <3>1, <3>3
      <4>2. /\ t.at = "answering" /\ t.word = w /\ t.reply = r /\ t.read = mind[a].read
            /\ t.now = mind[a].now
        BY <1>2 DEF Minds
      <4>3. r \in pairs'[w].requests
        <5>1. r \in row.requests
          BY <1>5, <3>3
        <5>2. pairs'[w] = row
          BY <1>2, <1>12
        <5> QED BY <5>1, <5>2, Zenon
      <4> HIDE DEF t, m
      <4> QED BY <1>1, <1>2, <3>3, <4>1, <4>2, <4>3 DEF SoundMind
    <3> QED BY <1>1, <3>2, <3>3
  <2> QED BY <2>2, <2>3
<1> QED BY <1>7, <1>8, <1>10, <1>11 DEF DialogueInv

LEMMA TimeKeeps ==
    ASSUME DialogueInv, Dia!Stop \/ Dia!Elapse \/ UNCHANGED talk
    PROVE  DialogueInv'
<1>1. /\ UNCHANGED <<log, wake, pairs>>
      /\ mind' = mind \/ mind' = [a \in Dia!Answerers |-> Dia!Quiet]
      /\ breaks' \in 0..DialogueStops /\ second' \in 1..DialogueTime
      /\ second \in Nat /\ second <= second' /\ second' \in Nat
      /\ mind \in [Dia!Answerers -> Minds]
  BY DialogueBounds DEF Dia!Stop, Dia!Elapse, talk, DialogueInv, DialogueShape
<1>2. ASSUME NEW b \in Dia!Answerers
      PROVE  (mind'[b] = mind[b] \/ mind'[b] = Dia!Quiet) /\ mind'[b] \in Minds
             /\ SoundMind(mind'[b])
  BY <1>1, MindOf DEF SoundMind, DialogueInv
<1>3. DialogueShape'
  BY <1>1, MindOf DEF DialogueInv, DialogueShape
<1>4. LogIsSound'
  <2>1. \A k \in DOMAIN log : log[k].ts \in 1..second'
    BY <1>1 DEF DialogueInv, LogIsSound
  <2> QED BY <1>1, <2>1 DEF DialogueInv, LogIsSound
<1>5. EchoesAreRaces' /\ Dia!PairsFollowReplies'
  BY <1>1 DEF DialogueInv, EchoesAreRaces, Dia!PairsFollowReplies
<1>6. Grows
  BY <1>1 DEF Grows, DialogueInv, DialogueShape
<1>7. \A x \in Minds : SoundMind(x) => SoundMind(x)'
  BY <1>3, <1>4, <1>6, MindsStaySound
<1>8. ASSUME NEW b \in Dia!Answerers PROVE SoundMind(mind[b])'
  <2>1. mind'[b] \in Minds /\ (mind'[b] = mind[b] \/ mind'[b] = Dia!Quiet)
    BY <1>2
  <2>2. SoundMind(mind[b])
    BY MindOf
  <2>3. CASE mind'[b] = mind[b]
    <3> DEFINE o == mind[b]
    <3>1. o' = o /\ o \in Minds /\ SoundMind(o)
      BY <2>1, <2>2, <2>3
    <3> QED BY <1>7, <3>1 DEF SoundMind
  <2>4. CASE mind'[b] = Dia!Quiet
    <3>1. SoundMind(Dia!Quiet)' /\ Dia!Quiet' = Dia!Quiet
      BY <1>7, MindOf DEF Dia!Quiet
    <3> QED BY <2>4, <3>1 DEF SoundMind
  <2> QED BY <2>1, <2>3, <2>4
<1> QED BY <1>3, <1>4, <1>5, <1>8 DEF DialogueInv

LEMMA DialogueNextKeeps == DialogueInv /\ [Dia!Next]_(Dia!vars) => DialogueInv'
<1> SUFFICES ASSUME DialogueInv, [Dia!Next]_(Dia!vars) PROVE DialogueInv'
  OBVIOUS
<1>1. CASE UNCHANGED Dia!vars
  BY <1>1, TimeKeeps DEF Dia!vars, talk
<1>2. CASE Dia!Next
  <2>1. ASSUME NEW w \in Words, Dia!Speak(w) PROVE DialogueInv'
    BY <2>1, SpeakKeeps
  <2>2. ASSUME NEW a \in Dia!Answerers, Dia!Work(a) PROVE DialogueInv'
    BY <2>2, BeginKeeps, LoadKeeps, DraftKeeps, LookAgainKeeps, ReplyKeeps, FileKeeps
    DEF Dia!Work
  <2> QED BY <1>2, <2>1, <2>2, TimeKeeps DEF Dia!Next
<1> QED BY <1>1, <1>2

(* What a conversation, its answerers and its files look like in every     *)
(* state that can be reached.                                              *)
THEOREM DialogueInvariant == Dia!Spec => []DialogueInv
<1> QED BY DialogueInitInv, DialogueNextKeeps, PTL DEF Dia!Spec

LEMMA FaithIsKept == DialogueInv => RepliesKeepFaith
<1> SUFFICES ASSUME DialogueInv PROVE RepliesKeepFaith
  OBVIOUS
<1>1. ASSUME NEW j \in Dia!Replied(log), NEW k \in Dia!Replied(log), j < k,
             log[j].word = log[k].word
      PROVE  log[k].seen < j \/ log[j].ts < Dia!SaidAt(log[j].word)
  <2>1. PICK u \in Dia!Utterances(log) : log[u].word = log[j].word
    BY DEF DialogueInv, LogIsSound
  <2>2. Dia!SaidAt(log[j].word) = log[u].ts
    BY <2>1, SaidAtIs DEF DialogueInv
  <2> QED BY <1>1, <2>1, <2>2 DEF DialogueInv, EchoesAreRaces
<1> QED BY <1>1 DEF RepliesKeepFaith, Dia!EchoIsARace, DialogueInv

(* maybe_reply and persist_exchange: two replies to one thing were either  *)
(* written by answerers of whom none could see the other's, or the first   *)
(* is dated before the words it answers; and what is filed of an exchange  *)
(* follows what was said in it.  For any number of things said, of stops   *)
(* and of hours.                                                           *)
THEOREM EchoesAreRacesAlways == Dia!Spec => []RepliesKeepFaith
<1> QED BY DialogueInvariant, FaithIsKept, PTL

LEMMA DialogueTyped == DialogueInv => Dia!DialogueTypeOK
<1> SUFFICES ASSUME DialogueInv PROVE Dia!DialogueTypeOK
  OBVIOUS
<1>1. \A k \in DOMAIN log : log[k] \in Lines
  BY DEF DialogueInv, DialogueShape
<1>2. \A k \in DOMAIN log : log[k].by \in {"human"} \cup Dia!Answerers
                            /\ log[k].word \in Words /\ log[k].ts \in 1..second
                            /\ log[k].seen < k
  BY <1>1 DEF Lines, DialogueInv, LogIsSound
<1>3. \A a \in Dia!Answerers : mind[a].kind \in Dia!Kinds \cup {None} /\ mind[a].read <= Len(log)
  BY MindOf DEF Minds, SoundMind
<1> QED BY <1>2, <1>3 DEF Dia!DialogueTypeOK, DialogueInv, DialogueShape

-----------------------------------------------------------------------------
(* The four together: a step of one story leaves the others as they are.   *)

TickInv == ActuationInv /\ BeliefInv /\ BeliefBounds /\ ScoringInv /\ ScoringBounds /\ DialogueInv

(* Everything the tick tends, in every state that can be reached.          *)
THEOREM TickInvariant == MCSpec => []TickInv
<1>1. MCInit => TickInv
  BY TickAssumption, ActuationInitInv, BeliefInitInv, BeliefBoundsInit, ScoringInitInv,
     ScoringBoundsInit, DialogueInitInv
  DEF MCInit, TickInv
<1>2. TickInv /\ [MCNext]_all => TickInv'
  <2> SUFFICES ASSUME TickInv, [MCNext]_all PROVE TickInv'
    OBVIOUS
  <2>1. [Act!Next]_(Act!vars)
    BY DEF MCNext, Acts, Thinks, Foresees, Talks, all, surface, Act!vars
  <2>2. [Next]_vars
    BY DEF MCNext, Acts, Thinks, Foresees, Talks, all
  <2>3. [ScoringNext]_foresight
    BY DEF MCNext, Acts, Thinks, Foresees, Talks, all
  <2>4. [Dia!Next]_(Dia!vars)
    BY DEF MCNext, Acts, Thinks, Foresees, Talks, all, talk, Dia!vars
  <2>5. ActuationInv' /\ DialogueInv'
    BY <2>1, <2>4, ActuationNextKeeps, DialogueNextKeeps DEF TickInv
  <2>6. BeliefInv' /\ BeliefBounds'
    BY <2>2, TickAssumption, BeliefNextKeeps, BeliefBoundsKept DEF TickInv
  <2>7. ScoringInv' /\ ScoringBounds'
    BY <2>3, TickAssumption, ScoringNextKeeps, ScoringBoundsKept DEF TickInv
  <2> QED BY <2>5, <2>6, <2>7 DEF TickInv
<1> QED BY <1>1, <1>2, PTL DEF MCSpec

(* Every variable of the four keeps its shape.                             *)
THEOREM TickIsTyped == MCSpec => []TickTypeOK
<1>1. TickInv => TickTypeOK
  BY TickAssumption, ActuationTyped, BeliefTyped, ScoringTyped, DialogueTyped
  DEF TickInv, TickTypeOK
<1> QED BY <1>1, TickInvariant, PTL
=============================================================================
