----------------------------- MODULE Prediction -----------------------------
(* The scoring of standing predictions (kernel/prediction.rs): a claim of  *)
(* a theory opens a window in event time, observations of the predicted    *)
(* class are recorded when they arrive, which may be later than they       *)
(* happened, and each pass settles what can no longer change.  Anchors     *)
(* that observations open have no minter in the source and are left out.   *)
EXTENDS Integers, FiniteSets

CONSTANTS NoClaim,
          Claims,      \* predictions that may be minted
          Within,      \* within_secs of a claim, min_delay being 0
          Grace,       \* grace_secs, or the co-owned default
          MaxDelay,    \* bound: how late an observation may be recorded
          MaxEvents,   \* bound: observations
          LastMint,    \* bound: no claim is minted after this
          MaxHalts,    \* bound: stops inside a pass
          MaxHour      \* bound: the clock

Polarities == {"arrives", "absent"}
Instances == [polarity : Polarities, from : Nat, deadline : Nat, matched : BOOLEAN]

PredictionAssumption ==
    /\ Within \in Nat \ {0} /\ Grace \in Nat \ {0} /\ LastMint \in Nat
    /\ MaxHalts \in Nat /\ MaxHour \in Nat /\ MaxHour > LastMint + Within + Grace /\ NoClaim \notin Instances

VARIABLES
    claim,      \* the open instance of each claim, or NoClaim
    results,    \* settled instances, append-only
    events,     \* observations on the record: when, how late, of the class or not
    scored,     \* scored_through: the latest event time of a scored observation
    pass,       \* the pass of the tick: idle, or what it has still to settle
    halts,      \* stops so far
    hour        \* the clock

foresight == <<claim, results, events, scored, pass, halts, hour>>

Instance(p) == [polarity |-> p, from |-> hour, deadline |-> hour + Within,
                matched |-> FALSE]

ScoringInit ==
    /\ claim = [c \in Claims |-> NoClaim]
    /\ results = {}
    /\ events = {}
    /\ scored = 0
    /\ pass = "idle"
    /\ halts = 0
    /\ hour = 1

(* mint: the pursuit of the theory is the opening.                         *)
Mint ==
    /\ pass = "idle" /\ hour <= LastMint
    /\ \E c \in Claims, p \in Polarities :
         /\ claim[c] = NoClaim /\ \A r \in results : r.of # c
         /\ claim' = [claim EXCEPT ![c] = Instance(p)]
    /\ UNCHANGED <<results, events, scored, pass, halts, hour>>

(* An observation is recorded, of something at hour - late.                *)
Record ==
    /\ pass = "idle" /\ Cardinality(events) < MaxEvents
    /\ \E late \in 0..MaxDelay, class \in BOOLEAN :
         /\ late < hour
         /\ events' = events \cup {[ts |-> hour - late, late |-> late, class |-> class]}
    /\ UNCHANGED <<claim, results, scored, pass, halts, hour>>

\* A bug to be noticed: the cursor without its overlap.
FreshAfterCursor == {o \in events : o.ts > scored /\ o.ts <= hour}

(* fresh: the evidence a pass looks at.                                    *)
Fresh == {o \in events : o.ts > scored - Grace /\ o.ts <= hour}

InWindow(i, o) == o.ts >= i.from /\ o.ts <= i.deadline /\ o.class

Matched(i) == [i EXCEPT !.matched = @ \/ \E o \in Fresh : InWindow(i, o)]

\* A bug to be noticed: a quiet outcome is never written.
SettledNeverQuiet(i) == i.matched

(* Certainty is final at once, quiet when late evidence cannot amend it.   *)
Settled(i) == i.matched \/ hour > i.deadline + Grace

Outcome(i) == IF i.polarity = "arrives" THEN IF i.matched THEN "confirmed" ELSE "missed"
              ELSE IF i.matched THEN "absent_violated" ELSE "absent_confirmed"
Favorable(o) == o \in {"confirmed", "absent_confirmed"}
IsQuiet(r) == r.outcome \in {"missed", "absent_confirmed"}

Result(c, i) == [of |-> c, outcome |-> Outcome(i), from |-> i.from,
                 deadline |-> i.deadline, at |-> hour, run |-> halts]

Due == {c \in Claims : claim[c] # NoClaim /\ Settled(Matched(claim[c]))}

(* A pass appends the results one by one, then saves claims and cursor.    *)
Score ==
    /\ pass = "idle" /\ \E c \in Claims : claim[c] # NoClaim
    /\ results' = results \cup {Result(c, Matched(claim[c])) : c \in Due}
    /\ claim' = [c \in Claims |-> IF claim[c] = NoClaim \/ c \in Due THEN NoClaim
                                  ELSE Matched(claim[c])]
    /\ \E t \in {scored} \cup {o.ts : o \in Fresh} :
         scored <= t /\ (\A o \in Fresh : o.ts <= t) /\ scored' = t
    /\ pass' = "done"
    /\ UNCHANGED <<events, halts, hour>>

(* The process stops before the save.                                      *)
StopInScore ==
    /\ pass = "idle" /\ Due # {} /\ halts < MaxHalts
    /\ \E done \in SUBSET Due \ {{}} :
         results' = results \cup {Result(c, Matched(claim[c])) : c \in done}
    /\ halts' = halts + 1
    /\ UNCHANGED <<claim, events, scored, pass, hour>>

Elapse ==
    /\ hour < MaxHour /\ hour' = hour + 1
    /\ pass' = "idle"
    /\ UNCHANGED <<claim, results, events, scored, halts>>

ScoringNext == Mint \/ Record \/ Score \/ StopInScore \/ Elapse

ScoringSpec == ScoringInit /\ [][ScoringNext]_foresight

(* The daemon keeps ticking, and each tick scores.                         *)
ScoringFairness == WF_foresight(Score) /\ WF_foresight(Elapse)
ScoringFairSpec == ScoringSpec /\ ScoringFairness
-----------------------------------------------------------------------------
(* Every record keeps its shape; an instance is open or settled.           *)
PredictionTypeOK ==
    /\ \A c \in Claims : claim[c] # NoClaim =>
         /\ claim[c].polarity \in Polarities /\ ~claim[c].matched
         /\ claim[c].deadline = claim[c].from + Within
    /\ \A r \in results : r.of \in Claims /\ r.at \in 1..MaxHour
    /\ scored \in 0..hour /\ halts \in 0..MaxHalts /\ hour \in 1..MaxHour
    /\ pass \in {"idle", "done"}

(* score: an instance settles once.  Only a stop before the save may leave *)
(* a second row for it, and no more than one for each stop.                *)
OneRowPerSettlement ==
    \A r, s \in results : r.of = s.of /\ r.run = s.run => r = s

(* score: evidence recorded less than the grace after it happened always   *)
(* counts, so a quiet outcome never stands against it.                     *)
PunctualEvidenceCounts ==
    \A r \in results, o \in events :
        IsQuiet(r) /\ o.class /\ o.late < Grace
            => ~(o.ts >= r.from /\ o.ts <= r.deadline)

(* Both: what is scored is scored once and in view of what could be known. *)
ScoresAreSound == OneRowPerSettlement /\ PunctualEvidenceCounts

(* score: every claim that is opened is settled.                           *)
EveryClaimSettles == \A c \in Claims : (claim[c] # NoClaim) ~> (claim[c] = NoClaim)
=============================================================================
