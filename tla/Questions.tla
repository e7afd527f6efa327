------------------------------ MODULE Questions ------------------------------
(* What the familiar asks, whom, and when (kernel/question.rs and routing  *)
(* with coordinate_questions of cycle/lib.rs): a registry of questions, of *)
(* which one at a time is put on the screen, and the ways an answer comes  *)
(* in, some of which know the registry and some of which only the screen.  *)
(* An older daemon may have left a question of whom a new device belongs   *)
(* to; it is retired once the device has no record.                        *)
EXTENDS Integers

CONSTANTS None,
          Her, Him,     \* the people; the need is hers
          AnswerRest,   \* ANSWER_REST_SECS
          DismissRest,  \* DISMISS_REST_SECS
          DismissMax,   \* DISMISS_REST_MAX_SECS
          Hold,         \* SUBJECT_HOLD_MAX_SECS
          LastTalk,     \* bound: nothing is formed or waved off after this, and the
                        \* device an older daemon asked about is gone
          MaxVisits,    \* bound: how often people come and go
          MaxHalts,     \* bound: stops of the process
          MaxHour       \* bound: the clock

\* Standing, of a person's need, of the muse or an older daemon.
Questions == {"root", "need", "idea"}
Rank == [root |-> 2, need |-> 3, idea |-> 1]                 \* origin_rank
People == {Her, Him}

\* A row of questions.jsonl.
Rows == [lastAsked : 0..MaxHour, asked : BOOLEAN, waved : 0..1, lastWaved : 0..MaxHour,
         answered : BOOLEAN, owner : People \cup {None}, subject : {Her, None},
         created : 0..MaxHour, retired : BOOLEAN]

QuestionsAssumption ==
    /\ None \notin People /\ None \notin Questions /\ None \notin Rows
    /\ Her # Him /\ AnswerRest \in Nat /\ DismissRest \in Nat /\ DismissMax \in Nat
    /\ MaxVisits \in Nat /\ MaxHalts \in Nat /\ MaxHour \in Nat
    /\ Hold \in Nat /\ LastTalk \in Nat /\ MaxHour > LastTalk + DismissMax + Hold

VARIABLES
    registry,   \* questions.jsonl: a row for each question, or None
    screen,     \* active_question.txt: the question being asked, or None
    needAnswered, \* does the thread of the need carry an answer
    here,       \* who has been seen of late
    round,      \* where the tick is, and what its thread answers were at the start
    visits, halts,
    hour        \* the clock

vars == <<registry, screen, needAnswered, here, round, visits, halts, hour>>

NewRow == [lastAsked |-> 0, asked |-> FALSE, waved |-> 0, lastWaved |-> 0,
           answered |-> FALSE, owner |-> None, subject |-> None, created |-> hour,
           retired |-> FALSE]
Arrival(row) == row.created = 0         \* filed before the clock began
Resting == [at |-> "idle", knew |-> FALSE]

Init ==
    /\ hour = 1
    /\ \E left \in {None, [NewRow EXCEPT !.created = 0]} :
         registry = [q \in Questions |-> IF q = "idea" THEN left ELSE None]
    /\ screen = None
    /\ needAnswered = FALSE
    /\ here = {}
    /\ round = Resting
    /\ visits = 0 /\ halts = 0

Update(q, row) == registry' = [registry EXCEPT ![q] = row]

(***************************************************************************)
(* The questions that are formed                                           *)
(***************************************************************************)
(* admit: a text already on the registry is the standing question.         *)
AdmitIdea ==
    /\ round.at = "muse" /\ hour <= LastTalk /\ registry["idea"] = None
    /\ Update("idea", NewRow)
    /\ UNCHANGED <<screen, needAnswered, here, round, visits, halts, hour>>

(* admit_addressed: the row is written, then it is addressed.              *)
AdmitNeed ==
    /\ round.at = "muse" /\ hour <= LastTalk /\ registry["need"] = None
    /\ Update("need", NewRow)
    /\ round' = [round EXCEPT !.at = "address"]
    /\ UNCHANGED <<screen, needAnswered, here, visits, halts, hour>>

Address ==
    /\ round.at = "address"
    /\ Update("need", [registry["need"] EXCEPT !.subject = Her])
    /\ round' = [round EXCEPT !.at = "muse"]
    /\ UNCHANGED <<screen, needAnswered, here, visits, halts, hour>>

(***************************************************************************)
(* The tick: musing, backfill, coordination                                *)
(***************************************************************************)
Begin ==
    /\ round.at = "idle"
    /\ round' = [at |-> "muse", knew |-> needAnswered]
    /\ UNCHANGED <<registry, screen, needAnswered, here, visits, halts, hour>>

RecordedAnswered(row) == [row EXCEPT !.answered = TRUE, !.lastAsked = hour]

\* A bug to be noticed: what other paths answered is not looked up.
BackfilledNever(q) == registry[q]

(* backfill_answered joins the registry to what threads were answered by   *)
(* any path.                                                               *)
Backfilled(q) ==
    IF q = "need" /\ registry[q] # None /\ ~registry[q].answered
       /\ registry[q].subject # None /\ needAnswered
    THEN RecordedAnswered(registry[q]) ELSE registry[q]

(* retire_orphaned_arrival_questions: a question is no longer asked once   *)
(* its device has no record.                                               *)
Orphan(q) == q = "idea" /\ registry[q] # None /\ Arrival(registry[q])
             /\ ~registry[q].retired /\ ~registry[q].answered

(* Backfill, the sweep of orphans, and the root question is seeded.        *)
Backfill ==
    /\ round.at = "muse"
    /\ \E purged \in {hour > LastTalk, TRUE} :
         registry' = [q \in Questions |->
                        IF q = "root" /\ registry[q] = None THEN NewRow
                        ELSE IF Orphan(q) /\ purged
                        THEN [registry[q] EXCEPT !.retired = TRUE]
                        ELSE Backfilled(q)]
    /\ round' = [round EXCEPT !.at = "coordinate"]
    /\ UNCHANGED <<screen, needAnswered, here, visits, halts, hour>>

LessOf(x, y) == IF x <= y THEN x ELSE y
Rest(row) ==
    IF row.waved > 0 /\ row.lastWaved >= row.lastAsked
    THEN LessOf(DismissRest * (1 + row.waved), DismissMax)
    ELSE IF row.answered THEN AnswerRest ELSE 0
LastSeen(row) == IF row.lastAsked >= row.lastWaved THEN row.lastAsked ELSE row.lastWaved

Available(q) == /\ registry[q] # None /\ ~registry[q].retired
                /\ registry[q].answered => q = "root"
                /\ hour - LastSeen(registry[q]) >= Rest(registry[q])
\* A bug to be noticed: a question waits for its subject and never ages.
NotHeldForEver(q) == registry[q].subject = None \/ registry[q].subject \in here

(* A question that exists for someone waits for them, but not for ever.    *)
NotHeld(q) == \/ registry[q].subject = None \/ registry[q].subject \in here
              \/ hour - registry[q].created > Hold
Askable == {q \in Questions : Available(q) /\ NotHeld(q)}
Before(q, r) ==
    \/ Rank[q] > Rank[r]
    \/ Rank[q] = Rank[r] /\ registry[q].waved <= registry[r].waved

(* route: the owner who is here, the one it serves, or whoever is here.    *)
Routed(owner, subject) ==
    IF owner \in here THEN {owner} ELSE IF subject \in here THEN {subject} ELSE here

Absent(owner) == owner # None /\ owner \notin here

Readdressed(q) ==
    IF Absent(registry[q].owner) THEN Routed(None, registry[q].subject)
    ELSE {registry[q].owner}

CoordinateNothing ==
    /\ round.at = "coordinate"
    /\ here = {} \/ (screen = None /\ Askable = {})
    /\ round' = Resting
    /\ UNCHANGED <<registry, screen, needAnswered, here, visits, halts, hour>>

(* A question on the screen is left there, and re-addressed when the       *)
(* person it was put to has gone.                                          *)
CoordinateShown ==
    /\ round.at = "coordinate" /\ here # {} /\ screen # None
    /\ \E p \in Readdressed(screen) : Update(screen, [registry[screen] EXCEPT !.owner = p])
    /\ round' = Resting
    /\ UNCHANGED <<screen, needAnswered, here, visits, halts, hour>>

(* The screen is written first, the registry after it.                     *)
Show ==
    /\ round.at = "coordinate" /\ here # {} /\ screen = None
    /\ \E q \in Askable :
         /\ \A r \in Askable : Before(q, r)
         /\ screen' = q
    /\ round' = [round EXCEPT !.at = "shown"]
    /\ UNCHANGED <<registry, needAnswered, here, visits, halts, hour>>

(* record_asked and set_owner for the question that was chosen.            *)
RecordShown ==
    /\ round.at = "shown"
    /\ LET row == registry[screen] IN
         \E p \in Routed(row.owner, row.subject) :
           Update(screen, [row EXCEPT !.asked = TRUE, !.lastAsked = hour, !.owner = p])
    /\ round' = Resting
    /\ UNCHANGED <<screen, needAnswered, here, visits, halts, hour>>

(***************************************************************************)
(* People, other doors and time                                            *)
(***************************************************************************)
Apart == round.at \in {"idle", "coordinate"}

(* local_answer without a thread, the embedded console, a peer's grant:    *)
(* the screen is cleared and the registry is not told.                     *)
AnswerAtConsole ==
    /\ Apart /\ screen # None
    /\ screen' = None
    /\ UNCHANGED <<registry, needAnswered, here, round, visits, halts, hour>>

(* add_answer on the thread of the need: the join by thread id.            *)
AnswerTheThread ==
    /\ Apart /\ registry["need"] # None /\ ~needAnswered
    /\ needAnswered' = TRUE
    /\ Update("need", IF registry["need"].subject # None
                      THEN RecordedAnswered(registry["need"]) ELSE registry["need"])
    /\ UNCHANGED <<screen, here, round, visits, halts, hour>>

(* The thread is absorbed from a door that has the answer.                 *)
AnswerBySync ==
    /\ Apart /\ registry["need"] # None /\ ~needAnswered
    /\ needAnswered' = TRUE
    /\ UNCHANGED <<registry, screen, here, round, visits, halts, hour>>

(* `theories retire` waves off the questions bound to what it retired.     *)
WaveOff ==
    /\ round.at = "idle" /\ hour <= LastTalk
    /\ registry["need"] # None /\ registry["need"].subject # None
    /\ registry["need"].waved = 0
    /\ Update("need", [registry["need"] EXCEPT !.waved = @ + 1, !.lastWaved = hour])
    /\ UNCHANGED <<screen, needAnswered, here, round, visits, halts, hour>>

ComeOrGo ==
    /\ Apart /\ visits < MaxVisits /\ visits' = visits + 1
    /\ \E p \in People : here' = IF p \in here THEN here \ {p} ELSE here \cup {p}
    /\ UNCHANGED <<registry, screen, needAnswered, round, halts, hour>>

Stop ==
    /\ halts < MaxHalts /\ halts' = halts + 1
    /\ round.at \in {"address", "shown"} /\ round' = Resting
    /\ UNCHANGED <<registry, screen, needAnswered, here, visits, hour>>

Elapse ==
    /\ hour < MaxHour /\ round.at = "idle"
    /\ hour' = hour + 1
    /\ UNCHANGED <<registry, screen, needAnswered, here, round, visits, halts>>

Tick == \/ Begin \/ Address \/ Backfill \/ CoordinateNothing \/ CoordinateShown
        \/ Show \/ RecordShown

Next == \/ Tick \/ AdmitIdea \/ AdmitNeed \/ AnswerAtConsole \/ AnswerTheThread
        \/ AnswerBySync \/ WaveOff \/ ComeOrGo \/ Stop \/ Elapse

Spec == Init /\ [][Next]_vars

(* The daemon ticks for ever and time passes; nobody has to answer.        *)
Fairness == WF_vars(Tick) /\ SF_vars(Elapse)
FairSpec == Spec /\ Fairness
-----------------------------------------------------------------------------
(* Rows keep their shape; what is on the screen is on the registry.        *)
QuestionsTypeOK ==
    /\ registry \in [Questions -> Rows \cup {None}]
    /\ \A q \in Questions : registry[q] # None => registry[q].lastAsked <= hour
    /\ screen \in Questions \cup {None} /\ (screen # None => registry[screen] # None)
    /\ round \in [at : {"idle", "muse", "address", "coordinate", "shown"}, knew : BOOLEAN]
    /\ needAnswered \in BOOLEAN /\ here \subseteq People
    /\ visits \in 0..MaxVisits /\ halts \in 0..MaxHalts /\ hour \in 1..MaxHour

(* backfill_answered: "the familiar never re-asks what a person already    *)
(* said": a need whose thread was answered before the tick is not put on   *)
(* the screen, unless a stop cut the question from its thread.             *)
SaidIsNotAsked ==
    [][screen' = "need" /\ screen # "need" =>
         ~round.knew \/ (halts > 0 /\ registry["need"].subject = None)]_vars

(* "A question that exists FOR someone waits for them ... held, never      *)
(* buried", with the same exception.                                       *)
HerQuestionWaits ==
    [][screen' = "need" /\ screen # "need" =>
         \/ Her \in here \/ hour - registry["need"].created > Hold
         \/ halts > 0 /\ registry["need"].subject = None]_vars

(* next: while the screen is freed again and again and somebody stays, a   *)
(* person's need comes to be asked, or was answered without asking.        *)
NeedWaits ==
    registry["need"] # None /\ ~registry["need"].asked /\ ~registry["need"].answered
NeedComesUp ==
    []<>(screen = None) /\ <>[](here # {}) => []<>~NeedWaits
=============================================================================
