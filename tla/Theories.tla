------------------------------ MODULE Theories -------------------------------
(* The theories two doors hold and replicate (kernel/thread.rs and         *)
(* mesh/thread_sync.rs): each door numbers the rows of its own store, and  *)
(* on every dial one door offers what it touched of late and the other     *)
(* absorbs it, thread by thread.  All rows are of one schema version: the  *)
(* higher `v` of a row minted since winning over a legacy one is left out. *)
EXTENDS Integers, Sequences, FiniteSets

CONSTANTS Claims,      \* variant keys: what a theory claims of what
          DoorA, DoorB,
          Horizon,     \* THREAD_SYNC_WINDOW_SECS
          SyncCap,     \* THREAD_SYNC_CAP
          MaxOps,      \* bound: what people and the engine do to theories
          MaxLost,     \* bound: offers that are lost
          MaxDay       \* bound: the clock

TheoriesAssumption == /\ DoorA # DoorB /\ Horizon \in Nat /\ MaxDay \in Nat \ {0}
                      /\ SyncCap \in Nat \ {0} /\ MaxOps \in Nat /\ MaxLost \in Nat

VARIABLES
    held,       \* each door's threads.jsonl, in row order
    offer,      \* the thread-sync under way: to whom, and the rows it carries
    met,        \* the doors that took an offer in since the clock moved
    ops, lost,
    day         \* the clock

vars == <<held, offer, met, ops, lost, day>>

Both == {DoorA, DoorB}
Other(d) == IF d = DoorA THEN DoorB ELSE DoorA
Live == {"open", "pursued"}
TERMINAL_STATUSES == {"retired", "abandoned", "superseded", "expired", "answered",
                      "marginalized"}
Terminal(t) == t.status \in TERMINAL_STATUSES

NoOffer == [to |-> "nobody", rows |-> {}]

Init ==
    /\ held = [d \in Both |-> <<>>]
    /\ offer = NoOffer
    /\ met = {}
    /\ ops = 0 /\ lost = 0
    /\ day = 1

(***************************************************************************)
(* The store of one door                                                   *)
(***************************************************************************)
(* load_by_id takes the first row of an id, update_by_id writes them all.  *)
First(rows, like(_)) ==
    LET these == {k \in DOMAIN rows : like(rows[k])}
    IN  IF these = {} THEN 0 ELSE CHOOSE k \in these : \A j \in these : k <= j
Row(rows, id) == First(rows, LAMBDA t : t.id = id)
Put(rows, id, t) == [k \in DOMAIN rows |-> IF rows[k].id = id THEN t ELSE rows[k]]
Ids(d) == {held[d][k].id : k \in DOMAIN held[d]}
Has(d, id) == held[d][Row(held[d], id)]

Change(d, id, t) == held' = [held EXCEPT ![d] = Put(@, id, t)]
Did == ops < MaxOps /\ ops' = ops + 1
Quietly == UNCHANGED <<offer, met, lost, day>>

(* mint: the exact standing claim is strengthened, else the sequence of    *)
(* the store gives the next id.                                            *)
Mint(d, c) ==
    LET standing(t) == t.status \in Live /\ t.claim = c
        same == First(held[d], standing)
    IN  /\ Did /\ Quietly
        /\ IF same # 0
           THEN LET id == held[d][same].id
                IN  Change(d, id, [Has(d, id) EXCEPT !.worked = day])
           ELSE held' = [held EXCEPT ![d] = Append(@,
                   [id |-> Len(@) + 1, claim |-> c, status |-> "open", statusAt |-> day,
                    worked |-> 0, born |-> day, answers |-> {}, successor |-> 0])]

(* update_status: a status is dated when it changes.                       *)
Became(t, status) ==
    [t EXCEPT !.status = status,
              !.statusAt = IF t.status # status THEN day ELSE @,
              !.worked = IF status \in {"pursued", "answered"} THEN day ELSE @]

Pursue(d, id) ==
    /\ Has(d, id).status = "open"
    /\ Did /\ Quietly
    /\ Change(d, id, Became(Has(d, id), "pursued"))

(* What is said of a thread goes on its record.                            *)
Heard(t, d) == [t EXCEPT !.answers = @ \cup {[door |-> d, nr |-> ops]}]

(* retire_legacy, with the human's reason; an act reversed, an inquiry     *)
(* expired.                                                                *)
Retire(d, id) ==
    /\ Has(d, id).status \in Live
    /\ Did /\ Quietly
    /\ \/ Change(d, id, Heard(Became(Has(d, id), "retired"), d))
       \/ Change(d, id, Became(Has(d, id), "abandoned"))

(* add_answer: a discarded thread is open again.                           *)
Answer(d, id) ==
    /\ Did /\ Quietly
    /\ LET t == Has(d, id)
           heard == [Heard(t, d) EXCEPT !.worked = day]
       IN  Change(d, id, IF t.status \in TERMINAL_STATUSES \ {"superseded"}
                         THEN Became(heard, "open") ELSE heard)

(* fold: the member points home, the survivor takes its answers; a member  *)
(* that points somewhere already is skipped.                               *)
Fold(d, id, member) ==
    /\ id # member
    /\ Did /\ Quietly
    /\ LET home == [Has(d, id) EXCEPT !.worked = day]
           gone == [Became(Has(d, member), "superseded") EXCEPT !.successor = id]
           full == [home EXCEPT !.answers = @ \cup Has(d, member).answers]
       IN  IF Has(d, member).status = "superseded" THEN Change(d, id, home)
           ELSE held' = [held EXCEPT ![d] = Put(Put(@, member, gone), id, full)]

(***************************************************************************)
(* Replication                                                             *)
(***************************************************************************)
Later(x, y) == IF x >= y THEN x ELSE y

\* A bug to be noticed: a status is no touch.
TouchedWhenBorn(t) == t.born

(* A verdict changes status_at and nothing else, and must travel; no       *)
(* status is older than the row.                                           *)
TouchedAt(t) == Later(t.statusAt, t.worked)

(* build_thread_sync, for the body of a POST or the answer to a GET: what  *)
(* was touched in the window, newest first, in the order of the store at   *)
(* one time, and no more than the cap.                                     *)
Recent(d) == {[pos |-> k, row |-> held[d][k]] :
                k \in {j \in DOMAIN held[d] : day - TouchedAt(held[d][j]) <= Horizon}}
Before(x, y) == \/ TouchedAt(x.row) > TouchedAt(y.row)
                \/ TouchedAt(x.row) = TouchedAt(y.row) /\ x.pos < y.pos
Offered(d) == LET recent == Recent(d)
              IN  {x \in recent : Cardinality({y \in recent : Before(y, x)}) < SyncCap}

Offer(d) ==
    /\ offer = NoOffer /\ UNCHANGED <<held, met, ops, lost, day>>
    /\ Offered(d) # {}
    /\ offer' = [to |-> Other(d), rows |-> Offered(d)]

Known(t, s) == IF t.successor = 0 THEN [t EXCEPT !.successor = s] ELSE t

\* A bug to be noticed: the later word wins, verdict or not.
MergedLatest(mine, theirs) ==
    IF theirs.statusAt > mine.statusAt THEN theirs ELSE mine

(* merge_incoming: a verdict stands against a live copy, else the later    *)
(* word wins and takes the whole row.                                      *)
Merged(mine, theirs) ==
    IF Terminal(mine) /\ ~Terminal(theirs) THEN mine
    ELSE IF Terminal(theirs) /\ ~Terminal(mine)
    THEN Known([mine EXCEPT !.status = theirs.status,
                            !.statusAt = Later(theirs.statusAt, mine.statusAt)],
               theirs.successor)
    ELSE IF theirs.statusAt > mine.statusAt
    THEN [Known(theirs, mine.successor)
            EXCEPT !.worked = Later(theirs.worked, mine.worked)]
    ELSE Known(mine, theirs.successor)

(* find_counterpart: the id first, then the typed identity.                *)
Counterpart(rows, t) ==
    LET byId == Row(rows, t.id)
    IN  IF byId # 0 THEN byId ELSE First(rows, LAMBDA r : r.claim = t.claim)

(* What tells us nothing new is not written.                               *)
Absorbed(rows, t) ==
    LET mine == Counterpart(rows, t)
        merged == [Merged(rows[mine], t) EXCEPT !.id = rows[mine].id]
    IN  IF mine = 0 THEN Append(rows, t)
        ELSE IF merged = rows[mine] THEN rows
        ELSE Put(rows, rows[mine].id, merged)

(* The store is read again for each thread of the offer.                   *)
Absorb ==
    /\ \E x \in offer.rows :
          /\ \A y \in offer.rows \ {x} : Before(x, y)
          /\ held' = [held EXCEPT ![offer.to] = Absorbed(@, x.row)]
          /\ IF offer.rows = {x}
             THEN offer' = NoOffer /\ met' = met \cup {offer.to}
             ELSE offer' = [offer EXCEPT !.rows = @ \ {x}] /\ UNCHANGED met
    /\ UNCHANGED <<ops, lost, day>>

(* The dial is best effort: a refusal or a broken line loses the offer.    *)
Lose ==
    /\ offer # NoOffer /\ lost < MaxLost
    /\ lost' = lost + 1
    /\ offer' = NoOffer
    /\ UNCHANGED <<held, met, ops, day>>

(* The clock counts dials: both directions are tried before it moves, or   *)
(* the doors were apart for a while.                                       *)
Dawn ==
    /\ day < MaxDay /\ offer = NoOffer
    /\ \A d \in Both : Other(d) \in met \/ Offered(d) = {} \/ lost < MaxLost
    /\ lost' = IF \A d \in Both : Other(d) \in met \/ Offered(d) = {} THEN lost ELSE lost + 1
    /\ day' = day + 1
    /\ met' = {}
    /\ UNCHANGED <<held, offer, ops>>

Next ==
    \/ \E d \in Both, c \in Claims : Mint(d, c)
    \/ \E d \in Both : \E id \in Ids(d) :
         Pursue(d, id) \/ Retire(d, id) \/ Answer(d, id)
    \/ \E d \in Both : \E id, member \in Ids(d) : Fold(d, id, member)
    \/ \E d \in Both : Offer(d)
    \/ Absorb \/ Lose \/ Dawn

Spec == Init /\ [][Next]_vars

(* Every door dials on each of its rounds; what people do is not fair.     *)
Fairness == /\ WF_vars(Absorb)
            /\ \A d \in Both : SF_vars(Offer(d))
FairSpec == Spec /\ Fairness
-----------------------------------------------------------------------------
(* Rows keep their shape, and every row has a place in the sequence.       *)
TheoriesTypeOK ==
    /\ \A d \in Both : \A k \in DOMAIN held[d] :
         LET t == held[d][k] IN
         /\ t.claim \in Claims /\ t.status \in Live \cup TERMINAL_STATUSES
         /\ t.id \in Nat \ {0} /\ t.successor \in Nat
         /\ t.statusAt \in t.born..day /\ t.worked \in 0..day
         /\ t.status = "superseded" => t.successor # 0
    /\ offer.to \in Both \cup {"nobody"} /\ met \subseteq Both
    /\ ops \in 0..MaxOps /\ lost \in 0..MaxLost /\ day \in 1..MaxDay

(* merge_incoming: "A terminal status is sticky": absorbing never makes a  *)
(* theory live at a door that closed it, however old or new the copies,    *)
(* while no two rows of the door have one id.  Doors number their rows     *)
(* each for itself, so that an id minted here may be one that came from    *)
(* there: then an update of the one writes over the other.                 *)
IdsApart(rows) == \A j, k \in DOMAIN rows : rows[j].id = rows[k].id => j = k
SyncRevivesNothing ==
    [][offer # NoOffer /\ offer' # offer =>
         \A d \in Both : IdsApart(held[d]) =>
             \A k \in DOMAIN held[d] :
                 Terminal(held[d][k]) => Terminal(held'[d][k])]_vars

(* touched_at: "A retirement must travel": what one door closed within the *)
(* window, the other does not hold live for ever, as long as an offer has  *)
(* room for it.  Every dial offers the same newest rows: a verdict with as *)
(* many others touched as late as it is may never leave the door.          *)
ClosedHere(d, id) ==
    id \in Ids(d) /\ Terminal(Has(d, id)) /\ day - Has(d, id).statusAt <= Horizon
LiveThere(d, id) == id \in Ids(Other(d)) /\ ~Terminal(Has(Other(d), id))
AsLate(d, id) == {k \in DOMAIN held[d] \ {Row(held[d], id)} :
                    TouchedAt(held[d][k]) >= TouchedAt(Has(d, id))}
HasRoom(d, id) == Cardinality(AsLate(d, id)) < SyncCap
Unheard == \E d \in Both : \E id \in Ids(d) :
    ClosedHere(d, id) /\ HasRoom(d, id) /\ LiveThere(d, id)
VerdictTravels == []<>~Unheard

(* add_answer: "The answer is appended as evidence": an answer a door has  *)
(* taken is on the record there from then on.                              *)
AnswersStay ==
    [][\A d \in Both : \A k \in DOMAIN held[d] :
         held[d][k].answers \subseteq held'[d][k].answers]_vars
=============================================================================
