----------------------------- MODULE MCHousehold -----------------------------
(* What a household shares, each its own story: the theories two doors     *)
(* replicate (Theories), their record of a device (Devices), the questions *)
(* two people are asked (Questions), the one mind the processes of a       *)
(* machine consult (Consult), and the decisions a node without a person    *)
(* gets from its peers (Briefs).  The theories have two stories: in one an *)
(* offer carries all the rows there are, in the other, a purge, its cap    *)
(* cuts it.                                                                *)
EXTENDS Integers

CONSTANTS None, Stories, DoorA, DoorB,
          Claims, Horizon, SyncCap, SmallCap, MaxOps, MaxLost, MaxDay,
          Addrs, Hourly, MaxNetworks, MaxStated,
          Her, Him, AnswerRest, DismissRest, DismissMax, Hold, LastTalk, MaxVisits,
          MaxHalts, MaxHour,
          Calls, Humans, Processes,
          Hub, Peers, Newcomers, Things, GrantLife, DenyHold, MaxTime, MaxDone

VARIABLES
    story, day,
    held, offer, met, ops, lost,
    card, version, flight, acts,
    registry, screen, needAnswered, here, round, visits, halts, hour,
    call, slot, prompt, response, adapter,
    gate, question, pending, granted, deniedAt, decided, todo,
    surfaced, given, outbox, inbox, sent, now, actsOfPeople

threads == <<held, offer, met, ops, lost>>
records == <<card, version, flight, acts>>
asking == <<registry, screen, needAnswered, here, round, visits, halts, hour>>
consults == <<call, slot, prompt, response, adapter>>
briefs == <<gate, question, pending, granted, deniedAt, decided, todo,
            surfaced, given, outbox, inbox, sent, now, actsOfPeople>>
all == <<story, day, threads, records, asking, consults, briefs>>

Thr == INSTANCE Theories
Cut == INSTANCE Theories WITH SyncCap <- SmallCap, MaxLost <- 0, MaxDay <- MaxDay - 1
Dev == INSTANCE Devices WITH MaxActs <- MaxStated
Que == INSTANCE Questions
Con == INSTANCE Consult
Bri == INSTANCE Briefs WITH
    Questions <- Things, GRANT_TTL_SECS <- GrantLife, DENY_RETRY_SECS <- DenyHold,
    MaxActs <- MaxDone

ASSUME HouseholdAssumption ==
    /\ Thr!TheoriesAssumption /\ Cut!TheoriesAssumption /\ Dev!DevicesAssumption
    /\ Que!QuestionsAssumption /\ Con!ConsultAssumption
    /\ Bri!BriefsAssumption

MCInit ==
    /\ story \in Stories
    /\ Thr!Init /\ Dev!Init /\ Que!Init /\ Con!ConsultInit /\ Bri!Init
    /\ gate = (story # "briefs")
    /\ story # "asking" => registry["idea"] = None

Threads(A) ==
    story = "threads" /\ A /\ UNCHANGED <<story, records, asking, consults, briefs>>
Purge(A) ==
    story = "purge" /\ A /\ UNCHANGED <<story, records, asking, consults, briefs>>
Records(A) ==
    story = "records" /\ A /\ UNCHANGED <<story, threads, asking, consults, briefs>>
\* Bound: with a question that an older daemon left, one visit and no stop.
Aged == registry["idea"] # None /\ Que!Arrival(registry["idea"])
AskingStep == Que!Next /\ (Aged => visits' <= 1 /\ halts' = 0)
Asking(A) ==
    story = "asking" /\ A /\ UNCHANGED <<story, day, threads, records, consults, briefs>>
Consults(A) ==
    story = "consults" /\ A /\ UNCHANGED <<story, day, threads, records, asking, briefs>>
Deciding(A) ==
    story = "briefs" /\ A /\ UNCHANGED <<story, day, threads, records, asking, consults>>

MCNext ==
    \/ Threads(Thr!Next) \/ Purge(Cut!Next) \/ Records(Dev!Next) \/ Asking(AskingStep)
    \/ Consults(Con!ConsultNext) \/ Deciding(Bri!Next)

Offer(d) == Threads(Thr!Offer(d)) \/ Purge(Cut!Offer(d))

MCSpec == MCInit /\ [][MCNext]_all

(* The fairness of each module, in its own story; what is fair in stories  *)
(* that exclude each other is so as one.                                   *)
MCFairSpec ==
    /\ MCSpec
    /\ WF_threads(story \in {"threads", "purge"} /\ Thr!Absorb)
    /\ WF_asking(story = "asking" /\ Que!Tick)
    /\ SF_all(Offer(DoorA) \/ Asking(Que!Elapse))
    /\ SF_all(Offer(DoorB))
    /\ \A c \in Calls : WF_consults(story = "consults" /\ Con!Proceed(c))
    /\ WF_briefs(story = "briefs" /\ Bri!HubTick)
    /\ \A p \in Peers :
          /\ WF_briefs(story = "briefs" /\ Bri!PeerTick(p))
          /\ WF_briefs(story = "briefs" /\ Bri!Dial(p))
          /\ SF_briefs(story = "briefs" /\ Bri!Exchange(p))

(* The type invariants of the five.                                        *)
HouseholdTypeOK ==
    /\ Thr!TheoriesTypeOK /\ Dev!DevicesTypeOK /\ Que!QuestionsTypeOK
    /\ Con!ConsultTypeOK /\ Con!SlotIsHeld /\ Bri!BriefsTypeOK

(* Replication never undoes: a closed theory stays closed, and no fact or  *)
(* sighting of a device gives way to an older one.                         *)
SyncOnlyAdds == Thr!SyncRevivesNothing /\ Dev!RecordsGrow

(* What a person said is not asked of them, and what is for them waits.    *)
HeldForHer == Que!SaidIsNotAsked /\ Que!HerQuestionWaits

\* Nothing is left waiting for ever: a verdict for the other door
\* (VerdictTravels), a need for whom it is for (NeedComesUp), a consult for
\* the one mind (EveryCallReturns), a decision for who must carry it out
\* (DecisionsLand).  Each module states its own; in stories that exclude
\* each other they are one.
Attended ==
    /\ story = "threads" => ~Thr!Unheard
    /\ story = "purge" => ~Cut!Unheard
    /\ story = "asking" => ~Que!NeedWaits
    /\ story = "consults" => Con!Pending = {}
    /\ story = "briefs" => Bri!Settled
NothingWaitsForEver ==
    /\ []<>(story = "asking" => screen = None)
    /\ <>[](story = "asking" => here # {})
    => []<>Attended

(* The other properties of the modules, under the names of this one.       *)
CrossedOnlyByStrays == Con!CrossedOnlyByStrays
NotNowHolds == Bri!NotNowHolds
OwnWords == Con!OwnWords
AnswersStay == Thr!AnswersStay
=============================================================================
