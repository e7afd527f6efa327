------------------------------- MODULE MCTick -------------------------------
(* What the tick tends, each its own story: one surface and its people,    *)
(* partner and policy (Actuation); what is believed of one theory          *)
(* (Belief); one standing prediction (Prediction); a conversation, in      *)
(* which two things are said in one second, one of them corrupting, after  *)
(* an answerer may have read the clock (Dialogue).  Of the surface's menu  *)
(* each budget takes a part: the conversation about a decision at a gate   *)
(* that may shut, with a stop while the policy is minted; the policy's     *)
(* crossings, with a hand on the device and an answer; the familiar's act, *)
(* turned back by the person, or by an answer at a shut gate.              *)
EXTENDS Belief, Prediction

CONSTANTS Window, Rest, Poll, SurfaceTime, Budgets,
          Words, Corrupting, Talk, ReplyWindow, DialogueStops, DialogueTime

VARIABLES
    story,
    device, surf, theory, asked, rules, memory, home, gate, dismissal, tick, mover,
    left, now,
    log, wake, mind, pairs, breaks, second

surface == <<device, surf, theory, asked, rules, memory, home, gate, dismissal, tick,
             mover, left, now>>
talk == <<log, wake, mind, pairs, breaks, second>>
all == <<story, surface, vars, foresight, talk>>

Budget(turns, runs, visits, answers, asks, gates, triages, stopping) ==
    [turns |-> turns, runs |-> runs, visits |-> visits, answers |-> answers,
     asks |-> asks, gates |-> gates, triages |-> triages, stops |-> stopping]
StagedYes == Budget(0, 0, 0, 1, 1, 2, 0, 0)
MCBudgets == {StagedYes, Budget(0, 0, 0, 1, 1, 0, 1, 1), Budget(1, 0, 2, 1, 1, 0, 0, 0),
              Budget(1, 1, 0, 1, 0, 0, 0, 0)}

MCTalk == [w \in Words |-> 2]

Act == INSTANCE Actuation WITH MaxTime <- SurfaceTime
Dia == INSTANCE Dialogue WITH
    Window <- ReplyWindow, MaxStops <- DialogueStops, MaxHour <- DialogueTime,
    stops <- breaks, hour <- second

ASSUME TickAssumption ==
    /\ Act!ActuationAssumption /\ BeliefAssumption /\ PredictionAssumption
    /\ Dia!DialogueAssumption

Stories == {"act", "belief", "claim", "talk"}
MCInit ==
    /\ story \in Stories /\ Act!Init /\ Init /\ ScoringInit /\ Dia!Init
    /\ story = "act" \/ left = StagedYes

Acts(A) == story = "act" /\ A /\ UNCHANGED <<story, vars, foresight, talk>>
Thinks(A) == story = "belief" /\ A /\ UNCHANGED <<story, surface, foresight, talk>>
Foresees(A) == story = "claim" /\ A /\ UNCHANGED <<story, surface, vars, talk>>
Talks(A) == story = "talk" /\ A /\ UNCHANGED <<story, surface, vars, foresight>>

MCNext ==
    \/ Acts(Act!Next) \/ Thinks(Next) \/ Foresees(ScoringNext) \/ Talks(Dia!Next)

MCSpec == MCInit /\ [][MCNext]_all

(* The fairness of each module, in its own story; what is fair in stories  *)
(* that exclude each other is so as one.                                   *)
MCFairSpec ==
    /\ MCSpec
    /\ WF_all(Acts(Act!TickStart) \/ Foresees(Score) \/ Talks(Dia!Work("tick")))
    /\ WF_all(Acts(Act!TickStep) \/ Foresees(Elapse))
    /\ SF_surface(story = "act" /\ Act!HeedUndo)

(* The type invariants of the four.                                        *)
TickTypeOK ==
    /\ Act!ActuationTypeOK /\ BeliefTypeOK /\ PredictionTypeOK
    /\ Dia!DialogueTypeOK

(* The properties of the modules, under the names of this one.             *)
AssentedIsPaired == Act!AssentedIsPaired
NoIsHeeded == Act!NoIsHeeded
YesIsKept == Act!YesIsKept

(* An echo is a race nobody could see, and what is kept of an exchange     *)
(* follows what was said in it.                                            *)
RepliesKeepFaith == Dia!EchoIsARace /\ Dia!PairsFollowReplies

(* EveryClaimSettles and TheyAreHeard, in stories that exclude each other, *)
(* as one: what is owed to a claim and to a person's words is paid.        *)
Owed(c) == \/ story = "claim" /\ claim[c] # NoClaim
           \/ story = "talk" /\ Dia!Unheard
Paid(c) == \/ story = "claim" /\ claim[c] = NoClaim
           \/ story = "talk" /\ ~Dia!Unheard
SettledAndHeard == \A c \in Claims : Owed(c) ~> Paid(c)
=============================================================================
