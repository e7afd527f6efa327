----------------------------- MODULE Actuation ------------------------------
(* One declared surface and everyone who moves it (cycle/lib.rs, with      *)
(* kernel/pending.rs, reaction_rule.rs and actuator.rs): the tick, whose   *)
(* passes load the surface's record, run tools and save the record later;  *)
(* the person, at the device or at the command line; a partner's act; the  *)
(* subject's answers, which decide a standing policy; and the gate.        *)
EXTENDS Integers, Sequences

CONSTANTS None,
          Window,      \* reaction_window_secs
          Rest,        \* ACTUATOR_REST_SECS
          Poll,        \* actuator_poll_secs
          MaxTime,     \* bound: the clock
          Budgets      \* bounds: how often each of `left` may happen, per story

ActuationAssumption ==
    /\ Window \in Nat /\ Rest \in Nat /\ Poll \in Nat /\ MaxTime \in Nat
    /\ Budgets \subseteq [{"turns", "runs", "visits", "answers", "asks", "gates",
                           "triages", "stops"} -> Nat]

VARIABLES
    device,     \* what the surface really shows
    surf,       \* its SurfaceState on disk
    theory,     \* the person's need: status and answers, with a rule_proposal
    asked,      \* the PendingDecision of the theory, or None
    rules,      \* the two edges of the standing policy
    memory,     \* presence remembered by due()
    home,       \* is the subject present
    gate,       \* boundary.allow_actuate
    dismissal,  \* last_dismissed of the theory's question
    tick,       \* where the tick is, and what it loaded
    mover,      \* an act run by a hand or a partner and not recorded yet
    left,       \* what the budget leaves of what people do
    now

vars == <<device, surf, theory, asked, rules, memory, home, gate,
                   dismissal, tick, mover, left, now>>

Labels == {"dim", "bright"}
Decided == {"pending", "awaiting_gate", "assented", "declined"}
Want == "dim"                                \* what the need's direction names
EdgeAct == [away |-> "dim", back |-> "bright"]      \* the rule_proposal
Edges == DOMAIN EdgeAct
Answers == {"yes", "no", "remark"}  \* is_negative, else is_affirmative, else neither

NewAnswers(from) == SubSeq(theory.answers, from + 1, Len(theory.answers))
Says(word, from) == \E k \in 1..Len(theory.answers) : k > from /\ theory.answers[k] = word

Idle == [at |-> "idle", snap |-> None, read |-> None, edge |-> None, seen |-> 0]
Spend(what) == left[what] > 0 /\ left' = [left EXCEPT ![what] = @ - 1]
Reach(stage) == [Idle EXCEPT !.at = stage]
(* The pass has loaded the record; it will save what it makes of it.       *)
Loaded(stage, reading) ==
    [Idle EXCEPT !.at = stage, !.snap = surf, !.read = reading,
                 !.seen = Len(theory.answers)]

Init ==
    /\ device = "bright"
    /\ surf = [bucket |-> "", polledAt |-> -Poll, restUntil |-> 0, act |-> None]
    /\ theory = [status |-> "pursued", answers |-> <<>>]
    /\ asked = None
    /\ rules = [e \in Edges |-> [minted |-> FALSE, on |-> FALSE, paired |-> FALSE]]
    /\ memory = "unseen"
    /\ home = TRUE
    /\ gate = TRUE
    /\ dismissal = -1
    /\ tick = Idle
    /\ mover = None
    /\ left \in Budgets
    /\ now = 0

(***************************************************************************)
(* People, partners and time                                               *)
(***************************************************************************)
(* The passes load what people say when they begin, so an answer counts    *)
(* before a tick or before its heed pass; it may also fall into an act.    *)
Between == tick.at \in {"idle", "heed", "tended"}

(* Hands move before a tick or while a pass is between load and save.      *)
Working == tick.at \in {"idle", "polled", "undone", "tending", "tended", "fired"}

(* An answer revives a theory that was set aside.                          *)
Answer ==
    /\ Between /\ Spend("answers")
    /\ \E a \in Answers :
         theory' = [status |-> IF theory.status = "pursued" THEN "pursued" ELSE "open",
                    answers |-> Append(theory.answers, a)]
    /\ UNCHANGED <<device, surf, asked, rules, memory, home, gate, dismissal, tick,
                   mover, now>>

Dismiss ==
    /\ Between /\ asked # None /\ dismissal < now
    /\ dismissal' = now
    /\ UNCHANGED <<device, surf, theory, asked, rules, memory, home, gate, tick, mover,
                   left, now>>

(* The theory's question is admitted: one open decision per theory.        *)
Ask ==
    /\ tick.at = "idle" /\ Spend("asks") /\ asked = None
    /\ theory.status \in {"open", "pursued"}
    /\ asked' = [status |-> "pending", seen |-> Len(theory.answers), note |-> "",
                 weakened |-> FALSE]
    /\ UNCHANGED <<device, surf, theory, rules, memory, home, gate, dismissal, tick,
                   mover, now>>

(* The factory's triage: a theory is set aside, or pursued again.          *)
Triage ==
    /\ \/ theory.status \in {"open", "pursued"} /\ theory' = [theory EXCEPT !.status = "abandoned"]
       \/ theory.status = "open" /\ theory' = [theory EXCEPT !.status = "pursued"]
    /\ tick.at = "idle" /\ Spend("triages")
    /\ UNCHANGED <<device, surf, asked, rules, memory, home, gate, dismissal, tick, mover,
                   now>>

ComeAndGo ==
    /\ tick.at = "idle" /\ home' = ~home
    /\ \E e \in Edges : rules[e].minted
    /\ Spend("visits")
    /\ UNCHANGED <<device, surf, theory, asked, rules, memory, gate, dismissal, tick, mover, now>>

SetGate ==
    /\ tick.at \in {"idle", "heed", "tending", "firing"}
    /\ Spend("gates")
    /\ gate' = ~gate
    /\ UNCHANGED <<device, surf, theory, asked, rules, memory, home, dismissal, tick, mover, now>>

(* A person turns the device itself.                                       *)
Turn ==
    /\ Working /\ Spend("turns")
    /\ device' \in Labels \ {device}
    /\ UNCHANGED <<surf, theory, asked, rules, memory, home, gate, dismissal, tick, mover, now>>

(* execute_tool looks at the boundary itself, each time it runs a tool.    *)
ToolAllowed == gate

(* `actuate` at the command line, or a partner's granted act: the tool     *)
(* runs first (execute_tool refuses at a shut gate), the record follows.   *)
Run(who) ==
    /\ Working /\ mover = None /\ ToolAllowed
    /\ Spend("runs")
    /\ \E l \in Labels : device' = l /\ mover' = [who |-> who, label |-> l]
    /\ UNCHANGED <<surf, theory, asked, rules, memory, home, gate, dismissal, tick, now>>

(* disable_reverted: the edge, and its pair when the policy is paired.     *)
Reverted(e) ==
    [x \in Edges |-> IF x = e \/ (rules[e].paired /\ rules[x].paired)
                     THEN [rules[x] EXCEPT !.on = FALSE] ELSE rules[x]]

(* What a reaction against an act does to what the act pursued.            *)
Depreciate(act) ==
    IF act.of = "theory"
    THEN theory' = [theory EXCEPT !.status = "abandoned"] /\ UNCHANGED rules
    ELSE rules' = Reverted(act.of) /\ UNCHANGED theory

HandRecords ==
    /\ Working /\ mover # None /\ mover.who = "hand"
    /\ LET act == surf.act
           against == act # None /\ mover.label # act.label
       IN  /\ IF against THEN Depreciate(act) ELSE UNCHANGED <<theory, rules>>
           /\ surf' = [surf EXCEPT !.bucket = mover.label, !.act = None,
                                   !.restUntil = IF against THEN now + Rest ELSE @]
    /\ mover' = None
    /\ UNCHANGED <<device, asked, memory, home, gate, dismissal, tick, left, now>>

PartnerRecords ==
    /\ Working /\ mover # None /\ mover.who = "partner"
    /\ surf' = [surf EXCEPT !.bucket = mover.label]
    /\ mover' = None
    /\ UNCHANGED <<device, theory, asked, rules, memory, home, gate, dismissal, tick,
                   left, now>>

Pass ==
    /\ now < MaxTime /\ tick.at = "idle" /\ mover = None
    /\ now' = now + 1
    /\ UNCHANGED <<device, surf, theory, asked, rules, memory, home, gate, dismissal,
                   tick, mover, left>>

(***************************************************************************)
(* The tick                                                                *)
(***************************************************************************)
\* A bug to be noticed: the edges are never paired.
MintedUnpaired(k) ==
    [e \in Edges |->
       IF k >= (IF e = "away" THEN 1 ELSE 2)
       THEN [minted |-> TRUE, on |-> TRUE, paired |-> rules[e].paired] ELSE rules[e]]

(* mint_policy saves away, back and the pairing one after the other: the   *)
(* process may stop after k of the three.                                  *)
Minted(k) ==
    [e \in Edges |->
       IF k >= (IF e = "away" THEN 1 ELSE 2)
       THEN [minted |-> TRUE, on |-> TRUE, paired |-> rules[e].paired \/ k = 3]
       ELSE rules[e]]

TickStart ==
    /\ tick.at = "idle" /\ tick' = Reach("decide")
    /\ UNCHANGED <<device, surf, theory, asked, rules, memory, home, gate, dismissal,
                   mover, left, now>>

\* A bug to be noticed: a staged yes is forgotten.
DecidingPending(d) == d # None /\ d.status = "pending"

Deciding(d) == d # None /\ d.status \in {"pending", "awaiting_gate"}
Weak == theory.status \notin {"open", "pursued"}
(* The weakening is stamped when it is seen, as an answer would revive it. *)
Stamped(d) == IF d.note = "" /\ Weak
              THEN [d EXCEPT !.note = "weakened", !.weakened = TRUE] ELSE d
Affirmed(d) == d.status = "awaiting_gate" \/ Says("yes", d.seen)

(* After the decisions, the passes that act need the gate.                 *)
AfterDecide == IF gate THEN Reach("poll") ELSE Idle

DecideNothing ==
    /\ tick.at = "decide"
    /\ Deciding(asked) => /\ ~Says("no", asked.seen)
                          /\ ~Affirmed(asked) \/ (asked.status = "awaiting_gate" /\ ~gate)
    /\ asked' = IF Deciding(asked) THEN Stamped(asked) ELSE asked
    /\ tick' = AfterDecide
    /\ UNCHANGED <<device, surf, theory, rules, memory, home, gate, dismissal, mover,
                   left, now>>

(* transition keeps a note unless it is given one.                         *)
Moved(d, status, note) == [d EXCEPT !.status = status, !.note = IF note = "" THEN @ ELSE note]

Decline ==
    /\ tick.at = "decide" /\ Deciding(asked) /\ Says("no", asked.seen)
    /\ asked' = Moved(Stamped(asked), "declined", "no")
    /\ tick' = AfterDecide
    /\ UNCHANGED <<device, surf, theory, rules, memory, home, gate, dismissal, mover,
                   left, now>>

StageAssent ==
    /\ tick.at = "decide" /\ Deciding(asked) /\ ~Says("no", asked.seen)
    /\ asked.status = "pending" /\ Affirmed(asked) /\ ~gate
    /\ asked' = Moved(Stamped(asked), "awaiting_gate", "gate")
    /\ tick' = AfterDecide
    /\ UNCHANGED <<device, surf, theory, rules, memory, home, gate, dismissal, mover,
                   left, now>>

Assent ==
    /\ tick.at = "decide" /\ Deciding(asked) /\ ~Says("no", asked.seen)
    /\ Affirmed(asked) /\ gate
    /\ rules' = Minted(3)
    /\ asked' = Moved(Stamped(asked), "assented", Stamped(asked).note)
    /\ tick' = AfterDecide
    /\ UNCHANGED <<device, surf, theory, memory, home, gate, dismissal, mover, left, now>>

(* mint_policy refuses while another person's rule stands on the surface,  *)
(* which this module does not hold.                                        *)
AssentRefused ==
    /\ tick.at = "decide" /\ Deciding(asked) /\ ~Says("no", asked.seen)
    /\ Affirmed(asked) /\ gate
    /\ asked' = Moved(Stamped(asked), "declined", "world")
    /\ tick' = AfterDecide
    /\ UNCHANGED <<device, surf, theory, rules, memory, home, gate, dismissal, mover,
                   left, now>>

(* The process stops while it mints.                                       *)
StopInMint ==
    /\ tick.at = "decide" /\ Deciding(asked) /\ ~Says("no", asked.seen)
    /\ Affirmed(asked) /\ gate
    /\ Spend("stops")
    /\ \E k \in 1..3 : rules' = Minted(k)
    /\ asked' = Stamped(asked)
    /\ tick' = Idle
    /\ UNCHANGED <<device, surf, theory, memory, home, gate, dismissal, mover, now>>

(* Polling: the record is loaded and the device read, unless the tool is   *)
(* refused or fails.  The last instant stands for all that follow, so no   *)
(* pacing is left in it.                                                   *)
PollDue == now = MaxTime \/ now - surf.polledAt >= Poll
PollRead ==
    /\ tick.at = "poll"
    /\ \/ ~PollDue /\ tick' = Reach("heed")
       \/ PollDue /\ tick' = Loaded("polled", None)
       \/ PollDue /\ ToolAllowed /\ tick' = Loaded("polled", device)
    /\ UNCHANGED <<device, surf, theory, asked, rules, memory, home, gate, dismissal,
                   mover, left, now>>

\* A bug to be noticed: an act is never closed.
StillOpen(s) == s

Closed(s) == [s EXCEPT !.act = None]

Polled == [tick.snap EXCEPT !.polledAt = now]
Standing(act) == act # None /\ tick.snap.bucket = tick.read /\ tick.read = act.label
Undone(act) == act # None /\ tick.read # tick.snap.bucket
               /\ now - act.at <= Window /\ tick.read # act.label

PollSave ==
    /\ tick.at = "polled"
    /\ LET act == tick.snap.act IN
         IF tick.read = None
         THEN surf' = Polled /\ UNCHANGED <<theory, rules>>
         ELSE IF tick.snap.bucket = ""
         THEN surf' = [Polled EXCEPT !.bucket = tick.read] /\ UNCHANGED <<theory, rules>>
         ELSE IF Undone(act)
         THEN /\ surf' = [Closed(Polled) EXCEPT !.bucket = tick.read,
                                                !.restUntil = now + Rest]
              /\ Depreciate(act)
         ELSE /\ surf' = IF Standing(act) /\ now - act.at > Window
                         THEN Closed(Polled)
                         ELSE [Polled EXCEPT !.bucket = tick.read]
              /\ UNCHANGED <<theory, rules>>
    /\ tick' = Reach("heed")
    /\ UNCHANGED <<device, asked, memory, home, gate, dismissal, mover, left, now>>

(* Words on an act the familiar made for the theory.                       *)
Heard(act) == act # None /\ act.of = "theory"
              /\ (NewAnswers(act.seen) # <<>> \/ dismissal > act.at)
Against(act) == dismissal > act.at \/ Says("no", act.seen)

HeedNothing ==
    /\ tick.at = "heed" /\ ~Heard(surf.act)
    /\ tick' = Reach("tend")
    /\ UNCHANGED <<device, surf, theory, asked, rules, memory, home, gate, dismissal,
                   mover, left, now>>

(* A yes mints the policy, which may be refused here as well.              *)
HeedAssent ==
    /\ tick.at = "heed" /\ Heard(surf.act) /\ ~Against(surf.act)
    /\ \/ Says("yes", surf.act.seen) /\ gate /\ rules' = Minted(3)
       \/ UNCHANGED rules
    /\ surf' = Closed(surf)
    /\ tick' = Reach("tend")
    /\ UNCHANGED <<device, theory, asked, memory, home, gate, dismissal, mover, left, now>>

(* Undo first: the tool that restores the bucket may fail or be refused,   *)
(* and then the act stays open and is tried again.                         *)
HeedUndo ==
    /\ tick.at = "heed" /\ Heard(surf.act) /\ Against(surf.act) /\ ToolAllowed
    /\ device' = surf.act.prev /\ tick' = Loaded("undone", None)
    /\ UNCHANGED <<surf, theory, asked, rules, memory, home, gate, dismissal, mover,
                   left, now>>

HeedUndoFails ==
    /\ tick.at = "heed" /\ Heard(surf.act) /\ Against(surf.act)
    /\ tick' = Reach("tend")
    /\ UNCHANGED <<device, surf, theory, asked, rules, memory, home, gate, dismissal,
                   mover, left, now>>

HeedSave ==
    /\ tick.at = "undone"
    /\ surf' = [Closed(tick.snap) EXCEPT !.bucket = tick.snap.act.prev,
                                         !.restUntil = now + Rest]
    /\ theory' = [theory EXCEPT !.status = "abandoned"]
    /\ tick' = Reach("tend")
    /\ UNCHANGED <<device, asked, rules, memory, home, gate, dismissal, mover, left, now>>

\* A bug to be noticed: the tool is run whatever the device shows.
DiffersAlways(label) == TRUE

Differs(label) == device # label        \* else the world already agrees
Free(s) == s.restUntil <= now /\ s.act = None

(* Acting: for the need, then for a rule whose edge fired.                 *)
TendRead ==
    /\ tick.at = "tend"
    /\ tick' = IF theory.status = "pursued" /\ Free(surf) /\ gate /\ Differs(Want)
               THEN Loaded("tending", device) ELSE Reach("rules")
    /\ UNCHANGED <<device, surf, theory, asked, rules, memory, home, gate, dismissal,
                   mover, left, now>>

(* due: presence is compared with the memory, and the memory updated.      *)
Due ==
    /\ tick.at = "rules"
    /\ LET e == IF home THEN "back" ELSE "away"
           crossed == memory # "unseen" /\ memory # e /\ rules[e].on
       IN  /\ memory' = IF \E x \in Edges : rules[x].minted THEN e ELSE memory
           /\ tick' = IF crossed /\ Free(surf) /\ gate /\ Differs(EdgeAct[e])
                      THEN [Loaded("firing", device) EXCEPT !.edge = e]
                      ELSE Idle
    /\ UNCHANGED <<device, surf, theory, asked, rules, home, gate, dismissal, mover,
                   left, now>>

(* The tool: its own gate check, and it may fail, as may the reading of    *)
(* the state before it.                                                    *)
ActRuns ==
    /\ tick.at \in {"tending", "firing"} /\ ToolAllowed
    /\ device' = IF tick.at = "tending" THEN Want ELSE EdgeAct[tick.edge]
    /\ tick' = [tick EXCEPT !.at = IF @ = "tending" THEN "tended" ELSE "fired"]
    /\ UNCHANGED <<surf, theory, asked, rules, memory, home, gate, dismissal, mover,
                   left, now>>

ActFails ==
    /\ tick.at \in {"tending", "firing"}
    /\ surf' = tick.snap
    /\ tick' = IF tick.at = "tending" THEN Reach("rules") ELSE Idle
    /\ UNCHANGED <<device, theory, asked, rules, memory, home, gate, dismissal, mover,
                   left, now>>

ActSave ==
    /\ tick.at \in {"tended", "fired"}
    /\ LET label == IF tick.at = "tended" THEN Want ELSE EdgeAct[tick.edge]
       IN  surf' = [tick.snap EXCEPT
                      !.bucket = label,
                      !.act = [of |-> IF tick.at = "tended" THEN "theory" ELSE tick.edge,
                               label |-> label, prev |-> tick.read, at |-> now,
                               seen |-> tick.seen]]
    /\ tick' = IF tick.at = "tended" THEN Reach("rules") ELSE Idle
    /\ UNCHANGED <<device, theory, asked, rules, memory, home, gate, dismissal, mover,
                   left, now>>

TickStep ==
    \/ DecideNothing \/ Decline \/ StageAssent \/ Assent \/ AssentRefused
    \/ PollRead \/ PollSave \/ HeedNothing \/ HeedAssent
    \/ HeedUndo \/ HeedUndoFails \/ HeedSave
    \/ TendRead \/ Due \/ ActRuns \/ ActFails \/ ActSave

Next ==
    \/ Answer \/ Dismiss \/ Ask \/ Triage \/ ComeAndGo \/ SetGate \/ Turn
    \/ Run("hand") \/ Run("partner") \/ HandRecords \/ PartnerRecords \/ Pass
    \/ TickStart \/ StopInMint \/ TickStep

Spec == Init /\ [][Next]_vars

(* The daemon ticks for ever; its tools may fail, but an undo that is      *)
(* tried again and again does not fail each time.                          *)
Fairness == WF_vars(TickStart) /\ WF_vars(TickStep) /\ SF_vars(HeedUndo)
FairSpec == Spec /\ Fairness
-----------------------------------------------------------------------------
ActOK(a) == a = None \/ /\ a.of \in {"theory"} \cup Edges /\ a.at \in 0..MaxTime
                        /\ a.label \in Labels /\ a.prev \in Labels \ {a.label}
                        /\ a.seen \in 0..Len(theory.answers)
SurfaceOK(s) == /\ s.bucket \in Labels \cup {""} /\ s.polledAt \in -Poll..MaxTime
                /\ s.restUntil \in 0..MaxTime + Rest /\ ActOK(s.act)

(* Every variable keeps its shape, and what the tick loaded is a record    *)
(* the surface could have.                                                 *)
ActuationTypeOK ==
    /\ device \in Labels /\ SurfaceOK(surf)
    /\ theory.status \in {"open", "pursued", "abandoned"}
    /\ theory.answers \in Seq(Answers)
    /\ asked # None => asked.status \in Decided /\ asked.seen \in 0..Len(theory.answers)
    /\ \A e \in Edges : rules[e] \in [minted : BOOLEAN, on : BOOLEAN, paired : BOOLEAN]
    /\ memory \in {"unseen"} \cup Edges /\ home \in BOOLEAN /\ gate \in BOOLEAN
    /\ dismissal \in -1..MaxTime /\ now \in 0..MaxTime
    /\ tick.snap # None => SurfaceOK(tick.snap)

(* heed_pending_decisions and mint_policy: whatever stops in between, a    *)
(* decision is only recorded as assented over a whole policy, whose edges  *)
(* a reversal takes down together.                                         *)
AssentedIsPaired ==
    asked # None /\ asked.status = "assented"
        => \A e \in Edges : rules[e].minted /\ rules[e].paired

(* heed_reactions: a "no" on an act of the familiar closes it, though the  *)
(* tool that undoes it may fail or be refused and have to be tried again.  *)
NoIsHeeded ==
    (Heard(surf.act) /\ Against(surf.act) /\ gate) ~> (surf.act = None \/ ~gate)

YesWaits == asked # None /\ asked.status = "pending" /\ Says("yes", asked.seen)
YesStaged == asked # None /\ asked.status = "awaiting_gate" /\ gate

(* heed_pending_decisions: the subject's yes is never left waiting, and    *)
(* one kept at a shut gate is completed, or declined with the reason, once *)
(* it opens.                                                               *)
YesIsKept == (YesWaits \/ YesStaged) ~> ~(YesWaits \/ YesStaged)
=============================================================================
