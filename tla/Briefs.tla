------------------------------- MODULE Briefs -------------------------------
(***************************************************************************)
(* Decisions carried by briefs (mesh/src/merge.rs, grants.rs, enroll.rs).  *)
(* A headless node, the hub, has no person of its own: every tick it       *)
(* publishes what it needs decided and merges the briefs its peers sent.   *)
(* A peer shows its person each need once and publishes what they decided, *)
(* for as long as the decision lives.  A node keeps one brief of each      *)
(* peer, the one that came last, and merges it again on every tick: what   *)
(* is done once is done by a mark in its log.                              *)
(*                                                                         *)
(* Briefs here hold needs and decisions only; the standing of a peer that  *)
(* was refused too often, positive gate reports, which no node writes, and *)
(* denials that meet a hold on the device's record are not modelled.       *)
(***************************************************************************)
EXTENDS Naturals, FiniteSets

CONSTANTS
    Hub, Peers,
    Newcomers,    \* nodes whose join an older door left pending at the hub
    Questions,
    GRANT_TTL_SECS, DENY_RETRY_SECS,
    MaxTime,      \* bound on the clock
    MaxActs,      \* bound on what people and newcomers do
    None

BriefsAssumption ==
    /\ Hub \notin Peers
    /\ {GRANT_TTL_SECS, DENY_RETRY_SECS, MaxTime, MaxActs} \subseteq Nat

VARIABLES
    gate,         \* the hub's allow_execute
    question,     \* its open question
    pending, granted, deniedAt,
    decided,      \* the marks of applied decisions in its log
    todo,         \* the inbox files this tick has still to merge
    surfaced,     \* by peer, the needs its log shows
    given,        \* by peer, the decisions in grants_out.json
    outbox, inbox, sent,
    now, actsOfPeople

hub == <<gate, question, pending, granted, deniedAt>>
people == <<surfaced, given>>
mail == <<outbox, inbox, sent>>
vars == <<hub, decided, todo, people, mail, now, actsOfPeople>>

Need == [kind : {"enrollment"}, ref : Newcomers]
        \cup [kind : {"question", "gate"}, ref : {None}]
Grant == [need : Need, approved : BOOLEAN, ts : 0..MaxTime]
Nodes == Peers \cup {Hub}

BriefsTypeOK ==
    /\ gate \in BOOLEAN /\ question \in Questions \cup {None}
    /\ pending \subseteq Newcomers /\ granted \subseteq Newcomers
    /\ deniedAt \in [Newcomers -> 0..MaxTime \cup {None}]
    /\ decided \subseteq [peer : Peers, need : Need, approved : BOOLEAN]
    /\ todo \subseteq Peers
    /\ surfaced \in [Peers -> SUBSET Need] /\ given \in [Peers -> SUBSET Grant]
    /\ outbox \in [Nodes -> SUBSET (Need \cup Grant)]
    /\ inbox \in [Peers -> [toHub : SUBSET Grant, toPeer : SUBSET Need]]
    /\ now \in 0..MaxTime /\ actsOfPeople \in 0..MaxActs

Init ==
    /\ gate \in BOOLEAN /\ question = None
    /\ pending = Newcomers /\ granted = {}
    /\ deniedAt = [n \in Newcomers |-> None]
    /\ decided = {} /\ todo = {}
    /\ surfaced = [p \in Peers |-> {}] /\ given = [p \in Peers |-> {}]
    /\ outbox = [n \in Nodes |-> {}]
    /\ inbox = [p \in Peers |-> [toHub |-> {}, toPeer |-> {}]]
    /\ sent = [p \in Peers |-> None] /\ now = 0 /\ actsOfPeople = 0

-----------------------------------------------------------------------------
(* What the hub's people, cycle and door do meanwhile.                     *)

Act == actsOfPeople < MaxActs /\ actsOfPeople' = actsOfPeople + 1

OpenGate ==
    /\ Act /\ ~gate /\ gate' = TRUE
    /\ UNCHANGED <<question, pending, granted, deniedAt, decided, todo, people, mail, now>>

AskQuestion ==
    /\ Act /\ question' \in Questions
    /\ UNCHANGED <<gate, pending, granted, deniedAt, decided, todo, people, mail, now>>

Held(n) == deniedAt[n] # None /\ now - deniedAt[n] < DENY_RETRY_SECS

Admit(n) == /\ granted' = granted \cup {n} /\ pending' = pending \ {n}

\* submit_request: a knock admits, unless the denial still holds.
Knock(n) ==
    /\ Act /\ n \notin granted /\ ~Held(n)
    /\ Admit(n)
    /\ deniedAt' = [deniedAt EXCEPT ![n] = None]
    /\ UNCHANGED <<gate, question, decided, todo, people, mail, now>>

\* enroll_status: a poll upgrades what an older door left pending.
Poll(n) ==
    /\ Act /\ n \in pending \ granted
    /\ Admit(n)
    /\ UNCHANGED <<gate, question, deniedAt, decided, todo, people, mail, now>>

\* A bug to be noticed: the pending request outlives its denial.
DenyKeepsPending(n) ==
    /\ deniedAt' = [deniedAt EXCEPT ![n] = now]
    /\ UNCHANGED pending

Deny(n) ==
    /\ deniedAt' = [deniedAt EXCEPT ![n] = now]
    /\ pending' = pending \ {n}

\* A person at the hub says not now.
DenyHere(n) ==
    /\ Act /\ Deny(n)
    /\ UNCHANGED <<gate, question, granted, decided, todo, people, mail, now>>

-----------------------------------------------------------------------------
(* The hub's tick.                                                         *)

Needs == [kind : {"enrollment"}, ref : pending]
         \cup {[kind |-> "question", ref |-> None] : q \in {question} \ {None}}
         \cup {[kind |-> "gate", ref |-> None] : g \in {gate} \ {TRUE}}

\* build_outbox, and the directory drain_inbox will read.
Publish ==
    /\ todo = {}
    /\ outbox' = [outbox EXCEPT ![Hub] = Needs]
    /\ todo' = {p \in Peers : inbox[p].toHub # {}}
    /\ outbox'[Hub] # outbox[Hub] \/ todo' # {}
    /\ UNCHANGED <<hub, decided, people, inbox, sent, now, actsOfPeople>>

\* A bug to be noticed: the mark leaves out whom the decision is about.
MarkOfKind(p, g) == [peer |-> p, approved |-> g.approved,
                     need |-> CHOOSE n \in Need : n.kind = g.need.kind]

Mark(p, g) == [peer |-> p, need |-> g.need, approved |-> g.approved]

New(p) == {g \in inbox[p].toHub : Mark(p, g) \notin decided}

\* apply_authority_grant, where it ends in Applied: only these are marked.
Applies(g) ==
    CASE g.need.kind = "gate" -> TRUE
      [] g.need.kind = "question" -> g.approved
      [] g.need.kind = "enrollment" -> g.need.ref \in pending

Refs(G, yes) == {g.need.ref : g \in {x \in G : x.need.kind = "enrollment"
                                               /\ x.approved = yes}}

\* What the decisions G do.  One brief holds one decision about a need, and
\* decisions about different needs do not meet.
Carry(G) ==
    /\ gate' = (gate /\ \A g \in G : g.need.kind # "gate")
    /\ question' = IF \E g \in G : g.need.kind = "question" /\ g.approved
                   THEN None ELSE question
    /\ granted' = granted \cup (Refs(G, TRUE) \cap pending)
    /\ pending' = pending \ (Refs(G, TRUE) \cup Refs(G, FALSE))
    /\ deniedAt' = [n \in Newcomers |->
                       IF n \in Refs(G, FALSE) THEN now ELSE deniedAt[n]]

Merge(p) ==
    /\ p \in todo
    /\ todo' = todo \ {p}
    /\ Carry(New(p))
    /\ decided' = decided \cup {Mark(p, g) : g \in {x \in New(p) : Applies(x)}}
    /\ UNCHANGED <<people, mail, now, actsOfPeople>>

\* The node stops after it carried out a decision and before it marked it.
StopInMerge(p) ==
    /\ Act /\ p \in todo
    /\ \E g \in New(p) : Carry({g})
    /\ todo' = {}
    /\ UNCHANGED <<decided, people, mail, now>>

-----------------------------------------------------------------------------
(* A peer and its person.                                                  *)

Live(p) == {g \in given[p] : now - g.ts <= GRANT_TTL_SECS}

\* The peer's tick: its brief, with the decisions that live, then what the
\* hub's brief asks, shown once.
PeerTick(p) ==
    /\ given' = [given EXCEPT ![p] = Live(p)]
    /\ outbox' = [outbox EXCEPT ![p] = Live(p)]
    /\ surfaced' = [surfaced EXCEPT ![p] = @ \cup inbox[p].toPeer]
    /\ <<people, outbox>>' # <<people, outbox>>
    /\ UNCHANGED <<hub, decided, todo, inbox, sent, now, actsOfPeople>>

\* `familiar mesh grant`: a decision on a need replaces the one before it,
\* and a gate can only be stopped.
Decide(p, need, approved) ==
    /\ Act
    /\ need \in surfaced[p] \/ need.kind = "gate"
    /\ ~(need.kind = "gate" /\ approved)
    /\ given' = [given EXCEPT ![p] =
           {g \in @ : g.need # need}
           \cup {[need |-> need, approved |-> approved, ts |-> now]}]
    /\ UNCHANGED <<hub, decided, todo, surfaced, mail, now>>

-----------------------------------------------------------------------------
(* The wire.  A node dials with the brief it read when its round began, and *)
(* is answered with the other's brief of that moment: what a peer sent may  *)
(* come after what it answered later.                                       *)

Swap(p, brief) ==
    inbox' = [inbox EXCEPT ![p] = [toHub |-> brief, toPeer |-> outbox[Hub]]]

Dial(p) ==
    /\ sent[p] = None
    /\ sent' = [sent EXCEPT ![p] = outbox[p]]
    /\ UNCHANGED <<hub, decided, todo, people, outbox, inbox, now, actsOfPeople>>

Exchange(p) ==
    /\ sent[p] # None /\ sent' = [sent EXCEPT ![p] = None]
    /\ Swap(p, sent[p])
    /\ UNCHANGED <<hub, decided, todo, people, outbox, now, actsOfPeople>>

Lose(p) ==
    /\ sent[p] # None /\ sent' = [sent EXCEPT ![p] = None]
    /\ UNCHANGED <<hub, decided, todo, people, outbox, inbox, now, actsOfPeople>>

\* The hub dials, and is answered at once.
HubDials(p) ==
    /\ Swap(p, outbox[p])
    /\ UNCHANGED <<hub, decided, todo, people, outbox, sent, now, actsOfPeople>>

Wait ==
    /\ now < MaxTime /\ now' = now + 1
    /\ UNCHANGED <<hub, decided, todo, people, mail, actsOfPeople>>

-----------------------------------------------------------------------------
AtHub == OpenGate \/ AskQuestion \/ \E n \in Newcomers : Knock(n) \/ Poll(n) \/ DenyHere(n)

Next ==
    \/ AtHub \/ Publish \/ Wait
    \/ \E p \in Peers :
          \/ Merge(p) \/ StopInMerge(p) \/ PeerTick(p)
          \/ \E need \in Need, yes \in BOOLEAN : Decide(p, need, yes)
          \/ Dial(p) \/ Exchange(p) \/ Lose(p) \/ HubDials(p)

Spec == Init /\ [][Next]_vars

\* Ticks come, and of the briefs dialled again and again one arrives.  Nobody
\* has to decide anything, and time need not pass.
HubTick == Publish \/ \E p \in Peers : Merge(p)

FairSpec ==
    /\ Spec /\ WF_vars(HubTick)
    /\ \A p \in Peers :
          WF_vars(PeerTick(p)) /\ WF_vars(Dial(p)) /\ SF_vars(Exchange(p))

-----------------------------------------------------------------------------
(* Properties.                                                             *)

\* Who was told "not now", by whichever peer's person and however late, is
\* not let in before the retry window has passed, though their knock, their
\* poll and another peer's yes go on (enroll.rs, denied_for).
NotNowHolds ==
    [][\A n \in granted' \ granted :
           deniedAt[n] # None => now - deniedAt[n] >= DENY_RETRY_SECS]_<<granted>>

\* What a person decided about a newcomer, or to stop, is carried out, unless
\* it expires or they think again first, or the matter is settled otherwise
\* (grants.rs: "re-sending only guards against a dropped round").
Awaited(p, g) ==
    /\ g.need.kind # "question"
    /\ [peer |-> p, need |-> g.need, approved |-> g.approved] \notin decided
    /\ g.need.kind = "enrollment" => g.need.ref \in pending
Settled == \A p \in Peers : \A g \in given[p] : ~Awaited(p, g)
DecisionsLand == []<>Settled
=============================================================================
