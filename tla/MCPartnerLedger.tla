--------------------------- MODULE MCPartnerLedger ---------------------------
(* One partner and one grant, in four stories, each with its menu and its  *)
(* bounds: the effect edge (ask, decide, observe, invoke, retry with the   *)
(* same and with another payload, revoke), the hourly rate (three          *)
(* invocations under a rate of two), the deciding edge (three requests,    *)
(* two proposals, both decisions, a refusal, an expiry) and the race of a  *)
(* proposal with a revocation.  The module's own constants are the unions  *)
(* of what the stories use.                                                *)
EXTENDS PartnerLedger, TLC

CONSTANT Stories
VARIABLE story

MCOps == {"observe", "primary", "reverted"}

Ask(k) == [kind |-> "request", principal |-> "p1", key |-> k,
           ops |-> MCOps, asked |-> 2]
Give(expires) == [kind |-> "grant", id |-> 1, ops |-> MCOps,
                  expires |-> expires]
On(kind, id) == [kind |-> kind, id |-> id]
Do(kind, k, op) == [kind |-> kind, id |-> 1, principal |-> "p1", key |-> k,
                    op |-> op]

EffectMenu == {Ask("k1"), Give(1), On("revoke", 1),
               Do("invoke", "k1", "primary"), Do("invoke", "k1", "reverted"),
               Do("observe", None, "observe")}
RateMenu == {Ask("k1"), Give(3), Do("invoke", "k1", "primary"),
             Do("invoke", "k2", "primary"), Do("invoke", "k3", "primary")}
DecideMenu == {Ask("k1"), Ask("k2"), Ask("k3"), Give(1), On("decline", 1),
               Do("propose", "k1", "primary"), Do("propose", "k2", "primary"),
               On("refuse", 1)}
RaceMenu == {Ask("k1"), Give(1), On("revoke", 1),
             Do("propose", "k1", "primary")}

MCMenu == EffectMenu \cup RateMenu \cup DecideMenu \cup RaceMenu

Effect == INSTANCE PartnerLedger WITH
    Menu <- EffectMenu, Ids <- {1, 2}, MaxTime <- 1,
    Closable <- {"actuate"}
Rate == INSTANCE PartnerLedger WITH
    Menu <- RateMenu, MaxFaults <- 0, Closable <- {}
Deciding == INSTANCE PartnerLedger WITH
    Menu <- DecideMenu, MaxInvokes <- 1, MaxTime <- 1, Closable <- {"agent"}
Race == INSTANCE PartnerLedger WITH
    Menu <- RaceMenu, Ids <- {1, 2}, MaxInvokes <- 1, MaxTime <- 0, MaxFaults <- 0,
    Closable <- {}

MCInit == story \in Stories /\ Init

MCNext ==
    /\ story' = story
    /\ \/ story = "effect" /\ Effect!Next
       \/ story = "rate" /\ Rate!Next
       \/ story = "decide" /\ Deciding!Next
       \/ story = "race" /\ Race!Next

MCSpec == MCInit /\ [][MCNext]_<<vars, story>>

Alike == Permutations(Threads)
=============================================================================
