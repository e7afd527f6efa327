-------------------------- MODULE MCOrderLifecycle --------------------------
(* A plan with a mechanical rung below the witness rung, two asks, two     *)
(* declaration digests and two generations: enough for a proof, a No or a  *)
(* declaration of the first candidate to be outstanding when the second    *)
(* arrives.  Request and declaration digests are only compared for         *)
(* equality.                                                               *)
(* In the loop's story two runners converge on such an order, with a good  *)
(* and a bad candidate, and a desk that may close the order or take it     *)
(* through its declaration while they run.                                 *)
(* The laboratory's story is a campaign (Campaign), which shares with the  *)
(* loop that it is budgeted, crashes, and is started again.  The chain's   *)
(* story is the other ledger, that of refusals (RefusalChain).  The        *)
(* roadmap's story is two hosts that pursue a person's goals (Goals).      *)
EXTENDS OrderLifecycle, Converge, RefusalChain

CONSTANTS Cells, Cap, MaxCalls, MaxStarts, Torn,
          Hosts, Unowned, Deployers, MaxAttempts, MaxSeeds, MaxBriefs

VARIABLES story, file, mem, key, where, halt, stopFile, troubles, made, lost,
          goals, known, pursuing, tries, seeded, briefs, faults

MCPlan == <<"bench", "witness">>
MCLabels == {"state", "power"}
MCSurface == {"state"}
MCFitting == [refused |-> FALSE, surface |-> MCSurface, effects |-> MCSurface,
              lock |-> "stdlib", manifest |-> TRUE, roles |-> TRUE]
MCOutcomes == {MCFitting, [MCFitting EXCEPT !.refused = TRUE],
               [MCFitting EXCEPT !.surface = MCLabels],
               [MCFitting EXCEPT !.lock = "pinned"]}

MCDesk == {[kind |-> "close"], [kind |-> "observe", digest |-> "d1"],
           [kind |-> "propose", digest |-> "d1", reduced |-> TRUE],
           [kind |-> "commission"]}

Lab == INSTANCE Campaign
Road == INSTANCE Goals WITH doing <- pursuing, stops <- faults

ASSUME LabAssumption == Lab!CampaignAssumption
ASSUME RoadAssumption == Road!GoalsAssumption

lab == <<file, mem, key, where, halt, stopFile, troubles, made, lost>>
road == <<goals, known, pursuing, tries, seeded, briefs, faults>>
all == <<story, vars, runs, lab, chainVars, road>>

MCInit ==
    /\ story \in {"order", "loop", "lab", "chain", "road"}
    /\ Init /\ LoopInit /\ Lab!Init /\ ChainInit /\ Road!Init

MCNext ==
    \/ story = "order" /\ Next /\ UNCHANGED <<story, runs, lab, chainVars, road>>
    \/ story = "loop" /\ LoopNext /\ UNCHANGED <<story, vars, lab, chainVars, road>>
    \/ story = "lab" /\ Lab!Next /\ UNCHANGED <<story, vars, runs, chainVars, road>>
    \/ story = "chain" /\ ChainNext /\ UNCHANGED <<story, vars, runs, lab, road>>
    \/ story = "road" /\ Road!Next /\ UNCHANGED <<story, vars, runs, lab, chainVars>>

MCSpec == MCInit /\ [][MCNext]_all

\* The fairness of each module, in its own story.
MCFairSpec ==
    /\ MCSpec
    /\ \A r \in Runners : WF_runs(story = "loop" /\ Step(r))
    /\ WF_lab(story = "lab" /\ Lab!Go) /\ WF_lab(story = "lab" /\ Lab!TakeStop)
    /\ WF_lab(story = "lab" /\ Lab!Resume)
    /\ \A n \in Hosts : WF_road(story = "road" /\ Road!Pursue(n))

\* The safety of Goals and of Campaign.
RunsAreBounded == Road!RunsAreBounded
CallsAreCapped == Lab!CapHolds

\* Work ends: every run of the loop, whatever the adapter, the bench and the
\* other appenders do (Converge); the pursuit of every goal of the roadmap
\* that needs no person's hand (Goals); and a campaign that is resumed as
\* often as it halts (Campaign).
WorkEnds ==
    /\ \A r \in Runners :
          []<>(/\ story = "loop" => Ended(r)
               /\ story = "road" => Road!Pursued)
    /\ story = "lab" => Lab!ResumedEnds
=============================================================================
