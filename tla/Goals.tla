-------------------------------- MODULE Goals --------------------------------
(***************************************************************************)
(* The shared roadmap (kernel/src/goal.rs, pursue_goals in                 *)
(* cycle/src/lib.rs, the goals of a brief in mesh/src/merge.rs).  A person *)
(* seeds a goal at some node; briefs carry it to the others, who take a    *)
(* goal whose id they do not have and change none they have.  A tick       *)
(* drives one goal the node owns, or else claims one: it writes the row,   *)
(* lets the agent work, writes the row again and records the progress.     *)
(* Those records replicate too, and counting them is how a node knows that *)
(* it has tried often enough.  A process may stop between any two writes.  *)
(*                                                                         *)
(* A brief is taken and merged in one step: one that waits has on it less  *)
(* than is known now, and what it has was so at its time.  Notes, dates    *)
(* and the receipts for refused rows are left out.                         *)
(***************************************************************************)
EXTENDS Naturals, Sequences, FiniteSets

CONSTANTS
    Hosts, Unowned,
    Deployers,      \* the hosts that can deploy; all can do the rest
    MaxAttempts,    \* MAX_GOAL_ATTEMPTS
    MaxSeeds,       \* bound on the goals seeded
    MaxBriefs,      \* bound on the briefs merged
    MaxStops        \* bound on the times a process stops, or the agent errs

GoalsAssumption ==
    /\ Unowned \notin Hosts /\ Deployers \subseteq Hosts
    /\ IsFiniteSet(Hosts) /\ MaxAttempts \in Nat \ {0}
    /\ MaxSeeds \in Nat /\ MaxBriefs \in Nat /\ MaxStops \in Nat

VARIABLES
    goals,      \* goals.jsonl of each host
    known,      \* the progress records each has, by the host that wrote them
    doing,      \* what a tick has still to do, and for which goal
    tries,      \* the runs each host has begun, of each goal
    seeded, briefs, stops

vars == <<goals, known, doing, tries, seeded, briefs, stops>>

Ids == 1..MaxSeeds
Idle == [step |-> "idle", id |-> 0]

Init ==
    /\ goals = [n \in Hosts |-> <<>>]
    /\ known = [n \in Hosts |-> [o \in Hosts |-> [i \in Ids |-> 0]]]
    /\ doing = [n \in Hosts |-> Idle]
    /\ tries = [n \in Hosts |-> [i \in Ids |-> 0]]
    /\ seeded = 0 /\ briefs = 0 /\ stops = 0

-----------------------------------------------------------------------------
\* `goal add`: the id is the count of the goals that are there.
Seed(n, gated) ==
    /\ seeded < MaxSeeds /\ seeded' = seeded + 1
    /\ goals' = [goals EXCEPT ![n] = Append(@,
         [id |-> Len(goals[n]) + 1, gated |-> gated,
          status |-> "proposed", owner |-> Unowned])]
    /\ UNCHANGED <<known, doing, tries, briefs, stops>>

\* What a tick looks for: the rows it owns and may drive, or those it may
\* claim.  It takes the first, and then goes by the id.
First(n, rows) == goals[n][CHOOSE k \in rows : \A j \in rows : k <= j]

\* A bug to be noticed: a goal the agent left unfinished is not taken up again.
OwnFresh(n) ==
    {k \in DOMAIN goals[n] :
        goals[n][k].owner = n /\ goals[n][k].status = "claimed" /\ ~goals[n][k].gated}

Own(n) ==
    {k \in DOMAIN goals[n] :
        /\ goals[n][k].owner = n /\ ~goals[n][k].gated
        /\ goals[n][k].status \in {"claimed", "in_progress"}}

Free(n) ==
    {k \in DOMAIN goals[n] :
        /\ goals[n][k].owner = Unowned /\ goals[n][k].status = "proposed"
        /\ goals[n][k].gated => n \in Deployers}

\* The progress records of a goal that a host has, its own and replicated ones.
Progress(n, id) == UNION {{o} \X (1..known[n][o][id]) : o \in Hosts}
goal_attempts(n, id) == Cardinality(Progress(n, id))

\* advance, of the row with that id.
Advanced(n, id, status, owner) ==
    goals' = [goals EXCEPT ![n] = [k \in DOMAIN @ |->
        IF @[k].id = id THEN [@[k] EXCEPT !.status = status, !.owner = owner] ELSE @[k]]]

Then(n, step, id) == doing' = [doing EXCEPT ![n] = [step |-> step, id |-> id]]
Recorded(n, id) == known' = [known EXCEPT ![n][n][id] = @ + 1]

\* With its gates open: a tick that finds one shut does nothing here.
Ticks(n) == doing[n] = Idle

GiveUp(n) ==
    /\ Ticks(n) /\ Own(n) # {}
    /\ LET id == First(n, Own(n)).id
       IN /\ goal_attempts(n, id) >= MaxAttempts
          /\ Advanced(n, id, "failed", n) /\ Then(n, "note", id)
    /\ UNCHANGED <<known, tries, seeded, briefs, stops>>

Run(n) ==
    /\ Ticks(n) /\ Own(n) # {}
    /\ LET id == First(n, Own(n)).id
       IN /\ goal_attempts(n, id) < MaxAttempts
          /\ Advanced(n, id, "in_progress", n) /\ Then(n, "run", id)
          /\ tries' = [tries EXCEPT ![n][id] = @ + 1]
    /\ UNCHANGED <<known, seeded, briefs, stops>>

\* The agent answers for sure, or ran out of steps.
Answered(n, status) ==
    /\ doing[n].step = "run"
    /\ Advanced(n, doing[n].id, status, n) /\ Then(n, "note", doing[n].id)
    /\ UNCHANGED <<known, tries, seeded, briefs, stops>>

\* A bug to be noticed: a run that was refused, or found no model, leaves no record.
UnavailableUnseen(n) ==
    /\ doing[n].step = "run"
    /\ doing' = [doing EXCEPT ![n] = Idle]
    /\ UNCHANGED <<goals, known, tries, seeded, briefs, stops>>

\* The agent was refused or found no model.
Unavailable(n) ==
    /\ doing[n].step = "run"
    /\ Recorded(n, doing[n].id)
    /\ doing' = [doing EXCEPT ![n] = Idle]
    /\ UNCHANGED <<goals, tries, seeded, briefs, stops>>

\* A deploy is claimed too, and parked for a person.
Claim(n) ==
    /\ Ticks(n) /\ Own(n) = {} /\ Free(n) # {}
    /\ LET g == First(n, Free(n))
       IN /\ Advanced(n, g.id, "claimed", n)
          /\ Then(n, IF g.gated THEN "park" ELSE "note", g.id)
    /\ UNCHANGED <<known, tries, seeded, briefs, stops>>

Park(n) ==
    /\ doing[n].step = "park"
    /\ Advanced(n, doing[n].id, "awaiting_human", n) /\ Then(n, "note", doing[n].id)
    /\ UNCHANGED <<known, tries, seeded, briefs, stops>>

Note(n) ==
    /\ doing[n].step = "note"
    /\ Recorded(n, doing[n].id)
    /\ doing' = [doing EXCEPT ![n] = Idle]
    /\ UNCHANGED <<goals, tries, seeded, briefs, stops>>

Pursue(n) ==
    \/ GiveUp(n) \/ Run(n) \/ Unavailable(n) \/ Claim(n) \/ Park(n) \/ Note(n)
    \/ \E status \in {"done", "in_progress"} : Answered(n, status)

\* Of a brief, rows of ids that are not there: of one id the newest.
Missing(n, from) ==
    {k \in DOMAIN goals[from] :
        /\ \A j \in DOMAIN goals[n] : goals[n][j].id # goals[from][k].id
        /\ \A j \in DOMAIN goals[from] : goals[from][j].id = goals[from][k].id => j <= k}
NewestFirst(rows) ==
    {order \in [1..Cardinality(rows) -> rows] :
        \A i, j \in 1..Cardinality(rows) : i < j => order[i] > order[j]}
More(x, y) == IF x >= y THEN x ELSE y

\* A brief of one is merged by another, between its ticks' goals: the missing
\* rows, the newest first, and the records it has not.
MergeBrief(n, from) ==
    /\ n # from /\ doing[n] = Idle
    /\ \E order \in NewestFirst(Missing(n, from)) :
           goals' = [goals EXCEPT ![n] =
                        @ \o [i \in DOMAIN order |-> goals[from][order[i]]]]
    /\ known' = [known EXCEPT ![n] = [o \in Hosts |-> [i \in Ids |->
                    IF o = n THEN @[o][i] ELSE More(@[o][i], known[from][o][i])]]]
    /\ briefs < MaxBriefs /\ briefs' = briefs + 1
    /\ UNCHANGED <<doing, tries, seeded, stops>>

Stop(n) ==
    /\ doing[n] # Idle /\ stops < MaxStops /\ stops' = stops + 1
    /\ doing' = [doing EXCEPT ![n] = Idle]
    /\ UNCHANGED <<goals, known, tries, seeded, briefs>>

Next ==
    \E n \in Hosts :
        \/ Pursue(n) \/ Stop(n)
        \/ \E gated \in BOOLEAN : Seed(n, gated)
        \/ \E from \in Hosts : MergeBrief(n, from)

Spec == Init /\ [][Next]_vars

\* A node's loop ticks, and its gates come to stay open.
FairSpec == Spec /\ \A n \in Hosts : WF_vars(Pursue(n))

-----------------------------------------------------------------------------
(* Properties.                                                             *)

\* No goal burns the loop for ever, whatever the agent, the stops and
\* the briefs do: the record of the claim takes one of the attempts, and a
\* stop costs the record of a run (cycle/src/lib.rs, MAX_GOAL_ATTEMPTS).
RunsAreBounded ==
    \A n \in Hosts, id \in Ids : tries[n][id] < MaxAttempts + stops

\* What a node with open gates comes to: of the goals nobody else took, those
\* that need no person's hand are done or given up.
Pursued ==
    \A n \in Hosts : \A k \in DOMAIN goals[n] :
        LET g == goals[n][k]
        IN ~g.gated /\ g.owner \in {Unowned, n} => g.status \in {"done", "failed"}
=============================================================================
