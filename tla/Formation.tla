----------------------------- MODULE Formation ------------------------------
(***************************************************************************)
(* How nodes with no group find or found one (mesh/src/transport.rs,       *)
(* supervisor, auto_join_round, auto_form_round).  A seeker asks every     *)
(* host it can reach to admit it; if none does, it asks every host again   *)
(* who it is, and founds a group when its own id is lower than those of    *)
(* all the nodes it found without one.  A round is many requests, and the  *)
(* other nodes are in the middle of theirs.                                *)
(*                                                                         *)
(* A founder holds the group's secret and admits; another member passes a  *)
(* knock on to the nodes it can reach, and whichever founder answers first *)
(* admits.  Warrants to admit, denials and expiry are not modelled; every  *)
(* node is in reach of every other while it is up.                         *)
(***************************************************************************)
EXTENDS Naturals, FiniteSets

CONSTANTS
    Nodes,        \* numbered in the order of their ids
    Seekers,      \* those with auto_peer on
    MaxOutages    \* bound on the times a node goes down

FormationAssumption ==
    /\ Nodes \subseteq Nat \ {0} /\ Seekers \subseteq Nodes /\ MaxOutages \in Nat

VARIABLES
    up,           \* the nodes whose mesh gate is open and that serve
    group,        \* the founder of the group each node holds, or 0
    at,           \* where in its round each node is
    left,         \* the hosts it has still to ask
    ungrouped,    \* those it found without a group
    outages

vars == <<up, group, at, left, ungrouped, outages>>

FormationTypeOK ==
    /\ up \subseteq Nodes
    /\ group \in [Nodes -> Nodes \cup {0}]
    /\ at \in [Nodes -> {"waiting", "joining", "probing"}]
    /\ left \in [Nodes -> SUBSET Nodes] /\ ungrouped \in [Nodes -> SUBSET Nodes]
    /\ outages \in 0..MaxOutages

Init ==
    /\ up \in SUBSET Nodes
    /\ group = [n \in Nodes |-> 0]
    /\ at = [n \in Nodes |-> "waiting"]
    /\ left = [n \in Nodes |-> {}] /\ ungrouped = [n \in Nodes |-> {}]
    /\ outages = 0

Hosts(n) == Nodes \ {n}

CanAdmit(h) == h \in up /\ group[h] = h

\* Who may answer a knock at h: h itself, or the first of its peers that can.
Admitters(h) ==
    IF h \notin up \/ group[h] = 0 THEN {}
    ELSE IF CanAdmit(h) THEN {h} ELSE {f \in Nodes : CanAdmit(f)}

Asking(n, where) == n \in up /\ at[n] = where /\ group[n] = 0

BeginRound(n) ==
    /\ n \in Seekers /\ Asking(n, "waiting")
    /\ at' = [at EXCEPT ![n] = "joining"]
    /\ left' = [left EXCEPT ![n] = Hosts(n)]
    /\ UNCHANGED <<up, group, ungrouped, outages>>

\* request_join: the grant that comes back is the node's credential.
Admitted(n, h) ==
    /\ Asking(n, "joining") /\ h \in left[n]
    /\ \E f \in Admitters(h) : group' = [group EXCEPT ![n] = f]
    /\ at' = [at EXCEPT ![n] = "waiting"]
    /\ left' = [left EXCEPT ![n] = {}]
    /\ UNCHANGED <<up, ungrouped, outages>>

NotAdmitted(n, h) ==
    /\ Asking(n, "joining") /\ h \in left[n]
    /\ Admitters(h) = {}
    /\ left' = [left EXCEPT ![n] = @ \ {h}]
    /\ UNCHANGED <<up, group, at, ungrouped, outages>>

BeginProbe(n) ==
    /\ Asking(n, "joining") /\ left[n] = {}
    /\ at' = [at EXCEPT ![n] = "probing"]
    /\ left' = [left EXCEPT ![n] = Hosts(n)]
    /\ ungrouped' = [ungrouped EXCEPT ![n] = {}]
    /\ UNCHANGED <<up, group, outages>>

\* /mesh/hello says who answers, and in which group.
Probe(n, h) ==
    /\ Asking(n, "probing") /\ h \in left[n]
    /\ left' = [left EXCEPT ![n] = @ \ {h}]
    /\ ungrouped' = IF h \in up /\ group[h] = 0
                    THEN [ungrouped EXCEPT ![n] = @ \cup {h}] ELSE ungrouped
    /\ UNCHANGED <<up, group, at, outages>>

should_form(n) == ungrouped[n] # {} /\ \A p \in ungrouped[n] : n < p

\* A bug to be noticed: who founds no group in one round waits to be invited.
EndRoundForGood(n) ==
    /\ Asking(n, "probing") /\ left[n] = {}
    /\ should_form(n) /\ group' = [group EXCEPT ![n] = n]
    /\ at' = [at EXCEPT ![n] = "waiting"]
    /\ UNCHANGED <<up, left, ungrouped, outages>>

EndRound(n) ==
    /\ Asking(n, "probing") /\ left[n] = {}
    /\ group' = IF should_form(n) THEN [group EXCEPT ![n] = n] ELSE group
    /\ at' = [at EXCEPT ![n] = "waiting"]
    /\ UNCHANGED <<up, left, ungrouped, outages>>

Step(n) ==
    \/ BeginRound(n) \/ BeginProbe(n) \/ EndRound(n)
    \/ \E h \in Nodes : Admitted(n, h) \/ NotAdmitted(n, h) \/ Probe(n, h)

\* A node goes down, in a round or out of it, and is brought up again.
Down(n) ==
    /\ n \in up /\ outages < MaxOutages
    /\ up' = up \ {n} /\ outages' = outages + 1
    /\ at' = [at EXCEPT ![n] = "waiting"]
    /\ left' = [left EXCEPT ![n] = {}]
    /\ UNCHANGED <<group, ungrouped>>

Up(n) ==
    /\ n \in Nodes \ up
    /\ up' = up \cup {n}
    /\ UNCHANGED <<group, at, left, ungrouped, outages>>

Next == \E n \in Nodes : Step(n) \/ Down(n) \/ Up(n)

Spec == Init /\ [][Next]_vars

\* The supervisor's loop goes round; nobody has to bring a node up.
FairSpec == Spec /\ \A n \in Nodes : WF_vars(Step(n))

-----------------------------------------------------------------------------
(* Properties.                                                             *)

\* What nodes that stay in reach of each other come to: every one that seeks a
\* group has one, whoever went down in the middle of whose round (transport.rs,
\* should_form: "at worst nobody forms and the next round retries").
Grouped == \A n \in Seekers : group[n] # 0
=============================================================================
