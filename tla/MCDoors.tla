------------------------------- MODULE MCDoors -------------------------------
(* Two stories of a mesh.  In the first, two doors and one device.  What   *)
(* it may present: an introduction and an unnamed invite under a new name, *)
(* a voucher of a household member, and an introduction under that         *)
(* member's name, which is refused.  In the second, three nodes that have  *)
(* no group yet (Formation).                                               *)
EXTENDS Doors

CONSTANTS Stories, Nodes, Seekers, MaxOutages

VARIABLES story, up, group, at, left, ungrouped, outages

Present(class, handle, artifact) ==
    [class |-> class, handle |-> handle, artifact |-> artifact,
     named |-> FALSE, remote |-> FALSE]

MCEvidence == {Present("introduction", 1, 1), Present("invite", 1, 2),
               Present("voucher", 2, 3), Present("introduction", 2, 4)}

Form == INSTANCE Formation
ASSUME FormationOK == Form!FormationAssumption

forming == <<up, group, at, left, ungrouped, outages>>

\* Each story begins where the other has not: no door holds the device while
\* the nodes look for a group, and no node is up while the doors meet it.
MCInit ==
    /\ story \in Stories /\ Init /\ Form!Init
    /\ story = "device" => up = {}
    /\ story = "forming" => \A d \in Doors : ~Held(d)

MCNext ==
    \/ story = "device" /\ Next /\ UNCHANGED <<story, forming>>
    \/ story = "forming" /\ Form!Next /\ UNCHANGED <<story, vars>>

\* The fairness of each module, in its own story.
MCFairSpec ==
    /\ MCInit /\ [][MCNext]_<<vars, forming, story>>
    /\ SF_vars(story = "device" /\ Tick)
    /\ \A d \in Doors : /\ WF_vars(story = "device" /\ Purge(d))
                        /\ WF_vars(story = "device" /\ Absorb(d))
    /\ \A d, to \in Doors : d # to => SF_vars(story = "device" /\ Offer(d, to))
    /\ \A n \in Nodes : WF_forming(story = "forming" /\ Form!Step(n))

\* Once nobody goes down any more, the nodes end in a group (Formation), and
\* once people stop acting, two doors end with one record, without the visitors
\* nobody sees again (Doors).
MeshSettles ==
    <>[](story = "forming" => up = Nodes) =>
        <>[](/\ story = "device" => Agreed /\ Forgotten
             /\ story = "forming" => Form!Grouped)
=============================================================================
