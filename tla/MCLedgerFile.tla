---------------------------- MODULE MCLedgerFile ----------------------------
(* Two writers of one order.  The menu holds the opening, a valid and an   *)
(* overreaching generation, a verdict, a proposal, its declaration, a      *)
(* close, and a call made under another order's id, so every refusal of    *)
(* replay and of the door can be met.                                      *)
EXTENDS LedgerFile

MCPlan == <<"bench">>
MCLabels == {"state", "power"}
MCSurface == {"state"}

MCFitting == [refused |-> FALSE, surface |-> MCSurface, effects |-> MCSurface,
              lock |-> "stdlib", manifest |-> TRUE, roles |-> TRUE]
MCRefusal == [MCFitting EXCEPT !.refused = TRUE]
MCOutcomes == {MCFitting, MCRefusal,
               [MCFitting EXCEPT !.surface = {"state", "power"}],
               [MCFitting EXCEPT !.roles = FALSE]}

MCCalls == [kind : {"generate"}, iteration : 1..2, outcome : MCOutcomes]
           \cup {[kind |-> "open"],
                 [kind |-> "verdict", iteration |-> 1, rung |-> "bench",
                  pass |-> TRUE],
                 [kind |-> "propose", digest |-> "d1", reduced |-> FALSE],
                 [kind |-> "observe", digest |-> "d1"],
                 [kind |-> "close"]}

MCMenu == [order : {"order-1"}, call : MCCalls]
          \cup {[order |-> "order-2", call |-> [kind |-> "park"]]}
=============================================================================
