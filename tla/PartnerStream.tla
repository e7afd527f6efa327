---------------------------- MODULE PartnerStream ----------------------------
(***************************************************************************)
(* The append-only stream of partner acts (crates/mcp/src/partner_act.rs): *)
(* what `validate_sequence` accepts, and the views grant.rs folds from it. *)
(* Every load of the stream validates all of it, so one event that could   *)
(* not follow the ones before makes every later load fail; history says    *)
(* whether one is there.                                                   *)
(*                                                                         *)
(* A request is decided at most once, so a grant carries its request's id. *)
(***************************************************************************)
EXTENDS Naturals, FiniteSets

CONSTANTS Ids,         \* ids of requests, proposals and effects
          Principals,  \* registered partners
          Keys,        \* idempotency keys a partner may choose
          Operations,  \* operations with their parameters; "observe" is one
          None

\* What a call asks for is compared by its hash: a request's is its
\* operations and duration, a proposal's its grant and operation, an
\* invocation's its operation.  Free text is left out.
RequestEvent == [id : Ids, principal : Principals, key : Keys,
                 ops : SUBSET Operations, asked : Nat]
GrantEvent == [id : Ids, principal : Principals, ops : SUBSET Operations,
               expires : Nat]
ProposalEvent == [id : Ids, principal : Principals, key : Keys,
                  grant : Ids, op : Operations]
EffectEvent == [id : Ids, principal : Principals, key : Keys \cup {None},
                grant : Ids, op : Operations, at : Nat]

Settlements == {"completed", "failed"}

Stream == [history : {"legal", "broken"},
           requests : SUBSET RequestEvent, decided : SUBSET Ids,
           grants : SUBSET GrantEvent, ended : SUBSET Ids,
           proposals : SUBSET ProposalEvent, closed : SUBSET Ids,
           effects : SUBSET EffectEvent,
           settled : SUBSET (Ids \X Settlements)]

Empty == [history |-> "legal", requests |-> {}, decided |-> {}, grants |-> {},
          ended |-> {}, proposals |-> {}, closed |-> {}, effects |-> {},
          settled |-> {}]

Named(records, id) == {r \in records : r.id = id}
Fresh(records) == CHOOSE id \in Ids : Named(records, id) = {}
Room(records) == \E id \in Ids : Named(records, id) = {}

-----------------------------------------------------------------------------
(* Appending.  The row is written whatever the stream holds; what it does  *)
(* to later loads is the legality, one definition per arm of               *)
(* `validate_sequence`.                                                    *)

Written(s, legal) == IF legal THEN s.history ELSE "broken"

\* Every row so far could follow the ones before it.
Loads(s) == s.history = "legal"

AppendRequest(s, r) ==
    [s EXCEPT !.history = Written(s, Named(s.requests, r.id) = {}),
              !.requests = @ \cup {r}]

OwnRequest(s, id, p) == \E r \in s.requests : r.id = id /\ r.principal = p

AppendGrant(s, g) ==
    [s EXCEPT !.history = Written(s, /\ OwnRequest(s, g.id, g.principal)
                                     /\ g.id \notin s.decided
                                     /\ Named(s.grants, g.id) = {}),
              !.grants = @ \cup {g},
              !.decided = @ \cup {g.id}]

AppendDecline(s, id, p) ==
    [s EXCEPT !.history = Written(s, OwnRequest(s, id, p) /\ id \notin s.decided),
              !.decided = @ \cup {id}]

\* Revocation and expiry.
AppendEnd(s, id) ==
    [s EXCEPT !.history = Written(s, Named(s.grants, id) # {} /\ id \notin s.ended),
              !.ended = @ \cup {id}]

\* The grant exists, belongs to the principal, and has not ended.
Live(s, id, p) == /\ \E g \in s.grants : g.id = id /\ g.principal = p
                  /\ id \notin s.ended

AppendProposal(s, p) ==
    [s EXCEPT !.history = Written(s, /\ Live(s, p.grant, p.principal)
                                     /\ Named(s.proposals, p.id) = {}),
              !.proposals = @ \cup {p}]

AppendRefusal(s, id) ==
    [s EXCEPT !.history = Written(s, Named(s.proposals, id) # {} /\ id \notin s.closed),
              !.closed = @ \cup {id}]

AppendReservation(s, e) ==
    [s EXCEPT !.history = Written(s, /\ Live(s, e.grant, e.principal)
                                     /\ Named(s.effects, e.id) = {}),
              !.effects = @ \cup {e}]

\* No liveness is asked of a settlement: the act already ran.
AppendSettlement(s, e, outcome) ==
    [s EXCEPT !.history = Written(s, /\ e \in s.effects
                                     /\ \A o \in Settlements :
                                            <<e.id, o>> \notin s.settled),
              !.settled = @ \cup {<<e.id, outcome>>}]

-----------------------------------------------------------------------------
(* The folds grant.rs reads.                                               *)

OpenRequests(s, p) == {r \in s.requests : r.principal = p /\ r.id \notin s.decided}
OpenProposals(s, p) == {x \in s.proposals : x.principal = p /\ x.id \notin s.closed}

\* The grants a handle of this principal may resolve to.
Resolve(s, id, p) == {g \in s.grants : g.id = id /\ g.principal = p}

\* The first row under an idempotency key.
OriginalRequest(s, p, k) == {r \in s.requests : r.principal = p /\ r.key = k}
OriginalProposal(s, p, k) == {x \in s.proposals : x.principal = p /\ x.key = k}
\* A bug to be noticed: an unsettled reservation does not count as used.
OriginalSettled(s, p, id, k) ==
    {e \in s.effects : /\ e.principal = p /\ e.grant = id
                       /\ e.key = k /\ e.op # "observe"
                       /\ \E o \in Settlements : <<e.id, o>> \in s.settled}

OriginalInvoke(s, p, id, k) ==
    {e \in s.effects : /\ e.principal = p /\ e.grant = id
                       /\ e.key = k /\ e.op # "observe"}

\* A bug to be noticed: a call that arrived earlier than one already served
\* does not see it.
SpentUntil(s, id, now, hour) ==
    Cardinality({e \in s.effects : /\ e.grant = id /\ e.op # "observe"
                                   /\ e.at <= now /\ now < e.at + hour})

\* Invocations of a grant in the hour before now.
SpentInHour(s, id, now, hour) ==
    Cardinality({e \in s.effects :
                     e.grant = id /\ e.op # "observe" /\ now < e.at + hour})
=============================================================================
