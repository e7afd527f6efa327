---------------------------- MODULE PartnerLedger ----------------------------
(***************************************************************************)
(* The authority ladder of a partner: request, grant, propose, observe and *)
(* invoke, and the threads of one daemon that serve them                   *)
(* (crates/mcp/src/grant.rs).  Network calls and the human's console acts  *)
(* run concurrently on one stream of partner acts.  The time a call goes   *)
(* by is read when it arrives.                                             *)
(*                                                                         *)
(* Requests, decisions, proposals and refusals check the stream and append *)
(* in two steps, with no lock; the append is one transaction, keyed for    *)
(* requests, proposals and transitions.  Revocations, observations and     *)
(* invocations hold the process-wide authority lock from before their      *)
(* first read until they answer, device I/O included.                      *)
(*                                                                         *)
(* A handle resolves to a grant of the principal or to nothing, so a call  *)
(* names the grant.  Audit rows of refusals change no view and are left    *)
(* out; so is the shape check of inputs, which refuses before any read.    *)
(***************************************************************************)
EXTENDS PartnerStream

CONSTANTS Threads,           \* calls in progress at a time
          Menu,              \* the calls that may arrive
          MaxOpenRequests, MaxOpenProposals,
          MinGrant, MaxGrant,   \* bounds on a grant's duration
          MaxInvokes,        \* the hourly rate a human gave
          Hour,
          Closable,          \* the gates the human opens and closes
          MaxTime,           \* bound on the clock
          MaxFaults          \* bound on crashes and failed writes

Gates == {"agent", "actuate", "surface"}

Calls ==
    [kind : {"request"}, principal : Principals, key : Keys,
     ops : SUBSET Operations, asked : Nat]
    \cup [kind : {"grant"}, id : Ids, ops : SUBSET Operations, expires : Nat]
    \cup [kind : {"decline", "revoke", "refuse"}, id : Ids]
    \cup [kind : {"propose", "invoke"}, id : Ids, principal : Principals,
          key : Keys, op : Operations]
    \cup [kind : {"observe"}, id : Ids, principal : Principals,
          key : {None}, op : {"observe"}]

ASSUME MenuAssumption == Menu \subseteq Calls
ASSUME TimeAssumption == MaxTime \in Nat /\ Hour \in Nat
ASSUME GateAssumption == Closable \subseteq Gates
ASSUME OpAssumption == "observe" \in Operations
ASSUME InvokeAssumption == \A c \in Menu : c.kind = "invoke" => c.op # "observe"
ASSUME NoneAssumption == None \notin Threads /\ None \notin Menu /\ None \notin EffectEvent
ASSUME FaultAssumption == MaxFaults \in Nat
ASSUME ThreadAssumption == IsFiniteSet(Threads) /\ Threads # {}
ASSUME CeilingAssumption ==
    MaxOpenRequests \in Nat /\ MaxOpenProposals \in Nat /\ MaxInvokes \in Nat

VARIABLES view,    \* the stream of partner acts
          lock,    \* who holds the authority lock
          pc,      \* where each thread is in its call
          call,    \* the call each thread serves
          now,     \* the time each call goes by
          held,    \* the reservation each thread has made
          clock,
          gates,   \* what the human has open: allow_agent, allow_actuate and
                   \* a surface that still matches what was granted
          acked,   \* grants whose revocation was acknowledged
          told,    \* answers given about effects
          ran,     \* effects whose device act was started
          proposed,  \* some call proposed, once
          faults

vars == <<view, lock, pc, call, now, held, clock, gates, acked, told, ran, proposed,
          faults>>

Locked == {"revoke", "observe", "invoke"}
InAct == {"reserved", "completed", "failed"}
Places == {"idle", "checking", "append", "expire", "locking", "locked",
           "admitted"} \cup InAct

TypeOK == /\ view \in Stream
          /\ lock \in Threads \cup {None}
          /\ pc \in [Threads -> Places]
          /\ call \in [Threads -> Menu \cup {None}]
          /\ now \in [Threads -> Nat]
          /\ held \in [Threads -> EffectEvent \cup {None}]
          /\ clock \in Nat
          /\ gates \subseteq Gates
          /\ acked \subseteq Ids
          /\ told \subseteq Ids \X {"ok", "refused", "unrecorded"}
          /\ ran \subseteq Ids
          /\ proposed \in BOOLEAN
          /\ faults \in Nat
          /\ \A t \in Threads :
                 /\ pc[t] = "idle" <=> call[t] = None
                 /\ pc[t] \in InAct <=> held[t] # None

-----------------------------------------------------------------------------
(* Where a call stands.                                                    *)

\* The thread answers, and drops the lock if it holds it.
Leave(t) == /\ pc' = [pc EXCEPT ![t] = "idle"]
            /\ call' = [call EXCEPT ![t] = None]
            /\ now' = [now EXCEPT ![t] = 0]
            /\ held' = [held EXCEPT ![t] = None]
            /\ lock' = IF lock = t THEN None ELSE lock

Goto(t, place) == /\ pc' = [pc EXCEPT ![t] = place]
                  /\ UNCHANGED <<lock, call, now, held>>

World == <<clock, gates, faults>>
History == <<acked, told, ran>>

At(t, place, kinds) == pc[t] = place /\ call[t] # None /\ call[t].kind \in kinds

-----------------------------------------------------------------------------
(* What the checks ask for, before anything is appended.                   *)

\* A bug to be noticed: the ceiling itself still passes.
RequestAtLimit(c) ==
    /\ OriginalRequest(view, c.principal, c.key) = {}
    /\ Loads(view)
    /\ Cardinality(OpenRequests(view, c.principal)) <= MaxOpenRequests

RequestPasses(c) ==
    /\ OriginalRequest(view, c.principal, c.key) = {}
    /\ Loads(view)
    /\ Cardinality(OpenRequests(view, c.principal)) < MaxOpenRequests

GrantPasses(c, at) ==
    /\ Loads(view)
    /\ c.id \notin view.decided
    /\ {"agent", "surface"} \subseteq gates
    /\ \E d \in MinGrant..MaxGrant : c.expires = at + d
    /\ c.ops # {}
    /\ \E r \in Named(view.requests, c.id) :
           c.ops \subseteq r.ops /\ c.expires <= at + r.asked

DeclinePasses(c) == Loads(view) /\ Named(view.requests, c.id) # {}

RefusePasses(c) == Loads(view) /\ Named(view.proposals, c.id) # {}

\* The grants of a handle that still stand in the stream, expired or not.
Standing(c) == {g \in Resolve(view, c.id, c.principal) : g.id \notin view.ended}

ProposeEnters(c) ==
    /\ "agent" \in gates
    /\ OriginalProposal(view, c.principal, c.key) = {}
    /\ Loads(view)
    /\ Cardinality(OpenProposals(view, c.principal)) < MaxOpenProposals

ProposePasses(c, at) ==
    /\ ProposeEnters(c)
    /\ \E g \in Standing(c) : at < g.expires /\ c.op \in g.ops

ProposeFindsExpired(c, at) ==
    ProposeEnters(c) /\ \E g \in Standing(c) : at >= g.expires

RevokePasses(c, at) ==
    /\ Loads(view)
    /\ \E g \in Named(view.grants, c.id) :
           g.id \notin view.ended /\ at < g.expires

Authorized(c, at) ==
    Loads(view) /\ \E g \in Standing(c) : at < g.expires /\ c.op \in g.ops

\* An act needs more than a read: the gate, the rate and a surface that
\* still carries the granted roles.
Admitted(c, at) ==
    /\ Authorized(c, at)
    /\ c.kind = "invoke" =>
           /\ {"actuate", "surface"} \subseteq gates
           /\ SpentInHour(view, c.id, at, Hour) < MaxInvokes

EffectFindsExpired(c, at) == Loads(view) /\ \E g \in Standing(c) : at >= g.expires

\* The reservation a retry of this invocation finds, whatever it now asks.
Original(c) == IF c.kind = "invoke"
               THEN OriginalInvoke(view, c.principal, c.id, c.key)
               ELSE {}

Passes(c, at) == \/ c.kind = "request" /\ RequestPasses(c)
                 \/ c.kind = "grant" /\ GrantPasses(c, at)
                 \/ c.kind = "decline" /\ DeclinePasses(c)
                 \/ c.kind = "propose" /\ ProposePasses(c, at)
                 \/ c.kind = "refuse" /\ RefusePasses(c)

-----------------------------------------------------------------------------
(* A call arrives, and the calls that take no lock.                        *)

Init == /\ view = Empty
        /\ lock = None
        /\ pc = [t \in Threads |-> "idle"]
        /\ call = [t \in Threads |-> None]
        /\ now = [t \in Threads |-> 0]
        /\ held = [t \in Threads |-> None]
        /\ clock = 0
        /\ gates = Gates
        /\ acked = {} /\ told = {} /\ ran = {}
        /\ proposed = FALSE
        /\ faults = 0

Start(t) ==
    /\ pc[t] = "idle"
    /\ \E c \in Menu :
           /\ call' = [call EXCEPT ![t] = c]
           /\ pc' = [pc EXCEPT ![t] = IF c.kind \in Locked THEN "locking"
                                                          ELSE "checking"]
    /\ now' = [now EXCEPT ![t] = clock]
    /\ UNCHANGED <<view, lock, held, World, History>>

Pass(t) ==
    /\ pc[t] = "checking"
    /\ Passes(call[t], now[t])
    /\ Goto(t, "append")
    /\ UNCHANGED <<view, World, History>>

\* A refusal, or the replay of a call that was served before.
Answer(t) ==
    /\ pc[t] = "checking"
    /\ ~Passes(call[t], now[t])
    /\ ~(call[t].kind = "propose" /\ ProposeFindsExpired(call[t], now[t]))
    /\ Leave(t)
    /\ UNCHANGED <<view, World, History>>

\* A bug to be noticed: the key was looked up by the check, and is not again.
RequestUnkeyed(t) ==
    /\ At(t, "append", {"request"})
    /\ Room(view.requests)
    /\ LET c == call[t] IN
       view' = AppendRequest(view, [id |-> Fresh(view.requests),
                                    principal |-> c.principal, key |-> c.key,
                                    ops |-> c.ops, asked |-> c.asked])
    /\ Leave(t)
    /\ UNCHANGED <<World, History>>

Request(t) ==
    /\ At(t, "append", {"request"})
    /\ Room(view.requests)
    /\ LET c == call[t] IN
       view' = IF OriginalRequest(view, c.principal, c.key) # {} THEN view
               ELSE AppendRequest(view, [id |-> Fresh(view.requests),
                                         principal |-> c.principal, key |-> c.key,
                                         ops |-> c.ops, asked |-> c.asked])
    /\ Leave(t)
    /\ UNCHANGED <<World, History>>

\* The principal of the request decided on.
Asker(id) == CHOOSE p \in Principals : OwnRequest(view, id, p)

\* A bug to be noticed: a plain append, with no transition key.
GrantUnkeyed(t) ==
    /\ At(t, "append", {"grant"})
    /\ LET c == call[t] IN
       view' = AppendGrant(view, [id |-> c.id, principal |-> Asker(c.id),
                                  ops |-> c.ops, expires |-> c.expires])
    /\ Leave(t)
    /\ UNCHANGED <<World, History>>

Grant(t) ==
    /\ At(t, "append", {"grant"})
    /\ LET c == call[t] IN
       view' = IF c.id \in view.decided THEN view
               ELSE AppendGrant(view, [id |-> c.id, principal |-> Asker(c.id),
                                       ops |-> c.ops, expires |-> c.expires])
    /\ Leave(t)
    /\ UNCHANGED <<World, History>>

Decline(t) ==
    /\ At(t, "append", {"decline"})
    /\ LET c == call[t] IN
       view' = IF c.id \in view.decided THEN view
               ELSE AppendDecline(view, c.id, Asker(c.id))
    /\ Leave(t)
    /\ UNCHANGED <<World, History>>

Propose(t) ==
    /\ At(t, "append", {"propose"})
    /\ Room(view.proposals)
    /\ LET c == call[t] IN
       view' = IF OriginalProposal(view, c.principal, c.key) # {} THEN view
               ELSE AppendProposal(view, [id |-> Fresh(view.proposals),
                                          principal |-> c.principal, key |-> c.key,
                                          grant |-> c.id, op |-> c.op])
    /\ Leave(t)
    /\ UNCHANGED <<World, History>>

RefuseProposal(t) ==
    /\ At(t, "append", {"refuse"})
    /\ view' = IF call[t].id \in view.closed THEN view
               ELSE AppendRefusal(view, call[t].id)
    /\ Leave(t)
    /\ UNCHANGED <<World, History>>

\* A proposal, without the lock, or an effect under it, meets an expired
\* grant and records the expiry before it refuses.
FindExpired(t) ==
    /\ \/ /\ At(t, "checking", {"propose"})
          /\ ProposeFindsExpired(call[t], now[t])
       \/ /\ At(t, "locked", {"observe", "invoke"})
          /\ Original(call[t]) = {}
          /\ EffectFindsExpired(call[t], now[t])
    /\ Goto(t, "expire")
    /\ UNCHANGED <<view, World, History>>

\* Revocation and expiry share one transition key: the first one stands.
End(id) == IF id \in view.ended THEN view ELSE AppendEnd(view, id)

Expire(t) ==
    /\ pc[t] = "expire"
    /\ view' = End(call[t].id)
    /\ Leave(t)
    /\ UNCHANGED <<World, History>>

-----------------------------------------------------------------------------
(* The calls that hold the authority lock.                                 *)

\* A bug to be noticed: the guard is not kept.
LockDropped(t) ==
    /\ pc[t] = "locking"
    /\ pc' = [pc EXCEPT ![t] = "locked"]
    /\ UNCHANGED <<view, lock, call, now, held, World, History>>

Lock(t) ==
    /\ pc[t] = "locking"
    /\ lock = None
    /\ lock' = t
    /\ pc' = [pc EXCEPT ![t] = "locked"]
    /\ UNCHANGED <<view, call, now, held, World, History>>

RevokeCheck(t) ==
    /\ At(t, "locked", {"revoke"})
    /\ RevokePasses(call[t], now[t])
    /\ Goto(t, "append")
    /\ UNCHANGED <<view, World, History>>

\* Acknowledged only when this call ended the grant.
Revoke(t) ==
    /\ At(t, "append", {"revoke"})
    /\ view' = End(call[t].id)
    /\ acked' = IF call[t].id \in view.ended THEN acked
                ELSE acked \cup {call[t].id}
    /\ Leave(t)
    /\ UNCHANGED <<World, told, ran>>

\* A bug to be noticed: a reservation is taken for a success.
RecordedAssumed(e) == IF <<e.id, "failed">> \in view.settled THEN "refused"
                      ELSE "ok"

\* What the stream says of an effect, once nobody is running it.
Recorded(e) == IF <<e.id, "completed">> \in view.settled THEN "ok"
               ELSE IF <<e.id, "failed">> \in view.settled THEN "refused"
               ELSE "unrecorded"

\* An exact retry answers from the settlement; a changed one is a conflict,
\* and a stream that does not load answers neither.
Replay(t) ==
    /\ At(t, "locked", {"invoke"})
    /\ \E e \in Original(call[t]) :
           told' = IF e.op = call[t].op /\ Loads(view)
                   THEN told \cup {<<e.id, Recorded(e)>>} ELSE told
    /\ Leave(t)
    /\ UNCHANGED <<view, World, acked, ran>>

Admit(t) ==
    /\ At(t, "locked", {"observe", "invoke"})
    /\ Original(call[t]) = {}
    /\ Admitted(call[t], now[t])
    /\ Goto(t, "admitted")
    /\ UNCHANGED <<view, World, History>>

RefuseLocked(t) ==
    /\ pc[t] = "locked"
    /\ call[t].kind = "revoke" => ~RevokePasses(call[t], now[t])
    /\ call[t].kind # "revoke" => /\ Original(call[t]) = {}
                                  /\ ~Admitted(call[t], now[t])
                                  /\ ~EffectFindsExpired(call[t], now[t])
    /\ Leave(t)
    /\ UNCHANGED <<view, World, History>>

\* The reservation is durable before the device is touched.  Its append is
\* keyed too; under the lock no other reservation can have come between.
Reserve(t) ==
    /\ pc[t] = "admitted"
    /\ Room(view.effects)
    /\ LET c == call[t]
           e == [id |-> Fresh(view.effects), principal |-> c.principal,
                 key |-> c.key, grant |-> c.id, op |-> c.op, at |-> now[t]]
       IN /\ view' = AppendReservation(view, e)
          /\ held' = [held EXCEPT ![t] = e]
    /\ pc' = [pc EXCEPT ![t] = "reserved"]
    /\ UNCHANGED <<lock, call, now, World, History>>

\* The executor looks at the gate itself before it runs anything; a device
\* may fail after it was started.
Execute(t) ==
    /\ pc[t] = "reserved"
    /\ \/ /\ "actuate" \in gates
          /\ \E outcome \in Settlements : Goto(t, outcome)
          /\ ran' = ran \cup {held[t].id}
       \/ /\ Goto(t, "failed")
          /\ ran' = ran
    /\ UNCHANGED <<view, World, acked, told>>

Settle(t) ==
    /\ pc[t] \in Settlements
    /\ view' = AppendSettlement(view, held[t], pc[t])
    /\ told' = told \cup {<<held[t].id, IF pc[t] = "completed" THEN "ok"
                                                           ELSE "refused">>}
    /\ Leave(t)
    /\ UNCHANGED <<World, acked, ran>>

-----------------------------------------------------------------------------
(* Failures and the world.                                                 *)

Fault == faults < MaxFaults /\ faults' = faults + 1

\* An append fails, or the executor panics after it may have started the
\* device: the call ends, the lock is released (a poisoned lock is taken
\* over), and a reservation stands unsettled.
Fail(t) ==
    /\ Fault
    /\ pc[t] \in {"append", "expire", "admitted"} \cup InAct
    /\ \/ ran' = ran
       \/ /\ pc[t] = "reserved" /\ "actuate" \in gates
          /\ ran' = ran \cup {held[t].id}
    /\ Leave(t)
    /\ UNCHANGED <<view, clock, gates, acked, told>>

\* The daemon dies and is started again: calls are lost, the stream stays.
Crash ==
    /\ Fault
    /\ pc' = [t \in Threads |-> "idle"]
    /\ call' = [t \in Threads |-> None]
    /\ now' = [t \in Threads |-> 0]
    /\ held' = [t \in Threads |-> None]
    /\ lock' = None
    /\ UNCHANGED <<view, clock, gates, History>>

Tick == /\ clock < MaxTime
        /\ clock' = clock + 1
        /\ UNCHANGED <<view, lock, pc, call, now, held, gates, faults, History>>

SetGate(g) == /\ gates' = IF g \in gates THEN gates \ {g} ELSE gates \cup {g}
              /\ UNCHANGED <<view, lock, pc, call, now, held, clock, faults, History>>

Step(t) == \/ Pass(t) \/ Answer(t) \/ Request(t) \/ Grant(t) \/ Decline(t)
           \/ Propose(t) \/ RefuseProposal(t) \/ FindExpired(t) \/ Expire(t)
           \/ Lock(t) \/ RevokeCheck(t) \/ Revoke(t) \/ Replay(t) \/ Admit(t)
           \/ RefuseLocked(t) \/ Reserve(t) \/ Execute(t) \/ Settle(t)

Act == \/ \E t \in Threads : Start(t) \/ Step(t) \/ Fail(t)
       \/ Crash \/ Tick
       \/ \E g \in Closable : SetGate(g)

Proposes == \E t \in Threads : pc[t] # "idle" /\ call[t].kind = "propose"

Next == Act /\ proposed' = (proposed \/ Proposes')

Spec == Init /\ [][Next]_vars

-----------------------------------------------------------------------------
(* Properties.                                                             *)

\* What is written is a history the module accepts: a later load never fails
\* on rows its own calls appended (partner_act.rs, validate_sequence).
StreamLoads == Loads(view)

\* A proposal that races a revocation breaks that promise; until somebody
\* proposes nothing does, though requests and decisions are checked and
\* appended without the lock too (grant.rs, append_keyed).
LoadsUnproposed == ~proposed => StreamLoads

\* The acknowledgement fence (grant.rs, invoke): once a revocation was
\* acknowledged no act under that grant begins or is still in flight.
Fence == \A t \in Threads : pc[t] \in InAct => held[t].grant \notin acked

\* An invocation key reaches the device at most once, whatever retries,
\* races, failed settlements and restarts come between (grant.rs, invoke).
RunsOnce ==
    \A e, f \in view.effects :
        /\ e.id \in ran /\ f.id \in ran
        /\ e.op # "observe" /\ f.op # "observe"
        /\ <<e.principal, e.grant, e.key>> = <<f.principal, f.grant, f.key>>
        => e = f

\* A caller told that its act ran, or did not, is told what the stream has
\* recorded for good; one told that nothing is recorded is never
\* contradicted later (grant.rs, replay_outcome).
AnswersAreFinal ==
    \A answer \in told :
        LET id == answer[1] IN
        /\ answer[2] = "ok" =>
               id \in ran /\ <<id, "completed">> \in view.settled
        /\ answer[2] = "refused" => <<id, "failed">> \in view.settled
        /\ answer[2] = "unrecorded" =>
               \A o \in Settlements : <<id, o>> \notin view.settled

\* No hour, whichever second it starts at, holds more invocations of a grant
\* than the human allowed (grant.rs, invokes_in_last_hour), though calls
\* reach the lock in another order than they arrived in.
RateBound ==
    \A g \in view.grants, from \in 0..MaxTime :
        Cardinality({e \in view.effects :
                         /\ e.grant = g.id /\ e.op # "observe"
                         /\ from <= e.at /\ e.at < from + Hour}) <= MaxInvokes

\* The ceilings on what a partner leaves open are checked before the append,
\* so calls in progress together may overshoot, each by one (grant.rs,
\* request_grant and propose).
OpenIsBounded ==
    \A p \in Principals :
        /\ Cardinality(OpenRequests(view, p))
               < MaxOpenRequests + Cardinality(Threads)
        /\ Cardinality(OpenProposals(view, p))
               < MaxOpenProposals + Cardinality(Threads)

\* A retried or raced request or proposal is stored once under its key
\* (partner_act.rs, append_idempotent).
StoredOnce ==
    /\ \A a, b \in view.requests :
           a.principal = b.principal /\ a.key = b.key => a = b
    /\ \A a, b \in view.proposals :
           a.principal = b.principal /\ a.key = b.key => a = b
=============================================================================
