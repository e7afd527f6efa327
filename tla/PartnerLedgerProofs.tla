------------------------- MODULE PartnerLedgerProofs -------------------------
(***************************************************************************)
(* Proofs about the authority ladder, for any number of concurrent calls,  *)
(* any menu, and any bounds.  Types first, then who holds the lock; from   *)
(* these the fence, the single run of a key and the finality of answers,   *)
(* and, where nobody proposes, that the stream always loads.               *)
(***************************************************************************)
EXTENDS PartnerLedger, TLAPS

-----------------------------------------------------------------------------
(* Calls and appends.                                                      *)

\* A call of the menu carries the fields its handler reads, and is no None.
LEMMA CallFields ==
    ASSUME NEW c \in Menu
    PROVE  /\ c # None
           /\ c.kind \in {"request", "grant", "decline", "revoke", "refuse",
                          "propose", "invoke", "observe"}
           /\ c.kind # "request" => c.id \in Ids
           /\ c.kind \in {"request", "propose", "invoke", "observe"} =>
                  c.principal \in Principals
           /\ c.kind \in {"request", "propose", "invoke"} => c.key \in Keys
           /\ c.kind = "observe" => c.key = None /\ c.op = "observe"
           /\ c.kind = "request" => c.ops \in SUBSET Operations /\ c.asked \in Nat
           /\ c.kind = "grant" => c.ops \in SUBSET Operations /\ c.expires \in Nat
           /\ c.kind \in {"propose", "invoke", "observe"} => c.op \in Operations
           /\ c.kind = "invoke" => c.op # "observe"
BY MenuAssumption, NoneAssumption, OpAssumption, InvokeAssumption DEF Calls

\* What appending each kind of row leaves of the stream (partner_act.rs,
\* validate_sequence): first a CapabilityRequested row.
LEMMA RequestAppends ==
    ASSUME NEW s \in Stream, NEW r \in RequestEvent, NEW n, n = AppendRequest(s, r)
    PROVE  /\ n \in Stream
           /\ n.requests = s.requests \cup {r}
           /\ n.decided = s.decided
           /\ n.grants = s.grants
           /\ n.ended = s.ended
           /\ n.proposals = s.proposals
           /\ n.closed = s.closed
           /\ n.effects = s.effects
           /\ n.settled = s.settled
           /\ n.history = IF Named(s.requests, r.id) = {}
                          THEN s.history ELSE "broken"
<1>1. PICK h : h = IF Named(s.requests, r.id) = {}
                  THEN s.history ELSE "broken"
  OBVIOUS
<1>2. PICK requests \in SUBSET RequestEvent : requests = s.requests \cup {r}
  BY DEF Stream
<1>3. n = [s EXCEPT !.history = h, !.requests = requests]
  BY <1>1, <1>2, Zenon DEF AppendRequest, Written
<1>4. /\ h \in {"legal", "broken"}
      /\ n.history = h
      /\ n.requests = requests
      /\ n.decided = s.decided
      /\ n.grants = s.grants
      /\ n.ended = s.ended
      /\ n.proposals = s.proposals
      /\ n.closed = s.closed
      /\ n.effects = s.effects
      /\ n.settled = s.settled
  BY <1>1, <1>3 DEF Stream
<1>5. n \in Stream
  BY <1>3, <1>4 DEF Stream
<1>. QED  BY <1>1, <1>2, <1>4, <1>5

\* A GrantIssued row.
LEMMA GrantAppends ==
    ASSUME NEW s \in Stream, NEW g \in GrantEvent, NEW n, n = AppendGrant(s, g)
    PROVE  /\ n \in Stream
           /\ n.requests = s.requests
           /\ n.decided = s.decided \cup {g.id}
           /\ n.grants = s.grants \cup {g}
           /\ n.ended = s.ended
           /\ n.proposals = s.proposals
           /\ n.closed = s.closed
           /\ n.effects = s.effects
           /\ n.settled = s.settled
           /\ n.history = IF /\ OwnRequest(s, g.id, g.principal)
                                /\ g.id \notin s.decided
                                /\ Named(s.grants, g.id) = {}
                          THEN s.history ELSE "broken"
<1>1. PICK h : h = IF /\ OwnRequest(s, g.id, g.principal)
                                /\ g.id \notin s.decided
                                /\ Named(s.grants, g.id) = {}
                  THEN s.history ELSE "broken"
  OBVIOUS
<1>2. PICK grants \in SUBSET GrantEvent : grants = s.grants \cup {g}
  BY DEF Stream, GrantEvent
<1>3. PICK decided \in SUBSET Ids : decided = s.decided \cup {g.id}
  BY DEF Stream, GrantEvent
<1>4. n = [s EXCEPT !.history = h, !.grants = grants, !.decided = decided]
  BY <1>1, <1>2, <1>3, Zenon DEF AppendGrant, Written
<1>5. /\ h \in {"legal", "broken"}
      /\ n.history = h
      /\ n.requests = s.requests
      /\ n.decided = decided
      /\ n.grants = grants
      /\ n.ended = s.ended
      /\ n.proposals = s.proposals
      /\ n.closed = s.closed
      /\ n.effects = s.effects
      /\ n.settled = s.settled
  BY <1>1, <1>4 DEF Stream
<1>6. n \in Stream
  BY <1>4, <1>5 DEF Stream
<1>. QED  BY <1>1, <1>2, <1>3, <1>5, <1>6

\* A RequestDeclined row.
LEMMA DeclineAppends ==
    ASSUME NEW s \in Stream, NEW id \in Ids, NEW p \in Principals, NEW n, n = AppendDecline(s, id, p)
    PROVE  /\ n \in Stream
           /\ n.requests = s.requests
           /\ n.decided = s.decided \cup {id}
           /\ n.grants = s.grants
           /\ n.ended = s.ended
           /\ n.proposals = s.proposals
           /\ n.closed = s.closed
           /\ n.effects = s.effects
           /\ n.settled = s.settled
           /\ n.history = IF OwnRequest(s, id, p) /\ id \notin s.decided
                          THEN s.history ELSE "broken"
<1>1. PICK h : h = IF OwnRequest(s, id, p) /\ id \notin s.decided
                  THEN s.history ELSE "broken"
  OBVIOUS
<1>2. PICK decided \in SUBSET Ids : decided = s.decided \cup {id}
  BY DEF Stream
<1>3. n = [s EXCEPT !.history = h, !.decided = decided]
  BY <1>1, <1>2, Zenon DEF AppendDecline, Written
<1>4. /\ h \in {"legal", "broken"}
      /\ n.history = h
      /\ n.requests = s.requests
      /\ n.decided = decided
      /\ n.grants = s.grants
      /\ n.ended = s.ended
      /\ n.proposals = s.proposals
      /\ n.closed = s.closed
      /\ n.effects = s.effects
      /\ n.settled = s.settled
  BY <1>1, <1>3 DEF Stream
<1>5. n \in Stream
  BY <1>3, <1>4 DEF Stream
<1>. QED  BY <1>1, <1>2, <1>4, <1>5

\* A GrantRevoked or GrantExpired row.
LEMMA EndAppends ==
    ASSUME NEW s \in Stream, NEW id \in Ids, NEW n, n = AppendEnd(s, id)
    PROVE  /\ n \in Stream
           /\ n.requests = s.requests
           /\ n.decided = s.decided
           /\ n.grants = s.grants
           /\ n.ended = s.ended \cup {id}
           /\ n.proposals = s.proposals
           /\ n.closed = s.closed
           /\ n.effects = s.effects
           /\ n.settled = s.settled
           /\ n.history = IF Named(s.grants, id) # {} /\ id \notin s.ended
                          THEN s.history ELSE "broken"
<1>1. PICK h : h = IF Named(s.grants, id) # {} /\ id \notin s.ended
                  THEN s.history ELSE "broken"
  OBVIOUS
<1>2. PICK ended \in SUBSET Ids : ended = s.ended \cup {id}
  BY DEF Stream
<1>3. n = [s EXCEPT !.history = h, !.ended = ended]
  BY <1>1, <1>2, Zenon DEF AppendEnd, Written
<1>4. /\ h \in {"legal", "broken"}
      /\ n.history = h
      /\ n.requests = s.requests
      /\ n.decided = s.decided
      /\ n.grants = s.grants
      /\ n.ended = ended
      /\ n.proposals = s.proposals
      /\ n.closed = s.closed
      /\ n.effects = s.effects
      /\ n.settled = s.settled
  BY <1>1, <1>3 DEF Stream
<1>5. n \in Stream
  BY <1>3, <1>4 DEF Stream
<1>. QED  BY <1>1, <1>2, <1>4, <1>5

\* A ProposalSubmitted row.
LEMMA ProposalAppends ==
    ASSUME NEW s \in Stream, NEW p \in ProposalEvent, NEW n, n = AppendProposal(s, p)
    PROVE  /\ n \in Stream
           /\ n.requests = s.requests
           /\ n.decided = s.decided
           /\ n.grants = s.grants
           /\ n.ended = s.ended
           /\ n.proposals = s.proposals \cup {p}
           /\ n.closed = s.closed
           /\ n.effects = s.effects
           /\ n.settled = s.settled
           /\ n.history = IF /\ Live(s, p.grant, p.principal)
                                /\ Named(s.proposals, p.id) = {}
                          THEN s.history ELSE "broken"
<1>1. PICK h : h = IF /\ Live(s, p.grant, p.principal)
                                /\ Named(s.proposals, p.id) = {}
                  THEN s.history ELSE "broken"
  OBVIOUS
<1>2. PICK proposals \in SUBSET ProposalEvent : proposals = s.proposals \cup {p}
  BY DEF Stream
<1>3. n = [s EXCEPT !.history = h, !.proposals = proposals]
  BY <1>1, <1>2, Zenon DEF AppendProposal, Written
<1>4. /\ h \in {"legal", "broken"}
      /\ n.history = h
      /\ n.requests = s.requests
      /\ n.decided = s.decided
      /\ n.grants = s.grants
      /\ n.ended = s.ended
      /\ n.proposals = proposals
      /\ n.closed = s.closed
      /\ n.effects = s.effects
      /\ n.settled = s.settled
  BY <1>1, <1>3 DEF Stream
<1>5. n \in Stream
  BY <1>3, <1>4 DEF Stream
<1>. QED  BY <1>1, <1>2, <1>4, <1>5

\* A ProposalRefused row.
LEMMA RefusalAppends ==
    ASSUME NEW s \in Stream, NEW id \in Ids, NEW n, n = AppendRefusal(s, id)
    PROVE  /\ n \in Stream
           /\ n.requests = s.requests
           /\ n.decided = s.decided
           /\ n.grants = s.grants
           /\ n.ended = s.ended
           /\ n.proposals = s.proposals
           /\ n.closed = s.closed \cup {id}
           /\ n.effects = s.effects
           /\ n.settled = s.settled
           /\ n.history = IF Named(s.proposals, id) # {} /\ id \notin s.closed
                          THEN s.history ELSE "broken"
<1>1. PICK h : h = IF Named(s.proposals, id) # {} /\ id \notin s.closed
                  THEN s.history ELSE "broken"
  OBVIOUS
<1>2. PICK closed \in SUBSET Ids : closed = s.closed \cup {id}
  BY DEF Stream
<1>3. n = [s EXCEPT !.history = h, !.closed = closed]
  BY <1>1, <1>2, Zenon DEF AppendRefusal, Written
<1>4. /\ h \in {"legal", "broken"}
      /\ n.history = h
      /\ n.requests = s.requests
      /\ n.decided = s.decided
      /\ n.grants = s.grants
      /\ n.ended = s.ended
      /\ n.proposals = s.proposals
      /\ n.closed = closed
      /\ n.effects = s.effects
      /\ n.settled = s.settled
  BY <1>1, <1>3 DEF Stream
<1>5. n \in Stream
  BY <1>3, <1>4 DEF Stream
<1>. QED  BY <1>1, <1>2, <1>4, <1>5

\* An EffectReserved row.
LEMMA ReservationAppends ==
    ASSUME NEW s \in Stream, NEW e \in EffectEvent, NEW n, n = AppendReservation(s, e)
    PROVE  /\ n \in Stream
           /\ n.requests = s.requests
           /\ n.decided = s.decided
           /\ n.grants = s.grants
           /\ n.ended = s.ended
           /\ n.proposals = s.proposals
           /\ n.closed = s.closed
           /\ n.effects = s.effects \cup {e}
           /\ n.settled = s.settled
           /\ n.history = IF /\ Live(s, e.grant, e.principal)
                                /\ Named(s.effects, e.id) = {}
                          THEN s.history ELSE "broken"
<1>1. PICK h : h = IF /\ Live(s, e.grant, e.principal)
                                /\ Named(s.effects, e.id) = {}
                  THEN s.history ELSE "broken"
  OBVIOUS
<1>2. PICK effects \in SUBSET EffectEvent : effects = s.effects \cup {e}
  BY DEF Stream
<1>3. n = [s EXCEPT !.history = h, !.effects = effects]
  BY <1>1, <1>2, Zenon DEF AppendReservation, Written
<1>4. /\ h \in {"legal", "broken"}
      /\ n.history = h
      /\ n.requests = s.requests
      /\ n.decided = s.decided
      /\ n.grants = s.grants
      /\ n.ended = s.ended
      /\ n.proposals = s.proposals
      /\ n.closed = s.closed
      /\ n.effects = effects
      /\ n.settled = s.settled
  BY <1>1, <1>3 DEF Stream
<1>5. n \in Stream
  BY <1>3, <1>4 DEF Stream
<1>. QED  BY <1>1, <1>2, <1>4, <1>5

\* An EffectCompleted or EffectFailed row.
LEMMA SettlementAppends ==
    ASSUME NEW s \in Stream, NEW e \in EffectEvent, NEW o \in Settlements, NEW n, n = AppendSettlement(s, e, o)
    PROVE  /\ n \in Stream
           /\ n.requests = s.requests
           /\ n.decided = s.decided
           /\ n.grants = s.grants
           /\ n.ended = s.ended
           /\ n.proposals = s.proposals
           /\ n.closed = s.closed
           /\ n.effects = s.effects
           /\ n.settled = s.settled \cup {<<e.id, o>>}
           /\ n.history = IF /\ e \in s.effects
                                /\ \A x \in Settlements : <<e.id, x>> \notin s.settled
                          THEN s.history ELSE "broken"
<1>1. PICK h : h = IF /\ e \in s.effects
                                /\ \A x \in Settlements : <<e.id, x>> \notin s.settled
                  THEN s.history ELSE "broken"
  OBVIOUS
<1>2. PICK settled \in SUBSET (Ids \X Settlements) :
          settled = s.settled \cup {<<e.id, o>>}
  <2>1. <<e.id, o>> \in Ids \X Settlements
    BY DEF EffectEvent
  <2>2. s.settled \in SUBSET (Ids \X Settlements)
    BY DEF Stream
  <2>3. s.settled \cup {<<e.id, o>>} \in SUBSET (Ids \X Settlements)
    BY <2>1, <2>2
  <2>. QED  BY <2>3
<1>3. n = [s EXCEPT !.history = h, !.settled = settled]
  BY <1>1, <1>2, Zenon DEF AppendSettlement, Written
<1>4. /\ h \in {"legal", "broken"}
      /\ n.history = h
      /\ n.requests = s.requests
      /\ n.decided = s.decided
      /\ n.grants = s.grants
      /\ n.ended = s.ended
      /\ n.proposals = s.proposals
      /\ n.closed = s.closed
      /\ n.effects = s.effects
      /\ n.settled = settled
  BY <1>1, <1>3 DEF Stream
<1>5. n \in Stream
  BY <1>3, <1>4 DEF Stream
<1>. QED  BY <1>1, <1>2, <1>4, <1>5

-----------------------------------------------------------------------------
(* Types.                                                                  *)

ThreadsOK == /\ lock \in Threads \cup {None}
             /\ pc \in [Threads -> Places]
             /\ call \in [Threads -> Menu \cup {None}]
             /\ now \in [Threads -> Nat]
             /\ held \in [Threads -> EffectEvent \cup {None}]
             /\ \A t \in Threads :
                    /\ pc[t] = "idle" <=> call[t] = None
                    /\ pc[t] \in InAct <=> held[t] # None

WorldOK == /\ clock \in Nat
           /\ gates \subseteq Gates
           /\ faults \in Nat

HistoryOK == /\ acked \subseteq Ids
             /\ told \subseteq Ids \X {"ok", "refused", "unrecorded"}
             /\ ran \subseteq Ids

\* What a thread at a place calls: a decision is appended only for a request
\* that is there, and only some calls meet an expiry or reach a device.
Fits(place, c) ==
    /\ place = "append" /\ c.kind \in {"grant", "decline"} =>
           \E r \in view.requests : r.id = c.id
    /\ place = "expire" => c.kind \in {"propose", "observe", "invoke"}
    /\ place \in {"admitted"} \cup InAct => c.kind \in {"observe", "invoke"}

Placed == \A t \in Threads : Fits(pc[t], call[t])

TypeInv == ThreadsOK /\ WorldOK /\ HistoryOK /\ view \in Stream /\ Placed

\* Answering frees the thread, and no other is touched.
LEMMA LeaveTypes ==
    ASSUME ThreadsOK, NEW t \in Threads, Leave(t)
    PROVE  /\ ThreadsOK'
           /\ pc'[t] = "idle" /\ call'[t] = None /\ held'[t] = None
           /\ \A u \in Threads : u # t => /\ pc'[u] = pc[u]
                                          /\ call'[u] = call[u]
                                          /\ held'[u] = held[u]
BY NoneAssumption DEF ThreadsOK, Leave, Places, InAct

\* Going on moves one thread, and changes neither its call nor the lock.
LEMMA GotoTypes ==
    ASSUME ThreadsOK, NEW t \in Threads, NEW place \in Places, Goto(t, place),
           pc[t] # "idle", place # "idle", place \in InAct <=> pc[t] \in InAct
    PROVE  /\ ThreadsOK'
           /\ pc'[t] = place
           /\ \A u \in Threads : u # t => pc'[u] = pc[u]
           /\ call' = call /\ held' = held /\ lock' = lock
BY DEF ThreadsOK, Goto

\* A new row gets an id no row of its kind has.
LEMMA FreshIds ==
    ASSUME NEW records, Room(records)
    PROVE  Fresh(records) \in Ids /\ Named(records, Fresh(records)) = {}
BY DEF Fresh, Room

\* The principal a decision is for is the one that asked.
LEMMA AskerIsPrincipal ==
    ASSUME TypeInv, NEW id, \E r \in view.requests : r.id = id
    PROVE  Asker(id) \in Principals /\ OwnRequest(view, id, Asker(id))
<1>1. PICK r \in view.requests : r.id = id
  OBVIOUS
<1>2. r.principal \in Principals
  BY DEF TypeInv, Stream, RequestEvent
<1>3. OwnRequest(view, id, r.principal)
  BY <1>1 DEF OwnRequest
<1>. QED  BY <1>2, <1>3 DEF Asker

\* What a thread that is in a call calls.
LEMMA Serving ==
    ASSUME ThreadsOK, NEW t \in Threads, pc[t] # "idle"
    PROVE  call[t] \in Menu
BY DEF ThreadsOK

\* Types are kept by a step that appends nothing, if threads fit where they go.
LEMMA QuietTypes ==
    ASSUME TypeInv, ThreadsOK', WorldOK', HistoryOK', view' = view,
           \A t \in Threads : \/ pc'[t] = pc[t] /\ call'[t] = call[t]
                              \/ Fits(pc'[t], call'[t])
    PROVE  TypeInv'
<1>1. ASSUME NEW t \in Threads
      PROVE  Fits(pc[t], call[t])'
  BY DEF TypeInv, Placed, Fits
<1>. QED  BY <1>1 DEF TypeInv, Placed

\* A thread that checks, waits or is done fits its place whatever it calls.
LEMMA Anywhere ==
    ASSUME NEW place \in {"idle", "checking", "locking", "locked"}, NEW c
    PROVE  Fits(place, c)
BY DEF Fits, InAct

\* Types, action by action: a call arrives.
LEMMA StartTypes ==
    ASSUME TypeInv, NEW t \in Threads, Start(t)
    PROVE  TypeInv'
<1>1. PICK c \in Menu :
          /\ call' = [call EXCEPT ![t] = c]
          /\ pc' = [pc EXCEPT ![t] = IF c.kind \in Locked THEN "locking"
                                                         ELSE "checking"]
  BY DEF Start
<1>2. ThreadsOK'
  BY <1>1, NoneAssumption DEF Start, TypeInv, ThreadsOK, WorldOK, Places, InAct
<1>3. \A u \in Threads : \/ pc'[u] = pc[u] /\ call'[u] = call[u]
                         \/ pc'[u] \in {"checking", "locking"}
  BY <1>1 DEF TypeInv, ThreadsOK
<1>. QED
  BY <1>2, <1>3, QuietTypes, Anywhere
     DEF Start, World, History, TypeInv, WorldOK, HistoryOK

\* A check passes; a decision has found its request.
LEMMA PassTypes ==
    ASSUME TypeInv, NEW t \in Threads, Pass(t)
    PROVE  TypeInv'
<1>1. /\ ThreadsOK' /\ call' = call /\ pc'[t] = "append"
      /\ \A u \in Threads : u # t => pc'[u] = pc[u]
  BY GotoTypes DEF Pass, TypeInv, Places, InAct
<1>2. Fits("append", call[t])
  BY DEF Pass, Passes, GrantPasses, DeclinePasses, Named, Fits, InAct
<1>. QED
  BY <1>1, <1>2, QuietTypes DEF Pass, World, History, TypeInv, WorldOK, HistoryOK

\* A thread meets an expiry, takes the lock, or passes a check under it.
LEMMA GoTypes ==
    ASSUME TypeInv, NEW t \in Threads,
           FindExpired(t) \/ Lock(t) \/ RevokeCheck(t) \/ Admit(t)
    PROVE  TypeInv'
<1>1. CASE Lock(t)
  <2>1. ThreadsOK'
    BY <1>1 DEF Lock, TypeInv, ThreadsOK, Places, InAct
  <2>. QED
    BY <1>1, <2>1, QuietTypes, Anywhere
       DEF Lock, World, History, TypeInv, WorldOK, HistoryOK, ThreadsOK
<1>2. CASE FindExpired(t) \/ RevokeCheck(t) \/ Admit(t)
  <2>1. PICK place \in {"expire", "append", "admitted"} :
            /\ Goto(t, place) /\ pc[t] \in {"checking", "locked"}
            /\ place = "expire" => call[t].kind \in {"propose", "observe", "invoke"}
            /\ place = "append" => call[t].kind = "revoke"
            /\ place = "admitted" => call[t].kind \in {"observe", "invoke"}
            /\ UNCHANGED <<view, World, History>>
    BY <1>2 DEF FindExpired, RevokeCheck, Admit, At
  <2>2. /\ ThreadsOK' /\ call' = call /\ pc'[t] = place
        /\ \A u \in Threads : u # t => pc'[u] = pc[u]
    BY <2>1, GotoTypes DEF TypeInv, Places, InAct
  <2>3. Fits(place, call[t])
    BY <2>1 DEF Fits, InAct
  <2>. QED
    BY <2>1, <2>2, <2>3, QuietTypes DEF World, History, TypeInv, WorldOK, HistoryOK
<1>. QED  BY <1>1, <1>2

\* A thread answers without appending, or fails.
LEMMA AwayTypes ==
    ASSUME TypeInv, NEW t \in Threads,
           Answer(t) \/ RefuseLocked(t) \/ Replay(t) \/ Fail(t)
    PROVE  TypeInv'
<1>1. /\ Leave(t) /\ view' = view /\ clock' = clock /\ gates' = gates
      /\ acked' = acked
  BY DEF Answer, RefuseLocked, Replay, Fail, World, History
<1>2. /\ ThreadsOK' /\ pc'[t] = "idle"
      /\ \A u \in Threads : u # t => pc'[u] = pc[u] /\ call'[u] = call[u]
  BY <1>1, LeaveTypes DEF TypeInv
<1>3. faults' \in Nat
  BY FaultAssumption
     DEF Answer, RefuseLocked, Replay, Fail, Fault, World, TypeInv, WorldOK
<1>4. told' \subseteq Ids \X {"ok", "refused", "unrecorded"}
  <2>1. CASE Replay(t)
    <3>1. PICK e \in Original(call[t]) :
              told' = told \/ told' = told \cup {<<e.id, Recorded(e)>>}
      BY <2>1 DEF Replay
    <3>2. e.id \in Ids
      BY DEF Original, OriginalInvoke, TypeInv, Stream, EffectEvent
    <3>3. Recorded(e) \in {"ok", "refused", "unrecorded"}
      BY DEF Recorded
    <3>. QED  BY <3>1, <3>2, <3>3 DEF TypeInv, HistoryOK
  <2>. QED
    BY <2>1 DEF Answer, RefuseLocked, Fail, History, TypeInv, HistoryOK
<1>5. ran' \subseteq Ids
  <2>1. CASE Fail(t)
    <3>1. ran' = ran \/ (pc[t] = "reserved" /\ ran' = ran \cup {held[t].id})
      BY <2>1 DEF Fail
    <3>2. pc[t] = "reserved" => held[t].id \in Ids
      BY DEF TypeInv, ThreadsOK, InAct, EffectEvent
    <3>. QED  BY <3>1, <3>2 DEF TypeInv, HistoryOK
  <2>. QED
    BY <2>1 DEF Answer, RefuseLocked, Replay, History, TypeInv, HistoryOK
<1>. QED
  BY <1>1, <1>2, <1>3, <1>4, <1>5, QuietTypes, Anywhere
     DEF TypeInv, WorldOK, HistoryOK

\* The daemon dies, time passes, or the human turns a gate.
LEMMA WorldTypes ==
    ASSUME TypeInv, Crash \/ Tick \/ (\E g \in Closable : SetGate(g))
    PROVE  TypeInv'
<1>1. CASE Crash
  BY <1>1, QuietTypes, Anywhere, FaultAssumption, NoneAssumption
     DEF Crash, Fault, History, TypeInv, ThreadsOK, WorldOK, HistoryOK, Places, InAct
<1>2. CASE Tick
  BY <1>2, QuietTypes
     DEF Tick, History, TypeInv, ThreadsOK, WorldOK, HistoryOK
<1>3. CASE \E g \in Closable : SetGate(g)
  BY <1>3, QuietTypes, GateAssumption
     DEF SetGate, History, TypeInv, ThreadsOK, WorldOK, HistoryOK
<1>. QED  BY <1>1, <1>2, <1>3

\* Calls that append and answer.
LEMMA AppendTypes ==
    ASSUME TypeInv, NEW t \in Threads, Leave(t),
           view' \in Stream, view.requests \subseteq view'.requests,
           UNCHANGED World, HistoryOK'
    PROVE  TypeInv'
<1>1. /\ ThreadsOK' /\ pc'[t] = "idle"
      /\ \A u \in Threads : u # t => pc'[u] = pc[u] /\ call'[u] = call[u]
  BY LeaveTypes DEF TypeInv
<1>2. ASSUME NEW u \in Threads
      PROVE  Fits(pc[u], call[u])'
  BY <1>1, Anywhere DEF TypeInv, Placed, Fits, InAct
<1>. QED  BY <1>1, <1>2 DEF TypeInv, Placed, World, WorldOK

\* The effects and their settlements stay, and no grant that ended revives.
EffectsKept == /\ view'.effects = view.effects
               /\ view'.settled = view.settled
               /\ view.ended \subseteq view'.ended

\* Calls that append without the lock, and expiries: they keep the types and
\* the effects.
LEMMA UnlockedTypes ==
    ASSUME TypeInv, NEW t \in Threads,
           \/ Request(t) \/ Grant(t) \/ Decline(t)
           \/ Propose(t) \/ RefuseProposal(t) \/ Expire(t)
    PROVE  /\ TypeInv' /\ Leave(t) /\ UNCHANGED <<World, History>>
           /\ pc[t] \in {"append", "expire"} /\ EffectsKept
<1>. DEFINE c == call[t]
<1>0. /\ Leave(t) /\ UNCHANGED <<World, History>>
      /\ pc[t] \in {"append", "expire"}
  BY DEF Request, Grant, Decline, Propose, RefuseProposal, Expire, At
<1>m. c \in Menu /\ view \in Stream
  BY <1>0, Serving DEF TypeInv
<1>h. HistoryOK'
  BY <1>0 DEF History, TypeInv, HistoryOK
<1>1. CASE Request(t)
  <2>1. c.principal \in Principals /\ c.key \in Keys /\ c.ops \in SUBSET Operations
        /\ c.asked \in Nat
    BY <1>m, <1>1, CallFields DEF Request, At
  <2>. DEFINE r == [id |-> Fresh(view.requests), principal |-> c.principal,
                    key |-> c.key, ops |-> c.ops, asked |-> c.asked]
  <2>2. r \in RequestEvent
    BY <1>1, <2>1, FreshIds DEF Request, RequestEvent
  <2>3. view' = view \/ view' = AppendRequest(view, r)
    BY <1>1 DEF Request
  <2>. HIDE DEF r
  <2>4. view' \in Stream /\ view.requests \subseteq view'.requests /\ EffectsKept
    BY <1>m, <2>2, <2>3, RequestAppends DEF EffectsKept
  <2>. QED  BY <1>0, <1>h, <2>4, AppendTypes
<1>2. CASE Grant(t)
  <2>1. c.id \in Ids /\ c.ops \in SUBSET Operations /\ c.expires \in Nat
    BY <1>m, <1>2, CallFields DEF Grant, At
  <2>2. Asker(c.id) \in Principals
    BY <1>2, AskerIsPrincipal DEF Grant, At, TypeInv, Placed, Fits
  <2>. DEFINE g == [id |-> c.id, principal |-> Asker(c.id), ops |-> c.ops,
                    expires |-> c.expires]
  <2>3. g \in GrantEvent
    BY <2>1, <2>2 DEF GrantEvent
  <2>4. view' = view \/ view' = AppendGrant(view, g)
    BY <1>2 DEF Grant
  <2>. HIDE DEF g
  <2>5. view' \in Stream /\ view.requests \subseteq view'.requests /\ EffectsKept
    BY <1>m, <2>3, <2>4, GrantAppends DEF EffectsKept
  <2>. QED  BY <1>0, <1>h, <2>5, AppendTypes
<1>3. CASE Decline(t)
  <2>1. c.id \in Ids
    BY <1>m, <1>3, CallFields DEF Decline, At
  <2>2. Asker(c.id) \in Principals
    BY <1>3, AskerIsPrincipal DEF Decline, At, TypeInv, Placed, Fits
  <2>3. view' = view \/ view' = AppendDecline(view, c.id, Asker(c.id))
    BY <1>3 DEF Decline
  <2>4. view' \in Stream /\ view.requests \subseteq view'.requests /\ EffectsKept
    BY <1>m, <2>1, <2>2, <2>3, DeclineAppends DEF EffectsKept
  <2>. QED  BY <1>0, <1>h, <2>4, AppendTypes
<1>4. CASE Propose(t)
  <2>1. /\ c.id \in Ids /\ c.principal \in Principals /\ c.key \in Keys
        /\ c.op \in Operations
    BY <1>m, <1>4, CallFields DEF Propose, At
  <2>. DEFINE p == [id |-> Fresh(view.proposals), principal |-> c.principal,
                    key |-> c.key, grant |-> c.id, op |-> c.op]
  <2>2. p \in ProposalEvent
    BY <1>4, <2>1, FreshIds DEF Propose, ProposalEvent
  <2>3. view' = view \/ view' = AppendProposal(view, p)
    BY <1>4 DEF Propose
  <2>. HIDE DEF p
  <2>4. view' \in Stream /\ view.requests \subseteq view'.requests /\ EffectsKept
    BY <1>m, <2>2, <2>3, ProposalAppends DEF EffectsKept
  <2>. QED  BY <1>0, <1>h, <2>4, AppendTypes
<1>5. CASE RefuseProposal(t)
  <2>1. c.id \in Ids
    BY <1>m, <1>5, CallFields DEF RefuseProposal, At
  <2>2. view' = view \/ view' = AppendRefusal(view, c.id)
    BY <1>5 DEF RefuseProposal
  <2>3. view' \in Stream /\ view.requests \subseteq view'.requests /\ EffectsKept
    BY <1>m, <2>1, <2>2, RefusalAppends DEF EffectsKept
  <2>. QED  BY <1>0, <1>h, <2>3, AppendTypes
<1>6. CASE Expire(t)
  <2>1. c.id \in Ids
    BY <1>m, <1>6, CallFields DEF Expire, TypeInv, Placed, Fits
  <2>2. view' = view \/ view' = AppendEnd(view, c.id)
    BY <1>6 DEF Expire, End
  <2>3. view' \in Stream /\ view.requests \subseteq view'.requests /\ EffectsKept
    BY <1>m, <2>1, <2>2, EndAppends DEF EffectsKept
  <2>. QED  BY <1>0, <1>h, <2>3, AppendTypes
<1>. QED  BY <1>1, <1>2, <1>3, <1>4, <1>5, <1>6

\* Revocations and the stages of an act, under the lock.
LEMMA LockedTypes ==
    ASSUME TypeInv, NEW t \in Threads,
           Revoke(t) \/ Reserve(t) \/ Execute(t) \/ Settle(t)
    PROVE  TypeInv'
<1>. DEFINE c == call[t]
<1>m. c \in Menu /\ view \in Stream
  BY Serving DEF TypeInv, Revoke, Reserve, Execute, Settle, At, Settlements
<1>1. CASE Revoke(t)
  <2>1. c.id \in Ids
    BY <1>m, <1>1, CallFields DEF Revoke, At
  <2>2. view' = view \/ view' = AppendEnd(view, c.id)
    BY <1>1 DEF Revoke, End
  <2>3. view' \in Stream /\ view.requests \subseteq view'.requests
    BY <1>m, <2>1, <2>2, EndAppends
  <2>4. HistoryOK'
    BY <1>1, <2>1 DEF Revoke, TypeInv, HistoryOK
  <2>. QED  BY <1>1, <2>3, <2>4, AppendTypes DEF Revoke
<1>2. CASE Reserve(t)
  <2>. DEFINE e == [id |-> Fresh(view.effects), principal |-> c.principal,
                    key |-> c.key, grant |-> c.id, op |-> c.op, at |-> now[t]]
  <2>1. /\ pc[t] = "admitted" /\ c.kind \in {"observe", "invoke"}
    BY <1>2 DEF Reserve, TypeInv, Placed, Fits
  <2>2. e \in EffectEvent
    <3>1. /\ c.id \in Ids /\ c.principal \in Principals /\ c.op \in Operations
          /\ c.key \in Keys \cup {None}
      BY <1>m, <2>1, CallFields
    <3>2. now[t] \in Nat
      BY DEF TypeInv, ThreadsOK
    <3>3. Fresh(view.effects) \in Ids
      BY <1>2, FreshIds DEF Reserve
    <3>. QED  BY <3>1, <3>2, <3>3 DEF EffectEvent
  <2>3. /\ view' = AppendReservation(view, e)
        /\ held' = [held EXCEPT ![t] = e]
        /\ pc' = [pc EXCEPT ![t] = "reserved"]
        /\ UNCHANGED <<lock, call, now, World, History>>
    BY <1>2 DEF Reserve
  <2>. HIDE DEF e
  <2>4. view' \in Stream /\ view'.requests = view.requests
    BY <1>m, <2>2, <2>3, ReservationAppends
  <2>5. ThreadsOK'
    BY <2>1, <2>2, <2>3, NoneAssumption DEF TypeInv, ThreadsOK, Places, InAct
  <2>6. ASSUME NEW u \in Threads
        PROVE  Fits(pc[u], call[u])'
    BY <2>1, <2>3, <2>4 DEF TypeInv, ThreadsOK, Placed, Fits, InAct
  <2>. QED
    BY <2>3, <2>4, <2>5, <2>6
       DEF TypeInv, Placed, World, WorldOK, History, HistoryOK
<1>3. CASE Execute(t)
  <2>1. PICK place \in Settlements : Goto(t, place)
    BY <1>3 DEF Execute, Settlements
  <2>2. pc[t] = "reserved" /\ view' = view /\ UNCHANGED <<World, acked, told>>
    BY <1>3 DEF Execute
  <2>3. /\ ThreadsOK' /\ call' = call /\ pc'[t] = place
        /\ \A u \in Threads : u # t => pc'[u] = pc[u]
    BY <2>1, <2>2, GotoTypes DEF TypeInv, Places, InAct, Settlements
  <2>4. HistoryOK'
    <3>1. held[t].id \in Ids
      BY <2>2 DEF TypeInv, ThreadsOK, InAct, EffectEvent
    <3>. QED  BY <1>3, <2>2, <3>1 DEF Execute, TypeInv, HistoryOK
  <2>5. Fits(place, call[t])
    BY <2>2 DEF TypeInv, Placed, Fits, InAct, Settlements
  <2>. QED  BY <2>2, <2>3, <2>4, <2>5, QuietTypes DEF TypeInv, World, WorldOK
<1>4. CASE Settle(t)
  <2>. DEFINE e == held[t]
              o == pc[t]
  <2>1. e \in EffectEvent /\ o \in Settlements
    BY <1>4 DEF Settle, TypeInv, ThreadsOK, InAct, Settlements
  <2>2. view' = AppendSettlement(view, e, o)
    BY <1>4 DEF Settle
  <2>3. e.id \in Ids
    BY <2>1 DEF EffectEvent
  <2>4. PICK answer \in {"ok", "refused"} : told' = told \cup {<<e.id, answer>>}
    BY <1>4 DEF Settle
  <2>5. HistoryOK'
    BY <1>4, <2>3, <2>4 DEF Settle, TypeInv, HistoryOK
  <2>. HIDE DEF e, o
  <2>6. view' \in Stream /\ view.requests \subseteq view'.requests
    BY <1>m, <2>1, <2>2, SettlementAppends
  <2>. QED  BY <1>4, <2>5, <2>6, AppendTypes DEF Settle
<1>. QED  BY <1>1, <1>2, <1>3, <1>4

\* The inductive type invariant: the types, and that threads fit their places.
LEMMA TypeInvHolds == Spec => []TypeInv
<1>1. Init => TypeInv
  <2>. SUFFICES ASSUME Init PROVE TypeInv
    OBVIOUS
  <2>1. ThreadsOK
    BY DEF Init, ThreadsOK, Places, InAct
  <2>2. WorldOK /\ HistoryOK
    BY DEF Init, WorldOK, HistoryOK
  <2>3. view \in Stream
    BY DEF Init, Empty, Stream
  <2>4. Placed
    BY Anywhere DEF Init, Placed
  <2>. QED  BY <2>1, <2>2, <2>3, <2>4 DEF TypeInv
<1>2. TypeInv /\ [Next]_vars => TypeInv'
  <2>. SUFFICES ASSUME TypeInv, [Next]_vars PROVE TypeInv'
    OBVIOUS
  <2>1. CASE \E t \in Threads : Start(t) \/ Step(t) \/ Fail(t)
    <3>1. PICK t \in Threads : Start(t) \/ Step(t) \/ Fail(t)
      BY <2>1
    <3>. QED
      BY <3>1, StartTypes, PassTypes, GoTypes, AwayTypes, UnlockedTypes,
         LockedTypes, Zenon DEF Step
  <2>2. CASE Crash \/ Tick \/ (\E g \in Closable : SetGate(g))
    BY <2>2, WorldTypes
  <2>3. CASE UNCHANGED vars
    BY <2>3, QuietTypes
       DEF vars, TypeInv, ThreadsOK, WorldOK, HistoryOK
  <2>. QED  BY <2>1, <2>2, <2>3 DEF Next, Act
<1>. QED  BY <1>1, <1>2, PTL DEF Spec

\* The stream, the lock and the threads of the daemon have their types, and a
\* thread holds a reservation exactly while it runs an act, for any number of
\* concurrent calls and any menu of them.
THEOREM TypeCorrect == Spec => []TypeOK
<1>. DEFINE Told == proposed \in BOOLEAN
<1>1. TypeInv /\ Told => TypeOK
  BY DEF TypeInv, ThreadsOK, WorldOK, HistoryOK, TypeOK
<1>2. Init => Told
  BY DEF Init
<1>3. Told /\ [Next]_vars => Told'
  BY Zenon DEF Next, vars
<1>. HIDE DEF Told
<1>. QED  BY <1>1, <1>2, <1>3, TypeInvHolds, PTL DEF Spec

-----------------------------------------------------------------------------
(* The authority lock excludes.                                            *)

\* Between taking the lock and answering.
Holding(t) == \/ pc[t] \in {"locked", "admitted"} \cup InAct
              \/ pc[t] \in {"append", "expire"} /\ call[t].kind \in Locked

Mutex == \A t \in Threads : Holding(t) => lock = t

\* Going on is for who holds the lock, or for calls that never take it.
LEMMA GotoMutex ==
    ASSUME TypeInv, Mutex, NEW t \in Threads, NEW place, Goto(t, place),
           lock = t \/ (place \in {"append", "expire"} /\ call[t].kind \notin Locked)
    PROVE  Mutex'
<1>1. /\ call' = call /\ lock' = lock /\ pc'[t] = place
      /\ \A u \in Threads : u # t => pc'[u] = pc[u]
  BY DEF Goto, TypeInv, ThreadsOK
<1>. QED  BY <1>1 DEF Mutex, Holding, InAct

\* Whoever stands between taking the lock and answering holds it.
LEMMA MutexStep ==
    ASSUME TypeInv, Mutex, [Next]_vars
    PROVE  Mutex'
<1>1. ASSUME NEW t \in Threads, Leave(t)
      PROVE  Mutex'
  <2>1. /\ pc'[t] = "idle"
        /\ \A u \in Threads : u # t => pc'[u] = pc[u] /\ call'[u] = call[u]
    BY <1>1, LeaveTypes DEF TypeInv
  <2>2. lock # t => lock' = lock
    BY <1>1 DEF Leave
  <2>. QED  BY <2>1, <2>2 DEF Mutex, Holding, InAct
<1>2. ASSUME NEW t \in Threads, Start(t)
      PROVE  Mutex'
  BY <1>2 DEF Start, Mutex, Holding, InAct, TypeInv, ThreadsOK
<1>3. ASSUME NEW t \in Threads, Pass(t)
      PROVE  Mutex'
  BY GotoMutex, <1>3 DEF Pass, Passes, Locked, Places
<1>4. ASSUME NEW t \in Threads, FindExpired(t)
      PROVE  Mutex'
  <2>1. /\ Goto(t, "expire")
        /\ pc[t] = "locked" \/ call[t].kind \notin Locked
    BY <1>4 DEF FindExpired, At, Locked
  <2>2. pc[t] = "locked" => lock = t
    BY DEF Mutex, Holding
  <2>. QED  BY <2>1, <2>2, GotoMutex
<1>5. ASSUME NEW t \in Threads, RevokeCheck(t) \/ Admit(t)
      PROVE  Mutex'
  <2>1. PICK place \in Places : Goto(t, place) /\ pc[t] = "locked"
    BY <1>5 DEF RevokeCheck, Admit, At, Places
  <2>2. lock = t
    BY <2>1 DEF Mutex, Holding
  <2>. QED  BY <2>1, <2>2, GotoMutex
<1>6. ASSUME NEW t \in Threads, Lock(t)
      PROVE  Mutex'
  <2>1. /\ lock = None /\ lock' = t /\ call' = call
        /\ \A u \in Threads : u # t => pc'[u] = pc[u]
    BY <1>6 DEF Lock, TypeInv, ThreadsOK
  <2>2. \A u \in Threads : ~Holding(u)
    BY <2>1, NoneAssumption DEF Mutex
  <2>. QED  BY <2>1, <2>2 DEF Mutex, Holding
<1>7. ASSUME NEW t \in Threads, Reserve(t)
      PROVE  Mutex'
  <2>1. /\ lock' = lock /\ call' = call /\ pc[t] = "admitted"
        /\ \A u \in Threads : u # t => pc'[u] = pc[u]
    BY <1>7 DEF Reserve, TypeInv, ThreadsOK
  <2>. QED  BY <2>1 DEF Mutex, Holding
<1>8. ASSUME NEW t \in Threads, Execute(t)
      PROVE  Mutex'
  <2>1. PICK place \in Places : Goto(t, place) /\ pc[t] = "reserved"
    BY <1>8 DEF Execute, Settlements, Places, InAct
  <2>2. lock = t
    BY <2>1 DEF Mutex, Holding, InAct
  <2>. QED  BY <2>1, <2>2, GotoMutex
<1>9. CASE Crash
  BY <1>9 DEF Crash, Mutex, Holding, InAct
<1>10. CASE Tick \/ (\E g \in Closable : SetGate(g)) \/ UNCHANGED vars
  BY <1>10 DEF Tick, SetGate, vars, Mutex, Holding
<1>11. ASSUME NEW t \in Threads, Step(t) \/ Fail(t)
       PROVE  Mutex'
  <2>1. CASE Leave(t)
    BY <2>1, <1>1
  <2>2. CASE ~Leave(t)
    BY <2>2, <1>3, <1>4, <1>5, <1>6, <1>7, <1>8, <1>11, Zenon
       DEF Step, Fail, Answer, Request, Grant, Decline, Propose, RefuseProposal,
           Expire, Revoke, Replay, RefuseLocked, Settle
  <2>. QED  BY <2>1, <2>2
<1>. QED  BY <1>2, <1>9, <1>10, <1>11 DEF Next, Act

-----------------------------------------------------------------------------
(* The fence.                                                              *)

\* An acknowledged revocation is in the stream, and nobody who was admitted
\* was admitted on its grant.
Unrevoked == /\ acked \subseteq view.ended
             /\ \A t \in Threads :
                    /\ pc[t] = "admitted" => call[t].id \notin acked
                    /\ pc[t] \in InAct => held[t].grant \notin acked

FenceInv == TypeInv /\ Mutex /\ Unrevoked

\* Steps that acknowledge nothing and admit nobody.
LEMMA FenceKept ==
    ASSUME Unrevoked, acked' = acked, view.ended \subseteq view'.ended,
           \A t \in Threads :
               /\ pc'[t] = "admitted" => pc[t] = "admitted" /\ call'[t] = call[t]
               /\ pc'[t] \in InAct => pc[t] \in InAct /\ held'[t] = held[t]
    PROVE  Unrevoked'
BY DEF Unrevoked

\* Threads other than t, or all of them, stay where they are.
LEMMA AwayKept ==
    ASSUME ThreadsOK, NEW t \in Threads, Leave(t)
    PROVE  \A u \in Threads :
               /\ pc'[u] = "admitted" => pc[u] = "admitted" /\ call'[u] = call[u]
               /\ pc'[u] \in InAct => pc[u] \in InAct /\ held'[u] = held[u]
BY LeaveTypes DEF InAct

\* A thread goes on, and is neither admitted nor newly in an act.
LEMMA GoneKept ==
    ASSUME ThreadsOK, NEW t \in Threads, NEW place, Goto(t, place),
           place \notin {"admitted"} \cup InAct \/ (place \in InAct /\ pc[t] \in InAct)
    PROVE  \A u \in Threads :
               /\ pc'[u] = "admitted" => pc[u] = "admitted" /\ call'[u] = call[u]
               /\ pc'[u] \in InAct => pc[u] \in InAct /\ held'[u] = held[u]
BY DEF ThreadsOK, Goto, InAct

\* A revocation is acknowledged while nobody else is past the lock.
LEMMA RevokeFence ==
    ASSUME FenceInv, NEW t \in Threads, Revoke(t)
    PROVE  Unrevoked'
<1>. DEFINE id == call[t].id
<1>1. id \in Ids /\ view \in Stream
  BY Serving, CallFields DEF Revoke, At, FenceInv, TypeInv
<1>2. view' = view \/ view' = AppendEnd(view, id)
  BY DEF Revoke, End
<1>3. /\ view.ended \subseteq view'.ended
      /\ acked' \subseteq acked \cup {id}
      /\ acked' # acked => id \in view'.ended
  BY <1>1, <1>2, EndAppends DEF Revoke, End
<1>4. \A u \in Threads : u # t => ~Holding(u)
  BY DEF FenceInv, Mutex, Holding, Revoke, At, Locked
<1>5. \A u \in Threads : pc'[u] \notin {"admitted"} \cup InAct
  BY <1>4, LeaveTypes DEF Revoke, FenceInv, TypeInv, Holding, InAct
<1>. QED  BY <1>3, <1>5 DEF FenceInv, Unrevoked

\* Who is admitted found its grant standing, so not acknowledged as revoked.
LEMMA AdmitFence ==
    ASSUME FenceInv, NEW t \in Threads, Admit(t)
    PROVE  Unrevoked'
<1>1. call[t].id \notin view.ended
  BY DEF Admit, Admitted, Authorized, Standing, Resolve
<1>2. call[t].id \notin acked
  BY <1>1 DEF FenceInv, Unrevoked
<1>3. /\ call' = call /\ held' = held /\ pc'[t] = "admitted"
      /\ \A u \in Threads : u # t => pc'[u] = pc[u]
      /\ acked' = acked /\ view' = view
  BY DEF Admit, Goto, History, FenceInv, TypeInv, ThreadsOK
<1>. QED  BY <1>2, <1>3 DEF FenceInv, Unrevoked, InAct

\* All that a reservation changes.
LEMMA Reserving ==
    ASSUME TypeInv, NEW t \in Threads, Reserve(t)
    PROVE  /\ held'[t] \in EffectEvent
           /\ held'[t].id \in Ids /\ Named(view.effects, held'[t].id) = {}
           /\ held'[t].grant = call[t].id /\ held'[t].key = call[t].key
           /\ held'[t].principal = call[t].principal /\ held'[t].op = call[t].op
           /\ view'.effects = view.effects \cup {held'[t]}
           /\ view'.settled = view.settled /\ view'.ended = view.ended
           /\ view'.grants = view.grants /\ view'.proposals = view.proposals
           /\ view'.decided = view.decided
           /\ view'.history = IF Live(view, call[t].id, call[t].principal)
                              THEN view.history ELSE "broken"
           /\ call[t] \in Menu /\ call[t].kind \in {"observe", "invoke"}
           /\ pc[t] = "admitted" /\ pc'[t] = "reserved"
           /\ call' = call /\ UNCHANGED History
           /\ \A u \in Threads : u # t => pc'[u] = pc[u] /\ held'[u] = held[u]
<1>. DEFINE c == call[t]
            e == [id |-> Fresh(view.effects), principal |-> c.principal,
                  key |-> c.key, grant |-> c.id, op |-> c.op, at |-> now[t]]
<1>1. /\ pc[t] = "admitted" /\ c.kind \in {"observe", "invoke"} /\ c \in Menu
  BY Serving DEF Reserve, TypeInv, Placed, Fits
<1>2. /\ c.id \in Ids /\ c.principal \in Principals /\ c.op \in Operations
      /\ c.key \in Keys \cup {None}
  BY <1>1, CallFields
<1>3. /\ now[t] \in Nat /\ Fresh(view.effects) \in Ids
      /\ Named(view.effects, Fresh(view.effects)) = {}
  BY FreshIds DEF Reserve, TypeInv, ThreadsOK
<1>4. e \in EffectEvent /\ view' = AppendReservation(view, e) /\ view \in Stream
  BY <1>2, <1>3 DEF EffectEvent, Reserve, TypeInv
<1>5. /\ held'[t] = e /\ call' = call /\ pc'[t] = "reserved" /\ UNCHANGED History
      /\ \A u \in Threads : u # t => pc'[u] = pc[u] /\ held'[u] = held[u]
  BY DEF Reserve, TypeInv, ThreadsOK
<1>6. /\ e.id = Fresh(view.effects) /\ e.grant = c.id /\ e.key = c.key
      /\ e.principal = c.principal /\ e.op = c.op
  OBVIOUS
<1>. HIDE DEF e
<1>7. /\ view'.effects = view.effects \cup {e}
      /\ view'.settled = view.settled /\ view'.ended = view.ended
      /\ view'.grants = view.grants /\ view'.proposals = view.proposals
      /\ view'.decided = view.decided
      /\ view'.history = IF Live(view, e.grant, e.principal)
                            /\ Named(view.effects, e.id) = {}
                         THEN view.history ELSE "broken"
  BY <1>4, ReservationAppends
<1>. QED  BY <1>1, <1>3, <1>4, <1>5, <1>6, <1>7

\* All that a settlement changes in the stream.
LEMMA Settling ==
    ASSUME TypeInv, NEW t \in Threads, Settle(t)
    PROVE  /\ held[t] \in EffectEvent /\ pc[t] \in Settlements
           /\ view'.effects = view.effects /\ view'.ended = view.ended
           /\ view'.settled = view.settled \cup {<<held[t].id, pc[t]>>}
           /\ view'.grants = view.grants /\ view'.proposals = view.proposals
           /\ view'.decided = view.decided
           /\ view'.history = IF /\ held[t] \in view.effects
                                 /\ \A o \in Settlements :
                                        <<held[t].id, o>> \notin view.settled
                              THEN view.history ELSE "broken"
<1>. DEFINE e == held[t]
            o == pc[t]
<1>1. e \in EffectEvent /\ o \in Settlements /\ view \in Stream
  BY DEF Settle, TypeInv, ThreadsOK, InAct, Settlements
<1>2. view' = AppendSettlement(view, e, o)
  BY DEF Settle
<1>. HIDE DEF e, o
<1>3. /\ view'.effects = view.effects /\ view'.ended = view.ended
      /\ view'.settled = view.settled \cup {<<e.id, o>>}
      /\ view'.grants = view.grants /\ view'.proposals = view.proposals
      /\ view'.decided = view.decided
      /\ view'.history = IF /\ e \in view.effects
                            /\ \A x \in Settlements : <<e.id, x>> \notin view.settled
                         THEN view.history ELSE "broken"
  BY <1>1, <1>2, SettlementAppends
<1>. USE DEF e, o
<1>. QED  BY <1>1, <1>3

\* A reservation carries the grant its thread was admitted on.
LEMMA ReserveFence ==
    ASSUME FenceInv, NEW t \in Threads, Reserve(t)
    PROVE  Unrevoked'
BY Reserving DEF FenceInv, Unrevoked, InAct, History

\* The invariant behind the fence is inductive.
LEMMA FenceInvHolds == Spec => []FenceInv
<1>1. Init => Mutex /\ Unrevoked
  BY DEF Init, Mutex, Holding, Unrevoked, InAct
<1>2. FenceInv /\ [Next]_vars => Unrevoked'
  <2>. SUFFICES ASSUME FenceInv, [Next]_vars PROVE Unrevoked'
    OBVIOUS
  <2>. USE DEF FenceInv
  <2>1. ASSUME NEW t \in Threads, Leave(t), acked' = acked,
               view' = view \/ EffectsKept
        PROVE  Unrevoked'
    BY <2>1, AwayKept, FenceKept DEF TypeInv, EffectsKept
  <2>2. ASSUME NEW t \in Threads, Step(t) \/ Fail(t)
        PROVE  Unrevoked'
    <3>1. CASE Answer(t) \/ RefuseLocked(t) \/ Replay(t) \/ Fail(t)
      BY <3>1, <2>1 DEF Answer, RefuseLocked, Replay, Fail, History
    <3>2. CASE \/ Request(t) \/ Grant(t) \/ Decline(t)
               \/ Propose(t) \/ RefuseProposal(t) \/ Expire(t)
      BY <3>2, <2>1, UnlockedTypes DEF History
    <3>3. CASE Pass(t) \/ FindExpired(t) \/ RevokeCheck(t) \/ Execute(t)
      <4>1. PICK place : /\ Goto(t, place)
                         /\ \/ place \notin {"admitted"} \cup InAct
                            \/ place \in InAct /\ pc[t] \in InAct
        BY <3>3 DEF Pass, FindExpired, RevokeCheck, Execute, InAct, Settlements
      <4>2. acked' = acked /\ view' = view
        BY <3>3 DEF Pass, FindExpired, RevokeCheck, Execute, History
      <4>. QED  BY <4>1, <4>2, GoneKept, FenceKept DEF TypeInv
    <3>4. CASE Lock(t)
      <4>1. /\ acked' = acked /\ view' = view /\ call' = call /\ held' = held
            /\ pc'[t] = "locked" /\ \A u \in Threads : u # t => pc'[u] = pc[u]
        BY <3>4 DEF Lock, History, TypeInv, ThreadsOK
      <4>. QED  BY <4>1, FenceKept DEF InAct
    <3>5. CASE Settle(t)
      <4>1. view'.ended = view.ended
        BY <3>5, Settling
      <4>. QED  BY <3>5, <4>1, AwayKept, FenceKept DEF Settle, TypeInv
    <3>. QED
      BY <2>2, <3>1, <3>2, <3>3, <3>4, <3>5, RevokeFence, AdmitFence,
         ReserveFence, Zenon DEF Step
  <2>3. ASSUME NEW t \in Threads, Start(t)
        PROVE  Unrevoked'
    <3>1. /\ acked' = acked /\ view' = view /\ held' = held
          /\ pc'[t] \in {"checking", "locking"}
          /\ \A u \in Threads : u # t => pc'[u] = pc[u] /\ call'[u] = call[u]
      BY <2>3 DEF Start, History, TypeInv, ThreadsOK
    <3>. QED  BY <3>1, FenceKept DEF InAct
  <2>4. CASE Crash
    BY <2>4 DEF Crash, History, Unrevoked, InAct
  <2>5. CASE Tick \/ (\E g \in Closable : SetGate(g)) \/ UNCHANGED vars
    BY <2>5 DEF Tick, SetGate, vars, History, Unrevoked
  <2>. QED  BY <2>2, <2>3, <2>4, <2>5 DEF Next, Act
<1>3. TypeInv /\ Mutex /\ [Next]_vars => Mutex'
  BY MutexStep
<1>. QED
  BY <1>1, <1>2, <1>3, TypeInvHolds, PTL DEF Spec, FenceInv

\* Once a revocation was acknowledged no act under that grant is in flight or
\* will be begun: grant.rs holds the authority lock through a whole act and a
\* whole revocation.  It holds with proposals in the menu too, though their
\* expiries are appended without the lock.
THEOREM AcknowledgedFence == Spec => []Fence
<1>1. FenceInv => Fence
  BY DEF FenceInv, Unrevoked, Fence
<1>. QED  BY <1>1, FenceInvHolds, PTL

-----------------------------------------------------------------------------
(* One run for a key, and answers that stay true.                          *)

Replies == {"ok", "refused", "unrecorded"}

\* A key names one reservation; who is admitted has none yet; the reservation
\* of an act in flight has neither been settled nor told of; and what was
\* settled or told is of a reservation.
EffectsInv ==
    /\ \A e, f \in view.effects :
           /\ e.op # "observe" /\ f.op # "observe"
           /\ e.principal = f.principal /\ e.grant = f.grant /\ e.key = f.key
           => e = f
    /\ \A t \in Threads :
           /\ pc[t] = "admitted" => Original(call[t]) = {}
           /\ pc[t] \in InAct =>
                  /\ held[t] \in view.effects
                  /\ \A o \in Settlements : <<held[t].id, o>> \notin view.settled
                  /\ \A a \in Replies : <<held[t].id, a>> \notin told
           /\ pc[t] = "completed" => held[t].id \in ran
    /\ \A id \in Ids, o \in Settlements :
           <<id, o>> \in view.settled => /\ \E e \in view.effects : e.id = id
                                         /\ o = "completed" => id \in ran
    /\ \A id \in Ids, a \in Replies :
           <<id, a>> \in told =>
               /\ \E e \in view.effects : e.id = id
               /\ a = "ok" => <<id, "completed">> \in view.settled
               /\ a = "refused" => <<id, "failed">> \in view.settled
               /\ a = "unrecorded" =>
                      \A o \in Settlements : <<id, o>> \notin view.settled

\* A step that records no effect, tells of none and admits nobody.
LEMMA EffectsQuiet ==
    ASSUME EffectsInv, view'.effects = view.effects, view'.settled = view.settled,
           told' = told, ran \subseteq ran',
           \A t \in Threads :
               /\ pc'[t] = "admitted" => pc[t] = "admitted" /\ call'[t] = call[t]
               /\ pc'[t] \in InAct => pc[t] \in InAct /\ held'[t] = held[t]
               /\ pc'[t] = "completed" => pc[t] = "completed" \/ held[t].id \in ran'
    PROVE  EffectsInv'
<1>1. \A t \in Threads :
          /\ pc'[t] = "admitted" => Original(call[t])' = {}
          /\ pc'[t] \in InAct =>
                 /\ held'[t] \in view'.effects
                 /\ \A o \in Settlements : <<held'[t].id, o>> \notin view'.settled
                 /\ \A a \in Replies : <<held'[t].id, a>> \notin told'
          /\ pc'[t] = "completed" => held'[t].id \in ran'
  BY DEF EffectsInv, Original, OriginalInvoke, InAct
<1>. QED  BY <1>1 DEF EffectsInv

\* Who is admitted to invoke found no reservation under its key.
LEMMA AdmitEffects ==
    ASSUME TypeInv, EffectsInv, NEW t \in Threads, Admit(t)
    PROVE  EffectsInv'
<1>1. /\ call' = call /\ held' = held /\ pc'[t] = "admitted"
      /\ \A u \in Threads : u # t => pc'[u] = pc[u]
      /\ view' = view /\ told' = told /\ ran' = ran
      /\ Original(call[t]) = {}
  BY DEF Admit, Goto, History, TypeInv, ThreadsOK
<1>2. \A u \in Threads :
          /\ pc'[u] = "admitted" => Original(call[u])' = {}
          /\ pc'[u] \in InAct => pc[u] \in InAct /\ pc'[u] = pc[u]
  BY <1>1 DEF EffectsInv, Original, OriginalInvoke, InAct
<1>. QED  BY <1>1, <1>2 DEF EffectsInv, InAct

\* A reservation is the only one under its key: nobody else reserved between
\* the lookup and the append.
LEMMA ReserveEffects ==
    ASSUME TypeInv, Mutex, EffectsInv, NEW t \in Threads, Reserve(t)
    PROVE  EffectsInv'
<1>. DEFINE e == held'[t]
<1>1. /\ e \in EffectEvent /\ e.id \in Ids /\ Named(view.effects, e.id) = {}
      /\ e.grant = call[t].id /\ e.key = call[t].key
      /\ e.principal = call[t].principal /\ e.op = call[t].op
      /\ view'.effects = view.effects \cup {e} /\ view'.settled = view.settled
      /\ call[t] \in Menu /\ call[t].kind \in {"observe", "invoke"}
      /\ pc[t] = "admitted" /\ pc'[t] = "reserved" /\ told' = told /\ ran' = ran
      /\ \A u \in Threads : u # t => pc'[u] = pc[u] /\ held'[u] = held[u]
  BY Reserving DEF History
<1>. HIDE DEF e
<1>2. \A f \in view.effects : f.id # e.id
  BY <1>1 DEF Named
<1>3. e.op # "observe" =>
          \A f \in view.effects :
              ~ (/\ f.op # "observe" /\ f.principal = e.principal
                 /\ f.grant = e.grant /\ f.key = e.key)
  BY <1>1, CallFields DEF EffectsInv, Original, OriginalInvoke
<1>4. \A u \in Threads : u # t => pc'[u] \notin {"admitted"} \cup InAct
  BY <1>1 DEF Mutex, Holding
<1>5. /\ \A o \in Settlements : <<e.id, o>> \notin view.settled
      /\ \A a \in Replies : <<e.id, a>> \notin told
  BY <1>1, <1>2 DEF EffectsInv
<1>6. \A u \in Threads :
          /\ pc'[u] = "admitted" => Original(call[u])' = {}
          /\ pc'[u] \in InAct =>
                 /\ held'[u] \in view'.effects
                 /\ \A o \in Settlements : <<held'[u].id, o>> \notin view'.settled
                 /\ \A a \in Replies : <<held'[u].id, a>> \notin told'
          /\ pc'[u] = "completed" => held'[u].id \in ran'
  BY <1>1, <1>4, <1>5 DEF InAct, e
<1>7. \A f, g \in view'.effects :
          /\ f.op # "observe" /\ g.op # "observe"
          /\ f.principal = g.principal /\ f.grant = g.grant /\ f.key = g.key
          => f = g
  BY <1>1, <1>3 DEF EffectsInv
<1>. QED  BY <1>1, <1>6, <1>7 DEF EffectsInv

\* An act settles once, and is told of as it settled.
LEMMA SettleEffects ==
    ASSUME TypeInv, Mutex, EffectsInv, NEW t \in Threads, Settle(t)
    PROVE  EffectsInv'
<1>. DEFINE id == held[t].id
            o == pc[t]
            a == IF pc[t] = "completed" THEN "ok" ELSE "refused"
<1>1. /\ view'.effects = view.effects
      /\ view'.settled = view.settled \cup {<<id, o>>}
      /\ told' = told \cup {<<id, a>>} /\ ran' = ran
      /\ o \in Settlements /\ a \in Replies /\ id \in Ids
  BY Settling DEF Settle, Replies, EffectEvent
<1>2. /\ held[t] \in view.effects
      /\ \A x \in Settlements : <<id, x>> \notin view.settled
      /\ \A x \in Replies : <<id, x>> \notin told
      /\ o = "completed" => id \in ran
  BY <1>1 DEF EffectsInv, InAct, Settlements
<1>3. \A u \in Threads : pc'[u] \notin {"admitted"} \cup InAct
  <2>1. \A u \in Threads : u # t => pc[u] \notin {"admitted"} \cup InAct
    BY <1>1 DEF Mutex, Holding, InAct, Settlements
  <2>. QED  BY <2>1, LeaveTypes DEF Settle, TypeInv, InAct
<1>4. /\ a = "ok" => o = "completed"
      /\ a = "refused" => o = "failed"
      /\ a # "unrecorded"
  BY <1>1 DEF Settlements
<1>. HIDE DEF id, o, a
<1>5. \A i \in Ids, x \in Settlements :
          <<i, x>> \in view'.settled => /\ \E e \in view'.effects : e.id = i
                                        /\ x = "completed" => i \in ran'
  BY <1>1, <1>2 DEF EffectsInv, id
<1>6. \A i \in Ids, x \in Replies :
          <<i, x>> \in told' =>
              /\ \E e \in view'.effects : e.id = i
              /\ x = "ok" => <<i, "completed">> \in view'.settled
              /\ x = "refused" => <<i, "failed">> \in view'.settled
              /\ x = "unrecorded" =>
                     \A y \in Settlements : <<i, y>> \notin view'.settled
  BY <1>1, <1>2, <1>4 DEF EffectsInv, id
<1>. QED  BY <1>1, <1>3, <1>5, <1>6 DEF EffectsInv, InAct

\* A retry is told what the stream holds; nobody is about to change it, for the
\* retry holds the lock.
LEMMA ReplayEffects ==
    ASSUME TypeInv, Mutex, EffectsInv, NEW t \in Threads, Replay(t)
    PROVE  EffectsInv'
<1>1. /\ view' = view /\ ran' = ran /\ Leave(t) /\ pc[t] = "locked"
  BY DEF Replay, At
<1>2. PICK e \in view.effects : told' = told \/ told' = told \cup {<<e.id, Recorded(e)>>}
  BY DEF Replay, Original, OriginalInvoke
<1>3. e.id \in Ids /\ Recorded(e) \in Replies
  BY DEF TypeInv, Stream, EffectEvent, Recorded, Replies
<1>4. \A u \in Threads : pc'[u] \notin {"admitted"} \cup InAct
  <2>1. \A u \in Threads : u # t => pc[u] \notin {"admitted"} \cup InAct
    BY <1>1 DEF Mutex, Holding
  <2>. QED  BY <1>1, <2>1, LeaveTypes DEF TypeInv, InAct
<1>5. /\ Recorded(e) = "ok" => <<e.id, "completed">> \in view.settled
      /\ Recorded(e) = "refused" => <<e.id, "failed">> \in view.settled
      /\ Recorded(e) = "unrecorded" =>
             \A o \in Settlements : <<e.id, o>> \notin view.settled
  BY DEF Recorded, Settlements
<1>6. \A i \in Ids, x \in Replies :
          <<i, x>> \in told' =>
              /\ \E f \in view.effects : f.id = i
              /\ x = "ok" => <<i, "completed">> \in view.settled
              /\ x = "refused" => <<i, "failed">> \in view.settled
              /\ x = "unrecorded" =>
                     \A y \in Settlements : <<i, y>> \notin view.settled
  BY <1>2, <1>3, <1>5 DEF EffectsInv
<1>. QED  BY <1>1, <1>4, <1>6 DEF EffectsInv, InAct

\* Every other answer, failures included, leaves the effects as they were.
LEMMA AwayEffects ==
    ASSUME TypeInv, EffectsInv, NEW t \in Threads, Leave(t),
           view' = view \/ EffectsKept, told' = told, ran \subseteq ran'
    PROVE  EffectsInv'
<1>1. \A u \in Threads :
          /\ pc'[u] = "admitted" => pc[u] = "admitted" /\ call'[u] = call[u]
          /\ pc'[u] \in InAct => pc[u] \in InAct /\ held'[u] = held[u]
          /\ pc'[u] = "completed" => pc[u] = "completed"
  BY LeaveTypes DEF TypeInv, InAct
<1>2. view'.effects = view.effects /\ view'.settled = view.settled
  BY DEF EffectsKept
<1>. QED  BY <1>1, <1>2, EffectsQuiet

\* Going on, where it is not to the device, leaves them as they were.
LEMMA GoneEffects ==
    ASSUME TypeInv, EffectsInv, NEW t \in Threads, NEW place, Goto(t, place),
           view' = view, told' = told, ran \subseteq ran',
           place # "admitted", place \in InAct => pc[t] \in InAct,
           place = "completed" => held[t].id \in ran'
    PROVE  EffectsInv'
<1>1. \A u \in Threads :
          /\ pc'[u] = "admitted" => pc[u] = "admitted" /\ call'[u] = call[u]
          /\ pc'[u] \in InAct => pc[u] \in InAct /\ held'[u] = held[u]
          /\ pc'[u] = "completed" => pc[u] = "completed" \/ held[u].id \in ran'
  BY DEF TypeInv, ThreadsOK, Goto, InAct
<1>. QED  BY <1>1, EffectsQuiet

\* Every step keeps the invariant about effects.
LEMMA EffectsStep ==
    ASSUME TypeInv, Mutex, EffectsInv, [Next]_vars
    PROVE  EffectsInv'
<1>1. ASSUME NEW t \in Threads, Step(t) \/ Fail(t)
      PROVE  EffectsInv'
  <2>1. CASE Answer(t) \/ RefuseLocked(t) \/ Fail(t)
    <3>1. Leave(t) /\ view' = view /\ told' = told /\ ran \subseteq ran'
      BY <2>1 DEF Answer, RefuseLocked, Fail, History
    <3>. QED  BY <3>1, AwayEffects
  <2>2. CASE \/ Request(t) \/ Grant(t) \/ Decline(t)
             \/ Propose(t) \/ RefuseProposal(t) \/ Expire(t)
    BY <2>2, UnlockedTypes, AwayEffects DEF History
  <2>3. CASE Revoke(t)
    <3>1. call[t].id \in Ids /\ view \in Stream
      BY <2>3, Serving, CallFields DEF Revoke, At, TypeInv
    <3>2. view' = view \/ EffectsKept
      BY <2>3, <3>1, EndAppends DEF Revoke, End, EffectsKept
    <3>. QED  BY <2>3, <3>2, AwayEffects DEF Revoke
  <2>4. CASE Pass(t) \/ FindExpired(t) \/ RevokeCheck(t)
    <3>1. PICK place \in {"append", "expire"} : Goto(t, place)
      BY <2>4 DEF Pass, FindExpired, RevokeCheck
    <3>2. view' = view /\ told' = told /\ ran' = ran
      BY <2>4 DEF Pass, FindExpired, RevokeCheck, History
    <3>. QED  BY <3>1, <3>2, GoneEffects DEF InAct
  <2>5. CASE Execute(t)
    <3>1. PICK place \in Settlements :
              /\ Goto(t, place)
              /\ ran' = ran \/ ran' = ran \cup {held[t].id}
              /\ place = "completed" => ran' = ran \cup {held[t].id}
      BY <2>5 DEF Execute, Settlements
    <3>2. view' = view /\ told' = told /\ pc[t] = "reserved"
      BY <2>5 DEF Execute
    <3>. QED  BY <3>1, <3>2, GoneEffects DEF InAct, Settlements
  <2>6. CASE Lock(t)
    <3>1. /\ view' = view /\ told' = told /\ ran' = ran
          /\ call' = call /\ held' = held
          /\ pc'[t] = "locked" /\ \A u \in Threads : u # t => pc'[u] = pc[u]
      BY <2>6 DEF Lock, History, TypeInv, ThreadsOK
    <3>. QED  BY <3>1, EffectsQuiet DEF InAct
  <2>. QED
    BY <1>1, <2>1, <2>2, <2>3, <2>4, <2>5, <2>6, AdmitEffects, ReserveEffects,
       SettleEffects, ReplayEffects, Zenon DEF Step
<1>2. ASSUME NEW t \in Threads, Start(t)
      PROVE  EffectsInv'
  <2>1. /\ view' = view /\ told' = told /\ ran' = ran /\ held' = held
        /\ pc'[t] \in {"checking", "locking"}
        /\ \A u \in Threads : u # t => pc'[u] = pc[u] /\ call'[u] = call[u]
    BY <1>2 DEF Start, History, TypeInv, ThreadsOK
  <2>. QED  BY <2>1, EffectsQuiet DEF InAct
<1>3. CASE Crash
  <2>1. /\ view' = view /\ told' = told /\ ran' = ran
        /\ \A t \in Threads : pc'[t] = "idle"
    BY <1>3 DEF Crash, History
  <2>. QED  BY <2>1, EffectsQuiet DEF InAct
<1>4. CASE Tick \/ (\E g \in Closable : SetGate(g)) \/ UNCHANGED vars
  <2>1. UNCHANGED <<view, told, ran, pc, call, held>>
    BY <1>4 DEF Tick, SetGate, History, vars
  <2>. QED  BY <2>1, EffectsQuiet
<1>. QED  BY <1>1, <1>2, <1>3, <1>4 DEF Next, Act

\* So it holds of every behaviour.
LEMMA EffectsInvHolds == Spec => [](TypeInv /\ EffectsInv)
<1>1. Init => Mutex /\ EffectsInv
  BY DEF Init, Empty, Mutex, Holding, EffectsInv, InAct
<1>2. TypeInv /\ Mutex /\ EffectsInv /\ [Next]_vars => EffectsInv'
  BY EffectsStep
<1>3. TypeInv /\ Mutex /\ [Next]_vars => Mutex'
  BY MutexStep
<1>. QED  BY <1>1, <1>2, <1>3, TypeInvHolds, PTL DEF Spec

\* One idempotency key reaches the device at most once in the life of the
\* stream, through any retries, failures and restarts: what is run was reserved,
\* and under the lock no second reservation is made for a key (grant.rs, invoke).
THEOREM OneRunPerKey == Spec => []RunsOnce
<1>1. EffectsInv => RunsOnce
  BY DEF EffectsInv, RunsOnce
<1>. QED  BY <1>1, EffectsInvHolds, PTL

\* No answer about an effect is ever contradicted, neither by the stream nor by
\* a later answer: acts settle once, and only while their thread holds the lock
\* (grant.rs, settle_effect and replay_outcome).
THEOREM AnswersStand == Spec => []AnswersAreFinal
<1>1. TypeInv /\ EffectsInv => AnswersAreFinal
  <2>. SUFFICES ASSUME TypeInv, EffectsInv PROVE AnswersAreFinal
    OBVIOUS
  <2>1. ASSUME NEW answer \in told
        PROVE  /\ answer[2] = "ok" =>
                      answer[1] \in ran /\ <<answer[1], "completed">> \in view.settled
               /\ answer[2] = "refused" => <<answer[1], "failed">> \in view.settled
               /\ answer[2] = "unrecorded" =>
                      \A o \in Settlements : <<answer[1], o>> \notin view.settled
    <3>1. PICK id \in Ids, a \in Replies : answer = <<id, a>>
      BY DEF TypeInv, HistoryOK, Replies
    <3>2. /\ a = "ok" => <<id, "completed">> \in view.settled
          /\ a = "refused" => <<id, "failed">> \in view.settled
          /\ a = "unrecorded" =>
                 \A o \in Settlements : <<id, o>> \notin view.settled
      BY <3>1 DEF EffectsInv
    <3>3. <<id, "completed">> \in view.settled => id \in ran
      BY DEF EffectsInv, Settlements
    <3>. QED  BY <3>1, <3>2, <3>3
  <2>. QED  BY <2>1 DEF AnswersAreFinal
<1>. QED  BY <1>1, EffectsInvHolds, PTL

-----------------------------------------------------------------------------
(* Until somebody proposes the stream loads.                               *)

NoProposals == \A t \in Threads : pc[t] # "idle" => call[t].kind # "propose"

\* Grants are of decided requests; who is to end a grant found it, and who is
\* admitted still finds it standing.
LoadInv ==
    /\ Loads(view)
    /\ view.proposals = {}
    /\ \A g \in view.grants : g.id \in view.decided
    /\ \A t \in Threads :
           /\ pc[t] = "append" => call[t].kind # "refuse"
           /\ \/ pc[t] = "append" /\ call[t].kind = "revoke"
              \/ pc[t] = "expire"
              => Named(view.grants, call[t].id) # {}
           /\ pc[t] = "admitted" => Live(view, call[t].id, call[t].principal)

\* A step that appends a legal row, or none, and takes no thread to an append.
LEMMA LoadKept ==
    ASSUME LoadInv, Loads(view'), view'.proposals = {},
           view.grants \subseteq view'.grants,
           \A g \in view'.grants : g.id \in view'.decided,
           \A t \in Threads :
               pc'[t] \in {"append", "expire", "admitted"} =>
                   pc'[t] = pc[t] /\ call'[t] = call[t],
           \/ view'.ended = view.ended
           \/ \A t \in Threads : pc'[t] # "admitted"
    PROVE  LoadInv'
<1>1. ASSUME NEW t \in Threads
      PROVE  /\ pc'[t] = "append" => call'[t].kind # "refuse"
             /\ \/ pc'[t] = "append" /\ call'[t].kind = "revoke"
                \/ pc'[t] = "expire"
                => Named(view'.grants, call'[t].id) # {}
             /\ pc'[t] = "admitted" => Live(view', call'[t].id, call'[t].principal)
  BY DEF LoadInv, Named, Live
<1>. QED  BY <1>1 DEF LoadInv

\* A thread goes on to an append, or into an act.
LEMMA GoneLoads ==
    ASSUME ThreadsOK, LoadInv, NEW t \in Threads, NEW place, Goto(t, place),
           view' = view,
           place = "append" => call[t].kind # "refuse",
           \/ place = "append" /\ call[t].kind = "revoke"
           \/ place = "expire"
           => Named(view.grants, call[t].id) # {},
           place = "admitted" => Live(view, call[t].id, call[t].principal)
    PROVE  LoadInv'
<1>1. /\ call' = call /\ pc'[t] = place
      /\ \A u \in Threads : u # t => pc'[u] = pc[u]
  BY DEF ThreadsOK, Goto
<1>. QED  BY <1>1 DEF LoadInv

\* A call is answered after it appended a legal row, or none.
LEMMA AwayLoads ==
    ASSUME ThreadsOK, LoadInv, NEW t \in Threads, Leave(t),
           Loads(view'), view'.proposals = {}, view.grants \subseteq view'.grants,
           \A g \in view'.grants : g.id \in view'.decided,
           \/ view'.ended = view.ended
           \/ \A u \in Threads : u # t => pc[u] # "admitted"
    PROVE  LoadInv'
<1>1. /\ pc'[t] = "idle"
      /\ \A u \in Threads : u # t => pc'[u] = pc[u] /\ call'[u] = call[u]
  BY LeaveTypes
<1>. QED  BY <1>1, LoadKept

\* A grant is ended by who found it, and holds the lock.
LEMMA EndLoads ==
    ASSUME TypeInv, Mutex, LoadInv, NoProposals, NEW t \in Threads,
           Revoke(t) \/ Expire(t)
    PROVE  LoadInv'
<1>. DEFINE c == call[t]
<1>1. /\ c \in Menu /\ Named(view.grants, c.id) # {} /\ view \in Stream
      /\ Leave(t) /\ view' = End(c.id)
  BY Serving DEF Revoke, Expire, At, TypeInv, LoadInv
<1>2. Holding(t)
  BY <1>1 DEF Revoke, Expire, At, Holding, Locked, TypeInv, Placed, Fits, NoProposals
<1>3. \A u \in Threads : u # t => pc[u] # "admitted"
  BY <1>2 DEF Mutex, Holding
<1>4. c.id \in Ids
  BY <1>1 DEF Named, Stream, GrantEvent
<1>5. /\ Loads(view') /\ view'.proposals = view.proposals
      /\ view'.grants = view.grants /\ view'.decided = view.decided
  <2>1. CASE c.id \in view.ended
    BY <1>1, <2>1 DEF End, LoadInv
  <2>2. CASE c.id \notin view.ended
    <3>1. view' = AppendEnd(view, c.id)
      BY <1>1, <2>2 DEF End
    <3>. QED  BY <1>1, <1>4, <2>2, <3>1, EndAppends DEF Loads, LoadInv
  <2>. QED  BY <2>1, <2>2
<1>. QED  BY <1>1, <1>3, <1>5, AwayLoads DEF TypeInv, LoadInv

\* Requests and decisions are appended at most once each.
LEMMA UnlockedLoads ==
    ASSUME TypeInv, LoadInv, NoProposals, NEW t \in Threads,
           Request(t) \/ Grant(t) \/ Decline(t) \/ Propose(t) \/ RefuseProposal(t)
    PROVE  LoadInv'
<1>. DEFINE c == call[t]
<1>1. /\ c \in Menu /\ view \in Stream /\ Leave(t) /\ pc[t] = "append"
  BY Serving DEF Request, Grant, Decline, Propose, RefuseProposal, At, TypeInv
<1>2. /\ Loads(view') /\ view'.proposals = {} /\ view.grants \subseteq view'.grants
      /\ \A g \in view'.grants : g.id \in view'.decided
      /\ view'.ended = view.ended
  <2>1. CASE Request(t)
    <3>1. c.principal \in Principals /\ c.key \in Keys
          /\ c.ops \in SUBSET Operations /\ c.asked \in Nat
      BY <1>1, <2>1, CallFields DEF Request, At
    <3>. DEFINE r == [id |-> Fresh(view.requests), principal |-> c.principal,
                      key |-> c.key, ops |-> c.ops, asked |-> c.asked]
    <3>2. r \in RequestEvent /\ Named(view.requests, r.id) = {}
      BY <2>1, <3>1, FreshIds DEF Request, RequestEvent
    <3>3. view' = view \/ view' = AppendRequest(view, r)
      BY <2>1 DEF Request
    <3>. HIDE DEF r
    <3>. QED  BY <1>1, <3>2, <3>3, RequestAppends DEF LoadInv, Loads
  <2>2. CASE Grant(t)
    <3>1. c.id \in Ids /\ c.ops \in SUBSET Operations /\ c.expires \in Nat
      BY <1>1, <2>2, CallFields DEF Grant, At
    <3>2. Asker(c.id) \in Principals /\ OwnRequest(view, c.id, Asker(c.id))
      BY <2>2, AskerIsPrincipal DEF Grant, At, TypeInv, Placed, Fits
    <3>. DEFINE g == [id |-> c.id, principal |-> Asker(c.id), ops |-> c.ops,
                      expires |-> c.expires]
    <3>3. g \in GrantEvent /\ g.id = c.id /\ g.principal = Asker(c.id)
      BY <3>1, <3>2 DEF GrantEvent
    <3>4. view' = view \/ (c.id \notin view.decided /\ view' = AppendGrant(view, g))
      BY <2>2 DEF Grant
    <3>. HIDE DEF g
    <3>5. c.id \notin view.decided => Named(view.grants, c.id) = {}
      BY DEF LoadInv, Named
    <3>. QED  BY <1>1, <3>2, <3>3, <3>4, <3>5, GrantAppends DEF LoadInv, Loads
  <2>3. CASE Decline(t)
    <3>1. c.id \in Ids
      BY <1>1, <2>3, CallFields DEF Decline, At
    <3>2. Asker(c.id) \in Principals /\ OwnRequest(view, c.id, Asker(c.id))
      BY <2>3, AskerIsPrincipal DEF Decline, At, TypeInv, Placed, Fits
    <3>3. \/ view' = view
          \/ c.id \notin view.decided /\ view' = AppendDecline(view, c.id, Asker(c.id))
      BY <2>3 DEF Decline
    <3>. QED  BY <1>1, <3>1, <3>2, <3>3, DeclineAppends DEF LoadInv, Loads
  <2>4. CASE Propose(t)
    BY <1>1, <2>4 DEF Propose, At, NoProposals
  <2>5. CASE RefuseProposal(t)
    BY <1>1, <2>5 DEF RefuseProposal, At, LoadInv
  <2>. QED  BY <2>1, <2>2, <2>3, <2>4, <2>5
<1>. QED  BY <1>1, <1>2, AwayLoads DEF TypeInv

\* Checks that lead to an append, or into an act.
LEMMA CheckLoads ==
    ASSUME TypeInv, LoadInv, NoProposals, NEW t \in Threads,
           Pass(t) \/ RevokeCheck(t) \/ FindExpired(t) \/ Admit(t) \/ Execute(t)
    PROVE  LoadInv'
<1>1. CASE Pass(t)
  <2>1. call[t].kind \notin {"refuse", "revoke"}
    BY <1>1 DEF Pass, Passes, RefusePasses, Named, LoadInv
  <2>. QED  BY <1>1, <2>1, GoneLoads DEF Pass, TypeInv
<1>2. CASE RevokeCheck(t)
  BY <1>2, GoneLoads DEF RevokeCheck, At, RevokePasses, TypeInv
<1>3. CASE FindExpired(t)
  <2>1. EffectFindsExpired(call[t], now[t])
    BY <1>3, Serving DEF FindExpired, At, NoProposals, TypeInv
  <2>2. Named(view.grants, call[t].id) # {}
    BY <2>1 DEF EffectFindsExpired, Standing, Resolve, Named
  <2>. QED  BY <1>3, <2>2, GoneLoads DEF FindExpired, TypeInv
<1>4. CASE Admit(t)
  <2>1. Live(view, call[t].id, call[t].principal)
    BY <1>4 DEF Admit, Admitted, Authorized, Standing, Resolve, Live
  <2>. QED  BY <1>4, <2>1, GoneLoads DEF Admit, TypeInv
<1>5. CASE Execute(t)
  BY <1>5, GoneLoads DEF Execute, Settlements, TypeInv
<1>. QED  BY <1>1, <1>2, <1>3, <1>4, <1>5

\* Every step of a daemon without proposals keeps the stream legal.
LEMMA LoadStep ==
    ASSUME TypeInv, Mutex, EffectsInv, LoadInv, NoProposals, [Next]_vars
    PROVE  LoadInv'
<1>1. ASSUME NEW t \in Threads, Step(t) \/ Fail(t)
      PROVE  LoadInv'
  <2>1. CASE Answer(t) \/ RefuseLocked(t) \/ Replay(t) \/ Fail(t)
    <3>1. Leave(t) /\ view' = view
      BY <2>1 DEF Answer, RefuseLocked, Replay, Fail
    <3>. QED  BY <3>1, AwayLoads DEF TypeInv, LoadInv
  <2>2. CASE Lock(t)
    <3>1. /\ view' = view /\ call' = call /\ pc'[t] = "locked"
          /\ \A u \in Threads : u # t => pc'[u] = pc[u]
      BY <2>2 DEF Lock, TypeInv, ThreadsOK
    <3>. QED  BY <3>1, LoadKept DEF LoadInv
  <2>3. CASE Reserve(t)
    <3>1. /\ Loads(view') /\ view'.proposals = {} /\ view'.ended = view.ended
          /\ view'.grants = view.grants /\ view'.decided = view.decided
          /\ pc'[t] = "reserved" /\ call' = call
          /\ \A u \in Threads : u # t => pc'[u] = pc[u]
      BY <2>3, Reserving DEF LoadInv, Loads
    <3>. QED  BY <3>1, LoadKept DEF LoadInv
  <2>4. CASE Settle(t)
    <3>1. /\ held[t] \in view.effects
          /\ \A o \in Settlements : <<held[t].id, o>> \notin view.settled
      BY <2>4 DEF Settle, EffectsInv, InAct, Settlements
    <3>2. /\ Loads(view') /\ view'.proposals = {} /\ view'.ended = view.ended
          /\ view'.grants = view.grants /\ view'.decided = view.decided
      BY <2>4, <3>1, Settling DEF LoadInv, Loads
    <3>. QED  BY <2>4, <3>2, AwayLoads DEF Settle, TypeInv, LoadInv
  <2>. QED
    BY <1>1, <2>1, <2>2, <2>3, <2>4, EndLoads, UnlockedLoads, CheckLoads, Zenon
       DEF Step
<1>2. ASSUME NEW t \in Threads, Start(t)
      PROVE  LoadInv'
  <2>1. /\ view' = view /\ pc'[t] \in {"checking", "locking"}
        /\ \A u \in Threads : u # t => pc'[u] = pc[u] /\ call'[u] = call[u]
    BY <1>2 DEF Start, TypeInv, ThreadsOK
  <2>. QED  BY <2>1, LoadKept DEF LoadInv
<1>3. CASE Crash
  <2>1. view' = view /\ \A t \in Threads : pc'[t] = "idle"
    BY <1>3 DEF Crash
  <2>. QED  BY <2>1, LoadKept DEF LoadInv
<1>4. CASE Tick \/ (\E g \in Closable : SetGate(g)) \/ UNCHANGED vars
  <2>1. UNCHANGED <<view, pc, call>>
    BY <1>4 DEF Tick, SetGate, vars
  <2>. QED  BY <2>1, LoadKept DEF LoadInv
<1>. QED  BY <1>1, <1>2, <1>3, <1>4 DEF Next, Act

UnproposedInv == ~proposed => LoadInv /\ NoProposals

\* Until somebody proposes the stream loads: every append of a request,
\* decision, end, reservation or settlement could follow what is there, whoever
\* else is appending (partner_act.rs, validate_sequence).  So the proposals,
\* checked and appended without the lock, are the only calls that can break it.
THEOREM LoadsUntilProposed == Spec => []LoadsUnproposed
<1>1. Init => Mutex /\ EffectsInv /\ UnproposedInv
  BY DEF Init, Empty, Mutex, Holding, EffectsInv, InAct, UnproposedInv, LoadInv, Loads,
         NoProposals
<1>2. TypeInv /\ Mutex /\ [Next]_vars => Mutex'
  BY MutexStep
<1>3. TypeInv /\ Mutex /\ EffectsInv /\ [Next]_vars => EffectsInv'
  BY EffectsStep
<1>4. TypeInv /\ Mutex /\ EffectsInv /\ UnproposedInv /\ [Next]_vars => UnproposedInv'
  <2> SUFFICES ASSUME TypeInv, Mutex, EffectsInv, UnproposedInv, [Next]_vars, ~proposed'
      PROVE  LoadInv' /\ NoProposals'
    BY DEF UnproposedInv
  <2>1. ~proposed /\ NoProposals'
    <3>1. CASE Next
      BY <3>1 DEF Next, Act, Proposes, NoProposals
    <3>2. CASE UNCHANGED vars
      BY <3>2 DEF vars, NoProposals, UnproposedInv
    <3> QED BY <3>1, <3>2
  <2> QED BY <2>1, LoadStep DEF UnproposedInv
<1>5. UnproposedInv => LoadsUnproposed
  BY DEF UnproposedInv, LoadInv, LoadsUnproposed, StreamLoads
<1>. QED  BY <1>1, <1>2, <1>3, <1>4, <1>5, TypeInvHolds, PTL DEF Spec
=============================================================================
