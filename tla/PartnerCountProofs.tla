------------------------- MODULE PartnerCountProofs -------------------------
(***************************************************************************)
(* Proofs about what the authority ladder counts, for any number of        *)
(* concurrent calls, any menu and any bounds: each key stores one row, a   *)
(* partner's open rows overshoot their ceiling by less than one for each   *)
(* call, and no hour holds more invocations of a grant than were allowed.  *)
(***************************************************************************)
EXTENDS PartnerLedgerProofs, FiniteSetTheorems

-----------------------------------------------------------------------------
(* Which rows a step appends.                                              *)

\* A request is appended once its key was found unused, by the append itself.
LEMMA Requesting ==
    ASSUME TypeInv, NEW t \in Threads, Request(t)
    PROVE  /\ call[t].kind = "request" /\ call[t].principal \in Principals
           /\ pc[t] = "append" /\ Leave(t)
           /\ \/ view' = view
              \/ \E r \in RequestEvent :
                     /\ r.principal = call[t].principal /\ r.key = call[t].key
                     /\ OriginalRequest(view, r.principal, r.key) = {}
                     /\ view'.requests = view.requests \cup {r}
                     /\ view'.decided = view.decided
                     /\ view'.proposals = view.proposals
                     /\ view'.closed = view.closed
<1>. DEFINE c == call[t]
<1>1. /\ c \in Menu /\ view \in Stream /\ pc[t] = "append" /\ c.kind = "request"
      /\ Leave(t)
  BY Serving DEF Request, At, TypeInv
<1>2. /\ c.principal \in Principals /\ c.key \in Keys /\ c.ops \in SUBSET Operations
      /\ c.asked \in Nat
  BY <1>1, CallFields
<1>. DEFINE r == [id |-> Fresh(view.requests), principal |-> c.principal,
                  key |-> c.key, ops |-> c.ops, asked |-> c.asked]
<1>3. r \in RequestEvent /\ r.principal = c.principal /\ r.key = c.key
  BY <1>2, FreshIds DEF Request, RequestEvent
<1>4. \/ view' = view
      \/ /\ view' = AppendRequest(view, r)
         /\ OriginalRequest(view, c.principal, c.key) = {}
  BY DEF Request
<1>. HIDE DEF r
<1>5. view' = view \/ /\ OriginalRequest(view, r.principal, r.key) = {}
                      /\ view'.requests = view.requests \cup {r}
                      /\ view'.decided = view.decided
                      /\ view'.proposals = view.proposals
                      /\ view'.closed = view.closed
  BY <1>1, <1>3, <1>4, RequestAppends
<1>. QED  BY <1>1, <1>2, <1>3, <1>5

\* So is a proposal.
LEMMA Proposing ==
    ASSUME TypeInv, NEW t \in Threads, Propose(t)
    PROVE  /\ call[t].kind = "propose" /\ call[t].principal \in Principals
           /\ pc[t] = "append" /\ Leave(t)
           /\ \/ view' = view
              \/ \E x \in ProposalEvent :
                     /\ x.principal = call[t].principal /\ x.key = call[t].key
                     /\ OriginalProposal(view, x.principal, x.key) = {}
                     /\ view'.proposals = view.proposals \cup {x}
                     /\ view'.closed = view.closed
                     /\ view'.requests = view.requests
                     /\ view'.decided = view.decided
<1>. DEFINE c == call[t]
<1>1. /\ c \in Menu /\ view \in Stream /\ pc[t] = "append" /\ c.kind = "propose"
      /\ Leave(t)
  BY Serving DEF Propose, At, TypeInv
<1>2. /\ c.principal \in Principals /\ c.key \in Keys /\ c.op \in Operations
      /\ c.id \in Ids
  BY <1>1, CallFields DEF Calls
<1>. DEFINE x == [id |-> Fresh(view.proposals), principal |-> c.principal,
                  key |-> c.key, grant |-> c.id, op |-> c.op]
<1>3. x \in ProposalEvent /\ x.principal = c.principal /\ x.key = c.key
  BY <1>2, FreshIds DEF Propose, ProposalEvent
<1>4. \/ view' = view
      \/ /\ view' = AppendProposal(view, x)
         /\ OriginalProposal(view, c.principal, c.key) = {}
  BY DEF Propose
<1>. HIDE DEF x
<1>5. view' = view \/ /\ OriginalProposal(view, x.principal, x.key) = {}
                      /\ view'.proposals = view.proposals \cup {x}
                      /\ view'.closed = view.closed
                      /\ view'.requests = view.requests
                      /\ view'.decided = view.decided
  BY <1>1, <1>3, <1>4, ProposalAppends
<1>. QED  BY <1>1, <1>2, <1>3, <1>5

\* Nobody asks or proposes anew, and nothing decided or refused reopens.
RowsKept == /\ view'.requests = view.requests
            /\ view'.decided \in SUBSET Ids /\ view.decided \subseteq view'.decided
            /\ view'.proposals = view.proposals
            /\ view'.closed \in SUBSET Ids /\ view.closed \subseteq view'.closed

\* Every other step keeps those rows.
LEMMA OthersKeepRows ==
    ASSUME TypeInv, [Next]_vars,
           \A t \in Threads : ~Request(t) /\ ~Propose(t)
    PROVE  RowsKept
<1>. DEFINE S == view
<1>s. view \in Stream /\ view.decided \in SUBSET Ids /\ view.closed \in SUBSET Ids
  BY DEF TypeInv, Stream
<1>q. ASSUME view' = view PROVE RowsKept
  BY <1>q, <1>s DEF RowsKept
<1>1. ASSUME NEW t \in Threads, Grant(t)
      PROVE  RowsKept
  <2>. DEFINE c == call[t]
  <2>1. /\ c \in Menu /\ c.kind = "grant"
    BY <1>1, Serving DEF Grant, At, TypeInv
  <2>2. /\ c.id \in Ids /\ c.ops \in SUBSET Operations /\ c.expires \in Nat
        /\ Asker(c.id) \in Principals
    BY <1>1, <2>1, CallFields, AskerIsPrincipal DEF Grant, At, TypeInv, Placed, Fits
  <2>. DEFINE g == [id |-> c.id, principal |-> Asker(c.id), ops |-> c.ops,
                    expires |-> c.expires]
  <2>3. g \in GrantEvent /\ g.id \in Ids
    BY <2>2 DEF GrantEvent
  <2>4. view' = view \/ view' = AppendGrant(view, g)
    BY <1>1 DEF Grant
  <2>. HIDE DEF g
  <2>. QED  BY <1>s, <1>q, <2>3, <2>4, GrantAppends DEF RowsKept
<1>2. ASSUME NEW t \in Threads, Decline(t)
      PROVE  RowsKept
  <2>. DEFINE c == call[t]
  <2>1. /\ c \in Menu /\ c.kind = "decline"
    BY <1>2, Serving DEF Decline, At, TypeInv
  <2>2. c.id \in Ids /\ Asker(c.id) \in Principals
    BY <1>2, <2>1, CallFields, AskerIsPrincipal DEF Decline, At, TypeInv, Placed, Fits
  <2>3. view' = view \/ view' = AppendDecline(view, c.id, Asker(c.id))
    BY <1>2 DEF Decline
  <2>. QED  BY <1>s, <1>q, <2>2, <2>3, DeclineAppends DEF RowsKept
<1>3. ASSUME NEW t \in Threads, RefuseProposal(t)
      PROVE  RowsKept
  <2>1. call[t].id \in Ids
    BY <1>3, Serving, CallFields DEF RefuseProposal, At, TypeInv
  <2>2. view' = view \/ view' = AppendRefusal(view, call[t].id)
    BY <1>3 DEF RefuseProposal
  <2>. QED  BY <1>s, <1>q, <2>1, <2>2, RefusalAppends DEF RowsKept
<1>4. ASSUME NEW t \in Threads, Expire(t) \/ Revoke(t)
      PROVE  RowsKept
  <2>1. call[t].id \in Ids
    BY <1>4, Serving, CallFields DEF Expire, Revoke, At, TypeInv, Placed, Fits
  <2>2. view' = view \/ view' = AppendEnd(view, call[t].id)
    BY <1>4 DEF Expire, Revoke, End
  <2>. QED  BY <1>s, <1>q, <2>1, <2>2, EndAppends DEF RowsKept
<1>5. ASSUME NEW t \in Threads, Reserve(t)
      PROVE  RowsKept
  <2>1. PICK e \in EffectEvent : view' = AppendReservation(view, e)
    <3>. DEFINE c == call[t]
                e == [id |-> Fresh(view.effects), principal |-> c.principal,
                      key |-> c.key, grant |-> c.id, op |-> c.op, at |-> now[t]]
    <3>1. c \in Menu /\ c.kind \in {"observe", "invoke"}
      BY <1>5, Serving DEF Reserve, TypeInv, Placed, Fits
    <3>2. /\ c.id \in Ids /\ c.principal \in Principals /\ c.op \in Operations
          /\ c.key \in Keys \cup {None} /\ now[t] \in Nat
          /\ Fresh(view.effects) \in Ids
      BY <1>5, <3>1, CallFields, FreshIds DEF Reserve, TypeInv, ThreadsOK
    <3>3. e \in EffectEvent
      BY <3>2 DEF EffectEvent
    <3>. QED  BY <1>5, <3>3 DEF Reserve
  <2>. QED  BY <1>s, <2>1, ReservationAppends DEF RowsKept
<1>6. ASSUME NEW t \in Threads, Settle(t)
      PROVE  RowsKept
  <2>1. held[t] \in EffectEvent /\ pc[t] \in Settlements
    BY <1>6, Settling
  <2>2. view' = AppendSettlement(view, held[t], pc[t])
    BY <1>6 DEF Settle
  <2>. QED  BY <1>s, <2>1, <2>2, SettlementAppends DEF RowsKept
<1>7. ASSUME NEW t \in Threads,
             \/ Start(t) \/ Pass(t) \/ Answer(t) \/ FindExpired(t) \/ Lock(t)
             \/ RevokeCheck(t) \/ Replay(t) \/ Admit(t) \/ RefuseLocked(t)
             \/ Execute(t) \/ Fail(t)
      PROVE  RowsKept
  <2>1. view' = view
    BY <1>7 DEF Start, Pass, Answer, FindExpired, Lock, RevokeCheck, Replay,
                Admit, RefuseLocked, Execute, Fail
  <2>. QED  BY <2>1, <1>q
<1>8. CASE Crash \/ Tick \/ (\E g \in Closable : SetGate(g)) \/ UNCHANGED vars
  <2>1. view' = view
    BY <1>8 DEF Crash, Tick, SetGate, vars
  <2>. QED  BY <2>1, <1>q
<1>. QED
  BY <1>1, <1>2, <1>3, <1>4, <1>5, <1>6, <1>7, <1>8, Zenon DEF Next, Act, Step

-----------------------------------------------------------------------------
(* One row under a key.                                                    *)

\* A retried or raced request or proposal is stored once under its key, for
\* the append looks the key up again (partner_act.rs, append_idempotent).
THEOREM RowsAreStoredOnce == Spec => []StoredOnce
<1>1. Init => StoredOnce
  BY DEF Init, Empty, StoredOnce
<1>2. TypeInv /\ StoredOnce /\ [Next]_vars => StoredOnce'
  <2>. SUFFICES ASSUME TypeInv, StoredOnce, [Next]_vars PROVE StoredOnce'
    OBVIOUS
  <2>1. CASE \A t \in Threads : ~Request(t) /\ ~Propose(t)
    BY <2>1, OthersKeepRows DEF RowsKept, StoredOnce
  <2>2. ASSUME NEW t \in Threads, Request(t)
        PROVE  StoredOnce'
    <3>1. CASE view' = view
      BY <3>1 DEF StoredOnce
    <3>2. CASE view' # view
      <4>1. PICK r \in RequestEvent :
                /\ OriginalRequest(view, r.principal, r.key) = {}
                /\ view'.requests = view.requests \cup {r}
                /\ view'.proposals = view.proposals
        BY <2>2, <3>2, Requesting
      <4>2. \A a \in view.requests : ~(a.principal = r.principal /\ a.key = r.key)
        BY <4>1 DEF OriginalRequest
      <4>. QED  BY <4>1, <4>2 DEF StoredOnce
    <3>. QED  BY <3>1, <3>2
  <2>3. ASSUME NEW t \in Threads, Propose(t)
        PROVE  StoredOnce'
    <3>1. CASE view' = view
      BY <3>1 DEF StoredOnce
    <3>2. CASE view' # view
      <4>1. PICK x \in ProposalEvent :
                /\ OriginalProposal(view, x.principal, x.key) = {}
                /\ view'.proposals = view.proposals \cup {x}
                /\ view'.requests = view.requests
        BY <2>3, <3>2, Proposing
      <4>2. \A a \in view.proposals : ~(a.principal = x.principal /\ a.key = x.key)
        BY <4>1 DEF OriginalProposal
      <4>. QED  BY <4>1, <4>2 DEF StoredOnce
    <3>. QED  BY <3>1, <3>2
  <2>. QED  BY <2>1, <2>2, <2>3
<1>. QED  BY <1>1, <1>2, TypeInvHolds, PTL DEF Spec

-----------------------------------------------------------------------------
(* Where a step takes a thread.                                            *)

\* Who stands before an append or an act was there before, for the same call
\* of the same time, or has just passed the check.
LEMMA Arrivals ==
    ASSUME TypeInv, [Next]_vars, NEW u \in Threads
    PROVE  /\ pc'[u] = "append" =>
                  /\ call'[u] = call[u]
                  /\ pc[u] = "append" \/ Pass(u) \/ call[u].kind = "revoke"
           /\ pc'[u] = "admitted" =>
                  /\ call'[u] = call[u] /\ now'[u] = now[u]
                  /\ pc[u] = "admitted" \/ Admit(u)
<1>. DEFINE Good == /\ pc'[u] = "append" =>
                           /\ call'[u] = call[u]
                           /\ pc[u] = "append" \/ Pass(u) \/ call[u].kind = "revoke"
                    /\ pc'[u] = "admitted" =>
                           /\ call'[u] = call[u] /\ now'[u] = now[u]
                           /\ pc[u] = "admitted" \/ Admit(u)
<1>t. ThreadsOK
  BY DEF TypeInv
<1>1. ASSUME NEW t \in Threads, Leave(t)
      PROVE  Good
  BY <1>t, <1>1 DEF Leave, ThreadsOK
<1>2. ASSUME NEW t \in Threads, Start(t)
      PROVE  Good
  BY <1>t, <1>2 DEF Start, ThreadsOK
<1>3. ASSUME NEW t \in Threads, NEW place, Goto(t, place),
             place = "append" => Pass(t) \/ call[t].kind = "revoke",
             place = "admitted" => Admit(t)
      PROVE  Good
  BY <1>t, <1>3 DEF Goto, ThreadsOK
<1>4. ASSUME NEW t \in Threads, Lock(t) \/ Reserve(t)
      PROVE  Good
  BY <1>t, <1>4 DEF Lock, Reserve, ThreadsOK
<1>5. ASSUME NEW t \in Threads,
             Pass(t) \/ FindExpired(t) \/ RevokeCheck(t) \/ Admit(t) \/ Execute(t)
      PROVE  Good
  <2>1. PICK place : /\ Goto(t, place)
                     /\ place = "append" => Pass(t) \/ call[t].kind = "revoke"
                     /\ place = "admitted" => Admit(t)
    BY <1>5 DEF Pass, FindExpired, RevokeCheck, Admit, Execute, At, Settlements
  <2>. QED  BY <2>1, <1>3
<1>6. ASSUME NEW t \in Threads, Step(t) \/ Fail(t)
      PROVE  Good
  <2>1. CASE Leave(t)
    BY <2>1, <1>1
  <2>2. CASE ~Leave(t)
    BY <2>2, <1>4, <1>5, <1>6, Zenon
       DEF Step, Fail, Answer, Request, Grant, Decline, Propose, RefuseProposal,
           Expire, Revoke, Replay, RefuseLocked, Settle
  <2>. QED  BY <2>1, <2>2
<1>7. CASE Crash
  BY <1>7 DEF Crash
<1>8. CASE Tick \/ (\E g \in Closable : SetGate(g)) \/ UNCHANGED vars
  BY <1>8 DEF Tick, SetGate, vars
<1>9. Good
  BY <1>2, <1>6, <1>7, <1>8 DEF Next, Act
<1>. QED  BY <1>9

-----------------------------------------------------------------------------
(* Ceilings.                                                               *)

\* One element makes a finite set larger by one at the most.
LEMMA OneMore ==
    ASSUME NEW S, IsFiniteSet(S), NEW x
    PROVE  /\ IsFiniteSet(S \cup {x}) /\ Cardinality(S \cup {x}) \in Nat
           /\ Cardinality(S \cup {x}) <= Cardinality(S) + 1
<1>1. /\ IsFiniteSet(S \cup {x})
      /\ Cardinality(S \cup {x}) = IF x \in S THEN Cardinality(S) ELSE Cardinality(S) + 1
  BY FS_AddElement
<1>2. Cardinality(S) \in Nat
  BY FS_CardinalityType
<1>. QED  BY <1>1, <1>2

\* What is open and who is about to add to it stay below the ceiling and one
\* for each thread: when both shrink, when somebody has just seen room, and
\* when somebody adds one.
LEMMA CeilingKept ==
    ASSUME NEW O, IsFiniteSet(O), NEW O2, NEW D, D \subseteq Threads,
           NEW D2, D2 \subseteq Threads, NEW max \in Nat,
           Cardinality(O) + Cardinality(D) < max + Cardinality(Threads),
           \/ O2 \subseteq O /\ D2 \subseteq D
           \/ O2 \subseteq O /\ Cardinality(O) < max
           \/ \E x : \E y \in D : O2 \subseteq O \cup {x} /\ D2 \subseteq D \ {y}
    PROVE  Cardinality(O2) + Cardinality(D2) < max + Cardinality(Threads)
<1>1. /\ IsFiniteSet(D) /\ IsFiniteSet(D2)
      /\ Cardinality(D2) <= Cardinality(Threads)
      /\ Cardinality(O) \in Nat /\ Cardinality(D) \in Nat
      /\ Cardinality(D2) \in Nat /\ Cardinality(Threads) \in Nat
  BY ThreadAssumption, FS_Subset, FS_CardinalityType
<1>2. CASE O2 \subseteq O /\ (D2 \subseteq D \/ Cardinality(O) < max)
  <2>1. Cardinality(O2) <= Cardinality(O) /\ Cardinality(O2) \in Nat
    BY <1>2, FS_Subset, FS_CardinalityType
  <2>2. D2 \subseteq D => Cardinality(D2) <= Cardinality(D)
    BY <1>1, FS_Subset
  <2>. QED  BY <1>1, <1>2, <2>1, <2>2
<1>3. CASE \E x : \E y \in D : O2 \subseteq O \cup {x} /\ D2 \subseteq D \ {y}
  <2>0. PICK x : \E y \in D : O2 \subseteq O \cup {x} /\ D2 \subseteq D \ {y}
    BY <1>3
  <2>1. PICK y \in D : O2 \subseteq O \cup {x} /\ D2 \subseteq D \ {y}
    BY <2>0
  <2>2. /\ IsFiniteSet(O \cup {x})
        /\ Cardinality(O \cup {x}) <= Cardinality(O) + 1
        /\ Cardinality(O \cup {x}) \in Nat
    BY <1>1, OneMore
  <2>3. Cardinality(O2) <= Cardinality(O \cup {x}) /\ Cardinality(O2) \in Nat
    BY <2>1, <2>2, FS_Subset, FS_CardinalityType
  <2>4. IsFiniteSet(D \ {y}) /\ Cardinality(D \ {y}) = Cardinality(D) - 1
    BY <1>1, <2>1, FS_RemoveElement
  <2>5. Cardinality(D2) <= Cardinality(D) - 1
    BY <2>1, <2>4, FS_Subset
  <2>. QED  BY <1>1, <2>2, <2>3, <2>5
<1>. QED  BY <1>2, <1>3

\* The threads that have seen room, and will append.
Due(kind, p) ==
    {t \in Threads : /\ pc[t] = "append"
                     /\ call[t].kind = kind /\ call[t].principal = p}

\* The overshoot of the ceilings is of calls that saw room at the same time.
OpenInv ==
    /\ IsFiniteSet(view.requests) /\ IsFiniteSet(view.proposals)
    /\ \A p \in Principals :
           /\ Cardinality(OpenRequests(view, p)) + Cardinality(Due("request", p))
                  < MaxOpenRequests + Cardinality(Threads)
           /\ Cardinality(OpenProposals(view, p)) + Cardinality(Due("propose", p))
                  < MaxOpenProposals + Cardinality(Threads)

\* Nobody is newly due but by a check that saw room.
LEMMA DueArrivals ==
    ASSUME TypeInv, [Next]_vars, NEW kind \in {"request", "propose"},
           NEW p \in Principals
    PROVE  \/ Due(kind, p)' \subseteq Due(kind, p)
           \/ /\ view' = view
              /\ kind = "request" =>
                     Cardinality(OpenRequests(view, p)) < MaxOpenRequests
              /\ kind = "propose" =>
                     Cardinality(OpenProposals(view, p)) < MaxOpenProposals
<1>1. CASE \A u \in Threads : pc'[u] = "append" /\ call'[u].kind = kind => ~Pass(u)
  BY <1>1, Arrivals DEF Due
<1>2. CASE \E u \in Threads : pc'[u] = "append" /\ call'[u].kind = kind
                              /\ call'[u].principal # p /\ Pass(u)
  <2>1. PICK u \in Threads : /\ call'[u].kind = kind /\ call'[u].principal # p
                             /\ Pass(u)
    BY <1>2
  <2>2. /\ call' = call /\ \A w \in Threads : w # u => pc'[w] = pc[w]
    BY <2>1 DEF Pass, Goto, TypeInv, ThreadsOK
  <2>. QED  BY <2>1, <2>2 DEF Due
<1>3. CASE \E u \in Threads : pc'[u] = "append" /\ call'[u].kind = kind
                              /\ call'[u].principal = p /\ Pass(u)
  <2>1. PICK u \in Threads : /\ call'[u].kind = kind /\ call'[u].principal = p
                             /\ Pass(u)
    BY <1>3
  <2>2. call' = call /\ view' = view
    BY <2>1 DEF Pass, Goto
  <2>3. kind = "request" => RequestPasses(call[u])
    BY <2>1, <2>2 DEF Pass, Passes
  <2>4. kind = "propose" => ProposePasses(call[u], now[u])
    BY <2>1, <2>2 DEF Pass, Passes
  <2>. QED
    BY <2>1, <2>2, <2>3, <2>4 DEF RequestPasses, ProposePasses, ProposeEnters
<1>. QED  BY <1>1, <1>2, <1>3

\* One who answers is no longer due, and the others are as before.
LEMMA DueLeaves ==
    ASSUME TypeInv, NEW t \in Threads, Leave(t), NEW kind, NEW p
    PROVE  Due(kind, p)' \subseteq Due(kind, p) \ {t}
<1>1. /\ pc'[t] = "idle"
      /\ \A u \in Threads : u # t => pc'[u] = pc[u] /\ call'[u] = call[u]
  BY LeaveTypes DEF TypeInv
<1>. QED  BY <1>1 DEF Due

\* The invariant is kept where rows are only decided and refused.
LEMMA OpenQuiet ==
    ASSUME TypeInv, OpenInv, [Next]_vars, RowsKept
    PROVE  OpenInv'
<1>1. ASSUME NEW p \in Principals
      PROVE  /\ IsFiniteSet(OpenRequests(view, p)) /\ IsFiniteSet(OpenProposals(view, p))
             /\ OpenRequests(view', p) \subseteq OpenRequests(view, p)
             /\ OpenProposals(view', p) \subseteq OpenProposals(view, p)
  <2>1. /\ OpenRequests(view, p) \subseteq view.requests
        /\ OpenProposals(view, p) \subseteq view.proposals
    BY DEF OpenRequests, OpenProposals
  <2>. QED  BY <2>1, FS_Subset DEF OpenInv, RowsKept, OpenRequests, OpenProposals
<1>2. ASSUME NEW p \in Principals
      PROVE  Cardinality(OpenRequests(view', p)) + Cardinality(Due("request", p)')
                 < MaxOpenRequests + Cardinality(Threads)
  <2>1. /\ Due("request", p) \subseteq Threads /\ Due("request", p)' \subseteq Threads
        /\ Cardinality(OpenRequests(view, p)) + Cardinality(Due("request", p))
               < MaxOpenRequests + Cardinality(Threads)
    BY DEF Due, OpenInv
  <2>2. \/ Due("request", p)' \subseteq Due("request", p)
        \/ Cardinality(OpenRequests(view, p)) < MaxOpenRequests
    BY DueArrivals
  <2>. QED  BY <1>1, <2>1, <2>2, CeilingKept, CeilingAssumption
<1>3. ASSUME NEW p \in Principals
      PROVE  Cardinality(OpenProposals(view', p)) + Cardinality(Due("propose", p)')
                 < MaxOpenProposals + Cardinality(Threads)
  <2>1. /\ Due("propose", p) \subseteq Threads /\ Due("propose", p)' \subseteq Threads
        /\ Cardinality(OpenProposals(view, p)) + Cardinality(Due("propose", p))
               < MaxOpenProposals + Cardinality(Threads)
    BY DEF Due, OpenInv
  <2>2. \/ Due("propose", p)' \subseteq Due("propose", p)
        \/ Cardinality(OpenProposals(view, p)) < MaxOpenProposals
    BY DueArrivals
  <2>. QED  BY <1>1, <2>1, <2>2, CeilingKept, CeilingAssumption
<1>. QED  BY <1>2, <1>3 DEF OpenInv, RowsKept

\* A request is added by one who was due.
LEMMA OpenRequest ==
    ASSUME TypeInv, OpenInv, NEW t \in Threads, Request(t), view' # view
    PROVE  OpenInv'
<1>1. PICK r \in RequestEvent :
          /\ r.principal = call[t].principal
          /\ view'.requests = view.requests \cup {r}
          /\ view'.decided = view.decided
          /\ view'.proposals = view.proposals /\ view'.closed = view.closed
  BY Requesting
<1>2. /\ pc[t] = "append" /\ call[t].kind = "request" /\ Leave(t)
  BY Requesting
<1>3. IsFiniteSet(view'.requests) /\ IsFiniteSet(view'.proposals)
  BY <1>1, FS_AddElement DEF OpenInv
<1>4. ASSUME NEW p \in Principals
      PROVE  Cardinality(OpenRequests(view', p)) + Cardinality(Due("request", p)')
                 < MaxOpenRequests + Cardinality(Threads)
  <2>. DEFINE D == Due("request", p)
              D2 == Due("request", p)'
              O == OpenRequests(view, p)
              O2 == OpenRequests(view', p)
  <2>1. O \subseteq view.requests /\ D \subseteq Threads /\ D2 \subseteq Threads
    BY DEF OpenRequests, Due
  <2>2. IsFiniteSet(O)
    BY <2>1, FS_Subset DEF OpenInv
  <2>3. D2 \subseteq D \ {t}
    BY <1>2, DueLeaves
  <2>4. Cardinality(O) + Cardinality(D) < MaxOpenRequests + Cardinality(Threads)
    BY DEF OpenInv
  <2>5. CASE r.principal = p
    <3>1. t \in D /\ O2 \subseteq O \cup {r}
      BY <1>1, <1>2, <2>5 DEF Due, OpenRequests
    <3>. HIDE DEF D, D2, O, O2
    <3>2. \E x : \E y \in D : O2 \subseteq O \cup {x} /\ D2 \subseteq D \ {y}
      BY <2>3, <3>1
    <3>3. MaxOpenRequests \in Nat
      BY CeilingAssumption
    <3>4. Cardinality(O2) + Cardinality(D2) < MaxOpenRequests + Cardinality(Threads)
      BY <2>1, <2>2, <2>4, <3>2, <3>3, CeilingKept
    <3>. QED  BY <3>4 DEF D2, O2
  <2>6. CASE r.principal # p
    <3>1. O2 \subseteq O /\ D2 \subseteq D
      BY <1>1, <2>3, <2>6 DEF OpenRequests
    <3>. HIDE DEF D, D2, O, O2
    <3>2. MaxOpenRequests \in Nat
      BY CeilingAssumption
    <3>3. Cardinality(O2) + Cardinality(D2) < MaxOpenRequests + Cardinality(Threads)
      BY <2>1, <2>2, <2>4, <3>1, <3>2, CeilingKept
    <3>. QED  BY <3>3 DEF D2, O2
  <2>. QED  BY <2>5, <2>6
<1>5. ASSUME NEW p \in Principals
      PROVE  Cardinality(OpenProposals(view', p)) + Cardinality(Due("propose", p)')
                 < MaxOpenProposals + Cardinality(Threads)
  <2>1. /\ Due("propose", p) \subseteq Threads
        /\ Due("propose", p)' \subseteq Due("propose", p)
    BY <1>2, DueLeaves DEF Due
  <2>2. OpenProposals(view', p) = OpenProposals(view, p)
    BY <1>1 DEF OpenProposals
  <2>3. OpenProposals(view, p) \subseteq view.proposals
    BY DEF OpenProposals
  <2>4. IsFiniteSet(OpenProposals(view, p))
    BY <2>3, FS_Subset DEF OpenInv
  <2>5. Cardinality(OpenProposals(view, p)) + Cardinality(Due("propose", p))
               < MaxOpenProposals + Cardinality(Threads)
    BY DEF OpenInv
  <2>. QED  BY <2>1, <2>2, <2>4, <2>5, CeilingKept, CeilingAssumption
<1>. QED  BY <1>3, <1>4, <1>5 DEF OpenInv

\* So is a proposal.
LEMMA OpenProposal ==
    ASSUME TypeInv, OpenInv, NEW t \in Threads, Propose(t), view' # view
    PROVE  OpenInv'
<1>1. PICK r \in ProposalEvent :
          /\ r.principal = call[t].principal
          /\ view'.proposals = view.proposals \cup {r}
          /\ view'.closed = view.closed
          /\ view'.requests = view.requests /\ view'.decided = view.decided
  BY Proposing
<1>2. /\ pc[t] = "append" /\ call[t].kind = "propose" /\ Leave(t)
  BY Proposing
<1>3. IsFiniteSet(view'.requests) /\ IsFiniteSet(view'.proposals)
  BY <1>1, FS_AddElement DEF OpenInv
<1>4. ASSUME NEW p \in Principals
      PROVE  Cardinality(OpenProposals(view', p)) + Cardinality(Due("propose", p)')
                 < MaxOpenProposals + Cardinality(Threads)
  <2>. DEFINE D == Due("propose", p)
              D2 == Due("propose", p)'
              O == OpenProposals(view, p)
              O2 == OpenProposals(view', p)
  <2>1. O \subseteq view.proposals /\ D \subseteq Threads /\ D2 \subseteq Threads
    BY DEF OpenProposals, Due
  <2>2. IsFiniteSet(O)
    BY <2>1, FS_Subset DEF OpenInv
  <2>3. D2 \subseteq D \ {t}
    BY <1>2, DueLeaves
  <2>4. Cardinality(O) + Cardinality(D) < MaxOpenProposals + Cardinality(Threads)
    BY DEF OpenInv
  <2>5. CASE r.principal = p
    <3>1. t \in D /\ O2 \subseteq O \cup {r}
      BY <1>1, <1>2, <2>5 DEF Due, OpenProposals
    <3>. HIDE DEF D, D2, O, O2
    <3>2. \E x : \E y \in D : O2 \subseteq O \cup {x} /\ D2 \subseteq D \ {y}
      BY <2>3, <3>1
    <3>3. MaxOpenProposals \in Nat
      BY CeilingAssumption
    <3>4. Cardinality(O2) + Cardinality(D2) < MaxOpenProposals + Cardinality(Threads)
      BY <2>1, <2>2, <2>4, <3>2, <3>3, CeilingKept
    <3>. QED  BY <3>4 DEF D2, O2
  <2>6. CASE r.principal # p
    <3>1. O2 \subseteq O /\ D2 \subseteq D
      BY <1>1, <2>3, <2>6 DEF OpenProposals
    <3>. HIDE DEF D, D2, O, O2
    <3>2. MaxOpenProposals \in Nat
      BY CeilingAssumption
    <3>3. Cardinality(O2) + Cardinality(D2) < MaxOpenProposals + Cardinality(Threads)
      BY <2>1, <2>2, <2>4, <3>1, <3>2, CeilingKept
    <3>. QED  BY <3>3 DEF D2, O2
  <2>. QED  BY <2>5, <2>6
<1>5. ASSUME NEW p \in Principals
      PROVE  Cardinality(OpenRequests(view', p)) + Cardinality(Due("request", p)')
                 < MaxOpenRequests + Cardinality(Threads)
  <2>1. /\ Due("request", p) \subseteq Threads
        /\ Due("request", p)' \subseteq Due("request", p)
    BY <1>2, DueLeaves DEF Due
  <2>2. OpenRequests(view', p) = OpenRequests(view, p)
    BY <1>1 DEF OpenRequests
  <2>3. OpenRequests(view, p) \subseteq view.requests
    BY DEF OpenRequests
  <2>4. IsFiniteSet(OpenRequests(view, p))
    BY <2>3, FS_Subset DEF OpenInv
  <2>5. Cardinality(OpenRequests(view, p)) + Cardinality(Due("request", p))
               < MaxOpenRequests + Cardinality(Threads)
    BY DEF OpenInv
  <2>. QED  BY <2>1, <2>2, <2>4, <2>5, CeilingKept, CeilingAssumption
<1>. QED  BY <1>3, <1>4, <1>5 DEF OpenInv

\* What a partner leaves open overshoots its ceiling by less than one for each
\* call in progress, however many race: each may have seen room, and nobody
\* sees room again until there is (grant.rs, request_grant and propose).
THEOREM OpenStaysBounded == Spec => []OpenIsBounded
<1>1. Init => OpenInv
  <2>. SUFFICES ASSUME Init PROVE OpenInv
    OBVIOUS
  <2>1. /\ view.requests = {} /\ view.proposals = {}
        /\ \A t \in Threads : pc[t] = "idle"
    BY DEF Init, Empty
  <2>2. \A p \in Principals :
            /\ OpenRequests(view, p) = {} /\ OpenProposals(view, p) = {}
            /\ Due("request", p) = {} /\ Due("propose", p) = {}
    BY <2>1 DEF OpenRequests, OpenProposals, Due
  <2>3. Cardinality(Threads) \in Nat /\ Cardinality(Threads) # 0
    BY ThreadAssumption, FS_CardinalityType, FS_EmptySet
  <2>4. /\ Cardinality({}) = 0 /\ IsFiniteSet({})
        /\ 0 < MaxOpenRequests + Cardinality(Threads)
        /\ 0 < MaxOpenProposals + Cardinality(Threads)
    BY <2>3, FS_EmptySet, CeilingAssumption
  <2>5. ASSUME NEW p \in Principals
        PROVE  /\ Cardinality(OpenRequests(view, p)) + Cardinality(Due("request", p))
                      < MaxOpenRequests + Cardinality(Threads)
               /\ Cardinality(OpenProposals(view, p)) + Cardinality(Due("propose", p))
                      < MaxOpenProposals + Cardinality(Threads)
    <3>1. 0 + 0 = 0
      OBVIOUS
    <3>. QED  BY <2>2, <2>4, <3>1
  <2>. QED  BY <2>1, <2>4, <2>5 DEF OpenInv
<1>2. TypeInv /\ OpenInv /\ [Next]_vars => OpenInv'
  <2>. SUFFICES ASSUME TypeInv, OpenInv, [Next]_vars PROVE OpenInv'
    OBVIOUS
  <2>1. view' = view => RowsKept
    BY DEF RowsKept, TypeInv, Stream
  <2>. QED
    BY <2>1, OthersKeepRows, OpenQuiet, OpenRequest, OpenProposal
<1>3. OpenInv => OpenIsBounded
  <2>. SUFFICES ASSUME OpenInv, NEW p \in Principals
                PROVE  /\ Cardinality(OpenRequests(view, p))
                              < MaxOpenRequests + Cardinality(Threads)
                       /\ Cardinality(OpenProposals(view, p))
                              < MaxOpenProposals + Cardinality(Threads)
    BY DEF OpenIsBounded
  <2>1. /\ Due("request", p) \subseteq Threads /\ Due("propose", p) \subseteq Threads
        /\ OpenRequests(view, p) \subseteq view.requests
        /\ OpenProposals(view, p) \subseteq view.proposals
    BY DEF Due, OpenRequests, OpenProposals
  <2>2. /\ Cardinality(Due("request", p)) \in Nat
        /\ Cardinality(Due("propose", p)) \in Nat
        /\ Cardinality(OpenRequests(view, p)) \in Nat
        /\ Cardinality(OpenProposals(view, p)) \in Nat
        /\ Cardinality(Threads) \in Nat
    BY <2>1, ThreadAssumption, FS_Subset, FS_CardinalityType DEF OpenInv
  <2>. QED  BY <2>2, CeilingAssumption DEF OpenInv
<1>. QED  BY <1>1, <1>2, <1>3, TypeInvHolds, PTL DEF Spec

-----------------------------------------------------------------------------
(* The hourly rate.                                                        *)

InWindow(effects, id, from) ==
    {e \in effects : e.grant = id /\ e.op # "observe" /\ from <= e.at /\ e.at < from + Hour}

\* Who was admitted to invoke saw room in the hour before, and holds the lock
\* under which alone that room is used.
RateInv ==
    /\ IsFiniteSet(view.effects)
    /\ \A t \in Threads :
           pc[t] = "admitted" /\ call[t].kind = "invoke" =>
               SpentInHour(view, call[t].id, now[t], Hour) < MaxInvokes
    /\ \A id \in Ids, from \in Nat :
           Cardinality(InWindow(view.effects, id, from)) <= MaxInvokes

\* All that a reservation says of when and what it is for.
LEMMA ReservesNow ==
    ASSUME TypeInv, NEW t \in Threads, Reserve(t)
    PROVE  /\ held'[t].at = now[t] /\ now[t] \in Nat
           /\ held'[t].grant = call[t].id /\ call[t].id \in Ids
           /\ held'[t].op # "observe" => call[t].kind = "invoke"
<1>1. call[t] \in Menu /\ call[t].kind \in {"observe", "invoke"}
  BY Reserving
<1>2. held'[t].at = now[t] /\ now[t] \in Nat
  BY DEF Reserve, TypeInv, ThreadsOK
<1>. QED  BY <1>1, <1>2, Reserving, CallFields

\* A step that reserves nothing leaves the effects as they are.
LEMMA OthersKeepEffects ==
    ASSUME TypeInv, [Next]_vars, \A t \in Threads : ~Reserve(t)
    PROVE  view'.effects = view.effects
<1>1. ASSUME NEW t \in Threads,
             \/ Request(t) \/ Grant(t) \/ Decline(t)
             \/ Propose(t) \/ RefuseProposal(t) \/ Expire(t)
      PROVE  view'.effects = view.effects
  BY <1>1, UnlockedTypes DEF EffectsKept
<1>2. ASSUME NEW t \in Threads, Revoke(t)
      PROVE  view'.effects = view.effects
  <2>1. call[t].id \in Ids /\ view \in Stream
    BY <1>2, Serving, CallFields DEF Revoke, At, TypeInv
  <2>2. view' = view \/ view' = AppendEnd(view, call[t].id)
    BY <1>2 DEF Revoke, End
  <2>. QED  BY <2>1, <2>2, EndAppends
<1>3. ASSUME NEW t \in Threads, Settle(t)
      PROVE  view'.effects = view.effects
  BY <1>3, Settling
<1>4. ASSUME NEW t \in Threads,
             \/ Start(t) \/ Pass(t) \/ Answer(t) \/ FindExpired(t) \/ Lock(t)
             \/ RevokeCheck(t) \/ Replay(t) \/ Admit(t) \/ RefuseLocked(t)
             \/ Execute(t) \/ Fail(t)
      PROVE  view'.effects = view.effects
  BY <1>4 DEF Start, Pass, Answer, FindExpired, Lock, RevokeCheck, Replay,
              Admit, RefuseLocked, Execute, Fail
<1>5. CASE Crash \/ Tick \/ (\E g \in Closable : SetGate(g)) \/ UNCHANGED vars
  BY <1>5 DEF Crash, Tick, SetGate, vars
<1>. QED  BY <1>1, <1>2, <1>3, <1>4, <1>5, Zenon DEF Next, Act, Step

\* The reservation of who saw room fits into every hour it falls in: whatever
\* that hour holds was counted, later arrivals included.
LEMMA WindowHolds ==
    ASSUME TypeInv, Mutex, RateInv, NEW t \in Threads, Reserve(t),
           NEW id \in Ids, NEW from \in Nat
    PROVE  Cardinality(InWindow(view'.effects, id, from)) <= MaxInvokes
<1>. DEFINE e == held'[t]
            W == InWindow(view.effects, id, from)
            W2 == InWindow(view'.effects, id, from)
            S == {x \in view.effects : x.grant = call[t].id /\ x.op # "observe"
                                        /\ now[t] < x.at + Hour}
<1>1. view'.effects = view.effects \cup {e} /\ pc[t] = "admitted"
  BY Reserving
<1>2. /\ e.at = now[t] /\ now[t] \in Nat /\ e.grant = call[t].id
      /\ e.op # "observe" => call[t].kind = "invoke"
  BY ReservesNow
<1>3. W \subseteq view.effects /\ S \subseteq view.effects
  BY DEF InWindow
<1>4. /\ IsFiniteSet(W) /\ IsFiniteSet(S) /\ Cardinality(W) <= MaxInvokes
      /\ Cardinality(W) \in Nat /\ Cardinality(S) \in Nat
  BY <1>3, FS_Subset, FS_CardinalityType DEF RateInv
<1>5. CASE e \notin W2
  <2>1. W2 = W
    BY <1>1, <1>5 DEF InWindow
  <2>. QED  BY <1>4, <2>1
<1>6. CASE e \in W2
  <2>1. /\ e.grant = id /\ e.op # "observe" /\ from <= now[t] /\ now[t] < from + Hour
    BY <1>2, <1>6 DEF InWindow
  <2>2. Cardinality(S) < MaxInvokes
    BY <1>1, <1>2, <2>1 DEF RateInv, SpentInHour
  <2>3. \A x \in view.effects : x.at \in Nat
    BY DEF TypeInv, Stream, EffectEvent
  <2>4. W \subseteq S
    <3>1. ASSUME NEW x \in W
          PROVE  x \in S
      <4>1. /\ x \in view.effects /\ x.grant = id /\ x.op # "observe"
            /\ from <= x.at
        BY DEF InWindow
      <4>2. now[t] < x.at + Hour
        BY <1>2, <2>1, <2>3, <4>1, TimeAssumption
      <4>. QED  BY <1>2, <2>1, <4>1, <4>2
    <3>. QED  BY <3>1
  <2>5. Cardinality(W) <= Cardinality(S)
    BY <1>4, <2>4, FS_Subset
  <2>6. W2 = W \cup {e}
    BY <1>1, <1>6 DEF InWindow
  <2>. HIDE DEF e, W, W2, S
  <2>7. Cardinality(W \cup {e}) <= Cardinality(W) + 1
        /\ Cardinality(W \cup {e}) \in Nat
    BY <1>4, OneMore
  <2>8. Cardinality(W2) <= MaxInvokes
    BY <1>4, <2>2, <2>5, <2>6, <2>7, CeilingAssumption
  <2>. QED  BY <2>8 DEF W2
<1>. QED  BY <1>5, <1>6

\* No hour, whichever second it starts at, holds more invocations of a grant
\* than a human allowed, though calls reach the lock in another order than they
\* arrived in: the count takes in what arrived later and was served first
\* (grant.rs, invokes_in_last_hour).
THEOREM RateHolds == Spec => []RateBound
<1>1. Init => Mutex /\ RateInv
  <2>. SUFFICES ASSUME Init PROVE Mutex /\ RateInv
    OBVIOUS
  <2>1. view.effects = {} /\ \A t \in Threads : pc[t] = "idle"
    BY DEF Init, Empty
  <2>2. Mutex
    BY <2>1 DEF Mutex, Holding, InAct
  <2>3. \A id \in Ids, from \in Nat : InWindow(view.effects, id, from) = {}
    BY <2>1 DEF InWindow
  <2>4. Cardinality({}) = 0 /\ IsFiniteSet({}) /\ 0 <= MaxInvokes
    BY FS_EmptySet, CeilingAssumption
  <2>5. \A id \in Ids, from \in Nat :
            Cardinality(InWindow(view.effects, id, from)) <= MaxInvokes
    BY <2>3, <2>4
  <2>. QED  BY <2>1, <2>2, <2>4, <2>5 DEF RateInv
<1>2. TypeInv /\ Mutex /\ RateInv /\ [Next]_vars => RateInv'
  <2>. SUFFICES ASSUME TypeInv, Mutex, RateInv, [Next]_vars PROVE RateInv'
    OBVIOUS
  <2>1. CASE \E t \in Threads : Reserve(t)
    <3>1. PICK t \in Threads : Reserve(t)
      BY <2>1
    <3>2. IsFiniteSet(view'.effects)
      <4>1. PICK e : view'.effects = view.effects \cup {e}
        BY <3>1, Reserving
      <4>. QED  BY <4>1, OneMore DEF RateInv
    <3>3. \A u \in Threads : pc'[u] # "admitted"
      <4>1. /\ pc[t] = "admitted" /\ pc'[t] = "reserved"
            /\ \A u \in Threads : u # t => pc'[u] = pc[u]
        BY <3>1, Reserving
      <4>2. \A u \in Threads : pc[u] = "admitted" => lock = u
        BY DEF Mutex, Holding
      <4>. QED  BY <4>1, <4>2
    <3>4. \A id \in Ids, from \in Nat :
              Cardinality(InWindow(view'.effects, id, from)) <= MaxInvokes
      BY <3>1, WindowHolds
    <3>. QED  BY <3>2, <3>3, <3>4 DEF RateInv
  <2>2. CASE \A t \in Threads : ~Reserve(t)
    <3>1. view'.effects = view.effects
      BY <2>2, OthersKeepEffects
    <3>2. ASSUME NEW u \in Threads, pc'[u] = "admitted", call'[u].kind = "invoke"
          PROVE  SpentInHour(view', call'[u].id, now'[u], Hour) < MaxInvokes
      <4>1. call'[u] = call[u] /\ now'[u] = now[u] /\ (pc[u] = "admitted" \/ Admit(u))
        BY <3>2, Arrivals
      <4>2. SpentInHour(view, call[u].id, now[u], Hour) < MaxInvokes
        BY <3>2, <4>1 DEF RateInv, Admit, Admitted
      <4>. QED  BY <3>1, <4>1, <4>2 DEF SpentInHour
    <3>. QED  BY <3>1, <3>2 DEF RateInv
  <2>. QED  BY <2>1, <2>2
<1>3. TypeInv /\ Mutex /\ [Next]_vars => Mutex'
  BY MutexStep
<1>4. TypeInv /\ RateInv => RateBound
  <2>. SUFFICES ASSUME TypeInv, RateInv, NEW g \in view.grants,
                       NEW from \in 0..MaxTime
                PROVE  Cardinality({e \in view.effects :
                           /\ e.grant = g.id /\ e.op # "observe"
                           /\ from <= e.at /\ e.at < from + Hour}) <= MaxInvokes
    BY DEF RateBound
  <2>1. g.id \in Ids /\ from \in Nat
    BY TimeAssumption DEF TypeInv, Stream, GrantEvent
  <2>2. Cardinality(InWindow(view.effects, g.id, from)) <= MaxInvokes
    BY <2>1 DEF RateInv
  <2>. QED  BY <2>2 DEF InWindow
<1>. QED  BY <1>1, <1>2, <1>3, <1>4, TypeInvHolds, PTL DEF Spec
=============================================================================
