------------------------------- MODULE Doors --------------------------------
(***************************************************************************)
(* The doors of a mesh and what they know of one device                    *)
(* (crates/mesh/src/record.rs, transport.rs, standing.rs, enroll.rs).      *)
(* Every change of a record is load, change, save, with no lock.  A save   *)
(* that lands on another undoes it, which is to the record as if the other *)
(* act had not been made, so each act is one step.  Doors send each other  *)
(* what they hold; a sync may be late, repeated or overtaken.  A lost one  *)
(* leaves no trace at its sender: it is one that was never sent.           *)
(*                                                                         *)
(* The other devices of the household appear as the handles they are       *)
(* established under.  The doors' clocks are one clock, and the list of    *)
(* revoked certificates, which mirrors a sever, is not modelled.           *)
(***************************************************************************)
EXTENDS MeshRecord

CONSTANTS Doors,       \* numbered in the order of their node ids
          Known,       \* handles of other established devices
          Evidence,    \* what the device may present
          Delay,       \* how old a signed correction may arrive
          MaxActs,     \* bound on what devices and humans do
          LastAct,     \* bound on when they do it
          MaxTime,     \* bound on the clock
          MaxWire      \* bound on the syncs in flight

Proof == [class : {"rotation", "voucher", "invite", "introduction"},
          handle : Nat \ {0}, artifact : Nat \ {0},
          named : BOOLEAN,    \* an invite that says who it is for
          remote : BOOLEAN]   \* an introduction from nowhere the mesh inhabits

ASSUME DoorAssumption == Doors \subseteq Nat
ASSUME EvidenceAssumption == Known \subseteq Nat /\ Evidence \subseteq Proof
ASSUME BoundAssumption == {Delay, MaxActs, LastAct, MaxTime, MaxWire} \subseteq Nat

VARIABLES rec,     \* each door's record of the device, or None
          roll,    \* the doors whose standing roll names the device
          granted, \* the doors that keep a certificate they gave it
          denied,  \* when each door's own denial of it ends
          spent,   \* the invites spent at each door
          wire,    \* records on their way to a door
          now,
          acts     \* acts so far

lists == <<roll, granted, denied>>
vars == <<rec, lists, spent, wire, now, acts>>

\* What some doors hold at the start, and the others never heard of: a guest
\* that knocked, or one that the first of them let in.
Introduced(h) == {[Blank(0) EXCEPT !.att = TRUE],
                  [Blank(0) EXCEPT
                      !.est = [handle |-> 0, artifact |-> 0, at |-> 0],
                      !.adm = [by |-> Min(h), at |-> 0]]}

Held(d) == rec[d] # None

Init == /\ \E holders \in SUBSET Doors :
               IF holders = {} THEN rec = [d \in Doors |-> None]
               ELSE \E r \in Introduced(holders) :
                        rec = [d \in Doors |-> IF d \in holders THEN r ELSE None]
        /\ roll = {d \in Doors : Held(d) /\ Member(rec[d])}
        /\ granted = {d \in Doors : /\ Held(d) /\ rec[d].att
                                  /\ \A e \in Doors : Held(e) => d <= e}
        /\ denied = [d \in Doors |-> 0]
        /\ spent = [d \in Doors |-> {}]
        /\ wire = {}
        /\ now = 0
        /\ acts = 0

-----------------------------------------------------------------------------
(* How a record is written.                                                *)

Write(d, r) == rec' = [rec EXCEPT ![d] = r]

Current(d) == IF Held(d) THEN rec[d] ELSE Blank(now)

\* The end of every upsert.
Seen(r) == [r EXCEPT !.last = Larger(r.last, now)]
Upsert(d, r) == Write(d, Seen(r))

\* Something a device or a human does.
Act == /\ acts < MaxActs /\ now <= LastAct
       /\ acts' = acts + 1
       /\ UNCHANGED <<wire, now>>

-----------------------------------------------------------------------------
(* What devices do.                                                        *)

\* The covenant handshake, of a device the door has given nothing yet: what is
\* left of a denial is cleared, and a certificate is minted and kept.
Knock(d) == /\ Act
            /\ d \notin granted /\ denied[d] <= now
            /\ Upsert(d, [Current(d) EXCEPT !.att = TRUE, !.held = 0])
            /\ granted' = granted \cup {d}
            /\ denied' = [denied EXCEPT ![d] = 0]
            /\ UNCHANGED <<roll, spent>>

\* The rules engine, of a device whose covenant is attested.
Accepts(e) ==
    CASE e.class \in {"rotation", "voucher"} -> e.handle \in Known
      [] e.class = "invite" -> e.named \/ e.handle \notin Known
      [] e.class = "introduction" -> ~e.remote /\ e.handle \notin Known

MayIntroduce(d) == Held(d) /\ rec[d].held <= now /\ ~Member(rec[d])

\* The record after admit: facts that stand are kept.
Admitted(d, e) ==
    LET r == rec[d]
        at == UnspentAt(r, now)
    IN [r EXCEPT
           !.est = IF r.est = None
                   THEN [handle |-> e.handle, artifact |-> e.artifact, at |-> at]
                   ELSE r.est,
           !.adm = IF r.adm = None THEN [by |-> d, at |-> at] ELSE r.adm]

\* An introduction that is accepted; an invite is spent before the record is
\* written, and the roll follows.
Introduce(d) ==
    /\ Act
    /\ MayIntroduce(d) /\ rec[d].att
    /\ \E e \in Evidence :
           /\ Accepts(e)
           /\ e.class = "invite" => e.artifact \notin spent[d]
           /\ spent' = IF e.class = "invite"
                       THEN [spent EXCEPT ![d] = @ \cup {e.artifact}] ELSE spent
           /\ Upsert(d, Admitted(d, e))
    /\ roll' = roll \cup {d}
    /\ UNCHANGED <<granted, denied>>

\* One that is refused leaves its claim and the sight of the device.
RecordClaim(d) == /\ Act
                  /\ MayIntroduce(d)
                  /\ \E e \in Evidence : ~(rec[d].att /\ Accepts(e))
                  /\ Upsert(d, rec[d])
                  /\ UNCHANGED <<lists, spent>>

\* A brief from a guest renews its lease, at most once in a while.
Sighting(d) == /\ Act
               /\ Held(d) /\ Guest(rec[d]) /\ rec[d].est = None
               /\ now - rec[d].last >= Fresh
               /\ Upsert(d, rec[d])
               /\ UNCHANGED <<lists, spent>>

\* A read of the worldview notes where a device knocked from and its key.
NoteOrigin(d) == /\ Act
                 /\ Held(d)
                 /\ Upsert(d, rec[d])
                 /\ UNCHANGED <<lists, spent>>

-----------------------------------------------------------------------------
(* What humans do.                                                         *)

\* Full standing, of a device the roll does not name.
StandingGrant(d) ==
    LET r == Current(d)
        at == UnspentAt(r, now)
    IN /\ Act
       /\ d \notin roll
       /\ roll' = roll \cup {d}
       /\ Upsert(d, [r EXCEPT
              !.est = IF r.est = None
                      THEN [handle |-> 0, artifact |-> 0, at |-> at] ELSE r.est,
              !.adm = IF r.adm = None THEN [by |-> d, at |-> at] ELSE r.adm])
       /\ UNCHANGED <<granted, denied, spent>>

Revoked(d) == [Current(d) EXCEPT !.est = None]

StandingRevoke(d) == /\ Act
                     /\ d \in roll
                     /\ roll' = roll \ {d}
                     /\ Upsert(d, Revoked(d))
                     /\ UNCHANGED <<granted, denied, spent>>

\* Naming fills in a missing name and changes nothing else of the fact.
NameEstablished(d) ==
    /\ Act
    /\ Held(d) /\ Effective(rec[d]) /\ rec[d].est.handle = 0
    /\ \E e \in Evidence :
           Upsert(d, [rec[d] EXCEPT !.est = [@ EXCEPT !.handle = e.handle]])
    /\ UNCHANGED <<lists, spent>>

\* A door's own denial; from the console it revokes the standing first.
Deny(d) ==
    /\ Act
    /\ \E revoking \in BOOLEAN :
           LET r == IF revoking /\ d \in roll THEN Revoked(d) ELSE Current(d) IN
           /\ Upsert(d, [r EXCEPT !.held = Larger(@, now + HoldTime)])
           /\ roll' = IF revoking THEN roll \ {d} ELSE roll
    /\ denied' = [denied EXCEPT ![d] = now + HoldTime]
    /\ UNCHANGED <<granted, spent>>

\* The record after apply_correction.
Corrected(r, c) ==
    LET released == c.act \in Releasing IN
    [r EXCEPT !.corr = @ \cup {c},
              !.est = IF released THEN None ELSE @,
              !.adm = IF released THEN None ELSE @,
              !.held = IF c.act = "hold" THEN Larger(@, c.ts + HoldTime)
                       ELSE IF c.act = "restore" THEN 0 ELSE @]

\* A member's correction, at the second it was signed in; a device's own
\* release is stamped by the door.  The lists follow the record.
Correct(d) ==
    /\ Act
    /\ Held(d)
    /\ \E act \in Acts, ts \in Larger(0, now - Delay)..now :
           LET r == Corrected(rec[d], [act |-> act, ts |-> ts]) IN
           /\ act = "release" => ts = now
           /\ Upsert(d, r)
           /\ roll' = CASE act = "sever" \/ act \in Releasing -> roll \ {d}
                        [] act = "restore" /\ Member(r) -> roll \cup {d}
                        [] OTHER -> roll
           /\ denied' = CASE act = "hold" -> [denied EXCEPT ![d] = ts + HoldTime]
                          [] act = "restore" -> [denied EXCEPT ![d] = 0]
                          [] OTHER -> denied
    /\ UNCHANGED <<granted, spent>>

-----------------------------------------------------------------------------
(* What the doors do by themselves.                                        *)

\* The sweep of the tick: it removes by what its snapshot said.
Purge(d) == /\ Held(d) /\ Overdue(rec[d], now)
            /\ Write(d, None)
            /\ granted' = granted \ {d}
            /\ denied' = [denied EXCEPT ![d] = 0]
            /\ UNCHANGED <<roll, spent, wire, now, acts>>

\* A bug to be noticed: only members are worth telling a sibling about.
OfferableMember(d) == Held(d) /\ Member(rec[d])

\* build_record_sync; the clock's bound is inside the sync window.
Offerable(d) == Held(d) /\ ~Overdue(rec[d], now)

Offer(d, to) ==
    /\ d # to
    /\ Cardinality(wire) < MaxWire
    /\ Offerable(d)
    /\ wire' = wire \cup {[from |-> d, to |-> to, record |-> rec[d]]}
    /\ UNCHANGED <<rec, lists, spent, now, acts>>

\* A bug to be noticed: a door that takes a record in whole starts its lease.
AbsorbedSeen(d, incoming) ==
    IF Held(d) THEN Merge(rec[d], incoming) ELSE Seen(incoming)

\* What absorb makes of an offer.
Absorbed(d, incoming) ==
    IF Held(d) THEN Merge(rec[d], incoming) ELSE incoming

\* A guest nobody holds that arrives past its lease is declined.  A member is
\* put on the roll, and a door that puts one there saves the record once more.
Absorb(d) ==
    \E m \in {x \in wire : x.to = d} :
        LET r == Absorbed(d, m.record) IN
        /\ wire' = wire \ {m}
        /\ IF ~Held(d) /\ Overdue(r, now) THEN UNCHANGED <<rec, roll>>
           ELSE /\ IF Member(r) /\ d \notin roll THEN Upsert(d, r) ELSE Write(d, r)
                /\ roll' = IF Member(r) THEN roll \cup {d}
                           ELSE IF Severed(r) THEN roll \ {d} ELSE roll
        /\ UNCHANGED <<granted, denied, spent, now, acts>>

\* Bound: once the acts are over a sync arrives in the second it is sent.
Tick == /\ now < MaxTime
        /\ now >= LastAct => wire = {}
        /\ now' = now + 1
        /\ UNCHANGED <<rec, lists, spent, wire, acts>>

Next == \/ \E d \in Doors :
               \/ Knock(d) \/ Introduce(d) \/ RecordClaim(d)
               \/ Sighting(d) \/ NoteOrigin(d) \/ StandingGrant(d)
               \/ StandingRevoke(d) \/ NameEstablished(d) \/ Deny(d)
               \/ Correct(d) \/ Purge(d) \/ Absorb(d)
               \/ \E to \in Doors : Offer(d, to)
        \/ Tick

Spec == Init /\ [][Next]_vars

\* Handlers finish, the tick sweeps, and gossip dials again and again, a sync
\* after every brief.  Time passes, whatever the bound on it waits for.  Nobody
\* has to do anything.
FairSpec ==
    /\ Spec
    /\ SF_vars(Tick)
    /\ \A d \in Doors : WF_vars(Purge(d)) /\ WF_vars(Absorb(d))
    /\ \A d, to \in Doors : d # to => SF_vars(Offer(d, to))

-----------------------------------------------------------------------------
(* Properties.                                                             *)

Replicas == {r \in {rec[d] : d \in Doors} \cup {m.record : m \in wire} : r # None}

\* A released identity stays released (record.rs, merge_records and
\* unspent_at): no replica, wherever it is, holds a fact as old as a release
\* it knows of, so no order of exchanges brings one back.
SpentIsGone ==
    \A r \in Replicas : /\ r.est # None => Unspent(r.est.at, r.corr)
                        /\ r.adm # None => Unspent(r.adm.at, r.corr)

\* What doors agree on; a name given at one door stays there.
Unnamed(r) == IF r = None \/ r.est = None THEN r ELSE [r EXCEPT !.est = [@ EXCEPT !.handle = 0]]

\* Two replicas with nothing new for each other are the same (record.rs,
\* merge_records): exchange cannot stop at a disagreement.
NothingNewIsAgreement ==
    \A a, b \in Replicas :
        Merge(a, b) = a /\ Merge(b, a) = b => Unnamed(a) = Unnamed(b)

\* What the doors come to once people stop acting: they hold the same record,
\* and a visitor nobody sees again is forgotten at every door, though doors
\* keep offering it to each other (record.rs, purge_stale_guests,
\* build_record_sync and absorb).
Agreed == \A d, e \in Doors : Unnamed(rec[d]) = Unnamed(rec[e])
Forgotten == \A d \in Doors : Held(d) => ~Forgettable(rec[d])

\* "A released identity must not resurrect through a replica that never heard
\* the release" (record.rs, merge_records): what a door once knew released
\* does not stand there again.
ReleaseStands ==
    \A d \in Doors, t \in 0..MaxTime :
        [](Held(d) /\ t \in Releases(rec[d].corr) =>
               [](Held(d) /\ rec[d].est # None => rec[d].est.at > t))
=============================================================================
