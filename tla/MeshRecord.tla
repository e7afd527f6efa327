----------------------------- MODULE MeshRecord -----------------------------
(***************************************************************************)
(* One device's membership record and its merge (crates/mesh/src/         *)
(* record.rs).  Every door keeps a replica; doors exchange replicas with   *)
(* no order between them and merge what they get.                          *)
(*                                                                         *)
(* Strings that are only compared are numbers: a handle, a door's node id, *)
(* an artifact; handle 0 is the empty one the standing roll writes.  A     *)
(* correction is its act and its second, which its nonce spells out; acts  *)
(* of one second are ordered as those nonces are.  Claim, keys, note,     *)
(* public key, origin and reasons decide nothing here and are left out, as *)
(* is the first sighting, which is never after the last; a grant kept by   *)
(* the door counts as the attestation, as the code counts it.              *)
(***************************************************************************)
EXTENDS Integers, FiniteSetsExt

CONSTANTS None,
          Lease,     \* GUEST_PURGE_SECS
          Fresh,     \* SIGHTING_FRESH_SECS
          HoldTime   \* DENY_RETRY_SECS

ASSUME DurationAssumption == Lease \in Nat /\ Fresh \in Nat /\ HoldTime \in Nat

Acts == {"disestablish", "hold", "restore", "sever", "release"}
Releasing == {"disestablish", "release"}
Rank == [act \in Acts |->
            CASE act = "disestablish" -> 1 [] act = "hold" -> 2
              [] act = "restore" -> 3 [] act = "sever" -> 4
              [] act = "release" -> 5]

Correction == [act : Acts, ts : Nat]
Establishment == [handle : Nat, artifact : Nat, at : Nat]
Admission == [by : Nat, at : Nat]

\* `held` is 0 where the code has no hold.
Record == [att : BOOLEAN, est : Establishment \cup {None}, adm : Admission \cup {None},
           held : Nat, corr : SUBSET Correction, last : Nat]

\* What upsert starts from when the door holds nothing.
Blank(now) == [att |-> FALSE, est |-> None, adm |-> None, held |-> 0,
               corr |-> {}, last |-> now]

Larger(a, b) == IF a >= b THEN a ELSE b

-----------------------------------------------------------------------------
(* What the corrections leave standing.                                    *)

Releases(corr) == {c.ts : c \in {x \in corr : x.act \in Releasing}}

\* No release of this set is as late as t: a fact of t still counts.
Unspent(t, corr) == \A ts \in Releases(corr) : t > ts

\* corrections.last(), after the sort by second and nonce.
IsLast(c, corr) ==
    /\ c \in corr
    /\ \A x \in corr : \/ x.ts < c.ts
                       \/ x.ts = c.ts /\ Rank[x.act] <= Rank[c.act]

Severed(r) == \E c \in r.corr : c.act = "sever" /\ IsLast(c, r.corr)

\* Whether the establishment still counts.
Effective(r) ==
    /\ r.est # None
    /\ ~Severed(r)
    /\ \A c \in r.corr : c.act \in Releasing /\ IsLast(c, r.corr) =>
           r.est.at > c.ts

Member(r) == r.adm # None /\ Effective(r)
Guest(r) == ~Severed(r) /\ ~Member(r)

\* A bug to be noticed: a fact minted in the second of the release it answers.
UnspentAtNow(r, now) == now

\* When a fact minted now is said to have happened.
UnspentAt(r, now) ==
    IF Unspent(now, r.corr) THEN now ELSE Max(Releases(r.corr)) + 1

-----------------------------------------------------------------------------
(* Merge.                                                                  *)

Live(fact, corr) == IF fact # None /\ Unspent(fact.at, corr) THEN fact ELSE None

\* A bug to be noticed: of two facts of one second, each door keeps its own.
OwnOnTie(a, b) ==
    IF a = None THEN b
    ELSE IF b = None \/ a.at <= b.at THEN a ELSE b

\* The earlier establishment; of one second, the one of the smaller artifact.
EarlierEst(a, b) ==
    IF a = None THEN b
    ELSE IF \/ b = None
            \/ a.at < b.at
            \/ a.at = b.at /\ a.artifact <= b.artifact THEN a ELSE b

EarlierAdm(a, b) ==
    IF a = None THEN b
    ELSE IF \/ b = None
            \/ a.at < b.at
            \/ a.at = b.at /\ a.by <= b.by THEN a ELSE b

\* merge_records; a is the replica the door holds.
Merge(a, b) ==
    LET corr == a.corr \cup b.corr IN
    [att |-> a.att \/ b.att,
     est |-> EarlierEst(Live(a.est, corr), Live(b.est, corr)),
     adm |-> EarlierAdm(Live(a.adm, corr), Live(b.adm, corr)),
     held |-> Larger(a.held, b.held),
     corr |-> corr,
     last |-> Larger(a.last, b.last)]

-----------------------------------------------------------------------------
(* A guest's lease.                                                        *)

\* guest_purge_in is Some: the record is one a sweep may forget.
Forgettable(r) == r.est = None /\ Guest(r)
Overdue(r, now) == r.last + Lease <= now /\ Forgettable(r)
=============================================================================
