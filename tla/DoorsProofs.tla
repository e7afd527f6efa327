----------------------------- MODULE DoorsProofs -----------------------------
(***************************************************************************)
(* What is proved of the doors of a mesh, for any doors, evidence, delays  *)
(* and bounds.  The invariant says of every replica, on a door or on its   *)
(* way, that no correction it knows of is later than the clock and that    *)
(* neither of its facts is spent by one.  A fact minted at a door is then  *)
(* later than every release the door knows, because the latest release is  *)
(* a number with a successor; a merge drops what the other side's releases *)
(* spend; a sync in flight stays as it was sent while the clock goes on.   *)
(***************************************************************************)
EXTENDS Doors, WellFoundedInduction, TLAPS

-----------------------------------------------------------------------------
(* The least and the greatest of a set of numbers.                         *)

\* Any set of naturals that is not empty has a least member.
LEMMA LeastExists ==
    ASSUME NEW S \in SUBSET Nat, S # {}
    PROVE  \E x \in S : \A y \in S : x <= y
<1> DEFINE R == {ss \in Nat \X Nat : ss[1] < ss[2]}
<1>1. IsWellFoundedOn(R, Nat)
  BY NatLessThanWellFounded, Zenon DEF OpToRel
<1> HIDE DEF R
<1>2. PICK x \in S : \A y \in S : ~(<<y, x>> \in R)
  BY <1>1, WFMin, Zenon
<1>3. ASSUME NEW y \in S PROVE x <= y
  <2>1. ~(<<y, x>> \in R) BY <1>2
  <2> QED BY <2>1 DEF R
<1> QED BY <1>3

LEMMA MinIsMember ==
    ASSUME NEW S \in SUBSET Nat, S # {}
    PROVE  Min(S) \in S
BY LeastExists DEF Min

\* A set of naturals under a bound has a greatest member: what is left to the
\* bound has a least one.
LEMMA MaxIsGreatest ==
    ASSUME NEW S \in SUBSET Nat, S # {}, NEW b \in Nat, \A x \in S : x <= b
    PROVE  Max(S) \in S /\ \A y \in S : Max(S) >= y
<1> DEFINE Rest == {b - x : x \in S}
<1>1. Rest \in SUBSET Nat /\ Rest # {}
  <2>1. \A x \in S : b - x \in Nat OBVIOUS
  <2>2. PICK x \in S : TRUE OBVIOUS
  <2>3. b - x \in Rest OBVIOUS
  <2> QED BY <2>1, <2>3
<1>2. PICK m \in Rest : \A y \in Rest : m <= y
  BY <1>1, LeastExists
<1>3. PICK x \in S : m = b - x BY <1>2
<1>4. \A y \in S : b - y \in Rest OBVIOUS
<1>5. ASSUME NEW y \in S PROVE x >= y
  <2>1. m <= b - y BY <1>2, <1>4
  <2> QED BY <1>3, <2>1
<1> QED BY <1>5 DEF Max

-----------------------------------------------------------------------------
(* Records.                                                                *)

\* A replica as the doors make them, at time t.
Sound(r, t) ==
    /\ r \in Record
    /\ \A c \in r.corr : c.ts <= t
    /\ r.est # None => Unspent(r.est.at, r.corr)
    /\ r.adm # None => Unspent(r.adm.at, r.corr)

\* A fact minted now answers every release the record knows (unspent_at).
LEMMA MintedIsUnspent ==
    ASSUME NEW t \in Nat, NEW r, Sound(r, t)
    PROVE  UnspentAt(r, t) \in Nat /\ Unspent(UnspentAt(r, t), r.corr)
<1>1. CASE Unspent(t, r.corr) BY <1>1 DEF UnspentAt
<1>2. CASE ~Unspent(t, r.corr)
  <2> DEFINE S == Releases(r.corr)
  <2>1. S \in SUBSET Nat /\ S # {} /\ \A x \in S : x <= t
    BY <1>2 DEF Sound, Releases, Unspent, Record, Correction
  <2>2. Max(S) \in S /\ \A y \in S : Max(S) >= y
    <3> HIDE DEF S
    <3> QED BY <2>1, MaxIsGreatest
  <2>3. UnspentAt(r, t) = Max(S) + 1 BY <1>2 DEF UnspentAt
  <2> HIDE DEF S
  <2>4. UnspentAt(r, t) \in Nat
    <3>1. Max(S) \in Nat BY <2>1, <2>2
    <3> QED BY <2>3, <3>1
  <2>5. ASSUME NEW y \in S PROVE UnspentAt(r, t) > y
    <3>1. y \in Nat /\ Max(S) \in Nat /\ Max(S) >= y BY <2>1, <2>2
    <3> QED BY <2>3, <3>1
  <2> QED BY <2>4, <2>5 DEF Unspent, S
<1> QED BY <1>1, <1>2

\* What keeps the facts and the corrections keeps a replica sound.
LEMMA SameFacts ==
    ASSUME NEW t \in Nat, NEW u \in Nat, t <= u, NEW r, Sound(r, t), NEW s \in Record,
           s.est = r.est, s.adm = r.adm, s.corr = r.corr
    PROVE  Sound(s, u)
BY DEF Sound, Record, Correction

LEMMA LaterIsSound ==
    ASSUME NEW t \in Nat, NEW r, Sound(r, t)
    PROVE  Sound(r, t + 1)
BY DEF Sound, Record, Correction

LEMMA SeenIsSound ==
    ASSUME NEW r, now \in Nat, Sound(r, now)
    PROVE  Sound(Seen(r), now)
<1>1. Seen(r) \in Record BY DEF Seen, Sound, Record, Larger
<1>2. /\ Seen(r).est = r.est /\ Seen(r).adm = r.adm /\ Seen(r).corr = r.corr
  BY DEF Seen, Sound, Record
<1> QED BY <1>1, <1>2, SameFacts

\* Two fields replaced at once, or one after the other.
LEMMA Replaced ==
    ASSUME NEW r, NEW est, NEW adm
    PROVE  [r EXCEPT !.est = est, !.adm = adm] = [[r EXCEPT !.est = est] EXCEPT !.adm = adm]
BY Zenon

\* A record that gets facts of its own keeps the ones it has, or takes one that
\* answers its releases.
LEMMA FactsAreSound ==
    ASSUME NEW t \in Nat, NEW r, Sound(r, t),
           NEW est \in Establishment \cup {None}, NEW adm \in Admission \cup {None},
           est # None => Unspent(est.at, r.corr),
           adm # None => Unspent(adm.at, r.corr)
    PROVE  Sound([r EXCEPT !.est = est, !.adm = adm], t)
<1> DEFINE s == [[r EXCEPT !.est = est] EXCEPT !.adm = adm]
<1>1. s \in Record /\ s.est = est /\ s.adm = adm /\ s.corr = r.corr
  BY DEF Sound, Record
<1>2. Sound(s, t) BY <1>1 DEF Sound
<1> QED BY <1>2, Replaced

\* The merge of two sound replicas is sound (merge_records).
LEMMA MergeIsSound ==
    ASSUME NEW t \in Nat, NEW a, NEW b, Sound(a, t), Sound(b, t)
    PROVE  Sound(Merge(a, b), t)
<1> DEFINE corr == a.corr \cup b.corr
           est == EarlierEst(Live(a.est, corr), Live(b.est, corr))
           adm == EarlierAdm(Live(a.adm, corr), Live(b.adm, corr))
<1>1. est \in {None, a.est, b.est} /\ (est # None => Unspent(est.at, corr))
  BY DEF EarlierEst, Live
<1>2. adm \in {None, a.adm, b.adm} /\ (adm # None => Unspent(adm.at, corr))
  BY DEF EarlierAdm, Live
<1>3. corr \in SUBSET Correction /\ \A c \in corr : c.ts <= t
  BY DEF Sound, Record
<1>4. est \in Establishment \cup {None} /\ adm \in Admission \cup {None}
  BY <1>1, <1>2 DEF Sound, Record
<1>5. (a.att \/ b.att) \in BOOLEAN /\ Larger(a.held, b.held) \in Nat /\ Larger(a.last, b.last) \in Nat
  BY DEF Sound, Record, Larger
<1>6. Merge(a, b) = [att |-> a.att \/ b.att, est |-> est, adm |-> adm,
                     held |-> Larger(a.held, b.held), corr |-> corr,
                     last |-> Larger(a.last, b.last)]
  BY Zenon DEF Merge
<1> HIDE DEF est, adm, corr
<1>7. Merge(a, b) \in Record BY <1>3, <1>4, <1>5, <1>6 DEF Record
<1>8. Merge(a, b).est = est /\ Merge(a, b).adm = adm /\ Merge(a, b).corr = corr
  BY <1>6
<1> QED BY <1>1, <1>2, <1>3, <1>7, <1>8 DEF Sound

-----------------------------------------------------------------------------
(* The invariant.                                                          *)

RecordsAreSound ==
    /\ rec \in [Doors -> Record \cup {None}]
    /\ \A d \in Doors : Held(d) => Sound(rec[d], now)

DoorsInv ==
    /\ now \in Nat
    /\ RecordsAreSound
    /\ \A m \in wire : Sound(m.record, now)

LEMMA BlankIsSound ==
    ASSUME NEW t \in Nat
    PROVE  Sound(Blank(t), t) /\ Blank(t).est = None /\ Blank(t).adm = None
BY DEF Sound, Blank, Record

LEMMA CurrentIsSound ==
    ASSUME DoorsInv, NEW d \in Doors
    PROVE  Sound(Current(d), now)
BY BlankIsSound DEF DoorsInv, RecordsAreSound, Current

\* A door that writes a sound record, or forgets its own, keeps the invariant.
LEMMA WriteKeepsInv ==
    ASSUME DoorsInv, NEW d \in Doors, NEW r, Write(d, r), now' = now,
           wire' \subseteq wire, r # None => Sound(r, now)
    PROVE  DoorsInv'
<1>1. rec' = [rec EXCEPT ![d] = r] BY DEF Write
<1>2. r \in Record \cup {None} BY DEF Sound
<1>3. rec' \in [Doors -> Record \cup {None}]
  BY <1>1, <1>2 DEF DoorsInv, RecordsAreSound
<1>4. ASSUME NEW e \in Doors, Held(e)' PROVE Sound(rec'[e], now')
  <2>1. CASE e = d BY <1>1, <1>4, <2>1 DEF Held, DoorsInv, RecordsAreSound
  <2>2. CASE e # d
    <3>1. rec'[e] = rec[e] BY <1>1, <2>2 DEF DoorsInv, RecordsAreSound
    <3>2. Sound(rec[e], now) BY <1>4, <3>1 DEF Held, DoorsInv, RecordsAreSound
    <3> QED BY <3>1, <3>2
  <2> QED BY <2>1, <2>2
<1>5. \A m \in wire' : Sound(m.record, now') BY DEF DoorsInv
<1> QED BY <1>3, <1>4, <1>5 DEF DoorsInv, RecordsAreSound

LEMMA UpsertKeepsInv ==
    ASSUME DoorsInv, NEW d \in Doors, NEW r, Upsert(d, r), now' = now,
           wire' \subseteq wire, Sound(r, now)
    PROVE  DoorsInv'
<1>1. Sound(Seen(r), now) BY SeenIsSound DEF DoorsInv
<1>2. Write(d, Seen(r)) BY DEF Upsert
<1> QED BY <1>1, <1>2, WriteKeepsInv

LEMMA IntroducedIsSound ==
    ASSUME NEW h \in SUBSET Doors, h # {}, NEW r \in Introduced(h)
    PROVE  Sound(r, 0)
<1> DEFINE est == [handle |-> 0, artifact |-> 0, at |-> 0]
           adm == [by |-> Min(h), at |-> 0]
<1>1. Sound(Blank(0), 0) /\ Blank(0).corr = {} BY BlankIsSound DEF Blank
<1>2. CASE r = [Blank(0) EXCEPT !.att = TRUE]
  <2>1. /\ r \in Record /\ r.est = Blank(0).est
        /\ r.adm = Blank(0).adm /\ r.corr = Blank(0).corr
    BY <1>1, <1>2 DEF Sound, Record
  <2> QED BY <1>1, <2>1, SameFacts
<1>3. CASE r = [Blank(0) EXCEPT !.est = est, !.adm = adm]
  <2>1. Min(h) \in Nat BY MinIsMember, DoorAssumption
  <2>2. est \in Establishment /\ adm \in Admission
    BY <2>1 DEF Establishment, Admission
  <2>3. Unspent(est.at, {}) /\ Unspent(adm.at, {}) BY DEF Unspent, Releases
  <2> HIDE DEF est, adm
  <2> QED BY <1>1, <1>3, <2>2, <2>3, FactsAreSound
<1> QED BY <1>2, <1>3 DEF Introduced

LEMMA InitEstablishesInv == Init => DoorsInv
<1> SUFFICES ASSUME Init PROVE DoorsInv
  OBVIOUS
<1>1. now = 0 /\ wire = {} BY DEF Init
<1>2. PICK holders \in SUBSET Doors :
          IF holders = {} THEN rec = [d \in Doors |-> None]
          ELSE \E r \in Introduced(holders) :
                   rec = [d \in Doors |-> IF d \in holders THEN r ELSE None]
  BY DEF Init
<1>3. CASE holders = {} BY <1>1, <1>2, <1>3 DEF DoorsInv, RecordsAreSound, Held
<1>4. CASE holders # {}
  <2>1. PICK r \in Introduced(holders) :
            rec = [d \in Doors |-> IF d \in holders THEN r ELSE None]
    BY <1>2, <1>4
  <2>2. Sound(r, 0) BY <1>4, IntroducedIsSound
  <2> QED BY <1>1, <2>1, <2>2 DEF DoorsInv, RecordsAreSound, Held, Sound
<1> QED BY <1>3, <1>4

-----------------------------------------------------------------------------
(* The steps.                                                              *)

LEMMA KnockKeepsInv ==
    ASSUME DoorsInv, NEW d \in Doors, Knock(d)
    PROVE  DoorsInv'
<1> DEFINE r == Current(d)
           s == [r EXCEPT !.att = TRUE, !.held = 0]
<1>1. Upsert(d, s) /\ now' = now /\ wire' = wire BY Zenon DEF Knock, Act
<1>2. s = [[r EXCEPT !.att = TRUE] EXCEPT !.held = 0] BY Zenon
<1>3. Sound(r, now) BY CurrentIsSound
<1> HIDE DEF r, s
<1>4. s \in Record /\ s.est = r.est /\ s.adm = r.adm /\ s.corr = r.corr
  BY <1>2, <1>3 DEF Sound, Record
<1>5. Sound(s, now) BY <1>3, <1>4, SameFacts DEF DoorsInv
<1> QED BY <1>1, <1>5, UpsertKeepsInv

\* What a door grants fills in the facts that are missing.
LEMMA GrantIsSound ==
    ASSUME DoorsInv, NEW r, Sound(r, now), NEW d \in Doors,
           NEW handle \in Nat, NEW artifact \in Nat,
           NEW at, at = UnspentAt(r, now)
    PROVE  Sound([r EXCEPT
               !.est = IF r.est = None
                       THEN [handle |-> handle, artifact |-> artifact, at |-> at]
                       ELSE r.est,
               !.adm = IF r.adm = None THEN [by |-> d, at |-> at] ELSE r.adm], now)
<1> DEFINE est == IF r.est = None
                  THEN [handle |-> handle, artifact |-> artifact, at |-> at]
                  ELSE r.est
           adm == IF r.adm = None THEN [by |-> d, at |-> at] ELSE r.adm
<1>1. at \in Nat /\ Unspent(at, r.corr) BY MintedIsUnspent DEF DoorsInv
<1>2. d \in Nat BY DoorAssumption
<1>3. est \in Establishment \cup {None} /\ (est # None => Unspent(est.at, r.corr))
  BY <1>1 DEF Sound, Record, Establishment
<1>4. adm \in Admission \cup {None} /\ (adm # None => Unspent(adm.at, r.corr))
  BY <1>1, <1>2 DEF Sound, Record, Admission
<1> HIDE DEF est, adm
<1>5. Sound([r EXCEPT !.est = est, !.adm = adm], now)
  BY <1>3, <1>4, FactsAreSound DEF DoorsInv
<1> QED BY <1>5, Zenon DEF est, adm

LEMMA IntroduceKeepsInv ==
    ASSUME DoorsInv, NEW d \in Doors, Introduce(d)
    PROVE  DoorsInv'
<1>1. Held(d) /\ now' = now /\ wire' = wire
  BY Zenon DEF Introduce, MayIntroduce, Act
<1>2. PICK e \in Evidence : Upsert(d, Admitted(d, e)) BY Zenon DEF Introduce
<1>3. e.handle \in Nat /\ e.artifact \in Nat BY EvidenceAssumption DEF Proof
<1>4. Sound(rec[d], now) BY <1>1 DEF DoorsInv, RecordsAreSound
<1>5. Sound(Admitted(d, e), now)
  BY <1>3, <1>4, GrantIsSound, Zenon DEF Admitted
<1> QED BY <1>1, <1>2, <1>5, UpsertKeepsInv

LEMMA StandingGrantKeepsInv ==
    ASSUME DoorsInv, NEW d \in Doors, StandingGrant(d)
    PROVE  DoorsInv'
<1> DEFINE r == Current(d)
           at == UnspentAt(r, now)
           s == [r EXCEPT
                    !.est = IF r.est = None
                            THEN [handle |-> 0, artifact |-> 0, at |-> at] ELSE r.est,
                    !.adm = IF r.adm = None THEN [by |-> d, at |-> at] ELSE r.adm]
<1>1. Upsert(d, s) /\ now' = now /\ wire' = wire BY Zenon DEF StandingGrant, Act
<1>2. Sound(r, now) BY CurrentIsSound
<1>3. 0 \in Nat OBVIOUS
<1>4. Sound(s, now) BY <1>2, <1>3, GrantIsSound, Zenon
<1> HIDE DEF s
<1> QED BY <1>1, <1>4, UpsertKeepsInv

\* What leaves the record as it is, and only sees the device.
LEMMA SightKeepsInv ==
    ASSUME DoorsInv, NEW d \in Doors, RecordClaim(d) \/ Sighting(d) \/ NoteOrigin(d)
    PROVE  DoorsInv'
<1>1. Held(d) /\ Upsert(d, rec[d]) /\ now' = now /\ wire' = wire
  BY Zenon DEF RecordClaim, Sighting, NoteOrigin, MayIntroduce, Act
<1>2. Sound(rec[d], now) BY <1>1 DEF DoorsInv, RecordsAreSound
<1> QED BY <1>1, <1>2, UpsertKeepsInv

LEMMA RevokedIsSound ==
    ASSUME DoorsInv, NEW d \in Doors
    PROVE  Sound(Revoked(d), now)
<1>1. Sound(Current(d), now) BY CurrentIsSound
<1> QED BY <1>1 DEF Revoked, Sound, Record

LEMMA StandingRevokeKeepsInv ==
    ASSUME DoorsInv, NEW d \in Doors, StandingRevoke(d)
    PROVE  DoorsInv'
<1>1. Upsert(d, Revoked(d)) /\ now' = now /\ wire' = wire
  BY Zenon DEF StandingRevoke, Act
<1> QED BY <1>1, RevokedIsSound, UpsertKeepsInv

LEMMA NameKeepsInv ==
    ASSUME DoorsInv, NEW d \in Doors, NameEstablished(d)
    PROVE  DoorsInv'
<1> DEFINE named(e) == [rec[d].est EXCEPT !.handle = e.handle]
<1>1. Held(d) /\ rec[d].est # None /\ now' = now /\ wire' = wire
  BY Zenon DEF NameEstablished, Effective, Act
<1>2. PICK e \in Evidence : Upsert(d, [rec[d] EXCEPT !.est = named(e)])
  BY Zenon DEF NameEstablished
<1>3. Sound(rec[d], now) BY <1>1 DEF DoorsInv, RecordsAreSound
<1>4. e.handle \in Nat BY EvidenceAssumption DEF Proof
<1>5. named(e) \in Establishment /\ named(e).at = rec[d].est.at
  BY <1>1, <1>3, <1>4 DEF Sound, Record, Establishment
<1> HIDE DEF named
<1>6. Sound([rec[d] EXCEPT !.est = named(e)], now)
  BY <1>1, <1>3, <1>5 DEF Sound, Record
<1> QED BY <1>1, <1>2, <1>6, UpsertKeepsInv

LEMMA DenyKeepsInv ==
    ASSUME DoorsInv, NEW d \in Doors, Deny(d)
    PROVE  DoorsInv'
<1> DEFINE held(r) == [r EXCEPT !.held = Larger(@, now + HoldTime)]
<1>1. now' = now /\ wire' = wire BY Zenon DEF Deny, Act
<1>2. PICK revoking \in BOOLEAN :
          Upsert(d, held(IF revoking /\ d \in roll THEN Revoked(d) ELSE Current(d)))
  BY Zenon DEF Deny
<1>3. PICK r : Sound(r, now) /\ Upsert(d, held(r))
  BY <1>2, CurrentIsSound, RevokedIsSound
<1>4. now + HoldTime \in Nat BY DurationAssumption DEF DoorsInv
<1>5. /\ held(r) \in Record /\ held(r).est = r.est
      /\ held(r).adm = r.adm /\ held(r).corr = r.corr
  BY <1>3, <1>4 DEF Sound, Record, Larger
<1> HIDE DEF held
<1>6. Sound(held(r), now) BY <1>3, <1>5, SameFacts DEF DoorsInv
<1> QED BY <1>1, <1>3, <1>6, UpsertKeepsInv

\* A correction that releases leaves no fact; another spends none.
LEMMA CorrectedIsSound ==
    ASSUME DoorsInv, NEW r, Sound(r, now), NEW c \in Correction, c.ts <= now
    PROVE  Sound(Corrected(r, c), now)
<1> DEFINE released == c.act \in Releasing
           corr == r.corr \cup {c}
           est == IF released THEN None ELSE r.est
           adm == IF released THEN None ELSE r.adm
           held == IF c.act = "hold" THEN Larger(r.held, c.ts + HoldTime)
                   ELSE IF c.act = "restore" THEN 0 ELSE r.held
           s == [[[[r EXCEPT !.corr = corr] EXCEPT !.est = est]
                     EXCEPT !.adm = adm] EXCEPT !.held = held]
<1>1. Corrected(r, c) = s BY Zenon DEF Corrected
<1>2. corr \in SUBSET Correction /\ \A x \in corr : x.ts <= now
  BY DEF Sound, Record
<1>3. est \in Establishment \cup {None} /\ adm \in Admission \cup {None}
  BY DEF Sound, Record
<1>4. held \in Nat
  BY DurationAssumption DEF Sound, Record, Correction, Larger
<1>5. ~released => Releases(corr) = Releases(r.corr) BY DEF Releases
<1>6. /\ est # None => Unspent(est.at, corr)
      /\ adm # None => Unspent(adm.at, corr)
  BY <1>5 DEF Sound, Unspent
<1> HIDE DEF est, adm, corr, held
<1>7. s \in Record /\ s.est = est /\ s.adm = adm /\ s.corr = corr
  BY <1>2, <1>3, <1>4 DEF Sound, Record
<1> QED BY <1>1, <1>2, <1>6, <1>7 DEF Sound

LEMMA CorrectKeepsInv ==
    ASSUME DoorsInv, NEW d \in Doors, Correct(d)
    PROVE  DoorsInv'
<1>1. Held(d) /\ now' = now /\ wire' = wire BY Zenon DEF Correct, Act
<1>2. PICK act \in Acts, ts \in Larger(0, now - Delay)..now :
          Upsert(d, Corrected(rec[d], [act |-> act, ts |-> ts]))
  BY Zenon DEF Correct
<1>3. Sound(rec[d], now) BY <1>1 DEF DoorsInv, RecordsAreSound
<1>4. ts \in Nat /\ ts <= now
  BY BoundAssumption DEF DoorsInv, Larger
<1>5. Sound(Corrected(rec[d], [act |-> act, ts |-> ts]), now)
  BY <1>3, <1>4, CorrectedIsSound DEF Correction
<1> QED BY <1>1, <1>2, <1>5, UpsertKeepsInv

LEMMA PurgeKeepsInv ==
    ASSUME DoorsInv, NEW d \in Doors, Purge(d)
    PROVE  DoorsInv'
<1>1. Write(d, None) /\ now' = now /\ wire' = wire BY Zenon DEF Purge
<1> QED BY <1>1, WriteKeepsInv

LEMMA OfferKeepsInv ==
    ASSUME DoorsInv, NEW d \in Doors, NEW to \in Doors, Offer(d, to)
    PROVE  DoorsInv'
<1>1. /\ Held(d) /\ rec' = rec /\ now' = now
      /\ wire' = wire \cup {[from |-> d, to |-> to, record |-> rec[d]]}
  BY DEF Offer, Offerable
<1>2. Sound(rec[d], now) BY <1>1 DEF DoorsInv, RecordsAreSound
<1>3. ASSUME NEW m \in wire' PROVE Sound(m.record, now)
  BY <1>1, <1>2 DEF DoorsInv
<1> QED BY <1>1, <1>3 DEF DoorsInv, RecordsAreSound, Held

LEMMA AbsorbKeepsInv ==
    ASSUME DoorsInv, NEW d \in Doors, Absorb(d)
    PROVE  DoorsInv'
<1>1. PICK m \in wire :
          /\ wire' = wire \ {m} /\ now' = now
          /\ \/ rec' = rec
             \/ Write(d, Absorbed(d, m.record))
             \/ Upsert(d, Absorbed(d, m.record))
  BY DEF Absorb
<1>2. Sound(m.record, now) BY DEF DoorsInv
<1>3. Sound(Absorbed(d, m.record), now)
  BY <1>2, MergeIsSound DEF Absorbed, DoorsInv, RecordsAreSound
<1>4. CASE rec' = rec BY <1>1, <1>4 DEF DoorsInv, RecordsAreSound, Held
<1> QED BY <1>1, <1>3, <1>4, WriteKeepsInv, UpsertKeepsInv

LEMMA TickKeepsInv ==
    ASSUME DoorsInv, Tick
    PROVE  DoorsInv'
BY LaterIsSound DEF DoorsInv, RecordsAreSound, Held, Tick

LEMMA NextKeepsInv ==
    ASSUME DoorsInv, [Next]_vars
    PROVE  DoorsInv'
<1>1. ASSUME NEW d \in Doors,
             \/ Knock(d) \/ Introduce(d) \/ RecordClaim(d)
             \/ Sighting(d) \/ NoteOrigin(d) \/ StandingGrant(d)
             \/ StandingRevoke(d) \/ NameEstablished(d) \/ Deny(d)
             \/ Correct(d) \/ Purge(d) \/ Absorb(d)
             \/ \E to \in Doors : Offer(d, to)
      PROVE  DoorsInv'
  BY <1>1, KnockKeepsInv, IntroduceKeepsInv, SightKeepsInv, StandingGrantKeepsInv,
     StandingRevokeKeepsInv, NameKeepsInv, DenyKeepsInv, CorrectKeepsInv,
     PurgeKeepsInv, AbsorbKeepsInv, OfferKeepsInv, Zenon
<1>2. CASE UNCHANGED vars BY <1>2 DEF vars, DoorsInv, RecordsAreSound, Held
<1> QED BY <1>1, <1>2, TickKeepsInv, Zenon DEF Next

-----------------------------------------------------------------------------
(* The theorems.                                                           *)

\* Every replica of the device's record is sound, wherever it is and whatever
\* order exchanges take (record.rs).
THEOREM RecordsStaySound == Spec => []DoorsInv
<1>1. Init => DoorsInv BY InitEstablishesInv
<1>2. DoorsInv /\ [Next]_vars => DoorsInv' BY NextKeepsInv
<1> QED BY <1>1, <1>2, PTL DEF Spec

LEMMA SoundIsUnspent == DoorsInv => SpentIsGone
BY DEF DoorsInv, RecordsAreSound, Held, SpentIsGone, Replicas, Sound

\* No replica, on a door or on its way, holds a fact as old as a release it
\* knows of, so no order of exchanges brings one back (record.rs, merge_records
\* and unspent_at).
THEOREM SpentStaysGone == Spec => []SpentIsGone
BY RecordsStaySound, SoundIsUnspent, PTL

\* Of what two records hold of one kind of fact, each takes the other's or
\* both are none: the facts that both merges keep are the same to them.
LEMMA SameEstablishment ==
    ASSUME NEW e \in Establishment \cup {None}, NEW f \in Establishment \cup {None},
           NEW corr, NEW x, NEW y,
           x = Live(e, corr), y = Live(f, corr),
           EarlierEst(x, y) = e, EarlierEst(y, x) = f
    PROVE  \/ e = f
           \/ /\ e # None /\ f # None
              /\ e.at = f.at /\ e.artifact = f.artifact
<1>1. x \in {None, e} /\ y \in {None, f} BY DEF Live
<1>2. CASE x = None \/ y = None BY <1>1, <1>2 DEF EarlierEst
<1>3. CASE x # None /\ y # None
  <2>1. x = e /\ y = f /\ e \in Establishment /\ f \in Establishment BY <1>1, <1>3
  <2>2. CASE e.at = f.at /\ e.artifact = f.artifact BY <1>3, <2>1, <2>2
  <2>3. CASE ~(e.at = f.at /\ e.artifact = f.artifact)
    <3>1. e.at \in Nat /\ f.at \in Nat /\ e.artifact \in Nat /\ f.artifact \in Nat
      BY <2>1 DEF Establishment
    <3> QED BY <1>3, <2>1, <2>3, <3>1 DEF EarlierEst
  <2> QED BY <2>2, <2>3
<1> QED BY <1>2, <1>3

LEMMA SameAdmission ==
    ASSUME NEW e \in Admission \cup {None}, NEW f \in Admission \cup {None},
           NEW corr, NEW x, NEW y,
           x = Live(e, corr), y = Live(f, corr),
           EarlierAdm(x, y) = e, EarlierAdm(y, x) = f
    PROVE  e = f
<1>1. x \in {None, e} /\ y \in {None, f} BY DEF Live
<1>2. CASE x = None \/ y = None BY <1>1, <1>2 DEF EarlierAdm
<1>3. CASE x # None /\ y # None
  <2>1. x = e /\ y = f /\ e \in Admission /\ f \in Admission BY <1>1, <1>3
  <2>2. e.at \in Nat /\ f.at \in Nat /\ e.by \in Nat /\ f.by \in Nat
    BY <2>1 DEF Admission
  <2>3. CASE e.at = f.at /\ e.by = f.by BY <2>1, <2>3 DEF Admission
  <2>4. CASE ~(e.at = f.at /\ e.by = f.by) BY <1>3, <2>1, <2>2, <2>4 DEF EarlierAdm
  <2> QED BY <2>3, <2>4
<1> QED BY <1>2, <1>3

\* Two records that have nothing new for each other agree in all but the name.
LEMMA NothingNew ==
    ASSUME NEW a \in Record, NEW b \in Record, a # None, b # None,
           Merge(a, b) = a, Merge(b, a) = b
    PROVE  Unnamed(a) = Unnamed(b)
<1> DEFINE corr == a.corr \cup b.corr
<1>1. corr = b.corr \cup a.corr OBVIOUS
<1> HIDE DEF corr
<1>2. /\ a.corr = corr
      /\ a.adm = EarlierAdm(Live(a.adm, corr), Live(b.adm, corr))
      /\ a.est = EarlierEst(Live(a.est, corr), Live(b.est, corr))
      /\ a.held = Larger(a.held, b.held) /\ a.last = Larger(a.last, b.last)
  <2> DEFINE m == [att |-> a.att \/ b.att,
                   est |-> EarlierEst(Live(a.est, corr), Live(b.est, corr)),
                   adm |-> EarlierAdm(Live(a.adm, corr), Live(b.adm, corr)),
                   held |-> Larger(a.held, b.held), corr |-> corr,
                   last |-> Larger(a.last, b.last)]
  <2>1. a = m BY Zenon DEF Merge, corr
  <2>2. /\ m.corr = corr
        /\ m.adm = EarlierAdm(Live(a.adm, corr), Live(b.adm, corr))
        /\ m.est = EarlierEst(Live(a.est, corr), Live(b.est, corr))
        /\ m.held = Larger(a.held, b.held) /\ m.last = Larger(a.last, b.last)
    OBVIOUS
  <2> HIDE DEF m
  <2> QED BY <2>1, <2>2, Zenon
<1>3. /\ b.corr = corr
      /\ b.adm = EarlierAdm(Live(b.adm, corr), Live(a.adm, corr))
      /\ b.est = EarlierEst(Live(b.est, corr), Live(a.est, corr))
      /\ b.held = Larger(b.held, a.held) /\ b.last = Larger(b.last, a.last)
  <2> DEFINE m == [att |-> b.att \/ a.att,
                   est |-> EarlierEst(Live(b.est, corr), Live(a.est, corr)),
                   adm |-> EarlierAdm(Live(b.adm, corr), Live(a.adm, corr)),
                   held |-> Larger(b.held, a.held), corr |-> corr,
                   last |-> Larger(b.last, a.last)]
  <2>1. b = m BY <1>1, Zenon DEF Merge
  <2>2. /\ m.corr = corr
        /\ m.adm = EarlierAdm(Live(b.adm, corr), Live(a.adm, corr))
        /\ m.est = EarlierEst(Live(b.est, corr), Live(a.est, corr))
        /\ m.held = Larger(b.held, a.held) /\ m.last = Larger(b.last, a.last)
    OBVIOUS
  <2> HIDE DEF m
  <2> QED BY <2>1, <2>2, Zenon
<1>4. a.att = b.att
  <2>1. Merge(a, b).att = (a.att \/ b.att) /\ Merge(b, a).att = (b.att \/ a.att)
    BY DEF Merge
  <2>2. \A x, y \in BOOLEAN : x = (x \/ y) /\ y = (y \/ x) => x = y OBVIOUS
  <2>3. a.att \in BOOLEAN /\ b.att \in BOOLEAN BY DEF Record
  <2>4. a.att = (a.att \/ b.att) /\ b.att = (b.att \/ a.att) BY <2>1, Zenon
  <2> QED BY <2>2, <2>3, <2>4, Zenon
<1>5. a.adm = b.adm
  <2>1. a.adm \in Admission \cup {None} /\ b.adm \in Admission \cup {None} BY DEF Record
  <2> QED BY <1>2, <1>3, <2>1, SameAdmission, Zenon
<1>6. \/ a.est = b.est
      \/ /\ a.est # None /\ b.est # None
         /\ a.est.at = b.est.at /\ a.est.artifact = b.est.artifact
  <2>1. a.est \in Establishment \cup {None} /\ b.est \in Establishment \cup {None}
    BY DEF Record
  <2> DEFINE x == Live(a.est, corr)
             y == Live(b.est, corr)
  <2>2. EarlierEst(x, y) = a.est /\ EarlierEst(y, x) = b.est BY <1>2, <1>3, Zenon
  <2> QED BY <2>1, <2>2, SameEstablishment
<1>7. a.held = b.held /\ a.last = b.last
  <2>1. {a.held, b.held, a.last, b.last} \subseteq Nat BY DEF Record
  <2> QED BY <1>2, <1>3, <2>1 DEF Larger
<1>8. \A r \in Record :
          r = [att |-> r.att, est |-> r.est, adm |-> r.adm, held |-> r.held,
               corr |-> r.corr, last |-> r.last]
  BY DEF Record
<1>9. CASE a.est = b.est
  <2>1. a = b BY <1>2, <1>3, <1>4, <1>5, <1>7, <1>8, <1>9, Zenon
  <2> QED BY <2>1
<1>10. CASE /\ a.est # None /\ b.est # None
            /\ a.est.at = b.est.at /\ a.est.artifact = b.est.artifact
  <2> DEFINE e == [a.est EXCEPT !.handle = 0]
             f == [b.est EXCEPT !.handle = 0]
  <2>1. a.est \in Establishment /\ b.est \in Establishment BY <1>10 DEF Record
  <2>2. e = f BY <1>10, <2>1 DEF Establishment
  <2>3. ASSUME NEW r \in Record, r # None, r.est # None
        PROVE  Unnamed(r) = [att |-> r.att, est |-> [r.est EXCEPT !.handle = 0],
                             adm |-> r.adm, held |-> r.held, corr |-> r.corr,
                             last |-> r.last]
    BY <2>3 DEF Unnamed, Record
  <2> QED BY <1>2, <1>3, <1>4, <1>5, <1>7, <1>10, <2>2, <2>3
<1> QED BY <1>6, <1>9, <1>10

LEMMA ReplicasAreRecords ==
    ASSUME DoorsInv
    PROVE  \A r \in Replicas : r \in Record /\ r # None
BY DEF DoorsInv, RecordsAreSound, Held, Replicas, Sound

\* Exchange cannot stop at a disagreement: two replicas with nothing new for
\* each other hold the same, but for a name (record.rs, merge_records).
THEOREM ExchangeEndsInAgreement == Spec => []NothingNewIsAgreement
<1>1. DoorsInv => NothingNewIsAgreement
  BY ReplicasAreRecords, NothingNew DEF NothingNewIsAgreement
<1> QED BY <1>1, RecordsStaySound, PTL
=============================================================================
