-------------------------- MODULE LedgerFileProofs --------------------------
(***************************************************************************)
(* Proofs about the on-disk ledger, for any number of writers, any menu of *)
(* calls, any plan, surface, requests and digests, and any number of       *)
(* errors and crashes.                                                     *)
(*                                                                         *)
(* Replay is a fold of the file, and what it makes of a file one fragment  *)
(* longer is what the rest turns on: ReplayOfMore.  It is proved without   *)
(* an induction schema, by the least fragment it could fail at.            *)
(***************************************************************************)
EXTENDS LedgerFile, FiniteSetTheorems, NaturalsInduction, WellFoundedInduction, TLAPS

\* A set of numbers that is not empty has a least.
LEMMA LeastExists ==
    ASSUME NEW S \in SUBSET Nat, S # {}
    PROVE  \E x \in S : \A y \in S : x <= y
<1> DEFINE R == {ss \in Nat \X Nat : ss[1] < ss[2]}
<1>1. IsWellFoundedOn(R, Nat)
  BY NatLessThanWellFounded, Zenon DEF OpToRel
<1> HIDE DEF R
<1>2. PICK x \in S : \A y \in S : ~(<<y, x>> \in R)
  BY <1>1, WFMin, Zenon
<1>3. ASSUME NEW y \in S PROVE x <= y
  <2>1. ~(<<y, x>> \in R) BY <1>2
  <2> QED BY <2>1 DEF R
<1> QED BY <1>3

\* What holds of 0, and of a number after one it holds of, holds up to n: of
\* the numbers it does not hold of, none is the least.
LEMMA UpTo ==
    ASSUME NEW n \in Nat, NEW P \in SUBSET Nat, 0 \in P,
           \A k \in 1..n : k - 1 \in P => k \in P
    PROVE  0..n \subseteq P
<1> DEFINE bad == (0..n) \ P
<1>1. SUFFICES ASSUME bad # {} PROVE FALSE OBVIOUS
<1>2. bad \in SUBSET Nat OBVIOUS
<1> HIDE DEF bad
<1>3. PICK x \in bad : \A y \in bad : x <= y BY <1>1, <1>2, LeastExists
<1>4. x \in 1..n BY <1>3 DEF bad
<1>5. x - 1 \notin bad BY <1>3, <1>4, <1>2
<1> QED BY <1>3, <1>4, <1>5 DEF bad

-----------------------------------------------------------------------------
(* Replay of a longer file.                                                *)

Start0 == [ok |-> TRUE, n |-> 0, st |-> Opened]
ReadStep(acc, x) == IF IsWhole(x) THEN ReplayStep(acc, x) ELSE acc

\* The results of replaying the first fragments of s, up to the k-th.
Replays(f, s, k) ==
    /\ DOMAIN f = 0..k /\ f[0] = Start0
    /\ \A n \in 1..k : f[n] = ReadStep(f[n - 1], s[n])

LEMMA ReplaysExist ==
    ASSUME NEW s, NEW k \in Nat PROVE \E f : Replays(f, s, k)
<1> DEFINE P == {n \in Nat : \E f : Replays(f, s, n)}
<1>1. 0 \in P
  <2>1. Replays([n \in 0..0 |-> Start0], s, 0) BY DEF Replays
  <2> QED BY <2>1
<1>2. ASSUME NEW n \in 1..k, n - 1 \in P PROVE n \in P
  <2>1. PICK f : Replays(f, s, n - 1) BY <1>2
  <2> DEFINE g == [i \in 0..n |-> IF i = n THEN ReadStep(f[n - 1], s[n]) ELSE f[i]]
  <2>2. DOMAIN g = 0..n /\ g[0] = Start0 BY <2>1 DEF Replays
  <2>3. ASSUME NEW i \in 1..n PROVE g[i] = ReadStep(g[i - 1], s[i])
    <3>1. g[i - 1] = f[i - 1] OBVIOUS
    <3>2. CASE i = n BY <3>1, <3>2
    <3>3. CASE i # n
      <4>1. i \in 1..(n - 1) BY <3>3
      <4>2. f[i] = ReadStep(f[i - 1], s[i]) BY <2>1, <4>1 DEF Replays
      <4> QED BY <3>1, <3>3, <4>2
    <3> QED BY <3>2, <3>3
  <2> HIDE DEF g
  <2>4. Replays(g, s, n) BY <2>2, <2>3 DEF Replays
  <2> QED BY <2>4
<1>3. P \in SUBSET Nat OBVIOUS
<1> HIDE DEF P
<1>4. \A n \in 1..k : n - 1 \in P => n \in P BY <1>2
<1>5. 0..k \subseteq P BY <1>1, <1>3, <1>4, UpTo, Zenon
<1>6. k \in P BY <1>5
<1> QED BY <1>6 DEF P

\* Replay is the last of them.
LEMMA ReplayIsLast ==
    ASSUME NEW S, NEW s \in Seq(S)
    PROVE  \E f : Replays(f, s, Len(s)) /\ Replay(s) = f[Len(s)]
<1> DEFINE body(f) == [n \in 0..Len(s) |-> IF n = 0 THEN Start0
                                            ELSE ReadStep(f[n - 1], s[n])]
<1> DEFINE after == CHOOSE f : f = body(f)
<1>1. Len(s) \in Nat OBVIOUS
<1>2. PICK h : Replays(h, s, Len(s)) BY <1>1, ReplaysExist
<1> DEFINE g == [n \in 0..Len(s) |-> h[n]]
<1>3. g = body(g)
  <2>1. ASSUME NEW n \in 0..Len(s)
        PROVE  h[n] = IF n = 0 THEN Start0 ELSE ReadStep(g[n - 1], s[n])
    <3>1. CASE n = 0 BY <1>2, <3>1 DEF Replays
    <3>2. CASE n # 0
      <4>1. n \in 1..Len(s) /\ n - 1 \in 0..Len(s) BY <1>1, <3>2
      <4>2. h[n] = ReadStep(h[n - 1], s[n]) BY <1>2, <4>1 DEF Replays
      <4>3. g[n - 1] = h[n - 1] BY <4>1
      <4> QED BY <3>2, <4>2, <4>3
    <3> QED BY <3>1, <3>2
  <2> QED BY <2>1
<1> HIDE DEF g
<1>4. after = body(after) BY <1>3, Zenon
<1>5. Replay(s) = after[Len(s)] BY Zenon DEF Replay, ReadStep, Start0
<1> HIDE DEF after
<1>6. Replays(after, s, Len(s))
  <2> DEFINE b == body(after)
  <2>1. DOMAIN b = 0..Len(s) /\ b[0] = Start0 BY <1>1
  <2>2. ASSUME NEW n \in 1..Len(s) PROVE b[n] = ReadStep(after[n - 1], s[n])
    <3>1. n \in 0..Len(s) /\ n # 0 BY <1>1
    <3> QED BY <3>1
  <2>3. after = b BY <1>4
  <2> HIDE DEF b
  <2> QED BY <2>1, <2>2, <2>3 DEF Replays
<1> QED BY <1>5, <1>6

LEMMA ReplayOfNone == Replay(<<>>) = Start0
<1>1. <<>> \in Seq({}) /\ Len(<<>>) = 0 OBVIOUS
<1>2. PICK f : Replays(f, <<>>, 0) /\ Replay(<<>>) = f[0] BY <1>1, ReplayIsLast
<1> QED BY <1>2 DEF Replays

LEMMA ReplayOfMore ==
    ASSUME NEW S, NEW s \in Seq(S), NEW x \in S
    PROVE  Replay(Append(s, x)) = ReadStep(Replay(s), x)
<1> DEFINE m == Len(s)
<1> DEFINE t == Append(s, x)
<1>1. m \in Nat /\ t \in Seq(S) /\ Len(t) = m + 1 /\ t[m + 1] = x
      /\ \A i \in 1..m : t[i] = s[i]
  OBVIOUS
<1>2. PICK f : Replays(f, s, m) /\ Replay(s) = f[m] BY ReplayIsLast
<1>3. PICK g : Replays(g, t, m + 1) /\ Replay(t) = g[m + 1] BY <1>1, ReplayIsLast
<1> HIDE DEF m, t
<1> DEFINE P == {i \in 0..m : f[i] = g[i]}
<1>4. 0 \in P BY <1>1, <1>2, <1>3 DEF Replays
<1>5. ASSUME NEW i \in 1..m, i - 1 \in P PROVE i \in P
  <2>1. f[i] = ReadStep(f[i - 1], s[i]) BY <1>2 DEF Replays
  <2>2. i \in 1..(m + 1) BY <1>1
  <2>3. g[i] = ReadStep(g[i - 1], t[i]) BY <1>3, <2>2 DEF Replays
  <2>4. f[i - 1] = g[i - 1] /\ i \in 0..m BY <1>5
  <2> QED BY <1>1, <2>1, <2>3, <2>4
<1>6. P \in SUBSET Nat OBVIOUS
<1> HIDE DEF P
<1>7. \A i \in 1..m : i - 1 \in P => i \in P BY <1>5
<1>8. 0..m \subseteq P BY <1>1, <1>4, <1>6, <1>7, UpTo, Zenon
<1>9. m \in P BY <1>1, <1>8
<1>10. f[m] = g[m] BY <1>9 DEF P
<1>11. g[m + 1] = ReadStep(g[m], t[m + 1])
  <2>1. m + 1 \in 1..(m + 1) /\ (m + 1) - 1 = m BY <1>1
  <2>2. g[m + 1] = ReadStep(g[(m + 1) - 1], t[m + 1]) BY <1>3, <2>1 DEF Replays
  <2> QED BY <2>1, <2>2
<1> QED BY <1>1, <1>2, <1>3, <1>10, <1>11 DEF t

-----------------------------------------------------------------------------
(* The ledger's invariant.                                                 *)

Entries == [seq : Nat \ {0}, order : {m.order : m \in Menu},
            ev : {Event(m.call) : m \in Menu}]
Fragments == Entries \cup {Newline, Torn}

\* In the file, at the number it was given.
OnDisk(a) ==
    /\ a \in Entries
    /\ \E i \in DOMAIN file : file[i] = a /\ a.seq = Cardinality(WholeUpTo(i))

LedgerTypeOK ==
    /\ file \in Seq(Fragments)
    /\ lock \in Writers \cup {None}
    /\ pc \in [Writers -> {"idle", "locking", "locked", "body", "newline", "sync"}]
    /\ want \in [Writers -> Menu \cup {None}]
    /\ minted \in [Writers -> Entries \cup {None}]
    /\ \A w \in Writers : pc[w] # "idle" => want[w] \in Menu

\* Whoever is past the lock has it.
Locked == \A w \in Writers :
    pc[w] \in {"locked", "body", "newline", "sync"} => lock = w

\* What a writer is about to write is the next, and would replay; what it
\* wrote is there.
Ready(w) ==
    /\ minted[w] = Entry(w) /\ Replay(Append(file, minted[w])).ok
    /\ want[w].call.kind = "generate" => ValidOutcome(want[w].call.outcome)
MintedReplays == \A w \in Writers : pc[w] = "body" => Ready(w)
MintedIsThere == \A w \in Writers : pc[w] \in {"newline", "sync"} => OnDisk(minted[w])

LedgerInv ==
    /\ LedgerTypeOK /\ Locked /\ MintedReplays /\ MintedIsThere
    /\ DiskReplays /\ \A a \in acked : OnDisk(a)

LEMMA WholeIsFinite ==
    ASSUME NEW i \in Nat
    PROVE  IsFiniteSet(WholeUpTo(i)) /\ Cardinality(WholeUpTo(i)) \in Nat
<1>1. IsFiniteSet(1..i) BY FS_Interval
<1>2. WholeUpTo(i) \subseteq 1..i BY DEF WholeUpTo
<1> QED BY <1>1, <1>2, FS_Subset, FS_CardinalityType, Zenon

\* Of fragments appended to the file the whole ones count.
LEMMA CountOfMore ==
    ASSUME file \in Seq(Fragments), NEW x \in Fragments, file' = Append(file, x)
    PROVE  /\ file' \in Seq(Fragments) /\ Len(file') = Len(file) + 1
           /\ file'[Len(file) + 1] = x /\ \A i \in 1..Len(file) : file'[i] = file[i]
           /\ \A i \in 0..Len(file) : WholeUpTo(i)' = WholeUpTo(i)
           /\ Count \in Nat
           /\ Count' = Count + (IF IsWhole(x) THEN 1 ELSE 0)
           /\ \A k : k = Len(file) + 1 => Count' = Cardinality(WholeUpTo(k))'
<1> DEFINE n == Len(file)
<1>1. /\ n \in Nat /\ file' \in Seq(Fragments) /\ Len(file') = n + 1
      /\ file'[n + 1] = x /\ \A i \in 1..n : file'[i] = file[i]
  OBVIOUS
<1>2. ASSUME NEW i \in 0..n PROVE WholeUpTo(i)' = WholeUpTo(i)
  <2>1. \A j \in 1..i : file'[j] = file[j] BY <1>1
  <2> QED BY <2>1 DEF WholeUpTo, IsWhole
<1> DEFINE W == WholeUpTo(n)
<1> DEFINE V == {j \in 1..(n + 1) : IsWhole(file'[j])}
<1>3. V = IF IsWhole(x) THEN W \cup {n + 1} ELSE W
  <2>1. 1..(n + 1) = (1..n) \cup {n + 1} BY <1>1
  <2>2. \A j \in 1..n : IsWhole(file'[j]) <=> IsWhole(file[j]) BY <1>1 DEF IsWhole
  <2> QED BY <1>1, <2>1, <2>2 DEF WholeUpTo
<1>4. Count' = Cardinality(V) BY <1>1 DEF Count, WholeUpTo, IsWhole
<1>5. IsFiniteSet(W) /\ Cardinality(W) \in Nat BY <1>1, WholeIsFinite
<1>6. n + 1 \notin W BY <1>1 DEF WholeUpTo
<1>7. Count = Cardinality(W) BY DEF Count
<1>8. ASSUME NEW k, k = n + 1 PROVE V = WholeUpTo(k)'
  BY <1>8, Zenon DEF WholeUpTo, IsWhole
<1>9. Count' = Count + (IF IsWhole(x) THEN 1 ELSE 0)
  <2> HIDE DEF W, V, n
  <2>1. Cardinality(W \cup {n + 1}) = Cardinality(W) + 1
    BY <1>5, <1>6, FS_AddElement
  <2>2. CASE IsWhole(x) BY <1>3, <1>4, <1>7, <2>1, <2>2
  <2>3. CASE ~IsWhole(x) BY <1>3, <1>4, <1>5, <1>7, <2>3
  <2> QED BY <2>2, <2>3
<1>10. \A k : k = n + 1 => Count' = Cardinality(WholeUpTo(k))'
  BY <1>4, <1>8, Zenon
<1> QED BY <1>1, <1>2, <1>5, <1>7, <1>9, <1>10

\* A step that writes nothing whole.
Quiet == file' = file \/ \E x \in {Newline, Torn} : file' = Append(file, x)

LEMMA QuietFile ==
    ASSUME LedgerInv, Quiet
    PROVE  /\ file' \in Seq(Fragments) /\ Count' = Count /\ Replay(file') = Replay(file)
           /\ \A e \in Entries : Replay(Append(file', e)) = Replay(Append(file, e))
           /\ \A a : OnDisk(a) => OnDisk(a)'
<1>1. file \in Seq(Fragments) BY DEF LedgerInv, LedgerTypeOK
<1>2. CASE file' = file
  <2>1. Count' = Count BY <1>2, Zenon DEF Count, WholeUpTo, IsWhole
  <2>2. \A a : OnDisk(a) => OnDisk(a)'
    BY <1>2, Zenon DEF OnDisk, WholeUpTo, IsWhole, Entries
  <2> QED BY <1>1, <1>2, <2>1, <2>2
<1>3. ASSUME NEW x \in {Newline, Torn}, file' = Append(file, x)
      PROVE  /\ file' \in Seq(Fragments) /\ Count' = Count /\ Replay(file') = Replay(file)
             /\ \A e \in Entries : Replay(Append(file', e)) = Replay(Append(file, e))
             /\ \A a : OnDisk(a) => OnDisk(a)'
  <2>1. x \in Fragments /\ ~IsWhole(x) BY DEF Fragments, IsWhole, Newline, Torn
  <2>2. /\ file' \in Seq(Fragments) /\ Len(file') = Len(file) + 1 /\ Count \in Nat
        /\ \A i \in 1..Len(file) : file'[i] = file[i]
        /\ \A i \in 0..Len(file) : WholeUpTo(i)' = WholeUpTo(i)
        /\ Count' = Count + (IF IsWhole(x) THEN 1 ELSE 0)
    BY <1>1, <1>3, <2>1, CountOfMore
  <2>3. Count' = Count BY <2>1, <2>2
  <2>4. Replay(file') = Replay(file)
    <3>1. Replay(Append(file, x)) = ReadStep(Replay(file), x) BY <1>1, <2>1, ReplayOfMore
    <3> QED BY <1>3, <2>1, <3>1 DEF ReadStep
  <2>5. ASSUME NEW e \in Entries
        PROVE  Replay(Append(file', e)) = Replay(Append(file, e))
    <3>1. e \in Fragments BY DEF Fragments
    <3>2. Replay(Append(file, e)) = ReadStep(Replay(file), e) BY <1>1, <3>1, ReplayOfMore
    <3>3. Replay(Append(file', e)) = ReadStep(Replay(file'), e)
      <4> DEFINE f == file'
      <4>1. f \in Seq(Fragments) BY <2>2
      <4> HIDE DEF f
      <4>2. Replay(Append(f, e)) = ReadStep(Replay(f), e) BY <3>1, <4>1, ReplayOfMore
      <4> QED BY <4>2 DEF f
    <3> QED BY <2>4, <3>2, <3>3
  <2>6. ASSUME NEW a, OnDisk(a) PROVE OnDisk(a)'
    <3>1. PICK i \in DOMAIN file : file[i] = a /\ a.seq = Cardinality(WholeUpTo(i))
      BY <2>6, Zenon DEF OnDisk
    <3>2. i \in 1..Len(file) /\ i \in 0..Len(file) /\ Len(file) \in Nat BY <1>1
    <3>3. i \in DOMAIN file' /\ file'[i] = a BY <1>1, <2>2, <3>1, <3>2
    <3>4. WholeUpTo(i)' = WholeUpTo(i) BY <2>2, <3>2
    <3>5. a.seq = Cardinality(WholeUpTo(i)') BY <3>1, <3>4
    <3>6. \E k \in DOMAIN file' : file'[k] = a /\ a.seq = Cardinality(WholeUpTo(k)')
      BY <3>3, <3>5
    <3>7. a \in Entries BY <2>6, Zenon DEF OnDisk
    <3> QED BY <3>6, <3>7, Zenon DEF OnDisk, Entries, WholeUpTo, IsWhole
  <2> QED BY <2>2, <2>3, <2>4, <2>5, <2>6
<1> QED BY <1>2, <1>3 DEF Quiet

LEMMA EntryIsEntry ==
    ASSUME LedgerInv, NEW w \in Writers, pc[w] # "idle"
    PROVE  Entry(w) \in Entries /\ Entry(w).seq = Count + 1
<1>1. want[w] \in Menu /\ file \in Seq(Fragments) BY DEF LedgerInv, LedgerTypeOK
<1>2. Len(file) \in Nat BY <1>1
<1>3. Count \in Nat BY <1>2, WholeIsFinite DEF Count
<1>4. Count + 1 \in Nat \ {0} BY <1>3
<1> QED BY <1>1, <1>4 DEF Entry, Entries

\* Whatever a writer does but write its entry.
LEMMA QuietKeeps ==
    ASSUME LedgerInv, Quiet, NEW w \in Writers,
           LedgerTypeOK', acked' \subseteq acked \cup {minted[w]},
           acked' # acked => pc[w] = "sync",
           \A v \in Writers \ {w} :
              pc'[v] = pc[v] /\ want'[v] = want[v] /\ minted'[v] = minted[v],
           pc'[w] = "body" => Ready(w)',
           pc'[w] \in {"newline", "sync"} =>
              pc[w] \in {"newline", "sync"} /\ minted'[w] = minted[w],
           Locked'
    PROVE  LedgerInv'
<1> USE DEF LedgerInv
<1>1. /\ Count' = Count /\ Replay(file') = Replay(file)
      /\ \A e \in Entries : Replay(Append(file', e)) = Replay(Append(file, e))
      /\ \A a : OnDisk(a) => OnDisk(a)'
  BY QuietFile
<1>2. MintedReplays'
  <2> SUFFICES ASSUME NEW v \in Writers, pc'[v] = "body" PROVE Ready(v)'
    BY Zenon DEF MintedReplays
  <2>1. CASE v = w BY <2>1
  <2>2. CASE v # w
    <3>1. pc[v] = "body" /\ want'[v] = want[v] /\ minted'[v] = minted[v] BY <2>2
    <3>2. Ready(v) BY <3>1, Zenon DEF MintedReplays
    <3>3. Entry(v)' = Entry(v) BY <1>1, <3>1, Zenon DEF Entry
    <3>4. Entry(v) \in Entries BY <3>1, EntryIsEntry
    <3>5. /\ minted[v] = Entry(v) /\ Replay(Append(file, minted[v])).ok
          /\ want[v].call.kind = "generate" => ValidOutcome(want[v].call.outcome)
      BY <3>2, Zenon DEF Ready
    <3>6. minted'[v] = Entry(v)' BY <3>1, <3>3, <3>5
    <3>7. Replay(Append(file', minted'[v])).ok BY <1>1, <3>1, <3>4, <3>5
    <3>8. want'[v].call.kind = "generate" => ValidOutcome(want'[v].call.outcome)
      BY <3>1, <3>5, Zenon
    <3> QED BY <3>6, <3>7, <3>8, Zenon DEF Ready, ValidOutcome
  <2> QED BY <2>1, <2>2
<1>3. MintedIsThere'
  <2> SUFFICES ASSUME NEW v \in Writers, pc'[v] \in {"newline", "sync"}
               PROVE  OnDisk(minted[v])'
    BY Zenon DEF MintedIsThere
  <2>1. pc[v] \in {"newline", "sync"} /\ minted'[v] = minted[v] OBVIOUS
  <2> DEFINE a == minted[v]
  <2>2. OnDisk(a) BY <2>1, Zenon DEF MintedIsThere
  <2>3. PICK b : b = a OBVIOUS
  <2>4. OnDisk(b)' BY <1>1, <2>2, <2>3
  <2>5. b = minted'[v] BY <2>1, <2>3
  <2> QED BY <2>4, <2>5, Zenon DEF OnDisk, Entries, WholeUpTo, IsWhole
<1>4. DiskReplays' BY <1>1, Zenon DEF DiskReplays
<1>5. \A a \in acked' : OnDisk(a)'
  <2> SUFFICES ASSUME NEW a \in acked' PROVE OnDisk(a) BY <1>1, Zenon
  <2>1. CASE a \in acked BY <2>1
  <2>2. CASE a \notin acked
    <3>1. a = minted[w] /\ pc[w] = "sync" BY <2>2
    <3> QED BY <3>1 DEF MintedIsThere
  <2> QED BY <2>1, <2>2
<1> QED BY <1>2, <1>3, <1>4, <1>5

LEMMA LedgerInitInv == Init => LedgerInv
<1> SUFFICES ASSUME Init PROVE LedgerInv OBVIOUS
<1> USE DEF Init
<1>1. file \in Seq(Fragments) OBVIOUS
<1>2. LedgerTypeOK BY <1>1 DEF LedgerTypeOK
<1>3. DiskReplays BY ReplayOfNone DEF DiskReplays, Start0
<1>4. Locked /\ MintedReplays /\ MintedIsThere BY DEF Locked, MintedReplays, MintedIsThere
<1> QED BY <1>2, <1>3, <1>4 DEF LedgerInv

LEMMA StartKeeps == ASSUME LedgerInv, NEW w \in Writers, Start(w) PROVE LedgerInv'
<1> USE DEF LedgerInv
<1>1. pc[w] = "idle" /\ pc' = [pc EXCEPT ![w] = "locking"]
      /\ file' = file /\ lock' = lock /\ minted' = minted /\ acked' = acked
  BY DEF Start
<1>2. PICK m \in Menu : want' = [want EXCEPT ![w] = m] BY DEF Start
<1>3. Quiet BY <1>1 DEF Quiet
<1>4. LedgerTypeOK' BY <1>1, <1>2 DEF LedgerTypeOK
<1>5. Locked' BY <1>1 DEF Locked, LedgerTypeOK
<1>6. pc'[w] = "locking" /\ \A v \in Writers \ {w} : pc'[v] = pc[v] /\ want'[v] = want[v]
  BY <1>1, <1>2 DEF LedgerTypeOK
<1> QED BY <1>1, <1>3, <1>4, <1>5, <1>6, QuietKeeps

LEMMA AcquireKeeps == ASSUME LedgerInv, NEW w \in Writers, Acquire(w) PROVE LedgerInv'
<1> USE DEF LedgerInv
<1>1. pc[w] = "locking" /\ lock = None /\ pc' = [pc EXCEPT ![w] = "locked"] /\ lock' = w
      /\ file' = file /\ want' = want /\ minted' = minted /\ acked' = acked
  BY DEF Acquire
<1>2. Quiet BY <1>1 DEF Quiet
<1>3. LedgerTypeOK' BY <1>1, <1>2 DEF LedgerTypeOK
<1>4. Locked' BY <1>1, LedgerAssumption DEF Locked, LedgerTypeOK
<1>5. pc'[w] = "locked" /\ \A v \in Writers \ {w} : pc'[v] = pc[v]
  BY <1>1 DEF LedgerTypeOK
<1> QED BY <1>1, <1>2, <1>3, <1>4, <1>5, QuietKeeps

\* A call that is over holds no lock and has nothing minted.
LEMMA ReturnKeeps ==
    ASSUME LedgerInv, Quiet, file' \in Seq(Fragments), NEW w \in Writers, Return(w),
           lock' \in {lock, None}, lock' = None => lock = w \/ lock = None,
           acked' \subseteq acked \cup {minted[w]}, acked' # acked => pc[w] = "sync"
    PROVE  LedgerInv'
<1> USE DEF LedgerInv
<1>1. pc' = [pc EXCEPT ![w] = "idle"] /\ want' = [want EXCEPT ![w] = None]
      /\ minted' = [minted EXCEPT ![w] = None]
  BY DEF Return
<1>2. LedgerTypeOK' BY <1>1 DEF LedgerTypeOK
<1>3. Locked'
  <2> SUFFICES ASSUME NEW v \in Writers,
                      pc'[v] \in {"locked", "body", "newline", "sync"}
               PROVE  lock' = v
    BY Zenon DEF Locked
  <2>1. v # w /\ pc'[v] = pc[v] BY <1>1 DEF LedgerTypeOK
  <2>2. lock = v BY <2>1 DEF Locked
  <2> QED BY <2>1, <2>2, LedgerAssumption
<1>4. pc'[w] = "idle" /\ \A v \in Writers \ {w} :
         pc'[v] = pc[v] /\ want'[v] = want[v] /\ minted'[v] = minted[v]
  BY <1>1 DEF LedgerTypeOK
<1> QED BY <1>2, <1>3, <1>4, QuietKeeps

LEMMA ValidateKeeps == ASSUME LedgerInv, NEW w \in Writers, Validate(w) PROVE LedgerInv'
<1> USE DEF LedgerInv
<1>1. pc[w] = "locked" /\ Replay(Append(file, Entry(w))).ok /\ DoorOpen(w)
      /\ minted' = [minted EXCEPT ![w] = Entry(w)] /\ pc' = [pc EXCEPT ![w] = "body"]
      /\ file' = file /\ lock' = lock /\ want' = want /\ acked' = acked
  BY Zenon DEF Validate
<1>2. Quiet BY <1>1 DEF Quiet
<1>3. Entry(w) \in Entries BY <1>1, EntryIsEntry
<1>4. LedgerTypeOK' BY <1>1, <1>2, <1>3 DEF LedgerTypeOK
<1>5. Locked' BY <1>1 DEF Locked, LedgerTypeOK
<1>6. pc'[w] = "body" /\ minted'[w] = Entry(w) /\ \A v \in Writers \ {w} :
         pc'[v] = pc[v] /\ minted'[v] = minted[v]
  BY <1>1 DEF LedgerTypeOK
<1>7. Count' = Count BY <1>2, QuietFile
<1>8. Entry(w)' = Entry(w) BY <1>1, <1>7, Zenon DEF Entry
<1>9. minted'[w] = Entry(w)' /\ Replay(Append(file', minted'[w])).ok
  BY <1>1, <1>6, <1>8, Zenon
<1>10. want'[w].call.kind = "generate" => ValidOutcome(want'[w].call.outcome)
  BY <1>1, Zenon DEF DoorOpen
<1>11. Ready(w)' BY <1>9, <1>10, Zenon DEF Ready, ValidOutcome
<1> QED BY <1>1, <1>2, <1>4, <1>5, <1>6, <1>11, QuietKeeps

LEMMA WriteNewlineKeeps ==
    ASSUME LedgerInv, NEW w \in Writers, WriteNewline(w) PROVE LedgerInv'
<1> USE DEF LedgerInv
<1>1. pc[w] = "newline" /\ pc' = [pc EXCEPT ![w] = "sync"] /\ file' = Append(file, Newline)
      /\ lock' = lock /\ want' = want /\ minted' = minted /\ acked' = acked
  BY DEF WriteNewline
<1>2. Quiet BY <1>1 DEF Quiet
<1>3. file' \in Seq(Fragments) BY <1>2, QuietFile
<1>4. LedgerTypeOK' BY <1>1, <1>3 DEF LedgerTypeOK
<1>5. Locked' BY <1>1 DEF Locked, LedgerTypeOK
<1>6. pc'[w] = "sync" /\ \A v \in Writers \ {w} : pc'[v] = pc[v]
  BY <1>1 DEF LedgerTypeOK
<1> QED BY <1>1, <1>2, <1>4, <1>5, <1>6, QuietKeeps

\* The one step that changes what is in the file: what was validated still
\* follows what is there, since nobody else is past the lock.
LEMMA WriteBodyKeeps ==
    ASSUME LedgerInv, NEW w \in Writers, WriteBody(w)
    PROVE  LedgerInv'
<1> USE DEF LedgerInv
<1> DEFINE x == minted[w]
<1>1. pc[w] = "body" /\ pc' = [pc EXCEPT ![w] = "newline"] /\ file' = Append(file, x)
      /\ lock' = lock /\ want' = want /\ minted' = minted /\ acked' = acked
  BY DEF WriteBody
<1>2. x = Entry(w) /\ Replay(Append(file, x)).ok BY <1>1, Zenon DEF MintedReplays, Ready
<1>3. x \in Entries /\ x.seq = Count + 1 BY <1>1, <1>2, EntryIsEntry
<1> HIDE DEF x
<1>4. x \in Fragments /\ IsWhole(x) BY <1>3 DEF Fragments, Entries, IsWhole
<1>5. file \in Seq(Fragments) BY DEF LedgerTypeOK
<1>6. /\ file' \in Seq(Fragments) /\ Len(file') = Len(file) + 1
      /\ file'[Len(file) + 1] = x /\ \A i \in 1..Len(file) : file'[i] = file[i]
      /\ \A i \in 0..Len(file) : WholeUpTo(i)' = WholeUpTo(i)
      /\ Count' = Count + 1
      /\ \A k : k = Len(file) + 1 => Count' = Cardinality(WholeUpTo(k))'
  BY <1>1, <1>4, <1>5, CountOfMore
<1>8. LedgerTypeOK' BY <1>1, <1>6 DEF LedgerTypeOK
<1>9. Locked' BY <1>1 DEF Locked, LedgerTypeOK
<1>10. pc'[w] = "newline" /\ \A v \in Writers \ {w} :
          pc'[v] = pc[v] /\ pc[v] \in {"idle", "locking"}
  BY <1>1 DEF LedgerTypeOK, Locked
<1>11. MintedReplays' BY <1>10 DEF MintedReplays
<1>12. ASSUME NEW a, OnDisk(a) PROVE OnDisk(a)'
  <2>1. PICK i \in DOMAIN file : file[i] = a /\ a.seq = Cardinality(WholeUpTo(i))
    BY <1>12, Zenon DEF OnDisk
  <2>2. i \in 1..Len(file) /\ i \in 0..Len(file) /\ Len(file) \in Nat BY <1>5
  <2>3. i \in DOMAIN file' /\ file'[i] = a BY <1>6, <2>1, <2>2
  <2>4. WholeUpTo(i)' = WholeUpTo(i) BY <1>6, <2>2
  <2>5. a.seq = Cardinality(WholeUpTo(i)') BY <2>1, <2>4
  <2>6. \E k \in DOMAIN file' : file'[k] = a /\ a.seq = Cardinality(WholeUpTo(k)')
    BY <2>3, <2>5
  <2>7. a \in Entries BY <1>12, Zenon DEF OnDisk
  <2> QED BY <2>6, <2>7, Zenon DEF OnDisk, Entries, WholeUpTo, IsWhole
<1>13. OnDisk(minted[w])'
  <2> DEFINE k == Len(file) + 1
  <2>1. Len(file) \in Nat /\ k \in DOMAIN file' BY <1>5, <1>6
  <2>2. PICK i : i = Len(file) + 1 OBVIOUS
  <2>3. i \in DOMAIN file' /\ file'[i] = x BY <1>6, <2>1, <2>2
  <2>4. x.seq = Cardinality(WholeUpTo(i)') BY <1>3, <1>6, <2>2
  <2>5. minted'[w] = x BY <1>1 DEF x
  <2> QED BY <1>3, <2>3, <2>4, <2>5, Zenon DEF OnDisk, Entries, WholeUpTo, IsWhole
<1>14. MintedIsThere'
  <2> SUFFICES ASSUME NEW v \in Writers, pc'[v] \in {"newline", "sync"}
               PROVE  OnDisk(minted[v])'
    BY Zenon DEF MintedIsThere
  <2>1. v = w BY <1>10
  <2> QED BY <1>13, <2>1
<1>15. DiskReplays' BY <1>1, <1>2, Zenon DEF DiskReplays
<1>16. \A a \in acked' : OnDisk(a)' BY <1>1, <1>12
<1> QED BY <1>8, <1>9, <1>11, <1>14, <1>15, <1>16

LEMMA UnlockFrees ==
    ASSUME NEW w, Unlock(w)
    PROVE  lock' \in {lock, None} /\ (lock' = None => lock = w \/ lock = None)
BY DEF Unlock

\* A writer's step but for writing its entry puts nothing whole in the file.
LEMMA OthersAreQuiet ==
    ASSUME NEW w \in Writers,
           Start(w) \/ Acquire(w) \/ LockTimeout(w) \/ Validate(w) \/ Refuse(w)
           \/ WriteNewline(w) \/ SyncAndAck(w) \/ Stop(w) \/ StopMidBody(w)
    PROVE  Quiet
BY Zenon DEF Quiet, Start, Acquire, LockTimeout, Validate, Refuse, WriteNewline, SyncAndAck,
             Stop, StopMidBody

LEMMA LedgerStep ==
    ASSUME LedgerInv, NEW w \in Writers,
           Start(w) \/ Step(w) \/ Stop(w) \/ StopMidBody(w)
    PROVE  LedgerInv'
<1>1. CASE Start(w) BY <1>1, StartKeeps
<1>2. CASE Acquire(w) BY <1>2, AcquireKeeps
<1>3. CASE Validate(w) BY <1>3, ValidateKeeps
<1>4. CASE WriteBody(w) BY <1>4, WriteBodyKeeps
<1>5. CASE WriteNewline(w) BY <1>5, WriteNewlineKeeps
<1>6. CASE LockTimeout(w)
  <2>1. Return(w) /\ lock' = lock /\ acked' = acked /\ lock # None BY <1>6 DEF LockTimeout
  <2>2. Quiet BY <1>6, OthersAreQuiet
  <2>3. file' \in Seq(Fragments) BY <2>2, QuietFile
  <2> QED BY <2>1, <2>2, <2>3, ReturnKeeps
<1>7. CASE Refuse(w) \/ SyncAndAck(w) \/ Stop(w) \/ StopMidBody(w)
  <2>1. /\ Return(w) /\ Unlock(w) /\ acked' \subseteq acked \cup {minted[w]}
        /\ acked' # acked => pc[w] = "sync"
    BY <1>7 DEF Refuse, SyncAndAck, Stop, StopMidBody, Fault
  <2>2. Quiet BY <1>7, OthersAreQuiet
  <2>3. file' \in Seq(Fragments) BY <2>2, QuietFile
  <2> QED BY <2>1, <2>2, <2>3, UnlockFrees, ReturnKeeps
<1> QED BY <1>1, <1>2, <1>3, <1>4, <1>5, <1>6, <1>7 DEF Step

LEMMA LedgerStutters == ASSUME LedgerInv, UNCHANGED vars PROVE LedgerInv'
<1> USE DEF LedgerInv
<1>1. /\ file' = file /\ lock' = lock /\ pc' = pc /\ want' = want /\ minted' = minted
      /\ acked' = acked
  BY DEF vars
<1>2. Quiet BY <1>1 DEF Quiet
<1>3. LedgerTypeOK' BY <1>1 DEF LedgerTypeOK
<1>4. Locked' BY <1>1 DEF Locked
<1>5. CASE Writers = {}
  <2>1. MintedReplays' /\ MintedIsThere' BY <1>5 DEF MintedReplays, MintedIsThere
  <2>2. \A a : OnDisk(a) => OnDisk(a)' BY <1>2, QuietFile
  <2>3. DiskReplays' BY <1>1, Zenon DEF DiskReplays
  <2> QED BY <1>1, <1>3, <1>4, <2>1, <2>2, <2>3
<1>6. ASSUME NEW w \in Writers PROVE LedgerInv'
  <2>1. Ready(w) => Ready(w)'
    BY <1>1, Zenon DEF Ready, Entry, Count, WholeUpTo, IsWhole, ValidOutcome
  <2>2. pc'[w] = "body" => Ready(w)' BY <1>1, <2>1, Zenon DEF MintedReplays
  <2> QED BY <1>1, <1>2, <1>3, <1>4, <2>2, QuietKeeps
<1> QED BY <1>5, <1>6

\* Whoever is past the lock has it and knows the next entry, what is written
\* replays, and what was acknowledged is there (ledger.rs, write_validated).
THEOREM LedgerInvariant == Spec => []LedgerInv
<1>1. LedgerInv /\ [Next]_vars => LedgerInv' BY LedgerStep, LedgerStutters DEF Next
<1> QED BY <1>1, LedgerInitInv, PTL DEF Spec

\* "An illegal transition can never reach disk": the events in the file
\* replay, for any number of writers, any menu and any errors and crashes
\* (ledger.rs, write_validated).
THEOREM TheDiskReplays == Spec => []DiskReplays
<1>1. LedgerInv => DiskReplays BY Zenon DEF LedgerInv
<1> QED BY <1>1, LedgerInvariant, PTL

\* What a caller was told is durable stays at its number (ledger.rs,
\* write_validated).
THEOREM AckedStays == Spec => []AckedIsKept
<1>1. LedgerInv => AckedIsKept BY DEF LedgerInv, AckedIsKept, OnDisk
<1> QED BY <1>1, LedgerInvariant, PTL

-----------------------------------------------------------------------------
(* The file implements the lifecycle.                                      *)

\* The refinement mapping, of a file one entry longer.
LEMMA KindsOfMore ==
    ASSUME file \in Seq(Fragments), NEW x \in Fragments, file' = Append(file, x)
    PROVE  /\ Len(file) \in Nat /\ Len(file') = Len(file) + 1 /\ file'[Len(file) + 1] = x
           /\ \A i \in 1..Len(file) : file'[i] = file[i]
           /\ \A k : OfKind(k) \subseteq 1..Len(file)
           /\ \A k : OfKind(k)' = OfKind(k) \cup
                         (IF IsWhole(x) /\ x.ev.kind = k THEN {Len(file) + 1} ELSE {})
<1> DEFINE n == Len(file)
<1>1. /\ n \in Nat /\ file' \in Seq(Fragments) /\ Len(file') = n + 1
      /\ file'[n + 1] = x /\ \A i \in 1..n : file'[i] = file[i]
  OBVIOUS
<1>2. DOMAIN file = 1..n /\ DOMAIN file' = 1..(n + 1) BY <1>1
<1>3. 1..(n + 1) = (1..n) \cup {n + 1} BY <1>1
<1>4. ASSUME NEW k PROVE OfKind(k) \subseteq 1..n BY <1>2, Zenon DEF OfKind
<1>5. ASSUME NEW k
      PROVE  OfKind(k)' = OfKind(k) \cup
                 (IF IsWhole(x) /\ x.ev.kind = k THEN {n + 1} ELSE {})
  <2> DEFINE has(f) == IsWhole(f) /\ f.ev.kind = k
  <2>1. OfKind(k) = {i \in 1..n : has(file[i])} BY <1>2, Zenon DEF OfKind
  <2>2. OfKind(k)' = {i \in 1..(n + 1) : has(file'[i])}
    BY <1>2, Zenon DEF OfKind, IsWhole
  <2> HIDE DEF has, n
  <2>3. OfKind(k)' = OfKind(k) \cup (IF has(x) THEN {n + 1} ELSE {})
    BY <1>1, <1>3, <2>1, <2>2
  <2> QED BY <2>3 DEF has
<1> QED BY <1>1, <1>4, <1>5

\* The iteration an earlier event was in does not change, and a later event
\* that is not a generation is in the last.
LEMMA IterationsOfMore ==
    ASSUME file \in Seq(Fragments), NEW x \in Fragments, file' = Append(file, x)
    PROVE  /\ \A i \in 1..Len(file) : IterationAt(i)' = IterationAt(i)
           /\ Cardinality(OfKind("generation")) \in Nat
           /\ x.ev.kind = "generation" /\ IsWhole(x) =>
                 Cardinality(OfKind("generation"))' = Cardinality(OfKind("generation")) + 1
           /\ x.ev.kind # "generation" \/ ~IsWhole(x) =>
                 /\ Cardinality(OfKind("generation"))' = Cardinality(OfKind("generation"))
                 /\ \A i : i = Len(file) + 1 =>
                       IterationAt(i)' = Cardinality(OfKind("generation"))
<1> DEFINE n == Len(file)
<1> DEFINE G == OfKind("generation")
<1> DEFINE H == OfKind("generation")'
<1>1. n \in Nat /\ G \subseteq 1..n
      /\ H = G \cup (IF IsWhole(x) /\ x.ev.kind = "generation" THEN {n + 1} ELSE {})
  BY KindsOfMore
<1>2. IsFiniteSet(G) /\ Cardinality(G) \in Nat
  <2> HIDE DEF G
  <2>1. IsFiniteSet(1..n) BY <1>1, FS_Interval
  <2> QED BY <1>1, <2>1, FS_Subset, FS_CardinalityType, Zenon
<1>3. \A i : /\ IterationAt(i) = Cardinality({j \in G : j <= i})
             /\ IterationAt(i)' = Cardinality({j \in H : j <= i})
  BY Zenon DEF IterationAt
<1>4. Cardinality(OfKind("generation"))' = Cardinality(H) OBVIOUS
<1> HIDE DEF G, H, n
<1>5. ASSUME NEW i \in 1..n PROVE {j \in H : j <= i} = {j \in G : j <= i}
  BY <1>1, <1>5
<1>6. CASE x.ev.kind = "generation" /\ IsWhole(x)
  <2>1. H = G \cup {n + 1} /\ n + 1 \notin G BY <1>1, <1>6
  <2>2. Cardinality(H) = Cardinality(G) + 1 BY <1>2, <2>1, FS_AddElement
  <2> QED BY <1>2, <1>3, <1>4, <1>5, <1>6, <2>2 DEF G, n
<1>7. CASE ~(x.ev.kind = "generation" /\ IsWhole(x))
  <2>1. H = G BY <1>1, <1>7
  <2>2. \A j \in G : j <= n + 1
    <3>1. n \in Nat /\ G \subseteq 1..n BY <1>1
    <3> QED BY <3>1
  <2>3. {j \in H : j <= n + 1} = G BY <2>1, <2>2, Zenon
  <2> QED BY <1>2, <1>3, <1>4, <1>5, <1>7, <2>1, <2>3 DEF G, n
<1> QED BY <1>6, <1>7

LEMMA LastIsLast ==
    ASSUME NEW S \in SUBSET Nat, NEW n \in S, \A j \in S : j <= n
    PROVE  LastOf(S) = n
<1>1. \E i \in S : \A j \in S : j <= i OBVIOUS
<1>2. PICK l : l = LastOf(S) OBVIOUS
<1>3. l \in S /\ \A j \in S : j <= l BY <1>1, <1>2, Zenon DEF LastOf
<1>4. l <= n /\ n <= l /\ l \in Nat BY <1>3
<1> QED BY <1>2, <1>4

LEMMA LastIsThere ==
    ASSUME NEW n \in Nat, NEW S \in SUBSET (1..n), S # {}
    PROVE  LastOf(S) \in S
<1> DEFINE T == {k \in 0..n : n - k \in S}
<1>1. T \in SUBSET Nat OBVIOUS
<1>2. T # {}
  <2>1. PICK i \in S : TRUE OBVIOUS
  <2>2. n - i \in T BY <2>1
  <2> QED BY <2>2
<1>3. PICK k \in T : \A y \in T : k <= y BY <1>1, <1>2, LeastExists, Zenon
<1>4. n - k \in S BY <1>3
<1>5. ASSUME NEW j \in S PROVE j <= n - k
  <2>1. n - j \in T /\ j \in Nat BY <1>5
  <2>2. k <= n - j BY <1>3, <2>1
  <2> QED BY <1>3, <2>1, <2>2
<1>6. \E i \in S : \A j \in S : j <= i BY <1>4, <1>5
<1> QED BY <1>6, Zenon DEF LastOf

\* What each history gains by an entry.
LEMMA HistoriesOfMore ==
    ASSUME file \in Seq(Fragments), NEW x \in Fragments, file' = Append(file, x)
    PROVE  /\ ~(IsWhole(x) /\ x.ev.kind = "ask") => Asked' = Asked
           /\ ~(IsWhole(x) /\ x.ev.kind = "answer" /\ x.ev.answer = "yes") => SaidYes' = SaidYes
           /\ ~(IsWhole(x) /\ x.ev.kind = "propose") => Offered' = Offered
           /\ ~(IsWhole(x) /\ x.ev.kind = "observe") => LastSeen' = LastSeen
           /\ IsWhole(x) /\ x.ev.kind = "ask" =>
                 Asked' = Asked \cup {<<Cardinality(OfKind("generation")), x.ev.request>>}
           /\ IsWhole(x) /\ x.ev.kind = "answer" /\ x.ev.answer = "yes" =>
                 SaidYes' = SaidYes \cup {<<Cardinality(OfKind("generation")), x.ev.request>>}
           /\ IsWhole(x) /\ x.ev.kind = "propose" =>
                 Offered' = Offered \cup {<<Cardinality(OfKind("generation")), x.ev.digest>>}
           /\ IsWhole(x) /\ x.ev.kind = "observe" =>
                 LastSeen' = [iteration |-> Cardinality(OfKind("generation")),
                              digest |-> x.ev.digest]
<1> DEFINE n == Len(file)
<1> DEFINE g == Cardinality(OfKind("generation"))
<1> DEFINE more(k) == IsWhole(x) /\ x.ev.kind = k
<1>1. /\ n \in Nat /\ file'[n + 1] = x /\ \A i \in 1..n : file'[i] = file[i]
      /\ \A k : OfKind(k) \subseteq 1..n
      /\ \A k : OfKind(k)' = OfKind(k) \cup (IF more(k) THEN {n + 1} ELSE {})
  BY KindsOfMore
<1>2. /\ \A i \in 1..n : IterationAt(i)' = IterationAt(i)
      /\ x.ev.kind # "generation" => \A i : i = n + 1 => IterationAt(i)' = g
  BY IterationsOfMore
<1> HIDE DEF n, g, more
<1>3. (~more("ask") => Asked' = Asked)
      /\ (more("ask") => Asked' = Asked \cup {<<g, x.ev.request>>})
  <2>1. Asked = {<<IterationAt(i), file[i].ev.request>> : i \in OfKind("ask")} BY DEF Asked
  <2>2. Asked' = {<<IterationAt(i)', file'[i].ev.request>> : i \in OfKind("ask")'}
    BY Zenon DEF Asked, IterationAt, OfKind, IsWhole
  <2>3. \A i \in OfKind("ask") : IterationAt(i)' = IterationAt(i) /\ file'[i] = file[i]
    BY <1>1, <1>2
  <2>4. more("ask") => \A i : i = n + 1 => IterationAt(i)' = g /\ file'[i] = x
    BY <1>1, <1>2 DEF more
  <2>5. OfKind("ask")' = OfKind("ask") \cup (IF more("ask") THEN {n + 1} ELSE {}) BY <1>1
  <2> QED BY <2>1, <2>2, <2>3, <2>4, <2>5
<1>4. LET yes == {j \in OfKind("answer") : file[j].ev.answer = "yes"}
          later == more("answer") /\ x.ev.answer = "yes"
      IN (~later => SaidYes' = SaidYes)
         /\ (later => SaidYes' = SaidYes \cup {<<g, x.ev.request>>})
  <2> DEFINE yes == {j \in OfKind("answer") : file[j].ev.answer = "yes"}
  <2> DEFINE yesNext == {j \in OfKind("answer")' : file'[j].ev.answer = "yes"}
  <2> DEFINE later == more("answer") /\ x.ev.answer = "yes"
  <2>1. SaidYes = {<<IterationAt(i), file[i].ev.request>> : i \in yes} BY DEF SaidYes
  <2>2. SaidYes' = {<<IterationAt(i)', file'[i].ev.request>> : i \in yesNext}
    BY Zenon DEF SaidYes, IterationAt, OfKind, IsWhole
  <2>3. \A i \in OfKind("answer") : IterationAt(i)' = IterationAt(i) /\ file'[i] = file[i]
    BY <1>1, <1>2
  <2>4. more("answer") => \A i : i = n + 1 => IterationAt(i)' = g /\ file'[i] = x
    BY <1>1, <1>2 DEF more
  <2>5. OfKind("answer")' = OfKind("answer") \cup (IF more("answer") THEN {n + 1} ELSE {})
    BY <1>1
  <2>6. yesNext = yes \cup (IF later THEN {n + 1} ELSE {}) BY <2>3, <2>4, <2>5
  <2>7. \A i \in yes : IterationAt(i)' = IterationAt(i) /\ file'[i] = file[i] BY <2>3
  <2>8. later => \A i : i = n + 1 => IterationAt(i)' = g /\ file'[i] = x BY <2>4
  <2> HIDE DEF yes, yesNext, later
  <2>9. (~later => SaidYes' = SaidYes)
        /\ (later => SaidYes' = SaidYes \cup {<<g, x.ev.request>>})
    BY <2>1, <2>2, <2>6, <2>7, <2>8
  <2> QED BY <2>9 DEF later
<1>5. (~more("propose") => Offered' = Offered)
      /\ (more("propose") => Offered' = Offered \cup {<<g, x.ev.digest>>})
  <2>1. Offered = {<<IterationAt(i), file[i].ev.digest>> : i \in OfKind("propose")}
    BY DEF Offered
  <2>2. Offered' = {<<IterationAt(i)', file'[i].ev.digest>> : i \in OfKind("propose")'}
    BY Zenon DEF Offered, IterationAt, OfKind, IsWhole
  <2>3. \A i \in OfKind("propose") : IterationAt(i)' = IterationAt(i) /\ file'[i] = file[i]
    BY <1>1, <1>2
  <2>4. more("propose") => \A i : i = n + 1 => IterationAt(i)' = g /\ file'[i] = x
    BY <1>1, <1>2 DEF more
  <2>5. OfKind("propose")' = OfKind("propose") \cup (IF more("propose") THEN {n + 1} ELSE {})
    BY <1>1
  <2> QED BY <2>1, <2>2, <2>3, <2>4, <2>5
<1>6. (~more("observe") => LastSeen' = LastSeen)
      /\ (more("observe") => LastSeen' = [iteration |-> g, digest |-> x.ev.digest])
  <2> DEFINE S == OfKind("observe")
  <2> DEFINE T == OfKind("observe")'
  <2>1. S \subseteq 1..n /\ T = S \cup (IF more("observe") THEN {n + 1} ELSE {}) BY <1>1
  <2>2. /\ LastSeen = IF S = {} THEN [iteration |-> 0, digest |-> None]
                      ELSE [iteration |-> IterationAt(LastOf(S)),
                            digest |-> file[LastOf(S)].ev.digest]
        /\ \A l : l = LastOf(T) =>
               LastSeen' = IF T = {} THEN [iteration |-> 0, digest |-> None]
                           ELSE [iteration |-> IterationAt(l)', digest |-> file'[l].ev.digest]
    BY Zenon DEF LastSeen, LastOf, IterationAt, OfKind, IsWhole
  <2> HIDE DEF S, T
  <2>3. CASE ~more("observe")
    <3>1. T = S BY <2>1, <2>3
    <3>2. CASE S = {} BY <2>2, <2>3, <3>1, <3>2
    <3>3. CASE S # {}
      <4>1. PICK l : l = LastOf(S) OBVIOUS
      <4>2. l \in S BY <1>1, <2>1, <3>3, <4>1, LastIsThere
      <4>3. IterationAt(l)' = IterationAt(l) /\ file'[l] = file[l] BY <1>1, <1>2, <2>1, <4>2
      <4> QED BY <2>2, <2>3, <3>1, <3>3, <4>1, <4>3
    <3> QED BY <3>2, <3>3
  <2>4. CASE more("observe")
    <3>1. T = S \cup {n + 1} BY <2>1, <2>4
    <3>2. T \in SUBSET Nat /\ n + 1 \in T /\ \A j \in T : j <= n + 1 BY <1>1, <2>1, <3>1
    <3>3. PICK l : l = n + 1 OBVIOUS
    <3>4. LastOf(T) = l BY <3>2, <3>3, LastIsLast
    <3>5. IterationAt(l)' = g /\ file'[l] = x BY <1>1, <1>2, <2>4, <3>3 DEF more
    <3> QED BY <2>2, <2>4, <3>2, <3>4, <3>5
  <2> QED BY <2>3, <2>4
<1> QED BY <1>3, <1>4, <1>5, <1>6 DEF more, g

-----------------------------------------------------------------------------
(* An admitted event's effect is the lifecycle's.                          *)

Events == {Event(c) : c \in Calls}

\* What the kinds carry.
LEMMA EventKinds ==
    ASSUME NEW c \in Calls
    PROVE  /\ c.kind = "generate" =>
                 /\ c.iteration \in 0..MaxIterations /\ c.outcome \in Outcomes
                 /\ Event(c).kind = "generation" /\ Event(c).iteration = c.iteration
                 /\ Event(c).refused = c.outcome.refused
                 /\ Event(c).surface = IF c.outcome.refused THEN {} ELSE c.outcome.surface
                 /\ Event(c).lock = IF c.outcome.refused THEN None ELSE c.outcome.lock
           /\ c.kind # "generate" => Event(c) = c
           /\ c.kind = "verdict" => /\ c.iteration \in 0..MaxIterations /\ c.rung \in Rungs
                                    /\ c.pass \in BOOLEAN
           /\ c.kind = "ask" => c.iteration \in 0..MaxIterations /\ c.request \in Requests
           /\ c.kind = "answer" => /\ c.iteration \in 0..MaxIterations
                                   /\ c.request \in Requests /\ c.answer \in Answers
           /\ c.kind = "propose" => c.digest \in Digests /\ c.reduced \in BOOLEAN
           /\ c.kind = "observe" => c.digest \in Digests
           /\ c.kind \in {"generate", "open", "park", "commission", "close", "verdict",
                          "ask", "answer", "propose", "observe"}
<1>1. c.kind = "generate" => c \in [kind : {"generate"}, iteration : 0..MaxIterations,
                                    outcome : Outcomes]
  BY DEF Calls
<1>2. c.kind = "generate" =>
         /\ Event(c).kind = "generation" /\ Event(c).iteration = c.iteration
         /\ Event(c).refused = c.outcome.refused
         /\ Event(c).surface = IF c.outcome.refused THEN {} ELSE c.outcome.surface
         /\ Event(c).lock = IF c.outcome.refused THEN None ELSE c.outcome.lock
  BY DEF Event
<1>3. c.kind # "generate" => Event(c) = c BY DEF Event
<1>4. c.kind = "verdict" => /\ c.iteration \in 0..MaxIterations /\ c.rung \in Rungs
                            /\ c.pass \in BOOLEAN
  BY DEF Calls
<1>5. c.kind = "ask" => c.iteration \in 0..MaxIterations /\ c.request \in Requests
  BY DEF Calls
<1>6. c.kind = "answer" => /\ c.iteration \in 0..MaxIterations
                           /\ c.request \in Requests /\ c.answer \in Answers
  BY DEF Calls
<1>7. c.kind = "propose" => c.digest \in Digests /\ c.reduced \in BOOLEAN BY DEF Calls
<1>8. c.kind = "observe" => c.digest \in Digests BY DEF Calls
<1>9. c.kind \in {"generate", "open", "park", "commission", "close", "verdict",
                  "ask", "answer", "propose", "observe"}
  BY DEF Calls
<1> QED BY <1>1, <1>2, <1>3, <1>4, <1>5, <1>6, <1>7, <1>8, <1>9

\* The state replay derives has the fields of OrderState, and counts the
\* generations.
LEMMA EffectOfEvent ==
    ASSUME NEW s \in OrderState, NEW c \in Calls, Legal(s, Event(c))
    PROVE  /\ Effect(s, Event(c)) \in OrderState
           /\ Effect(s, Event(c)).iteration =
                  IF Event(c).kind = "generation" THEN s.iteration + 1 ELSE s.iteration
<1> DEFINE e == Event(c)
<1>1. CASE c.kind = "generate"
  <2>1. e.kind = "generation" /\ e.iteration \in Nat /\ e.refused \in BOOLEAN
    BY <1>1, EventKinds, LedgerAssumption DEF Outcome
  <2> HIDE DEF e
  <2>2. GenerationLegal(s, e) BY <2>1 DEF Legal, e
  <2>3. Effect(s, e) = GenerationEffect(s, e) BY <2>1, Zenon DEF Effect
  <2>4. PICK i \in Nat, b \in BOOLEAN : i = e.iteration /\ b = e.refused BY <2>1
  <2>5. Effect(s, e) = [s EXCEPT !.iteration = i, !.refused = b, !.passed = {},
                           !.broken = FALSE, !.outstanding = None, !.witnessed = FALSE,
                           !.parked = FALSE, !.proposed = None, !.declared = FALSE]
    BY <2>3, <2>4, Zenon DEF GenerationEffect
  <2>6. Effect(s, e) \in OrderState /\ Effect(s, e).iteration = i BY <2>5 DEF OrderState
  <2>7. i = s.iteration + 1 BY <2>2, <2>4 DEF GenerationLegal
  <2> QED BY <2>1, <2>6, <2>7 DEF e
<1>2. CASE c.kind # "generate"
  <2>1. e = c /\ c.kind # "generation" BY <1>2, EventKinds
  <2>2. SUFFICES Effect(s, c) \in OrderState /\ Effect(s, c).iteration = s.iteration
    BY <2>1
  <2>3. Legal(s, c) BY <2>1
  <2>4. CASE c.kind = "verdict"
    <3>1. Effect(s, c) = VerdictEffect(s, c) BY <2>4, Zenon DEF Effect
    <3>2. c.rung \in Rungs BY <2>4, EventKinds
    <3>3. CASE c.pass
      <4>1. PICK r \in Rungs : r = c.rung BY <3>2
      <4>2. Effect(s, c) = [s EXCEPT !.passed = s.passed \cup {r}]
        BY <3>1, <3>3, <4>1, Zenon DEF VerdictEffect
      <4> QED BY <4>2 DEF OrderState
    <3>4. CASE ~c.pass
      <4>1. Effect(s, c) = [s EXCEPT !.broken = TRUE] BY <3>1, <3>4, Zenon DEF VerdictEffect
      <4> QED BY <4>1 DEF OrderState
    <3> QED BY <3>3, <3>4
  <2>5. CASE c.kind = "ask"
    <3>1. Effect(s, c) = AskEffect(s, c) BY <2>5, Zenon DEF Effect
    <3>2. c.request \in Requests BY <2>5, EventKinds
    <3> QED BY <3>1, <3>2 DEF AskEffect, OrderState
  <2>6. CASE c.kind = "answer"
    <3>1. Effect(s, c) = AnswerEffect(s, c) BY <2>6, Zenon DEF Effect
    <3>2. PICK v \in BOOLEAN, b \in BOOLEAN :
              Effect(s, c) = [s EXCEPT !.outstanding = None, !.witnessed = v, !.broken = b]
      BY <3>1, Zenon DEF AnswerEffect
    <3> QED BY <3>2 DEF OrderState
  <2>7. CASE c.kind = "propose"
    <3>1. Effect(s, c) = ProposeEffect(s, c) BY <2>7, Zenon DEF Effect
    <3>2. c.digest \in Digests BY <2>7, EventKinds
    <3> QED BY <3>1, <3>2 DEF ProposeEffect, OrderState
  <2>8. CASE c.kind = "observe"
    <3>1. Effect(s, c) = ObserveEffect(s, c) BY <2>8, Zenon DEF Effect
    <3> QED BY <3>1 DEF ObserveEffect, OrderState
  <2>9. CASE c.kind = "commission"
    <3>1. Effect(s, c) = CommissionEffect(s) BY <2>9, Zenon DEF Effect
    <3> QED BY <3>1 DEF CommissionEffect, OrderState
  <2>10. CASE c.kind = "park"
    <3>1. Effect(s, c) = ParkEffect(s) BY <2>10, Zenon DEF Effect
    <3> QED BY <3>1 DEF ParkEffect, OrderState
  <2>11. CASE c.kind = "close"
    <3>1. Effect(s, c) = CloseEffect(s) BY <2>11, Zenon DEF Effect
    <3> QED BY <3>1 DEF CloseEffect, OrderState
  <2>12. CASE c.kind = "open" BY <2>3, <2>12, Zenon DEF Legal
  <2> QED BY <1>2, <2>4, <2>5, <2>6, <2>7, <2>8, <2>9, <2>10, <2>11, <2>12, EventKinds
<1> QED BY <1>1, <1>2

\* What replay makes of the file counts what is in it.
MirrorInv ==
    /\ Replay(file) \in [ok : BOOLEAN, n : Nat, st : OrderState]
    /\ Replay(file).n = Count
    /\ Count = 0 => Replay(file).st = Opened
    /\ Replay(file).st.iteration = Cardinality(OfKind("generation"))

\* The mapped variables.
Mirror == <<Replay(file).st, Asked, SaidYes, Offered, LastSeen>>

LEMMA QuietMirrors ==
    ASSUME LedgerInv, MirrorInv, Quiet PROVE MirrorInv' /\ Mirror' = Mirror
<1>1. Count' = Count /\ Replay(file') = Replay(file) BY QuietFile
<1>2. file \in Seq(Fragments) BY DEF LedgerInv, LedgerTypeOK
<1>3. /\ Cardinality(OfKind("generation"))' = Cardinality(OfKind("generation"))
      /\ Asked' = Asked /\ SaidYes' = SaidYes /\ Offered' = Offered /\ LastSeen' = LastSeen
  <2>1. CASE file' = file
    BY <2>1, Zenon DEF Asked, SaidYes, Offered, LastSeen, LastOf, IterationAt, OfKind, IsWhole
  <2>2. CASE \E x \in {Newline, Torn} : file' = Append(file, x)
    <3>1. PICK x \in {Newline, Torn} : file' = Append(file, x) BY <2>2
    <3>2. x \in Fragments /\ ~IsWhole(x) BY DEF Fragments, IsWhole, Newline, Torn
    <3> QED BY <1>2, <3>1, <3>2, HistoriesOfMore, IterationsOfMore
  <2> QED BY <2>1, <2>2 DEF Quiet
<1>4. Replay(file)' = Replay(file) BY <1>1
<1>5. MirrorInv' BY <1>1, <1>3, <1>4, Zenon DEF MirrorInv, OrderState
<1> QED BY <1>3, <1>4, <1>5 DEF Mirror

\* One step of replay, when nothing fails.
LEMMA StepOfReplay ==
    ASSUME NEW acc \in [ok : BOOLEAN, n : Nat, st : OrderState], NEW x, acc.ok,
           ReplayStep(acc, x).ok
    PROVE  /\ acc.n = 0 => x.ev.kind = "open" /\ ReplayStep(acc, x) =
                               [ok |-> TRUE, n |-> 1, st |-> Opened]
           /\ acc.n # 0 => Legal(acc.st, x.ev) /\ ReplayStep(acc, x) =
                               [ok |-> TRUE, n |-> acc.n + 1, st |-> Effect(acc.st, x.ev)]
<1>1. CASE acc.n = 0
  <2>1. PICK b \in BOOLEAN : /\ ReplayStep(acc, x) = [ok |-> b, n |-> 1, st |-> Opened]
                             /\ b => x.ev.kind = "open"
    BY <1>1, Zenon DEF ReplayStep
  <2>2. b = TRUE BY <2>1
  <2> QED BY <1>1, <2>1, <2>2
<1>2. CASE acc.n # 0
  <2>1. \/ Legal(acc.st, x.ev) /\ ReplayStep(acc, x) =
               [ok |-> TRUE, n |-> acc.n + 1, st |-> Effect(acc.st, x.ev)]
        \/ ReplayStep(acc, x) = [acc EXCEPT !.ok = FALSE]
    BY <1>2, Zenon DEF ReplayStep
  <2>2. [acc EXCEPT !.ok = FALSE].ok = FALSE OBVIOUS
  <2> QED BY <1>2, <2>1, <2>2
<1> QED BY <1>1, <1>2

\* An entry that follows is the opening, which replay takes for the state an
\* order starts in, or an event the lifecycle admits, in the same way.
LEMMA BodyMirrors ==
    ASSUME LedgerInv, MirrorInv, NEW w \in Writers, WriteBody(w)
    PROVE  /\ MirrorInv'
           /\ Mirror' = Mirror \/ Lifecycle!Next
<1> DEFINE x == minted[w]
<1> DEFINE c == want[w].call
<1> DEFINE s == Replay(file).st
<1> DEFINE g == Cardinality(OfKind("generation"))
<1>1. pc[w] = "body" /\ file' = Append(file, x) BY DEF WriteBody
<1>2. /\ x = Entry(w) /\ Replay(Append(file, x)).ok
      /\ c.kind = "generate" => ValidOutcome(c.outcome)
  BY <1>1, Zenon DEF LedgerInv, MintedReplays, Ready
<1>3. x \in Entries /\ x.seq = Count + 1 BY <1>1, <1>2, EntryIsEntry
<1>4. c \in Calls /\ x.ev = Event(c)
  <2>1. want[w] \in Menu BY <1>1 DEF LedgerInv, LedgerTypeOK
  <2> QED BY <1>2, <2>1, LedgerAssumption DEF Entry
<1>5. x \in Fragments /\ IsWhole(x) /\ file \in Seq(Fragments)
  BY <1>3 DEF Fragments, Entries, IsWhole, LedgerInv, LedgerTypeOK
<1>6. Count \in Nat /\ Count' = Count + 1 BY <1>1, <1>5, CountOfMore
<1>7. Replay(file)' = ReplayStep(Replay(file), x)
  <2>1. Replay(Append(file, x)) = ReadStep(Replay(file), x) BY <1>5, ReplayOfMore
  <2>2. Replay(file)' = Replay(file') OBVIOUS
  <2> QED BY <1>1, <1>5, <2>1, <2>2, Zenon DEF ReadStep
<1>8. Replay(file).ok /\ Replay(file)'.ok
  <2>1. Replay(file') = Replay(Append(file, x)) BY <1>1
  <2> QED BY <1>2, <2>1, Zenon DEF LedgerInv, DiskReplays
<1>9. Replay(file) \in [ok : BOOLEAN, n : Nat, st : OrderState]
      /\ s \in OrderState /\ g = s.iteration /\ g \in Nat /\ Replay(file).n = Count
      /\ (Count = 0 => s = Opened)
  BY DEF MirrorInv, OrderState
<1>10. /\ x.ev.kind # "ask" => Asked' = Asked
       /\ x.ev.kind # "answer" \/ x.ev.answer # "yes" => SaidYes' = SaidYes
       /\ x.ev.kind # "propose" => Offered' = Offered
       /\ x.ev.kind # "observe" => LastSeen' = LastSeen
       /\ x.ev.kind = "ask" => Asked' = Asked \cup {<<g, x.ev.request>>}
       /\ x.ev.kind = "answer" /\ x.ev.answer = "yes" =>
             SaidYes' = SaidYes \cup {<<g, x.ev.request>>}
       /\ x.ev.kind = "propose" => Offered' = Offered \cup {<<g, x.ev.digest>>}
       /\ x.ev.kind = "observe" => LastSeen' = [iteration |-> g, digest |-> x.ev.digest]
  BY <1>1, <1>5, HistoriesOfMore
<1>11. Cardinality(OfKind("generation"))' =
           IF x.ev.kind = "generation" THEN g + 1 ELSE g
  BY <1>1, <1>5, IterationsOfMore
<1> HIDE DEF x, c, s, g
<1>12. CASE Count = 0
  <2>1. x.ev.kind = "open" /\ Replay(file)' = [ok |-> TRUE, n |-> 1, st |-> Opened]
    BY <1>7, <1>8, <1>9, <1>12, StepOfReplay
  <2>2. Replay(file)'.n = 1 /\ Replay(file)'.st = Opened BY <2>1
  <2>3. Replay(file)'.st = s BY <1>9, <1>12, <2>2
  <2>4. MirrorInv'
    <3>1. Replay(file)'.n = Count' BY <1>6, <1>12, <2>2
    <3>2. Cardinality(OfKind("generation"))' = g BY <1>11, <2>1
    <3>3. Count' # 0 BY <1>6
    <3>4. Replay(file)' \in [ok : BOOLEAN, n : Nat, st : OrderState] BY <1>9, <1>12, <2>1
    <3>5. Replay(file)'.st.iteration = Cardinality(OfKind("generation"))' BY <1>9, <2>3, <3>2
    <3> QED BY <3>1, <3>3, <3>4, <3>5, Zenon DEF MirrorInv, OrderState
  <2>5. Mirror' = Mirror BY <1>10, <2>1, <2>3 DEF Mirror, s
  <2> QED BY <2>4, <2>5
<1>13. CASE Count # 0
  <2>1. Legal(s, x.ev)
        /\ Replay(file)' = [ok |-> TRUE, n |-> Count + 1, st |-> Effect(s, x.ev)]
    BY <1>7, <1>8, <1>9, <1>13, StepOfReplay DEF s
  <2>2. Replay(file)'.n = Count + 1 /\ Replay(file)'.st = Effect(s, x.ev) BY <2>1
  <2>3. /\ Effect(s, x.ev) \in OrderState
        /\ Effect(s, x.ev).iteration =
               IF x.ev.kind = "generation" THEN s.iteration + 1 ELSE s.iteration
    BY <1>4, <1>9, <2>1, EffectOfEvent
  <2>4. MirrorInv'
    <3>1. Replay(file)'.st.iteration = Cardinality(OfKind("generation"))'
      BY <1>9, <1>11, <2>2, <2>3
    <3>2. Count' # 0 BY <1>6
    <3>3. Replay(file)'.n = Count' BY <1>6, <2>2
    <3>4. Replay(file)' \in [ok : BOOLEAN, n : Nat, st : OrderState] BY <1>6, <2>1, <2>3
    <3> QED BY <3>1, <3>2, <3>3, <3>4, Zenon DEF MirrorInv, OrderState
  <2>5. Lifecycle!Next
    <3> DEFINE e == x.ev
    <3>1. ~Terminal(s) BY <2>1, Zenon DEF Legal
    <3>2. /\ ~Lifecycle!Terminal(s)
          /\ s = Replay(file).st /\ Replay(file)'.st = Effect(s, e)
      BY <2>2, <3>1, Zenon DEF Terminal, Lifecycle!Terminal, s
    <3>3. Legal(s, e) BY <2>1
    <3>4. e = Event(c) BY <1>4
    <3>5. CASE c.kind = "generate"
      <4>1. /\ c.iteration \in 0..MaxIterations /\ c.outcome \in Outcomes
            /\ e.kind = "generation" /\ e.iteration = c.iteration
            /\ e.refused = c.outcome.refused
            /\ e.surface = IF c.outcome.refused THEN {} ELSE c.outcome.surface
            /\ e.lock = IF c.outcome.refused THEN None ELSE c.outcome.lock
        BY <1>4, <3>4, <3>5, EventKinds
      <4> DEFINE o == c.outcome
      <4> DEFINE i == c.iteration
      <4> DEFINE f == [iteration |-> i, refused |-> o.refused,
                       surface |-> IF o.refused THEN {} ELSE o.surface,
                       lock |-> IF o.refused THEN None ELSE o.lock]
      <4> HIDE DEF e
      <4>2. GenerationLegal(s, e) /\ Effect(s, e) = GenerationEffect(s, e)
        BY <3>3, <4>1, Zenon DEF Legal, Effect
      <4>3. f.iteration = e.iteration /\ f.refused = e.refused /\ f.surface = e.surface
            /\ f.lock = e.lock
        BY <4>1
      <4> HIDE DEF f
      <4>4. Lifecycle!GenerationLegal(s, f)
            /\ Lifecycle!GenerationEffect(s, f) = GenerationEffect(s, e)
        BY <4>2, <4>3, Zenon DEF GenerationLegal, Lifecycle!GenerationLegal,
                                 GenerationEffect, Lifecycle!GenerationEffect
      <4>5. Lifecycle!ValidOutcome(o)
        BY <1>2, <3>5, Zenon DEF ValidOutcome, Lifecycle!ValidOutcome
      <4>6. Asked' = Asked /\ SaidYes' = SaidYes /\ Offered' = Offered /\ LastSeen' = LastSeen
        BY <1>10, <4>1 DEF e
      <4>7. Lifecycle!Admit(Lifecycle!GenerationLegal(s, f), Lifecycle!GenerationEffect(s, f))
        BY <3>2, <4>2, <4>4, Zenon DEF Lifecycle!Admit
      <4>8. Lifecycle!AppendGeneration
        BY <3>2, <4>1, <4>5, <4>6, <4>7 DEF Lifecycle!AppendGeneration, Lifecycle!Iterations, f
      <4> QED BY <4>8 DEF Lifecycle!Next
    <3>6. CASE c.kind = "verdict"
      <4>1. e = c /\ c.iteration \in 0..MaxIterations /\ c.rung \in Rungs /\ c.pass \in BOOLEAN
        BY <1>4, <3>6, EventKinds
      <4> HIDE DEF e
      <4>2. VerdictLegal(s, e) /\ Effect(s, e) = VerdictEffect(s, e)
        BY <3>3, <3>6, <4>1, Zenon DEF Legal, Effect
      <4> DEFINE f == [iteration |-> c.iteration, rung |-> c.rung, pass |-> c.pass]
      <4>3. f.iteration = e.iteration /\ f.rung = e.rung /\ f.pass = e.pass BY <4>1
      <4> HIDE DEF f
      <4>4. Lifecycle!VerdictLegal(s, f)
            /\ Lifecycle!VerdictEffect(s, f) = VerdictEffect(s, e)
        BY <4>2, <4>3, Zenon
        DEF VerdictLegal, Lifecycle!VerdictLegal, VerdictEffect, Lifecycle!VerdictEffect,
                   PredecessorPassed, Lifecycle!PredecessorPassed, Planned, Lifecycle!Planned,
                   Positions, Lifecycle!Positions
      <4>5. Asked' = Asked /\ SaidYes' = SaidYes /\ Offered' = Offered /\ LastSeen' = LastSeen
        BY <1>9, <1>10, <3>2, <3>6, <4>1 DEF e
      <4>6. Lifecycle!Admit(Lifecycle!VerdictLegal(s, f), Lifecycle!VerdictEffect(s, f))
        BY <3>2, <4>2, <4>4, Zenon DEF Lifecycle!Admit
      <4>7. Lifecycle!AppendVerdict
        BY <3>2, <4>1, <4>5, <4>6, Zenon
        DEF Lifecycle!AppendVerdict, Lifecycle!Iterations, f, Lifecycle!Rungs, Rungs
      <4> QED BY <4>7 DEF Lifecycle!Next
    <3>7. CASE c.kind = "ask"
      <4>1. e = c /\ c.iteration \in 0..MaxIterations /\ c.request \in Requests
        BY <1>4, <3>7, EventKinds
      <4> HIDE DEF e
      <4>2. AskLegal(s, e) /\ Effect(s, e) = AskEffect(s, e)
        BY <3>3, <3>7, <4>1, Zenon DEF Legal, Effect
      <4> DEFINE f == [iteration |-> c.iteration, request |-> c.request]
      <4>3. f.iteration = e.iteration /\ f.request = e.request BY <4>1
      <4> HIDE DEF f
      <4>4. Lifecycle!AskLegal(s, f)
            /\ Lifecycle!AskEffect(s, f) = AskEffect(s, e)
        BY <4>2, <4>3, Zenon
        DEF AskLegal, Lifecycle!AskLegal, AskEffect, Lifecycle!AskEffect
      <4>5. Asked' = Asked \cup {<<c.iteration, c.request>>}
            /\ SaidYes' = SaidYes /\ Offered' = Offered /\ LastSeen' = LastSeen
        BY <1>9, <1>10, <3>2, <3>7, <4>1, <4>2 DEF e, AskLegal
      <4>6. Lifecycle!Admit(Lifecycle!AskLegal(s, f), Lifecycle!AskEffect(s, f))
        BY <3>2, <4>2, <4>4, Zenon DEF Lifecycle!Admit
      <4>7. Lifecycle!RequestWitness
        BY <3>2, <4>1, <4>5, <4>6
        DEF Lifecycle!RequestWitness, Lifecycle!Iterations, f
      <4> QED BY <4>7 DEF Lifecycle!Next
    <3>8. CASE c.kind = "answer"
      <4>1. /\ e = c /\ c.iteration \in 0..MaxIterations /\ c.request \in Requests
            /\ c.answer \in Answers
        BY <1>4, <3>8, EventKinds
      <4> HIDE DEF e
      <4>2. AnswerLegal(s, e) /\ Effect(s, e) = AnswerEffect(s, e)
        BY <3>3, <3>8, <4>1, Zenon DEF Legal, Effect
      <4> DEFINE f == [iteration |-> c.iteration, request |-> c.request, answer |-> c.answer]
      <4>3. f.iteration = e.iteration /\ f.request = e.request /\ f.answer = e.answer BY <4>1
      <4> HIDE DEF f
      <4>4. Lifecycle!AnswerLegal(s, f)
            /\ Lifecycle!AnswerEffect(s, f) = AnswerEffect(s, e)
        BY <4>2, <4>3, Zenon
        DEF AnswerLegal, Lifecycle!AnswerLegal, AnswerEffect, Lifecycle!AnswerEffect
      <4>5. SaidYes' = (IF c.answer = "yes" THEN SaidYes \cup {<<c.iteration, c.request>>}
                        ELSE SaidYes)
            /\ Asked' = Asked /\ Offered' = Offered /\ LastSeen' = LastSeen
        BY <1>9, <1>10, <3>2, <3>8, <4>1, <4>2 DEF e, AnswerLegal
      <4>6. Lifecycle!Admit(Lifecycle!AnswerLegal(s, f), Lifecycle!AnswerEffect(s, f))
        BY <3>2, <4>2, <4>4, Zenon DEF Lifecycle!Admit
      <4>7. Lifecycle!AnswerWitness
        BY <3>2, <4>1, <4>5, <4>6, Zenon
        DEF Lifecycle!AnswerWitness, Lifecycle!Iterations, Lifecycle!Answers, Answers, f
      <4> QED BY <4>7 DEF Lifecycle!Next
    <3>9. CASE c.kind = "propose"
      <4>1. e = c /\ c.digest \in Digests /\ c.reduced \in BOOLEAN
        BY <1>4, <3>9, EventKinds
      <4> HIDE DEF e
      <4>2. ProposeLegal(s, e) /\ Effect(s, e) = ProposeEffect(s, e)
        BY <3>3, <3>9, <4>1, Zenon DEF Legal, Effect
      <4> DEFINE f == [digest |-> c.digest, reduced |-> c.reduced]
      <4>3. f.digest = e.digest /\ f.reduced = e.reduced BY <4>1
      <4> HIDE DEF f
      <4>4. Lifecycle!ProposeLegal(s, f)
            /\ Lifecycle!ProposeEffect(s, f) = ProposeEffect(s, e)
        BY <4>2, <4>3, Zenon
        DEF ProposeLegal, Lifecycle!ProposeLegal, ProposeEffect, Lifecycle!ProposeEffect,
                   Required, Lifecycle!Required, Planned, Lifecycle!Planned,
                   Positions, Lifecycle!Positions
      <4>5. Offered' = Offered \cup {<<s.iteration, c.digest>>}
            /\ Asked' = Asked /\ SaidYes' = SaidYes /\ LastSeen' = LastSeen
        BY <1>9, <1>10, <3>2, <3>9, <4>1 DEF e
      <4>6. Lifecycle!Admit(Lifecycle!ProposeLegal(s, f), Lifecycle!ProposeEffect(s, f))
        BY <3>2, <4>2, <4>4, Zenon DEF Lifecycle!Admit
      <4>7. Lifecycle!ProposeDeclaration
        BY <3>2, <4>1, <4>5, <4>6
        DEF Lifecycle!ProposeDeclaration, f
      <4> QED BY <4>7 DEF Lifecycle!Next
    <3>10. CASE c.kind = "observe"
      <4>1. e = c /\ c.digest \in Digests
        BY <1>4, <3>10, EventKinds
      <4> HIDE DEF e
      <4>2. ObserveLegal(s, e) /\ Effect(s, e) = ObserveEffect(s, e)
        BY <3>3, <3>10, <4>1, Zenon DEF Legal, Effect
      <4> DEFINE f == [digest |-> c.digest]
      <4>3. f.digest = e.digest BY <4>1
      <4> HIDE DEF f
      <4>4. Lifecycle!ObserveLegal(s, f)
            /\ Lifecycle!ObserveEffect(s, f) = ObserveEffect(s, e)
        BY <4>2, <4>3, Zenon
        DEF ObserveLegal, Lifecycle!ObserveLegal, ObserveEffect, Lifecycle!ObserveEffect
      <4>5. LastSeen' = [iteration |-> s.iteration, digest |-> c.digest]
            /\ Asked' = Asked /\ SaidYes' = SaidYes /\ Offered' = Offered
        BY <1>9, <1>10, <3>2, <3>10, <4>1 DEF e
      <4>6. Lifecycle!Admit(Lifecycle!ObserveLegal(s, f), Lifecycle!ObserveEffect(s, f))
        BY <3>2, <4>2, <4>4, Zenon DEF Lifecycle!Admit
      <4>7. Lifecycle!ObserveDeclaration
        BY <3>2, <4>1, <4>5, <4>6
        DEF Lifecycle!ObserveDeclaration, f
      <4> QED BY <4>7 DEF Lifecycle!Next
    <3>11. CASE c.kind = "commission"
      <4>1. e = c
        BY <1>4, <3>11, EventKinds
      <4> HIDE DEF e
      <4>2. CommissionLegal(s) /\ Effect(s, e) = CommissionEffect(s)
        BY <3>3, <3>11, <4>1, Zenon DEF Legal, Effect
      <4>4. Lifecycle!CommissionLegal(s)
            /\ Lifecycle!CommissionEffect(s) = CommissionEffect(s)
        BY <4>2, Zenon
        DEF CommissionLegal, Lifecycle!CommissionLegal, CommissionEffect, Lifecycle!CommissionEffect
      <4>5. Asked' = Asked /\ SaidYes' = SaidYes /\ Offered' = Offered /\ LastSeen' = LastSeen
        BY <1>9, <1>10, <3>2, <3>11, <4>1 DEF e
      <4>6. Lifecycle!Admit(Lifecycle!CommissionLegal(s), Lifecycle!CommissionEffect(s))
        BY <3>2, <4>2, <4>4, Zenon DEF Lifecycle!Admit
      <4>7. Lifecycle!Commission
        BY <3>2, <4>1, <4>5, <4>6
        DEF Lifecycle!Commission
      <4> QED BY <4>7 DEF Lifecycle!Next
    <3>12. CASE c.kind = "park"
      <4>1. e = c
        BY <1>4, <3>12, EventKinds
      <4> HIDE DEF e
      <4>2. Effect(s, e) = ParkEffect(s)
        BY <3>3, <3>12, <4>1, Zenon DEF Legal, Effect
      <4>4. Lifecycle!ParkEffect(s) = ParkEffect(s)
        BY <4>2, Zenon
        DEF ParkEffect, Lifecycle!ParkEffect
      <4>5. Asked' = Asked /\ SaidYes' = SaidYes /\ Offered' = Offered /\ LastSeen' = LastSeen
        BY <1>9, <1>10, <3>2, <3>12, <4>1 DEF e
      <4>6. Lifecycle!Admit(TRUE, Lifecycle!ParkEffect(s))
        BY <3>2, <4>2, <4>4, Zenon DEF Lifecycle!Admit
      <4>7. Lifecycle!Park
        BY <3>2, <4>1, <4>5, <4>6
        DEF Lifecycle!Park
      <4> QED BY <4>7 DEF Lifecycle!Next
    <3>13. CASE c.kind = "close"
      <4>1. e = c
        BY <1>4, <3>13, EventKinds
      <4> HIDE DEF e
      <4>2. Effect(s, e) = CloseEffect(s)
        BY <3>3, <3>13, <4>1, Zenon DEF Legal, Effect
      <4>4. Lifecycle!CloseEffect(s) = CloseEffect(s)
        BY <4>2, Zenon
        DEF CloseEffect, Lifecycle!CloseEffect
      <4>5. Asked' = Asked /\ SaidYes' = SaidYes /\ Offered' = Offered /\ LastSeen' = LastSeen
        BY <1>9, <1>10, <3>2, <3>13, <4>1 DEF e
      <4>6. Lifecycle!Admit(TRUE, Lifecycle!CloseEffect(s))
        BY <3>2, <4>2, <4>4, Zenon DEF Lifecycle!Admit
      <4>7. Lifecycle!Close
        BY <3>2, <4>1, <4>5, <4>6
        DEF Lifecycle!Close
      <4> QED BY <4>7 DEF Lifecycle!Next
    <3>14. CASE c.kind = "open"
      <4>1. e = c BY <1>4, <3>14, EventKinds
      <4> QED BY <3>3, <3>14, <4>1, Zenon DEF Legal
    <3> QED
      BY <1>4, <3>5, <3>6, <3>7, <3>8, <3>9, <3>10, <3>11, <3>12, <3>13, <3>14, EventKinds
  <2> QED BY <2>4, <2>5
<1> QED BY <1>12, <1>13

LEMMA InitMirrors == Init => MirrorInv /\ Lifecycle!Init
<1> SUFFICES ASSUME Init PROVE MirrorInv /\ Lifecycle!Init OBVIOUS
<1>1. file = <<>> /\ Len(file) = 0 BY DEF Init
<1>2. Replay(file) = Start0 BY <1>1, ReplayOfNone
<1>3. \A k : OfKind(k) = {} BY <1>1 DEF OfKind
<1>4. Asked = {} /\ SaidYes = {} /\ Offered = {}
      /\ LastSeen = [iteration |-> 0, digest |-> None]
  BY <1>3, Zenon DEF Asked, SaidYes, Offered, LastSeen
<1>5. WholeUpTo(0) = {} BY DEF WholeUpTo
<1>6. Count = 0 BY <1>1, <1>5, FS_EmptySet DEF Count
<1>7. Cardinality(OfKind("generation")) = 0 BY <1>3, FS_EmptySet
<1>8. Opened \in OrderState /\ Opened.iteration = 0 BY NoneAssumption DEF Opened, OrderState
<1>9. Opened = Lifecycle!Opened BY Zenon DEF Opened, Lifecycle!Opened
<1>10. Replay(file).n = 0 /\ Replay(file).st = Opened
       /\ Replay(file) \in [ok : BOOLEAN, n : Nat, st : OrderState]
  BY <1>2, <1>8 DEF Start0
<1>11. MirrorInv BY <1>6, <1>7, <1>8, <1>10, Zenon DEF MirrorInv
<1>12. Lifecycle!Init BY <1>4, <1>9, <1>10, Zenon DEF Lifecycle!Init
<1> QED BY <1>11, <1>12

\* Whatever the writers and the faults do, the state anyone replays from the
\* file moves only as the order's lifecycle moves (ledger.rs, `Ledger`).
THEOREM TheFileIsTheLifecycle == Spec => ImplementsLifecycle
<1>1. LedgerInv /\ MirrorInv /\ [Next]_vars =>
          MirrorInv' /\ [Lifecycle!Next]_(Lifecycle!vars)
  <2> SUFFICES ASSUME LedgerInv, MirrorInv, [Next]_vars
               PROVE  MirrorInv' /\ [Lifecycle!Next]_(Lifecycle!vars)
    OBVIOUS
  <2>1. Mirror' = Mirror => UNCHANGED Lifecycle!vars
    BY DEF Mirror, Lifecycle!vars
  <2>2. CASE UNCHANGED vars
    <3>1. Quiet BY <2>2 DEF vars, Quiet
    <3> QED BY <2>1, <3>1, QuietMirrors
  <2>3. ASSUME NEW w \in Writers, WriteBody(w)
        PROVE  MirrorInv' /\ [Lifecycle!Next]_(Lifecycle!vars)
    BY <2>1, <2>3, BodyMirrors
  <2>4. ASSUME NEW w \in Writers,
               Start(w) \/ Acquire(w) \/ LockTimeout(w) \/ Validate(w) \/ Refuse(w)
               \/ WriteNewline(w) \/ SyncAndAck(w) \/ Stop(w) \/ StopMidBody(w)
        PROVE  MirrorInv' /\ [Lifecycle!Next]_(Lifecycle!vars)
    <3>1. Quiet BY <2>4, OthersAreQuiet
    <3> QED BY <2>1, <3>1, QuietMirrors
  <2> QED BY <2>2, <2>3, <2>4 DEF Next, Step
<1> QED
  BY <1>1, InitMirrors, LedgerInvariant, PTL DEF Spec, ImplementsLifecycle, Lifecycle!Spec

-----------------------------------------------------------------------------
(* What is proved of every lifecycle (OrderLifecycleProofs), of every file. *)

Proved == INSTANCE OrderLifecycleProofs
              WITH st <- Replay(file).st, asked <- Asked, yes <- SaidYes,
                   offered <- Offered, seen <- LastSeen

\* The lifecycle the file implements is the one the theorems are about.
LEMMA OneLifecycle ==
    /\ Lifecycle!Init => Proved!Init
    /\ [Lifecycle!Next]_(Lifecycle!vars) => [Proved!Next]_(Proved!vars)
<1>1. Lifecycle!Init => Proved!Init
  BY Zenon DEF Proved!Init, Lifecycle!Init, Proved!Opened, Lifecycle!Opened
<1>2. Lifecycle!AppendGeneration => Proved!AppendGeneration
  BY Zenon
  DEF Lifecycle!AppendGeneration, Proved!AppendGeneration, Lifecycle!Admit,
      Proved!Admit, Lifecycle!Terminal, Proved!Terminal, Lifecycle!Iterations,
      Proved!Iterations, Lifecycle!ValidOutcome, Proved!ValidOutcome,
      Lifecycle!GenerationLegal, Proved!GenerationLegal,
      Lifecycle!GenerationEffect, Proved!GenerationEffect
<1>3. Lifecycle!AppendVerdict => Proved!AppendVerdict
  BY Zenon
  DEF Lifecycle!AppendVerdict, Proved!AppendVerdict, Lifecycle!Admit,
      Proved!Admit, Lifecycle!Terminal, Proved!Terminal, Lifecycle!Iterations,
      Proved!Iterations, Lifecycle!VerdictLegal, Proved!VerdictLegal,
      Lifecycle!VerdictEffect, Proved!VerdictEffect, Lifecycle!Planned,
      Proved!Planned, Lifecycle!Positions, Proved!Positions,
      Lifecycle!PredecessorPassed, Proved!PredecessorPassed, Lifecycle!Rungs,
      Proved!Rungs
<1>4. Lifecycle!RequestWitness => Proved!RequestWitness
  BY Zenon
  DEF Lifecycle!RequestWitness, Proved!RequestWitness, Lifecycle!Admit,
      Proved!Admit, Lifecycle!Terminal, Proved!Terminal, Lifecycle!Iterations,
      Proved!Iterations, Lifecycle!AskLegal, Proved!AskLegal,
      Lifecycle!AskEffect, Proved!AskEffect
<1>5. Lifecycle!AnswerWitness => Proved!AnswerWitness
  BY Zenon
  DEF Lifecycle!AnswerWitness, Proved!AnswerWitness, Lifecycle!Admit,
      Proved!Admit, Lifecycle!Terminal, Proved!Terminal, Lifecycle!Iterations,
      Proved!Iterations, Lifecycle!AnswerLegal, Proved!AnswerLegal,
      Lifecycle!AnswerEffect, Proved!AnswerEffect, Lifecycle!Answers,
      Proved!Answers
<1>6. Lifecycle!Park => Proved!Park
  BY Zenon
  DEF Lifecycle!Park, Proved!Park, Lifecycle!Admit, Proved!Admit,
      Lifecycle!Terminal, Proved!Terminal, Lifecycle!Iterations,
      Proved!Iterations, Lifecycle!ParkEffect, Proved!ParkEffect
<1>7. Lifecycle!ProposeDeclaration => Proved!ProposeDeclaration
  BY Zenon
  DEF Lifecycle!ProposeDeclaration, Proved!ProposeDeclaration, Lifecycle!Admit,
      Proved!Admit, Lifecycle!Terminal, Proved!Terminal, Lifecycle!Iterations,
      Proved!Iterations, Lifecycle!ProposeLegal, Proved!ProposeLegal,
      Lifecycle!ProposeEffect, Proved!ProposeEffect, Lifecycle!Required,
      Proved!Required, Lifecycle!Planned, Proved!Planned, Lifecycle!Positions,
      Proved!Positions
<1>8. Lifecycle!ObserveDeclaration => Proved!ObserveDeclaration
  BY Zenon
  DEF Lifecycle!ObserveDeclaration, Proved!ObserveDeclaration, Lifecycle!Admit,
      Proved!Admit, Lifecycle!Terminal, Proved!Terminal, Lifecycle!Iterations,
      Proved!Iterations, Lifecycle!ObserveLegal, Proved!ObserveLegal,
      Lifecycle!ObserveEffect, Proved!ObserveEffect
<1>9. Lifecycle!Commission => Proved!Commission
  BY Zenon
  DEF Lifecycle!Commission, Proved!Commission, Lifecycle!Admit, Proved!Admit,
      Lifecycle!Terminal, Proved!Terminal, Lifecycle!Iterations,
      Proved!Iterations, Lifecycle!CommissionLegal, Proved!CommissionLegal,
      Lifecycle!CommissionEffect, Proved!CommissionEffect
<1>10. Lifecycle!Close => Proved!Close
  BY Zenon
  DEF Lifecycle!Close, Proved!Close, Lifecycle!Admit, Proved!Admit,
      Lifecycle!Terminal, Proved!Terminal, Lifecycle!Iterations,
      Proved!Iterations, Lifecycle!CloseEffect, Proved!CloseEffect
<1>11. UNCHANGED Lifecycle!vars => UNCHANGED Proved!vars BY Zenon DEF Lifecycle!vars, Proved!vars
<1> QED
  BY <1>1, <1>2, <1>3, <1>4, <1>5, <1>6, <1>7, <1>8, <1>9, <1>10, <1>11
  DEF Lifecycle!Next, Proved!Next

\* What the theorems assume of the constants.
LEMMA ProvedOfTheseConstants ==
    /\ Proved!OrderOK /\ Outcomes \subseteq Proved!Outcome /\ MaxIterations \in Nat
<1>1. Proved!OrderOK
  BY PlanAssumption
  DEF Proved!OrderOK, OrderOK, Proved!Rungs, Rungs, Proved!Positions, Positions,
      Proved!Rank, Rank
<1>2. Outcomes \subseteq Proved!Outcome /\ MaxIterations \in Nat
  BY LedgerAssumption DEF Proved!Outcome, Outcome
<1> QED BY <1>1, <1>2

\* The four invariants of an order's life, of the state anyone replays from
\* the file, through whatever happens to the processes that write it: rungs
\* passed in the plan's order, proposals and declarations of this candidate,
\* a witness rung passed on a Yes in the file to a request in the file
\* (ledger.rs, `read` and `apply`).
TheOrderOnDisk ==
    /\ Lifecycle!PassedIsPrefix /\ Lifecycle!ProposalIsProven
    /\ Lifecycle!WitnessRungIsWitnessed /\ Lifecycle!DeclaredIsOfThisCandidate

THEOREM EveryFileKeepsItsOrder == Spec => []TheOrderOnDisk
<1>1. Proved!Spec => []Proved!LifecycleInv
  BY ProvedOfTheseConstants, DataAssumption, NoneAssumption, Proved!LifecycleInvariant
<1>2. Lifecycle!Spec => Proved!Spec
  BY OneLifecycle, PTL DEF Lifecycle!Spec, Proved!Spec
<1>3. Proved!LifecycleInv => TheOrderOnDisk
  <2>1. Proved!LifecycleInv =>
            /\ Proved!PassedIsPrefix /\ Proved!ProposalIsProven
            /\ Proved!WitnessRungIsWitnessed /\ Proved!DeclaredIsOfThisCandidate
    BY Zenon DEF Proved!LifecycleInv
  <2>2. Proved!PassedIsPrefix => Lifecycle!PassedIsPrefix
    BY Zenon DEF Proved!PassedIsPrefix, Lifecycle!PassedIsPrefix,
       Proved!Positions, Lifecycle!Positions
  <2>3. Proved!ProposalIsProven => Lifecycle!ProposalIsProven
    BY Zenon DEF Proved!ProposalIsProven, Lifecycle!ProposalIsProven, Proved!Required,
       Lifecycle!Required, Proved!Planned, Lifecycle!Planned, Proved!Positions,
       Lifecycle!Positions
  <2>4. Proved!WitnessRungIsWitnessed => Lifecycle!WitnessRungIsWitnessed
    BY Zenon DEF Proved!WitnessRungIsWitnessed, Lifecycle!WitnessRungIsWitnessed
  <2>5. Proved!DeclaredIsOfThisCandidate => Lifecycle!DeclaredIsOfThisCandidate
    BY Zenon DEF Proved!DeclaredIsOfThisCandidate, Lifecycle!DeclaredIsOfThisCandidate
  <2> QED BY <2>1, <2>2, <2>3, <2>4, <2>5 DEF TheOrderOnDisk
<1> QED
  BY <1>1, <1>2, <1>3, TheFileIsTheLifecycle, PTL DEF ImplementsLifecycle
=============================================================================
