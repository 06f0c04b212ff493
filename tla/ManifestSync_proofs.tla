------------------------ MODULE ManifestSync_proofs -------------------------
(***************************************************************************)
(* The anti-entropy pull: a cursor that moves over pages of a manifest     *)
(* while its rows keep moving past it misses nothing.                      *)
(***************************************************************************)
EXTENDS ManifestSync, FiniteSetTheorems, WellFoundedInduction, TLAPS

\* The row of k as the manifest lists it.
RowOf(k) == [key |-> k, ver |-> src[k].ver, seq |-> src[k].seq]

\* The rows of S have different seqs, which its counter has passed.
SeqsDiffer ==
  /\ \A k \in Key : src[k].seq <= counter /\ (src[k].seq = 0 => src[k].ver = 0)
  /\ \A j, k \in Key : src[j].seq = src[k].seq /\ src[j].seq # 0 => j = k

\* What D knows of S lies behind the counter of S: a row that changes gets a seq
\* past everything D has read.
BehindCounter ==
  /\ hwm <= counter /\ pass.cursor <= counter /\ pass.goal <= counter
  /\ \A e \in pass.page : e.seq <= counter

\* The page is what the manifest listed past the cursor.
PageInOrder ==
  /\ ~pass.on => pass.page = {}
  /\ \A e \in pass.page : e.seq > pass.cursor
  /\ \A e, x \in pass.page : e.seq = x.seq => e = x

\* Behind the high-water mark and behind the cursor every row is pulled; up to the
\* end of the page every row that has not moved is in the page, and, once the last
\* page is there, so is every row of the time the pass started.
NothingMissed ==
  /\ \A k \in Key : src[k].seq <= hwm => Pulled(k)
  /\ pass.on => \A k \in Key : src[k].seq <= pass.cursor => Pulled(k)
  /\ \A k \in Key : \A e \in pass.page :
       pass.cursor < src[k].seq /\ src[k].seq <= e.seq => RowOf(k) \in pass.page
  /\ pass.on /\ ~pass.more =>
       \A k \in Key : pass.cursor < src[k].seq /\ src[k].seq <= pass.goal => RowOf(k) \in pass.page

Sound == SeqsDiffer /\ BehindCounter /\ PageInOrder /\ NothingMissed

Inv == TypeOK /\ (~restored => Sound)
-----------------------------------------------------------------------------
(* Finite sets of seqs have a first and a last element. *)

LEMMA MinExists ==
  ASSUME NEW S \in SUBSET Nat, S # {}
  PROVE  \E x \in S : \A y \in S : x <= y
<1> DEFINE R == {ss \in Nat \X Nat : ss[1] < ss[2]}
<1>1. IsWellFoundedOn(R, Nat)
  BY NatLessThanWellFounded DEF OpToRel
<1>2. \E x \in S : \A y \in S : ~(<<y, x>> \in R)
  <2> HIDE DEF R
  <2> QED
    BY <1>1, WFMin
<1>3. PICK x \in S : \A y \in S : ~(<<y, x>> \in R)
  BY <1>2
<1>4. \A y \in S : y \in Nat /\ x \in Nat /\ ~(y < x)
  BY <1>3
<1>5. \A y \in S : x <= y
  BY <1>4
<1> QED
  BY <1>5

LEMMA MaxExists ==
  ASSUME NEW S \in SUBSET Nat, S # {}, NEW n \in Nat, \A x \in S : x <= n
  PROVE  \E x \in S : \A y \in S : y <= x
<1> DEFINE T == {n - x : x \in S}
<1>1. T \in SUBSET Nat /\ T # {}
  <2>1. \A x \in S : n - x \in Nat
    OBVIOUS
  <2> QED
    BY <2>1
<1>2. PICK t \in T : \A u \in T : t <= u
  <2> HIDE DEF T
  <2> QED
    BY <1>1, MinExists
<1>3. PICK x \in S : t = n - x
  BY <1>2
<1>4. \A y \in S : n - y \in T
  OBVIOUS
<1>5. \A y \in S : y <= x
  BY <1>2, <1>3, <1>4
<1> QED
  BY <1>5
-----------------------------------------------------------------------------
(* list_rows_changed_since: what a page of the manifest holds. *)

LEMMA PastRows ==
  ASSUME TypeOK, SeqsDiffer, NEW c \in Nat
  PROVE  /\ Past(c) \subseteq Entry
         /\ \A e \in Past(c) : e.key \in Key /\ e = RowOf(e.key) /\ e.seq > c /\ e.seq <= counter
         /\ \A e, x \in Past(c) : e.seq = x.seq => e = x
         /\ \A k \in Key : src[k].seq > c => RowOf(k) \in Past(c)
         /\ IsFiniteSet(Past(c))
<1>1. \A e \in Past(c) : e.key \in Key /\ e = RowOf(e.key) /\ e.seq > c
  BY DEF Past, RowOf
<1>2. \A k \in Key : RowOf(k) \in Entry /\ RowOf(k).seq = src[k].seq /\ RowOf(k).key = k
  BY DEF TypeOK, RowOf, Entry
<1>3. Past(c) \subseteq Entry
  BY <1>1, <1>2
<1>4. \A e \in Past(c) : e.seq <= counter
  BY <1>1, <1>2 DEF SeqsDiffer
<1>5. \A e, x \in Past(c) : e.seq = x.seq => e = x
  <2> SUFFICES ASSUME NEW e \in Past(c), NEW x \in Past(c), e.seq = x.seq
               PROVE  e = x
    OBVIOUS
  <2>1. src[e.key].seq = src[x.key].seq /\ src[e.key].seq # 0
    BY <1>1, <1>2
  <2>2. e.key = x.key
    BY <1>1, <2>1 DEF SeqsDiffer
  <2> QED
    BY <1>1, <2>2
<1>6. \A k \in Key : src[k].seq > c => RowOf(k) \in Past(c)
  BY DEF Past, RowOf
<1>7. IsFiniteSet(Past(c))
  <2> DEFINE J == {j \in Key : src[j].seq > c}
             f == [k \in J |-> RowOf(k)]
  <2>1. IsFiniteSet(J)
    BY SyncAssumption, FS_Subset
  <2>2. f \in Surjection(J, Past(c))
    BY DEF Surjection, Past, RowOf
  <2> QED
    BY <2>1, <2>2, FS_Surjection
<1> QED
  BY <1>1, <1>3, <1>4, <1>5, <1>6, <1>7

LEMMA PageIsPrefix ==
  ASSUME TypeOK, SeqsDiffer, NEW c \in Nat
  PROVE  /\ Manifest(c) \subseteq Past(c)
         /\ \A e \in Manifest(c) : \A x \in Past(c) : x.seq <= e.seq => x \in Manifest(c)
         /\ Cardinality(Manifest(c)) # Batch => Manifest(c) = Past(c)
<1> DEFINE P == Past(c)
           M == Manifest(c)
           Below(e) == {x \in P : x.seq < e.seq}
<1>1. /\ P \subseteq Entry /\ IsFiniteSet(P)
      /\ \A e \in P : e.seq <= counter
      /\ \A e, x \in P : e.seq = x.seq => e = x
  BY PastRows
<1>2. M \subseteq P /\ \A e \in P : e \in M <=> Cardinality(Below(e)) < Batch
  BY DEF Manifest
<1>3. \A e \in P : e.seq \in Nat
  BY <1>1 DEF Entry
<1>4. counter \in Nat /\ Batch \in Nat /\ Batch # 0
  BY SyncAssumption DEF TypeOK
<1>5. \A e \in P : IsFiniteSet(Below(e)) /\ Cardinality(Below(e)) \in Nat
  BY <1>1, FS_Subset, FS_CardinalityType
<1>6. IsFiniteSet(M) /\ Cardinality(M) \in Nat
  <2>1. IsFiniteSet(M)
    BY <1>1, <1>2, FS_Subset
  <2> QED
    BY <2>1, FS_CardinalityType
<1>7. \A e \in M : \A x \in P : x.seq <= e.seq => x \in M
  <2> SUFFICES ASSUME NEW e \in M, NEW x \in P, x.seq <= e.seq PROVE x \in M
    OBVIOUS
  <2>1. e \in P
    BY <1>2
  <2>2. Below(x) \in SUBSET Below(e)
    BY <1>3, <2>1
  <2>3. Cardinality(Below(x)) <= Cardinality(Below(e))
    BY <1>5, <2>1, <2>2, FS_Subset
  <2>4. Cardinality(Below(e)) < Batch
    BY <1>2, <2>1
  <2>5. Cardinality(Below(x)) \in Nat /\ Cardinality(Below(e)) \in Nat
    BY <1>5, <2>1
  <2>6. Cardinality(Below(x)) < Batch
    <3> HIDE DEF Below
    <3> QED
      BY <1>4, <2>3, <2>4, <2>5
  <2> QED
    BY <1>2, <2>6
<1>8. ASSUME Cardinality(M) # Batch, M # P PROVE FALSE
  <2> DEFINE Out == {x.seq : x \in P \ M}
             In == {x.seq : x \in M}
  <2>1. Out \in SUBSET Nat /\ Out # {}
    BY <1>2, <1>3, <1>8
  <2>2. PICK s \in Out : \A t \in Out : s <= t
    <3> HIDE DEF Out
    <3> QED
      BY <2>1, MinExists
  <2>3. PICK y \in P \ M : s = y.seq
    BY <2>2
  <2>4. \A x \in P \ M : y.seq <= x.seq
    BY <2>2, <2>3
  <2>5. M = Below(y)
    <3>1. \A x \in M : x.seq < y.seq
      BY <1>2, <1>3, <1>7, <2>3
    <3>2. \A x \in P : x.seq < y.seq => x \in M
      BY <1>3, <2>3, <2>4
    <3> QED
      BY <1>2, <3>1, <3>2
  <2>6. Cardinality(M) >= Batch
    <3>1. ~(Cardinality(Below(y)) < Batch)
      BY <1>2, <2>3
    <3> QED
      BY <1>4, <1>5, <2>3, <2>5, <3>1
  <2>7. M # {}
    BY <1>4, <1>6, <2>6, FS_EmptySet
  <2>8. In \in SUBSET Nat /\ In # {} /\ \A t \in In : t <= counter
    BY <1>1, <1>2, <1>3, <2>7
  <2>9. PICK t \in In : \A u \in In : u <= t
    <3> HIDE DEF In
    <3> QED
      BY <1>4, <2>8, MaxExists
  <2>10. PICK r \in M : t = r.seq
    BY <2>9
  <2>11. \A x \in M : x.seq <= r.seq
    BY <2>9, <2>10
  <2>12. r \in P /\ Cardinality(Below(r)) < Batch
    BY <1>2, <2>10
  <2>13. M \in SUBSET (Below(r) \cup {r})
    BY <1>1, <1>2, <1>3, <2>11, <2>12
  <2>14. /\ IsFiniteSet(Below(r) \cup {r})
         /\ Cardinality(Below(r) \cup {r}) = Cardinality(Below(r)) + 1
    <3>1. r \notin Below(r)
      BY <1>3, <2>12
    <3> QED
      BY <1>5, <2>12, <3>1, FS_AddElement
  <2>15. Cardinality(M) <= Cardinality(Below(r)) + 1
    BY <2>13, <2>14, FS_Subset
  <2> HIDE DEF M, P, Below
  <2> QED
    BY <1>4, <1>5, <1>6, <1>8, <2>6, <2>12, <2>15
<1> QED
  BY <1>2, <1>7, <1>8
-----------------------------------------------------------------------------
(* Types.  A streak ends before it reaches SkipAfter. *)

LEMMA NoStreakType == NoStreak \in [seq : Nat, count : 0 .. SkipAfter - 1]
  BY SyncAssumption DEF NoStreak

LEMMA IdleType ==
  Idle \in [on : BOOLEAN, since : Nat, cursor : Nat, page : SUBSET Entry, more : BOOLEAN, goal : Nat]
  BY DEF Idle

LEMMA TypeInit == Init => TypeOK
<1> SUFFICES ASSUME Init PROVE TypeOK
  OBVIOUS
<1>1. src \in [Key -> [ver : Nat, seq : Nat]] /\ dst \in [Key -> Nat]
  BY DEF Init, NoRows
<1>2. /\ stuck \in [seq : Nat, count : 0 .. SkipAfter - 1]
      /\ pass \in [on : BOOLEAN, since : Nat, cursor : Nat, page : SUBSET Entry, more : BOOLEAN, goal : Nat]
  BY NoStreakType, IdleType DEF Init
<1> QED
  BY <1>1, <1>2 DEF Init, TypeOK

LEMMA StoreType ==
  ASSUME TypeOK, NEW k \in Key, NEW v \in Nat, Store(k, v)
  PROVE  src' \in [Key -> [ver : Nat, seq : Nat]] /\ counter' \in Nat
  BY DEF TypeOK, Store

LEMMA TypeStored ==
  ASSUME TypeOK, NEW k \in Key, Write(k) \/ PullBack(k)
  PROVE  TypeOK'
<1>1. CASE Write(k)
  <2>1. src' \in [Key -> [ver : Nat, seq : Nat]] /\ counter' \in Nat
    BY <1>1, StoreType DEF Write, TypeOK
  <2> QED
    BY <1>1, <2>1 DEF Write, TypeOK, probe
<1>2. CASE PullBack(k)
  <2>1. src' \in [Key -> [ver : Nat, seq : Nat]] /\ counter' \in Nat
    BY <1>2, StoreType DEF PullBack, TypeOK
  <2> QED
    BY <1>2, <2>1 DEF PullBack, TypeOK, probe
<1> QED
  BY <1>1, <1>2

LEMMA AdvanceType ==
  ASSUME TypeOK, NEW to \in Nat, Advance(to)
  PROVE  hwm' \in Nat /\ newer' \in BOOLEAN
  BY DEF TypeOK, Advance

LEMMA TypeWorker ==
  ASSUME TypeOK, Worker
  PROVE  TypeOK'
<1>1. CASE StartPass
  <2> DEFINE h == IF SyncRewound THEN 0 ELSE hwm
  <2>1. h \in Nat
    BY DEF TypeOK
  <2>2. hwm' \in Nat /\ newer' \in BOOLEAN
    BY <1>1, <2>1 DEF StartPass, TypeOK, SyncRewound
  <2>3. pass' \in [on : BOOLEAN, since : Nat, cursor : Nat, page : SUBSET Entry, more : BOOLEAN, goal : Nat]
    <3>1. pass' = [on |-> TRUE, since |-> h, cursor |-> h, page |-> {}, more |-> TRUE, goal |-> counter]
      BY <1>1 DEF StartPass
    <3> HIDE DEF h
    <3> QED
      BY <2>1, <3>1 DEF TypeOK
  <2> QED
    BY <1>1, <2>2, <2>3 DEF StartPass, TypeOK, source, probe
<1>2. CASE FetchPage
  <2>1. Manifest(pass.cursor) \subseteq Entry
    BY DEF TypeOK, Manifest, Past, Entry
  <2>2. pass' = [pass EXCEPT !.page = Manifest(pass.cursor),
                             !.more = (Cardinality(Manifest(pass.cursor)) = Batch)]
    BY <1>2 DEF FetchPage
  <2> QED
    BY <1>2, <2>1, <2>2 DEF FetchPage, TypeOK, source, probe
<1>3. CASE FetchError
  BY <1>3 DEF FetchError, TypeOK, Idle, source, probe
<1>4. CASE ApplyEntry
  <2>1. PICK e \in pass.page :
          /\ dst' = [dst EXCEPT ![e.key] = IF e.ver > @ THEN e.ver ELSE @]
          /\ pass' = [pass EXCEPT !.cursor = e.seq, !.page = @ \ {e}]
    BY <1>4 DEF ApplyEntry
  <2>2. e.key \in Key /\ e.ver \in Nat /\ e.seq \in Nat
    BY DEF TypeOK, Entry
  <2>3. dst' \in [Key -> Nat]
    BY <2>1, <2>2 DEF TypeOK
  <2>4. pass' \in [on : BOOLEAN, since : Nat, cursor : Nat, page : SUBSET Entry, more : BOOLEAN, goal : Nat]
    BY <2>1, <2>2 DEF TypeOK
  <2> QED
    BY <1>4, <2>3, <2>4 DEF ApplyEntry, TypeOK, source, probe
<1>5. CASE ApplyError
  <2>1. PICK e \in pass.page :
          LET skip == Observe(e.seq).count >= SkipAfter
          IN /\ errors' = IF e.key \in Broken THEN errors ELSE errors + 1
             /\ stuck' = IF skip THEN NoStreak ELSE Observe(e.seq)
             /\ skipped' = IF skip THEN skipped \cup {e} ELSE skipped
             /\ Advance(IF skip THEN e.seq ELSE pass.cursor)
    BY <1>5 DEF ApplyError
  <2>2. e \in Entry /\ e.seq \in Nat
    BY DEF TypeOK, Entry
  <2>3. /\ Observe(e.seq).count \in Nat
        /\ Observe(e.seq).seq \in Nat
        /\ Observe(e.seq) = [seq |-> Observe(e.seq).seq, count |-> Observe(e.seq).count]
    BY <2>2, SyncAssumption DEF TypeOK, Observe
  <2>4. stuck' \in [seq : Nat, count : 0 .. SkipAfter - 1]
    BY <2>1, <2>3, SyncAssumption DEF NoStreak
  <2>5. hwm' \in Nat /\ newer' \in BOOLEAN
    <3>1. (IF Observe(e.seq).count >= SkipAfter THEN e.seq ELSE pass.cursor) \in Nat
      BY <2>2 DEF TypeOK
    <3> QED
      BY <2>1, <3>1, AdvanceType
  <2>6. skipped' \subseteq Entry /\ errors' \in Nat
    BY <2>1, <2>2 DEF TypeOK
  <2> QED
    BY <1>5, <2>4, <2>5, <2>6 DEF ApplyError, TypeOK, Idle, source, probe
<1>6. CASE EndPass
  <2>1. hwm' \in Nat /\ newer' \in BOOLEAN
    BY <1>6, AdvanceType DEF EndPass, TypeOK
  <2>2. /\ stuck' \in [seq : Nat, count : 0 .. SkipAfter - 1]
        /\ pass' \in [on : BOOLEAN, since : Nat, cursor : Nat, page : SUBSET Entry, more : BOOLEAN, goal : Nat]
    BY <1>6, NoStreakType, IdleType DEF EndPass
  <2>3. errors' \in Nat /\ first' \in BOOLEAN
    <3>1. CASE first' = TRUE /\ errors' = errors
      BY <3>1 DEF TypeOK
    <3>2. CASE first' = first /\ errors' = errors + 1
      BY <3>2 DEF TypeOK
    <3> QED
      BY <1>6, <3>1, <3>2 DEF EndPass
  <2> QED
    BY <1>6, <2>1, <2>2, <2>3 DEF EndPass, TypeOK, source, probe
<1> QED
  BY <1>1, <1>2, <1>3, <1>4, <1>5, <1>6 DEF Worker

LEMMA TypeNext == TypeOK /\ [Next]_vars => TypeOK'
<1> SUFFICES ASSUME TypeOK, [Next]_vars PROVE TypeOK'
  OBVIOUS
<1>1. CASE UNCHANGED vars
  BY <1>1 DEF vars, TypeOK
<1>2. CASE \E k \in Key : Write(k) \/ PullBack(k)
  BY <1>2, TypeStored
<1>3. CASE Worker
  BY <1>3, TypeWorker
<1>4. CASE Backup
  BY <1>4 DEF Backup, TypeOK, probe
<1>5. CASE Restore \/ Ping \/ Publish
  <2>1. CASE Restore
    <3>1. PICK b \in backup : src' = b.src /\ counter' = b.counter
      BY <2>1 DEF Restore
    <3>2. src' \in [Key -> [ver : Nat, seq : Nat]] /\ counter' \in Nat
      BY <3>1 DEF TypeOK
    <3> QED
      BY <2>1, <3>2 DEF Restore, TypeOK, probe
  <2>2. CASE Ping
    BY <2>2 DEF Ping, TypeOK, source
  <2>3. CASE Publish
    BY <2>3 DEF Publish, TypeOK, source
  <2> QED
    BY <1>5, <2>1, <2>2, <2>3
<1> QED
  BY <1>1, <1>2, <1>3, <1>4, <1>5 DEF Next

\* Every variable keeps its type, and an entry that fails SkipAfter times in a row
\* is skipped before its streak gets that long (StuckTracker).
THEOREM SyncTypeCorrect == Spec => []TypeOK
  BY TypeInit, TypeNext, PTL DEF Spec
-----------------------------------------------------------------------------
(* Nothing is missed, as long as S is not restored from a backup. *)

LEMMA SoundInit == Init => Sound
  BY DEF Init, Sound, SeqsDiffer, BehindCounter, PageInOrder, NothingMissed, NoRows, Idle, Pulled

\* A row that changes moves past everything D has read.
LEMMA SoundStore ==
  ASSUME TypeOK, Sound, NEW k \in Key, NEW v \in Nat, Store(k, v),
         UNCHANGED <<dst, hwm, pass, skipped>>
  PROVE  Sound'
<1>1. /\ src'[k].seq = counter + 1 /\ counter' = counter + 1 /\ counter \in Nat
      /\ \A j \in Key \ {k} : src'[j] = src[j]
      /\ \A j \in Key : src[j].seq \in Nat /\ src[j].ver \in Nat
  BY DEF Store, TypeOK
<1>2. SeqsDiffer'
  <2>1. \A j \in Key : src'[j].seq <= counter' /\ (src'[j].seq = 0 => src'[j].ver = 0)
    BY <1>1 DEF Sound, SeqsDiffer
  <2>2. ASSUME NEW i \in Key, NEW j \in Key, src'[i].seq = src'[j].seq, src'[i].seq # 0 PROVE i = j
    <3>1. CASE i = k
      BY <1>1, <2>2, <3>1 DEF Sound, SeqsDiffer
    <3>2. CASE i # k
      BY <1>1, <2>2, <3>2 DEF Sound, SeqsDiffer
    <3> QED
      BY <3>1, <3>2
  <2> QED
    BY <2>1, <2>2 DEF SeqsDiffer
<1>3. /\ hwm \in Nat /\ pass.cursor \in Nat /\ pass.goal \in Nat
      /\ \A e \in pass.page : e.seq \in Nat
  BY DEF TypeOK, Entry
<1>4. BehindCounter'
  BY <1>1, <1>3 DEF Sound, BehindCounter
<1>5. PageInOrder'
  BY DEF Sound, PageInOrder
<1>6. /\ counter + 1 > hwm /\ counter + 1 > pass.cursor /\ counter + 1 > pass.goal
      /\ \A e \in pass.page : counter + 1 > e.seq
  BY <1>1, <1>3 DEF Sound, BehindCounter
<1>7. \A j \in Key \ {k} : /\ RowOf(j)' = RowOf(j) /\ src'[j].seq = src[j].seq
                           /\ Pulled(j) => Pulled(j)'
  BY <1>1 DEF RowOf, Pulled
<1>8. NothingMissed'
  <2>1. ASSUME NEW j \in Key, src'[j].seq <= hwm PROVE Pulled(j)'
    <3>1. j # k
      BY <1>1, <1>3, <1>6, <2>1
    <3> QED
      BY <1>7, <2>1, <3>1 DEF Sound, NothingMissed
  <2>2. ASSUME pass.on, NEW j \in Key, src'[j].seq <= pass.cursor PROVE Pulled(j)'
    <3>1. j # k
      BY <1>1, <1>3, <1>6, <2>2
    <3> QED
      BY <1>7, <2>2, <3>1 DEF Sound, NothingMissed
  <2>3. ASSUME NEW j \in Key, NEW e \in pass.page, pass.cursor < src'[j].seq, src'[j].seq <= e.seq
        PROVE  RowOf(j)' \in pass.page
    <3>1. j # k
      BY <1>1, <1>3, <1>6, <2>3
    <3> QED
      BY <1>7, <2>3, <3>1 DEF Sound, NothingMissed
  <2>4. ASSUME pass.on, ~pass.more, NEW j \in Key, pass.cursor < src'[j].seq, src'[j].seq <= pass.goal
        PROVE  RowOf(j)' \in pass.page
    <3>1. j # k
      BY <1>1, <1>3, <1>6, <2>4
    <3> QED
      BY <1>7, <2>4, <3>1 DEF Sound, NothingMissed
  <2> QED
    BY <2>1, <2>2, <2>3, <2>4 DEF NothingMissed
<1> QED
  BY <1>2, <1>4, <1>5, <1>8 DEF Sound

\* What is pulled stays pulled while S does not change.
LEMMA PulledStays ==
  ASSUME NEW k \in Key, Pulled(k), src' = src, skipped \subseteq skipped',
         dst[k] \in Nat, dst'[k] \in Nat, src[k].ver \in Nat, dst'[k] >= dst[k]
  PROVE  Pulled(k)'
  BY DEF Pulled

\* A pass is over: what D keeps of it is the high-water mark.
LEMMA SoundIdle ==
  ASSUME TypeOK, Sound, UNCHANGED <<src, counter>>, pass' = Idle,
         hwm' \in Nat, hwm' <= counter,
         \A k \in Key : src[k].seq <= hwm' => Pulled(k)'
  PROVE  Sound'
<1>1. SeqsDiffer'
  BY DEF Sound, SeqsDiffer
<1>2. /\ pass'.on = FALSE /\ pass'.page = {} /\ pass'.cursor = 0 /\ pass'.goal = 0
  BY DEF Idle
<1>3. BehindCounter'
  BY <1>2 DEF BehindCounter, TypeOK
<1>4. PageInOrder'
  BY <1>2 DEF PageInOrder
<1>5. NothingMissed'
  BY <1>2 DEF NothingMissed
<1> QED
  BY <1>1, <1>3, <1>4, <1>5 DEF Sound

LEMMA SoundStartPass ==
  ASSUME TypeOK, Sound, StartPass
  PROVE  Sound'
<1> DEFINE h == IF SyncRewound THEN 0 ELSE hwm
<1>1. /\ hwm' = h /\ UNCHANGED <<src, counter, dst, skipped>>
      /\ pass' = [on |-> TRUE, since |-> h, cursor |-> h, page |-> {}, more |-> TRUE, goal |-> counter]
  BY DEF StartPass, source
<1>2. h \in Nat /\ h <= hwm /\ hwm \in Nat /\ counter \in Nat
  BY DEF TypeOK
<1> HIDE DEF h
<1>3. /\ pass'.page = {} /\ pass'.cursor = h /\ pass'.goal = counter /\ pass'.more = TRUE /\ pass'.on = TRUE
  BY <1>1
<1>4. SeqsDiffer' /\ BehindCounter' /\ PageInOrder'
  BY <1>1, <1>2, <1>3 DEF Sound, SeqsDiffer, BehindCounter, PageInOrder
<1>5. ASSUME NEW k \in Key, src[k].seq <= h PROVE Pulled(k)'
  <2>1. src[k].seq <= hwm
    BY <1>2, <1>5 DEF TypeOK
  <2>2. Pulled(k)
    BY <2>1 DEF Sound, NothingMissed
  <2> QED
    BY <1>1, <2>2 DEF Pulled
<1>6. NothingMissed'
  BY <1>1, <1>3, <1>5 DEF NothingMissed
<1> QED
  BY <1>4, <1>6 DEF Sound

LEMMA SoundFetchPage ==
  ASSUME TypeOK, Sound, FetchPage
  PROVE  Sound'
<1> DEFINE c == pass.cursor
           M == Manifest(c)
<1>1. /\ UNCHANGED <<src, counter, dst, skipped, hwm>> /\ pass.on
      /\ pass' = [pass EXCEPT !.page = M, !.more = (Cardinality(M) = Batch)]
  BY DEF FetchPage, source
<1>2. c \in Nat /\ counter \in Nat
  BY DEF TypeOK
<1> HIDE DEF c, M
<1>3. /\ pass'.page = M /\ pass'.more = (Cardinality(M) = Batch)
      /\ pass'.on = pass.on /\ pass'.cursor = c /\ pass'.goal = pass.goal
  BY <1>1 DEF TypeOK, c
<1>4. /\ M \subseteq Past(c)
      /\ \A e \in M : \A x \in Past(c) : x.seq <= e.seq => x \in M
      /\ Cardinality(M) # Batch => M = Past(c)
  BY <1>2, PageIsPrefix DEF Sound, M
<1>5. /\ \A e \in Past(c) : e.seq > c /\ e.seq <= counter
      /\ \A e, x \in Past(c) : e.seq = x.seq => e = x
      /\ \A k \in Key : src[k].seq > c => RowOf(k) \in Past(c)
  BY <1>2, PastRows DEF Sound
<1>6. SeqsDiffer'
  BY <1>1 DEF Sound, SeqsDiffer
<1>7. BehindCounter'
  BY <1>1, <1>3, <1>4, <1>5 DEF Sound, BehindCounter, c
<1>8. PageInOrder'
  <2>1. \A e \in pass'.page : e.seq > pass'.cursor
    BY <1>3, <1>4, <1>5
  <2>2. \A e, x \in pass'.page : e.seq = x.seq => e = x
    BY <1>3, <1>4, <1>5
  <2> QED
    BY <1>1, <1>3, <2>1, <2>2 DEF PageInOrder
<1>9. \A k \in Key : /\ (Pulled(k) => Pulled(k)') /\ RowOf(k)' = RowOf(k)
                     /\ RowOf(k).seq = src[k].seq
  BY <1>1 DEF Pulled, RowOf
<1>10. NothingMissed'
  <2>1. \A k \in Key : src[k].seq <= hwm => Pulled(k)'
    BY <1>9 DEF Sound, NothingMissed
  <2>2. \A k \in Key : src[k].seq <= c => Pulled(k)'
    BY <1>1, <1>9 DEF Sound, NothingMissed, c
  <2>3. ASSUME NEW k \in Key, NEW e \in M, c < src[k].seq, src[k].seq <= e.seq
        PROVE  RowOf(k)' \in M
    <3>1. RowOf(k) \in Past(c)
      BY <1>2, <1>5, <2>3 DEF TypeOK
    <3> QED
      BY <1>4, <1>9, <2>3, <3>1
  <2>4. ASSUME NEW k \in Key, Cardinality(M) # Batch, c < src[k].seq PROVE RowOf(k)' \in M
    <3>1. RowOf(k) \in Past(c)
      BY <1>2, <1>5, <2>4 DEF TypeOK
    <3> QED
      BY <1>4, <1>9, <2>4, <3>1
  <2> QED
    BY <1>1, <1>3, <2>1, <2>2, <2>3, <2>4 DEF NothingMissed
<1> QED
  BY <1>6, <1>7, <1>8, <1>10 DEF Sound

\* The next entry of the page is the only row between the cursor and its seq.
LEMMA NextIsOnly ==
  ASSUME TypeOK, Sound, NEW e \in pass.page, IsNext(e), NEW k \in Key, src[k].seq <= e.seq
  PROVE  Pulled(k) \/ RowOf(k) = e
<1>1. pass.on
  BY DEF Sound, PageInOrder
<1>2. src[k].seq \in Nat /\ pass.cursor \in Nat /\ e.seq \in Nat
  BY DEF TypeOK, Entry
<1>3. CASE src[k].seq <= pass.cursor
  BY <1>1, <1>3 DEF Sound, NothingMissed
<1>4. CASE pass.cursor < src[k].seq
  <2>1. RowOf(k) \in pass.page /\ RowOf(k).seq = src[k].seq
    BY <1>4 DEF Sound, NothingMissed, RowOf
  <2>2. e.seq <= RowOf(k).seq
    BY <2>1 DEF IsNext
  <2>3. e.seq = RowOf(k).seq
    BY <1>2, <2>1, <2>2
  <2> QED
    BY <2>1, <2>3 DEF Sound, PageInOrder
<1> QED
  BY <1>2, <1>3, <1>4

LEMMA SoundApplyEntry ==
  ASSUME TypeOK, Sound, ApplyEntry
  PROVE  Sound'
<1>1. UNCHANGED <<src, counter, skipped, hwm>>
  BY DEF ApplyEntry, source
<1>2. PICK e \in pass.page :
        /\ IsNext(e)
        /\ dst' = [dst EXCEPT ![e.key] = IF e.ver > @ THEN e.ver ELSE @]
        /\ pass' = [pass EXCEPT !.cursor = e.seq, !.page = @ \ {e}]
  BY DEF ApplyEntry
<1>3. e.key \in Key /\ e.ver \in Nat /\ e.seq \in Nat /\ pass.on
  BY DEF TypeOK, Entry, Sound, PageInOrder
<1>4. /\ pass'.cursor = e.seq /\ pass'.page = pass.page \ {e}
      /\ pass'.on = pass.on /\ pass'.more = pass.more /\ pass'.goal = pass.goal
  BY <1>2 DEF TypeOK
<1>5. \A x \in pass.page : x.seq \in Nat /\ pass.cursor < x.seq /\ (x # e => e.seq < x.seq)
  BY <1>2, <1>3 DEF TypeOK, Entry, Sound, PageInOrder, IsNext
<1>6. SeqsDiffer'
  BY <1>1 DEF Sound, SeqsDiffer
<1>7. BehindCounter'
  BY <1>1, <1>4 DEF Sound, BehindCounter
<1>8. PageInOrder'
  BY <1>3, <1>4, <1>5 DEF Sound, PageInOrder
<1>9. \A k \in Key : /\ dst[k] \in Nat /\ dst'[k] \in Nat /\ dst'[k] >= dst[k] /\ src[k].ver \in Nat
                     /\ src[k].seq \in Nat
  BY <1>2, <1>3 DEF TypeOK
<1>10. dst'[e.key] >= e.ver
  BY <1>2, <1>3 DEF TypeOK
<1>11. \A k \in Key : /\ (Pulled(k) => Pulled(k)') /\ RowOf(k)' = RowOf(k)
                      /\ RowOf(k).seq = src[k].seq /\ RowOf(k).key = k /\ RowOf(k).ver = src[k].ver
  BY <1>1, <1>9, PulledStays DEF RowOf
<1>12. ASSUME NEW k \in Key, src[k].seq <= e.seq PROVE Pulled(k)'
  <2>1. CASE Pulled(k)
    BY <1>11, <2>1
  <2>2. CASE RowOf(k) = e
    <3>1. k = e.key /\ src[k].ver = e.ver
      BY <1>11, <2>2
    <3> QED
      BY <1>1, <1>10, <3>1 DEF Pulled
  <2> QED
    BY <1>2, <1>12, <2>1, <2>2, NextIsOnly
<1>13. NothingMissed'
  <2>1. \A k \in Key : src[k].seq <= hwm => Pulled(k)'
    BY <1>11 DEF Sound, NothingMissed
  <2>2. ASSUME NEW k \in Key, NEW x \in pass.page \ {e}, e.seq < src[k].seq, src[k].seq <= x.seq
        PROVE  RowOf(k)' \in pass.page \ {e}
    <3>1. pass.cursor < src[k].seq
      BY <1>3, <1>5, <1>9, <2>2 DEF TypeOK
    <3>2. RowOf(k) \in pass.page
      BY <2>2, <3>1 DEF Sound, NothingMissed
    <3>3. RowOf(k) # e
      BY <1>3, <1>9, <1>11, <2>2
    <3> QED
      BY <1>11, <3>2, <3>3
  <2>3. ASSUME NEW k \in Key, ~pass.more, e.seq < src[k].seq, src[k].seq <= pass.goal
        PROVE  RowOf(k)' \in pass.page \ {e}
    <3>1. pass.cursor < src[k].seq
      BY <1>3, <1>5, <1>9, <2>3 DEF TypeOK
    <3>2. RowOf(k) \in pass.page
      BY <1>3, <2>3, <3>1 DEF Sound, NothingMissed
    <3>3. RowOf(k) # e
      BY <1>3, <1>9, <1>11, <2>3
    <3> QED
      BY <1>11, <3>2, <3>3
  <2> QED
    BY <1>1, <1>4, <1>12, <2>1, <2>2, <2>3 DEF NothingMissed
<1> QED
  BY <1>6, <1>7, <1>8, <1>13 DEF Sound

LEMMA SoundApplyError ==
  ASSUME TypeOK, Sound, ApplyError
  PROVE  Sound'
<1>1. UNCHANGED <<src, counter, dst>> /\ pass' = Idle
  BY DEF ApplyError, source
<1>2. PICK e \in pass.page :
        LET skip == Observe(e.seq).count >= SkipAfter
        IN /\ IsNext(e)
           /\ skipped' = IF skip THEN skipped \cup {e} ELSE skipped
           /\ Advance(IF skip THEN e.seq ELSE pass.cursor)
  BY DEF ApplyError
<1>3. /\ e.seq \in Nat /\ pass.cursor \in Nat /\ hwm \in Nat /\ pass.on
      /\ e.seq <= counter /\ pass.cursor <= counter /\ hwm <= counter
  BY DEF TypeOK, Entry, Sound, PageInOrder, BehindCounter
<1>4. \A k \in Key : Pulled(k) => Pulled(k)'
  BY <1>1, <1>2, PulledStays DEF TypeOK
<1>5. hwm' \in {hwm, pass.cursor} \/ (hwm' = e.seq /\ skipped' = skipped \cup {e})
  BY <1>2 DEF Advance
<1>6. hwm' \in Nat /\ hwm' <= counter
  BY <1>3, <1>5
<1>7. ASSUME NEW k \in Key, src[k].seq <= hwm' PROVE Pulled(k)'
  <2>1. CASE hwm' \in {hwm, pass.cursor}
    BY <1>3, <1>4, <1>7, <2>1 DEF Sound, NothingMissed
  <2>2. CASE hwm' = e.seq /\ skipped' = skipped \cup {e}
    <3>1. Pulled(k) \/ RowOf(k) = e
      BY <1>2, <1>7, <2>2, NextIsOnly
    <3>2. CASE RowOf(k) = e
      <4>1. e \in skipped' /\ e.key = k /\ e.ver = src'[k].ver
        BY <1>1, <2>2, <3>2 DEF RowOf
      <4> QED
        BY <4>1 DEF Pulled
    <3> QED
      BY <1>4, <3>1, <3>2
  <2> QED
    BY <1>5, <2>1, <2>2
<1> QED
  BY <1>1, <1>6, <1>7, SoundIdle

LEMMA SoundEndPass ==
  ASSUME TypeOK, Sound, EndPass
  PROVE  Sound'
<1>1. UNCHANGED <<src, counter, dst, skipped>> /\ pass' = Idle /\ pass.on
  BY DEF EndPass, source
<1>2. hwm' \in {hwm, pass.cursor}
  BY DEF EndPass, Advance
<1>3. hwm' \in Nat /\ hwm' <= counter
  BY <1>2 DEF TypeOK, Sound, BehindCounter
<1>4. \A k \in Key : Pulled(k) => Pulled(k)'
  BY <1>1 DEF Pulled
<1>5. \A k \in Key : src[k].seq <= hwm' => Pulled(k)'
  BY <1>1, <1>2, <1>4 DEF Sound, NothingMissed
<1> QED
  BY <1>1, <1>3, <1>5, SoundIdle

LEMMA SoundFetchError ==
  ASSUME TypeOK, Sound, FetchError
  PROVE  Sound'
<1>1. UNCHANGED <<src, counter, dst, skipped, hwm>> /\ pass' = Idle
  BY DEF FetchError, source
<1>2. hwm' \in Nat /\ hwm' <= counter
  BY <1>1 DEF TypeOK, Sound, BehindCounter
<1>3. \A k \in Key : src[k].seq <= hwm' => Pulled(k)'
  BY <1>1 DEF Sound, NothingMissed, Pulled
<1> QED
  BY <1>1, <1>2, <1>3, SoundIdle

LEMMA SoundSame ==
  ASSUME Sound, UNCHANGED <<src, counter, dst, hwm, pass, skipped>>
  PROVE  Sound'
  BY DEF Sound, SeqsDiffer, BehindCounter, PageInOrder, NothingMissed, Pulled, RowOf

LEMMA InvInit == Init => Inv
  BY TypeInit, SoundInit DEF Inv

LEMMA InvNext == Inv /\ [Next]_vars => Inv'
<1> SUFFICES ASSUME Inv, [Next]_vars, ~restored' PROVE Sound'
  BY TypeNext DEF Inv
<1>1. CASE UNCHANGED vars
  BY <1>1, SoundSame DEF vars, Inv
<1>2. CASE Restore
  BY <1>2 DEF Restore
<1>3. ASSUME NEW k \in Key, Write(k) PROVE Sound'
  <2>1. ~restored /\ Store(k, writes + 1) /\ UNCHANGED <<dst, hwm, pass, skipped>>
    BY <1>3 DEF Write
  <2>2. writes + 1 \in Nat
    BY DEF Inv, TypeOK
  <2> QED
    BY <2>1, <2>2, SoundStore DEF Inv
<1>4. ASSUME NEW k \in Key, PullBack(k) PROVE Sound'
  <2>1. ~restored /\ Store(k, dst[k]) /\ UNCHANGED <<dst, hwm, pass, skipped>>
    BY <1>4 DEF PullBack
  <2>2. dst[k] \in Nat
    BY DEF Inv, TypeOK
  <2> QED
    BY <2>1, <2>2, SoundStore DEF Inv
<1>5. CASE Backup \/ Ping \/ Publish
  <2>1. ~restored /\ UNCHANGED <<src, counter, dst, hwm, pass, skipped>>
    BY <1>5 DEF Backup, Ping, Publish, source
  <2> QED
    BY <2>1, SoundSame DEF Inv
<1>6. CASE Worker
  <2>1. ~restored
    BY <1>6 DEF Worker, StartPass, FetchPage, FetchError, ApplyEntry, ApplyError, EndPass, source
  <2> QED
    BY <1>6, <2>1, SoundStartPass, SoundFetchPage, SoundFetchError, SoundApplyEntry,
       SoundApplyError, SoundEndPass DEF Worker, Inv
<1> QED
  BY <1>1, <1>2, <1>3, <1>4, <1>5, <1>6 DEF Next

\* The inductive invariant of the pull.
THEOREM SyncInvariant == Spec => []Inv
  BY InvInit, InvNext, PTL DEF Spec

\* reconcile_peer_objects, apply_entries: the cursor and the high-water mark pass
\* only rows that are merged into D or given up, for any number of keys, any page
\* size, and whatever rows change at S between two pages or two entries, whatever
\* requests fail and whatever entries are skipped; only a restore of S from a
\* backup may take rows back behind them.
THEOREM CursorIsSafe == Spec => []CursorCoversRows
<1>1. Inv => CursorCoversRows
  BY DEF Inv, Sound, NothingMissed, CursorCoversRows
<1> QED
  BY <1>1, SyncInvariant, PTL

\* caught_up, record_reconcile_complete: the readiness latch is set by no step but
\* the end of a pass that has pulled every row S had when the pass started, however
\* many pages that took.
THEOREM ReadinessIsEarned == Spec => FirstPassIsFull
<1>1. Inv /\ [Next]_vars => [FirstPassIsFullStep]_vars
  <2> SUFFICES ASSUME Inv, [Next]_vars, ~first, first', ~restored,
                      NEW k \in Key, src[k].seq <= pass.goal
               PROVE  Pulled(k)
    BY DEF FirstPassIsFullStep
  <2>1. EndPass
    <3>1. first' # first
      OBVIOUS
    <3>2. ~UNCHANGED vars
      BY <3>1 DEF vars
    <3>3. ASSUME NEW j \in Key PROVE ~Write(j) /\ ~PullBack(j)
      BY <3>1 DEF Write, PullBack
    <3>4. ~Backup /\ ~Restore /\ ~Ping /\ ~Publish
      BY <3>1 DEF Backup, Restore, Ping, Publish
    <3>5. ~StartPass /\ ~FetchPage /\ ~FetchError /\ ~ApplyEntry /\ ~ApplyError
      BY <3>1 DEF StartPass, FetchPage, FetchError, ApplyEntry, ApplyError
    <3> QED
      BY <3>2, <3>3, <3>4, <3>5 DEF Next, Worker
  <2>2. pass.on /\ pass.page = {} /\ ~pass.more
    BY <2>1 DEF EndPass
  <2>3. src[k].seq \in Nat /\ pass.cursor \in Nat
    BY DEF Inv, TypeOK
  <2>4. src[k].seq <= pass.cursor
    BY <2>2, <2>3 DEF Inv, Sound, NothingMissed
  <2> QED
    BY <2>2, <2>4 DEF Inv, Sound, NothingMissed
<1> QED
  BY <1>1, SyncInvariant, PTL DEF Spec, FirstPassIsFull
=============================================================================
