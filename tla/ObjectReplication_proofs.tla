---------------------- MODULE ObjectReplication_proofs ----------------------
(***************************************************************************)
(* Proofs about ObjectReplication, for every set of nodes and requests:    *)
(* type correctness, convergence (no update is ever missed), the           *)
(* monotonicity of the lock and content registers, and the durability of   *)
(* acknowledged PUTs.                                                      *)
(***************************************************************************)
EXTENDS ObjectReplication, FiniteSetTheorems, TLAPS

LEMMA NoRowType == NoRow \in Row
  BY DEF NoRow, Row

LEMMA PutRowType == \A b, t \in Nat : PutRow(b, t) \in Row
  BY DEF PutRow, Row

LEMMA TombstoneType == \A r \in Row : \A t \in Nat : Tombstone(r, t) \in Row
  BY DEF Tombstone, Row

LEMMA InPlaceType ==
  \A r \in Row : \A t \in Nat : /\ \A h \in BOOLEAN : SetHold(r, h, t) \in Row
                               /\ \A b \in Nat : SwapBlob(r, b, t) \in Row
  BY DEF SetHold, SwapBlob, Row

LEMMA WithType ==
  \A r, in \in Row : WithLock(r, in) \in Row /\ WithContent(r, in) \in Row
  BY DEF WithLock, WithContent, Row

LEMMA ResolveType == \A in, local \in Row : Resolve(in, local) \in Row
<1>1. \A in, local \in Row : MergeRegisters(in, local) \in Row
  BY WithType DEF MergeRegisters
<1> QED
  BY <1>1 DEF Resolve

\* The requests a client sends are idle at first; everything else is empty.
LEMMA TypeInit == Init => TypeOK
<1> SUFFICES ASSUME Init PROVE TypeOK
  OBVIOUS
<1>1. req \in [Request -> RequestState]
  BY DEF Init, RequestState, Phase
<1>2. pull \in [Node -> PullState]
  BY NoRowType DEF Init, PullState, NoPull
<1> QED
  BY <1>1, <1>2, NoRowType DEF Init, TypeOK

LEMMA FanOutType ==
  ASSUME NEW n \in Node, NEW i \in Request, NEW r \in Row,
         NEW kind \in {"object", "delete"}, msgs \in SUBSET Message, FanOut(kind, i, n, r)
  PROVE  msgs' \in SUBSET Message
  BY DEF FanOut, Message, Peers

LEMMA StoreType ==
  ASSUME NEW n \in Node, NEW r \in Row, row \in [Node -> Row], seq \in [Node -> Nat],
         Store(n, r)
  PROVE  row' \in [Node -> Row] /\ seq' \in [Node -> Nat]
  BY DEF Store

LEMMA ApplyType ==
  ASSUME NEW n \in Node, NEW r \in Row, row \in [Node -> Row], seq \in [Node -> Nat],
         ApplyRemoteObject(n, r)
  PROVE  row' \in [Node -> Row] /\ seq' \in [Node -> Nat]
<1>1. Resolve(r, row[n]) \in Row
  BY ResolveType
<1> QED
  BY <1>1, StoreType DEF ApplyRemoteObject

LEMMA RequestTypes ==
  /\ Request \subseteq Nat \ {0}
  /\ Blob \subseteq Nat \ {0}
  /\ Put \subseteq Request /\ Delete \subseteq Request
  /\ Lock \subseteq Request /\ Recrypt \subseteq Request
  /\ Put \subseteq Blob /\ Recrypt \subseteq Blob
  BY RequestAssumption DEF Request, Blob

LEMMA TypeStep == TypeOK /\ [Next]_vars => TypeOK'
<1> SUFFICES ASSUME TypeOK, [Next]_vars PROVE TypeOK'
  OBVIOUS
<1> USE RequestTypes
<1>a. req \in [Request -> RequestState]
  BY DEF TypeOK
<1>b. row \in [Node -> Row] /\ seq \in [Node -> Nat] /\ clock \in Nat
  BY DEF TypeOK
<1>c. disk \in [Node -> SUBSET Blob]
  BY DEF TypeOK
<1>d. msgs \in SUBSET Message
  BY DEF TypeOK
<1>e. hwm \in [Node -> [Node -> Nat]] /\ pull \in [Node -> PullState]
  BY DEF TypeOK
<1>1. ASSUME NEW n \in Node, NEW i \in Put, PutUpload(n, i) PROVE TypeOK'
  <2>1. PICK t \in PutStamps(n), got \in SUBSET Peers(n) :
          /\ clock' = t
          /\ disk' = [p \in Node |-> IF p \in got \cup {n} THEN disk[p] \cup {i}
                                                           ELSE disk[p]]
          /\ req' = [req EXCEPT ![i].phase = "open", ![i].node = n, ![i].lm = t]
    BY <1>1 DEF PutUpload
  <2>2. t \in Nat
    BY <1>a, <1>b, <1>d, <1>e DEF PutStamps
  <2>3. req' \in [Request -> RequestState]
    BY <1>a, <2>1, <2>2 DEF RequestState, Phase
  <2>4. disk' \in [Node -> SUBSET Blob]
    BY <1>b, <1>c, <2>1
  <2> QED
    BY <1>1, <2>1, <2>2, <2>3, <2>4 DEF TypeOK, PutUpload
<1>2. ASSUME NEW n \in Node, NEW i \in Put, PutCommit(n, i) PROVE TypeOK'
  <2>1. req[i].lm \in Nat /\ row[n].blob \in Nat
    BY <1>a, <1>b, <1>d, <1>e DEF RequestState, Row
  <2>2. PutRow(i, req[i].lm) \in Row
    BY <1>a, <1>b, <1>d, <1>e, <2>1, PutRowType
  <2>3. row' \in [Node -> Row] /\ seq' \in [Node -> Nat]
    BY <1>b, <1>d, <1>e, <1>2, <2>2, StoreType DEF PutCommit
  <2>4. msgs' \in SUBSET Message
    BY <1>d, <1>2, <2>2, FanOutType DEF PutCommit
  <2>5. req' \in [Request -> RequestState]
    BY <1>a, <1>2, <2>1 DEF PutCommit, RequestState, Phase
  <2> QED
    BY <1>2, <2>3, <2>4, <2>5 DEF TypeOK, PutCommit
<1>3. ASSUME NEW n \in Node, NEW i \in Delete, DeleteCheck(n, i) PROVE TypeOK'
  <2>1. req' \in [Request -> RequestState]
    BY <1>a, <1>3 DEF DeleteCheck, RequestState, Phase
  <2> QED
    BY <1>3, <2>1 DEF TypeOK, DeleteCheck
<1>4. ASSUME NEW n \in Node, NEW i \in Delete, DeleteCommit(n, i) PROVE TypeOK'
  <2>1. CASE Live(row[n])
    <3>1. clock + 1 \in Nat /\ row[n].blob \in Nat
      BY <1>a, <1>b, <1>d, <1>e DEF Row
    <3>2. Tombstone(row[n], clock + 1) \in Row
      BY <1>a, <1>b, <1>d, <1>e, <3>1, TombstoneType
    <3>3. row' \in [Node -> Row] /\ seq' \in [Node -> Nat]
      BY <1>b, <1>d, <1>e, <1>4, <2>1, <3>2, StoreType DEF DeleteCommit
    <3>4. msgs' \in SUBSET Message
      BY <1>d, <1>4, <2>1, NoRowType, FanOutType DEF DeleteCommit
    <3>5. req' \in [Request -> RequestState]
      BY <1>a, <1>4, <2>1, <3>1 DEF DeleteCommit, RequestState, Phase
    <3> QED
      BY <1>4, <2>1, <3>1, <3>3, <3>4, <3>5 DEF TypeOK, DeleteCommit
  <2>2. CASE ~Live(row[n])
    <3>1. req' \in [Request -> RequestState]
      BY <1>a, <1>4, <2>2 DEF DeleteCommit, RequestState, Phase
    <3> QED
      BY <1>4, <2>2, <3>1 DEF TypeOK, DeleteCommit
  <2> QED
    BY <2>1, <2>2
<1>5. ASSUME NEW i \in Put \cup Delete, Answer(i) PROVE TypeOK'
  <2>1. req' \in [Request -> RequestState]
    BY <1>a, <1>5 DEF Answer, RequestState, Phase
  <2> QED
    BY <1>5, <2>1 DEF TypeOK, Answer
<1>6. ASSUME NEW i \in Put \cup Delete, DeleteOldBlob(i) PROVE TypeOK'
  <2>1. req' \in [Request -> RequestState]
    BY <1>a, <1>6 DEF DeleteOldBlob, RequestState
  <2>2. disk' \in [Node -> SUBSET Blob]
    BY <1>b, <1>c, <1>6 DEF DeleteOldBlob
  <2> QED
    BY <1>6, <2>1, <2>2 DEF TypeOK, DeleteOldBlob
<1>7. ASSUME NEW n \in Node, NEW i \in Lock, SetLegalHold(n, i) PROVE TypeOK'
  <2>1. PICK h \in BOOLEAN : Store(n, SetHold(row[n], h, clock + 1))
    BY <1>7 DEF SetLegalHold
  <2>2. SetHold(row[n], h, clock + 1) \in Row
    BY <1>b, InPlaceType
  <2>3. row' \in [Node -> Row] /\ seq' \in [Node -> Nat]
    BY <1>b, <2>1, <2>2, StoreType
  <2>5. req' \in [Request -> RequestState]
    BY <1>a, <1>7 DEF SetLegalHold, RequestState, Phase
  <2> QED
    BY <1>7, <2>3, <2>5 DEF TypeOK, SetLegalHold
<1>8. ASSUME NEW n \in Node, NEW i \in Recrypt, RecryptUpload(n, i) PROVE TypeOK'
  <2>1. disk' \in [Node -> SUBSET Blob]
    BY <1>b, <1>c, <1>8 DEF RecryptUpload
  <2>2. row[n].blob \in Nat
    BY <1>a, <1>b, <1>d, <1>e DEF Row
  <2>3. req' \in [Request -> RequestState]
    BY <1>a, <1>8, <2>2 DEF RecryptUpload, RequestState, Phase
  <2> QED
    BY <1>8, <2>1, <2>3 DEF TypeOK, RecryptUpload
<1>9. ASSUME NEW n \in Node, NEW i \in Recrypt, RecryptCommit(n, i) PROVE TypeOK'
  <2>1. req' \in [Request -> RequestState]
    BY <1>a, <1>9 DEF RecryptCommit, RequestState, Phase
  <2>2. CASE Live(row[n]) /\ row[n].blob = req[i].old
    <3>1. SwapBlob(row[n], i, clock + 1) \in Row
      BY <1>b, InPlaceType
    <3>2. Store(n, SwapBlob(row[n], i, clock + 1))
      BY <1>9, <2>2 DEF RecryptCommit
    <3>3. row' \in [Node -> Row] /\ seq' \in [Node -> Nat]
      BY <1>b, <3>1, <3>2, StoreType
    <3> QED
      BY <1>9, <2>1, <2>2, <3>3 DEF TypeOK, RecryptCommit
  <2>3. CASE ~(Live(row[n]) /\ row[n].blob = req[i].old)
    <3>1. disk' \in [Node -> SUBSET Blob]
      BY <1>b, <1>c, <1>9, <2>3 DEF RecryptCommit
    <3> QED
      BY <1>9, <2>1, <2>3, <3>1 DEF TypeOK, RecryptCommit
  <2> QED
    BY <2>2, <2>3
<1>10. ASSUME NEW m \in msgs, ReceiveObject(m) PROVE TypeOK'
  <2>1. m.to \in Node /\ m.row \in Row /\ m.req \in Request
    BY <1>a, <1>b, <1>d, <1>e DEF Message
  <2>2. row' \in [Node -> Row] /\ seq' \in [Node -> Nat]
    BY <1>b, <1>d, <1>e, <1>10, <2>1, ApplyType DEF ReceiveObject
  <2>3. req' \in [Request -> RequestState]
    BY <1>a, <1>10, <2>1 DEF ReceiveObject, Ack, RequestState
  <2> QED
    BY <1>10, <2>2, <2>3 DEF TypeOK, ReceiveObject
<1>11. ASSUME NEW m \in msgs, ReceiveVersionDelete(m) PROVE TypeOK'
  <2>1. m.to \in Node /\ m.req \in Request
    BY <1>a, <1>b, <1>d, <1>e DEF Message
  <2>2. req' \in [Request -> RequestState]
    BY <1>a, <1>11, <2>1 DEF ReceiveVersionDelete, Ack, RequestState
  <2>3. Tombstone(row[m.to], clock + 1) \in Row
    BY <1>a, <1>b, <1>d, <1>e, <2>1, TombstoneType
  <2>4. row' \in [Node -> Row] /\ seq' \in [Node -> Nat]
    BY <1>b, <1>d, <1>e, <1>11, <2>1, <2>3, StoreType DEF ReceiveVersionDelete
  <2> QED
    BY <1>11, <2>2, <2>4 DEF TypeOK, ReceiveVersionDelete
<1>12. ASSUME NEW n \in Node, NEW p \in Peers(n), FetchManifest(n, p) PROVE TypeOK'
  <2>1. pull' \in [Node -> PullState]
    BY <1>b, <1>e, <1>12 DEF FetchManifest, PullState, Peers
  <2> QED
    BY <1>12, <2>1 DEF TypeOK, FetchManifest
<1>13. ASSUME NEW n \in Node, ApplyManifest(n) PROVE TypeOK'
  <2>1. pull[n].row \in Row /\ pull[n].seq \in Nat
    BY <1>a, <1>b, <1>d, <1>e DEF PullState
  <2>2. row' \in [Node -> Row] /\ seq' \in [Node -> Nat]
    BY <1>b, <1>d, <1>e, <1>13, <2>1, ApplyType DEF ApplyManifest
  <2>3. pull' \in [Node -> PullState]
    BY <1>b, <1>e, <1>13, NoRowType DEF ApplyManifest, PullState, NoPull
  <2>4. hwm' \in [Node -> [Node -> Nat]]
    BY <1>b, <1>e, <1>13, <2>1 DEF ApplyManifest
  <2> QED
    BY <1>13, <2>2, <2>3, <2>4 DEF TypeOK, ApplyManifest
<1>14. ASSUME NEW n \in Node, RepairBlob(n) PROVE TypeOK'
  <2>1. disk' \in [Node -> SUBSET Blob]
    BY <1>b, <1>c, <1>14 DEF RepairBlob, Peers
  <2> QED
    BY <1>14, <2>1 DEF TypeOK, RepairBlob
<1>15. ASSUME NEW n \in Node, Restart(n) PROVE TypeOK'
  <2>1. req' \in [Request -> RequestState]
    BY <1>a, <1>15 DEF Restart, RequestState, Phase
  <2>2. pull' \in [Node -> PullState]
    BY <1>b, <1>e, <1>15, NoRowType DEF Restart, PullState, NoPull
  <2>3. hwm' \in [Node -> [Node -> Nat]]
    BY <1>b, <1>e, <1>15 DEF Restart
  <2> QED
    BY <1>15, <2>1, <2>2, <2>3, ParameterAssumption DEF TypeOK, Restart
<1>16. CASE UNCHANGED vars
  BY <1>16 DEF vars, TypeOK
<1>17. ASSUME NEW n \in Node, NEW i \in Lock \cup Recrypt, ReplicateLockChange(n, i) PROVE TypeOK'
  <2>1. req' \in [Request -> RequestState]
    BY <1>a, <1>17 DEF ReplicateLockChange, RequestState, Phase
  <2>2. msgs' \in SUBSET Message
    BY <1>b, <1>d, <1>17, FanOutType DEF ReplicateLockChange
  <2> QED
    BY <1>17, <2>1, <2>2 DEF TypeOK, ReplicateLockChange
<1> QED
  BY <1>1, <1>2, <1>3, <1>4, <1>5, <1>6, <1>7, <1>8, <1>9, <1>10, <1>11, <1>12,
     <1>13, <1>14, <1>15, <1>16, <1>17, ParameterAssumption
  DEF Next, Client, Finish, Deliver, AntiEntropy

\* Type correctness: a row, a request, a fan-out call, a cursor or a pull never
\* leaves its type, whichever requests overlap and whichever nodes restart.
THEOREM TypeCorrect == Spec => []TypeOK
<1> QED
  BY TypeInit, TypeStep, PTL DEF Spec
-----------------------------------------------------------------------------
(***************************************************************************)
(* The merge.  On coherent copies "a has nothing to learn from b" is a     *)
(* partial order and Resolve is an upper bound in it.                      *)
(***************************************************************************)

\* b carries nothing newer than a.
Below(b, a) ==
  \/ b.lm < a.lm
  \/ b.lm = a.lm /\ b.etag # a.etag /\ b.blob <= a.blob
  \/ b.lm = a.lm /\ b.etag = a.etag /\ b.lockAt <= a.lockAt /\ b.contentAt <= a.contentAt

LEMMA RowFields ==
  ASSUME NEW r \in Row
  PROVE  /\ r.lm \in Nat /\ r.etag \in Nat /\ r.blob \in Nat
         /\ r.contentAt \in Nat /\ r.lockAt \in Nat
         /\ r.hold \in BOOLEAN /\ r.dead \in BOOLEAN
  BY DEF Row

\* Rows with the same fields are the same row.
LEMMA RowEqual ==
  ASSUME NEW a \in Row, NEW b \in Row,
         a.lm = b.lm, a.etag = b.etag, a.blob = b.blob, a.contentAt = b.contentAt,
         a.lockAt = b.lockAt, a.hold = b.hold, a.dead = b.dead
  PROVE  a = b
  BY DEF Row

LEMMA WithFields ==
  ASSUME NEW r \in Row, NEW in \in Row
  PROVE  /\ WithLock(r, in).lm = r.lm /\ WithLock(r, in).etag = r.etag
         /\ WithLock(r, in).dead = r.dead
         /\ WithLock(r, in).hold = in.hold /\ WithLock(r, in).lockAt = in.lockAt
         /\ WithLock(r, in).blob = r.blob /\ WithLock(r, in).contentAt = r.contentAt
         /\ WithContent(r, in).lm = r.lm /\ WithContent(r, in).etag = r.etag
         /\ WithContent(r, in).dead = r.dead
         /\ WithContent(r, in).hold = r.hold /\ WithContent(r, in).lockAt = r.lockAt
         /\ WithContent(r, in).blob = in.blob /\ WithContent(r, in).contentAt = in.contentAt
  BY DEF WithLock, WithContent, Row

LEMMA MergeFields ==
  ASSUME NEW in \in Row, NEW local \in Row
  PROVE  LET m == MergeRegisters(in, local)
         IN /\ m \in Row
            /\ m.lm = local.lm /\ m.etag = local.etag /\ m.dead = local.dead
            /\ IF in.lockAt > local.lockAt
                 THEN m.lockAt = in.lockAt /\ m.hold = in.hold
                 ELSE m.lockAt = local.lockAt /\ m.hold = local.hold
            /\ IF in.contentAt > local.contentAt
                 THEN m.contentAt = in.contentAt /\ m.blob = in.blob
                 ELSE m.contentAt = local.contentAt /\ m.blob = local.blob
<1> DEFINE k == IF in.lockAt > local.lockAt THEN WithLock(local, in) ELSE local
           m == IF in.contentAt > local.contentAt THEN WithContent(k, in) ELSE k
<1>1. /\ k \in Row
      /\ k.lm = local.lm /\ k.etag = local.etag /\ k.dead = local.dead
      /\ k.blob = local.blob /\ k.contentAt = local.contentAt
      /\ IF in.lockAt > local.lockAt
           THEN k.lockAt = in.lockAt /\ k.hold = in.hold
           ELSE k.lockAt = local.lockAt /\ k.hold = local.hold
  BY WithType, WithFields
<1>2. MergeRegisters(in, local) = m
  BY DEF MergeRegisters
<1> HIDE DEF k
<1>3. m \in Row
  BY <1>1, WithType
<1> QED
  BY <1>1, <1>2, <1>3, WithFields

LEMMA AbsorbsIsBelow ==
  ASSUME NEW a \in Row, NEW b \in Row
  PROVE  Absorbs(a, b) <=> Below(b, a)
<1> DEFINE m == MergeRegisters(b, a)
<1>1. CASE b.lm # a.lm
  BY <1>1, RowFields DEF Absorbs, Resolve, Below
<1>2. CASE b.lm = a.lm /\ b.etag # a.etag
  BY <1>2, RowFields DEF Absorbs, Resolve, Below
<1>3. CASE b.lm = a.lm /\ b.etag = a.etag
  <2>1. Absorbs(a, b) <=> m = a
    BY <1>3 DEF Absorbs, Resolve
  <2>2. m = a <=> b.lockAt <= a.lockAt /\ b.contentAt <= a.contentAt
    <3> HIDE DEF m
    <3>1. ASSUME m = a PROVE b.lockAt <= a.lockAt /\ b.contentAt <= a.contentAt
      BY <3>1, MergeFields, RowFields DEF m
    <3>2. ASSUME b.lockAt <= a.lockAt, b.contentAt <= a.contentAt PROVE m = a
      <4>1. /\ m \in Row /\ m.lm = a.lm /\ m.etag = a.etag /\ m.dead = a.dead
            /\ m.lockAt = a.lockAt /\ m.hold = a.hold
            /\ m.contentAt = a.contentAt /\ m.blob = a.blob
        BY <3>2, MergeFields, RowFields DEF m
      <4> QED
        BY <4>1, RowEqual
    <3> QED
      BY <3>1, <3>2
  <2> QED
    BY <1>3, <2>1, <2>2, RowFields DEF Below
<1> QED
  BY <1>1, <1>2, <1>3

LEMMA AbsorbsItself ==
  ASSUME NEW a \in Row
  PROVE  Absorbs(a, a)
<1>1. Below(a, a)
  BY RowFields DEF Below
<1> QED
  BY <1>1, AbsorbsIsBelow

\* Two copies that have nothing to learn from each other are equal.
LEMMA AbsorbsAntisymmetric ==
  ASSUME SameInstant => Recrypt = {},
         NEW a \in Row, NEW b \in Row, Coherent(a, b), Undisturbed(a), Undisturbed(b),
         Absorbs(a, b), Absorbs(b, a)
  PROVE  a = b
<1>1. Below(b, a) /\ Below(a, b)
  BY AbsorbsIsBelow
<1>2. a.lm = b.lm
  BY <1>1, RowFields DEF Below
<1>3. a.etag = b.etag
  BY <1>1, <1>2, RowFields DEF Below, Coherent, Undisturbed
<1>4. a.lockAt = b.lockAt /\ a.contentAt = b.contentAt
  BY <1>1, <1>2, <1>3, RowFields DEF Below
<1> QED
  BY <1>2, <1>3, <1>4, RowEqual DEF Coherent

\* What a copy has absorbed stays absorbed by every copy above it.
LEMMA AbsorbsTransitive ==
  ASSUME SameInstant => Recrypt = {},
         NEW a \in Row, NEW b \in Row, NEW c \in Row,
         Coherent(a, b), Coherent(b, c), Coherent(a, c),
         Undisturbed(a), Undisturbed(b), Undisturbed(c),
         Absorbs(c, b), Absorbs(b, a)
  PROVE  Absorbs(c, a)
<1>1. Below(b, c) /\ Below(a, b)
  BY AbsorbsIsBelow
<1>2. Below(a, c)
  BY <1>1, RowFields DEF Below, Coherent, Undisturbed
<1> QED
  BY <1>2, AbsorbsIsBelow

\* The merge of two copies is above both.
LEMMA ResolveIsAbove ==
  ASSUME NEW in \in Row, NEW local \in Row, Coherent(in, local),
         Undisturbed(in), Undisturbed(local)
  PROVE  Absorbs(Resolve(in, local), in) /\ Absorbs(Resolve(in, local), local)
<1> DEFINE r == Resolve(in, local)
<1>1. r \in Row
  BY ResolveType
<1>2. Below(in, r) /\ Below(local, r)
  <2>1. CASE in.lm = local.lm /\ in.etag = local.etag
    BY <2>1, MergeFields, RowFields DEF Resolve, Below
  <2>2. CASE in.lm # local.lm \/ in.etag # local.etag
    BY <2>2, RowFields DEF Resolve, Below
  <2> QED
    BY <2>1, <2>2
<1> QED
  BY <1>1, <1>2, AbsorbsIsBelow

\* The merge of two copies agrees with every copy that agreed with both.
LEMMA ResolveIsCoherent ==
  ASSUME NEW in \in Row, NEW local \in Row, Coherent(in, local),
         NEW x \in Row, Coherent(x, in), Coherent(x, local)
  PROVE  Coherent(x, Resolve(in, local)) /\ Coherent(Resolve(in, local), x)
<1>1. CASE in.lm = local.lm /\ in.etag = local.etag
  <2> DEFINE m == MergeRegisters(in, local)
  <2>1. Resolve(in, local) = m
    BY <1>1 DEF Resolve
  <2> HIDE DEF m
  <2>2. m.lm = local.lm /\ m.etag = local.etag /\ m.dead = local.dead
    BY MergeFields DEF m
  <2>3. \/ m.lockAt = in.lockAt /\ m.hold = in.hold
        \/ m.lockAt = local.lockAt /\ m.hold = local.hold
    BY MergeFields DEF m
  <2>4. \/ m.contentAt = in.contentAt /\ m.blob = in.blob
        \/ m.contentAt = local.contentAt /\ m.blob = local.blob
    BY MergeFields DEF m
  <2> QED
    BY <1>1, <2>1, <2>2, <2>3, <2>4, RowFields DEF Coherent, Live
<1>2. CASE in.lm # local.lm \/ in.etag # local.etag
  BY <1>2, RowFields DEF Resolve, Coherent, Live
<1> QED
  BY <1>1, <1>2

LEMMA ResolveFields ==
  ASSUME NEW in \in Row, NEW local \in Row, Coherent(in, local)
  PROVE  LET r == Resolve(in, local)
         IN /\ Stamped(in) /\ Stamped(local) /\ clock \in Nat => Stamped(r)
            /\ Undisturbed(in) /\ Undisturbed(local) => Undisturbed(r)
            /\ r.etag \in {in.etag, local.etag}
            /\ \A t \in Nat : (in.lm = t => Live(in)) /\ (local.lm = t => Live(local))
                              => (r.lm = t => Live(r))
<1>1. CASE in.lm = local.lm /\ in.etag = local.etag
  <2> DEFINE m == MergeRegisters(in, local)
  <2>1. Resolve(in, local) = m
    BY <1>1 DEF Resolve
  <2> HIDE DEF m
  <2>2. m \in Row /\ m.lm = local.lm /\ m.etag = local.etag /\ m.dead = local.dead
    BY MergeFields DEF m
  <2>3. \/ m.lockAt = in.lockAt /\ m.hold = in.hold
        \/ m.lockAt = local.lockAt /\ m.hold = local.hold
    BY MergeFields DEF m
  <2>4. \/ m.contentAt = in.contentAt /\ m.blob = in.blob
        \/ m.contentAt = local.contentAt /\ m.blob = local.blob
    BY MergeFields DEF m
  <2>5. Stamped(in) /\ Stamped(local) /\ clock \in Nat => Stamped(m)
    <3> SUFFICES ASSUME Stamped(in), Stamped(local), clock \in Nat PROVE Stamped(m)
      OBVIOUS
    <3>1. m.lm <= clock /\ m.lockAt <= clock /\ m.contentAt <= clock
      BY <2>2, <2>3, <2>4 DEF Stamped
    <3>2. ASSUME m.lm = 0 PROVE m = NoRow
      <4>1. in = NoRow /\ local = NoRow
        BY <1>1, <2>2, <3>2 DEF Stamped
      <4> QED
        BY <2>2, <2>3, <2>4, <4>1, RowEqual
    <3> QED
      BY <3>1, <3>2 DEF Stamped
  <2>6. Undisturbed(in) /\ Undisturbed(local) => Undisturbed(m)
    BY <1>1, <2>2, <2>4 DEF Undisturbed, Coherent, Live
  <2> QED
    BY <1>1, <2>1, <2>2, <2>5, <2>6 DEF Live
<1>2. CASE in.lm # local.lm \/ in.etag # local.etag
  BY <1>2 DEF Resolve
<1> QED
  BY <1>1, <1>2
-----------------------------------------------------------------------------
(***************************************************************************)
(* The copies.  Every action adds at most one new row to the copies of the *)
(* row; the lemmas of this section say what that row must satisfy.         *)
(***************************************************************************)
LEMMA CopiesType == TypeOK => Copies \subseteq Row
  BY NoRowType DEF TypeOK, Copies, Message, PullState

LEMMA CopiesHave ==
  /\ NoRow \in Copies
  /\ \A n \in Node : row[n] \in Copies /\ pull[n].row \in Copies
  /\ \A m \in msgs : m.row \in Copies
  BY DEF Copies

\* The new row fits the copies there are and the PUTs still to come.
Fits(N) ==
  /\ N \in Row
  /\ N.lm # 0 /\ N.lm <= clock' /\ N.lockAt <= clock' /\ N.contentAt <= clock'
  /\ Undisturbed(N)
  /\ \A x \in Copies : Coherent(x, N) /\ Coherent(N, x)
  /\ \A i \in Put : req[i].phase \in {"idle", "open"} /\ req'[i].phase \in {"idle", "open"}
                     => /\ N.etag # i
                        /\ req[i].phase = "open" /\ N.lm = req[i].lm => SameInstant /\ Live(N)

\* No PUT starts or takes a stamp in this step.
PutsQuiet == \A i \in Put : req'[i].phase \in {"idle", "open"} => req'[i] = req[i]

LEMMA NewCopyLineage ==
  ASSUME TypeOK, TypeOK', Lineage, clock' >= clock, PutsQuiet, NEW N, Fits(N),
         Copies' \subseteq Copies \cup {N}
  PROVE  Lineage'
<1> USE DEF TypeOK
<1>1. \A r \in Copies' : Stamped(r)' /\ Undisturbed(r)'
  <2> SUFFICES ASSUME NEW r \in Copies' PROVE Stamped(r)' /\ Undisturbed(r)'
    OBVIOUS
  <2>1. CASE r \in Copies
    <3>1. Stamped(r) /\ Undisturbed(r) /\ r \in Row
      BY <2>1, CopiesType DEF Lineage
    <3> QED
      BY <3>1, RowFields DEF Stamped, Undisturbed
  <2>2. CASE r = N
    BY <2>2 DEF Fits, Stamped, Undisturbed
  <2> QED
    BY <2>1, <2>2
<1>2. \A a, b \in Copies' : Coherent(a, b)'
  <2> SUFFICES ASSUME NEW a \in Copies', NEW b \in Copies' PROVE Coherent(a, b)
    BY DEF Coherent
  <2>1. CASE a \in Copies /\ b \in Copies
    BY <2>1 DEF Lineage
  <2>2. CASE a = N /\ b = N
    BY <2>2 DEF Coherent
  <2> QED
    BY <2>1, <2>2 DEF Fits
<1>3. ASSUME NEW i \in Put PROVE PutIsNew(i)'
  <2> SUFFICES ASSUME req'[i].phase \in {"idle", "open"} PROVE PutIsNew(i)'
    BY DEF PutIsNew
  <2>1. req'[i] = req[i] /\ PutIsNew(i)
    BY <1>3 DEF PutsQuiet, Lineage
  <2>2. \A r \in Copies' : r.etag # i
    BY <2>1 DEF Fits, PutIsNew
  <2>3. ASSUME req'[i].phase = "open"
        PROVE  /\ req'[i].lm \in 1 .. clock'
               /\ \A r \in Copies' : r.lm = req'[i].lm => SameInstant /\ Live(r)
               /\ \A j \in Put \ {i} : req'[j].phase = "open" /\ req'[j].lm = req'[i].lm
                                         => SameInstant
    <3>1. req'[i].lm \in 1 .. clock'
      BY <2>1, <2>3 DEF PutIsNew
    <3>2. \A r \in Copies' : r.lm = req'[i].lm => SameInstant /\ Live(r)
      BY <2>1, <2>3 DEF PutIsNew, Fits
    <3>3. \A j \in Put \ {i} : req'[j].phase = "open" /\ req'[j].lm = req'[i].lm => SameInstant
      BY <2>1, <2>3 DEF PutIsNew, PutsQuiet
    <3> QED
      BY <3>1, <3>2, <3>3
  <2> QED
    BY <2>2, <2>3 DEF PutIsNew, Live
<1> QED
  BY <1>1, <1>2, <1>3 DEF Lineage

LEMMA NoNewCopyLineage ==
  ASSUME TypeOK, TypeOK', Lineage, clock' >= clock, PutsQuiet, Copies' \subseteq Copies
  PROVE  Lineage'
<1> USE DEF TypeOK
<1>1. \A r \in Copies' : Stamped(r)' /\ Undisturbed(r)'
  <2> SUFFICES ASSUME NEW r \in Copies' PROVE Stamped(r)' /\ Undisturbed(r)'
    OBVIOUS
  <2>1. Stamped(r) /\ Undisturbed(r) /\ r \in Row
    BY CopiesType DEF Lineage
  <2> QED
    BY <2>1, RowFields DEF Stamped, Undisturbed
<1>2. \A a, b \in Copies' : Coherent(a, b)'
  BY DEF Lineage, Coherent
<1>3. ASSUME NEW i \in Put PROVE PutIsNew(i)'
  <2> SUFFICES ASSUME req'[i].phase \in {"idle", "open"} PROVE PutIsNew(i)'
    BY DEF PutIsNew
  <2>1. req'[i] = req[i] /\ PutIsNew(i)
    BY <1>3 DEF PutsQuiet, Lineage
  <2>2. \A j \in Put \ {i} : req'[j].phase = "open" => req[j].phase = "open" /\ req'[j].lm = req[j].lm
    BY DEF PutsQuiet
  <2> QED
    BY <2>1, <2>2 DEF PutIsNew, Live
<1> QED
  BY <1>1, <1>2, <1>3 DEF Lineage
\* Where the copies of the next state come from.
LEMMA CopiesStep ==
  ASSUME NEW N,
         \A k \in Node : row'[k] \in Copies \cup {N},
         \A m \in msgs' : m.row \in Copies \cup {N},
         \A k \in Node : pull'[k].row \in Copies \cup {N}
  PROVE  Copies' \subseteq Copies \cup {N}
  BY DEF Copies

\* A local write of node n: the row is stored and fanned out, or only stored.
LEMMA StoreCopies ==
  ASSUME TypeOK, NEW n \in Node, NEW N, Store(n, N), UNCHANGED pull,
         \A m \in msgs' : m \in msgs \/ m.row \in {N, NoRow}
  PROVE  Copies' \subseteq Copies \cup {N}
<1>1. \A k \in Node : row'[k] \in Copies \cup {N}
  BY CopiesHave DEF TypeOK, Store
<1>2. \A m \in msgs' : m.row \in Copies \cup {N}
  BY CopiesHave
<1>3. \A k \in Node : pull'[k].row \in Copies \cup {N}
  BY CopiesHave
<1> QED
  BY <1>1, <1>2, <1>3, CopiesStep

LEMMA FanOutMessages ==
  ASSUME NEW n, NEW i, NEW r, NEW kind, FanOut(kind, i, n, r)
  PROVE  \A m \in msgs' : m \in msgs \/ m.row = r
  BY DEF FanOut

\* A row stamped now fits: no copy has its timestamp yet.
LEMMA FreshFits ==
  ASSUME TypeOK, Lineage, clock' = clock + 1, NEW n \in Node,
         NEW N \in Row, N.lm = clock + 1, N.etag = row[n].etag, ~Live(N),
         N.lockAt = row[n].lockAt, N.contentAt = row[n].contentAt
  PROVE  Fits(N)
<1> USE DEF TypeOK
<1>1. \A x \in Copies : x \in Row /\ Stamped(x)
  BY CopiesType DEF Lineage
<1>2. \A x \in Copies : Coherent(x, N) /\ Coherent(N, x)
  BY <1>1, RowFields DEF Stamped, Coherent
<1>3. row[n] \in Copies
  BY CopiesHave
<1>4. Stamped(row[n]) /\ row[n] \in Row
  BY <1>1, <1>3
<1>5. N.lm # 0 /\ N.lm <= clock' /\ N.lockAt <= clock' /\ N.contentAt <= clock'
  BY <1>4, RowFields DEF Stamped
<1>6. ASSUME NEW i \in Put, req[i].phase \in {"idle", "open"}
      PROVE  N.etag # i /\ (req[i].phase = "open" => N.lm # req[i].lm)
  BY <1>3, <1>6 DEF Lineage, PutIsNew
<1> QED
  BY <1>2, <1>5, <1>6 DEF Fits, Undisturbed

LEMMA TombstoneFits ==
  ASSUME TypeOK, Lineage, clock' = clock + 1, NEW n \in Node
  PROVE  Fits(Tombstone(row[n], clock + 1))
<1> DEFINE N == Tombstone(row[n], clock + 1)
<1>1. row[n] \in Row /\ clock \in Nat
  BY DEF TypeOK
<1>2. N \in Row
  BY <1>1, TombstoneType
<1>3. /\ N.lm = clock + 1 /\ N.etag = row[n].etag /\ N.dead = TRUE
      /\ N.lockAt = row[n].lockAt /\ N.contentAt = row[n].contentAt
  BY <1>1 DEF Tombstone, Row
<1> HIDE DEF N
<1> QED
  BY <1>2, <1>3, FreshFits DEF N, Live

LEMMA PutFits ==
  ASSUME TypeOK, Lineage, UNCHANGED clock, NEW i \in Put, req[i].phase = "open",
         req'[i].phase = "fanout"
  PROVE  Fits(PutRow(i, req[i].lm))
<1> DEFINE N == PutRow(i, req[i].lm)
<1>1. clock \in Nat /\ i \in Nat /\ req[i].lm \in 1 .. clock
  BY RequestTypes DEF TypeOK, Lineage, PutIsNew
<1>2. N \in Row
  BY <1>1, PutRowType
<1>3. /\ N.lm = req[i].lm /\ N.etag = i /\ N.blob = i /\ N.dead = FALSE
      /\ N.lockAt = 0 /\ N.contentAt = 0
  BY DEF PutRow
<1> HIDE DEF N
<1>4. \A x \in Copies : Coherent(x, N) /\ Coherent(N, x)
  BY <1>3 DEF Lineage, PutIsNew, Coherent, Live
<1>5. ASSUME NEW j \in Put, req[j].phase \in {"idle", "open"}, req'[j].phase \in {"idle", "open"}
      PROVE  N.etag # j /\ (req[j].phase = "open" /\ N.lm = req[j].lm => SameInstant /\ Live(N))
  BY <1>3, <1>5 DEF Lineage, PutIsNew, Live
<1>6. N.lm # 0 /\ N.lm <= clock' /\ N.lockAt <= clock' /\ N.contentAt <= clock'
  BY <1>1, <1>3
<1> QED
  BY <1>2, <1>3, <1>4, <1>5, <1>6 DEF Fits, Undisturbed, N

\* An in-place change of row[n] fits: its register has a timestamp of its own.
LEMMA InPlaceFits ==
  ASSUME TypeOK, Lineage, clock' = clock + 1, NEW n \in Node, Live(row[n]), row[n].lm # 0,
         NEW N \in Row, N.lm = row[n].lm, N.etag = row[n].etag, N.dead = row[n].dead,
         \/ /\ N.lockAt = clock + 1
            /\ N.blob = row[n].blob /\ N.contentAt = row[n].contentAt
         \/ /\ N.contentAt = clock + 1 /\ Recrypt # {}
            /\ N.hold = row[n].hold /\ N.lockAt = row[n].lockAt
  PROVE  Fits(N)
<1> USE DEF TypeOK
<1>1. \A x \in Copies : x \in Row /\ Stamped(x) /\ Coherent(x, row[n]) /\ Coherent(row[n], x)
  BY CopiesType, CopiesHave DEF Lineage
<1>2. ASSUME NEW x \in Copies PROVE Coherent(x, N) /\ Coherent(N, x)
  <2>1. x.lockAt \in Nat /\ x.lockAt <= clock /\ x.contentAt \in Nat /\ x.contentAt <= clock
    BY <1>1, RowFields DEF Stamped
  <2>2. Coherent(x, row[n]) /\ Coherent(row[n], x)
    BY <1>1
  <2> QED
    BY <2>1, <2>2 DEF Coherent, Live
<1>3. Stamped(row[n]) /\ Undisturbed(row[n]) /\ row[n] \in Row /\ row[n] \in Copies
  BY <1>1, CopiesHave DEF Lineage
<1>4. N.lm <= clock' /\ N.lockAt <= clock' /\ N.contentAt <= clock'
  BY <1>3, RowFields DEF Stamped
<1>5. Undisturbed(N)
  BY <1>3 DEF Undisturbed, Live
<1>6. ASSUME NEW i \in Put, req[i].phase \in {"idle", "open"}
      PROVE  N.etag # i /\ (req[i].phase = "open" /\ N.lm = req[i].lm => SameInstant /\ Live(N))
  BY <1>3, <1>6 DEF Lineage, PutIsNew, Live
<1> QED
  BY <1>2, <1>4, <1>5, <1>6 DEF Fits

\* A merged row fits.
LEMMA ResolveFits ==
  ASSUME TypeOK, Lineage, clock' = clock, NEW n \in Node, NEW in \in Copies,
         ~Absorbs(row[n], in)
  PROVE  Fits(Resolve(in, row[n]))
<1> DEFINE N == Resolve(in, row[n])
<1> USE DEF TypeOK
<1>1. /\ in \in Row /\ row[n] \in Row /\ row[n] \in Copies /\ clock \in Nat
      /\ Coherent(in, row[n]) /\ Stamped(in) /\ Stamped(row[n])
      /\ Undisturbed(in) /\ Undisturbed(row[n])
  BY CopiesType, CopiesHave DEF Lineage
<1>2. N \in Row
  BY <1>1, ResolveType
<1>3. Stamped(N) /\ Undisturbed(N) /\ N.etag \in {in.etag, row[n].etag}
  BY <1>1, ResolveFields
<1>4. ASSUME NEW x \in Copies PROVE Coherent(x, N) /\ Coherent(N, x)
  <2>1. x \in Row /\ Coherent(x, in) /\ Coherent(x, row[n])
    BY <1>1, CopiesType DEF Lineage
  <2> QED
    BY <1>1, <2>1, ResolveIsCoherent
<1>5. N.lm # 0
  <2> SUFFICES ASSUME N.lm = 0 PROVE FALSE
    OBVIOUS
  <2>1. Absorbs(N, in) /\ Absorbs(N, row[n])
    BY <1>1, ResolveIsAbove
  <2>2. Below(in, N) /\ Below(row[n], N)
    BY <1>1, <1>2, <2>1, AbsorbsIsBelow
  <2>3. in.lm = 0 /\ row[n].lm = 0
    BY <1>1, <1>2, <2>2, RowFields DEF Below
  <2>4. in = row[n]
    BY <1>1, <2>3 DEF Stamped
  <2> QED
    BY <1>1, <2>4, AbsorbsItself
<1>6. ASSUME NEW i \in Put, req[i].phase \in {"idle", "open"}
      PROVE  N.etag # i /\ (req[i].phase = "open" /\ N.lm = req[i].lm => SameInstant /\ Live(N))
  <2>1. N.etag # i
    BY <1>1, <1>3, <1>6 DEF Lineage, PutIsNew
  <2>2. ASSUME req[i].phase = "open", N.lm = req[i].lm PROVE SameInstant /\ Live(N)
    <3>1. N.lm \in Nat /\ N.lm \in {in.lm, row[n].lm}
      BY <1>1, <1>2, RowFields, MergeFields DEF Resolve
    <3>2. in.lm = N.lm => SameInstant /\ Live(in)
      BY <2>2, <1>6 DEF Lineage, PutIsNew
    <3>3. row[n].lm = N.lm => SameInstant /\ Live(row[n])
      BY <2>2, <1>1, <1>6 DEF Lineage, PutIsNew
    <3>4. Live(N)
      BY <1>1, <3>1, <3>2, <3>3, ResolveFields
    <3> QED
      BY <3>1, <3>2, <3>3, <3>4
  <2> QED
    BY <2>1, <2>2
<1> HIDE DEF N
<1>7. Fits(N)
  BY <1>2, <1>3, <1>4, <1>5, <1>6 DEF Fits, Stamped
<1> QED
  BY <1>7 DEF N
-----------------------------------------------------------------------------
(***************************************************************************)
(* Lineage is inductive.                                                   *)
(***************************************************************************)
LEMMA LineageInit == Init => Lineage
<1> SUFFICES ASSUME Init PROVE Lineage
  OBVIOUS
<1>1. Copies = {NoRow}
  BY DEF Init, Copies, NoPull
<1>2. NoRow.lm = 0 /\ NoRow.etag = 0 /\ NoRow.lockAt = 0 /\ NoRow.contentAt = 0 /\ NoRow.dead
  BY DEF NoRow
<1>3. Stamped(NoRow) /\ Undisturbed(NoRow) /\ Coherent(NoRow, NoRow)
  BY <1>2 DEF Init, Stamped, Undisturbed, Coherent, Live
<1>4. \A i \in Put : PutIsNew(i)
  BY <1>1, <1>2, RequestTypes DEF Init, PutIsNew
<1> QED
  BY <1>1, <1>3, <1>4 DEF Lineage

LEMMA PutUploadLineage ==
  ASSUME TypeOK, TypeOK', Lineage, NEW n \in Node, NEW i \in Put, PutUpload(n, i)
  PROVE  Lineage'
<1> USE DEF TypeOK
<1>1. PICK t \in PutStamps(n) :
        /\ clock' = t
        /\ req' = [req EXCEPT ![i].phase = "open", ![i].node = n, ![i].lm = t]
  BY DEF PutUpload
<1>2. req[i].phase = "idle" /\ Copies' = Copies
  BY DEF PutUpload, Copies
<1>3. /\ t \in Nat /\ t >= clock /\ t >= 1
      /\ \A r \in Copies : r.lm = t => SameInstant /\ Live(r)
      /\ \A j \in Put : req[j].phase = "open" /\ req[j].lm = t => SameInstant
  <2>1. CASE t = clock + 1
    <3>1. \A r \in Copies : r.lm # t
      BY <2>1, CopiesType, RowFields DEF Lineage, Stamped
    <3>2. \A j \in Put : req[j].phase = "open" => req[j].lm # t
      BY <2>1 DEF Lineage, PutIsNew
    <3> QED
      BY <2>1, <3>1, <3>2
  <2>2. CASE t = clock /\ SameInstant /\ \E j \in Put : req[j].phase = "open" /\ req[j].lm = t
    <3>1. PICK j \in Put : req[j].phase = "open" /\ req[j].lm = t
      BY <2>2
    <3>2. t >= 1 /\ \A r \in Copies : r.lm = t => SameInstant /\ Live(r)
      BY <3>1, <2>2 DEF Lineage, PutIsNew
    <3> QED
      BY <2>2, <3>2
  <2> QED
    BY <2>1, <2>2 DEF PutStamps
<1>4. /\ req'[i].phase = "open" /\ req'[i].lm = t
      /\ \A j \in Put : j # i => req'[j] = req[j]
  BY <1>1, RequestTypes DEF RequestState
<1>5. \A r \in Copies' : Stamped(r)' /\ Undisturbed(r)'
  <2> SUFFICES ASSUME NEW r \in Copies PROVE Stamped(r)' /\ Undisturbed(r)'
    BY <1>2
  <2>1. Stamped(r) /\ Undisturbed(r) /\ r \in Row
    BY CopiesType DEF Lineage
  <2> QED
    BY <1>1, <1>3, <2>1, RowFields DEF Stamped, Undisturbed
<1>6. \A a, b \in Copies' : Coherent(a, b)'
  BY <1>2 DEF Lineage, Coherent
<1>7. PutIsNew(i)'
  <2>1. \A r \in Copies' : r.etag # i /\ (r.lm = t => SameInstant /\ Live(r))
    BY <1>2, <1>3 DEF Lineage, PutIsNew
  <2>2. t \in 1 .. clock'
    BY <1>1, <1>3
  <2>3. \A j \in Put \ {i} : req'[j].phase = "open" /\ req'[j].lm = t => SameInstant
    BY <1>3, <1>4
  <2> QED
    BY <1>4, <2>1, <2>2, <2>3 DEF PutIsNew, Live
<1>8. ASSUME NEW k \in Put, k # i PROVE PutIsNew(k)'
  <2>1. req'[k] = req[k] /\ PutIsNew(k)
    BY <1>4, <1>8 DEF Lineage
  <2>2. req[k].phase = "open" => req[k].lm \in 1 .. clock'
    BY <1>1, <1>3, <2>1 DEF PutIsNew
  <2>3. ASSUME NEW j \in Put \ {k}, req[k].phase = "open", req'[j].phase = "open",
               req'[j].lm = req[k].lm
        PROVE  SameInstant
    BY <1>3, <1>4, <2>1, <2>3 DEF PutIsNew
  <2> QED
    BY <1>2, <2>1, <2>2, <2>3 DEF PutIsNew
<1> QED
  BY <1>5, <1>6, <1>7, <1>8 DEF Lineage

\* Only PutUpload and PutCommit touch a PUT that is not committed yet, and a
\* PutCommit ends that phase.
LEMMA QuietSteps ==
  ASSUME TypeOK, NEW i \in Request,
         \A j \in Request : j # i => req'[j] = req[j],
         i \in Put => req'[i] = req[i] \/ req'[i].phase \notin {"idle", "open"}
  PROVE  PutsQuiet
  BY RequestTypes DEF PutsQuiet

LEMMA ApplyLineage ==
  ASSUME TypeOK, TypeOK', Lineage, NEW n \in Node, NEW r \in Copies, ApplyRemoteObject(n, r),
         clock' = clock, msgs' \subseteq msgs, PutsQuiet,
         \A k \in Node : pull'[k].row \in Copies
  PROVE  Lineage'
<1> DEFINE N == Resolve(r, row[n])
<1>0. clock' >= clock
  BY DEF TypeOK
<1>1. CASE Absorbs(row[n], r)
  <2>1. row' = row
    BY <1>1 DEF ApplyRemoteObject
  <2>2. Copies' \subseteq Copies
    BY <2>1, CopiesHave DEF Copies
  <2> QED
    BY <1>0, <2>2, NoNewCopyLineage
<1>2. CASE ~Absorbs(row[n], r)
  <2>1. Fits(N)
    BY <1>2, ResolveFits
  <2>2. \A k \in Node : row'[k] \in Copies \cup {N}
    BY <1>2, CopiesHave DEF ApplyRemoteObject, Store, TypeOK
  <2> HIDE DEF N
  <2>3. Copies' \subseteq Copies \cup {N}
    BY <2>2, CopiesStep, CopiesHave
  <2> QED
    BY <1>0, <2>1, <2>3, NewCopyLineage
<1> QED
  BY <1>1, <1>2

LEMMA LineageStep ==
  ASSUME TypeOK, TypeOK', Lineage, [Next]_vars
  PROVE  Lineage'
<1> USE RequestTypes
<1>a. clock \in Nat /\ clock' \in Nat /\ req \in [Request -> RequestState]
  BY DEF TypeOK
<1>b. ASSUME NEW n \in Node, Live(row[n]) PROVE row[n].lm # 0
  <2>1. Stamped(row[n]) /\ NoRow.dead
    BY CopiesHave DEF Lineage, NoRow
  <2> QED
    BY <1>b, <2>1 DEF Stamped, Live
<1>1. ASSUME NEW n \in Node, NEW i \in Put, PutUpload(n, i) PROVE Lineage'
  BY <1>1, PutUploadLineage
<1>2. ASSUME NEW n \in Node, NEW i \in Put, PutCommit(n, i) PROVE Lineage'
  <2> DEFINE N == PutRow(i, req[i].lm)
  <2>1. req'[i].phase = "fanout" /\ \A j \in Request : j # i => req'[j] = req[j]
    BY <1>a, <1>2 DEF PutCommit, RequestState
  <2>2. Fits(N) /\ PutsQuiet
    BY <1>2, <2>1, PutFits, QuietSteps DEF PutCommit
  <2>3. Copies' \subseteq Copies \cup {N}
    BY <1>2, StoreCopies, FanOutMessages DEF PutCommit
  <2> HIDE DEF N
  <2> QED
    BY <1>a, <1>2, <2>2, <2>3, NewCopyLineage DEF PutCommit
<1>3. ASSUME NEW n \in Node, NEW i \in Delete, DeleteCheck(n, i) PROVE Lineage'
  <2>1. i \notin Put /\ \A j \in Request : j # i => req'[j] = req[j]
    BY <1>a, <1>3, RequestAssumption DEF DeleteCheck
  <2>2. PutsQuiet /\ Copies' = Copies
    BY <1>3, <2>1, QuietSteps DEF DeleteCheck, Copies
  <2> QED
    BY <1>a, <1>3, <2>2, NoNewCopyLineage DEF DeleteCheck
<1>4. ASSUME NEW n \in Node, NEW i \in Delete, DeleteCommit(n, i) PROVE Lineage'
  <2>1. i \notin Put /\ \A j \in Request : j # i => req'[j] = req[j]
    BY <1>a, <1>4, RequestAssumption DEF DeleteCommit
  <2>2. PutsQuiet
    BY <2>1, QuietSteps
  <2>3. CASE Live(row[n])
    <3> DEFINE N == Tombstone(row[n], clock + 1)
    <3>1. Fits(N)
      BY <1>4, <2>3, TombstoneFits DEF DeleteCommit
    <3>2. \A m \in msgs' : m \in msgs \/ m.row \in {N, NoRow}
      BY <1>4, <2>3, FanOutMessages DEF DeleteCommit
    <3>3. Copies' \subseteq Copies \cup {N}
      BY <1>4, <2>3, <3>2, StoreCopies DEF DeleteCommit
    <3> HIDE DEF N
    <3> QED
      BY <1>a, <1>4, <2>2, <2>3, <3>1, <3>3, NewCopyLineage DEF DeleteCommit
  <2>4. CASE ~Live(row[n])
    <3>1. Copies' = Copies /\ clock' = clock
      BY <1>4, <2>4 DEF DeleteCommit, Copies
    <3> QED
      BY <1>a, <2>2, <3>1, NoNewCopyLineage
  <2> QED
    BY <2>3, <2>4
<1>5. ASSUME NEW i \in Put \cup Delete, Answer(i) PROVE Lineage'
  <2>1. \A j \in Request : j # i => req'[j] = req[j]
    BY <1>a, <1>5 DEF Answer
  <2>2. req'[i].phase \notin {"idle", "open"}
    BY <1>a, <1>5 DEF Answer, RequestState
  <2>3. PutsQuiet /\ Copies' = Copies
    BY <1>5, <2>1, <2>2, QuietSteps DEF Answer, Copies
  <2> QED
    BY <1>a, <1>5, <2>3, NoNewCopyLineage DEF Answer
<1>6. ASSUME NEW i \in Put \cup Delete, DeleteOldBlob(i) PROVE Lineage'
  <2>1. \A j \in Request : j # i => req'[j] = req[j]
    BY <1>a, <1>6 DEF DeleteOldBlob
  <2>2. req'[i].phase \notin {"idle", "open"}
    BY <1>a, <1>6 DEF DeleteOldBlob, RequestState
  <2>3. PutsQuiet /\ Copies' = Copies
    BY <1>6, <2>1, <2>2, QuietSteps DEF DeleteOldBlob, Copies
  <2> QED
    BY <1>a, <1>6, <2>3, NoNewCopyLineage DEF DeleteOldBlob
<1>7. ASSUME NEW n \in Node, NEW i \in Lock, SetLegalHold(n, i) PROVE Lineage'
  <2>1. PICK h \in BOOLEAN : Store(n, SetHold(row[n], h, clock + 1))
    BY <1>7 DEF SetLegalHold
  <2> DEFINE N == SetHold(row[n], h, clock + 1)
  <2>2. row[n] \in Row /\ N \in Row
    BY <1>a, InPlaceType DEF TypeOK
  <2>3. /\ N.lm = row[n].lm /\ N.etag = row[n].etag /\ N.dead = row[n].dead
        /\ N.lockAt = clock + 1 /\ N.blob = row[n].blob /\ N.contentAt = row[n].contentAt
    BY <2>2 DEF SetHold, Row
  <2> HIDE DEF N
  <2>4. Fits(N)
    BY <1>7, <1>b, <2>2, <2>3, InPlaceFits DEF SetLegalHold
  <2>5. i \notin Put /\ \A j \in Request : j # i => req'[j] = req[j]
    BY <1>a, <1>7, RequestAssumption DEF SetLegalHold
  <2>6. PutsQuiet
    BY <2>5, QuietSteps
  <2>7. Copies' \subseteq Copies \cup {N}
    BY <1>7, <2>1, StoreCopies DEF SetLegalHold, N
  <2> QED
    BY <1>a, <1>7, <2>4, <2>6, <2>7, NewCopyLineage DEF SetLegalHold
<1>8. ASSUME NEW n \in Node, NEW i \in Recrypt, RecryptUpload(n, i) PROVE Lineage'
  <2>1. i \notin Put /\ \A j \in Request : j # i => req'[j] = req[j]
    BY <1>a, <1>8, RequestAssumption DEF RecryptUpload
  <2>2. PutsQuiet
    BY <2>1, QuietSteps
  <2>3. Copies' = Copies /\ clock' = clock
    BY <1>8 DEF RecryptUpload, Copies
  <2> QED
    BY <1>a, <2>2, <2>3, NoNewCopyLineage
<1>9. ASSUME NEW n \in Node, NEW i \in Recrypt, RecryptCommit(n, i) PROVE Lineage'
  <2>1. i \notin Put /\ \A j \in Request : j # i => req'[j] = req[j]
    BY <1>a, <1>9, RequestAssumption DEF RecryptCommit
  <2>2. PutsQuiet
    BY <2>1, QuietSteps
  <2>3. CASE Live(row[n]) /\ row[n].blob = req[i].old
    <3> DEFINE N == SwapBlob(row[n], i, clock + 1)
    <3>1. row[n] \in Row /\ N \in Row
      BY <1>a, InPlaceType DEF TypeOK
    <3>2. /\ N.lm = row[n].lm /\ N.etag = row[n].etag /\ N.dead = row[n].dead
          /\ N.contentAt = clock + 1 /\ N.hold = row[n].hold /\ N.lockAt = row[n].lockAt
      BY <3>1 DEF SwapBlob, Row
    <3>3. Store(n, N) /\ clock' = clock + 1 /\ UNCHANGED <<pull, msgs>>
      BY <1>9, <2>3 DEF RecryptCommit
    <3> HIDE DEF N
    <3>4. Fits(N)
      BY <1>b, <2>3, <3>1, <3>2, <3>3, InPlaceFits
    <3>5. Copies' \subseteq Copies \cup {N}
      BY <3>3, StoreCopies
    <3> QED
      BY <1>a, <2>2, <3>3, <3>4, <3>5, NewCopyLineage
  <2>4. CASE ~(Live(row[n]) /\ row[n].blob = req[i].old)
    <3>1. Copies' = Copies /\ clock' = clock
      BY <1>9, <2>4 DEF RecryptCommit, Copies
    <3> QED
      BY <1>a, <2>2, <3>1, NoNewCopyLineage
  <2> QED
    BY <2>3, <2>4
<1>c. ASSUME NEW m \in msgs, Ack(m) \/ UNCHANGED req PROVE PutsQuiet
  <2>1. m.req \in Request
    BY DEF TypeOK, Message
  <2>2. \A j \in Request : j # m.req => req'[j] = req[j]
    BY <1>a, <1>c, <2>1 DEF Ack
  <2>3. req'[m.req] = req[m.req] \/ req'[m.req].phase = "fanout"
    BY <1>a, <1>c, <2>1 DEF Ack, RequestState
  <2> QED
    BY <2>1, <2>2, <2>3, QuietSteps
<1>10. ASSUME NEW m \in msgs, ReceiveObject(m) PROVE Lineage'
  <2>1. m.to \in Node /\ m.row \in Copies
    BY CopiesHave DEF TypeOK, Message
  <2>2. PutsQuiet
    BY <1>c, <1>10 DEF ReceiveObject
  <2>3. /\ ApplyRemoteObject(m.to, m.row) /\ clock' = clock /\ msgs' \subseteq msgs
        /\ pull' = pull
    BY <1>10 DEF ReceiveObject
  <2> QED
    BY <2>1, <2>2, <2>3, CopiesHave, ApplyLineage
<1>11. ASSUME NEW m \in msgs, ReceiveVersionDelete(m) PROVE Lineage'
  <2>1. m.to \in Node
    BY DEF TypeOK, Message
  <2>2. PutsQuiet
    BY <1>c, <1>11 DEF ReceiveVersionDelete
  <2>3. CASE Live(row[m.to])
    <3> DEFINE N == Tombstone(row[m.to], clock + 1)
    <3>1. Fits(N)
      BY <1>11, <2>1, <2>3, TombstoneFits DEF ReceiveVersionDelete
    <3>2. Copies' \subseteq Copies \cup {N}
      BY <1>11, <2>1, <2>3, StoreCopies DEF ReceiveVersionDelete
    <3> HIDE DEF N
    <3> QED
      BY <1>a, <1>11, <2>2, <2>3, <3>1, <3>2, NewCopyLineage DEF ReceiveVersionDelete
  <2>4. CASE ~Live(row[m.to])
    <3>1. Copies' \subseteq Copies /\ clock' = clock
      BY <1>11, <2>4 DEF ReceiveVersionDelete, Copies
    <3> QED
      BY <1>a, <2>2, <3>1, NoNewCopyLineage
  <2> QED
    BY <2>3, <2>4
<1>12. ASSUME NEW n \in Node, NEW p \in Peers(n), FetchManifest(n, p) PROVE Lineage'
  <2>1. p \in Node /\ \A k \in Node : pull'[k].row \in {pull[k].row, row[p]}
    BY <1>12 DEF FetchManifest, Peers, TypeOK
  <2>2. Copies' \subseteq Copies
    BY <1>12, <2>1 DEF FetchManifest, Copies
  <2> QED
    BY <1>a, <1>12, <2>2, NoNewCopyLineage DEF FetchManifest, PutsQuiet
<1>13. ASSUME NEW n \in Node, ApplyManifest(n) PROVE Lineage'
  <2>1. \A k \in Node : pull'[k].row \in {pull[k].row, NoRow}
    BY <1>13 DEF ApplyManifest, NoPull, TypeOK
  <2>2. \A k \in Node : pull'[k].row \in Copies
    BY <2>1, CopiesHave
  <2> QED
    BY <1>13, <2>2, CopiesHave, ApplyLineage DEF ApplyManifest, PutsQuiet
<1>14. ASSUME NEW n \in Node, RepairBlob(n) PROVE Lineage'
  <2>1. Copies' = Copies /\ clock' = clock /\ PutsQuiet
    BY <1>14 DEF RepairBlob, Copies, PutsQuiet
  <2> QED
    BY <1>a, <2>1, NoNewCopyLineage
<1>15. ASSUME NEW n \in Node, Restart(n) PROVE Lineage'
  <2>1. \A k \in Node : pull'[k].row \in {pull[k].row, NoRow}
    BY <1>15 DEF Restart, NoPull, TypeOK
  <2>2. Copies' \subseteq Copies
    BY <1>15, <2>1 DEF Restart, Copies
  <2>3. PutsQuiet
    BY <1>a, <1>15 DEF Restart, PutsQuiet, RequestState
  <2> QED
    BY <1>a, <1>15, <2>2, <2>3, NoNewCopyLineage DEF Restart
<1>16. CASE UNCHANGED vars
  <2>1. Copies' = Copies /\ clock' = clock /\ PutsQuiet
    BY <1>16 DEF vars, Copies, PutsQuiet
  <2> QED
    BY <1>a, <2>1, NoNewCopyLineage
<1>17. ASSUME NEW n \in Node, NEW i \in Lock \cup Recrypt, ReplicateLockChange(n, i) PROVE Lineage'
  <2>1. i \notin Put /\ \A j \in Request : j # i => req'[j] = req[j]
    BY <1>a, <1>17, RequestAssumption DEF ReplicateLockChange
  <2>2. PutsQuiet
    BY <2>1, QuietSteps
  <2>3. \A m \in msgs' : m \in msgs \/ m.row = row[n]
    BY <1>17, FanOutMessages DEF ReplicateLockChange
  <2>4. Copies' \subseteq Copies /\ clock' = clock
    BY <1>17, <2>3 DEF ReplicateLockChange, Copies
  <2> QED
    BY <1>a, <2>2, <2>4, NoNewCopyLineage
<1> QED
  BY <1>1, <1>2, <1>3, <1>4, <1>5, <1>6, <1>7, <1>8, <1>9, <1>10, <1>11, <1>12,
     <1>13, <1>14, <1>15, <1>16, <1>17, ParameterAssumption
  DEF Next, Client, Finish, Deliver, AntiEntropy
\* No timestamp is ever used for two values: any two copies of the row that
\* carry one last_modified are one write, or two PUTs of one instant, and two
\* copies with one register timestamp have one value in that register.
THEOREM LineageHolds == Spec => []Lineage
<1>1. TypeOK /\ TypeOK' /\ Lineage /\ [Next]_vars => Lineage'
  BY LineageStep
<1> QED
  BY <1>1, LineageInit, TypeCorrect, PTL DEF Spec
-----------------------------------------------------------------------------
(***************************************************************************)
(* Convergence: with no overlap of a PUT and a later write on one node,    *)
(* and no re-encryption where PUTs can share an instant, a node that has   *)
(* consumed a peer's manifest has nothing to learn from that peer.         *)
(***************************************************************************)
Serial == ~Overlap /\ (SameInstant => Recrypt = {})

\* The row of node n is replaced by N, which has all that it had.
LEMMA GrowStep ==
  ASSUME Serial, TypeOK, Lineage, NothingMissed, NEW n \in Node, NEW N, Fits(N),
         Store(n, N), Absorbs(N, row[n]), UNCHANGED <<hwm, pull>>
  PROVE  NothingMissed'
<1> USE DEF TypeOK
<1>1. /\ row'[n] = N /\ seq'[n] = seq[n] + 1
      /\ \A k \in Node : k # n => row'[k] = row[k] /\ seq'[k] = seq[k]
      /\ \A k \in Node : seq[k] \in Nat
  BY DEF Store
<1>2. ASSUME NEW k \in Node PROVE PullIsPrefix(k)'
  <2>1. PullIsPrefix(k)
    BY <1>2 DEF NothingMissed
  <2>2. pull[k].seq \in Nat
    BY DEF PullState
  <2> QED
    BY <1>1, <2>1, <2>2 DEF PullIsPrefix, Peers
<1>3. ASSUME NEW k \in Node, NEW p \in Peers(k) PROVE Consumed(k, p)'
  <2>1. p \in Node /\ p # k /\ Consumed(k, p) /\ hwm[k][p] \in Nat
    BY <1>3 DEF NothingMissed, Peers
  <2>2. CASE p = n
    BY <1>1, <2>1, <2>2 DEF Consumed
  <2>3. CASE p # n /\ k # n
    BY <1>1, <2>1, <2>3 DEF Consumed
  <2>4. CASE k = n
    <3>1. ASSUME hwm[n][p] = seq[p] PROVE Absorbs(N, row[p])
      <4>1. Absorbs(row[n], row[p])
        BY <2>1, <2>4, <3>1 DEF Consumed
      <4>2. /\ row[n] \in Row /\ row[p] \in Row /\ N \in Row
            /\ Undisturbed(row[n]) /\ Undisturbed(row[p]) /\ Undisturbed(N)
            /\ Coherent(row[p], row[n]) /\ Coherent(row[n], N) /\ Coherent(row[p], N)
        BY <2>1, CopiesHave DEF Lineage, Fits
      <4> QED
        BY <4>1, <4>2, AbsorbsTransitive DEF Serial
    <3> QED
      BY <1>1, <2>1, <2>4, <3>1 DEF Consumed
  <2> QED
    BY <2>2, <2>3, <2>4
<1> QED
  BY <1>2, <1>3 DEF NothingMissed

\* The row of n is merged with a copy that arrives.
LEMMA ApplyGrows ==
  ASSUME TypeOK, Lineage, NEW n \in Node, NEW r \in Copies, clock' = clock,
         ApplyRemoteObject(n, r)
  PROVE  \/ UNCHANGED <<row, seq>> /\ Absorbs(row[n], r)
         \/ LET N == Resolve(r, row[n])
            IN Fits(N) /\ Store(n, N) /\ Absorbs(N, row[n]) /\ Absorbs(N, r)
<1>1. CASE Absorbs(row[n], r)
  BY <1>1 DEF ApplyRemoteObject
<1>2. CASE ~Absorbs(row[n], r)
  <2>1. /\ r \in Row /\ row[n] \in Row /\ Coherent(r, row[n])
        /\ Undisturbed(r) /\ Undisturbed(row[n])
    BY CopiesType, CopiesHave DEF TypeOK, Lineage
  <2> QED
    BY <1>2, <2>1, ResolveFits, ResolveIsAbove DEF ApplyRemoteObject
<1> QED
  BY <1>1, <1>2

LEMMA NothingMissedStill ==
  ASSUME NothingMissed, UNCHANGED <<row, seq, hwm, pull>>
  PROVE  NothingMissed'
  BY DEF NothingMissed, PullIsPrefix, Consumed

LEMMA TombstoneGrows ==
  ASSUME TypeOK, Lineage, NEW n \in Node
  PROVE  Absorbs(Tombstone(row[n], clock + 1), row[n])
<1> DEFINE N == Tombstone(row[n], clock + 1)
<1>1. row[n] \in Row /\ N \in Row /\ clock \in Nat
  BY TombstoneType DEF TypeOK
<1>2. N.lm = clock + 1
  BY <1>1 DEF Tombstone, Row
<1>3. row[n].lm <= clock
  BY CopiesHave DEF Lineage, Stamped
<1> HIDE DEF N
<1>4. Below(row[n], N)
  BY <1>1, <1>2, <1>3, RowFields DEF Below
<1> QED
  BY <1>1, <1>4, AbsorbsIsBelow DEF N
LEMMA NothingMissedInit == Init => NothingMissed
<1> SUFFICES ASSUME Init PROVE NothingMissed
  OBVIOUS
<1>1. Absorbs(NoRow, NoRow)
  BY NoRowType, AbsorbsItself
<1> QED
  BY <1>1 DEF Init, NothingMissed, PullIsPrefix, Consumed, Peers

LEMMA ApplyManifestStep ==
  ASSUME Serial, TypeOK, Lineage, NothingMissed, NEW n \in Node, ApplyManifest(n)
  PROVE  NothingMissed'
<1> USE DEF TypeOK
<1> DEFINE q == pull[n].peer
<1>1. /\ q \in Node /\ q # n /\ pull[n].seq \in Nat /\ pull[n].seq <= seq[q]
      /\ pull[n].seq = seq[q] => pull[n].row = row[q]
  BY DEF ApplyManifest, NothingMissed, PullIsPrefix, Peers, PullState
<1>2. pull[n].row \in Copies /\ clock' = clock /\ ApplyRemoteObject(n, pull[n].row)
  BY CopiesHave DEF ApplyManifest
\* What the application of the row alone leaves true.
<1>3. /\ Absorbs(row'[n], pull[n].row)
      /\ \A k \in Node : k # n => row'[k] = row[k] /\ seq'[k] = seq[k]
      /\ seq'[n] \in {seq[n], seq[n] + 1}
      /\ seq'[n] = seq[n] => row'[n] = row[n]
      /\ row'[n] = row[n] \/ (Fits(row'[n]) /\ Absorbs(row'[n], row[n]))
  <2>1. CASE UNCHANGED <<row, seq>> /\ Absorbs(row[n], pull[n].row)
    BY <2>1
  <2>2. CASE LET N == Resolve(pull[n].row, row[n])
             IN Fits(N) /\ Store(n, N) /\ Absorbs(N, row[n]) /\ Absorbs(N, pull[n].row)
    BY <2>2 DEF Store
  <2> QED
    BY <1>2, <2>1, <2>2, ApplyGrows
<1>4. /\ pull'[n] = NoPull /\ \A k \in Node : k # n => pull'[k] = pull[k]
      /\ hwm'[n][q] = pull[n].seq
      /\ \A k, p \in Node : k # n \/ p # q => hwm'[k][p] = hwm[k][p]
  BY <1>1 DEF ApplyManifest
<1> HIDE DEF q
<1>5. \A k \in Node : seq[k] \in Nat
  OBVIOUS
<1>6. ASSUME NEW k \in Node PROVE PullIsPrefix(k)'
  <2>1. CASE k = n
    BY <1>4, <2>1 DEF PullIsPrefix
  <2>2. CASE k # n
    <3>1. PullIsPrefix(k) /\ pull'[k] = pull[k] /\ pull[k].seq \in Nat
      BY <1>4, <2>2 DEF NothingMissed, PullState
    <3> QED
      BY <1>3, <1>5, <3>1 DEF PullIsPrefix, Peers
  <2> QED
    BY <2>1, <2>2
<1>7. ASSUME NEW k \in Node, NEW p \in Peers(k) PROVE Consumed(k, p)'
  <2>1. p \in Node /\ p # k /\ Consumed(k, p) /\ hwm[k][p] \in Nat
    BY <1>7 DEF NothingMissed, Peers
  <2>2. CASE k = n /\ p = q
    BY <1>1, <1>3, <1>4, <1>5, <2>1, <2>2 DEF Consumed
  <2>3. CASE k = n /\ p # q
    <3>1. ASSUME hwm[n][p] = seq[p] PROVE Absorbs(row'[n], row[p])
      <4>1. Absorbs(row[n], row[p])
        BY <2>1, <2>3, <3>1 DEF Consumed
      <4>2. CASE row'[n] = row[n]
        BY <4>1, <4>2
      <4>3. CASE Fits(row'[n]) /\ Absorbs(row'[n], row[n])
        <5>1. /\ row[n] \in Row /\ row[p] \in Row /\ row'[n] \in Row
              /\ Undisturbed(row[n]) /\ Undisturbed(row[p]) /\ Undisturbed(row'[n])
              /\ Coherent(row[p], row[n]) /\ Coherent(row[n], row'[n])
              /\ Coherent(row[p], row'[n])
          BY <2>1, <4>3, CopiesHave DEF Lineage, Fits
        <5> QED
          BY <4>1, <4>3, <5>1, AbsorbsTransitive DEF Serial
      <4> QED
        BY <1>3, <4>2, <4>3
    <3> QED
      BY <1>3, <1>4, <2>1, <2>3, <3>1 DEF Consumed
  <2>4. CASE k # n /\ p = n
    BY <1>3, <1>4, <1>5, <2>1, <2>4 DEF Consumed
  <2>5. CASE k # n /\ p # n
    BY <1>3, <1>4, <2>1, <2>5 DEF Consumed
  <2> QED
    BY <2>2, <2>3, <2>4, <2>5
<1> QED
  BY <1>6, <1>7 DEF NothingMissed

LEMMA NothingMissedStep ==
  ASSUME Serial, TypeOK, Lineage, NothingMissed, [Next]_vars
  PROVE  NothingMissed'
<1> USE RequestTypes
<1>a. clock \in Nat /\ row \in [Node -> Row] /\ req \in [Request -> RequestState]
  BY DEF TypeOK
<1>b. ASSUME NEW n \in Node
      PROVE  /\ Stamped(row[n]) /\ row[n] \in Row
             /\ Live(row[n]) => row[n].lm # 0
  <2>1. Stamped(row[n]) /\ NoRow.dead
    BY CopiesHave DEF Lineage, NoRow
  <2> QED
    BY <1>a, <2>1 DEF Stamped, Live
<1>1. ASSUME NEW n \in Node, NEW i \in Put, PutUpload(n, i) PROVE NothingMissed'
  BY <1>1, NothingMissedStill DEF PutUpload
<1>2. ASSUME NEW n \in Node, NEW i \in Put, PutCommit(n, i) PROVE NothingMissed'
  <2> DEFINE N == PutRow(i, req[i].lm)
  <2>1. req'[i].phase = "fanout"
    BY <1>a, <1>2 DEF PutCommit, RequestState
  <2>2. Fits(N)
    BY <1>2, <2>1, PutFits DEF PutCommit
  <2>3. N.lm = req[i].lm /\ N \in Row
    BY <2>2 DEF PutRow, Fits
  <2> HIDE DEF N
  <2>4. Below(row[n], N)
    BY <1>2, <1>b, <2>3, RowFields DEF PutCommit, Below, Serial
  <2>5. Absorbs(N, row[n])
    BY <1>b, <2>3, <2>4, AbsorbsIsBelow
  <2>6. Store(n, N) /\ UNCHANGED <<hwm, pull>>
    BY <1>2 DEF PutCommit, N
  <2> QED
    BY <2>2, <2>5, <2>6, GrowStep
<1>3. ASSUME NEW n \in Node, NEW i \in Delete, DeleteCheck(n, i) PROVE NothingMissed'
  BY <1>3, NothingMissedStill DEF DeleteCheck
<1>4. ASSUME NEW n \in Node, NEW i \in Delete, DeleteCommit(n, i) PROVE NothingMissed'
  <2>1. CASE Live(row[n])
    BY <1>4, <2>1, TombstoneFits, TombstoneGrows, GrowStep DEF DeleteCommit
  <2>2. CASE ~Live(row[n])
    BY <1>4, <2>2, NothingMissedStill DEF DeleteCommit
  <2> QED
    BY <2>1, <2>2
<1>5. ASSUME NEW i \in Put \cup Delete, Answer(i) PROVE NothingMissed'
  BY <1>5, NothingMissedStill DEF Answer
<1>6. ASSUME NEW i \in Put \cup Delete, DeleteOldBlob(i) PROVE NothingMissed'
  BY <1>6, NothingMissedStill DEF DeleteOldBlob
<1>7. ASSUME NEW n \in Node, NEW i \in Lock, SetLegalHold(n, i) PROVE NothingMissed'
  <2>1. PICK h \in BOOLEAN : Store(n, SetHold(row[n], h, clock + 1))
    BY <1>7 DEF SetLegalHold
  <2> DEFINE N == SetHold(row[n], h, clock + 1)
  <2>2. N \in Row
    BY <1>a, InPlaceType
  <2>3. /\ N.lm = row[n].lm /\ N.etag = row[n].etag /\ N.dead = row[n].dead
        /\ N.lockAt = clock + 1 /\ N.blob = row[n].blob /\ N.contentAt = row[n].contentAt
    BY <1>a DEF SetHold, Row
  <2> HIDE DEF N
  <2>4. Fits(N)
    BY <1>7, <1>b, <2>2, <2>3, InPlaceFits DEF SetLegalHold
  <2>5. Below(row[n], N)
    BY <1>a, <1>b, <2>3, RowFields DEF Below, Stamped
  <2>6. Absorbs(N, row[n])
    BY <1>b, <2>2, <2>5, AbsorbsIsBelow
  <2> QED
    BY <1>7, <2>1, <2>4, <2>6, GrowStep DEF SetLegalHold, N
<1>8. ASSUME NEW n \in Node, NEW i \in Recrypt, RecryptUpload(n, i) PROVE NothingMissed'
  BY <1>8, NothingMissedStill DEF RecryptUpload
<1>9. ASSUME NEW n \in Node, NEW i \in Recrypt, RecryptCommit(n, i) PROVE NothingMissed'
  <2>1. CASE Live(row[n]) /\ row[n].blob = req[i].old
    <3> DEFINE N == SwapBlob(row[n], i, clock + 1)
    <3>1. N \in Row
      BY <1>a, InPlaceType
    <3>2. /\ N.lm = row[n].lm /\ N.etag = row[n].etag /\ N.dead = row[n].dead
          /\ N.contentAt = clock + 1 /\ N.hold = row[n].hold /\ N.lockAt = row[n].lockAt
      BY <1>a DEF SwapBlob, Row
    <3>3. Store(n, N) /\ clock' = clock + 1 /\ UNCHANGED <<hwm, pull>>
      BY <1>9, <2>1 DEF RecryptCommit
    <3> HIDE DEF N
    <3>4. Fits(N)
      BY <1>b, <2>1, <3>1, <3>2, <3>3, InPlaceFits
    <3>5. Below(row[n], N)
      BY <1>a, <1>b, <3>2, RowFields DEF Below, Stamped
    <3>6. Absorbs(N, row[n])
      BY <1>b, <3>1, <3>5, AbsorbsIsBelow
    <3> QED
      BY <3>3, <3>4, <3>6, GrowStep
  <2>2. CASE ~(Live(row[n]) /\ row[n].blob = req[i].old)
    BY <1>9, <2>2, NothingMissedStill DEF RecryptCommit
  <2> QED
    BY <2>1, <2>2
<1>10. ASSUME NEW m \in msgs, ReceiveObject(m) PROVE NothingMissed'
  <2>1. /\ m.to \in Node /\ m.row \in Copies
        /\ ApplyRemoteObject(m.to, m.row) /\ clock' = clock /\ UNCHANGED <<hwm, pull>>
    BY <1>10, CopiesHave DEF ReceiveObject, TypeOK, Message
  <2>2. CASE UNCHANGED <<row, seq>>
    BY <2>1, <2>2, NothingMissedStill
  <2>3. CASE ~UNCHANGED <<row, seq>>
    <3> DEFINE N == Resolve(m.row, row[m.to])
    <3>1. Fits(N) /\ Store(m.to, N) /\ Absorbs(N, row[m.to])
      BY <2>1, <2>3, ApplyGrows
    <3> HIDE DEF N
    <3> QED
      BY <2>1, <3>1, GrowStep
  <2> QED
    BY <2>2, <2>3
<1>11. ASSUME NEW m \in msgs, ReceiveVersionDelete(m) PROVE NothingMissed'
  <2>1. m.to \in Node
    BY DEF TypeOK, Message
  <2>2. CASE Live(row[m.to])
    BY <1>11, <2>1, <2>2, TombstoneFits, TombstoneGrows, GrowStep DEF ReceiveVersionDelete
  <2>3. CASE ~Live(row[m.to])
    BY <1>11, <2>3, NothingMissedStill DEF ReceiveVersionDelete
  <2> QED
    BY <2>2, <2>3
<1>12. ASSUME NEW n \in Node, NEW p \in Peers(n), FetchManifest(n, p) PROVE NothingMissed'
  <2>1. /\ pull'[n] = [peer |-> p, row |-> row[p], seq |-> seq[p]]
        /\ \A k \in Node : k # n => pull'[k] = pull[k]
        /\ seq[p] \in Nat
    BY <1>12 DEF FetchManifest, TypeOK, Peers
  <2>2. \A k \in Node : PullIsPrefix(k)'
    BY <1>12, <2>1 DEF FetchManifest, NothingMissed, PullIsPrefix
  <2>3. \A k \in Node : \A q \in Peers(k) : Consumed(k, q)'
    BY <1>12 DEF FetchManifest, NothingMissed, Consumed
  <2> QED
    BY <2>2, <2>3 DEF NothingMissed
<1>13. ASSUME NEW n \in Node, ApplyManifest(n) PROVE NothingMissed'
  BY <1>13, ApplyManifestStep
<1>14. ASSUME NEW n \in Node, RepairBlob(n) PROVE NothingMissed'
  BY <1>14, NothingMissedStill DEF RepairBlob
<1>15. ASSUME NEW n \in Node, Restart(n) PROVE NothingMissed'
  <2>1. \A k \in Node : pull'[k] = IF k = n THEN NoPull ELSE pull[k]
    BY <1>15 DEF Restart, TypeOK
  <2>2. \A k \in Node : PullIsPrefix(k)'
    BY <1>15, <2>1 DEF Restart, NothingMissed, PullIsPrefix
  <2>3. ASSUME NEW k \in Node, NEW p \in Peers(k) PROVE Consumed(k, p)'
    <3>1. /\ p \in Node /\ Consumed(k, p) /\ row' = row /\ seq' = seq
          /\ seq[p] \in Nat /\ hwm[k][p] \in Nat
      BY <1>15, <2>3 DEF Restart, NothingMissed, Peers, TypeOK
    <3>2. CASE k # n
      <4>1. hwm'[k][p] = hwm[k][p]
        BY <1>15, <3>2 DEF Restart, TypeOK
      <4> QED
        BY <3>1, <4>1 DEF Consumed
    <3>3. CASE k = n
      <4>1. hwm'[k][p] = 0
        BY <1>15, <3>1, <3>3 DEF Restart, TypeOK
      <4> QED
        BY <3>1, <4>1 DEF Consumed
    <3> QED
      BY <3>2, <3>3
  <2> QED
    BY <2>2, <2>3 DEF NothingMissed
<1>16. CASE UNCHANGED vars
  BY <1>16, NothingMissedStill DEF vars
<1>17. ASSUME NEW n \in Node, NEW i \in Lock \cup Recrypt, ReplicateLockChange(n, i)
       PROVE  NothingMissed'
  BY <1>17, NothingMissedStill DEF ReplicateLockChange
<1> QED
  BY <1>1, <1>2, <1>3, <1>4, <1>5, <1>6, <1>7, <1>8, <1>9, <1>10, <1>11, <1>12,
     <1>13, <1>14, <1>15, <1>16, <1>17, ParameterAssumption
  DEF Next, Client, Finish, Deliver, AntiEntropy
\* Anti-entropy misses nothing, however fan-out calls are lost, delayed or
\* overtaken by pulls and whichever nodes restart.
THEOREM NothingMissedHolds ==
  ASSUME Serial
  PROVE  Spec => []NothingMissed
<1>1. TypeOK /\ Lineage /\ NothingMissed /\ [Next]_vars => NothingMissed'
  BY NothingMissedStep
<1> QED
  BY <1>1, NothingMissedInit, TypeCorrect, LineageHolds, PTL DEF Spec

\* Convergence: once every node has consumed every peer's manifest, all nodes
\* hold the same row (guide/ha.md, "both modes converge eventually").
THEOREM Convergence ==
  ASSUME Serial
  PROVE  Spec => []CaughtUpAgree
<1>1. TypeOK /\ Lineage /\ NothingMissed => CaughtUpAgree
  <2> SUFFICES ASSUME TypeOK, Lineage, NothingMissed, CaughtUp,
                      NEW n \in Node, NEW p \in Node, n # p
               PROVE  row[n] = row[p]
    BY DEF CaughtUpAgree
  <2>1. /\ hwm[n][p] \in Nat /\ seq[p] \in Nat /\ hwm[n][p] >= seq[p] /\ Consumed(n, p)
        /\ hwm[p][n] \in Nat /\ seq[n] \in Nat /\ hwm[p][n] >= seq[n] /\ Consumed(p, n)
    BY DEF CaughtUp, NothingMissed, Peers, TypeOK
  <2>2. Absorbs(row[n], row[p]) /\ Absorbs(row[p], row[n])
    BY <2>1 DEF Consumed
  <2>3. /\ row[n] \in Row /\ row[p] \in Row /\ Coherent(row[n], row[p])
        /\ Undisturbed(row[n]) /\ Undisturbed(row[p])
    BY CopiesHave DEF TypeOK, Lineage
  <2> QED
    BY <2>2, <2>3, AbsorbsAntisymmetric DEF Serial
<1>2. Spec => []NothingMissed
  BY NothingMissedHolds
<1> QED
  BY <1>1, <1>2, TypeCorrect, LineageHolds, PTL
-----------------------------------------------------------------------------
(***************************************************************************)
(* The lock and content registers, for every value of the constants.       *)
(***************************************************************************)
LEMMA StoreRegisters ==
  ASSUME TypeOK, NEW n \in Node, NEW N, Store(n, N), NEW k \in Node,
         \/ N.lm # row[n].lm
         \/ N.etag # row[n].etag
         \/ /\ N.lockAt >= row[n].lockAt /\ N.contentAt >= row[n].contentAt
            /\ N.lockAt = row[n].lockAt => N.hold = row[n].hold
            /\ N.contentAt = row[n].contentAt => N.blob = row[n].blob
  PROVE  RegistersKept(k)
<1>1. row'[k] = IF k = n THEN N ELSE row[k]
  BY DEF Store, TypeOK
<1>2. row[k].lockAt \in Nat /\ row[k].contentAt \in Nat
  BY RowFields DEF TypeOK
<1> QED
  BY <1>1, <1>2 DEF RegistersKept

LEMMA SameRowRegisters ==
  ASSUME TypeOK, UNCHANGED row, NEW k \in Node
  PROVE  RegistersKept(k)
<1>1. row[k].lockAt \in Nat /\ row[k].contentAt \in Nat
  BY RowFields DEF TypeOK
<1> QED
  BY <1>1 DEF RegistersKept

LEMMA ApplyRegisters ==
  ASSUME TypeOK, NEW n \in Node, NEW in \in Row, ApplyRemoteObject(n, in), NEW k \in Node
  PROVE  RegistersKept(k)
<1> DEFINE N == Resolve(in, row[n])
<1>1. row[n] \in Row
  BY DEF TypeOK
<1>2. CASE Absorbs(row[n], in)
  BY <1>2, SameRowRegisters DEF ApplyRemoteObject
<1>3. CASE ~Absorbs(row[n], in)
  <2>1. Store(n, N)
    BY <1>3 DEF ApplyRemoteObject
  <2>2. CASE in.lm = row[n].lm /\ in.etag = row[n].etag
    <3>1. /\ N.lockAt >= row[n].lockAt /\ N.contentAt >= row[n].contentAt
          /\ N.lockAt = row[n].lockAt => N.hold = row[n].hold
          /\ N.contentAt = row[n].contentAt => N.blob = row[n].blob
      BY <1>1, <2>2, MergeFields, RowFields DEF Resolve
    <3> HIDE DEF N
    <3> QED
      BY <2>1, <3>1, StoreRegisters
  <2>3. CASE in.lm # row[n].lm \/ in.etag # row[n].etag
    <3>1. N \in {in, row[n]}
      BY <2>3 DEF Resolve
    <3>2. N # row[n]
      BY <1>3 DEF Absorbs
    <3> HIDE DEF N
    <3> QED
      BY <2>1, <2>3, <3>1, <3>2, StoreRegisters
  <2> QED
    BY <2>2, <2>3
<1> QED
  BY <1>2, <1>3

LEMMA RegistersStep ==
  ASSUME TypeOK, Lineage, [Next]_vars, NEW k \in Node
  PROVE  RegistersKept(k)
<1> USE RequestTypes
<1>a. ASSUME NEW n \in Node
      PROVE  /\ clock \in Nat /\ row[n] \in Row /\ row[n] \in Copies
             /\ row[n].lm <= clock /\ row[n].lockAt <= clock /\ row[n].contentAt <= clock
             /\ row[n].lm \in Nat /\ row[n].lockAt \in Nat /\ row[n].contentAt \in Nat
  <2>1. clock \in Nat /\ row[n] \in Row /\ row[n] \in Copies
    BY CopiesHave DEF TypeOK
  <2>2. Stamped(row[n])
    BY <2>1 DEF Lineage
  <2> QED
    BY <2>1, <2>2, RowFields DEF Stamped
<1>1. ASSUME NEW n \in Node, NEW i \in Put, PutCommit(n, i) PROVE RegistersKept(k)
  <2>1. PutRow(i, req[i].lm).etag = i /\ row[n].etag # i
    BY <1>1, <1>a DEF PutCommit, PutRow, Lineage, PutIsNew
  <2> QED
    BY <1>1, <2>1, StoreRegisters DEF PutCommit
<1>b. ASSUME NEW n \in Node PROVE Tombstone(row[n], clock + 1).lm # row[n].lm
  <2>1. Tombstone(row[n], clock + 1).lm = clock + 1
    BY <1>a DEF Tombstone, Row
  <2> QED
    BY <1>a, <2>1
<1>2. ASSUME NEW n \in Node, NEW i \in Delete, DeleteCommit(n, i) PROVE RegistersKept(k)
  BY <1>2, <1>b, StoreRegisters, SameRowRegisters DEF DeleteCommit
<1>3. ASSUME NEW n \in Node, NEW i \in Lock, SetLegalHold(n, i) PROVE RegistersKept(k)
  <2>1. PICK h \in BOOLEAN : Store(n, SetHold(row[n], h, clock + 1))
    BY <1>3 DEF SetLegalHold
  <2> DEFINE N == SetHold(row[n], h, clock + 1)
  <2>2. /\ N.lockAt = clock + 1 /\ N.contentAt = row[n].contentAt /\ N.blob = row[n].blob
    BY <1>a DEF SetHold, Row
  <2> HIDE DEF N
  <2>3. N.lockAt > row[n].lockAt /\ N.contentAt >= row[n].contentAt
    BY <1>a, <2>2
  <2> QED
    BY <1>a, <2>1, <2>2, <2>3, StoreRegisters DEF N
<1>4. ASSUME NEW n \in Node, NEW i \in Recrypt, RecryptCommit(n, i) PROVE RegistersKept(k)
  <2>1. CASE UNCHANGED row
    BY <2>1, SameRowRegisters
  <2>2. CASE ~UNCHANGED row
    <3> DEFINE N == SwapBlob(row[n], i, clock + 1)
    <3>1. Store(n, N)
      BY <1>4, <2>2 DEF RecryptCommit
    <3>2. /\ N.contentAt = clock + 1 /\ N.lockAt = row[n].lockAt /\ N.hold = row[n].hold
      BY <1>a DEF SwapBlob, Row
    <3> HIDE DEF N
    <3>3. N.lockAt >= row[n].lockAt /\ N.contentAt > row[n].contentAt
      BY <1>a, <3>2
    <3> QED
      BY <1>a, <3>1, <3>2, <3>3, StoreRegisters
  <2> QED
    BY <2>1, <2>2
<1>5. ASSUME NEW m \in msgs, ReceiveObject(m) PROVE RegistersKept(k)
  <2>1. m.to \in Node /\ m.row \in Row
    BY DEF TypeOK, Message
  <2> QED
    BY <1>5, <2>1, ApplyRegisters DEF ReceiveObject
<1>6. ASSUME NEW m \in msgs, ReceiveVersionDelete(m) PROVE RegistersKept(k)
  <2>1. m.to \in Node
    BY DEF TypeOK, Message
  <2> QED
    BY <1>6, <1>b, <2>1, StoreRegisters, SameRowRegisters DEF ReceiveVersionDelete
<1>7. ASSUME NEW n \in Node, ApplyManifest(n) PROVE RegistersKept(k)
  <2>1. pull[n].row \in Row
    BY DEF TypeOK, PullState
  <2> QED
    BY <1>7, <2>1, ApplyRegisters DEF ApplyManifest
<1>8. CASE UNCHANGED row
  BY <1>8, SameRowRegisters
<1>9. ASSUME \/ \E n \in Node, i \in Put : PutUpload(n, i)
             \/ \E n \in Node, i \in Delete : DeleteCheck(n, i)
             \/ \E n \in Node, i \in Recrypt : RecryptUpload(n, i)
             \/ \E n \in Node, i \in Lock \cup Recrypt : ReplicateLockChange(n, i)
             \/ Finish
      PROVE  UNCHANGED row
  BY <1>9 DEF PutUpload, DeleteCheck, RecryptUpload, ReplicateLockChange, Finish, Answer, DeleteOldBlob
<1>10. ASSUME \/ \E n \in Node : Restart(n) \/ RepairBlob(n)
              \/ \E n \in Node, p \in Node : FetchManifest(n, p)
              \/ UNCHANGED vars
       PROVE  UNCHANGED row
  BY <1>10 DEF Restart, RepairBlob, FetchManifest, vars
<1> QED
  BY <1>1, <1>2, <1>3, <1>4, <1>5, <1>6, <1>7, <1>8, <1>9, <1>10, ParameterAssumption
  DEF Next, Client, Deliver, AntiEntropy, Peers

\* Decision N2, for every value of the constants, overlapping writes included:
\* while a node keeps a version, neither its lock state nor its content is ever
\* taken back or changed under an old timestamp.
THEOREM RegistersNeverGoBack == Spec => RegistersAdvance
<1>1. TypeOK /\ Lineage /\ [Next]_vars => [\A n \in Node : RegistersKept(n)]_vars
  <2> SUFFICES ASSUME TypeOK, Lineage, [Next]_vars
               PROVE  \A n \in Node : RegistersKept(n)
    OBVIOUS
  <2> QED
    BY RegistersStep
<1> QED
  BY <1>1, TypeCorrect, LineageHolds, PTL DEF Spec, RegistersAdvance
-----------------------------------------------------------------------------
(***************************************************************************)
(* Durability: whoever is counted for a PUT has it when it is answered.    *)
(* First what any step may do to the rows, the copies, the calls, the      *)
(* blobs and the requests, then the invariant from these facts.            *)
(***************************************************************************)

\* The row of node n is replaced by none that is older.
Advances(n) ==
  \/ row'[n].lm > row[n].lm
  \/ row'[n].lm = row[n].lm /\ row'[n].etag >= row[n].etag

\* The fields of the rows a local write stores.
LEMMA PutFields ==
  ASSUME NEW b \in Nat, NEW t \in Nat
  PROVE  /\ PutRow(b, t) \in Row /\ PutRow(b, t).lm = t
         /\ PutRow(b, t).etag = b /\ PutRow(b, t).blob = b
  BY PutRowType DEF PutRow

LEMMA TombstoneFields ==
  ASSUME NEW r \in Row, NEW t \in Nat
  PROVE  Tombstone(r, t) \in Row /\ Tombstone(r, t).lm = t /\ Tombstone(r, t).blob = 0
<1>1. Tombstone(r, t).lm = t /\ Tombstone(r, t).blob = 0
  BY DEF Tombstone, Row
<1> QED
  BY <1>1, TombstoneType

LEMMA HoldFields ==
  ASSUME NEW r \in Row, NEW h \in BOOLEAN, NEW t \in Nat
  PROVE  /\ SetHold(r, h, t) \in Row /\ SetHold(r, h, t).lm = r.lm
         /\ SetHold(r, h, t).etag = r.etag /\ SetHold(r, h, t).blob = r.blob
<1>1. /\ SetHold(r, h, t).lm = r.lm /\ SetHold(r, h, t).etag = r.etag
      /\ SetHold(r, h, t).blob = r.blob
  BY DEF SetHold, Row
<1> QED
  BY <1>1, InPlaceType

LEMMA SwapFields ==
  ASSUME NEW r \in Row, NEW b \in Nat, NEW t \in Nat
  PROVE  /\ SwapBlob(r, b, t) \in Row /\ SwapBlob(r, b, t).lm = r.lm
         /\ SwapBlob(r, b, t).etag = r.etag /\ SwapBlob(r, b, t).blob = b
<1>1. /\ SwapBlob(r, b, t).lm = r.lm /\ SwapBlob(r, b, t).etag = r.etag
      /\ SwapBlob(r, b, t).blob = b
  BY DEF SwapBlob, Row
<1> QED
  BY <1>1, InPlaceType

\* What absorbs a row is later, or of the same instant and wins the tie.
LEMMA AbsorbsAdvances ==
  ASSUME Serial, NEW N \in Row, NEW r \in Row, Coherent(r, N),
         Undisturbed(N), Undisturbed(r), Absorbs(N, r)
  PROVE  N.lm > r.lm \/ (N.lm = r.lm /\ N.etag >= r.etag)
<1>1. Below(r, N)
  BY AbsorbsIsBelow
<1>2. CASE r.lm = N.lm /\ r.etag # N.etag
  <2>1. Live(r) /\ Live(N) /\ Recrypt = {}
    BY <1>2 DEF Coherent, Serial
  <2>2. r.blob = r.etag /\ N.blob = N.etag
    BY <2>1 DEF Undisturbed
  <2> QED
    BY <1>1, <1>2, <2>2, RowFields DEF Below
<1> QED
  BY <1>1, <1>2, RowFields DEF Below

\* Node n stores a row that fits and absorbs the one it had.
LEMMA StoreAdvances ==
  ASSUME Serial, TypeOK, Lineage, NEW n \in Node, NEW N, Fits(N), Store(n, N),
         Absorbs(N, row[n])
  PROVE  \A k \in Node : Advances(k)
<1>1. /\ row[n] \in Row /\ N \in Row /\ Coherent(row[n], N)
      /\ Undisturbed(N) /\ Undisturbed(row[n])
  BY CopiesHave DEF TypeOK, Lineage, Fits
<1>2. N.lm > row[n].lm \/ (N.lm = row[n].lm /\ N.etag >= row[n].etag)
  BY <1>1, AbsorbsAdvances
<1>3. row'[n] = N /\ \A k \in Node : k # n => row'[k] = row[k]
  BY DEF Store, TypeOK
<1>4. \A k \in Node : row[k].lm \in Nat /\ row[k].etag \in Nat
  BY RowFields DEF TypeOK
<1> QED
  BY <1>2, <1>3, <1>4 DEF Advances

\* The node's own rows and the ones it takes over.
LEMMA ApplyAdvances ==
  ASSUME Serial, TypeOK, Lineage, NEW n \in Node, NEW r \in Copies, clock' = clock,
         ApplyRemoteObject(n, r)
  PROVE  /\ \A k \in Node : Advances(k)
         /\ row'[n].lm > r.lm \/ (row'[n].lm = r.lm /\ row'[n].etag >= r.etag)
<1>1. \A k \in Node : row[k].lm \in Nat /\ row[k].etag \in Nat
  BY RowFields DEF TypeOK
<1>a. r \in Row /\ row[n] \in Row /\ Coherent(r, row[n]) /\ Undisturbed(r) /\ Undisturbed(row[n])
  BY CopiesType, CopiesHave DEF TypeOK, Lineage
<1>2. CASE UNCHANGED <<row, seq>> /\ Absorbs(row[n], r)
  <2>1. row[n].lm > r.lm \/ (row[n].lm = r.lm /\ row[n].etag >= r.etag)
    BY <1>2, <1>a, AbsorbsAdvances
  <2> QED
    BY <1>1, <1>2, <2>1 DEF Advances
<1>3. CASE ~(UNCHANGED <<row, seq>> /\ Absorbs(row[n], r))
  <2> DEFINE N == Resolve(r, row[n])
  <2>1. Fits(N) /\ Store(n, N) /\ Absorbs(N, row[n]) /\ Absorbs(N, r)
    BY <1>3, ApplyGrows
  <2> HIDE DEF N
  <2>2. row'[n] = N
    BY <2>1 DEF Store, TypeOK
  <2>3. N \in Row /\ Coherent(r, N) /\ Undisturbed(N)
    BY <2>1 DEF Fits
  <2>4. N.lm > r.lm \/ (N.lm = r.lm /\ N.etag >= r.etag)
    BY <1>a, <2>1, <2>3, AbsorbsAdvances
  <2> QED
    BY <2>1, <2>2, <2>4, StoreAdvances
<1> QED
  BY <1>2, <1>3

LEMMA RowsAdvance ==
  ASSUME Serial, TypeOK, Lineage, [Next]_vars
  PROVE  \A k \in Node : Advances(k)
<1> USE RequestTypes
<1>a. /\ clock \in Nat /\ row \in [Node -> Row] /\ req \in [Request -> RequestState]
      /\ \A k \in Node : row[k].lm \in Nat /\ row[k].etag \in Nat
  BY RowFields DEF TypeOK
<1>b. ASSUME NEW n \in Node
      PROVE  Stamped(row[n]) /\ row[n] \in Row
  BY <1>a, CopiesHave DEF Lineage
<1>c. ASSUME UNCHANGED row PROVE \A k \in Node : Advances(k)
  BY <1>a, <1>c DEF Advances
<1>d. ASSUME NEW n \in Node, NEW N \in Row, Store(n, N),
             N.lm > row[n].lm \/ (N.lm = row[n].lm /\ N.etag >= row[n].etag)
      PROVE  \A k \in Node : Advances(k)
  <2>1. row'[n] = N /\ \A k \in Node : k # n => row'[k] = row[k]
    BY <1>a, <1>d DEF Store
  <2> QED
    BY <1>a, <1>d, <2>1 DEF Advances
<1>1. ASSUME NEW n \in Node, NEW i \in Put, PutCommit(n, i) PROVE \A k \in Node : Advances(k)
  <2> DEFINE N == PutRow(i, req[i].lm)
  <2>1. N \in Row /\ N.lm = req[i].lm
    BY <1>a, <1>b, PutFields DEF RequestState
  <2>2. Store(n, N) /\ req[i].lm > row[n].lm
    BY <1>1 DEF PutCommit, Serial
  <2> HIDE DEF N
  <2> QED
    BY <1>d, <2>1, <2>2
<1>2. ASSUME NEW n \in Node, clock' = clock + 1, Store(n, Tombstone(row[n], clock + 1))
      PROVE  \A k \in Node : Advances(k)
  <2> DEFINE N == Tombstone(row[n], clock + 1)
  <2>1. N \in Row /\ N.lm = clock + 1
    BY <1>a, <1>b, TombstoneFields
  <2>2. N.lm > row[n].lm
    BY <1>a, <1>b, <2>1 DEF Stamped
  <2> HIDE DEF N
  <2>3. Store(n, N)
    BY <1>2 DEF N
  <2> QED
    BY <1>d, <2>1, <2>2, <2>3
<1>3. ASSUME NEW n \in Node, NEW i \in Delete, DeleteCommit(n, i)
      PROVE  \A k \in Node : Advances(k)
  BY <1>c, <1>2, <1>3 DEF DeleteCommit
<1>4. ASSUME NEW n \in Node, NEW i \in Lock, SetLegalHold(n, i) PROVE \A k \in Node : Advances(k)
  <2>1. PICK h \in BOOLEAN : Store(n, SetHold(row[n], h, clock + 1))
    BY <1>4 DEF SetLegalHold
  <2> DEFINE N == SetHold(row[n], h, clock + 1)
  <2>2. N \in Row /\ N.lm = row[n].lm /\ N.etag = row[n].etag
    BY <1>a, <1>b, HoldFields
  <2> HIDE DEF N
  <2>3. Store(n, N)
    BY <2>1 DEF N
  <2> QED
    BY <1>a, <1>d, <2>2, <2>3
<1>5. ASSUME NEW n \in Node, NEW i \in Recrypt, RecryptCommit(n, i)
      PROVE  \A k \in Node : Advances(k)
  <2>1. CASE Live(row[n]) /\ row[n].blob = req[i].old
    <3> DEFINE N == SwapBlob(row[n], i, clock + 1)
    <3>1. N \in Row /\ N.lm = row[n].lm /\ N.etag = row[n].etag
      BY <1>a, <1>b, SwapFields
    <3>2. Store(n, N)
      BY <1>5, <2>1 DEF RecryptCommit
    <3> HIDE DEF N
    <3> QED
      BY <1>a, <1>d, <3>1, <3>2
  <2>2. CASE ~(Live(row[n]) /\ row[n].blob = req[i].old)
    BY <1>c, <1>5, <2>2 DEF RecryptCommit
  <2> QED
    BY <2>1, <2>2
<1>6. ASSUME NEW m \in msgs, ReceiveObject(m) PROVE \A k \in Node : Advances(k)
  <2>1. m.to \in Node /\ m.row \in Copies
    BY CopiesHave DEF TypeOK, Message
  <2> QED
    BY <1>6, <2>1, ApplyAdvances DEF ReceiveObject
<1>7. ASSUME NEW m \in msgs, ReceiveVersionDelete(m) PROVE \A k \in Node : Advances(k)
  <2>1. m.to \in Node
    BY DEF TypeOK, Message
  <2> QED
    BY <1>c, <1>2, <1>7, <2>1 DEF ReceiveVersionDelete
<1>8. ASSUME NEW n \in Node, ApplyManifest(n) PROVE \A k \in Node : Advances(k)
  BY <1>8, CopiesHave, ApplyAdvances DEF ApplyManifest
<1>9. ASSUME \/ \E n \in Node : \/ \E i \in Put : PutUpload(n, i)
                                \/ \E i \in Delete : DeleteCheck(n, i)
                                \/ \E i \in Recrypt : RecryptUpload(n, i)
                                \/ \E i \in Lock \cup Recrypt : ReplicateLockChange(n, i)
                                \/ \E p \in Peers(n) : FetchManifest(n, p)
                                \/ RepairBlob(n) \/ Restart(n)
             \/ \E i \in Put \cup Delete : Answer(i) \/ DeleteOldBlob(i)
             \/ UNCHANGED vars
      PROVE  UNCHANGED row
  BY <1>9 DEF PutUpload, DeleteCheck, RecryptUpload, ReplicateLockChange, FetchManifest,
              RepairBlob, Restart, Answer, DeleteOldBlob, vars
<1> QED
  BY <1>c, <1>1, <1>3, <1>4, <1>5, <1>6, <1>7, <1>8, <1>9, ParameterAssumption
  DEF Next, Client, Finish, Deliver, AntiEntropy

\* What a step may do to a PUT: its own handler's steps, an acknowledgement that
\* it is waiting for, and a restart of its node.
Acknowledges(m, i) ==
  /\ m.req = i /\ req[i].phase = "fanout"
  /\ req'[i] = [req[i] EXCEPT !.acks = @ \cup {m.to}]
  /\ \/ ReceiveObject(m) /\ m.row.blob \in disk[m.to]
     \/ ReceiveVersionDelete(m)

IsLost(i) ==
  /\ req[i].phase \in {"open", "fanout"}
  /\ req'[i] = [req[i] EXCEPT !.phase = "lost"]

LEMMA RequestProgress ==
  ASSUME TypeOK, [Next]_vars, NEW i \in Put \cup Delete
  PROVE  \/ req'[i] = req[i]
         \/ i \in Put /\ \E n \in Node : PutUpload(n, i) \/ PutCommit(n, i)
         \/ i \in Delete /\ \E n \in Node : DeleteCheck(n, i) \/ DeleteCommit(n, i)
         \/ Answer(i)
         \/ DeleteOldBlob(i)
         \/ \E m \in msgs : Acknowledges(m, i)
         \/ IsLost(i)
<1> DEFINE Goal == \/ req'[i] = req[i]
                   \/ i \in Put /\ \E n \in Node : PutUpload(n, i) \/ PutCommit(n, i)
                   \/ i \in Delete /\ \E n \in Node : DeleteCheck(n, i) \/ DeleteCommit(n, i)
                   \/ Answer(i)
                   \/ DeleteOldBlob(i)
                   \/ \E m \in msgs : Acknowledges(m, i)
                   \/ IsLost(i)
<1> USE RequestTypes
<1>a. req \in [Request -> RequestState] /\ i \in Request
  BY DEF TypeOK
<1>1. ASSUME NEW n \in Node, NEW j \in Put, PutUpload(n, j) \/ PutCommit(n, j) PROVE Goal
  <2>1. j # i => req'[i] = req[i]
    BY <1>a, <1>1 DEF PutUpload, PutCommit
  <2> QED
    BY <1>1, <2>1
<1>2. ASSUME NEW n \in Node, NEW j \in Delete, DeleteCheck(n, j) \/ DeleteCommit(n, j) PROVE Goal
  <2>1. j # i => req'[i] = req[i]
    BY <1>a, <1>2 DEF DeleteCheck, DeleteCommit
  <2> QED
    BY <1>2, <2>1
<1>3. ASSUME NEW n \in Node, NEW j \in Lock \cup Recrypt,
             \/ SetLegalHold(n, j) \/ RecryptUpload(n, j) \/ RecryptCommit(n, j)
             \/ ReplicateLockChange(n, j)
      PROVE  Goal
  <2>1. j # i
    BY RequestAssumption
  <2>2. req'[i] = req[i]
    BY <1>a, <1>3, <2>1 DEF SetLegalHold, RecryptUpload, RecryptCommit, ReplicateLockChange
  <2> QED
    BY <2>2
<1>4. ASSUME NEW j \in Put \cup Delete, Answer(j) \/ DeleteOldBlob(j) PROVE Goal
  <2>1. j # i => req'[i] = req[i]
    BY <1>a, <1>4 DEF Answer, DeleteOldBlob
  <2> QED
    BY <1>4, <2>1
<1>5. ASSUME NEW m \in msgs, ReceiveObject(m) \/ ReceiveVersionDelete(m) PROVE Goal
  <2>1. m.req \in Request
    BY DEF TypeOK, Message
  <2>2. CASE UNCHANGED req
    BY <2>2
  <2>3. CASE ~UNCHANGED req
    <3>1. /\ req[m.req].phase = "fanout"
          /\ req' = [req EXCEPT ![m.req].acks = @ \cup {m.to}]
          /\ ReceiveObject(m) => m.row.blob \in disk[m.to]
      BY <1>5, <2>3 DEF ReceiveObject, ReceiveVersionDelete, Ack
    <3>2. m.req # i => req'[i] = req[i]
      BY <1>a, <2>1, <3>1
    <3>3. m.req = i => req'[i] = [req[i] EXCEPT !.acks = @ \cup {m.to}]
      BY <1>a, <2>1, <3>1
    <3>4. m.req = i => Acknowledges(m, i)
      BY <1>5, <3>1, <3>3 DEF Acknowledges
    <3> QED
      BY <3>2, <3>4
  <2> QED
    BY <2>2, <2>3
<1>6. ASSUME NEW n \in Node, Restart(n) PROVE Goal
  <2>1. \/ req'[i] = req[i]
        \/ IsLost(i)
    BY <1>a, <1>6 DEF Restart, IsLost
  <2> QED
    BY <2>1
<1>7. ASSUME \/ \E n \in Node : \/ \E p \in Peers(n) : FetchManifest(n, p)
                                \/ ApplyManifest(n) \/ RepairBlob(n)
             \/ UNCHANGED vars
      PROVE  Goal
  BY <1>7 DEF FetchManifest, ApplyManifest, RepairBlob, vars
<1> HIDE DEF Goal
<1>8. Goal
  BY <1>1, <1>2, <1>3, <1>4, <1>5, <1>6, <1>7, ParameterAssumption
  DEF Next, Client, Finish, Deliver, AntiEntropy
<1> QED
  BY <1>8 DEF Goal

\* A PUT that has committed or failed keeps its stamp and its node.
SettledStays ==
  \A i \in Put : Settled(i) => /\ Settled(i)' /\ req'[i].lm = req[i].lm
                               /\ req'[i].node = req[i].node

LEMMA SettledStep ==
  ASSUME TypeOK, [Next]_vars
  PROVE  SettledStays
<1> SUFFICES ASSUME NEW i \in Put, Settled(i)
             PROVE  Settled(i)' /\ req'[i].lm = req[i].lm /\ req'[i].node = req[i].node
  BY DEF SettledStays
<1>1. req \in [Request -> RequestState] /\ i \in Request /\ i \notin Delete
  BY RequestTypes, RequestAssumption DEF TypeOK
<1>2. CASE req'[i] = req[i]
  BY <1>2 DEF Settled
<1>3. CASE Answer(i)
  BY <1>1, <1>3 DEF Answer, Settled, RequestState
<1>4. CASE DeleteOldBlob(i)
  BY <1>1, <1>4 DEF DeleteOldBlob, Settled, RequestState
<1>5. CASE \E m \in msgs : Acknowledges(m, i)
  BY <1>1, <1>5 DEF Acknowledges, Settled, RequestState
<1>6. CASE IsLost(i)
  BY <1>1, <1>6 DEF IsLost, Settled, RequestState
<1>7. ASSUME NEW n \in Node, PutUpload(n, i) \/ PutCommit(n, i) PROVE FALSE
  BY <1>7 DEF PutUpload, PutCommit, Settled
<1> QED
  BY <1>1, <1>2, <1>3, <1>4, <1>5, <1>6, <1>7, RequestProgress

\* A blob of a PUT leaves a disk only as the replaced blob of a PUT or DELETE.
LEMMA DiskStep ==
  ASSUME TypeOK, [Next]_vars, NEW n \in Node, NEW i \in Put, i \in disk[n], i \notin disk'[n]
  PROVE  \E j \in Put \cup Delete : req[j].old = i /\ req[j].node = n
<1> USE DEF TypeOK
<1>1. ASSUME NEW k \in Node, NEW j \in Put, PutUpload(k, j) PROVE FALSE
  BY <1>1 DEF PutUpload
<1>2. ASSUME NEW k \in Node, NEW j \in Recrypt, RecryptUpload(k, j) PROVE FALSE
  BY <1>2 DEF RecryptUpload
<1>3. ASSUME NEW k \in Node, NEW j \in Recrypt, RecryptCommit(k, j) PROVE FALSE
  <2>1. j # i
    BY RequestAssumption
  <2> QED
    BY <1>3, <2>1 DEF RecryptCommit
<1>4. ASSUME NEW k \in Node, RepairBlob(k) PROVE FALSE
  BY <1>4 DEF RepairBlob
<1>5. ASSUME NEW j \in Put \cup Delete, DeleteOldBlob(j)
      PROVE  req[j].old = i /\ req[j].node = n
  BY <1>5 DEF DeleteOldBlob
<1>6. ASSUME \/ \E k \in Node : \/ \E j \in Put : PutCommit(k, j)
                                \/ \E j \in Delete : DeleteCheck(k, j) \/ DeleteCommit(k, j)
                                \/ \E j \in Lock : SetLegalHold(k, j)
                                \/ \E j \in Lock \cup Recrypt : ReplicateLockChange(k, j)
                                \/ \E p \in Peers(k) : FetchManifest(k, p)
                                \/ ApplyManifest(k) \/ Restart(k)
             \/ \E j \in Put \cup Delete : Answer(j)
             \/ \E m \in msgs : ReceiveObject(m) \/ ReceiveVersionDelete(m)
             \/ UNCHANGED vars
      PROVE  FALSE
  BY <1>6 DEF PutCommit, DeleteCheck, DeleteCommit, SetLegalHold, ReplicateLockChange,
              FetchManifest, ApplyManifest, Restart, Answer, ReceiveObject,
              ReceiveVersionDelete, vars
<1> QED
  BY <1>1, <1>2, <1>3, <1>4, <1>5, <1>6, ParameterAssumption
  DEF Next, Client, Finish, Deliver, AntiEntropy

\* The calls of a PUT are those its commit sends.
LEMMA CallsStep ==
  ASSUME TypeOK, [Next]_vars, NEW m \in msgs', m.req \in Put
  PROVE  \/ m \in msgs
         \/ \E n \in Node : \E p \in Peers(n) :
              /\ PutCommit(n, m.req)
              /\ m = [kind |-> "object", req |-> m.req, to |-> p,
                      row |-> PutRow(m.req, req[m.req].lm)]
<1> DEFINE Goal == \/ m \in msgs
                   \/ \E n \in Node : \E p \in Peers(n) :
                        /\ PutCommit(n, m.req)
                        /\ m = [kind |-> "object", req |-> m.req, to |-> p,
                                row |-> PutRow(m.req, req[m.req].lm)]
<1>1. ASSUME NEW n \in Node, NEW i \in Put, PutCommit(n, i) PROVE Goal
  <2>1. \/ m \in msgs
        \/ \E p \in Peers(n) : m = [kind |-> "object", req |-> i, to |-> p,
                                    row |-> PutRow(i, req[i].lm)]
    BY <1>1 DEF PutCommit, FanOut
  <2> QED
    BY <1>1, <2>1
<1>2. ASSUME NEW n \in Node, NEW i \in Delete, DeleteCommit(n, i) PROVE m \in msgs
  <2>1. m \in msgs \/ m.req = i
    BY <1>2 DEF DeleteCommit, FanOut
  <2> QED
    BY <2>1, RequestAssumption
<1>3. ASSUME NEW n \in Node, NEW i \in Lock \cup Recrypt, ReplicateLockChange(n, i)
      PROVE  m \in msgs
  <2>1. m \in msgs \/ m.req = i
    BY <1>3 DEF ReplicateLockChange, FanOut
  <2> QED
    BY <2>1, RequestAssumption
<1>4. ASSUME \/ \E n \in Node : \/ \E i \in Put : PutUpload(n, i)
                                \/ \E i \in Delete : DeleteCheck(n, i)
                                \/ \E i \in Lock : SetLegalHold(n, i)
                                \/ \E i \in Recrypt : RecryptUpload(n, i) \/ RecryptCommit(n, i)
                                \/ \E p \in Peers(n) : FetchManifest(n, p)
                                \/ ApplyManifest(n) \/ RepairBlob(n) \/ Restart(n)
             \/ \E i \in Put \cup Delete : Answer(i) \/ DeleteOldBlob(i)
             \/ \E c \in msgs : ReceiveObject(c) \/ ReceiveVersionDelete(c)
             \/ UNCHANGED vars
      PROVE  m \in msgs
  BY <1>4 DEF PutUpload, DeleteCheck, SetLegalHold, RecryptUpload, RecryptCommit, FetchManifest,
              ApplyManifest, RepairBlob, Restart, Answer, DeleteOldBlob, ReceiveObject,
              ReceiveVersionDelete, vars
<1>5. m \in msgs => Goal
  OBVIOUS
<1> HIDE DEF Goal
<1>6. Goal
  BY <1>1, <1>2, <1>3, <1>4, <1>5, ParameterAssumption
  DEF Next, Client, Finish, Deliver, AntiEntropy
<1> QED
  BY <1>6 DEF Goal

\* The replaced blob of a request: set by its commit, which supersedes the row.
LEMMA OldStep ==
  ASSUME Serial, TypeOK, Lineage, [Next]_vars, NEW j \in Put \cup Delete, OldIsBehind(j)
  PROVE  /\ Settled(j)' \/ req'[j].old = 0
         /\ \/ req'[j].old = 0
            \/ /\ req'[j].old = req[j].old /\ req'[j].node = req[j].node
            \/ \E n \in Node : /\ req'[j].old = row[n].blob /\ req'[j].node = n
                               /\ row'[n].lm > row[n].lm
<1> USE RequestTypes
<1>1. /\ req \in [Request -> RequestState] /\ row \in [Node -> Row] /\ clock \in Nat
      /\ j \in Request
  BY DEF TypeOK
<1>2. CASE req'[j] = req[j]
  BY <1>2 DEF OldIsBehind, Settled
<1>3. ASSUME j \in Put, NEW n \in Node, PutUpload(n, j)
      PROVE  req'[j].old = 0
  <2>1. req'[j].old = req[j].old /\ ~Settled(j)
    BY <1>1, <1>3 DEF PutUpload, RequestState, Settled
  <2> QED
    BY <2>1 DEF OldIsBehind
<1>4. ASSUME j \in Put, NEW n \in Node, PutCommit(n, j)
      PROVE  /\ Settled(j)' /\ req'[j].old = row[n].blob /\ req'[j].node = n
             /\ row'[n].lm > row[n].lm
  <2>1. Settled(j)' /\ req'[j].old = row[n].blob /\ req'[j].node = n
    BY <1>1, <1>4 DEF PutCommit, RequestState, Settled
  <2>2. row'[n] = PutRow(j, req[j].lm) /\ req[j].lm > row[n].lm /\ req[j].lm \in Nat
    BY <1>1, <1>4 DEF PutCommit, Store, Serial, RequestState
  <2> QED
    BY <2>1, <2>2, PutFields
<1>5. ASSUME j \in Delete, NEW n \in Node, DeleteCheck(n, j)
      PROVE  req'[j].old = 0
  <2>1. req'[j].old = req[j].old /\ ~Settled(j)
    BY <1>1, <1>5 DEF DeleteCheck, RequestState, Settled
  <2> QED
    BY <2>1 DEF OldIsBehind
<1>6. ASSUME j \in Delete, NEW n \in Node, DeleteCommit(n, j)
      PROVE  \/ req'[j].old = 0
             \/ /\ Settled(j)' /\ req'[j].old = row[n].blob /\ req'[j].node = n
                /\ row'[n].lm > row[n].lm
  <2>1. CASE Live(row[n])
    <3>1. Settled(j)' /\ req'[j].old = row[n].blob /\ req'[j].node = n
      BY <1>1, <1>6, <2>1 DEF DeleteCommit, RequestState, Settled
    <3>2. row'[n] = Tombstone(row[n], clock + 1)
      BY <1>1, <1>6, <2>1 DEF DeleteCommit, Store
    <3>3. row[n].lm <= clock /\ row[n].lm \in Nat
      BY <1>1, CopiesHave, RowFields DEF Lineage, Stamped
    <3>4. row'[n].lm = clock + 1
      BY <1>1, <3>2, TombstoneFields
    <3> QED
      BY <1>1, <3>1, <3>3, <3>4
  <2>2. CASE ~Live(row[n])
    <3>1. req'[j].old = req[j].old /\ ~Settled(j)
      BY <1>1, <1>6, <2>2 DEF DeleteCommit, RequestState, Settled
    <3> QED
      BY <3>1 DEF OldIsBehind
  <2> QED
    BY <2>1, <2>2
<1>7. CASE Answer(j)
  BY <1>1, <1>7 DEF Answer, RequestState, Settled
<1>8. CASE DeleteOldBlob(j)
  BY <1>1, <1>8 DEF DeleteOldBlob, RequestState, Settled
<1>9. CASE \E m \in msgs : Acknowledges(m, j)
  BY <1>1, <1>9 DEF Acknowledges, RequestState, Settled
<1>10. CASE IsLost(j)
  BY <1>1, <1>10 DEF IsLost, RequestState, Settled
<1> QED
  BY <1>2, <1>3, <1>4, <1>5, <1>6, <1>7, <1>8, <1>9, <1>10, RequestProgress

\* The blob of a PUT in row r is its own, by the requests of the next state.
OwnNext(r) == \A i \in Put : r.blob = i => Settled(i)' /\ r.lm = req'[i].lm

OwnsNext == \A r \in Copies' : BlobIsOwn(r)'

\* The copies of the next state are the old ones and at most one new one.
LEMMA OwnNew ==
  ASSUME SettledStays, \A r \in Copies : BlobIsOwn(r), NEW N,
         Copies' \subseteq Copies \cup {N}, OwnNext(N)
  PROVE  OwnsNext
<1> SUFFICES ASSUME NEW r \in Copies' PROVE OwnNext(r)
  BY DEF BlobIsOwn, OwnNext, OwnsNext
<1>1. CASE r \in Copies
  <2>1. BlobIsOwn(r)
    BY <1>1
  <2> QED
    BY <2>1 DEF BlobIsOwn, OwnNext, SettledStays
<1> QED
  BY <1>1

LEMMA OwnResolve ==
  ASSUME NEW in \in Row, NEW local \in Row, BlobIsOwn(in), BlobIsOwn(local)
  PROVE  BlobIsOwn(Resolve(in, local))
<1>1. CASE in.lm = local.lm /\ in.etag = local.etag
  <2> DEFINE m == MergeRegisters(in, local)
  <2>1. Resolve(in, local) = m
    BY <1>1 DEF Resolve
  <2>2. m.lm = local.lm /\ m.blob \in {in.blob, local.blob}
    BY MergeFields
  <2> HIDE DEF m
  <2> QED
    BY <1>1, <2>1, <2>2 DEF BlobIsOwn
<1>2. CASE in.lm # local.lm \/ in.etag # local.etag
  BY <1>2 DEF Resolve
<1> QED
  BY <1>1, <1>2

\* Only the commit of a PUT puts the blob of a PUT under a timestamp.
LEMMA OwnStep ==
  ASSUME TypeOK, Lineage, \A r \in Copies : BlobIsOwn(r), [Next]_vars
  PROVE  OwnsNext
<1> USE RequestTypes
<1>a. /\ clock \in Nat /\ row \in [Node -> Row] /\ req \in [Request -> RequestState]
      /\ SettledStays
  BY SettledStep DEF TypeOK
<1>b. ASSUME NEW r, BlobIsOwn(r) PROVE OwnNext(r)
  BY <1>a, <1>b DEF BlobIsOwn, OwnNext, SettledStays
<1>c. ASSUME Copies' \subseteq Copies PROVE OwnsNext
  <2>1. NoRow \in Copies /\ Copies' \subseteq Copies \cup {NoRow}
    BY <1>c, CopiesHave
  <2>2. OwnNext(NoRow)
    BY <1>b, <2>1
  <2> QED
    BY <1>a, <2>1, <2>2, OwnNew
<1>d. ASSUME NEW n \in Node, NEW r \in Copies, ApplyRemoteObject(n, r), msgs' \subseteq msgs,
             \A k \in Node : pull'[k].row \in Copies
      PROVE  OwnsNext
  <2> DEFINE N == Resolve(r, row[n])
  <2>1. r \in Row /\ row[n] \in Row /\ BlobIsOwn(r) /\ BlobIsOwn(row[n])
    BY <1>a, CopiesType, CopiesHave
  <2>2. BlobIsOwn(N)
    BY <2>1, OwnResolve
  <2>3. \A k \in Node : row'[k] \in Copies \cup {N}
    BY <1>a, <1>d, CopiesHave DEF ApplyRemoteObject, Store
  <2> HIDE DEF N
  <2>4. Copies' \subseteq Copies \cup {N}
    BY <1>d, <2>3, CopiesStep, CopiesHave
  <2> QED
    BY <1>a, <1>b, <2>2, <2>4, OwnNew
<1>e. ASSUME NEW n \in Node, NEW N, Store(n, N), UNCHANGED pull, OwnNext(N),
             \A m \in msgs' : m \in msgs \/ m.row \in {N, NoRow}
      PROVE  OwnsNext
  <2>1. Copies' \subseteq Copies \cup {N}
    BY <1>e, StoreCopies
  <2> QED
    BY <1>a, <1>e, <2>1, OwnNew
<1>f. ASSUME NEW n \in Node, Store(n, Tombstone(row[n], clock + 1)), UNCHANGED pull,
             \A m \in msgs' : m \in msgs \/ m.row = NoRow
      PROVE  OwnsNext
  <2> DEFINE N == Tombstone(row[n], clock + 1)
  <2>1. N.blob = 0
    BY <1>a, TombstoneFields
  <2> HIDE DEF N
  <2>2. OwnNext(N)
    BY <2>1, RequestAssumption DEF OwnNext
  <2> QED
    BY <1>e, <1>f, <2>2 DEF N
<1>1. ASSUME NEW n \in Node, NEW i \in Put, PutUpload(n, i) PROVE OwnsNext
  <2>1. Copies' = Copies
    BY <1>1 DEF PutUpload, Copies
  <2> QED
    BY <1>c, <2>1
<1>2. ASSUME NEW n \in Node, NEW i \in Put, PutCommit(n, i) PROVE OwnsNext
  <2> DEFINE N == PutRow(i, req[i].lm)
  <2>1. N.blob = i /\ N.lm = req[i].lm
    BY <1>a, PutFields DEF RequestState
  <2>2. Store(n, N) /\ UNCHANGED pull /\ \A m \in msgs' : m \in msgs \/ m.row = N
    BY <1>2, FanOutMessages DEF PutCommit
  <2> HIDE DEF N
  <2>3. req'[i].phase = "fanout" /\ req'[i].lm = req[i].lm
    BY <1>a, <1>2 DEF PutCommit, RequestState
  <2>4. OwnNext(N)
    BY <2>1, <2>3 DEF OwnNext, Settled
  <2> QED
    BY <1>e, <2>2, <2>4
<1>3. ASSUME NEW n \in Node, NEW i \in Delete, DeleteCheck(n, i) PROVE OwnsNext
  <2>1. Copies' = Copies
    BY <1>3 DEF DeleteCheck, Copies
  <2> QED
    BY <1>c, <2>1
<1>4. ASSUME NEW n \in Node, NEW i \in Delete, DeleteCommit(n, i) PROVE OwnsNext
  <2>1. CASE Live(row[n])
    <3>1. \A m \in msgs' : m \in msgs \/ m.row = NoRow
      BY <1>4, <2>1, FanOutMessages DEF DeleteCommit
    <3> QED
      BY <1>4, <1>f, <2>1, <3>1 DEF DeleteCommit
  <2>2. CASE ~Live(row[n])
    <3>1. Copies' = Copies
      BY <1>4, <2>2 DEF DeleteCommit, Copies
    <3> QED
      BY <1>c, <3>1
  <2> QED
    BY <2>1, <2>2
<1>5. ASSUME NEW i \in Put \cup Delete, Answer(i) \/ DeleteOldBlob(i) PROVE OwnsNext
  <2>1. Copies' = Copies
    BY <1>5 DEF Answer, DeleteOldBlob, Copies
  <2> QED
    BY <1>c, <2>1
<1>6. ASSUME NEW n \in Node, NEW i \in Lock, SetLegalHold(n, i) PROVE OwnsNext
  <2>1. PICK h \in BOOLEAN : Store(n, SetHold(row[n], h, clock + 1))
    BY <1>6 DEF SetLegalHold
  <2> DEFINE N == SetHold(row[n], h, clock + 1)
  <2>2. N.lm = row[n].lm /\ N.blob = row[n].blob
    BY <1>a, HoldFields
  <2> HIDE DEF N
  <2>3. BlobIsOwn(row[n])
    BY CopiesHave
  <2>4. BlobIsOwn(N)
    BY <2>2, <2>3 DEF BlobIsOwn
  <2>5. Store(n, N)
    BY <2>1 DEF N
  <2> QED
    BY <1>b, <1>e, <1>6, <2>4, <2>5 DEF SetLegalHold
<1>7. ASSUME NEW n \in Node, NEW i \in Recrypt, RecryptUpload(n, i) PROVE OwnsNext
  <2>1. Copies' = Copies
    BY <1>7 DEF RecryptUpload, Copies
  <2> QED
    BY <1>c, <2>1
<1>8. ASSUME NEW n \in Node, NEW i \in Recrypt, RecryptCommit(n, i) PROVE OwnsNext
  <2>1. CASE Live(row[n]) /\ row[n].blob = req[i].old
    <3> DEFINE N == SwapBlob(row[n], i, clock + 1)
    <3>1. N.blob = i
      BY <1>a, SwapFields
    <3>2. Store(n, N) /\ UNCHANGED <<pull, msgs>>
      BY <1>8, <2>1 DEF RecryptCommit
    <3> HIDE DEF N
    <3>3. OwnNext(N)
      BY <3>1, RequestAssumption DEF OwnNext
    <3> QED
      BY <1>e, <3>2, <3>3
  <2>2. CASE ~(Live(row[n]) /\ row[n].blob = req[i].old)
    <3>1. Copies' = Copies
      BY <1>8, <2>2 DEF RecryptCommit, Copies
    <3> QED
      BY <1>c, <3>1
  <2> QED
    BY <2>1, <2>2
<1>9. ASSUME NEW m \in msgs, ReceiveObject(m) PROVE OwnsNext
  <2>1. m.to \in Node /\ m.row \in Copies
    BY CopiesHave DEF TypeOK, Message
  <2>2. ApplyRemoteObject(m.to, m.row) /\ msgs' \subseteq msgs /\ pull' = pull
    BY <1>9 DEF ReceiveObject
  <2> QED
    BY <1>d, <2>1, <2>2, CopiesHave
<1>10. ASSUME NEW m \in msgs, ReceiveVersionDelete(m) PROVE OwnsNext
  <2>1. m.to \in Node /\ msgs' \subseteq msgs /\ pull' = pull
    BY <1>10 DEF ReceiveVersionDelete, TypeOK, Message
  <2>2. CASE Live(row[m.to])
    BY <1>10, <1>f, <2>1, <2>2 DEF ReceiveVersionDelete
  <2>3. CASE ~Live(row[m.to])
    <3>1. Copies' \subseteq Copies
      BY <1>10, <2>3 DEF ReceiveVersionDelete, Copies
    <3> QED
      BY <1>c, <3>1
  <2> QED
    BY <2>2, <2>3
<1>11. ASSUME NEW n \in Node, NEW p \in Peers(n), FetchManifest(n, p) PROVE OwnsNext
  <2>1. p \in Node /\ \A k \in Node : pull'[k].row \in {pull[k].row, row[p]}
    BY <1>11 DEF FetchManifest, Peers, TypeOK
  <2>2. Copies' \subseteq Copies
    BY <1>11, <2>1 DEF FetchManifest, Copies
  <2> QED
    BY <1>c, <2>2
<1>12. ASSUME NEW n \in Node, ApplyManifest(n) PROVE OwnsNext
  <2>1. \A k \in Node : pull'[k].row \in {pull[k].row, NoRow}
    BY <1>12 DEF ApplyManifest, NoPull, TypeOK
  <2>2. \A k \in Node : pull'[k].row \in Copies
    BY <2>1, CopiesHave
  <2> QED
    BY <1>d, <1>12, <2>2, CopiesHave DEF ApplyManifest
<1>13. ASSUME NEW n \in Node, RepairBlob(n) PROVE OwnsNext
  <2>1. Copies' = Copies
    BY <1>13 DEF RepairBlob, Copies
  <2> QED
    BY <1>c, <2>1
<1>14. ASSUME NEW n \in Node, Restart(n) PROVE OwnsNext
  <2>1. \A k \in Node : pull'[k].row \in {pull[k].row, NoRow}
    BY <1>14 DEF Restart, NoPull, TypeOK
  <2>2. Copies' \subseteq Copies
    BY <1>14, <2>1 DEF Restart, Copies
  <2> QED
    BY <1>c, <2>2
<1>15. ASSUME NEW n \in Node, NEW i \in Lock \cup Recrypt, ReplicateLockChange(n, i) PROVE OwnsNext
  <2>1. \A m \in msgs' : m \in msgs \/ m.row = row[n]
    BY <1>15, FanOutMessages DEF ReplicateLockChange
  <2>2. Copies' \subseteq Copies
    BY <1>15, <2>1 DEF ReplicateLockChange, Copies
  <2> QED
    BY <1>c, <2>2
<1>16. CASE UNCHANGED vars
  <2>1. Copies' = Copies
    BY <1>16 DEF vars, Copies
  <2> QED
    BY <1>c, <2>1
<1>17. CASE Client
  BY <1>17, <1>1, <1>2, <1>3, <1>4, <1>6, <1>7, <1>8, <1>15 DEF Client
<1>18. CASE Finish \/ Deliver
  BY <1>18, <1>5, <1>9, <1>10 DEF Finish, Deliver
<1>19. CASE AntiEntropy
  BY <1>19, <1>11, <1>12, <1>13, ParameterAssumption DEF AntiEntropy
<1> QED
  BY <1>14, <1>16, <1>17, <1>18, <1>19 DEF Next

\* The calls of a PUT go on carrying its row to the other nodes.
LEMMA CarriesStep ==
  ASSUME TypeOK, \A m \in msgs : CarriesPut(m), [Next]_vars
  PROVE  \A m \in msgs' : CarriesPut(m)'
<1> SUFFICES ASSUME NEW m \in msgs', m.req \in Put
             PROVE  /\ m.kind = "object" /\ Settled(m.req)'
                    /\ m.row = PutRow(m.req, req'[m.req].lm)
                    /\ m.to # req'[m.req].node
  BY DEF CarriesPut
<1>1. CASE m \in msgs
  <2>1. CarriesPut(m)
    BY <1>1
  <2> QED
    BY <2>1, SettledStep DEF CarriesPut, SettledStays
<1>2. ASSUME NEW n \in Node, NEW p \in Peers(n), PutCommit(n, m.req),
             m = [kind |-> "object", req |-> m.req, to |-> p,
                  row |-> PutRow(m.req, req[m.req].lm)]
      PROVE  /\ m.kind = "object" /\ Settled(m.req)'
             /\ m.row = PutRow(m.req, req'[m.req].lm)
             /\ m.to # req'[m.req].node
  <2>1. m.kind = "object" /\ m.to = p /\ m.row = PutRow(m.req, req[m.req].lm)
    BY <1>2
  <2>2. req \in [Request -> RequestState] /\ m.req \in Request
    BY RequestTypes DEF TypeOK
  <2>3. /\ req'[m.req].phase = "fanout" /\ req'[m.req].lm = req[m.req].lm
        /\ req'[m.req].node = n
    BY <1>2, <2>2 DEF PutCommit, RequestState
  <2>4. p # n
    BY DEF Peers
  <2> QED
    BY <2>1, <2>3, <2>4 DEF Settled
<1> QED
  BY <1>1, <1>2, CallsStep

\* What a PUT or DELETE replaced stays superseded on its node.
LEMMA BehindStep ==
  ASSUME Serial, TypeOK, Lineage, AcksStand, [Next]_vars, NEW j \in Put \cup Delete
  PROVE  OldIsBehind(j)'
<1>a. OldIsBehind(j) /\ SettledStays /\ \A k \in Node : Advances(k)
  BY SettledStep, RowsAdvance DEF AcksStand
<1>b. \A k \in Node : row[k] \in Row /\ row[k].lm \in Nat /\ row[k].etag \in Nat
  BY RowFields DEF TypeOK
<1>c. req \in [Request -> RequestState] /\ \A i \in Put : req[i].lm \in Nat
  BY RequestTypes DEF TypeOK, RequestState
<1>d. \A k \in Node : row'[k].lm \in Nat
  <2>1. TypeOK'
    BY TypeStep
  <2> QED
    BY <2>1, RowFields DEF TypeOK
<1>1. Settled(j)' \/ req'[j].old = 0
  BY <1>a, OldStep
<1>2. ASSUME NEW i \in Put, req'[j].old = i
      PROVE  /\ req'[j].node \in Node /\ Settled(i)'
             /\ row'[req'[j].node].lm > req'[i].lm
  <2>1. i # 0
    BY RequestAssumption
  <2>2. CASE req'[j].old = req[j].old /\ req'[j].node = req[j].node
    <3> DEFINE n == req[j].node
    <3>1. n \in Node /\ Settled(i) /\ row[n].lm > req[i].lm
      BY <1>a, <1>2, <2>2 DEF OldIsBehind
    <3>2. Settled(i)' /\ req'[i].lm = req[i].lm
      BY <1>a, <3>1 DEF SettledStays
    <3>3. row'[n].lm >= row[n].lm
      BY <1>a, <1>b, <1>d, <3>1 DEF Advances
    <3> QED
      BY <1>b, <1>c, <1>d, <2>2, <3>1, <3>2, <3>3
  <2>3. ASSUME NEW n \in Node, req'[j].old = row[n].blob, req'[j].node = n,
               row'[n].lm > row[n].lm
        PROVE  /\ req'[j].node \in Node /\ Settled(i)'
               /\ row'[req'[j].node].lm > req'[i].lm
    <3>1. BlobIsOwn(row[n])
      BY CopiesHave DEF AcksStand
    <3>2. Settled(i) /\ row[n].lm = req[i].lm
      BY <1>2, <2>3, <3>1 DEF BlobIsOwn
    <3> QED
      BY <1>a, <2>3, <3>2 DEF SettledStays
  <2> QED
    BY <1>2, <1>a, <2>1, <2>2, <2>3, OldStep
<1> QED
  BY <1>1, <1>2 DEF OldIsBehind

\* A blob that is still to be named by its PUT's row stays where it is, and so
\* does one whose row is in force.
LEMMA BlobStays ==
  ASSUME TypeOK, AcksStand, [Next]_vars, NEW n \in Node, NEW i \in Put, i \in disk[n],
         ~Settled(i) \/ ~(row[n].lm > req[i].lm)
  PROVE  i \in disk'[n]
<1> SUFFICES ASSUME i \notin disk'[n] PROVE FALSE
  OBVIOUS
<1>1. PICK j \in Put \cup Delete : req[j].old = i /\ req[j].node = n
  BY DiskStep
<1>2. OldIsBehind(j)
  BY DEF AcksStand
<1> QED
  BY <1>1, <1>2 DEF OldIsBehind

\* A node that has a PUT keeps it, or goes on to what supersedes it.
LEMMA KeepsStep ==
  ASSUME Serial, TypeOK, Lineage, AcksStand, [Next]_vars, NEW n \in Node, NEW i \in Put,
         Settled(i), KeepsPut(n, i)
  PROVE  KeepsPut(n, i)'
<1>1. req'[i].lm = req[i].lm /\ req[i].lm \in Nat /\ i \in Nat
  BY SettledStep, RequestTypes, RequestAssumption DEF SettledStays, TypeOK, RequestState
<1>2. row[n].lm \in Nat /\ row[n].etag \in Nat
  BY RowFields DEF TypeOK
<1>3. row'[n].lm \in Nat /\ row'[n].etag \in Nat
  <2>1. TypeOK'
    BY TypeStep
  <2> QED
    BY <2>1, RowFields DEF TypeOK
<1>4. Advances(n)
  BY RowsAdvance
<1>5. i \in disk[n] /\ ~(row[n].lm > req[i].lm) => i \in disk'[n]
  BY BlobStays
<1> QED
  BY <1>1, <1>2, <1>3, <1>4, <1>5 DEF KeepsPut, Advances

\* The peer of an acknowledgement has the row and the blob of the PUT.
LEMMA AckKeeps ==
  ASSUME Serial, TypeOK, Lineage, AcksStand, [Next]_vars, NEW i \in Put, NEW m \in msgs,
         Acknowledges(m, i)
  PROVE  m.to \in Peers(req[i].node) /\ KeepsPut(m.to, i)'
<1>1. CarriesPut(m) /\ m.req = i
  BY DEF AcksStand, Acknowledges
<1>2. m.kind = "object" /\ m.row = PutRow(i, req[i].lm) /\ m.to # req[i].node
  BY <1>1 DEF CarriesPut
<1>3. m.to \in Node /\ m.row \in Copies
  BY CopiesHave DEF TypeOK, Message
<1>4. req[i].lm \in Nat /\ i \in Nat
  BY RequestTypes DEF TypeOK, RequestState
<1>5. ReceiveObject(m) /\ m.row.blob \in disk[m.to]
  BY <1>2 DEF Acknowledges, ReceiveVersionDelete
<1>6. m.row.lm = req[i].lm /\ m.row.etag = i /\ m.row.blob = i
  BY <1>2, <1>4, PutFields
<1>7. ApplyRemoteObject(m.to, m.row) /\ clock' = clock /\ disk' = disk
  BY <1>5 DEF ReceiveObject
<1>8. \/ row'[m.to].lm > req[i].lm
      \/ row'[m.to].lm = req[i].lm /\ row'[m.to].etag >= i
  BY <1>3, <1>6, <1>7, ApplyAdvances
<1>9. req'[i].lm = req[i].lm
  BY RequestTypes DEF Acknowledges, TypeOK, RequestState
<1>10. row'[m.to].lm \in Nat /\ row'[m.to].etag \in Nat
  <2>1. TypeOK'
    BY TypeStep
  <2> QED
    BY <1>3, <2>1, RowFields DEF TypeOK
<1> QED
  BY <1>2, <1>3, <1>4, <1>5, <1>6, <1>7, <1>8, <1>9, <1>10 DEF KeepsPut, Peers

\* Whoever is counted for a PUT goes on having it.
LEMMA CountedStep ==
  ASSUME Serial, TypeOK, Lineage, AcksStand, [Next]_vars, NEW i \in Put
  PROVE  CountedKeep(i)'
<1> USE RequestTypes
<1>a. /\ req \in [Request -> RequestState] /\ row \in [Node -> Row]
      /\ disk \in [Node -> SUBSET Blob] /\ i \in Request /\ i \notin Delete
      /\ CountedKeep(i)
  BY RequestAssumption DEF TypeOK, AcksStand
<1>b. ASSUME req[i].phase = "fanout", NEW n \in req[i].acks \cup {req[i].node}
      PROVE  KeepsPut(n, i)'
  <2>1. n \in Node /\ KeepsPut(n, i) /\ Settled(i)
    BY <1>a, <1>b DEF CountedKeep, Peers, Settled
  <2> QED
    BY <2>1, KeepsStep
<1>1. CASE req'[i] = req[i]
  <2>1. ~Settled(i)' => req'[i].acks = {}
    BY <1>1, <1>a DEF CountedKeep, Settled
  <2>2. ASSUME req'[i].phase = "open"
        PROVE  req'[i].node \in Node /\ i \in disk'[req'[i].node]
    <3>1. req[i].node \in Node /\ i \in disk[req[i].node] /\ ~Settled(i)
      BY <1>1, <1>a, <2>2 DEF CountedKeep, Settled
    <3>2. i \in disk'[req[i].node]
      BY <3>1, BlobStays
    <3> QED
      BY <1>1, <3>1, <3>2
  <2>3. ASSUME req'[i].phase = "fanout"
        PROVE  /\ req'[i].node \in Node /\ req'[i].acks \subseteq Peers(req'[i].node)
               /\ \A n \in req'[i].acks \cup {req'[i].node} : KeepsPut(n, i)'
    BY <1>1, <1>a, <1>b, <2>3 DEF CountedKeep
  <2> QED
    BY <2>1, <2>2, <2>3 DEF CountedKeep
<1>2. ASSUME NEW n \in Node, PutUpload(n, i) PROVE CountedKeep(i)'
  <2>1. req'[i].phase = "open" /\ req'[i].node = n /\ req'[i].acks = req[i].acks /\ i \in disk'[n]
    BY <1>2, <1>a DEF PutUpload, RequestState
  <2>2. req[i].acks = {}
    BY <1>2, <1>a DEF PutUpload, CountedKeep, Settled
  <2> QED
    BY <2>1, <2>2 DEF CountedKeep
<1>3. ASSUME NEW n \in Node, PutCommit(n, i) PROVE CountedKeep(i)'
  <2>1. /\ req'[i].phase = "fanout" /\ req'[i].node = n /\ req'[i].acks = req[i].acks
        /\ req'[i].lm = req[i].lm /\ req[i].lm \in Nat
    BY <1>3, <1>a DEF PutCommit, RequestState
  <2>2. req[i].acks = {} /\ i \in disk'[n]
    BY <1>3, <1>a DEF PutCommit, CountedKeep, Settled
  <2>3. row'[n] = PutRow(i, req[i].lm)
    BY <1>3, <1>a DEF PutCommit, Store
  <2>4. row'[n].lm = req[i].lm /\ row'[n].etag = i
    BY <2>3 DEF PutRow
  <2>5. KeepsPut(n, i)'
    BY <2>1, <2>2, <2>4 DEF KeepsPut
  <2> QED
    BY <2>1, <2>2, <2>5 DEF CountedKeep, Settled
<1>4. CASE Answer(i) \/ DeleteOldBlob(i) \/ IsLost(i)
  <2>1. req'[i].phase \in {"acked", "refused", "lost"}
    BY <1>4, <1>a DEF Answer, DeleteOldBlob, IsLost, RequestState
  <2> QED
    BY <2>1 DEF CountedKeep, Settled
<1>5. ASSUME NEW m \in msgs, Acknowledges(m, i) PROVE CountedKeep(i)'
  <2>1. /\ req'[i].phase = "fanout" /\ req[i].phase = "fanout" /\ req'[i].node = req[i].node
        /\ req'[i].acks = req[i].acks \cup {m.to}
    BY <1>5, <1>a DEF Acknowledges, RequestState
  <2>2. m.to \in Peers(req[i].node) /\ KeepsPut(m.to, i)'
    BY <1>5, AckKeeps
  <2>3. req[i].node \in Node /\ req[i].acks \subseteq Peers(req[i].node)
    BY <1>a, <2>1 DEF CountedKeep
  <2>4. \A n \in req[i].acks \cup {req[i].node} : KeepsPut(n, i)'
    BY <1>b, <2>1
  <2> QED
    BY <2>1, <2>2, <2>3, <2>4 DEF CountedKeep, Settled
<1> QED
  BY <1>1, <1>2, <1>3, <1>4, <1>5, <1>a, RequestProgress

LEMMA AcksInit == Init => AcksStand
<1> SUFFICES ASSUME Init PROVE AcksStand
  OBVIOUS
<1>1. Copies = {NoRow}
  BY DEF Init, Copies, NoPull
<1>2. BlobIsOwn(NoRow)
  BY RequestAssumption DEF BlobIsOwn, NoRow
<1>3. \A i \in Request : req[i] = [phase |-> "idle", node |-> None, lm |-> 0,
                                   old |-> 0, acks |-> {}]
  BY DEF Init
<1>4. ASSUME NEW j \in Put \cup Delete PROVE OldIsBehind(j)
  <2>1. req[j].old = 0
    BY <1>3, RequestTypes
  <2> QED
    BY <2>1, RequestAssumption DEF OldIsBehind
<1>5. ASSUME NEW i \in Put PROVE CountedKeep(i)
  <2>1. req[i].phase = "idle" /\ req[i].acks = {}
    BY <1>3, RequestTypes
  <2> QED
    BY <2>1 DEF CountedKeep
<1> QED
  BY <1>1, <1>2, <1>4, <1>5 DEF AcksStand, Init

\* An acknowledgement stays true until the request is answered: the node that
\* serves a PUT and every peer whose answer it counted have the row and the
\* blob, or a row that supersedes it, although merges, re-encryptions, deletes
\* of replaced blobs and restarts go on meanwhile (receive_object certifies the
\* sidecar before it answers; the handlers delete only what they superseded).
THEOREM AcksStandHolds ==
  ASSUME Serial
  PROVE  Spec => []AcksStand
<1>1. TypeOK /\ Lineage /\ AcksStand /\ [Next]_vars => AcksStand'
  <2> SUFFICES ASSUME TypeOK, Lineage, AcksStand, [Next]_vars PROVE AcksStand'
    OBVIOUS
  <2>1. OwnsNext
    BY OwnStep DEF AcksStand
  <2>2. \A m \in msgs' : CarriesPut(m)'
    BY CarriesStep DEF AcksStand
  <2>3. \A j \in Put \cup Delete : OldIsBehind(j)'
    BY BehindStep
  <2>4. \A i \in Put : CountedKeep(i)'
    BY CountedStep
  <2> QED
    BY <2>1, <2>2, <2>3, <2>4 DEF AcksStand, OwnsNext
<1> QED
  BY <1>1, AcksInit, TypeCorrect, LineageHolds, PTL DEF Spec

\* Whoever has the PUT in the sense of the invariant holds it.
LEMMA QuorumHolds ==
  ASSUME TypeOK, AcksStand, NEW i \in Put, req[i].phase = "fanout",
         QuorumSatisfied(req[i].acks)
  PROVE  Cardinality({n \in Node : HoldsPut(n, i)}) >= Quorum
<1> DEFINE A == req[i].acks
           x == req[i].node
           H == {n \in Node : HoldsPut(n, i)}
<1>1. x \in Node /\ A \subseteq Peers(x) /\ \A n \in A \cup {x} : KeepsPut(n, i)
  BY DEF AcksStand, CountedKeep
<1>2. A \cup {x} \subseteq H
  <2> SUFFICES ASSUME NEW n \in A \cup {x} PROVE n \in Node /\ HoldsPut(n, i)
    OBVIOUS
  <2> QED
    BY <1>1 DEF Peers, KeepsPut, HoldsPut
<1>3. x \notin A /\ A \subseteq Node /\ H \subseteq Node
  BY <1>1 DEF Peers
<1>4. IsFiniteSet(A) /\ IsFiniteSet(H)
  BY <1>3, NodeAssumption, FS_Subset
<1>5. Cardinality(A \cup {x}) = Cardinality(A) + 1
  BY <1>3, <1>4, FS_AddElement
<1>6. Cardinality(A \cup {x}) <= Cardinality(H)
  BY <1>2, <1>4, FS_Subset
<1>7. Cardinality(A) \in Nat /\ Cardinality(H) \in Nat /\ Quorum \in Nat
  BY <1>4, FS_CardinalityType, ParameterAssumption
<1>8. 1 + Cardinality(A) >= Quorum
  BY DEF QuorumSatisfied
<1> HIDE DEF A, x, H
<1>9. Cardinality(H) >= Quorum
  BY <1>5, <1>6, <1>7, <1>8
<1> QED
  BY <1>9 DEF H

\* Decision H1 of the high-availability design, for every cluster and every
\* write quorum: when a PUT is acknowledged, at least write_quorum nodes hold it
\* at that moment, row and blob, or a row that supersedes it (fan_out_object,
\* quorum_satisfied, enforce_ack_quorum).
THEOREM AckedIsDurable ==
  ASSUME Serial
  PROVE  Spec => AckedPutIsDurable
<1> DEFINE AckStep == \A i \in Put :
             req[i].phase = "fanout" /\ req'[i].phase = "acked"
               => Cardinality({n \in Node : HoldsPut(n, i)}) >= Quorum
<1>1. TypeOK /\ AcksStand /\ [Next]_vars => AckStep
  <2> SUFFICES ASSUME TypeOK, AcksStand, [Next]_vars, NEW i \in Put,
                      req[i].phase = "fanout", req'[i].phase = "acked"
               PROVE  Cardinality({n \in Node : HoldsPut(n, i)}) >= Quorum
    OBVIOUS
  <2>1. req \in [Request -> RequestState] /\ i \in Request /\ i \notin Delete
    BY RequestTypes, RequestAssumption DEF TypeOK
  <2>2. CASE Answer(i)
    <3>1. QuorumSatisfied(req[i].acks)
      BY <2>1, <2>2 DEF Answer, RequestState
    <3> QED
      BY <3>1, QuorumHolds
  <2>3. ASSUME NEW n \in Node, PutUpload(n, i) \/ PutCommit(n, i) PROVE FALSE
    BY <2>3 DEF PutUpload, PutCommit
  <2>4. ~DeleteOldBlob(i)
    BY DEF DeleteOldBlob
  <2>5. ~IsLost(i)
    BY <2>1 DEF IsLost, RequestState
  <2>6. ASSUME NEW m \in msgs, Acknowledges(m, i) PROVE FALSE
    BY <2>1, <2>6 DEF Acknowledges, RequestState
  <2> QED
    BY <2>1, <2>2, <2>3, <2>4, <2>5, <2>6, RequestProgress
<1>2. TypeOK /\ AcksStand /\ [Next]_vars => [AckStep]_vars
  BY <1>1
<1> QED
  BY <1>2, TypeCorrect, AcksStandHolds, PTL DEF Spec, AckedPutIsDurable
=============================================================================
