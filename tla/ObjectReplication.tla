-------------------------- MODULE ObjectReplication --------------------------
(***************************************************************************)
(* One replicated object row of an Arca cluster: the client operations     *)
(* that change it on the node that serves them, the fan-out to the peers   *)
(* with its acknowledgement count, and the anti-entropy worker that pulls  *)
(* what the fan-out missed.                                                *)
(*                                                                         *)
(* The row is the null version of a key in an unversioned bucket, or one   *)
(* version of a key.  Rows, sequence numbers and blobs are on disk; the    *)
(* high-water marks, the pull under way and the requests being served are  *)
(* in memory and are lost by a restart.                                    *)
(***************************************************************************)
EXTENDS Naturals, FiniteSets

CONSTANTS
  Node,         \* the nodes of the cluster
  None,         \* no node
  Put,          \* the PutObject requests; a request is named by its blob id
  Recrypt,      \* the re-encryptions of the row, named by the new blob id
  Delete,       \* the delete requests
  Lock,         \* the legal-hold changes
  Quorum,       \* write_quorum; 0 is the None of `available` mode
  Overlap,      \* a PUT may commit after a later-stamped write reached its node
  SameInstant,  \* PUTs on two nodes may get the same timestamp
  Pulling,      \* bound: the nodes whose anti-entropy worker gets to run
  MaxRestarts   \* bound: process restarts

ASSUME NodeAssumption == IsFiniteSet(Node) /\ None \notin Node

ASSUME RequestAssumption ==
  /\ Put \subseteq Nat \ {0}
  /\ Recrypt \subseteq Nat \ {0}
  /\ Delete \subseteq Nat \ {0}
  /\ Lock \subseteq Nat \ {0}
  /\ Put \cap Recrypt = {}
  /\ Put \cap Delete = {}
  /\ Put \cap Lock = {}
  /\ Recrypt \cap Delete = {}
  /\ Recrypt \cap Lock = {}
  /\ Delete \cap Lock = {}

ASSUME ParameterAssumption ==
  /\ Quorum \in Nat
  /\ Overlap \in BOOLEAN
  /\ SameInstant \in BOOLEAN
  /\ Pulling \subseteq Node
  /\ MaxRestarts \in Nat

Request == Put \cup Recrypt \cup Delete \cup Lock
Blob == Put \cup Recrypt
Peers(n) == Node \ {n}

VARIABLES
  clock,    \* the NTP-synchronised wall clock: the last timestamp handed out
  row,      \* row[n]: the row node n stores
  seq,      \* seq[n]: the change sequence number of that row
  disk,     \* disk[n]: the blobs whose sidecar node n holds
  req,      \* req[i]: the progress of client request i
  msgs,     \* the fan-out calls on their way
  hwm,      \* hwm[n][p]: the last seq of p that n has consumed
  pull,     \* pull[n]: the manifest n has fetched and not yet applied
  restarts  \* restarts so far

vars == <<clock, row, seq, disk, req, msgs, hwm, pull, restarts>>

------------------------------------------------------------------------------
(* The row and its last-writer-wins merge (arca-core/src/types.rs,           *)
(* ObjectRecord::resolve_replicated).  A row is one LWW register.            *)
(* Timestamps are naturals and 0 is the None of an optional timestamp, which *)
(* Rust's derived order places below every Some.  Blob ids are naturals and  *)
(* 0 is the empty blob id of a tombstone; their order stands for the order   *)
(* of the UUID strings.  The etag names the content a PUT wrote, so it is    *)
(* the blob id that PUT minted.                                              *)

Row == [lm : Nat,            \* last_modified
        etag : Nat,          \* etag
        blob : Nat,          \* blob_id, first column of the content register
        contentAt : Nat,     \* content_updated_at
        hold : BOOLEAN,      \* legal_hold_status, standing for the lock register
        lockAt : Nat,        \* lock_updated_at
        dead : BOOLEAN]      \* is_tombstone

\* No row at all: below every row a node can hold.
NoRow == [lm |-> 0, etag |-> 0, blob |-> 0, contentAt |-> 0,
          hold |-> FALSE, lockAt |-> 0, dead |-> TRUE]

Live(r) == ~r.dead

\* The row a PUT of blob b stamped with time t installs.
PutRow(b, t) == [lm |-> t, etag |-> b, blob |-> b, contentAt |-> 0,
                 hold |-> FALSE, lockAt |-> 0, dead |-> FALSE]

\* A hard delete keeps the row as a tombstone: no blob, a new last_modified.
Tombstone(r, t) == [r EXCEPT !.dead = TRUE, !.blob = 0, !.lm = t]

\* A legal-hold change, and a re-encryption, of the row at time t.
SetHold(r, h, t) == [r EXCEPT !.hold = h, !.lockAt = t]
SwapBlob(r, b, t) == [r EXCEPT !.blob = b, !.contentAt = t]

\* The lock register, and the content register, of in replace those of r.
WithLock(r, in) == [r EXCEPT !.hold = in.hold, !.lockAt = in.lockAt]
WithContent(r, in) == [r EXCEPT !.blob = in.blob, !.contentAt = in.contentAt]

\* Mutant of MergeRegisters: one comparison decides for both registers.
MergeOneRegister(in, local) ==
  IF in.lockAt > local.lockAt \/ in.contentAt > local.contentAt
    THEN WithLock(WithContent(local, in), in) ELSE local

\* Mutant of MergeRegisters: re-encryption is not a register of its own.
MergeLockOnly(in, local) ==
  IF in.lockAt > local.lockAt THEN WithLock(local, in) ELSE local

\* Two copies of one content lineage: each register is taken from the copy
\* that changed it strictly later.
MergeRegisters(in, local) ==
  LET locked == IF in.lockAt > local.lockAt THEN WithLock(local, in) ELSE local
  IN IF in.contentAt > local.contentAt THEN WithContent(locked, in) ELSE locked

\* The row to keep when in arrives where local is stored.  The code's None is
\* the case Resolve(in, local) = local: nothing is written, no seq is taken.
Resolve(in, local) ==
  IF in.lm # local.lm THEN (IF in.lm > local.lm THEN in ELSE local)
  ELSE IF in.etag # local.etag THEN (IF in.blob > local.blob THEN in ELSE local)
  ELSE MergeRegisters(in, local)

\* local has nothing to learn from in.
Absorbs(local, in) == Resolve(in, local) = local

------------------------------------------------------------------------------
Phase == {"idle", "open", "fanout", "acked", "refused", "done", "lost"}

RequestState == [phase : Phase, node : Node \cup {None}, lm : Nat,
                 old : Nat, acks : SUBSET Node]

Message == [kind : {"object", "delete"}, req : Request, to : Node, row : Row]

PullState == [peer : Node \cup {None}, row : Row, seq : Nat]

NoPull == [peer |-> None, row |-> NoRow, seq |-> 0]

Init ==
  /\ clock = 0
  /\ row = [n \in Node |-> NoRow]
  /\ seq = [n \in Node |-> 0]
  /\ disk = [n \in Node |-> {}]
  /\ req = [i \in Request |-> [phase |-> "idle", node |-> None, lm |-> 0,
                               old |-> 0, acks |-> {}]]
  /\ msgs = {}
  /\ hwm = [n \in Node |-> [p \in Node |-> 0]]
  /\ pull = [n \in Node |-> NoPull]
  /\ restarts = 0
------------------------------------------------------------------------------
\* One transaction of node n that leaves row r under a fresh seq.
Store(n, r) ==
  /\ row' = [row EXCEPT ![n] = r]
  /\ seq' = [seq EXCEPT ![n] = @ + 1]

\* apply_remote_object: LWW upsert, and no write when nothing changes.
ApplyRemoteObject(n, r) ==
  IF Absorbs(row[n], r) THEN UNCHANGED <<row, seq>>
                        ELSE Store(n, Resolve(r, row[n]))

\* Mutant of QuorumSatisfied: the serving node is counted among the peers too.
QuorumOffByOne(acks) == 2 + Cardinality(acks) >= Quorum

\* quorum_satisfied: the local copy and the full acknowledgements.
QuorumSatisfied(acks) == 1 + Cardinality(acks) >= Quorum

\* The fan-out of row r (or of a delete) by node n for request i.  A call to a
\* peer that n does not see as eligible, or that fails, is one that is never
\* received; a request that the write gate refuses is one that goes no further.
FanOut(kind, i, n, r) ==
  msgs' = msgs \cup {[kind |-> kind, req |-> i, to |-> p, row |-> r] : p \in Peers(n)}

\* The timestamps a PUT starting on node n can read: a new one, or the one
\* another node's unfinished PUT read at this instant.
PutStamps(n) ==
  {clock + 1} \cup
  {t \in {clock} : SameInstant /\ \E j \in Put : /\ req[j].phase = "open"
                                                 /\ req[j].node # n
                                                 /\ req[j].lm = t}

\* PutObject up to write_sidecar: the body and sidecar are on node n, `now` has
\* been read, and the blob fan-out has left copies on the peers in got.
PutUpload(n, i) ==
  /\ req[i].phase = "idle"
  /\ \E t \in PutStamps(n), got \in SUBSET Peers(n) :
       /\ clock' = t
       /\ disk' = [p \in Node |-> IF p \in got \cup {n} THEN disk[p] \cup {i}
                                                        ELSE disk[p]]
       /\ req' = [req EXCEPT ![i].phase = "open", ![i].node = n, ![i].lm = t]
  /\ UNCHANGED <<row, seq, msgs, hwm, pull, restarts>>

\* put_object_tagged_if: the gate, the local transaction, the row fan-out.  The
\* transaction replaces whatever row it finds (install_object, Unversioned).
PutCommit(n, i) ==
  /\ req[i].phase = "open" /\ req[i].node = n
  /\ Overlap \/ req[i].lm > row[n].lm
  /\ Store(n, PutRow(i, req[i].lm))
  /\ FanOut("object", i, n, PutRow(i, req[i].lm))
  /\ req' = [req EXCEPT ![i].phase = "fanout", ![i].old = row[n].blob]
  /\ UNCHANGED <<clock, disk, hwm, pull, restarts>>

\* The delete handler up to its Object Lock check.  An absent object is a 204
\* that changes nothing.
DeleteCheck(n, i) ==
  /\ req[i].phase = "idle"
  /\ Live(row[n]) /\ ~row[n].hold
  /\ req' = [req EXCEPT ![i].phase = "open", ![i].node = n]
  /\ UNCHANGED <<clock, row, seq, disk, msgs, hwm, pull, restarts>>

\* delete_object_if / delete_object_version_if: the gate, the transaction that
\* leaves a tombstone (or finds no row to delete), the delete fan-out.
DeleteCommit(n, i) ==
  /\ req[i].phase = "open" /\ req[i].node = n
  /\ IF Live(row[n])
       THEN /\ clock' = clock + 1
            /\ Store(n, Tombstone(row[n], clock + 1))
            /\ req' = [req EXCEPT ![i].phase = "fanout", ![i].lm = clock + 1,
                                  ![i].old = row[n].blob]
            /\ FanOut("delete", i, n, NoRow)
       ELSE /\ req' = [req EXCEPT ![i].phase = "done"]
            /\ UNCHANGED <<clock, row, seq, msgs>>
  /\ UNCHANGED <<disk, hwm, pull, restarts>>

\* enforce_ack_quorum: the calls still out have timed out, nothing is undone.
Answer(i) ==
  /\ req[i].phase = "fanout"
  /\ req' = [req EXCEPT ![i].phase = IF QuorumSatisfied(req[i].acks)
                                       THEN "acked" ELSE "refused"]
  /\ UNCHANGED <<clock, row, seq, disk, msgs, hwm, pull, restarts>>

\* After a successful PUT or DELETE the handler deletes the blob it replaced,
\* on this node only.
DeleteOldBlob(i) ==
  /\ req[i].phase = "acked" /\ req[i].old # 0
  /\ disk' = [disk EXCEPT ![req[i].node] = @ \ {req[i].old}]
  /\ req' = [req EXCEPT ![i].old = 0]
  /\ UNCHANGED <<clock, row, seq, msgs, hwm, pull, restarts>>

\* set_object_legal_hold: the gate and the transaction.
SetLegalHold(n, i) ==
  /\ req[i].phase = "idle"
  /\ Live(row[n])
  /\ clock' = clock + 1
  /\ \E h \in BOOLEAN : Store(n, SetHold(row[n], h, clock + 1))
  /\ req' = [req EXCEPT ![i].phase = "fanout", ![i].node = n]
  /\ UNCHANGED <<disk, msgs, hwm, pull, restarts>>

\* recrypt_one up to write_sidecar: the re-encrypted copy of the blob the scan
\* saw is on node n and on the peers in got.
RecryptUpload(n, i) ==
  /\ req[i].phase = "idle"
  /\ Live(row[n]) /\ row[n].blob \in disk[n]
  /\ \E got \in SUBSET Peers(n) :
       disk' = [p \in Node |-> IF p \in got \cup {n} THEN disk[p] \cup {i}
                                                     ELSE disk[p]]
  /\ req' = [req EXCEPT ![i].phase = "open", ![i].node = n, ![i].old = row[n].blob]
  /\ UNCHANGED <<clock, row, seq, msgs, hwm, pull, restarts>>

\* update_object_encryption_cas: the swap, if the row still has the blob that
\* was read; otherwise the new copy is discarded.
RecryptCommit(n, i) ==
  /\ req[i].phase = "open" /\ req[i].node = n
  /\ IF Live(row[n]) /\ row[n].blob = req[i].old
       THEN /\ clock' = clock + 1
            /\ Store(n, SwapBlob(row[n], i, clock + 1))
            /\ req' = [req EXCEPT ![i].phase = "fanout"]
            /\ UNCHANGED disk
       ELSE /\ disk' = [disk EXCEPT ![n] = @ \ {i}]
            /\ req' = [req EXCEPT ![i].phase = "done"]
            /\ UNCHANGED <<clock, row, seq>>
  /\ UNCHANGED <<msgs, hwm, pull, restarts>>

\* replicate_lock_change: the row is read again, as it is by then, and sent to
\* the peers; nobody waits for their answers.
ReplicateLockChange(n, i) ==
  /\ req[i].phase = "fanout" /\ req[i].node = n
  /\ IF Live(row[n]) THEN FanOut("object", i, n, row[n]) ELSE UNCHANGED msgs
  /\ req' = [req EXCEPT ![i].phase = "done"]
  /\ UNCHANGED <<clock, row, seq, disk, hwm, pull, restarts>>
------------------------------------------------------------------------------
\* The peer's acknowledgement reaches a request that is still waiting for it.
Ack(m) == IF req[m.req].phase = "fanout"
            THEN req' = [req EXCEPT ![m.req].acks = @ \cup {m.to}]
            ELSE UNCHANGED req

\* Mutant of ReceiveObject: acknowledged without looking for the sidecar.
ReceiveUncertified(m) ==
  /\ m.kind = "object"
  /\ ApplyRemoteObject(m.to, m.row)
  /\ msgs' = msgs \ {m}
  /\ Ack(m)
  /\ UNCHANGED <<clock, disk, hwm, pull, restarts>>

\* receive_object: apply, then certify the blob by its sidecar.
ReceiveObject(m) ==
  /\ m.kind = "object"
  /\ ApplyRemoteObject(m.to, m.row)
  /\ msgs' = msgs \ {m}
  /\ IF m.row.blob \in disk[m.to] THEN Ack(m) ELSE UNCHANGED req
  /\ UNCHANGED <<clock, disk, hwm, pull, restarts>>

\* receive_version_delete: a live row becomes a tombstone stamped by the
\* receiver; an absent or dead row is left alone.  Both are acknowledged.
ReceiveVersionDelete(m) ==
  /\ m.kind = "delete"
  /\ IF Live(row[m.to])
       THEN /\ clock' = clock + 1
            /\ Store(m.to, Tombstone(row[m.to], clock + 1))
       ELSE UNCHANGED <<clock, row, seq>>
  /\ msgs' = msgs \ {m}
  /\ Ack(m)
  /\ UNCHANGED <<disk, hwm, pull, restarts>>

\* Mutant of FetchManifest: the manifest is asked for one seq too late.
FetchPastNext(n, p) ==
  /\ pull[n] = NoPull
  /\ seq[p] > hwm[n][p] + 1
  /\ pull' = [pull EXCEPT ![n] = [peer |-> p, row |-> row[p], seq |-> seq[p]]]
  /\ UNCHANGED <<clock, row, seq, disk, req, msgs, hwm, restarts>>

\* The anti-entropy worker of n reads the manifest of p past its cursor.
FetchManifest(n, p) ==
  /\ pull[n] = NoPull
  /\ seq[p] > hwm[n][p]
  /\ pull' = [pull EXCEPT ![n] = [peer |-> p, row |-> row[p], seq |-> seq[p]]]
  /\ UNCHANGED <<clock, row, seq, disk, req, msgs, hwm, restarts>>

\* Mutant of ApplyManifest: the cursor jumps to the peer's advertised seq.
ApplyToAdvertised(n) ==
  /\ pull[n] # NoPull
  /\ ApplyRemoteObject(n, pull[n].row)
  /\ hwm' = [hwm EXCEPT ![n][pull[n].peer] = seq[pull[n].peer]]
  /\ pull' = [pull EXCEPT ![n] = NoPull]
  /\ UNCHANGED <<clock, disk, req, msgs, restarts>>

\* It applies the entry and then advances its cursor.
ApplyManifest(n) ==
  /\ pull[n] # NoPull
  /\ ApplyRemoteObject(n, pull[n].row)
  /\ hwm' = [hwm EXCEPT ![n][pull[n].peer] = pull[n].seq]
  /\ pull' = [pull EXCEPT ![n] = NoPull]
  /\ UNCHANGED <<clock, disk, req, msgs, restarts>>

\* Mutant of RepairBlob: a tombstone's empty blob id is fetched like any other.
RepairDeadRow(n) ==
  /\ row[n].blob \notin disk[n]
  /\ disk' = [disk EXCEPT ![n] = @ \cup {row[n].blob}]
  /\ UNCHANGED <<clock, row, seq, req, msgs, hwm, pull, restarts>>

\* repair_blobs / read-repair: fetch the bytes of a row from a peer.
RepairBlob(n) ==
  /\ Live(row[n]) /\ row[n].blob \notin disk[n]
  /\ \E p \in Peers(n) : row[n].blob \in disk[p]
  /\ disk' = [disk EXCEPT ![n] = @ \cup {row[n].blob}]
  /\ UNCHANGED <<clock, row, seq, req, msgs, hwm, pull, restarts>>

\* The process of node n stops and starts again.
Restart(n) ==
  /\ restarts < MaxRestarts
  /\ restarts' = restarts + 1
  /\ req' = [i \in Request |->
               IF req[i].node = n /\ req[i].phase \in {"open", "fanout"}
                 THEN [req[i] EXCEPT !.phase = "lost"] ELSE req[i]]
  /\ hwm' = [hwm EXCEPT ![n] = [p \in Node |-> 0]]
  /\ pull' = [pull EXCEPT ![n] = NoPull]
  /\ UNCHANGED <<clock, row, seq, disk, msgs>>
------------------------------------------------------------------------------
Client ==
  \E n \in Node :
    \/ \E i \in Put : PutUpload(n, i) \/ PutCommit(n, i)
    \/ \E i \in Delete : DeleteCheck(n, i) \/ DeleteCommit(n, i)
    \/ \E i \in Lock : SetLegalHold(n, i)
    \/ \E i \in Recrypt : RecryptUpload(n, i) \/ RecryptCommit(n, i)
    \/ \E i \in Lock \cup Recrypt : ReplicateLockChange(n, i)

Finish == \E i \in Put \cup Delete : Answer(i) \/ DeleteOldBlob(i)

Deliver == \E m \in msgs : ReceiveObject(m) \/ ReceiveVersionDelete(m)

AntiEntropy ==
  \E n \in Pulling : \/ \E p \in Peers(n) : FetchManifest(n, p)
                     \/ ApplyManifest(n)
                     \/ RepairBlob(n)

Next == Client \/ Finish \/ Deliver \/ AntiEntropy \/ \E n \in Node : Restart(n)

Spec == Init /\ [][Next]_vars

\* The anti-entropy worker of every node keeps visiting every peer.
Fairness ==
  \A n \in Pulling : /\ \A p \in Peers(n) : SF_vars(FetchManifest(n, p))
                     /\ WF_vars(ApplyManifest(n))
                     /\ WF_vars(RepairBlob(n))

FairSpec == Spec /\ Fairness
------------------------------------------------------------------------------
\* Every variable has its type.
TypeOK ==
  /\ clock \in Nat
  /\ row \in [Node -> Row]
  /\ seq \in [Node -> Nat]
  /\ disk \in [Node -> SUBSET Blob]
  /\ req \in [Request -> RequestState]
  /\ msgs \in SUBSET Message
  /\ hwm \in [Node -> [Node -> Nat]]
  /\ pull \in [Node -> PullState]
  /\ restarts \in Nat

\* Every node has consumed everything its peers have.
CaughtUp == \A n \in Node : \A p \in Peers(n) : hwm[n][p] >= seq[p]

\* Eventual convergence, its safety half (guide/ha.md, "both modes converge"):
\* once every cursor has reached the end of every peer's manifest no pull will
\* ever change a row again, so all nodes must hold the same row by then.
CaughtUpAgree == CaughtUp => \A n, p \in Node : row[n] = row[p]

\* Node n holds the PUT i, row and bytes (its own blob or the re-encrypted copy
\* the row names now), or a row that supersedes it.
HoldsPut(n, i) ==
  \/ row[n].lm > req[i].lm
  \/ row[n].lm = req[i].lm /\ row[n].etag > i
  \/ row[n].lm = req[i].lm /\ row[n].etag = i /\ {i, row[n].blob} \cap disk[n] # {}

\* Decision H1: a PUT is acknowledged only when a write quorum of nodes holds
\* it, row and blob, at that moment (fan_out_object, enforce_ack_quorum).
AckedPutIsDurable ==
  [][\A i \in Put :
       req[i].phase = "fanout" /\ req'[i].phase = "acked"
         => Cardinality({n \in Node : HoldsPut(n, i)}) >= Quorum]_vars

\* Node n has recorded the delete i, or holds a later write.
HoldsDelete(n, i) == ~Live(row[n]) \/ row[n].lm > req[i].lm

\* Decision H4: a hard delete is held to the same write quorum: when it is
\* acknowledged, a quorum of nodes no longer serves the object it deleted
\* (fan_out_version_delete, enforce_ack_quorum).  It does not hold when a delete
\* overtakes its PUT: apply_remote_version_delete records nothing on a node
\* without the row.
AckedDeleteIsDurable ==
  [][\A i \in Delete :
       req[i].phase = "fanout" /\ req'[i].phase = "acked"
         => Cardinality({n \in Node : HoldsDelete(n, i)}) >= Quorum]_vars

\* The step leaves node n with another version of the object, or with the lock
\* state and the content it had, or with later ones.
RegistersKept(n) ==
  row[n].lm = row'[n].lm /\ row[n].etag = row'[n].etag
    => /\ row'[n].lockAt >= row[n].lockAt
       /\ row'[n].contentAt >= row[n].contentAt
       /\ row'[n].lockAt = row[n].lockAt => row'[n].hold = row[n].hold
       /\ row'[n].contentAt = row[n].contentAt => row'[n].blob = row[n].blob

\* Decision N2: as long as a node keeps the same version of the object, no
\* copy that arrives takes its lock state or its content back to an older one.
RegistersAdvance == [][\A n \in Node : RegistersKept(n)]_vars

\* Object Lock: the node that serves a delete refuses it when the version is
\* under a legal hold there (delete_object, check_object_lock_allows_delete).
HeldIsNotDeleted ==
  [][\A i \in Delete :
       req[i].phase = "open" /\ req'[i].phase = "fanout"
         => ~row[req[i].node].hold]_vars

\* Last writer wins: a live row is turned into a tombstone only by a delete
\* that was executed after that row's write was stamped.  It does not hold when
\* the call is delayed: the receiver stamps the tombstone itself.
DeleteIsLater ==
  [][\A n \in Node :
       Live(row[n]) /\ ~Live(row'[n])
         => \E i \in Delete : req'[i].lm > row[n].lm]_vars

\* Once the clients stop, the nodes end up with the same row and, if it is
\* live, with its blob everywhere one copy still exists.
Converged ==
  /\ \A n, p \in Node : row[n] = row[p]
  /\ \A n, p \in Node : Live(row[n]) /\ row[n].blob \in disk[p] => row[n].blob \in disk[n]
EventuallyConverged == <>[]Converged
------------------------------------------------------------------------------
\* The parts of the inductive invariant behind CaughtUpAgree.

\* Every copy of the row: stored, on its way to a peer, fetched from one.
Copies == {NoRow} \cup {row[n] : n \in Node} \cup {m.row : m \in msgs}
                  \cup {pull[n].row : n \in Node}

\* No copy is from the future, and only the missing row has no timestamp.
Stamped(r) ==
  /\ r.lm <= clock /\ r.lockAt <= clock /\ r.contentAt <= clock
  /\ r.lm = 0 => r = NoRow

\* Two copies with one last_modified are copies of one write that differ only
\* in registers with different timestamps, or the rows of two PUTs of one instant.
Coherent(a, b) ==
  a.lm = b.lm =>
    IF a.etag = b.etag
      THEN /\ a.dead = b.dead
           /\ a.lockAt = b.lockAt => a.hold = b.hold
           /\ a.contentAt = b.contentAt => a.blob = b.blob
      ELSE SameInstant /\ Live(a) /\ Live(b)

\* Between PUTs of one instant the blob id decides; only a re-encryption moves it.
Undisturbed(r) == Recrypt = {} /\ Live(r) => r.blob = r.etag

\* What PUT i is about to install is nowhere yet.
PutIsNew(i) ==
  req[i].phase \in {"idle", "open"} =>
    /\ \A r \in Copies : r.etag # i
    /\ req[i].phase = "open" =>
         /\ req[i].lm \in 1 .. clock
         /\ \A r \in Copies : r.lm = req[i].lm => SameInstant /\ Live(r)
         /\ \A j \in Put \ {i} : req[j].phase = "open" /\ req[j].lm = req[i].lm
                                   => SameInstant

\* A cursor never runs ahead of the peer, and at its end nothing was missed.
Consumed(n, p) ==
  /\ hwm[n][p] <= seq[p]
  /\ hwm[n][p] = seq[p] => Absorbs(row[n], row[p])

\* A fetched manifest is the peer's row, or the peer has a later seq by now.
PullIsPrefix(n) ==
  pull[n] # NoPull =>
    /\ pull[n].peer \in Peers(n)
    /\ pull[n].seq <= seq[pull[n].peer]
    /\ pull[n].seq = seq[pull[n].peer] => pull[n].row = row[pull[n].peer]

\* What the code promises about timestamps, whatever overlaps: all copies come
\* from distinct writes and never carry two values under one timestamp.
Lineage ==
  /\ \A r \in Copies : Stamped(r) /\ Undisturbed(r)
  /\ \A a, b \in Copies : Coherent(a, b)
  /\ \A i \in Put : PutIsNew(i)

\* Anti-entropy misses nothing: what a node has consumed from a peer is merged
\* into its own row, so a cursor at the end of the peer's manifest means that
\* the peer has nothing to teach (reconcile_peer_objects, apply_entries).
NothingMissed ==
  /\ \A n \in Node : PullIsPrefix(n)
  /\ \A n \in Node : \A p \in Peers(n) : Consumed(n, p)
------------------------------------------------------------------------------
\* The parts of the inductive invariant behind AckedPutIsDurable.

\* PUT i has its timestamp and its node, and will not commit any more.
Settled(i) == req[i].phase \notin {"idle", "open"}

\* Node n has the row and the blob of PUT i, or a row that supersedes it.
KeepsPut(n, i) ==
  \/ row[n].lm > req[i].lm
  \/ row[n].lm = req[i].lm /\ row[n].etag > i
  \/ row[n].lm = req[i].lm /\ row[n].etag = i /\ i \in disk[n]

\* The blob of a PUT is in no row but the one that PUT wrote.
BlobIsOwn(r) == \A i \in Put : r.blob = i => Settled(i) /\ r.lm = req[i].lm

\* The calls of a PUT carry its row to the other nodes.
CarriesPut(m) ==
  m.req \in Put => /\ m.kind = "object" /\ Settled(m.req)
                   /\ m.row = PutRow(m.req, req[m.req].lm)
                   /\ m.to # req[m.req].node

\* The blob a PUT or DELETE is to remove from its node was superseded there.
OldIsBehind(j) ==
  /\ ~Settled(j) => req[j].old = 0
  /\ \A i \in Put : req[j].old = i =>
       req[j].node \in Node /\ Settled(i) /\ row[req[j].node].lm > req[i].lm

\* Whoever is counted for PUT i, its own node first, still has it.
CountedKeep(i) ==
  /\ ~Settled(i) => req[i].acks = {}
  /\ req[i].phase = "open" => req[i].node \in Node /\ i \in disk[req[i].node]
  /\ req[i].phase = "fanout" =>
       /\ req[i].node \in Node /\ req[i].acks \subseteq Peers(req[i].node)
       /\ \A n \in req[i].acks \cup {req[i].node} : KeepsPut(n, i)

\* An acknowledgement stays true until the request is answered.
AcksStand ==
  /\ \A r \in Copies : BlobIsOwn(r)
  /\ \A m \in msgs : CarriesPut(m)
  /\ \A j \in Put \cup Delete : OldIsBehind(j)
  /\ \A i \in Put : CountedKeep(i)
==============================================================================
