-------------------------------- MODULE PgStore --------------------------------
(***************************************************************************)
(* The object rows of the PostgreSQL store (arca-storage/src/pg), written  *)
(* by concurrent READ COMMITTED transactions: a SELECT sees what is        *)
(* committed when it runs and never waits, so a transaction that decides   *)
(* by what it read must hold the write gate (pg/write_gate.rs) before.     *)
(*                                                                         *)
(* In a cluster the gate is the row lock of the object_seq counter; on a   *)
(* single node it is an advisory lock on a hash of the key, and the seq    *)
(* comes from a sequence that is not transactional.  The statements of a   *)
(* transaction after its gate and its reads are one step, the commit.      *)
(***************************************************************************)
EXTENDS Naturals, Sequences, FiniteSets, FiniteSetsExt, SequencesExt

CONSTANTS
    Tx,            \* transactions, positive naturals; also the blobs and version ids they make
    Key,           \* object keys
    Hash,          \* key_lock_id: the advisory lock of a key, a positive natural
    Op,            \* the operations that are requested
    Versionings,   \* the bucket's versioning states
    Modes,         \* modes the store is opened in: "single", "cluster"
    Stamp,         \* last_modified of the records that peers send
    Overlap        \* may a write to a key commit while an apply is between its read and its gate?

VARIABLES
    rows,       \* committed rows of objects
    versioning, \* versioning state of the bucket
    mode,       \* cluster_mode of the running process
    counter,    \* object_seq
    local,      \* object_seq_local
    clock,      \* the last time stamp given
    lock,       \* owner of each lock, 0 when free
    upload,     \* is the row of the one multipart upload there?
    taken,      \* the transaction that took the upload's parts, 0 before
    tx,         \* transactions
    cursor,     \* how far a peer has read the changed-since manifest
    got         \* rows the peer has read

vars == <<rows, versioning, mode, counter, local, clock, lock, upload, taken, tx, cursor, got>>

Counter == 0                              \* the lock of the object_seq row
UploadRow == 1 + Max({Hash[k] : k \in Key})   \* the lock of the upload's row
Locks == {Hash[k] : k \in Key} \cup {Counter, UploadRow}

New == [pc |-> "new", op |-> "none", keys |-> <<>>, stamp |-> 0, vid |-> 0, tomb |-> FALSE,
        seq |-> 0, wants |-> <<>>, seen |-> {}, ok |-> FALSE]

Row == [key : Key, vid : Tx \cup {0}, stamp : Nat, by : Tx, tomb : BOOLEAN,
        marker : BOOLEAN, latest : BOOLEAN, seq : Nat]

\* Types of the variables.
TypeOK ==
    /\ rows \subseteq Row
    /\ versioning \in Versionings /\ mode \in Modes
    /\ counter \in Nat /\ local \in Nat /\ clock \in Nat
    /\ lock \in [Locks -> Tx \cup {0}]
    /\ upload \in BOOLEAN /\ taken \in Tx \cup {0}
    /\ \A p \in Tx :
          /\ tx[p].pc \in {"new", "begun", "known", "gated", "read", "over"}
          /\ tx[p].keys \in Seq(Key) /\ tx[p].wants \in Seq(Locks) /\ tx[p].seen \subseteq Row
    /\ cursor \in Nat

Init ==
    /\ rows = {}
    /\ versioning \in Versionings /\ mode \in Modes
    /\ counter = 0 /\ local = 0 /\ clock = 0
    /\ lock = [l \in Locks |-> 0]
    /\ upload = TRUE /\ taken = 0
    /\ tx = [p \in Tx |-> New]
    /\ cursor = 0 /\ got = {}

-----------------------------------------------------------------------------
(* Rows. *)

\* recompute_is_latest: last_modified, version_id (NULL last), blob_id.
NewerThan(r, s) ==
    \/ r.stamp > s.stamp
    \/ r.stamp = s.stamp /\ r.vid > s.vid
    \/ r.stamp = s.stamp /\ r.vid = s.vid /\ r.by > s.by

Recompute(rs, k) ==
    LET live == {r \in rs : r.key = k /\ ~ r.tomb}
    IN  {[r EXCEPT !.latest = IF r.key # k THEN r.latest
                              ELSE r \in live /\ \A s \in live \ {r} : NewerThan(r, s)] : r \in rs}

\* fetch_latest_object and fetch_current_object.
Latest(rs, k) == {r \in rs : r.key = k /\ r.latest}
Current(rs, k) == {r \in Latest(rs, k) : ~ r.marker}

Unlatest(rs, k) == {IF r.key = k THEN [r EXCEPT !.latest = FALSE] ELSE r : r \in rs}

NewRow(p, k, vid, stamp, marker) ==
    [key |-> k, vid |-> vid, stamp |-> stamp, by |-> p, tomb |-> FALSE, marker |-> marker,
     latest |-> TRUE, seq |-> tx[p].seq]

OfKey(rs, k) == {r \in rs : r.key = k}
Null(rs, k) == {r \in rs : r.key = k /\ r.vid = 0}

\* install_object after its gate and its precondition.
Install(rs, p, k) ==
    LET new(vid) == NewRow(p, k, vid, tx[p].stamp, FALSE)
    IN  CASE versioning = "Unversioned" -> (rs \ OfKey(rs, k)) \cup {new(0)}
          [] versioning = "Enabled"     -> Recompute(Unlatest(rs, k) \cup {new(p)}, k)
          [] versioning = "Suspended"   -> Recompute(Unlatest(rs \ Null(rs, k), k) \cup {new(0)}, k)

\* The row is kept as a tombstone in a cluster, removed on a single node.
Entomb(p, rs, gone) ==
    (rs \ gone) \cup
        (IF mode = "cluster"
         THEN {[r EXCEPT !.tomb = TRUE, !.marker = FALSE, !.stamp = clock, !.seq = tx[p].seq] : r \in gone}
         ELSE {})

\* delete_latest_in_tx.
DeleteLatest(rs, p, k) ==
    CASE versioning = "Unversioned" ->
            IF Latest(rs, k) = {} THEN rs
            ELSE Recompute(Entomb(p, rs, OfKey(rs, k)), k)
      [] versioning = "Enabled" -> Unlatest(rs, k) \cup {NewRow(p, k, p, clock, TRUE)}
      [] versioning = "Suspended" ->
            Unlatest(rs \ Null(rs, k), k) \cup {NewRow(p, k, 0, clock, TRUE)}

\* Mutant of DeleteVersion: is_latest is not recomputed.
DeleteVersionOnly(rs, p, k, vid) ==
    LET found == {r \in rs : r.key = k /\ r.vid = vid /\ ~ r.tomb}
    IN  Entomb(p, rs, found)

\* delete_version_in_tx.
DeleteVersion(rs, p, k, vid) ==
    LET found == {r \in rs : r.key = k /\ r.vid = vid /\ ~ r.tomb}
    IN  IF found = {} THEN rs ELSE Recompute(Entomb(p, rs, found), k)

\* set_object_retention, set_object_legal_hold and update_object_encryption:
\* the current row gets a fresh seq.
Touch(rs, p, k) ==
    {IF r.key = k /\ r.latest THEN [r EXCEPT !.seq = tx[p].seq] ELSE r : r \in rs}

\* apply_remote_version_delete.
EntombVersion(rs, p, k, vid) ==
    Recompute(Entomb(p, rs, {r \in rs : r.key = k /\ r.vid = vid /\ ~ r.tomb}), k)

\* Is a replicated record written over the row that apply_remote_object read?
Wins(t) == \A r \in t.seen : t.stamp > r.stamp

\* apply_remote_object after its gate: the register is replaced.
Replace(rs, p, k) ==
    LET t == tx[p]
        new == [NewRow(p, k, t.vid, t.stamp, FALSE) EXCEPT !.tomb = t.tomb, !.latest = FALSE]
    IN  Recompute({r \in rs : ~ (r.key = k /\ r.vid = t.vid)} \cup {new}, k)

-----------------------------------------------------------------------------
(* The write gate. *)

\* Mutant of LockOrder: a batch locks its keys in the order of the request.
LockOrderGiven(ks) == [i \in DOMAIN ks |-> Hash[ks[i]]]

\* sorted_key_lock_ids: ascending and without duplicates.
LockOrder(ks) == SetToSortSeq({Hash[ks[i]] : i \in DOMAIN ks}, <)

\* The gate: the counter's row lock in a cluster, the locks of the keys otherwise.
GateOf(ks) == IF mode = "cluster" THEN <<Counter>> ELSE LockOrder(ks)

\* Mutant of LocksUpload: complete_multipart_object checks the upload with a plain SELECT.
LocksUploadAbort(op) == op = "abort"

\* FOR UPDATE in complete_multipart_object; the DELETE of take_upload in an abort.
LocksUpload(op) == op \in {"complete", "abort"}

\* Mutant of ReadsBeforeGate: the precondition is evaluated before the gate is held.
ReadsBeforeGateAll(op) == op \in {"apply", "create"}

\* Only apply_remote_object reads the row it decides by before it takes the gate.
ReadsBeforeGate(op) == op = "apply"

\* All locks of a transaction, in the order it takes them.
Plan(op, ks) ==
    (IF LocksUpload(op) THEN <<UploadRow>> ELSE <<>>) \o
    (IF op = "abort" THEN <<>> ELSE GateOf(ks))

Held(p) == {l \in Locks : lock[l] = p}

\* COMMIT or ROLLBACK: the locks are released.
End(p, ok) ==
    /\ tx' = [tx EXCEPT ![p] = [New EXCEPT !.pc = "over", !.op = tx[p].op, !.ok = ok]]
    /\ lock' = [l \in Locks |-> IF lock[l] = p THEN 0 ELSE lock[l]]

\* A transaction starts; last_modified was taken by the handler.
Begin(p, op, ks) ==
    /\ tx[p] = New
    /\ clock' = clock + 1
    /\ \E vid \in {0} \cup {r.vid : r \in rows}, tomb \in BOOLEAN, stamp \in Stamp \cup {clock + 1} :
          /\ op \notin {"apply", "deletever", "unversion"} => vid = 0
          /\ op # "apply" => stamp = clock + 1 /\ ~ tomb
          /\ tx' = [tx EXCEPT ![p] = [New EXCEPT !.pc = "begun", !.op = op, !.keys = ks,
                                        !.stamp = stamp, !.vid = vid, !.tomb = tomb,
                                        !.wants = Plan(op, ks)]]
    /\ UNCHANGED <<rows, versioning, mode, counter, local, lock, upload, taken, cursor, got>>

\* The next lock, once it is free (or already held, for two keys of one hash).
TakeLock(p) ==
    LET l == Head(tx[p].wants)
    IN  /\ tx[p].pc \in {"begun", "known"} /\ tx[p].wants # <<>>
        /\ ReadsBeforeGate(tx[p].op) => tx[p].pc = "known"
        /\ lock[l] \in {0, p}
        /\ lock' = [lock EXCEPT ![l] = p]
        /\ tx' = [tx EXCEPT ![p].wants = Tail(@)]
        /\ UNCHANGED <<rows, versioning, mode, counter, local, clock, upload, taken, cursor, got>>

\* The gate is held: the seq, from the counter or from the sequence.
TakeSeq(p) ==
    /\ tx[p].pc \in {"begun", "known"} /\ tx[p].wants = <<>>
    /\ ReadsBeforeGate(tx[p].op) => tx[p].pc = "known"
    /\ tx' = [tx EXCEPT ![p].pc = IF tx[p].pc = "known" THEN "read" ELSE "gated",
                        ![p].seq = IF mode = "cluster" THEN counter + 1 ELSE local + 1]
    /\ local' = IF mode = "single" /\ tx[p].op # "abort" THEN local + 1 ELSE local
    /\ UNCHANGED <<rows, versioning, mode, counter, clock, lock, upload, taken, cursor, got>>

\* The reads: the rows of the key, the upload's row.
Read(p) ==
    /\ tx[p].pc = IF ReadsBeforeGate(tx[p].op) THEN "begun" ELSE "gated"
    /\ tx' = [tx EXCEPT
          ![p].pc = IF ReadsBeforeGate(tx[p].op) THEN "known" ELSE "read",
          ![p].seen = CASE tx[p].op = "apply"  -> {r \in OfKey(rows, tx[p].keys[1]) : r.vid = tx[p].vid}
                        [] tx[p].op = "create" -> Current(rows, tx[p].keys[1])
                        [] OTHER               -> {}]
    /\ UNCHANGED <<rows, versioning, mode, counter, local, clock, lock, upload, taken, cursor, got>>

\* The update of the counter becomes visible with the commit.
CountSeq(p) == counter' = IF mode = "cluster" THEN tx[p].seq ELSE counter

\* May a write to key k commit now?  See Overlap.
NotApplying(p, k) ==
    Overlap \/ \A q \in Tx \ {p} : tx[q].op = "apply" /\ tx[q].pc \in {"known", "read"} => tx[q].keys[1] # k

Commit(p, rs) ==
    /\ tx[p].pc = "read"
    /\ \A i \in DOMAIN tx[p].keys : NotApplying(p, tx[p].keys[i])
    /\ rows' = rs
    /\ CountSeq(p)
    /\ End(p, TRUE)
    /\ UNCHANGED <<versioning, mode, local, clock, cursor, got>>

K(p) == tx[p].keys[1]

PutObject(p) ==
    /\ tx[p].op = "put"
    /\ Commit(p, Install(rows, p, K(p)))
    /\ UNCHANGED <<upload, taken>>

\* put_object_if with If-None-Match: *.
CreateObject(p) ==
    /\ tx[p].op = "create" /\ tx[p].seen = {}
    /\ Commit(p, Install(rows, p, K(p)))
    /\ UNCHANGED <<upload, taken>>

CreateRefused(p) ==
    /\ tx[p].op = "create" /\ tx[p].pc = "read" /\ tx[p].seen # {}
    /\ End(p, FALSE)
    /\ UNCHANGED <<rows, versioning, mode, counter, local, clock, upload, taken, cursor, got>>

DeleteObject(p) ==
    /\ tx[p].op = "delete"
    /\ Commit(p, DeleteLatest(rows, p, K(p)))
    /\ UNCHANGED <<upload, taken>>

DeleteObjectVersion(p) ==
    /\ tx[p].op = "deletever"
    /\ Commit(p, DeleteVersion(rows, p, K(p), tx[p].vid))
    /\ UNCHANGED <<upload, taken>>

\* delete_batch_single_node: every entry in one transaction.
DeleteBatch(p) ==
    /\ tx[p].op = "batch"
    /\ Commit(p, FoldSeq(LAMBDA k, rs : DeleteLatest(rs, p, k), rows, tx[p].keys))
    /\ UNCHANGED <<upload, taken>>

UpdateObject(p) ==
    /\ tx[p].op = "touch"
    /\ Commit(p, Touch(rows, p, K(p)))
    /\ UNCHANGED <<upload, taken>>

ApplyRemoteObject(p) ==
    /\ tx[p].op = "apply" /\ Wins(tx[p])
    /\ Commit(p, Replace(rows, p, K(p)))
    /\ UNCHANGED <<upload, taken>>

\* The record loses: no gate, no seq, the flags are still recomputed.
ApplySkipped(p) ==
    /\ tx[p].op = "apply" /\ tx[p].pc = "known" /\ ~ Wins(tx[p])
    /\ NotApplying(p, K(p))
    /\ rows' = Recompute(rows, K(p))
    /\ End(p, TRUE)
    /\ UNCHANGED <<versioning, mode, counter, local, clock, upload, taken, cursor, got>>

ApplyRemoteVersionDelete(p) ==
    /\ tx[p].op = "unversion"
    /\ Commit(p, EntombVersion(rows, p, K(p), tx[p].vid))
    /\ UNCHANGED <<upload, taken>>

\* complete_multipart_object: the object and the consumption of the upload.
CompleteUpload(p) ==
    /\ tx[p].op = "complete" /\ upload
    /\ Commit(p, Install(rows, p, K(p)))
    /\ upload' = FALSE /\ taken' = p

\* Without the row lock: the parts were taken by an abort that came first.
CompleteLate(p) ==
    /\ tx[p].op = "complete" /\ ~ upload
    /\ tx[p].pc = "read"
    /\ IF UploadRow \in Held(p)
       THEN End(p, FALSE) /\ UNCHANGED <<rows, counter>>
       ELSE /\ rows' = Install(rows, p, K(p))
            /\ CountSeq(p)
            /\ End(p, TRUE)
    /\ UNCHANGED <<versioning, mode, local, clock, upload, taken, cursor, got>>

\* delete_multipart_upload: take_upload finds the parts or nothing.
AbortUpload(p) ==
    /\ tx[p].op = "abort" /\ tx[p].pc = "read"
    /\ upload' = FALSE
    /\ taken' = IF upload THEN p ELSE taken
    /\ End(p, upload)
    /\ UNCHANGED <<rows, versioning, mode, counter, local, clock, cursor, got>>

\* The connection is lost: the server rolls the transaction back.
Rollback(p) ==
    /\ tx[p].pc \notin {"new", "over"}
    /\ End(p, FALSE)
    /\ UNCHANGED <<rows, versioning, mode, counter, local, clock, upload, taken, cursor, got>>

-----------------------------------------------------------------------------
(* Outside of the gate. *)

\* purge_tombstones.
PurgeTombstones ==
    /\ mode = "cluster"
    /\ \E r \in rows : r.tomb /\ <<r.key, r.vid, r.seq, r.by>> \in got
    /\ rows' = {r \in rows : ~ (r.tomb /\ <<r.key, r.vid, r.seq, r.by>> \in got)}
    /\ UNCHANGED <<versioning, mode, counter, local, clock, lock, upload, taken, tx, cursor, got>>

\* list_rows_changed_since, and the cursor the peer keeps.
ReadManifest ==
    LET new == {r \in rows : r.seq > cursor}
    IN  /\ mode = "cluster" /\ new # {}
        /\ cursor' = Max({r.seq : r \in new})
        /\ got' = got \cup {<<r.key, r.vid, r.seq, r.by>> : r \in new}
        /\ UNCHANGED <<rows, versioning, mode, counter, local, clock, lock, upload, taken, tx>>

Highest == Max({counter, local} \cup {r.seq : r \in rows})

\* Mutant of Reconcile: only the generator of the new mode's counter is raised.
ReconcileCounter == counter' = Highest /\ UNCHANGED local

\* reconcile_object_seq.
Reconcile == counter' = Highest /\ local' = Highest

\* The store is opened again, maybe in the other mode.
Restart(m) ==
    /\ m # mode
    /\ \A p \in Tx : tx[p].pc \in {"new", "over"}
    /\ mode' = m
    /\ Reconcile
    /\ UNCHANGED <<rows, versioning, clock, lock, upload, taken, tx, cursor, got>>

-----------------------------------------------------------------------------
\* A batch locks all its keys on a single node only; peers write in a cluster only.
Requests(p) ==
    \/ \E op \in Op \ {"batch", "apply", "unversion"}, k \in Key : Begin(p, op, <<k>>)
    \/ \E k \in Key, op \in Op \cap {"apply", "unversion"} : mode = "cluster" /\ Begin(p, op, <<k>>)
    \/ \E ks \in SetToSeqs(Key) : "batch" \in Op /\ mode = "single" /\ Begin(p, "batch", ks)

Work(p) ==
    \/ TakeLock(p) \/ TakeSeq(p) \/ Read(p)
    \/ PutObject(p) \/ CreateObject(p) \/ CreateRefused(p)
    \/ DeleteObject(p) \/ DeleteObjectVersion(p) \/ DeleteBatch(p) \/ UpdateObject(p)
    \/ ApplyRemoteObject(p) \/ ApplySkipped(p) \/ ApplyRemoteVersionDelete(p)
    \/ CompleteUpload(p) \/ CompleteLate(p) \/ AbortUpload(p)

Next ==
    \/ \E p \in Tx : Requests(p) \/ Work(p) \/ Rollback(p)
    \/ PurgeTombstones \/ ReadManifest
    \/ \E m \in Modes : Restart(m)

Spec == Init /\ [][Next]_vars

FairSpec == Spec /\ \A p \in Tx : WF_vars(Work(p))

-----------------------------------------------------------------------------
(* Properties. *)

\* Of the versions of a key that are not deleted exactly one is the latest,
\* whatever two transactions read of each other (the partial unique index
\* would otherwise make one of them fail).
OneLatest ==
    \A k \in Key : LET live == {r \in rows : r.key = k /\ ~ r.tomb}
                   IN  Cardinality({r \in live : r.latest}) = IF live = {} THEN 0 ELSE 1

\* A conditional create commits only when the key has no object at that
\* moment, although its SELECT does not block anybody.
CreateHoldsStep ==
    \A p \in Tx : tx[p].op = "create" /\ tx[p].pc = "read" /\ tx'[p].ok
       => Current(rows, K(p)) = {}

\* The same, as a property of the behaviour: every step is such a step.
CreateHolds == [][CreateHoldsStep]_vars

\* A peer that reads the manifest never passes a row that is still in flight,
\* and no change between the modes issues a seq that a row has used.
CursorSkipsNothing == \A r \in rows : r.seq <= cursor => <<r.key, r.vid, r.seq, r.by>> \in got

\* A multipart object is installed by a transaction that also took the parts;
\* an abort never deletes the parts of an object.
CompletedOwnsParts == \A p \in Tx : tx[p].op = "complete" /\ tx[p].ok => taken = p

\* Applying a record of a peer never replaces a row by an older one.
ApplyMovesForward ==
    [][\A p \in Tx : tx[p].op = "apply" /\ tx[p].pc \in {"known", "read"} /\ tx'[p].pc = "over" =>
          \A r \in rows, s \in rows' : r.key = s.key /\ r.vid = s.vid => s.stamp >= r.stamp]_vars

\* No transaction waits for ever: two batches over the same keys, and writers
\* of keys that share a hash, always get their locks.
Begun(p) == tx[p].pc # "new"
Over(p) == tx[p].pc = "over"
TransactionsEnd == \A p \in Tx : Begun(p) ~> Over(p)
=============================================================================
