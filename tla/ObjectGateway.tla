--------------------------- MODULE ObjectGateway ---------------------------
(* The object handlers of one node (arca-proto handlers/object.rs and the    *)
(* batch delete of handlers/bucket.rs) over its metadata store and blob      *)
(* store.  Every handler is a sequence of awaits: rows are read, blobs are   *)
(* written, one transaction commits, and blobs that lost their row are       *)
(* deleted afterwards.  Between any two awaits the other requests run.       *)
(*                                                                           *)
(* A request writes at most one blob, named after the request.  The etag of  *)
(* a PUT is the name of its blob; a copy has the etag of its source.         *)
(* Version ids are request names too; 0 is the null version, the absent      *)
(* blob, the absent tag set and the absent part.                             *)
EXTENDS Naturals, FiniteSets, Sequences, SequencesExt

CONSTANTS Request,     \* requests, positive numbers
          Key,         \* object keys
          Op,          \* the operations of this instance
          Versionings, \* the states versioning may have
          Untils,      \* retain-until dates clients ask for
          MaxNow,      \* ticks of the wall clock
          MaxFaults    \* storage errors

VARIABLES versioning,  \* bucket_config "versioning"
          clock,       \* order of the timestamps given out
          now,         \* wall clock of the retention checks
          rows,        \* rows[k]: the rows of table objects
          tags,        \* tags[k][v]: request that wrote the tags of a version
          part,        \* blob of the one part of an open multipart upload
          disk,        \* blobs with their sidecars
          doomed,      \* blobs a spawned task will delete
          req,         \* the requests
          log,         \* committed transactions, in order (history)
          faults

vars == <<versioning, clock, now, rows, tags, part, disk, doomed, req, log, faults>>

NoRow == [vid |-> 0, blob |-> 0, etag |-> 0, at |-> 0, marker |-> FALSE,
          latest |-> FALSE, mode |-> "none", until |-> 0, hold |-> FALSE]

Idle == [op |-> "none", pc |-> "idle", key |-> 0, src |-> 0, vid |-> 0, pre |-> 0,
         at |-> 0, row |-> NoRow, tags |-> 0, mode |-> "none", until |-> 0,
         old |-> 0, res |-> "none"]

\* Preconditions: none, If-None-Match: *, or If-Match with the etag of a request.
NoPre    == 0
IfAbsent == 1000
Pre      == {NoPre, IfAbsent} \cup Request

Vid == Request \cup {0}

--------------------------------------------------------------------------
\* Reading rows.

Latest(k)     == {x \in rows[k] : x.latest}
Current(k)    == {x \in rows[k] : x.latest /\ ~x.marker}
Version(k, v) == {x \in rows[k] : x.vid = v}

\* Mutant of WriteAllowed: the transaction trusts the check made before the
\* body was read.
WriteAllowedTrusting(seen, pre) == TRUE

\* WritePrecondition::evaluate against the rows fetched as current.
WriteAllowed(seen, pre) ==
    /\ pre \in Request => \E x \in seen : x.etag = pre
    /\ pre = IfAbsent => seen = {}

\* DeletePrecondition::evaluate: an absent object never fails it.
DeleteAllowed(seen, pre) == pre \in Request => \A x \in seen : x.etag = pre

Retained(x) == x.mode # "none" /\ now < x.until

\* check_object_lock_allows_delete: a hold, COMPLIANCE, or GOVERNANCE without
\* the bypass header forbid it.
LockAllowsDelete(x, bypass) ==
    /\ ~x.hold
    /\ Retained(x) => x.mode = "GOVERNANCE" /\ bypass

\* Mutant of LockAllowsDeleteBatch: the batch looks at the legal hold only.
LockAllowsDeleteBatchHold(x) == ~x.hold

\* check_object_lock_allows_delete_batch: no bypass in a batch.
LockAllowsDeleteBatch(x) == ~x.hold /\ ~Retained(x)

\* The rule of put_object_retention for a retention in force.
RetentionAllowed(x, mode, until, bypass) ==
    Retained(x) =>
        \/ x.mode = "COMPLIANCE" /\ mode = "COMPLIANCE" /\ until >= x.until
        \/ x.mode = "GOVERNANCE" /\ bypass

--------------------------------------------------------------------------
\* Writing rows: one transaction of the metadata store.

Demoted(set) == {[x EXCEPT !.latest = FALSE] : x \in set}

\* recompute_is_latest: newest last_modified, then version id, then blob id.
Newer(x, y) ==
    \/ x.at > y.at
    \/ x.at = y.at /\ x.vid > y.vid
    \/ x.at = y.at /\ x.vid = y.vid /\ x.blob > y.blob

Recompute(set) ==
    LET top == {x \in set : \A y \in set : [y EXCEPT !.latest = x.latest] = x
                                           \/ Newer(x, y)}
    IN  {[x EXCEPT !.latest = x \in top] : x \in set}

\* Rows of k after install_object has put x there.
Installed(k, x) ==
    CASE versioning = "Unversioned" -> {[x EXCEPT !.vid = 0, !.latest = TRUE]}
      [] versioning = "Enabled" ->
           Recompute(Demoted(rows[k]) \cup {[x EXCEPT !.vid = x.blob]})
      [] versioning = "Suspended" ->
           Recompute(Demoted({y \in rows[k] : y.vid # 0}) \cup {[x EXCEPT !.vid = 0]})

\* The row install_object returns, whose blob has lost its last reference.
Displaced(k) ==
    CASE versioning = "Unversioned" -> Latest(k)
      [] versioning = "Enabled"     -> {}
      [] versioning = "Suspended"   -> Version(k, 0)

\* Mutant of TagsInstalled: the tags of the replaced null version stay.
TagsInstalledKept(k, v, t) ==
    IF t # 0 THEN [tags EXCEPT ![k][v] = t] ELSE tags

\* Tags of k after the same transaction: the replaced versions lose theirs.
TagsInstalled(k, v, t) ==
    CASE versioning = "Unversioned" -> [tags EXCEPT ![k] = [u \in Vid |-> IF u = v THEN t ELSE 0]]
      [] versioning = "Enabled" /\ t = 0 -> tags
      [] OTHER -> [tags EXCEPT ![k][v] = t]

\* Version id install_object gives to the row of request r.
VidOf(r) == IF versioning = "Enabled" THEN r ELSE 0

\* Rows of k after delete_latest_in_tx by request r (single node: rows go).
DeletedLatest(k, r) ==
    LET marker == [NoRow EXCEPT !.at = clock, !.marker = TRUE, !.latest = TRUE]
    IN  CASE versioning = "Unversioned" -> IF Latest(k) = {} THEN rows[k] ELSE {}
          [] versioning = "Enabled" -> Demoted(rows[k]) \cup {[marker EXCEPT !.vid = r]}
          [] versioning = "Suspended" ->
               Demoted({y \in rows[k] : y.vid # 0}) \cup {marker}

TagsDeletedLatest(k) ==
    CASE versioning = "Unversioned" /\ Latest(k) # {} -> [tags EXCEPT ![k] = [u \in Vid |-> 0]]
      [] versioning = "Suspended" -> [tags EXCEPT ![k][0] = 0]
      [] OTHER -> tags

\* delete_version_in_tx: the row goes and the newest one left becomes latest.
DeletedVersion(k, v) ==
    IF Version(k, v) = {} THEN rows[k] ELSE Recompute(rows[k] \ Version(k, v))

--------------------------------------------------------------------------
\* Requests.

\* The etag that clients see of a key with these rows; 0 if they see none.
EtagIn(set) ==
    LET seen == {x \in set : x.latest /\ ~x.marker}
    IN  IF seen = {} THEN 0 ELSE (CHOOSE x \in seen : TRUE).etag

\* The history of a transaction of r on key k: its precondition, whether it
\* decided what clients see, and the etag they see afterwards.
Logged(r, k, pre, top) ==
    log' = Append(log, [by |-> r, key |-> k, pre |-> pre, top |-> top, etag |-> EtagIn(rows'[k])])

Start(r, q) ==
    /\ req[r].pc = "idle"
    /\ q.op \in Op
    /\ \A s \in Request : s < r => req[s].pc # "idle"   \* names in order of arrival
    /\ req' = [req EXCEPT ![r] = q]

Finish(r, res) == req' = [req EXCEPT ![r].pc = "done", ![r].res = res]

\* put_object up to the body: head_bucket and the early conditional check.
PutCheck(r) ==
    \E k \in Key, pre \in {p \in Pre : p \in Request => p < r} :
      LET q == [Idle EXCEPT !.op = "put", !.key = k, !.pre = pre]
      IN  /\ Start(r, IF WriteAllowed(Current(k), pre)
                      THEN [q EXCEPT !.pc = "body"]
                      ELSE [q EXCEPT !.pc = "done", !.res = "refused"])
          /\ UNCHANGED <<versioning, clock, now, rows, tags, part, disk, doomed, log, faults>>

\* put_object: body, blob, integrity check, timestamp, sidecar, lock headers.
PutBlob(r) ==
    /\ req[r].op = "put" /\ req[r].pc = "body"
    /\ \E lock \in {<<"none", 0>>} \cup ({"COMPLIANCE"} \X Untils) :
         req' = [req EXCEPT ![r].pc = "stored", ![r].at = clock,
                            ![r].mode = lock[1], ![r].until = lock[2]]
    /\ clock' = clock + 1
    /\ disk' = disk \cup {r}
    /\ UNCHANGED <<versioning, now, rows, tags, part, doomed, log, faults>>

\* A body that fails its checks, or a sidecar that cannot be written: the blob
\* is deleted again (write_sidecar_or_discard).
BlobFails(r) ==
    /\ req[r].pc \in {"body", "source"}
    /\ faults < MaxFaults
    /\ faults' = faults + 1
    /\ Finish(r, "refused")
    /\ UNCHANGED <<versioning, clock, now, rows, tags, part, disk, doomed, log>>

NewRow(r) ==
    [NoRow EXCEPT !.blob = r, !.at = req[r].at, !.mode = req[r].mode, !.until = req[r].until,
                  !.etag = IF req[r].op = "copy" THEN req[r].row.etag ELSE r]

\* The transaction of put_object_tagged_if, with what the handler does with
\* its result: the displaced blob is deleted by a spawned task.
Install(r, pre, t) ==
    LET k == req[r].key
    IN  /\ WriteAllowed(Current(k), pre)
        /\ rows' = [rows EXCEPT ![k] = Installed(k, NewRow(r))]
        /\ tags' = TagsInstalled(k, VidOf(r), t)
        /\ doomed' = doomed \cup ({x.blob : x \in Displaced(k)} \ {0})
        /\ Logged(r, k, pre, \E x \in rows'[k] : x.latest /\ x.blob = r)

PutCommit(r) ==
    /\ req[r].op = "put" /\ req[r].pc = "stored"
    /\ Install(r, req[r].pre, 0)
    /\ Finish(r, "ok")
    /\ UNCHANGED <<versioning, clock, now, part, disk, faults>>

\* Mutant of PutRefused: the refused blob stays.
PutRefusedKept(r) ==
    /\ req[r].op = "put" /\ req[r].pc = "stored"
    /\ ~WriteAllowed(Current(req[r].key), req[r].pre)
    /\ Finish(r, "refused")
    /\ UNCHANGED <<versioning, clock, now, rows, tags, part, disk, doomed, log, faults>>

\* The precondition fails in the transaction: the new blob is deleted.
PutRefused(r) ==
    /\ req[r].op = "put" /\ req[r].pc = "stored"
    /\ ~WriteAllowed(Current(req[r].key), req[r].pre)
    /\ disk' = disk \ {r}
    /\ Finish(r, "refused")
    /\ UNCHANGED <<versioning, clock, now, rows, tags, part, doomed, log, faults>>

\* Mutant of CommitError: the handler deletes the blob of the failed request.
CommitErrorDeletes(r) ==
    /\ req[r].op \in {"put", "copy"} /\ req[r].pc = "stored"
    /\ faults < MaxFaults
    /\ faults' = faults + 1
    /\ \/ Install(r, req[r].pre, 0)
       \/ UNCHANGED <<rows, tags, doomed, log>>
    /\ disk' = disk \ {r}
    /\ Finish(r, "error")
    /\ UNCHANGED <<versioning, clock, now, part>>

\* Any other store error: the transaction may have committed all the same, so
\* the handler keeps the blob and answers 500.
CommitError(r) ==
    /\ req[r].op \in {"put", "copy"} /\ req[r].pc = "stored"
    /\ faults < MaxFaults
    /\ faults' = faults + 1
    /\ \/ Install(r, req[r].pre, 0)
       \/ UNCHANGED <<rows, tags, doomed, log>>
    /\ Finish(r, "error")
    /\ UNCHANGED <<versioning, clock, now, part, disk>>

\* The spawned task of put_object and copy_object.
DeleteDisplaced ==
    \E b \in doomed :
      /\ doomed' = doomed \ {b}
      /\ disk' = disk \ {b}
      /\ UNCHANGED <<versioning, clock, now, rows, tags, part, req, log, faults>>

--------------------------------------------------------------------------
\* CopyObject and UploadPartCopy.

\* The source row is read before anything is written.
ReadSource(r, q, t) ==
    LET seen == Current(q.src)
    IN  Start(r, IF seen = {} THEN [q EXCEPT !.pc = "done", !.res = "refused"]
                 ELSE [q EXCEPT !.pc = "source", !.row = CHOOSE x \in seen : TRUE, !.tags = t])

\* The source blob is copied.  Its row may be gone by now, and the blob with it.
CopySource(r) ==
    IF req[r].row.blob \in disk
    THEN /\ disk' = disk \cup {r}
         /\ req' = [req EXCEPT ![r].pc = "stored", ![r].at = clock]
         /\ clock' = clock + 1
    ELSE Finish(r, "error") /\ UNCHANGED <<disk, clock>>

\* copy_object: source row, then source tags.
CopyRead(r) ==
    \E k \in Key, s \in Key :
      LET seen == Current(s)
          t    == IF seen = {} THEN 0 ELSE tags[s][(CHOOSE x \in seen : TRUE).vid]
      IN  /\ ReadSource(r, [Idle EXCEPT !.op = "copy", !.key = k, !.src = s], t)
          /\ UNCHANGED <<versioning, clock, now, rows, tags, part, disk, doomed, log, faults>>

CopyBlob(r) ==
    /\ req[r].op = "copy" /\ req[r].pc = "source"
    /\ CopySource(r)
    /\ UNCHANGED <<versioning, now, rows, tags, part, doomed, log, faults>>

\* upload_part_copy: upload, then source row.
PartCopyRead(r) ==
    \E s \in Key :
      /\ ReadSource(r, [Idle EXCEPT !.op = "partcopy", !.src = s], 0)
      /\ UNCHANGED <<versioning, clock, now, rows, tags, part, disk, doomed, log, faults>>

PartCopyBlob(r) ==
    /\ req[r].op = "partcopy" /\ req[r].pc = "source"
    /\ CopySource(r)
    /\ UNCHANGED <<versioning, now, rows, tags, part, doomed, log, faults>>

CopyCommit(r) ==
    /\ req[r].op = "copy" /\ req[r].pc = "stored"
    /\ Install(r, NoPre, IF req[r].tags = 0 THEN 0 ELSE r)
    /\ Finish(r, "ok")
    /\ UNCHANGED <<versioning, clock, now, part, disk, faults>>

\* put_part returns the part it replaced, whose blob the handler deletes.
PartCopyCommit(r) ==
    /\ req[r].op = "partcopy" /\ req[r].pc = "stored"
    /\ part' = r
    /\ req' = [req EXCEPT ![r].pc = "cleanup", ![r].old = part]
    /\ UNCHANGED <<versioning, clock, now, rows, tags, disk, doomed, log, faults>>

--------------------------------------------------------------------------
\* GET and HEAD: the row, then (GET) the blob.

GetRow(r) ==
    \E k \in Key :
      LET q == [Idle EXCEPT !.op = "get", !.key = k]
      IN  /\ Start(r, IF Current(k) = {} THEN [q EXCEPT !.pc = "done", !.res = "refused"]
                      ELSE [q EXCEPT !.pc = "read", !.row = CHOOSE x \in Current(k) : TRUE])
          /\ UNCHANGED <<versioning, clock, now, rows, tags, part, disk, doomed, log, faults>>

\* head_object stops at the row.
HeadRow(r) ==
    \E k \in Key :
      /\ Start(r, [Idle EXCEPT !.op = "head", !.key = k, !.pc = "done",
                               !.res = IF Current(k) = {} THEN "refused" ELSE "ok"])
      /\ UNCHANGED <<versioning, clock, now, rows, tags, part, disk, doomed, log, faults>>

\* The displaced blob may have been deleted since the row was read: 500.
GetBlob(r) ==
    /\ req[r].op = "get" /\ req[r].pc = "read"
    /\ Finish(r, IF req[r].row.blob \in disk THEN "ok" ELSE "error")
    /\ UNCHANGED <<versioning, clock, now, rows, tags, part, disk, doomed, log, faults>>

--------------------------------------------------------------------------
\* Deletes.

\* delete_object without a version id: the early check of the precondition.
DeleteCheck(r) ==
    \E k \in Key, pre \in {p \in Pre \ {IfAbsent} : p \in Request => p < r} :
      LET q == [Idle EXCEPT !.op = "delete", !.key = k, !.pre = pre]
      IN  /\ Start(r, IF DeleteAllowed(Latest(k), pre) THEN [q EXCEPT !.pc = "checked"]
                      ELSE [q EXCEPT !.pc = "done", !.res = "refused"])
          /\ UNCHANGED <<versioning, clock, now, rows, tags, part, disk, doomed, log, faults>>

\* delete_object_if; the blob of the returned row is deleted by the handler.
DeleteCommit(r) ==
    LET k == req[r].key
    IN  /\ req[r].op = "delete" /\ req[r].pc = "checked"
        /\ IF DeleteAllowed(Latest(k), req[r].pre)
           THEN /\ rows' = [rows EXCEPT ![k] = DeletedLatest(k, r)]
                /\ tags' = TagsDeletedLatest(k)
                /\ clock' = clock + 1
                /\ Logged(r, k, req[r].pre, Latest(k) # {})
                /\ req' = [req EXCEPT ![r].pc = "cleanup",
                                      ![r].old = LET gone == {x \in Displaced(k) : ~x.marker}
                                                 IN  IF gone = {} THEN 0 ELSE (CHOOSE x \in gone : TRUE).blob]
           ELSE Finish(r, "refused") /\ UNCHANGED <<rows, tags, clock, log>>
        /\ UNCHANGED <<versioning, now, part, disk, doomed, faults>>

\* The version a delete is about; the row the lock check reads.
ExistingVid(k) == {0} \cup {x.vid : x \in rows[k]}
SeenVersion(k, v) == IF Version(k, v) = {} THEN NoRow ELSE CHOOSE x \in Version(k, v) : TRUE

\* delete_object with a version id: the lock check is a read of its own.
VersionDeleteCheck(r) ==
    \E k \in Key, bypass \in BOOLEAN : \E v \in ExistingVid(k) :
      LET q  == [Idle EXCEPT !.op = "deletever", !.key = k, !.vid = v]
          ok == \A x \in Version(k, v) : x.marker \/ LockAllowsDelete(x, bypass)
      IN  /\ Start(r, IF ok THEN [q EXCEPT !.pc = "checked", !.row = SeenVersion(k, v)]
                      ELSE [q EXCEPT !.pc = "done", !.res = "refused"])
          /\ UNCHANGED <<versioning, clock, now, rows, tags, part, disk, doomed, log, faults>>

\* The transaction on one version, and the blob the caller is to delete.
DropVersion(r, k, v) ==
    /\ rows' = [rows EXCEPT ![k] = DeletedVersion(k, v)]
    /\ tags' = IF Version(k, v) = {} THEN tags ELSE [tags EXCEPT ![k][v] = 0]
    /\ req' = [req EXCEPT ![r].pc = "cleanup", ![r].old = SeenVersion(k, v).blob]
    /\ Logged(r, k, NoPre, FALSE)

\* delete_object_version_if.
VersionDeleteCommit(r) ==
    /\ req[r].op = "deletever" /\ req[r].pc = "checked"
    /\ DropVersion(r, req[r].key, req[r].vid)
    /\ UNCHANGED <<versioning, clock, now, part, disk, doomed, faults>>

\* delete_objects, one entry: entries with a version id are lock-checked, all
\* of them before the transaction; the entries of a batch do not interact.
BatchCheck(r) ==
    \E k \in Key : \E v \in ExistingVid(k) :
      LET q  == [Idle EXCEPT !.op = "batch", !.key = k, !.vid = v]
          ok == \A x \in Version(k, v) : x.marker \/ LockAllowsDeleteBatch(x)
      IN  /\ Start(r, IF ok THEN [q EXCEPT !.pc = "checked", !.row = SeenVersion(k, v)]
                      ELSE [q EXCEPT !.pc = "done", !.res = "refused"])
          /\ UNCHANGED <<versioning, clock, now, rows, tags, part, disk, doomed, log, faults>>

\* The entry's savepoint in delete_objects_if.
BatchCommit(r) ==
    /\ req[r].op = "batch" /\ req[r].pc = "checked"
    /\ DropVersion(r, req[r].key, req[r].vid)
    /\ UNCHANGED <<versioning, clock, now, part, disk, doomed, faults>>

\* The handler deletes the blob it was given before it answers.
DeleteOldBlob(r) ==
    /\ req[r].pc = "cleanup"
    /\ disk' = disk \ {req[r].old}
    /\ Finish(r, "ok")
    /\ UNCHANGED <<versioning, clock, now, rows, tags, part, doomed, log, faults>>

--------------------------------------------------------------------------
\* Tags, retention, legal hold.

\* resolve_version_for_tagging: the version a tagging request is about.
TagResolve(r) ==
    \E k \in Key, op \in {"tag", "untag"} :
      LET q == [Idle EXCEPT !.op = op, !.key = k]
      IN  /\ Start(r, IF Current(k) = {} THEN [q EXCEPT !.pc = "done", !.res = "refused"]
                      ELSE [q EXCEPT !.pc = "checked", !.vid = (CHOOSE x \in Current(k) : TRUE).vid])
          /\ UNCHANGED <<versioning, clock, now, rows, tags, part, disk, doomed, log, faults>>

\* put_object_tags and delete_object_tags do not look at table objects.
TagWrite(r) ==
    /\ req[r].op \in {"tag", "untag"} /\ req[r].pc = "checked"
    /\ tags' = [tags EXCEPT ![req[r].key][req[r].vid] = IF req[r].op = "tag" THEN r ELSE 0]
    /\ UNCHANGED <<versioning, clock, now, rows, part, disk, doomed, faults>>
    /\ Logged(r, req[r].key, NoPre, FALSE)
    /\ Finish(r, "ok")

\* put_object_retention reads the retention in force ...
RetentionCheck(r) ==
    \E k \in Key, v \in Request, mode \in {"COMPLIANCE", "GOVERNANCE"}, until \in Untils,
       bypass \in BOOLEAN :
      LET q  == [Idle EXCEPT !.op = "retain", !.key = k, !.vid = v, !.mode = mode, !.until = until]
          ok == \A x \in Version(k, v) : RetentionAllowed(x, mode, until, bypass)
      IN  /\ Start(r, IF Version(k, v) # {} /\ ok THEN [q EXCEPT !.pc = "checked"]
                      ELSE [q EXCEPT !.pc = "done", !.res = "refused"])
          /\ UNCHANGED <<versioning, clock, now, rows, tags, part, disk, doomed, log, faults>>

\* ... and set_object_retention overwrites whatever is there by then.
RetentionWrite(r) ==
    LET k == req[r].key  v == req[r].vid
    IN  /\ req[r].op = "retain" /\ req[r].pc = "checked"
        /\ rows' = [rows EXCEPT ![k] = {IF x.vid = v THEN [x EXCEPT !.mode = req[r].mode, !.until = req[r].until]
                                        ELSE x : x \in rows[k]}]
        /\ Finish(r, IF Version(k, v) = {} THEN "refused" ELSE "ok")
        /\ UNCHANGED <<versioning, clock, now, tags, part, disk, doomed, log, faults>>

\* put_object_legal_hold has nothing to check: one transaction.
LegalHold(r) ==
    \E k \in Key, v \in Request, on \in BOOLEAN :
      /\ Start(r, [Idle EXCEPT !.op = "hold", !.key = k, !.vid = v, !.pc = "done", !.res = "ok"])
      /\ rows' = [rows EXCEPT ![k] = {IF x.vid = v THEN [x EXCEPT !.hold = on] ELSE x : x \in rows[k]}]
      /\ UNCHANGED <<versioning, clock, now, tags, part, disk, doomed, log, faults>>

--------------------------------------------------------------------------
\* put_bucket_versioning: Enabled and Suspended, never back to unversioned.
SetVersioning ==
    \E s \in Versionings \ {versioning, "Unversioned"} :
      /\ versioning' = s
      /\ UNCHANGED <<clock, now, rows, tags, part, disk, doomed, req, log, faults>>

Tick == now < MaxNow /\ now' = now + 1
        /\ UNCHANGED <<versioning, clock, rows, tags, part, disk, doomed, req, log, faults>>

Init ==
    /\ versioning \in Versionings
    /\ clock = 1 /\ now = 0 /\ part = 0 /\ faults = 0
    /\ rows = [k \in Key |-> {}]
    /\ tags = [k \in Key |-> [v \in Vid |-> 0]]
    /\ disk = {} /\ doomed = {}
    /\ req = [r \in Request |-> Idle]
    /\ log = <<>>

Handler(r) ==
    \/ PutCheck(r) \/ PutBlob(r) \/ BlobFails(r) \/ PutCommit(r) \/ PutRefused(r) \/ CommitError(r)
    \/ CopyRead(r) \/ CopyBlob(r) \/ CopyCommit(r)
    \/ PartCopyRead(r) \/ PartCopyBlob(r) \/ PartCopyCommit(r)
    \/ GetRow(r) \/ GetBlob(r) \/ HeadRow(r)
    \/ DeleteCheck(r) \/ DeleteCommit(r)
    \/ VersionDeleteCheck(r) \/ VersionDeleteCommit(r) \/ BatchCheck(r) \/ BatchCommit(r)
    \/ DeleteOldBlob(r)
    \/ TagResolve(r) \/ TagWrite(r)
    \/ RetentionCheck(r) \/ RetentionWrite(r) \/ LegalHold(r)

Next == DeleteDisplaced \/ SetVersioning \/ Tick \/ \E r \in Request : Handler(r)

Spec == Init /\ [][Next]_vars

--------------------------------------------------------------------------
RowType == [vid : Vid, blob : Request \cup {0}, etag : Request \cup {0}, at : Nat,
            marker : BOOLEAN, latest : BOOLEAN,
            mode : {"none", "COMPLIANCE", "GOVERNANCE"}, until : Untils \cup {0}, hold : BOOLEAN]

\* Types; one row per version, and no two latest rows (the unique index of
\* table objects).
TypeOK ==
    /\ versioning \in {"Unversioned", "Enabled", "Suspended"}
    /\ \A k \in Key : /\ rows[k] \subseteq RowType
                      /\ Cardinality(Latest(k)) <= 1
                      /\ \A v \in Vid : Cardinality(Version(k, v)) <= 1
    /\ tags \in [Key -> [Vid -> Vid]]
    /\ part \in Request \cup {0}
    /\ disk \subseteq Request /\ doomed \subseteq Request

\* The blob of every stored row, and of the part, is on disk: whatever
\* commits, fails and is cleaned up in whatever order, no cleanup takes a blob
\* that a row still names (put_object, copy_object, delete_object).
RowHasBlob ==
    /\ \A k \in Key : \A x \in rows[k] : ~x.marker => x.blob \in disk
    /\ part # 0 => part \in disk

\* When every request has been answered and the spawned deletes have run, the
\* only blobs without a row or part are those of requests that ended in a store
\* error: no path of the handlers forgets a blob.
NoBlobForgotten ==
    (doomed = {} /\ \A r \in Request : req[r].pc \in {"idle", "done"})
        => \A b \in disk : \/ \E k \in Key : \E x \in rows[k] : x.blob = b
                           \/ part = b
                           \/ req[b].res = "error"

\* Conditional writes are atomic (put_object_tagged_if, delete_object_if): of
\* two writes of a key with If-Match on one etag that both took effect, the
\* second follows a transaction on the key that made the etag current again.
NoLostUpdate ==
    \A i, j \in DOMAIN log :
      /\ i < j /\ log[i].key = log[j].key
      /\ log[i].pre \in Request /\ log[j].pre = log[i].pre
      /\ log[i].top /\ log[j].top
      => \E m \in i..(j-1) : log[m].key = log[j].key /\ log[m].etag = log[j].pre

\* The position of a request in the log.
Place(r) == CHOOSE i \in DOMAIN log : log[i].by = r

\* A new object never shows the tags of the object it replaced: the tags of a
\* stored version were written with it or after it.
TagsNotInherited ==
    \A k \in Key : \A x \in rows[k] :
      (~x.marker /\ tags[k][x.vid] # 0) => Place(tags[k][x.vid]) >= Place(x.blob)

\* In a bucket whose versioning stays enabled, a version under a legal hold or
\* a retention disappears only by a delete of that version whose own check
\* found it free (check_object_lock_allows_delete and its batch form).
LockBindsDeletesStep ==
    \A k \in Key : \A x \in rows[k] :
       (/\ versioning = "Enabled" /\ ~x.marker
        /\ ~LockAllowsDelete(x, FALSE)
        /\ \A y \in rows'[k] : y.vid # x.vid)
       => \E r \in Request :
             /\ req[r].pc = "checked" /\ req[r].vid = x.vid
             /\ req[r].row.blob = x.blob
             /\ \/ req[r].op = "batch" /\ ~req[r].row.hold /\ req[r].row.until <= now
                \/ req[r].op = "deletever" /\ ~req[r].row.hold

\* The same, as a property of the behaviour: every step is such a step.
LockBindsDeletes == [][LockBindsDeletesStep]_vars

\* "COMPLIANCE retention can only be extended, not shortened or changed": what
\* put_object_retention promises of a version that stays.
ComplianceOnlyExtended ==
    [][\A k \in Key : \A x \in rows[k] :
          (x.mode = "COMPLIANCE" /\ now < x.until)
          => \A y \in rows'[k] : (y.vid = x.vid /\ y.blob = x.blob)
                => y.mode = "COMPLIANCE" /\ y.until >= x.until]_vars

--------------------------------------------------------------------------
\* The parts of the inductive invariant behind TypeOK, RowHasBlob,
\* NoBlobForgotten and LockBindsDeletes.

\* What the names of requests are chosen for: 0 is none of them.
Positive == Request \subseteq Nat \ {0}

\* Request b has committed or has ended: it will write no blob and no row.
Past(b) == b \in Request /\ req[b].pc \in {"cleanup", "done"}

\* The index of table objects: a version has one row, and one row is latest.
Indexed ==
    \A k \in Key : \A x, y \in rows[k] : x.vid = y.vid \/ (x.latest /\ y.latest) => x = y

\* An unversioned bucket has null versions only, and they are latest.
Plain == versioning = "Unversioned" =>
    \A k \in Key : \A x \in rows[k] : x.vid = 0 /\ x.latest /\ ~x.marker

\* The id of a version is the name of a request that is over.
VidsPast == \A k \in Key : \A x \in rows[k] : x.vid = 0 \/ Past(x.vid)

\* Nobody is about to delete blob b, nor to write it.
Unclaimed(b) == Past(b) /\ b \notin doomed /\ \A r \in Request : req[r].pc = "cleanup" => req[r].old # b

\* The blob of a row is on disk, unclaimed, and in no other row.
RowsOwn ==
    /\ \A k \in Key : \A x \in rows[k] :
         IF x.marker THEN x.blob = 0
         ELSE x.blob \in disk /\ Unclaimed(x.blob) /\ part # x.blob
    /\ \A k, l \in Key : \A x \in rows[k], y \in rows[l] :
         x.blob = y.blob /\ x.blob # 0 => k = l /\ x.vid = y.vid

\* So is the blob of the part.
PartOwns == part # 0 => part \in disk /\ Unclaimed(part)

\* A blob is only deleted after the request that wrote it has committed.
ClaimsPast ==
    /\ \A b \in doomed : Past(b)
    /\ \A r \in Request : req[r].pc = "cleanup" => req[r].old = 0 \/ Past(req[r].old)

\* A request that has stored its blob and not committed has it.
StoredIsThere == \A r \in Request : req[r].pc = "stored" => r \in disk

\* Every blob on disk has a row or a part, somebody who will delete it or
\* commit it, or ended in a store error.
Accounted ==
    \A b \in disk : \/ \E k \in Key : \E x \in rows[k] : x.blob = b
                    \/ part = b
                    \/ b \in doomed
                    \/ \E r \in Request : req[r].pc = "cleanup" /\ req[r].old = b
                    \/ req[b].pc = "stored"
                    \/ req[b].res = "error"

\* A request has a result when it is answered.
ResultAtEnd == \A r \in Request : req[r].res # "none" => req[r].pc = "done"

\* In a bucket that is always versioned a version is named after the request
\* that wrote it, and what a delete has checked is that version.
RowsAreNamed ==
    \A k \in Key : \A x \in rows[k] :
      /\ x.vid # 0 /\ (x.mode = "none" => x.until = 0)
      /\ IF x.marker THEN req[x.vid].op = "delete"
         ELSE x.vid = x.blob /\ req[x.vid].op \in {"put", "copy"}

CheckedIsNamed ==
    \A r \in Request : req[r].pc = "checked" /\ req[r].op \in {"deletever", "batch"} /\ req[r].vid # 0 =>
      LET x == req[r].row IN
        /\ x.vid = req[r].vid /\ Past(x.vid)
        /\ IF x.marker THEN req[x.vid].op = "delete"
           ELSE /\ x.vid = x.blob /\ ~x.hold
                /\ req[r].op = "batch" => x.until <= now

\* Behind NoLostUpdate.  A delete marker has no etag, and the last transaction
\* on a key left it with the etag that clients see.
MarkersBare == \A k \in Key : \A x \in rows[k] : x.marker => x.etag = 0

LogIsCurrent ==
    \A i \in DOMAIN log : \E m \in i..Len(log) :
      log[m].key = log[i].key /\ log[m].etag = EtagIn(rows[log[i].key])

\* Behind TagsNotInherited.  A request is logged once, when it is over; the
\* objects and the tags are of logged requests; tags are of versions that exist
\* or have existed.
LoggedOnce ==
    /\ \A i \in DOMAIN log : Past(log[i].by)
    /\ \A i, j \in DOMAIN log : log[i].by = log[j].by => i = j

InLog(b) == \E i \in DOMAIN log : log[i].by = b

RowsLogged == \A k \in Key : \A x \in rows[k] : ~x.marker => InLog(x.blob)

TagsLogged ==
    /\ \A k \in Key : \A v \in Vid : tags[k][v] # 0 => InLog(tags[k][v]) /\ (v = 0 \/ Past(v))
    /\ \A r \in Request : req[r].pc = "checked" /\ req[r].op \in {"tag", "untag"} =>
         req[r].vid = 0 \/ Past(req[r].vid)
==========================================================================
