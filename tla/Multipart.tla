------------------------------- MODULE Multipart -------------------------------
(***************************************************************************)
(* The blobs of one key on one node: PutObject, DeleteObject, multipart    *)
(* uploads (handlers/multipart.rs), the filesystem blob store (fs/blob.rs) *)
(* and the blob garbage collector (blob_gc.rs), which all run at the same  *)
(* time and share nothing but the metadata rows and the files.             *)
(*                                                                         *)
(* Every request writes at most one blob, so a blob is named by the        *)
(* request that writes it (BlobId::new() is a fresh UUID).  A file has an  *)
(* age instead of an mtime: one Tick is a part of the grace period.        *)
(***************************************************************************)
EXTENDS Naturals, FiniteSets

CONSTANTS
    Request,        \* requests, positive naturals
    Upload,         \* upload ids
    PartNo,         \* part numbers
    Grace,          \* storage.blob_gc_grace_seconds, in ticks
    UploadTime,     \* the longest time between a blob's rename and its row
    ScanTime,       \* the longest time a GC pass needs to collect its plan
    ReplaceListed   \* may a client replace a part that a Complete has listed?

VARIABLES
    created,    \* uploads ever created
    uploads,    \* rows of multipart_uploads
    parts,      \* rows of parts
    object,     \* blob of the object row, 0 when there is none
    files,      \* blob files on disk
    age,        \* time since a file's rename, up to Grace
    sidecars,   \* sidecar files on disk
    composite,  \* the parts a sidecar lists; {} for a plain blob
    req,        \* requests and the background tasks they leave behind
    gc          \* the garbage collection pass

vars == <<created, uploads, parts, object, files, age, sidecars, composite, req, gc>>

store == <<created, uploads, parts, object>>
disk == <<files, age, sidecars, composite>>

NoUpload == "none"

Over == [pc |-> "over", kind |-> "none", upload |-> NoUpload, part |-> 0,
         blobs |-> {}, fast |-> FALSE, cond |-> FALSE, todo |-> {}]

New == [Over EXCEPT !.pc = "new"]

GcIdle == [pc |-> "idle", live |-> {}, plan |-> {}, time |-> 0]

PartRow == [upload : Upload, part : PartNo, blob : Request]

Kind == {"none", "put", "delete", "part", "complete", "abort"}

\* Types of the variables.
TypeOK ==
    /\ created \subseteq Upload /\ uploads \subseteq created
    /\ parts \subseteq PartRow
    /\ object \in Request \cup {0}
    /\ files \subseteq Request /\ sidecars \subseteq Request
    /\ age \in [Request -> 0 .. Grace]
    /\ composite \in [Request -> SUBSET Request]
    /\ req \in [Request ->
          [pc : {"new", "over", "concat", "sidecar", "commit", "cleanup"},
           kind : Kind, upload : Upload \cup {NoUpload}, part : PartNo \cup {0},
           blobs : SUBSET Request, fast : BOOLEAN, cond : BOOLEAN, todo : SUBSET Request]]
    /\ gc \in [pc : {"idle", "rows", "sidecars", "delete"}, live : SUBSET Request,
               plan : SUBSET Request, time : 0 .. ScanTime]

Init ==
    /\ created = {} /\ uploads = {} /\ parts = {}
    /\ object = 0
    /\ files = {} /\ age = [b \in Request |-> 0]
    /\ sidecars = {} /\ composite = [b \in Request |-> {}]
    /\ req = [r \in Request |-> New]
    /\ gc = GcIdle

-----------------------------------------------------------------------------
(* The filesystem blob store. *)

\* The rename that publishes the file of blob b.
Publish(b) ==
    /\ files' = files \cup {b}
    /\ age' = [age EXCEPT ![b] = 0]

\* BlobStore::delete: the parts a composite sidecar lists go with the blob.
Cascade(b) == {b} \cup (IF b \in sidecars THEN composite[b] ELSE {})

\* delete_blob_file_raw and delete_assembled: one file and its sidecar.
RemoveFiles(bs) ==
    /\ files' = files \ bs
    /\ sidecars' = sidecars \ bs
    /\ composite' = [b \in Request |-> IF b \in bs THEN {} ELSE composite[b]]
    /\ UNCHANGED age

\* Can FsBlobStore::get stream blob b?
Readable(b) ==
    IF b \in sidecars /\ composite[b] # {}
    THEN composite[b] \subseteq files
    ELSE b \in files

-----------------------------------------------------------------------------
(* Requests.  A request that is refused before it changes anything is not  *)
(* modelled.                                                               *)

Start(r, q) ==
    /\ req[r] = New
    /\ req' = [req EXCEPT ![r] = q]

Go(r, pc) == req' = [req EXCEPT ![r].pc = pc]

End(r) == req' = [req EXCEPT ![r] = Over]

\* After the commit: the background task that deletes blobs bs.
CleanUp(r, bs) ==
    req' = [req EXCEPT ![r] = IF bs = {} THEN Over ELSE [Over EXCEPT !.pc = "cleanup", !.todo = bs]]

CreateMultipartUpload(u) ==
    /\ u \notin created
    /\ created' = created \cup {u}
    /\ uploads' = uploads \cup {u}
    /\ UNCHANGED <<parts, object, files, age, sidecars, composite, req, gc>>

\* FsBlobStore::put: temp file, fsync, rename.  A body that ends early leaves
\* nothing behind (TempFileGuard), like a request that was never made.
Put(r, q) ==
    /\ Start(r, [q EXCEPT !.pc = "sidecar"])
    /\ Publish(r)
    /\ UNCHANGED <<store, sidecars, composite, gc>>

PutObject(r) == Put(r, [Over EXCEPT !.kind = "put"])

\* upload_part verifies the upload before it reads the body and never again.
UploadPart(r, u, n) ==
    /\ u \in uploads
    /\ Put(r, [Over EXCEPT !.kind = "part", !.upload = u, !.part = n])

\* complete_multipart_upload up to concat: the stored parts the client names.
CompleteMultipartUpload(r, u, bs, cond) ==
    /\ u \in uploads
    /\ bs # {} /\ bs \subseteq {p.blob : p \in {q \in parts : q.upload = u}}
    /\ cond => object = 0
    /\ Start(r, [Over EXCEPT !.pc = "concat", !.kind = "complete", !.upload = u,
                             !.blobs = bs, !.cond = cond])
    /\ UNCHANGED <<store, disk, gc>>

AbortMultipartUpload(r, u) ==
    /\ u \in uploads
    /\ Start(r, [Over EXCEPT !.pc = "commit", !.kind = "abort", !.upload = u])
    /\ UNCHANGED <<store, disk, gc>>

DeleteObject(r) ==
    /\ object # 0
    /\ Start(r, [Over EXCEPT !.pc = "commit", !.kind = "delete"])
    /\ UNCHANGED <<store, disk, gc>>

\* FsBlobStore::concat, fast path: a composite has no file of its own.
ConcatFast(r) ==
    /\ req[r].pc = "concat"
    /\ req[r].blobs \subseteq sidecars
    /\ req' = [req EXCEPT ![r].pc = "sidecar", ![r].fast = TRUE]
    /\ UNCHANGED <<store, disk, gc>>

\* FsBlobStore::concat, fallback: the bytes are copied into a new file.
ConcatCopy(r) ==
    /\ req[r].pc = "concat"
    /\ req[r].blobs \subseteq files
    /\ Publish(r)
    /\ Go(r, "sidecar")
    /\ UNCHANGED <<store, sidecars, composite, gc>>

\* A part without sidecar and file: the request fails, the upload stays.
ConcatFails(r) ==
    /\ req[r].pc = "concat"
    /\ ~ req[r].blobs \subseteq sidecars /\ ~ req[r].blobs \subseteq files
    /\ End(r)
    /\ UNCHANGED <<store, disk, gc>>

\* Mutant of WriteSidecar: a sidecar that cannot be written is only logged.
WriteSidecarLogged(r) ==
    /\ req[r].pc = "sidecar"
    /\ Go(r, "commit")
    /\ UNCHANGED <<store, disk, gc>>

\* write_sidecar makes the blob durable; only then may its row be written.
WriteSidecar(r) ==
    /\ req[r].pc = "sidecar"
    /\ sidecars' = sidecars \cup {r}
    /\ composite' = [composite EXCEPT ![r] = IF req[r].fast THEN req[r].blobs ELSE {}]
    /\ Go(r, "commit")
    /\ UNCHANGED <<store, files, age, gc>>

\* A failed digest or sidecar write: write_sidecar_or_discard.
Discard(r) ==
    /\ req[r].pc = "sidecar"
    /\ RemoveFiles({r})
    /\ End(r)
    /\ UNCHANGED <<store, gc>>

CommitPut(r) ==
    /\ req[r].pc = "commit" /\ req[r].kind = "put"
    /\ object' = r
    /\ CleanUp(r, {object} \ {0})
    /\ UNCHANGED <<created, uploads, parts, disk, gc>>

CommitDelete(r) ==
    /\ req[r].pc = "commit" /\ req[r].kind = "delete"
    /\ object' = 0
    /\ CleanUp(r, {object} \ {0})
    /\ UNCHANGED <<created, uploads, parts, disk, gc>>

\* Is blob b among the parts some Complete has listed and not yet committed?
Listed(b) == \E r \in Request : req[r].kind = "complete" /\ b \in req[r].blobs

\* put_part replaces the row of the same number; its blob is deleted afterwards.
PutPart(r) ==
    LET old == {p \in parts : p.upload = req[r].upload /\ p.part = req[r].part}
    IN  /\ req[r].pc = "commit" /\ req[r].kind = "part"
        /\ ReplaceListed \/ \A p \in old : ~ Listed(p.blob)
        /\ parts' = (parts \ old) \cup
                    {[upload |-> req[r].upload, part |-> req[r].part, blob |-> r]}
        /\ CleanUp(r, {p.blob : p \in old})
        /\ UNCHANGED <<created, uploads, object, disk, gc>>

\* take_upload: the upload and its part rows leave in one transaction.
Parts(u) == {p \in parts : p.upload = u}

TakeUpload(u) ==
    /\ uploads' = uploads \ {u}
    /\ parts' = parts \ Parts(u)
    /\ UNCHANGED created

\* Mutant of CompleteAllowed: only the precondition is evaluated in the transaction.
CompleteAllowedGone(r) == req[r].cond => object = 0

\* Does the transaction of complete_multipart_object accept request r?
CompleteAllowed(r) == req[r].upload \in uploads /\ (req[r].cond => object = 0)

CommitComplete(r) ==
    /\ req[r].pc = "commit" /\ req[r].kind = "complete"
    /\ CompleteAllowed(r)
    /\ object' = r
    /\ TakeUpload(req[r].upload)
    /\ CleanUp(r, ({object} \ {0}) \cup
                  (IF req[r].fast THEN {} ELSE {p.blob : p \in Parts(req[r].upload)}))
    /\ UNCHANGED <<disk, gc>>

\* Refused by the transaction: what was assembled goes, the parts stay.
Unassemble(r) == RemoveFiles({r})

RefuseComplete(r) ==
    /\ req[r].pc = "commit" /\ req[r].kind = "complete"
    /\ ~ CompleteAllowed(r)
    /\ Unassemble(r)
    /\ End(r)
    /\ UNCHANGED <<store, gc>>

CommitAbort(r) ==
    /\ req[r].pc = "commit" /\ req[r].kind = "abort"
    /\ TakeUpload(req[r].upload)
    /\ CleanUp(r, {p.blob : p \in Parts(req[r].upload)})
    /\ UNCHANGED <<object, disk, gc>>

\* BlobStore::delete of one blob after the rows have gone; a failure is logged.
DeleteBlob(r, b) ==
    /\ req[r].pc = "cleanup" /\ b \in req[r].todo
    /\ CleanUp(r, req[r].todo \ {b})
    /\ \/ RemoveFiles(Cascade(b))
       \/ UNCHANGED disk
    /\ UNCHANGED <<store, gc>>

-----------------------------------------------------------------------------
(* Garbage collection. *)

\* list_referenced_blob_ids.
Referenced == ({object} \ {0}) \cup {p.blob : p \in parts}

\* add_live_composite_parts.
WithParts(live) == live \cup UNION {composite[b] : b \in live \cap sidecars}

GcRows ==
    /\ gc.pc = "idle"
    /\ gc' = [GcIdle EXCEPT !.pc = "rows", !.live = Referenced]
    /\ UNCHANGED <<store, disk, req>>

GcSidecars ==
    /\ gc.pc = "rows"
    /\ gc' = [gc EXCEPT !.pc = "sidecars", !.live = WithParts(gc.live)]
    /\ UNCHANGED <<store, disk, req>>

\* Mutant of GcPlan: the age of a file is not looked at.
GcPlanNow ==
    /\ gc.pc = "sidecars"
    /\ gc' = [gc EXCEPT !.pc = "delete", !.time = 0, !.plan = files \ gc.live]
    /\ UNCHANGED <<store, disk, req>>

\* Mutant of GcPlan: a file that ever had a sidecar is taken for a live one.
GcPlanBare ==
    /\ gc.pc = "sidecars"
    /\ gc' = [gc EXCEPT !.pc = "delete", !.time = 0,
                        !.plan = {b \in files : b \notin gc.live \cup sidecars /\ age[b] >= Grace}]
    /\ UNCHANGED <<store, disk, req>>

\* plan_blob_gc: unreferenced files past the grace period.
GcPlan ==
    /\ gc.pc = "sidecars"
    /\ gc' = [gc EXCEPT !.pc = "delete", !.time = 0,
                        !.plan = {b \in files : b \notin gc.live /\ age[b] >= Grace}]
    /\ UNCHANGED <<store, disk, req>>

GcDelete(b) ==
    /\ gc.pc = "delete" /\ b \in gc.plan
    /\ gc' = [gc EXCEPT !.plan = gc.plan \ {b}]
    /\ RemoveFiles({b})
    /\ UNCHANGED <<store, req>>

GcEnd ==
    /\ gc.pc = "delete" /\ gc.plan = {}
    /\ gc' = GcIdle
    /\ UNCHANGED <<store, disk, req>>

-----------------------------------------------------------------------------
(* The process dies: rows and files stay, tasks are gone. *)
Crash ==
    /\ \E r \in Request : req[r] \notin {New, Over}
    /\ req' = [r \in Request |-> IF req[r] = New THEN New ELSE Over]
    /\ gc' = GcIdle
    /\ UNCHANGED <<store, disk>>

\* Time passes, but no upload and no scan takes longer than its limit.
Tick ==
    /\ \A r \in Request : req[r].pc \in {"sidecar", "commit"} /\ r \in files => age[r] < UploadTime
    /\ gc.pc \in {"rows", "sidecars"} => gc.time < ScanTime
    /\ age' = [b \in Request |-> IF b \in files /\ age[b] < Grace THEN age[b] + 1 ELSE age[b]]
    /\ gc' = [gc EXCEPT !.time = IF gc.pc \in {"rows", "sidecars"} THEN gc.time + 1 ELSE 0]
    /\ UNCHANGED <<store, files, sidecars, composite, req>>

Step(r) ==
    \/ ConcatFast(r) \/ ConcatCopy(r) \/ ConcatFails(r)
    \/ WriteSidecar(r) \/ Discard(r)
    \/ CommitPut(r) \/ CommitDelete(r) \/ PutPart(r)
    \/ CommitComplete(r) \/ RefuseComplete(r) \/ CommitAbort(r)
    \/ \E b \in Request : DeleteBlob(r, b)

Request_(r) ==
    \/ PutObject(r) \/ DeleteObject(r)
    \/ \E u \in Upload, n \in PartNo : UploadPart(r, u, n)
    \/ \E u \in Upload, bs \in SUBSET Request, cond \in BOOLEAN :
          CompleteMultipartUpload(r, u, bs, cond)
    \/ \E u \in Upload : AbortMultipartUpload(r, u)

GcStep == GcRows \/ GcSidecars \/ GcPlan \/ GcEnd \/ \E b \in Request : GcDelete(b)

Next ==
    \/ \E u \in Upload : CreateMultipartUpload(u)
    \/ \E r \in Request : Request_(r) \/ Step(r)
    \/ GcStep \/ Crash \/ Tick

Spec == Init /\ [][Next]_vars

Fairness == WF_vars(GcStep) /\ WF_vars(Tick) /\ \A r \in Request : WF_vars(Step(r))

FairSpec == Spec /\ Fairness

-----------------------------------------------------------------------------
(* Properties. *)

\* What the rows name can be read: neither an abort, nor another Complete of
\* the same upload, nor the cleanup of an overwritten object, nor the garbage
\* collector deletes a file that the object or a part is made of.
RowsReadable ==
    /\ object # 0 => Readable(object)
    /\ \A p \in parts : p.blob \in files

\* A row is only written when the sidecar has made its blob durable.
RowAfterSidecar == Referenced \subseteq sidecars

\* A file that no row leads to is reclaimed, whatever failed or crashed.
Orphan(b) == b \in files /\ b \notin WithParts(Referenced)
Left(b) == Orphan(b) /\ req[b] = Over
OrphansReclaimed == \A b \in Request : Left(b) ~> ~Orphan(b)
=============================================================================
