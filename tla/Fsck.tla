-------------------------------- MODULE Fsck --------------------------------
(***************************************************************************)
(* `arca fsck --repair` on a store whose server may be running: the scan   *)
(* (files first, rows later), the database fixes, the second scan, the     *)
(* file fixes with the referenced set computed again, and the question     *)
(* asked before each fix, which may stay open for any time.  `arca         *)
(* recover` rebuilds the rows from the sidecars while the server is down.  *)
(*                                                                         *)
(* Blobs are numbered in the order they are allocated.  A file is young    *)
(* until the grace period has passed over it; a request in flight is       *)
(* shorter than the grace period.                                          *)
(***************************************************************************)
EXTENDS Integers, Sequences, FiniteSets

CONSTANTS
    Key,
    MaxBlob,     \* blob ids the server may allocate
    MaxDamage,   \* files lost or sidecars damaged by the disk
    Cluster,     \* the node belongs to a cluster: no database fixes
    Server       \* which requests the server takes

VARIABLES
    rows,        \* key -> the blob of its live row, or None
    parts,       \* blobs of the part rows of the open upload
    upload,      \* "none", "open", "stale" (older than --abort-uploads-older-than)
    file,        \* blob -> "no", "tmp", "stale tmp", "young", "old"
    side,        \* blob -> its sidecar
    next,        \* next blob id
    req,         \* the request the server is serving
    fsck,        \* the repair run
    damage

vars == <<rows, parts, upload, file, side, next, req, fsck, damage>>
store == <<rows, parts, upload, file, side>>

None == 0
PartKey == -1   \* the sidecar of a part names no object
Blob == 1..MaxBlob

NoSide == [age |-> "no", ok |-> TRUE, key |-> None, parts |-> {}, same |-> TRUE]
SideOf(k, ps) == [age |-> "young", ok |-> TRUE, key |-> k, parts |-> ps, same |-> TRUE]

Quiet == [op |-> "none", step |-> 0, key |-> None, blob |-> None, old |-> None]

Report == [missing |-> {}, orphans |-> {}, sides |-> {}, mismatches |-> {},
           unreadable |-> {}, tmps |-> {}, stale |-> FALSE]

Off == [pc |-> "off", files |-> [b \in Blob |-> "no"], sides |-> [b \in Blob |-> NoSide],
        report |-> Report, todo |-> {}, checked |-> {}, referenced |-> {}, changed |-> FALSE,
        second |-> FALSE, calm |-> TRUE]

-----------------------------------------------------------------------------
(* What is live *)

OnDisk(f, b) == f[b] \in {"young", "old"}

(* Data a GET of the blob needs: its file, or the files of its parts. *)
Present(f, s, b) ==
    IF s[b].age # "no" /\ s[b].ok /\ s[b].parts # {}
    THEN \A p \in s[b].parts : OnDisk(f, p)
    ELSE OnDisk(f, b)

Readable(k) == rows[k] # None /\ side[rows[k]].ok /\ Present(file, side, rows[k])

(* list_referenced_blob_ids *)
RowBlobs == {rows[k] : k \in {k \in Key : rows[k] # None}} \cup parts

(* add_live_composite_parts *)
WithParts(referenced, s) ==
    referenced \cup UNION {s[b].parts : b \in {b \in referenced : s[b].age # "no" /\ s[b].ok}}

-----------------------------------------------------------------------------
(* The server: one request at a time *)

Fresh == next <= MaxBlob

Calmed == [fsck EXCEPT !.calm = FALSE]

(* A body is streamed into a temp file. *)
Begin(op, k) ==
    /\ req = Quiet /\ Fresh /\ fsck.pc # "recover"
    /\ op = "part" => upload \in {"none", "open"}
    /\ op = "complete" => upload # "none" /\ parts # {}
    /\ req' = [op |-> op, step |-> 1, key |-> k, blob |-> next, old |-> None]
    /\ next' = next + 1
    /\ file' = IF op = "complete" THEN file ELSE [file EXCEPT ![next] = "tmp"]
    /\ fsck' = Calmed
    /\ UNCHANGED <<rows, parts, upload, side, damage>>

(* The temp file is renamed to the blob; without it the request fails. *)
Rename ==
    /\ req.op \in {"put", "part"} /\ req.step = 1
    /\ IF file[req.blob] = "tmp"
       THEN /\ file' = [file EXCEPT ![req.blob] = "young"]
            /\ req' = [req EXCEPT !.step = 2]
       ELSE /\ req' = Quiet
            /\ UNCHANGED file
    /\ fsck' = Calmed
    /\ UNCHANGED <<rows, parts, upload, side, next, damage>>

WriteSidecar ==
    /\ \/ req.op \in {"put", "part"} /\ req.step = 2
       \/ req.op = "complete" /\ req.step = 1
    /\ side' = [side EXCEPT ![req.blob] =
                    SideOf(IF req.op = "part" THEN PartKey ELSE req.key,
                           IF req.op = "complete" THEN parts ELSE {})]
    /\ req' = [req EXCEPT !.step = 3]
    /\ fsck' = Calmed
    /\ UNCHANGED <<rows, parts, upload, file, next, damage>>

(* The transaction: the row, and for a complete the end of the upload. *)
Commit ==
    /\ req.step = 3
    /\ CASE req.op = "put" ->
              /\ rows' = [rows EXCEPT ![req.key] = req.blob]
              /\ UNCHANGED <<parts, upload>>
         [] req.op = "complete" /\ upload = "none" -> UNCHANGED <<rows, parts, upload>>
         [] req.op = "complete" /\ upload # "none" ->
              /\ rows' = [rows EXCEPT ![req.key] = req.blob]
              /\ parts' = {} /\ upload' = "none"
         [] OTHER ->
              /\ parts' = parts \cup {req.blob} /\ upload' = "open"
              /\ UNCHANGED rows
    /\ req' = IF req.op = "part" THEN Quiet
              ELSE [req EXCEPT !.step = 4, !.old = rows[req.key]]
    /\ fsck' = Calmed
    /\ UNCHANGED <<file, side, next, damage>>

DeleteObject(k) ==
    /\ req = Quiet /\ rows[k] # None /\ fsck.pc # "recover"
    /\ req' = [op |-> "delete", step |-> 4, key |-> k, blob |-> None, old |-> rows[k]]
    /\ rows' = [rows EXCEPT ![k] = None]
    /\ fsck' = Calmed
    /\ UNCHANGED <<parts, upload, file, side, next, damage>>

(* Files that go when blob b is deleted: its own, or those of its parts. *)
FilesOf(b) == {b} \cup side[b].parts

Remove(f, bs) == [b \in Blob |-> IF b \in bs THEN "no" ELSE f[b]]
RemoveSides(s, bs) == [b \in Blob |-> IF b \in bs THEN NoSide ELSE s[b]]

(* The blob the request displaced is deleted. *)
DeleteOld ==
    /\ req.step = 4
    /\ LET gone == IF req.old = None THEN {} ELSE FilesOf(req.old)
       IN /\ file' = Remove(file, gone)
          /\ side' = RemoveSides(side, gone)
    /\ req' = Quiet
    /\ fsck' = Calmed
    /\ UNCHANGED <<rows, parts, upload, next, damage>>

(* The process dies in a request and leaves what it wrote. *)
Crash ==
    /\ req # Quiet
    /\ req' = Quiet
    /\ fsck' = Calmed
    /\ UNCHANGED <<rows, parts, upload, file, side, next, damage>>

(* The grace period passes.  No request lasts that long, except one whose  *)
(* client stalls before the temp file is complete.  A repair run compares  *)
(* ages with the cutoff it took at its start, so nothing ages during it.   *)
Older(a) == CASE a = "young" -> "old" [] a = "tmp" -> "stale tmp" [] OTHER -> a

Age ==
    /\ req.step \in {0, 1} /\ req.op # "complete"
    /\ fsck.pc = "off"
    /\ \/ \E b \in Blob : file[b] \in {"young", "tmp"} \/ side[b].age = "young"
       \/ upload = "open"
    /\ file' = [b \in Blob |-> Older(file[b])]
    /\ side' = [b \in Blob |-> [side[b] EXCEPT !.age = Older(@)]]
    /\ upload' = IF upload = "open" THEN "stale" ELSE upload
    /\ UNCHANGED <<rows, parts, next, req, fsck, damage>>

(* The disk loses a file, or the fields or the text of a sidecar. *)
Damage(b) ==
    /\ damage < MaxDamage /\ req = Quiet /\ fsck.pc = "off"
    /\ damage' = damage + 1
    /\ \/ /\ OnDisk(file, b)
          /\ file' = [file EXCEPT ![b] = "no"] /\ UNCHANGED side
       \/ /\ side[b].age # "no"
          /\ \/ side' = [side EXCEPT ![b] = NoSide]
             \/ side' = [side EXCEPT ![b].ok = FALSE]
             \/ side' = [side EXCEPT ![b].same = FALSE]
          /\ UNCHANGED file
    /\ UNCHANGED <<rows, parts, upload, next, req, fsck>>

-----------------------------------------------------------------------------
(* The scan *)

(* Inventory::walk and read_sidecars: the files as they are now. *)
Walk ==
    /\ fsck.pc \in {"off", "again"}
    /\ fsck' = [fsck EXCEPT !.pc = "walked", !.files = file, !.sides = side,
                            !.second = fsck.pc = "again",
                            !.calm = IF fsck.pc = "off" THEN req = Quiet ELSE @]
    /\ UNCHANGED <<store, next, req, damage>>

Unreadable(s) == {b \in Blob : s[b].age # "no" /\ ~s[b].ok}

(* scan: the rows as they are now against the files seen by the walk. *)
Findings(f, s) ==
    LET referenced == WithParts(RowBlobs, s)
        bad == Unreadable(s)
        live == {k \in Key : rows[k] # None}
    IN [missing |-> {<<k, rows[k]>> : k \in {k \in live :
                        /\ rows[k] \notin bad
                        /\ ~Present(f, s, rows[k])}},
        mismatches |-> {<<k, rows[k]>> : k \in {k \in live :
                        /\ s[rows[k]].age # "no" /\ rows[k] \notin bad
                        /\ ~s[rows[k]].same}},
        orphans |-> {b \in Blob : f[b] = "old" /\ b \notin referenced},
        sides |-> {b \in Blob : /\ s[b].age = "old" /\ b \notin referenced
                                /\ ~OnDisk(f, b) /\ b \notin bad},
        unreadable |-> bad,
        tmps |-> {b \in Blob : f[b] = "stale tmp"},
        stale |-> upload = "stale"]

IssueCount(r) ==
    Cardinality(r.missing) + Cardinality(r.mismatches) + Cardinality(r.orphans)
      + Cardinality(r.sides) + Cardinality(r.unreadable) + Cardinality(r.tmps)

\* Mutant of ScanRows: the second scan starts the database fixes over.
ScanRowsOver ==
    /\ fsck.pc = "walked"
    /\ LET r == Findings(fsck.files, fsck.sides)
       IN fsck' = [fsck EXCEPT !.report = r, !.files = Off.files, !.sides = Off.sides,
                        !.pc = IF Cluster THEN "tmps" ELSE "missing",
                        !.todo = IF Cluster THEN {<<None, b>> : b \in r.tmps} ELSE r.missing]
    /\ UNCHANGED <<store, next, req, damage>>

(* The report, and where the run goes on: to the database fixes once, not  *)
(* at all on a cluster node.                                               *)
ScanRows ==
    /\ fsck.pc = "walked"
    /\ LET r == Findings(fsck.files, fsck.sides)
       IN fsck' = [fsck EXCEPT !.report = r, !.files = Off.files, !.sides = Off.sides,
                        !.pc = IF fsck.second \/ Cluster THEN "tmps" ELSE "missing",
                        !.todo = IF fsck.second \/ Cluster THEN {<<None, b>> : b \in r.tmps}
                                 ELSE r.missing]
    /\ UNCHANGED <<store, next, req, damage>>

-----------------------------------------------------------------------------
(* The fixes.  Each item is asked about: No leaves it, Quit ends the run.  *)

Decide(i) == fsck.pc \in {"missing", "tmps", "orphans", "sides", "mismatches"} /\ i \in fsck.todo

Skip(i) ==
    /\ Decide(i)
    /\ fsck' = [fsck EXCEPT !.todo = @ \ {i}, !.calm = FALSE]
    /\ UNCHANGED <<store, next, req, damage>>

Quit ==
    /\ fsck.pc \notin {"off", "recover"}
    /\ fsck' = Off
    /\ UNCHANGED <<store, next, req, damage>>

\* Mutant of CheckMissing: the scan is trusted.
CheckMissingTrusting(i) ==
    /\ fsck.pc = "missing" /\ i \in fsck.todo
    /\ fsck' = [fsck EXCEPT !.todo = @ \ {i}, !.checked = @ \cup {i}]
    /\ UNCHANGED <<store, next, req, damage>>

(* fix_missing_blob looks again at the row and at the files ... *)
CheckMissing(i) ==
    /\ fsck.pc = "missing" /\ i \in fsck.todo
    /\ fsck' = [fsck EXCEPT !.todo = @ \ {i},
                   !.checked = IF /\ rows[i[1]] = i[2]
                                  /\ side[i[2]].ok
                                  /\ ~Present(file, side, i[2])
                               THEN @ \cup {i} ELSE @]
    /\ UNCHANGED <<store, next, req, damage>>

(* ... and deletes the row if it still names the blob. *)
FixMissing(i) ==
    /\ fsck.pc = "missing" /\ i \in fsck.checked
    /\ rows' = IF rows[i[1]] = i[2] THEN [rows EXCEPT ![i[1]] = None] ELSE rows
    /\ fsck' = [fsck EXCEPT !.checked = @ \ {i}, !.changed = @ \/ rows[i[1]] = i[2]]
    /\ UNCHANGED <<parts, upload, file, side, next, req, damage>>

(* abort_stale_upload: the part rows, then the blobs they named. *)
AbortUpload ==
    /\ fsck.pc = "missing" /\ fsck.todo = {} /\ fsck.checked = {}
    /\ fsck.report.stale /\ upload = "stale"
    /\ parts' = {} /\ upload' = "none"
    /\ file' = Remove(file, parts)
    /\ side' = RemoveSides(side, parts)
    /\ fsck' = [fsck EXCEPT !.changed = TRUE, !.report.stale = FALSE]
    /\ UNCHANGED <<rows, next, req, damage>>

\* Mutant of EndDatabase: the file phase works from the first scan.
EndDatabaseOnce ==
    /\ fsck.pc = "missing" /\ fsck.todo = {} /\ fsck.checked = {}
    /\ fsck' = [fsck EXCEPT !.pc = "tmps", !.todo = {<<None, b>> : b \in fsck.report.tmps}]
    /\ UNCHANGED <<store, next, req, damage>>

(* After a database fix the store is scanned again before the file phase. *)
EndDatabase ==
    /\ fsck.pc = "missing" /\ fsck.todo = {} /\ fsck.checked = {}
    /\ fsck' = IF fsck.changed THEN [fsck EXCEPT !.pc = "again"]
               ELSE [fsck EXCEPT !.pc = "tmps", !.todo = {<<None, b>> : b \in fsck.report.tmps}]
    /\ UNCHANGED <<store, next, req, damage>>

(* A temp file still older than the cutoff of the run is deleted unasked. *)
FixTmp(i) ==
    /\ fsck.pc = "tmps" /\ i \in fsck.todo
    /\ file' = IF file[i[2]] = "stale tmp" THEN [file EXCEPT ![i[2]] = "no"] ELSE file
    /\ fsck' = [fsck EXCEPT !.todo = @ \ {i}]
    /\ UNCHANGED <<rows, parts, upload, side, next, req, damage>>

(* orphans: refused while a sidecar is unreadable; otherwise the           *)
(* referenced set is computed again, rows first ...                        *)
OrphanRows ==
    /\ fsck.pc = "tmps" /\ fsck.todo = {}
    /\ fsck' = IF \/ fsck.report.unreadable # {}
                  \/ fsck.report.orphans \cup fsck.report.sides = {}
               THEN [fsck EXCEPT !.pc = "mismatches", !.todo = fsck.report.mismatches]
               ELSE [fsck EXCEPT !.pc = "orphan sidecars", !.referenced = RowBlobs]
    /\ UNCHANGED <<store, next, req, damage>>

(* ... then the parts their sidecars list; an unreadable one ends it. *)
OrphanSidecars ==
    /\ fsck.pc = "orphan sidecars"
    /\ fsck' = IF Unreadable(side) # {}
               THEN [fsck EXCEPT !.pc = "mismatches", !.todo = fsck.report.mismatches]
               ELSE [fsck EXCEPT !.pc = "orphans", !.referenced = WithParts(@, side),
                                 !.todo = {<<None, b>> : b \in fsck.report.orphans}]
    /\ UNCHANGED <<store, next, req, damage>>

(* An orphaned blob goes with its sidecar. *)
FixOrphan(i) ==
    /\ fsck.pc = "orphans" /\ i \in fsck.todo
    /\ LET gone == IF i[2] \notin fsck.referenced /\ file[i[2]] = "old" THEN {i[2]} ELSE {}
       IN /\ file' = Remove(file, gone)
          /\ side' = RemoveSides(side, gone)
    /\ fsck' = [fsck EXCEPT !.todo = @ \ {i}]
    /\ UNCHANGED <<rows, parts, upload, next, req, damage>>

FixOrphanSidecar(i) ==
    /\ fsck.pc = "sides" /\ i \in fsck.todo
    /\ side' = IF /\ i[2] \notin fsck.referenced
                  /\ ~OnDisk(file, i[2])
                  /\ side[i[2]].age = "old"
               THEN RemoveSides(side, {i[2]}) ELSE side
    /\ fsck' = [fsck EXCEPT !.todo = @ \ {i}]
    /\ UNCHANGED <<rows, parts, upload, file, next, req, damage>>

(* fix_sidecar reads the row and the sidecar, then writes it. *)
ReadMismatch(i) ==
    /\ fsck.pc = "mismatches" /\ i \in fsck.todo
    /\ fsck' = [fsck EXCEPT !.todo = @ \ {i},
                   !.checked = IF /\ rows[i[1]] = i[2]
                                  /\ side[i[2]].age # "no" /\ side[i[2]].ok
                                  /\ ~side[i[2]].same
                               THEN @ \cup {<<i[1], i[2], side[i[2]].parts>>} ELSE @]
    /\ UNCHANGED <<store, next, req, damage>>

FixMismatch(i) ==
    /\ fsck.pc = "mismatches" /\ i \in fsck.checked
    /\ side' = [side EXCEPT ![i[2]] = SideOf(i[1], i[3])]
    /\ fsck' = [fsck EXCEPT !.checked = @ \ {i}]
    /\ UNCHANGED <<rows, parts, upload, file, next, req, damage>>

(* One list of fixes after the other, then the count of what is left. *)
NextList ==
    /\ fsck.todo = {} /\ fsck.checked = {}
    /\ \/ /\ fsck.pc = "orphans"
          /\ fsck' = [fsck EXCEPT !.pc = "sides", !.todo = {<<None, b>> : b \in fsck.report.sides}]
       \/ /\ fsck.pc = "sides"
          /\ fsck' = [fsck EXCEPT !.pc = "mismatches", !.todo = fsck.report.mismatches]
       \/ /\ fsck.pc = "mismatches"
          /\ fsck' = [Off EXCEPT !.pc = "done", !.calm = fsck.calm]
    /\ UNCHANGED <<store, next, req, damage>>

Fix == \/ \E i \in fsck.todo : \/ CheckMissing(i) \/ FixTmp(i) \/ FixOrphan(i)
                               \/ FixOrphanSidecar(i) \/ ReadMismatch(i)
       \/ \E i \in fsck.checked : FixMissing(i) \/ FixMismatch(i)
       \/ AbortUpload

RepairStep == Walk \/ ScanRows \/ EndDatabase \/ OrphanRows \/ OrphanSidecars \/ NextList \/ Fix

-----------------------------------------------------------------------------
(* recover: the rows are gone and come back from the sidecars whose blob   *)
(* file is there, the newest first.                                        *)

\* Mutant of Recoverable: a sidecar without its blob counts.
RecoverableAny == {b \in Blob : side[b].age # "no" /\ side[b].ok}

Recoverable == {b \in Blob : side[b].age # "no" /\ side[b].ok /\ OnDisk(file, b)}

StartRecover ==
    /\ fsck.pc = "off" /\ req = Quiet /\ "recover" \in Server
    /\ rows' = [k \in Key |-> None]
    /\ parts' = {} /\ upload' = "none"
    /\ fsck' = [Off EXCEPT !.pc = "recover", !.todo = {<<side[b].key, b>> : b \in Recoverable}]
    /\ UNCHANGED <<file, side, next, req, damage>>

RecoverObject(i) ==
    /\ fsck.pc = "recover" /\ i \in fsck.todo
    /\ \A j \in fsck.todo : j[2] <= i[2]
    /\ rows' = IF i[1] \in Key THEN [rows EXCEPT ![i[1]] = i[2]] ELSE rows
    /\ fsck' = [fsck EXCEPT !.todo = @ \ {i}]
    /\ UNCHANGED <<parts, upload, file, side, next, req, damage>>

EndRecover ==
    /\ fsck.pc = "recover" /\ fsck.todo = {}
    /\ fsck' = Off
    /\ UNCHANGED <<store, next, req, damage>>

-----------------------------------------------------------------------------
Init ==
    /\ rows = [k \in Key |-> None]
    /\ parts = {} /\ upload = "none"
    /\ file = [b \in Blob |-> "no"]
    /\ side = [b \in Blob |-> NoSide]
    /\ next = 1
    /\ req = Quiet
    /\ fsck = Off
    /\ damage = 0

ServerStep ==
    \/ \E op \in Server \cap {"put", "part", "complete"}, k \in Key : Begin(op, k)
    \/ \E k \in Key : "delete" \in Server /\ DeleteObject(k)
    \/ Rename \/ WriteSidecar \/ Commit \/ DeleteOld \/ Crash

Next ==
    \/ ServerStep \/ Age
    \/ \E b \in Blob : Damage(b)
    \/ RepairStep \/ Quit
    \/ \E i \in fsck.todo : Skip(i)
    \/ StartRecover \/ (\E i \in fsck.todo : RecoverObject(i)) \/ EndRecover

Spec == Init /\ [][Next]_vars

(* The run goes on while it has items; the operator may answer No to all.  *)
FairSpec == Spec /\ WF_vars(RepairStep)

-----------------------------------------------------------------------------
(* Type correctness. *)
TypeOK ==
    /\ rows \in [Key -> Blob \cup {None}]
    /\ parts \subseteq Blob /\ upload \in {"none", "open", "stale"}
    /\ file \in [Blob -> {"no", "tmp", "stale tmp", "young", "old"}]
    /\ next \in 1..(MaxBlob + 1)
    /\ damage \in 0..MaxDamage
    /\ fsck.pc \in {"off", "walked", "missing", "again", "tmps", "orphan sidecars", "orphans",
                    "sides", "mismatches", "done", "recover"}

(* No step of a repair, whatever the server committed since the scan and   *)
(* however long a question stayed open, makes a readable object unreadable *)
(* or takes its row, nor removes the data of a part of a live upload.      *)
RepairHarmsNothingStep ==
    RepairStep => /\ \A k \in Key : Readable(k) => rows'[k] = rows[k] /\ Readable(k)'
                  /\ \A b \in parts : OnDisk(file, b) /\ b \in parts' => OnDisk(file', b)

\* The same, as a property of the behaviour: every step is such a step.
RepairHarmsNothing == [][RepairHarmsNothingStep]_vars

(* A repair that was told yes each time, while the server was idle, leaves *)
(* nothing for the next scan to report but sidecars nobody can read and    *)
(* what those may hide.                                                    *)
RepairIsComplete ==
    fsck.pc = "done" /\ fsck.calm /\ ~Cluster /\ Unreadable(side) = {} =>
        IssueCount(Findings(file, side)) = 0

(* Rows recovered from sidecars name a blob that is on disk and was        *)
(* written for that key.                                                   *)
RecoveredIsReadable ==
    fsck.pc = "recover" =>
        \A k \in Key : rows[k] # None => OnDisk(file, rows[k]) /\ side[rows[k]].key = k

(* The comment in recover.rs: the newest sidecar of a key becomes its      *)
(* current version.                                                        *)
RecoveredIsNewest ==
    fsck.pc = "recover" /\ fsck.todo = {} =>
        \A k \in Key, b \in Recoverable : side[b].key = k => b <= rows[k]

(* A repair run comes to its end unless the operator quits. *)
Begun == fsck.pc = "walked"
Ended == fsck.pc \in {"off", "done"}
RepairEnds == Begun ~> Ended
=============================================================================
