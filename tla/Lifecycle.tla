------------------------------ MODULE Lifecycle ------------------------------
(***************************************************************************)
(* The lifecycle worker of one bucket with one rule: expiration of current *)
(* objects, expiration of noncurrent versions and abortion of stale        *)
(* multipart uploads, each paged through in turn with cut-offs fixed when  *)
(* the cycle starts, while clients write, delete, hold and upload.         *)
(*                                                                         *)
(* A listing reads a page of rows; the rows are acted upon one by one from *)
(* that copy.  Time is counted in days.  The rule's prefix and tags are    *)
(* the set Scope of the keys they select.                                  *)
(***************************************************************************)
EXTENDS Naturals, Sequences, FiniteSets, SequencesExt

CONSTANTS
    Key,            \* object keys: numbers, in listing order
    Scope,          \* keys the rule's filter selects
    Versioned,      \* is versioning enabled?
    Days, NoncurrentDays, AbortDays,  \* the ages of the rule's three actions
    Keep,           \* NewerNoncurrentVersions
    PageSize,       \* LIFECYCLE_BATCH_SIZE
    Old,            \* rows present at the start: a set of [key, id, at] records
    MaxClock,       \* days
    MaxWrites,      \* client operations
    Clients         \* the client operations: a subset of {"put", "delete", "hold", "upload"}

VARIABLES
    versions,  \* table objects: rows of the bucket
    uploads,   \* table multipart_uploads
    clock, writes, leader,
    nextId,    \* ids are drawn in order: version ids and upload ids are unique
    phase,     \* what the worker is doing: "idle", "current", "noncurrent" or "uploads"
    now,       \* the time its cycle started at
    cursor,    \* where the next page starts: a row, or <<>> at the beginning
    page,      \* the rows of the page not acted upon yet
    full,      \* was the page as long as PageSize?
    due        \* what matched when the phase started (history)

vars == <<versions, uploads, clock, writes, nextId, leader, phase, now, cursor, page, full, due>>

-----------------------------------------------------------------------------
\* The row written later, of two rows of a key.
Newer(r, s) == r.at > s.at \/ (r.at = s.at /\ r.id > s.id)

OfKey(k) == {r \in versions : r.key = k}

IsLatest(r) == \A s \in OfKey(r.key) : s = r \/ Newer(r, s)

Row(k, id, marker) == [key |-> k, id |-> id, at |-> clock, marker |-> marker, hold |-> FALSE]

Init ==
    /\ versions = {[key |-> o.key, id |-> o.id, at |-> o.at, marker |-> FALSE, hold |-> FALSE] : o \in Old}
    /\ uploads = {}
    /\ clock = 2 /\ writes = 0 /\ nextId = 10 /\ leader = TRUE
    /\ phase = "idle" /\ now = 0 /\ cursor = <<>> /\ page = <<>> /\ full = FALSE /\ due = {}

-----------------------------------------------------------------------------
\* put_object: a new version, or the row that replaces the unversioned one.
Put(k) ==
    /\ versions' = (IF Versioned THEN versions ELSE versions \ OfKey(k)) \cup {Row(k, nextId, FALSE)}
    /\ UNCHANGED uploads

\* delete_latest_in_tx: a delete marker, or no row at all.
Deleted(k) == IF Versioned THEN versions \cup {Row(k, nextId, TRUE)} ELSE versions \ OfKey(k)

Delete(k) ==
    /\ versions' = Deleted(k)
    /\ UNCHANGED uploads

\* set_object_legal_hold (Object Lock is a feature of versioned buckets).
Hold(k) == \E r \in OfKey(k) :
    /\ Versioned /\ ~r.marker /\ ~r.hold
    /\ versions' = (versions \ {r}) \cup {[r EXCEPT !.hold = TRUE]}
    /\ UNCHANGED uploads

CreateUpload(k) ==
    /\ uploads' = uploads \cup {[key |-> k, id |-> nextId, at |-> clock]}
    /\ UNCHANGED versions

Client ==
    /\ writes < MaxWrites
    /\ writes' = writes + 1
    /\ nextId' = nextId + 1
    /\ \E k \in Key : \/ "put" \in Clients /\ Put(k)
                      \/ "delete" \in Clients /\ Delete(k)
                      \/ "hold" \in Clients /\ Hold(k)
                      \/ "upload" \in Clients /\ CreateUpload(k)
    /\ UNCHANGED <<clock, leader, phase, now, cursor, page, full, due>>

Tick ==
    /\ clock < MaxClock
    /\ clock' = clock + 1
    /\ UNCHANGED <<versions, uploads, writes, nextId, leader, phase, now, cursor, page, full, due>>

\* Another node becomes, or stops being, the one that runs cluster-wide work.
LeaderMoves ==
    /\ leader' = ~leader
    /\ UNCHANGED <<versions, uploads, clock, writes, nextId, phase, now, cursor, page, full, due>>

-----------------------------------------------------------------------------
\* The selection of list_expired_objects.
Expired(r) == r.key \in Scope /\ IsLatest(r) /\ ~r.marker /\ r.at + Days < now

\* The selection of list_noncurrent_expired_versions.  noncurrent_since: when the
\* next newer row of the key was written; noncurrent_rank: 1 for the newest
\* noncurrent version that is no delete marker.
NoncurrentExpired(r) ==
    LET newer == {s \in OfKey(r.key) : Newer(s, r)}
        since == (CHOOSE s \in newer : \A t \in newer : t = s \/ Newer(t, s)).at
        rank  == 1 + Cardinality({s \in newer : ~IsLatest(s) /\ ~s.marker})
    IN  /\ r.key \in Scope /\ ~IsLatest(r) /\ ~r.marker
        /\ since + NoncurrentDays < now
        /\ rank > Keep

\* The selection of list_stale_multipart_uploads.
Stale(u) == u.key \in Scope /\ u.at + AbortDays < now

Matches(p) == CASE p = "current" -> {r \in versions : Expired(r)}
                [] p = "noncurrent" -> {r \in versions : NoncurrentExpired(r)}
                [] p = "uploads" -> {u \in uploads : Stale(u)}
                [] p = "idle" -> {}

\* The order of a listing: by key, then newest first (versions) or by id (uploads).
Before(p, r, s) == \/ r.key < s.key
                   \/ r.key = s.key /\ (IF p = "uploads" THEN r.id < s.id ELSE Newer(r, s))

\* Mutant of After: a page starts at the key after the last one.
AfterKey(p, r) == cursor = <<>> \/ r.key > cursor[1].key

\* The rows after the cursor: by key alone for current objects (start_after).
After(p, r) == cursor = <<>> \/ (IF p = "current" THEN r.key > cursor[1].key ELSE Before(p, cursor[1], r))


PhaseAfter(p) == CASE p = "current" -> "noncurrent" [] p = "noncurrent" -> "uploads" [] p = "uploads" -> "idle"

\* A page was shorter than PageSize and is done: the next action of the rule.
NextPhase ==
    /\ phase # "idle" /\ page = <<>> /\ cursor # <<>> /\ ~full
    /\ phase' = PhaseAfter(phase)
    /\ cursor' = <<>> /\ full' = TRUE
    /\ due' = Matches(phase')
    /\ UNCHANGED <<versions, uploads, clock, writes, nextId, leader, now, page>>

\* One query of a listing: the first PageSize rows after the cursor.  An empty
\* page ends the phase as a short one does.
ListPage ==
    /\ phase # "idle" /\ page = <<>> /\ full
    /\ LET rest == {r \in Matches(phase) : After(phase, r)}
           all == SetToSortSeq(rest, LAMBDA r, s : Before(phase, r, s))
           n == IF Len(all) < PageSize THEN Len(all) ELSE PageSize IN
       IF n = 0
       THEN /\ phase' = PhaseAfter(phase) /\ cursor' = <<>> /\ full' = TRUE
            /\ due' = Matches(phase')
            /\ UNCHANGED page
       ELSE /\ page' = SubSeq(all, 1, n) /\ cursor' = <<all[n]>> /\ full' = (n = PageSize)
            /\ UNCHANGED <<phase, due>>
    /\ UNCHANGED <<versions, uploads, clock, writes, nextId, leader, now>>

\* Mutant of StartCycle: the time of the first cycle is kept.
StartCycleOnce ==
    /\ phase = "idle" /\ leader
    /\ phase' = "current" /\ now' = (IF now = 0 THEN clock ELSE now) /\ cursor' = <<>> /\ full' = TRUE
    /\ due' = {}
    /\ UNCHANGED <<versions, uploads, clock, writes, nextId, leader, page>>

\* spawn_lifecycle_worker: a tick of the node that leads starts a cycle.
StartCycle ==
    /\ phase = "idle" /\ leader
    /\ phase' = "current" /\ now' = clock /\ cursor' = <<>> /\ full' = TRUE
    /\ due' = {r \in versions : r.key \in Scope /\ IsLatest(r) /\ ~r.marker /\ r.at + Days < clock}
    /\ UNCHANGED <<versions, uploads, clock, writes, nextId, leader, page>>

\* expire_object: delete_object of the key, whatever its current row is now.
ExpireObject ==
    /\ phase = "current" /\ page # <<>>
    /\ versions' = Deleted(Head(page).key)
    /\ nextId' = nextId + 1
    /\ page' = Tail(page)
    /\ UNCHANGED <<uploads, clock, writes, leader, phase, now, cursor, full, due>>

\* expire_noncurrent_version: a locked version and the null version (id 0) are left.
ExpireNoncurrent ==
    /\ phase = "noncurrent" /\ page # <<>>
    /\ versions' = IF Head(page).hold \/ Head(page).id = 0 THEN versions
                   ELSE {r \in versions : r.id # Head(page).id}
    /\ page' = Tail(page)
    /\ UNCHANGED <<uploads, clock, writes, nextId, leader, phase, now, cursor, full, due>>

\* abort_stale_upload
AbortStaleUpload ==
    /\ phase = "uploads" /\ page # <<>>
    /\ uploads' = {u \in uploads : u.id # Head(page).id}
    /\ page' = Tail(page)
    /\ UNCHANGED <<versions, clock, writes, nextId, leader, phase, now, cursor, full, due>>

Worker == ListPage \/ NextPhase \/ ExpireObject \/ ExpireNoncurrent \/ AbortStaleUpload

Next == Client \/ Tick \/ LeaderMoves \/ StartCycle \/ Worker

\* The worker is a task of its own; the leader may move away and back for ever.
Fairness == WF_vars(Worker) /\ SF_vars(StartCycle) /\ WF_vars(Tick) /\ WF_vars(LeaderMoves)

Spec == Init /\ [][Next]_vars /\ Fairness

-----------------------------------------------------------------------------
\* Rows and uploads have their types, ids are unique, and the worker's copies name keys.
TypeOK ==
    /\ \A r \in versions : r \in [key : Key, id : Nat, at : 0..clock, marker : BOOLEAN, hold : BOOLEAN]
    /\ \A r, s \in versions : r.id = s.id => r = s
    /\ \A u \in uploads : u \in [key : Key, id : Nat, at : 0..clock]
    /\ phase \in {"idle", "current", "noncurrent", "uploads"}
    /\ Len(page) <= PageSize /\ now <= clock

\* evaluate_lifecycle_rules pages through every match: when it leaves an action
\* of the rule, nothing that matched when it entered it still matches, but for
\* versions that are locked and the null version.
CycleIsCompleteStep ==
    phase' # phase =>
      \A r \in due : r \in Matches(phase) => (phase = "noncurrent" /\ (r.hold \/ r.id = 0))

\* The same, as a property of the behaviour: every step is such a step.
CycleIsComplete == [][CycleIsCompleteStep]_vars

\* Whatever clients do, an object past its days is not kept for ever.
Expiring == {p \in Old : p.key \in Scope /\ p.at + Days < MaxClock}
Served(o) == \E r \in versions : r.key = o.key /\ r.id = o.id /\ IsLatest(r) /\ ~r.hold
NoneServed == \A o \in Expiring : ~Served(o)
ExpiredIsRemoved == <>[]NoneServed

\* CHANGELOG.md: "Lifecycle rules delete only what S3 deletes": what the worker
\* removes or hides is, when it does, past its days and not locked.
DeletesOnlyDue == [][Worker =>
    /\ \A r \in versions : (IsLatest(r) /\ ~r.marker /\ \E s \in versions' \ versions : s.key = r.key) => Expired(r)
    /\ \A r \in versions \ versions' : r.key \in Scope /\ ~r.hold /\ (Expired(r) \/ NoncurrentExpired(r))]_vars
=============================================================================
