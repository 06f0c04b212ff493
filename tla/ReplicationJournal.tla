------------------------- MODULE ReplicationJournal -------------------------
(***************************************************************************)
(* Bucket replication between two sites, and the mirror made of two        *)
(* one-way rules.  One key of a versioned bucket on each site.  A client   *)
(* operation commits its row, then (another await) inserts a journal entry *)
(* and stamps the row; a worker per site claims the due entries, takes     *)
(* them one by one, asks the destination for its Last-Modified, sends the  *)
(* operation and records the outcome.  The destination treats what arrives *)
(* as an ordinary request that carries the replication header.             *)
(*                                                                         *)
(* Abstracted: contents are the number of the client operation that made   *)
(* them; the back-off is "not due yet"; rule filters are one Boolean       *)
(* configuration per site.                                                 *)
(***************************************************************************)
EXTENDS Naturals, Sequences, FiniteSets, SequencesExt

CONSTANTS
    Site,         \* the two deployments
    Kind,         \* what clients do: a subset of {"put", "delete", "tag", "erase"}
    Mirror,       \* the sites whose bucket has a replication rule
    MaxWrites,    \* client operations
    MaxAttempts,  \* max_retries
    MaxFaults,    \* requests that fail or whose answer is lost
    MaxCrashes,   \* crashes of a server
    MaxAdmin,     \* administrator's steps
    Second,       \* instants that one Last-Modified second spans
    None

VARIABLES
    rows,      \* per site: every version of the key, oldest first
    emitting,  \* per site: operations whose handler has not emitted yet
    journal,   \* per site: table replication_journal, in order of insertion
    batch,     \* per site: entries claimed and not yet taken, as the worker read them
    current,   \* per site: the entry being processed
    rule,      \* per site: "enabled", "disabled" or "gone"
    credential,\* per site: is the destination credential stored?
    flag,      \* per site: the cached answer of replication_enabled_for
    clock,     \* instants so far
    writes, faults, crashes, admin   \* used up bounds

vars == <<rows, emitting, journal, batch, current, rule, credential, flag, clock, writes, faults, crashes, admin>>

-----------------------------------------------------------------------------
Peer(s) == CHOOSE p \in Site : p # s

\* A row: the client operation it stems from, and whether it came with the replication header.
Row(w, kind, replica) == [orig |-> w, kind |-> kind, at |-> clock, tag |-> 0, replica |-> replica,
                          status |-> IF replica THEN "REPLICA" ELSE "none"]

\* The latest row of the key on a site: 0 when there is none.
Latest(s) == LET live == {v \in DOMAIN rows[s] : rows[s][v].kind # "erased"}
             IN  IF live = {} THEN 0 ELSE CHOOSE v \in live : \A u \in live : u <= v

HasObject(s) == Latest(s) # 0 /\ rows[s][Latest(s)].kind = "put"

\* HEAD answers with whole seconds.
LastModified(s) == LET t == rows[s][Latest(s)].at IN t - (t % Second)

Entry(v, event) == [v |-> v, event |-> event, status |-> "pending", attempts |-> 0, due |-> TRUE]

\* update_status: an entry that was purged meanwhile is not there to update.
Updated(s, i, status, attempts, due) ==
    [journal EXCEPT ![s][i] = IF @.status = "purged" THEN @
        ELSE [@ EXCEPT !.status = status, !.attempts = attempts, !.due = due]]

\* set_object_replication_status on the row of one version.
Stamped(s, v, status) == [rows EXCEPT ![s][v] = IF @.kind = "erased" THEN @ ELSE [@ EXCEPT !.status = status]]

Init ==
    /\ rows = [s \in Site |-> <<>>]
    /\ emitting = [s \in Site |-> {}]
    /\ journal = [s \in Site |-> <<>>]
    /\ batch = [s \in Site |-> {}]
    /\ current = [s \in Site |-> None]
    /\ rule = [s \in Site |-> IF s \in Mirror THEN "enabled" ELSE "gone"]
    /\ credential = [s \in Site |-> TRUE]
    /\ flag = [s \in Site |-> None]
    /\ clock = 1 /\ writes = 0 /\ faults = 0 /\ crashes = 0 /\ admin = 0

-----------------------------------------------------------------------------
\* put_object, copy_object, complete_multipart_upload: the row is committed.
PutRow(s) ==
    /\ rows' = [rows EXCEPT ![s] = Append(@, Row(writes', "put", FALSE))]
    /\ emitting' = [emitting EXCEPT ![s] = @ \cup {[v |-> Len(rows[s]) + 1, event |-> "put"]}]
    /\ clock' = clock + 1

\* delete_object without a version id: a delete marker becomes the latest row.
DeleteRow(s) ==
    /\ rows' = [rows EXCEPT ![s] = Append(@, Row(writes', "marker", FALSE))]
    /\ emitting' = [emitting EXCEPT ![s] = @ \cup {[v |-> Len(rows[s]) + 1, event |-> "delete"]}]
    /\ clock' = clock + 1

\* put_object_tagging on the latest row.
TagRow(s) ==
    /\ HasObject(s)
    /\ rows' = [rows EXCEPT ![s][Latest(s)].tag = writes']
    /\ emitting' = [emitting EXCEPT ![s] = @ \cup {[v |-> Latest(s), event |-> "tag"]}]
    /\ UNCHANGED clock

\* delete_object of one version: the row is gone, nothing is replicated.
EraseRow(s) ==
    /\ \E v \in DOMAIN rows[s] : rows[s][v].kind # "erased" /\ rows' = [rows EXCEPT ![s][v].kind = "erased"]
    /\ UNCHANGED <<emitting, clock>>

Client(s) ==
    /\ writes < MaxWrites
    /\ writes' = writes + 1
    /\ \/ "put" \in Kind /\ PutRow(s)
       \/ "delete" \in Kind /\ DeleteRow(s)
       \/ "tag" \in Kind /\ TagRow(s)
       \/ "erase" \in Kind /\ EraseRow(s)
    /\ UNCHANGED <<journal, batch, current, rule, credential, flag, faults, crashes, admin>>

\* replication_enabled_for: the cached flag, read from the configuration when absent.
Enabled(s) == IF flag[s] = None THEN rule[s] # "gone" ELSE flag[s]

\* maybe_emit: does the operation insert an entry?
Emits(s) == Enabled(s) /\ rule[s] = "enabled"

\* emit_and_stamp: the entry and the PENDING stamp of a client's operation.
Emit(s) == \E e \in emitting[s] :
    /\ emitting' = [emitting EXCEPT ![s] = @ \ {e}]
    /\ flag' = [flag EXCEPT ![s] = Enabled(s)]
    /\ journal' = IF Emits(s) THEN [journal EXCEPT ![s] = Append(@, Entry(e.v, e.event))] ELSE journal
    /\ rows' = IF Emits(s) THEN Stamped(s, e.v, "PENDING") ELSE rows
    /\ UNCHANGED <<batch, current, rule, credential, clock, writes, faults, crashes, admin>>

-----------------------------------------------------------------------------
\* next_retry_at of a pending entry passes.
RetryTime(s) == \E i \in DOMAIN journal[s] :
    /\ journal[s][i].status = "pending" /\ ~journal[s][i].due
    /\ journal' = [journal EXCEPT ![s][i].due = TRUE]
    /\ UNCHANGED <<rows, emitting, batch, current, rule, credential, flag, clock, writes, faults, crashes, admin>>

\* claim_batch: every due entry turns in_flight in one transaction.
Claim(s) ==
    /\ batch[s] = {} /\ current[s] = None
    /\ LET due == {i \in DOMAIN journal[s] : journal[s][i].status \in {"pending", "failed"} /\ journal[s][i].due} IN
       /\ due # {}
       /\ batch' = [batch EXCEPT ![s] = {[i |-> i, attempts |-> journal[s][i].attempts] : i \in due}]
       /\ journal' = [journal EXCEPT ![s] = [i \in DOMAIN @ |-> IF i \in due THEN [@[i] EXCEPT !.status = "in_flight"] ELSE @[i]]]
    /\ UNCHANGED <<rows, emitting, current, rule, credential, flag, clock, writes, faults, crashes, admin>>

\* Mutant of MarkFailed: the entry of a failed attempt is left as claimed.
MarkFailedInFlight(s, i, attempts) ==
    /\ journal' = Updated(s, i, IF attempts + 1 >= MaxAttempts THEN "failed" ELSE "in_flight", attempts + 1, FALSE)
    /\ rows' = IF attempts + 1 >= MaxAttempts THEN Stamped(s, journal[s][i].v, "FAILED") ELSE rows

\* mark_failed: back to pending with a later retry time; the last attempt is terminal.
MarkFailed(s, i, attempts) ==
    LET terminal == attempts + 1 >= MaxAttempts IN
    /\ journal' = Updated(s, i, IF terminal THEN "failed" ELSE "pending", attempts + 1, FALSE)
    /\ rows' = IF terminal THEN Stamped(s, journal[s][i].v, "FAILED") ELSE rows

\* complete followed by stamp_object.
Complete(s, i, attempts) ==
    /\ journal' = Updated(s, i, "completed", attempts, TRUE)
    /\ rows' = Stamped(s, journal[s][i].v, "COMPLETED")

\* The destination is not older than the version to send (local_last_modified of
\* a version that is gone is None: not newer).
DestinationNewer(s, i) ==
    /\ HasObject(Peer(s))
    /\ rows[s][journal[s][i].v].kind # "erased"
    /\ LastModified(Peer(s)) >= rows[s][journal[s][i].v].at

\* process_entry up to the HEAD: a rule that is gone completes the entry, a
\* missing credential fails it, a failed HEAD reads as "not newer".
Examine(s) == \E b \in batch[s] :
    /\ current[s] = None
    /\ batch' = [batch EXCEPT ![s] = @ \ {b}]
    /\ \/ /\ rule[s] = "gone"
          /\ journal' = Updated(s, b.i, "completed", b.attempts, TRUE)
          /\ UNCHANGED <<rows, current, faults>>
       \/ /\ rule[s] # "gone" /\ ~credential[s]
          /\ MarkFailed(s, b.i, b.attempts)
          /\ UNCHANGED <<current, faults>>
       \/ /\ rule[s] # "gone" /\ credential[s]
          /\ \E newer \in {DestinationNewer(s, b.i)} \cup (IF faults < MaxFaults THEN {FALSE} ELSE {}) :
                /\ current' = [current EXCEPT ![s] = [i |-> b.i, attempts |-> b.attempts, newer |-> newer, done |-> "examined"]]
                /\ faults' = IF newer = DestinationNewer(s, b.i) THEN faults ELSE faults + 1
          /\ UNCHANGED <<rows, journal>>
    /\ UNCHANGED <<emitting, rule, credential, flag, clock, writes, crashes, admin>>

\* Mutant of Arrive: the destination emits what arrives with the replication header.
ArriveEmitting(s, row, event) ==
    /\ rows' = [rows EXCEPT ![s] = Append(@, row)]
    /\ emitting' = [emitting EXCEPT ![s] = @ \cup {[v |-> Len(rows[s]) + 1, event |-> event]}]
    /\ clock' = clock + 1

\* The destination's handler with is_replica_write: a new row stamped REPLICA, no entry.
Arrive(s, row, event) ==
    /\ rows' = [rows EXCEPT ![s] = Append(@, row)]
    /\ clock' = clock + 1
    /\ UNCHANGED emitting

\* What the request of an entry does at the destination, and whether it is accepted.
Applied(s, e) == LET r == rows[s][e.v] p == Peer(s) IN
    \/ /\ e.event = "put" /\ r.kind = "put"
       /\ Arrive(p, Row(r.orig, "put", TRUE), "put")
    \/ /\ e.event = "delete"
       /\ Arrive(p, Row(r.orig, "marker", TRUE), "delete")
    \/ /\ e.event = "tag" /\ HasObject(p)
       /\ rows' = [rows EXCEPT ![p][Latest(p)].tag = r.tag]
       /\ UNCHANGED <<emitting, clock>>

\* A PUT of a version that is gone succeeds idly.
Idle(s, e) == /\ e.event = "put" /\ rows[s][e.v].kind = "erased"
              /\ UNCHANGED <<rows, emitting, clock>>

Sent(s, done) == current' = [current EXCEPT ![s].done = done]

\* deliver_put, deliver_tags, execute: delivered, refused or unanswered.
Send(s) ==
    /\ current[s] # None /\ current[s].done = "examined"
    /\ LET e == journal[s][current[s].i] IN
       \/ /\ current[s].newer /\ e.event = "put"
          /\ Sent(s, "ok") /\ UNCHANGED <<rows, emitting, clock, faults>>
       \/ /\ ~(current[s].newer /\ e.event = "put")
          /\ \/ (Applied(s, e) \/ Idle(s, e)) /\ Sent(s, "ok") /\ UNCHANGED faults
             \/ /\ e.event = "tag" /\ ~HasObject(Peer(s))
                /\ Sent(s, "error") /\ UNCHANGED <<rows, emitting, clock, faults>>
             \/ /\ faults < MaxFaults /\ faults' = faults + 1
                /\ \/ UNCHANGED <<rows, emitting, clock>>
                   \/ Applied(s, e)
                /\ Sent(s, "error")
    /\ UNCHANGED <<journal, batch, rule, credential, flag, writes, crashes, admin>>

\* Mutant of Settle: a failed delivery is recorded like a successful one.
SettleAlways(s) ==
    /\ current[s] # None /\ current[s].done # "examined"
    /\ Complete(s, current[s].i, current[s].attempts)
    /\ current' = [current EXCEPT ![s] = None]
    /\ UNCHANGED <<emitting, batch, rule, credential, flag, clock, writes, faults, crashes, admin>>

\* process_entry: record the outcome.
Settle(s) ==
    /\ current[s] # None /\ current[s].done # "examined"
    /\ IF current[s].done = "ok" THEN Complete(s, current[s].i, current[s].attempts)
                                 ELSE MarkFailed(s, current[s].i, current[s].attempts)
    /\ current' = [current EXCEPT ![s] = None]
    /\ UNCHANGED <<emitting, batch, rule, credential, flag, clock, writes, faults, crashes, admin>>

-----------------------------------------------------------------------------
\* The process dies and starts again: what was in memory is gone, the tables stay.
Crash(s) ==
    /\ crashes < MaxCrashes
    /\ crashes' = crashes + 1
    /\ emitting' = [emitting EXCEPT ![s] = {}]
    /\ batch' = [batch EXCEPT ![s] = {}]
    /\ current' = [current EXCEPT ![s] = None]
    /\ flag' = [flag EXCEPT ![s] = None]
    /\ UNCHANGED <<rows, journal, rule, credential, clock, writes, faults, admin>>

\* put_bucket_replication: a configuration with the rule enabled.
PutConfig(s) ==
    /\ rule' = [rule EXCEPT ![s] = "enabled"]
    /\ flag' = [flag EXCEPT ![s] = None]
    /\ UNCHANGED <<journal, credential>>

\* delete_bucket_replication.
DeleteConfig(s) ==
    /\ rule' = [rule EXCEPT ![s] = "gone"]
    /\ flag' = [flag EXCEPT ![s] = None]
    /\ UNCHANGED <<journal, credential>>

UpsertCredential(s) ==
    /\ ~credential[s]
    /\ credential' = [credential EXCEPT ![s] = TRUE]
    /\ UNCHANGED <<journal, rule, flag>>

\* disable_rules_referencing
DisableRules(s) ==
    /\ rule' = [rule EXCEPT ![s] = IF @ = "enabled" THEN "disabled" ELSE @]
    /\ flag' = [flag EXCEPT ![s] = IF rule[s] = "enabled" THEN None ELSE @]

\* delete_credential: the rules that use it are disabled first.
DeleteCredential(s) ==
    /\ credential[s]
    /\ DisableRules(s)
    /\ credential' = [credential EXCEPT ![s] = FALSE]
    /\ UNCHANGED journal

\* retry_entry: pending, due, no attempt counted, whatever the entry's state.
RetryEntry(s) ==
    /\ \E i \in DOMAIN journal[s] : journal[s][i].status # "purged" /\ journal' = Updated(s, i, "pending", 0, TRUE)
    /\ UNCHANGED <<rule, credential, flag>>

Purged(s, statuses) ==
    [journal EXCEPT ![s] = [i \in DOMAIN @ |-> IF @[i].status \in statuses THEN [@[i] EXCEPT !.status = "purged"] ELSE @[i]]]

\* The retention worker: purge_completed, then purge_all_older (the hard cap).
Retention(s) ==
    /\ journal' = Purged(s, {"completed"})
    /\ UNCHANGED <<rule, credential, flag>>

\* clear_journal: purge_all_older with a bound in the future.
ClearJournal(s) ==
    /\ journal' = Purged(s, {"pending", "in_flight", "failed", "completed"})
    /\ UNCHANGED <<rule, credential, flag>>

Admin(s) ==
    /\ admin < MaxAdmin
    /\ admin' = admin + 1
    /\ \/ PutConfig(s) \/ DeleteConfig(s) \/ UpsertCredential(s) \/ DeleteCredential(s)
       \/ RetryEntry(s) \/ Retention(s) \/ ClearJournal(s)
    /\ UNCHANGED <<rows, emitting, batch, current, clock, writes, faults, crashes>>

-----------------------------------------------------------------------------
Worker(s) == RetryTime(s) \/ Claim(s) \/ Examine(s) \/ Send(s) \/ Settle(s)

Next == \E s \in Site : Client(s) \/ Emit(s) \/ Worker(s) \/ Crash(s) \/ Admin(s)

\* Handlers run to their end and the worker's loop never blocks for good (every
\* request has a timeout): weak fairness of each step of each.
Fairness == \A s \in Site : WF_vars(Emit(s)) /\ WF_vars(Worker(s))

Spec == Init /\ [][Next]_vars /\ Fairness

-----------------------------------------------------------------------------
Status == {"pending", "in_flight", "failed", "completed", "purged"}

\* Every table and every cell has its type: journal entries name existing rows.
TypeOK ==
    /\ \A s \in Site :
        /\ \A v \in DOMAIN rows[s] : rows[s][v] \in [orig : 1..MaxWrites, kind : {"put", "marker", "erased"},
                at : 1..clock, status : {"none", "PENDING", "COMPLETED", "FAILED", "REPLICA"}, tag : 0..MaxWrites, replica : BOOLEAN]
        /\ \A i \in DOMAIN journal[s] : journal[s][i] \in [v : DOMAIN rows[s], event : {"put", "delete", "tag"},
                status : Status, attempts : 0..MaxAttempts, due : BOOLEAN]
        /\ \A e \in emitting[s] : e.v \in DOMAIN rows[s]
        /\ \A b \in batch[s] : b.i \in DOMAIN journal[s]
        /\ current[s] # None => current[s].i \in DOMAIN journal[s]
    /\ rule \in [Site -> {"enabled", "disabled", "gone"}]
    /\ credential \in [Site -> BOOLEAN]

\* Loop prevention (is_replica_write in maybe_emit): however requests are lost
\* and retried, a mirror never sends a client's operation back to the site that
\* received it: there it stays the one row it was.
NotEchoed == \A s \in Site : \A u, v \in DOMAIN rows[s] :
    rows[s][u].orig = rows[s][v].orig => rows[s][u].replica = rows[s][v].replica

\* stamp_object: a version that says COMPLETED has reached the destination, or
\* the destination then held a version that was not older (destination-wins).
\* A tag event's stamp speaks of the tags only.
CompletedIsBacked == \A s \in Site : \A v \in DOMAIN rows[s] :
    (rows[s][v].status = "COMPLETED" /\ rows[s][v].kind = "put" /\ "tag" \notin Kind) =>
        \E u \in DOMAIN rows[Peer(s)] : \/ rows[Peer(s)][u].orig = rows[s][v].orig
                                       \/ rows[Peer(s)][u].at >= rows[s][v].at

\* Every journal entry is settled in the end: completed, given up after
\* MaxAttempts, or purged.
SettledEntry(s, i) == journal[s][i].status \in {"completed", "failed", "purged"}
AllSettled == \A s \in Site : \A i \in DOMAIN journal[s] : SettledEntry(s, i)
EverySettles == <>[]AllSettled

Settled == \A s \in Site :
    /\ emitting[s] = {} /\ current[s] = None
    /\ \A i \in DOMAIN journal[s] : journal[s][i].status = "completed"

\* guide/replication.md: writes reach the other side and convergence is eventual:
\* with every entry completed, no fault, no administration and no client at the
\* destination, the destination has the content of the source's latest version.
SettledAgree == \A s \in Mirror :
    (/\ Settled /\ faults + crashes + admin = 0 /\ HasObject(s)
     /\ \A v \in DOMAIN rows[Peer(s)] : rows[Peer(s)][v].replica) =>
        HasObject(Peer(s)) /\ rows[Peer(s)][Latest(Peer(s))].orig = rows[s][Latest(s)].orig
=============================================================================
