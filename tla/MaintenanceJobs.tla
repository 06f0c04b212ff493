------------------------- MODULE MaintenanceJobs -------------------------
(* Maintenance jobs on one node: the job rows and the administrative calls  *)
(* that create, pause, resume, cancel and clear them; the worker that picks *)
(* the active job each tick, raises or lowers the S3 drain and runs it; the *)
(* re-encryption of objects next to S3 writes; the copy of every metadata   *)
(* table to the other backend; crash and restart.                           *)
EXTENDS Naturals, Sequences, FiniteSets

CONSTANTS Tables,      \* the keys of each table, in the order of TABLES
          ObjectTable, \* the table whose rows own blobs
          Evidence,    \* the tables whose rows show that a backend is in use
          Jobs,        \* the [type, mode, force] an operator may submit
          Items,       \* the number of items of a noop job
          MaxJobs,     \* bound on the jobs created
          MaxPuts,     \* bound on the writes of one key
          MaxFaults,   \* bound on failing store calls
          MaxCrashes,  \* bound on restarts of the process
          Overlap      \* may a call be separated from the check it made?

VARIABLES job,      \* the maintenance_jobs rows, in creation order
          drain,    \* maintenance_draining of this process
          w,        \* the worker
          call,     \* the administrative call between its check and its write
          inflight, \* keys of the S3 writes that passed the drain middleware
          src,      \* the rows of the metadata backend in use
          dst,      \* the rows of the other backend
          file,     \* the blobs written so far
          acked,    \* the content each key had in the last acknowledged write
          faults, crashes

vars == <<job, drain, w, call, inflight, src, dst, file, acked, faults, crashes>>

Table == 1..Len(Tables)
Key == UNION {Tables[t] : t \in Table}
Objects == Tables[ObjectTable]
NoRow == [content |-> MaxPuts + 1, blob |-> 0, enc |-> 0]
IsRow(r) == r.content <= MaxPuts
NoCall == [op |-> "none"]
Idle == [pc |-> "idle", id |-> 0, mode |-> "live", todo |-> {}, item |-> {}, new |-> 0, errors |-> 0, table |-> 0]
Active == {"pending", "running", "paused"}
Terminal == {"completed", "failed", "cancelled"}

(* The id of a job that is still in the table *)
Known(i) == job[i].status # "cleared"

(* active_job: the oldest row that is pending, running or paused *)
ActiveJobs == {i \in DOMAIN job : job[i].status \in Active}
active_job == CHOOSE i \in ActiveJobs : \A j \in ActiveJobs : i <= j

(* set_job_status: an UPDATE by id, with no look at the status it replaces *)
set_job_status(i, s) == IF Known(i) THEN [job EXCEPT ![i].status = s] ELSE job

(* update_job_progress: an UPDATE by id *)
update_job_progress(i, n) == IF Known(i) THEN [job EXCEPT ![i].done = n] ELSE job

(* interrupt_running_jobs: what the next process does with a running job *)
interrupt_running_jobs ==
    [i \in DOMAIN job |-> IF job[i].status = "running" THEN [job[i] EXCEPT !.status = "failed"] ELSE job[i]]

(* clear_terminal_jobs *)
clear_terminal_jobs ==
    [i \in DOMAIN job |-> IF job[i].status \in Terminal THEN [job[i] EXCEPT !.status = "cleared"] ELSE job[i]]

(* Every call that is not taken apart waits for the one under way. *)
Calm == Overlap \/ (call = NoCall /\ inflight = {} /\ w.pc # "picked")

Fault == faults < MaxFaults /\ faults' = faults + 1

Init ==
    /\ job = <<>> /\ drain = FALSE /\ w = Idle /\ call = NoCall /\ inflight = {}
    /\ src = [k \in Key |-> [content |-> 0, blob |-> IF k \in Objects THEN k ELSE 0, enc |-> FALSE]]
    /\ dst = [k \in Key |-> NoRow]
    /\ file = [k \in Key |-> [content |-> 0, enc |-> FALSE, live |-> TRUE]]
    /\ acked = [k \in Key |-> 0]
    /\ faults = 0 /\ crashes = 0

---------------------------------------------------------------------------
(* Administrative calls *)

(* Mutant of CreateCheck: a paused job does not hold the slot. *)
CreateCheckPaused(j) ==
    /\ Calm /\ call = NoCall /\ Len(job) < MaxJobs
    /\ \A i \in ActiveJobs : job[i].status = "paused"
    /\ call' = [op |-> "create", job |-> j]
    /\ UNCHANGED <<job, drain, w, inflight, src, dst, file, acked, faults, crashes>>
(* POST .../jobs: the check that no job is active *)
CreateCheck(j) ==
    /\ Calm /\ call = NoCall /\ Len(job) < MaxJobs /\ ActiveJobs = {}
    /\ j.type = "migrate-db" => j.mode = "maintenance"
    /\ call' = [op |-> "create", job |-> j]
    /\ UNCHANGED <<job, drain, w, inflight, src, dst, file, acked, faults, crashes>>

(* the INSERT of the new row *)
CreateInsert ==
    /\ call.op = "create"
    /\ job' = Append(job, [type |-> call.job.type, mode |-> call.job.mode, force |-> call.job.force,
                           status |-> "pending", done |-> 0])
    /\ call' = NoCall
    /\ UNCHANGED <<drain, w, inflight, src, dst, file, acked, faults, crashes>>

AllowedFrom == [pause |-> {"pending", "running"}, resume |-> {"paused"}, cancel |-> Active]
ToStatus == [pause |-> "paused", resume |-> "running", cancel |-> "cancelled"]

(* pause, resume, cancel: the check of the status read *)
TransitionCheck(verb, i) ==
    /\ Calm /\ call = NoCall /\ job[i].status \in AllowedFrom[verb]
    /\ call' = [op |-> "transition", id |-> i, to |-> ToStatus[verb]]
    /\ UNCHANGED <<job, drain, w, inflight, src, dst, file, acked, faults, crashes>>

(* and the UPDATE that follows *)
TransitionSet ==
    /\ call.op = "transition"
    /\ job' = set_job_status(call.id, call.to)
    /\ call' = NoCall
    /\ UNCHANGED <<drain, w, inflight, src, dst, file, acked, faults, crashes>>

(* DELETE .../jobs *)
ClearJobs ==
    /\ Calm /\ job' = clear_terminal_jobs /\ job' # job
    /\ UNCHANGED <<drain, w, call, inflight, src, dst, file, acked, faults, crashes>>

---------------------------------------------------------------------------
(* S3 requests: the middleware, then the write *)

(* maintenance_drain_middleware lets the request through *)
Pass(k) ==
    /\ Calm /\ ~drain /\ k \in Objects \ inflight /\ acked[k] < MaxPuts
    /\ inflight' = inflight \cup {k}
    /\ UNCHANGED <<job, drain, w, call, src, dst, file, acked, faults, crashes>>

(* The new blob, encrypted as the server's blob store does, replaces the old *)
(* one in the row; the displaced blob is deleted; the client has its answer.  *)
WriteRow(k) ==
    /\ k \in inflight
    /\ inflight' = inflight \ {k}
    /\ acked' = [acked EXCEPT ![k] = @ + 1]
    /\ src' = [src EXCEPT ![k] = [content |-> acked[k] + 1, blob |-> Len(file) + 1, enc |-> TRUE]]
    /\ file' = Append([file EXCEPT ![src[k].blob].live = FALSE],
                      [content |-> acked[k] + 1, enc |-> TRUE, live |-> TRUE])
    /\ UNCHANGED <<job, drain, w, call, dst, faults, crashes>>

(* The administration API writes rows (users, buckets, settings) at any time; *)
(* the drain is a layer of the S3 router only.                                *)
AdminWrite(k) ==
    /\ Calm /\ k \in Key \ Objects /\ acked[k] < MaxPuts
    /\ Overlap \/ w.pc # "copy"
    /\ acked' = [acked EXCEPT ![k] = @ + 1]
    /\ src' = [src EXCEPT ![k].content = acked[k] + 1]
    /\ UNCHANGED <<job, drain, w, call, inflight, dst, file, faults, crashes>>

---------------------------------------------------------------------------
(* The worker *)

Work(i, pc) == [Idle EXCEPT !.pc = pc, !.id = i, !.mode = job[i].mode]

(* Mutant of want_drain: only a job that already runs drains the node. *)
want_drain_running(i) == job[i].mode = "maintenance" /\ job[i].status = "running"
(* want_drain: a maintenance-mode job drains the node for as long as it is active *)
want_drain(i) == job[i].mode = "maintenance"

(* Mutant of Tick: with no active job the tick returns before set_drain. *)
TickEarly ==
    /\ Calm /\ w.pc = "idle" /\ ActiveJobs # {}
    /\ drain' = want_drain(active_job)
    /\ w' = CASE job[active_job].status = "pending" -> Work(active_job, "picked")
              [] job[active_job].status = "running" -> Work(active_job, "start")
              [] OTHER -> w
    /\ UNCHANGED <<job, call, inflight, src, dst, file, acked, faults, crashes>>
(* Mutant of Tick: only a pending job is picked up, never a resumed one. *)
TickPending ==
    /\ Calm /\ w.pc = "idle"
    /\ drain' = IF ActiveJobs = {} THEN FALSE ELSE want_drain(active_job)
    /\ w' = IF ActiveJobs # {} /\ job[active_job].status = "pending" THEN Work(active_job, "picked") ELSE w
    /\ UNCHANGED <<job, call, inflight, src, dst, file, acked, faults, crashes>>
(* maintenance_tick: read the active job, move the drain, pick the job up *)
Tick ==
    /\ Calm /\ w.pc = "idle"
    /\ drain' = IF ActiveJobs = {} THEN FALSE ELSE want_drain(active_job)
    /\ w' = IF ActiveJobs = {} THEN w
            ELSE CASE job[active_job].status = "pending" -> Work(active_job, "picked")
                   [] job[active_job].status = "running" -> Work(active_job, "start")
                   [] OTHER -> w
    /\ UNCHANGED <<job, call, inflight, src, dst, file, acked, faults, crashes>>

(* Pending becomes running; a failing or empty UPDATE leaves it for the next tick *)
StartJob ==
    /\ w.pc = "picked"
    /\ \/ /\ job' = set_job_status(w.id, "running")
          /\ w' = IF Known(w.id) THEN [w EXCEPT !.pc = "start"] ELSE Idle
          /\ UNCHANGED faults
       \/ Fault /\ w' = Idle /\ UNCHANGED job
    /\ UNCHANGED <<drain, call, inflight, src, dst, file, acked, crashes>>

(* process_job records a processor's error; that write may fail too, and then *)
(* the row stays as it is                                                      *)
Failed(i) == job' \in {job, set_job_status(i, "failed")}

(* is_recrypt_candidate: an object row that is not encrypted yet *)
is_recrypt_candidate(k) == ~src[k].enc

(* Mutant of scan_candidates: a resumed job counts its earlier items as done. *)
scan_candidates_resumed(i) ==
    IF job[i].done > 0 THEN {} ELSE {[key |-> k, blob |-> src[k].blob] : k \in {x \in Objects : is_recrypt_candidate(x)}}
(* scan_candidates: every object version not in the wanted form, with the blob it has now *)
scan_candidates(i) == {[key |-> k, blob |-> src[k].blob] : k \in {x \in Objects : is_recrypt_candidate(x)}}

(* process_noop: Items items, counted on from the progress already recorded *)
noop_items(i) == {[key |-> n, blob |-> 0] : n \in (job[i].done + 1)..Items}

(* process_job: the scan of a re-encryption and the count of a noop *)
Plan ==
    /\ w.pc = "start" /\ job[w.id].type # "migrate-db"
    /\ \/ /\ w' = [w EXCEPT !.pc = "items",
                            !.todo = IF job[w.id].type = "noop" THEN noop_items(w.id) ELSE scan_candidates(w.id)]
          /\ job' = IF job[w.id].type = "noop" THEN job ELSE update_job_progress(w.id, 0)
          /\ UNCHANGED faults
       \/ Fault /\ Failed(w.id) /\ w' = Idle
    /\ UNCHANGED <<drain, call, inflight, src, dst, file, acked, crashes>>

(* get_job before each item: a job that is not running any more is left alone *)
TakeItem ==
    /\ Calm /\ w.pc = "items" /\ w.todo # {}
    /\ \/ /\ job[w.id].status = "running"
          /\ \E x \in w.todo : w' = [w EXCEPT !.pc = "item", !.item = {x}, !.todo = @ \ {x}]
       \/ job[w.id].status # "running" /\ w' = Idle
    /\ UNCHANGED <<job, drain, call, inflight, src, dst, file, acked, faults, crashes>>

(* The item is counted; a failing count fails the job *)
Counted ==
    \/ job' = update_job_progress(w.id, job[w.id].done + 1) /\ UNCHANGED faults
    \/ Fault /\ Failed(w.id)

(* An item of a noop job *)
NoopItem ==
    /\ w.pc = "item" /\ job[w.id].type = "noop"
    /\ Counted
    /\ w' = IF faults' = faults THEN [w EXCEPT !.pc = "items", !.item = {}] ELSE Idle
    /\ UNCHANGED <<drain, call, inflight, src, dst, file, acked, crashes>>

(* recrypt_one, first half: the old blob is read through the decoding store *)
(* and written as a new blob. A blob that is gone is an error of the item.   *)
Recrypt(x) ==
    /\ w.pc = "item" /\ job[w.id].type = "encrypt" /\ x \in w.item
    /\ \/ /\ file[x.blob].live
          /\ file' = Append(file, [content |-> file[x.blob].content, enc |-> TRUE, live |-> TRUE])
          /\ w' = [w EXCEPT !.pc = "swap", !.new = Len(file) + 1]
          /\ UNCHANGED <<job, faults>>
       \/ /\ \/ ~file[x.blob].live /\ UNCHANGED faults
             \/ Fault
          /\ job' = update_job_progress(w.id, job[w.id].done + 1)
          /\ w' = [w EXCEPT !.pc = "items", !.item = {}, !.errors = @ + 1]
          /\ UNCHANGED file
    /\ UNCHANGED <<drain, call, inflight, src, dst, acked, crashes>>

(* Mutant of Swaps: the row is swapped without the guard on its blob. *)
SwapsBlindly(x) == TRUE
(* update_object_encryption_cas: the row still has the blob that was read *)
Swaps(x) == src[x.key].blob = x.blob

(* recrypt_one, second half: swap the row and delete the blob no row has *)
Swap(x) ==
    /\ w.pc = "swap" /\ x \in w.item
    /\ IF Swaps(x)
       THEN /\ src' = [src EXCEPT ![x.key].blob = w.new, ![x.key].enc = TRUE]
            /\ file' = [file EXCEPT ![x.blob].live = FALSE]
       ELSE /\ file' = [file EXCEPT ![w.new].live = FALSE]
            /\ UNCHANGED src
    /\ Counted
    /\ w' = IF faults' = faults THEN [w EXCEPT !.pc = "items", !.item = {}] ELSE Idle
    /\ UNCHANGED <<drain, call, inflight, dst, acked, crashes>>

---------------------------------------------------------------------------
(* The copy to the other backend *)

(* The cells of a row: PostgreSQL has Booleans, SQLite keeps them as 0 and 1 *)
read_cell(v) == v
read_row(r) == [r EXCEPT !.enc = read_cell(@)]
cell_to_value(v) == IF v THEN 1 ELSE 0
value_to_cell(v) == v # 0

(* dump_table of the source *)
dump_table(t) == [k \in Tables[t] |-> read_row(src[k])]

(* truncate of every table of the target *)
truncate == [k \in Key |-> NoRow]

(* The cells load_table binds, and what a later dump_table reads back *)
Converted(r) == [r EXCEPT !.enc = cell_to_value(@)]
ReadBack(r) == [r EXCEPT !.enc = value_to_cell(@)]

(* count *)
count(rows, t) == Cardinality({k \in Tables[t] : IsRow(rows[k])})

(* migrate_all refuses a target in use unless it is forced; otherwise every *)
(* table of the target is emptied before the first row is copied            *)
StartCopy ==
    /\ w.pc = "start" /\ job[w.id].type = "migrate-db"
    /\ \/ /\ job[w.id].force \/ \A t \in Evidence : count(dst, t) = 0
          /\ dst' = truncate
          /\ w' = [w EXCEPT !.pc = "copy", !.table = 1]
          /\ job' = update_job_progress(w.id, 0)
          /\ UNCHANGED faults
       \/ /\ \/ /\ ~job[w.id].force /\ (\E t \in Evidence : count(dst, t) > 0)
                /\ job' = set_job_status(w.id, "failed") /\ UNCHANGED faults
             \/ Fault /\ Failed(w.id)
          /\ w' = Idle
          /\ UNCHANGED dst
    /\ UNCHANGED <<drain, call, inflight, src, file, acked, crashes>>

(* Mutant of CopyTable: the copy stops short of the last table. *)
CopyTableButLast ==
    /\ w.pc = "copy" /\ w.table < Len(Tables)
    /\ \/ /\ dst' = [k \in Key |-> IF k \in Tables[w.table] THEN Converted(dump_table(w.table)[k]) ELSE dst[k]]
          /\ w' = [w EXCEPT !.table = IF w.table + 1 = Len(Tables) THEN w.table + 2 ELSE w.table + 1]
          /\ UNCHANGED <<job, faults>>
       \/ Fault /\ Failed(w.id) /\ w' = Idle /\ UNCHANGED dst
    /\ UNCHANGED <<drain, call, inflight, src, file, acked, crashes>>
(* migrate_all, one table: dump, load, compare the counts; no look at the job *)
CopyTable ==
    /\ Calm /\ w.pc = "copy" /\ w.table <= Len(Tables)
    /\ \/ /\ dst' = [k \in Key |-> IF k \in Tables[w.table] THEN Converted(dump_table(w.table)[k]) ELSE dst[k]]
          /\ count(dst', w.table) = count(src, w.table)
          /\ w' = [w EXCEPT !.table = @ + 1]
          /\ UNCHANGED <<job, faults>>
       \/ Fault /\ Failed(w.id) /\ w' = Idle /\ UNCHANGED dst
    /\ UNCHANGED <<drain, call, inflight, src, file, acked, crashes>>

(* The last item or table is behind: the job is marked completed *)
Complete ==
    /\ \/ w.pc = "items" /\ w.todo = {}
       \/ w.pc = "copy" /\ w.table > Len(Tables)
    /\ \/ job' = set_job_status(w.id, "completed") /\ UNCHANGED faults
       \/ Fault /\ Failed(w.id)
    /\ w' = Idle
    /\ UNCHANGED <<drain, call, inflight, src, dst, file, acked, crashes>>

(* The process dies and the next one starts: running jobs are failed (or not, *)
(* when that write fails), the drain flag starts lowered.                      *)
Restart ==
    /\ crashes < MaxCrashes /\ crashes' = crashes + 1
    /\ \/ job' = interrupt_running_jobs /\ UNCHANGED faults
       \/ Fault /\ UNCHANGED job
    /\ drain' = FALSE /\ w' = Idle /\ call' = NoCall /\ inflight' = {}
    /\ UNCHANGED <<src, dst, file, acked>>

Worker ==
    \/ Tick \/ StartJob \/ Plan \/ TakeItem \/ NoopItem
    \/ \E x \in w.item : Recrypt(x) \/ Swap(x)
    \/ StartCopy \/ CopyTable \/ Complete

Finishing == CreateInsert \/ TransitionSet \/ \E k \in Key : WriteRow(k)

Next ==
    \/ \E j \in Jobs : CreateCheck(j)
    \/ \E verb \in {"pause", "resume", "cancel"}, i \in DOMAIN job : TransitionCheck(verb, i)
    \/ ClearJobs
    \/ \E k \in Key : Pass(k) \/ AdminWrite(k)
    \/ Finishing
    \/ Worker
    \/ Restart

Spec == Init /\ [][Next]_vars

(* spawn_maintenance_worker ticks every second for as long as the process    *)
(* lives, and a call that is under way finishes.                             *)
FairSpec == Spec /\ WF_vars(Worker) /\ WF_vars(Finishing)

---------------------------------------------------------------------------
(* Properties *)

Row == [content : 0..MaxPuts, blob : Nat, enc : BOOLEAN]

TypeOK ==
    /\ \A i \in DOMAIN job : job[i].status \in Active \cup Terminal \cup {"cleared"} /\ job[i].done \in Nat
    /\ drain \in BOOLEAN
    /\ w.pc \in {"idle", "picked", "start", "items", "item", "swap", "copy"}
    /\ w.pc # "idle" => w.id \in DOMAIN job
    /\ src \in [Key -> Row]
    /\ \A k \in Key : dst[k].content \in 0..(MaxPuts + 1) /\ dst[k].enc \in {0, 1}
    /\ inflight \subseteq Objects
    /\ \A k \in Objects : src[k].blob \in DOMAIN file

(* A re-encryption next to S3 writes, its failures and crashes never costs an *)
(* acknowledged write: each row is the last one acknowledged for its key and   *)
(* its blob is on disk, in the form the row says, with that content.           *)
ServedIsLastPut ==
    /\ \A k \in Key : src[k].content = acked[k]
    /\ \A k \in Objects : LET f == file[src[k].blob] IN f.live /\ f.content = src[k].content /\ f.enc = src[k].enc

(* "One job at a time": at most one job is pending, running or paused. *)
OneActive == Cardinality({i \in DOMAIN job : job[i].status \in {"pending", "running", "paused"}}) <= 1

(* A maintenance-mode job never touches data on a node that serves S3, *)
(* across ticks, pauses, restarts and failed updates of the job row.    *)
DrainedWhileWorking == w.pc \notin {"idle", "picked"} /\ w.mode = "maintenance" => drain

(* A migration reported as completed has every row of the source: what the   *)
(* operator switches to is what clients were told was stored.                 *)
MigratedIsCompleteStep ==
    \A i \in DOMAIN job :
      job[i].type = "migrate-db" /\ job[i].status # "completed" /\ job'[i].status = "completed"
      => \A k \in Key : IsRow(dst'[k]) /\ ReadBack(dst'[k]) = src'[k]

\* The same, as a property of the behaviour: every step is such a step.
MigratedIsComplete == [][MigratedIsCompleteStep]_vars

(* A re-encryption reported as completed without errors leaves no object in  *)
(* the old form, whatever pauses, resumes and restarts it went through.       *)
EncryptedIsCompleteStep ==
    \A i \in DOMAIN job :
      job[i].type = "encrypt" /\ job[i].status # "completed" /\ job'[i].status = "completed" /\ w.errors = 0
      => \A k \in Objects : src'[k].enc

\* The same, as a property of the behaviour: every step is such a step.
EncryptedIsComplete == [][EncryptedIsCompleteStep]_vars

(* A cancelled, failed or completed job stays what it is (until it is cleared). *)
TerminalIsFinal ==
    [][\A i \in DOMAIN job : job[i].status \in Terminal => job'[i].status \in {job[i].status, "cleared"}]_vars

(* A job that was started ends or is paused: the slot does not stay taken. *)
Waiting(i) == i \in DOMAIN job /\ job[i].status \in {"pending", "running"}
Rests(i) == i \in DOMAIN job /\ job[i].status \in Terminal \cup {"paused", "cleared"}
JobEnds == \A i \in 1..MaxJobs : Waiting(i) ~> Rests(i)

(* The node serves S3 again once no maintenance-mode job is active. *)
Released == ~drain \/ \E i \in ActiveJobs : job[i].mode = "maintenance"
Drained == drain
DrainReleased == Drained ~> Released
===========================================================================
