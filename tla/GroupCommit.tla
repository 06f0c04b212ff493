----------------------------- MODULE GroupCommit -----------------------------
(***************************************************************************)
(* The group committer of the single SQLite writer                         *)
(* (crates/arca-storage/src/sqlite/group_commit.rs).  The writes queued     *)
(* while the previous group committed share one transaction, each under    *)
(* its own savepoint; the callers are answered after the COMMIT.           *)
(*                                                                         *)
(* A write adds itself to the rows of the database and its result is what  *)
(* it saw there, so that order and isolation can be told from the results. *)
(* SQLite is external: a failed write, a transaction SQLite has rolled     *)
(* back and a failing statement of the committer are outcomes it may give. *)
(***************************************************************************)
EXTENDS Naturals, Sequences

CONSTANTS
  Write,      \* the writes
  MaxGroup,   \* MAX_GROUP
  MaxFaults   \* bound: failed writes, failed groups, crashes, cancelled callers

ASSUME GroupAssumption == MaxGroup \in Nat \ {0} /\ MaxFaults \in Nat

VARIABLES
  db,       \* the committed rows
  tx,       \* the rows as the open transaction sees them
  queue,    \* the queue of the committer
  jobs,     \* the jobs of the group under way
  done,     \* how many of them have run
  phase,    \* "idle", "taken", "running", "committed" or "failed"
  outcome,  \* outcome[w]: "pending", "ok", "error" or "panicked"
  result,   \* result[w]: what w saw
  answer,   \* answer[w]: what the caller knows
  sent,     \* the writes in the order they were queued
  open,     \* the writer connection is open
  faults    \* faults so far

vars == <<db, tx, queue, jobs, done, phase, outcome, result, answer, sent, open, faults>>

group == <<tx, queue, jobs, done, phase, outcome, result>>

Rows(s) == {s[i] : i \in 1 .. Len(s)}

Init ==
  /\ db = << >> /\ tx = << >>
  /\ queue = << >> /\ jobs = << >> /\ done = 0 /\ phase = "idle"
  /\ outcome = [w \in Write |-> "pending"]
  /\ result = [w \in Write |-> << >>]
  /\ answer = [w \in Write |-> "new"]
  /\ sent = << >> /\ open = TRUE /\ faults = 0

Fault == faults < MaxFaults /\ faults' = faults + 1
------------------------------------------------------------------------------
\* GroupCommitter::write
Submit(w) ==
  /\ answer[w] = "new"
  /\ answer' = [answer EXCEPT ![w] = "waiting"]
  /\ queue' = Append(queue, w)
  /\ sent' = Append(sent, w)
  /\ UNCHANGED <<db, tx, jobs, done, phase, outcome, result, open, faults>>

\* The request is cancelled while it waits; its job stays.
Cancel(w) ==
  /\ answer[w] = "waiting"
  /\ Fault
  /\ answer' = [answer EXCEPT ![w] = "gone"]
  /\ UNCHANGED <<db, group, sent, open>>

\* A write on the writer connection itself, between two groups.
Direct(w) ==
  /\ answer[w] = "new" /\ open /\ phase \in {"idle", "taken"}
  /\ db' = Append(db, w)
  /\ result' = [result EXCEPT ![w] = db]
  /\ outcome' = [outcome EXCEPT ![w] = "ok"]
  /\ answer' = [answer EXCEPT ![w] = "ok"]
  /\ UNCHANGED <<tx, queue, jobs, done, phase, sent, open, faults>>

\* Mutant of TakeGroup: one job too many.
TakeOneMore ==
  /\ phase = "idle" /\ queue # << >>
  /\ LET n == IF Len(queue) <= MaxGroup THEN Len(queue) ELSE MaxGroup + 1
     IN /\ jobs' = SubSeq(queue, 1, n)
        /\ queue' = SubSeq(queue, n + 1, Len(queue))
  /\ done' = 0
  /\ phase' = "taken"
  /\ UNCHANGED <<db, tx, outcome, result, answer, sent, open, faults>>

\* Mutant of TakeGroup: the last jobs of the queue are taken.
TakeLast ==
  /\ phase = "idle" /\ queue # << >>
  /\ LET n == IF Len(queue) < MaxGroup THEN Len(queue) ELSE MaxGroup
     IN /\ jobs' = SubSeq(queue, Len(queue) - n + 1, Len(queue))
        /\ queue' = SubSeq(queue, 1, Len(queue) - n)
  /\ done' = 0
  /\ phase' = "taken"
  /\ UNCHANGED <<db, tx, outcome, result, answer, sent, open, faults>>

\* run_groups: what is queued now, up to MaxGroup.
TakeGroup ==
  /\ phase = "idle" /\ queue # << >>
  /\ LET n == IF Len(queue) < MaxGroup THEN Len(queue) ELSE MaxGroup
     IN /\ jobs' = SubSeq(queue, 1, n)
        /\ queue' = SubSeq(queue, n + 1, Len(queue))
  /\ done' = 0
  /\ phase' = "taken"
  /\ UNCHANGED <<db, tx, outcome, result, answer, sent, open, faults>>

\* On a closed connection the jobs are dropped unanswered, and their callers
\* see the reply channel close.
DropGroup ==
  /\ phase = "taken" /\ ~open
  /\ LET w == Head(jobs)
     IN answer' = [answer EXCEPT ![w] = IF @ = "waiting" THEN "error" ELSE @]
  /\ jobs' = Tail(jobs)
  /\ phase' = IF Len(jobs) = 1 THEN "idle" ELSE phase
  /\ UNCHANGED <<db, tx, queue, done, outcome, result, sent, open, faults>>

Begin ==
  /\ phase = "taken" /\ open
  /\ tx' = db
  /\ phase' = "running"
  /\ UNCHANGED <<db, queue, jobs, done, outcome, result, answer, sent, open, faults>>

\* BEGIN, SAVEPOINT, RELEASE or COMMIT fails: the transaction is dropped.
GroupFails ==
  /\ phase = "running" \/ (phase = "taken" /\ open)
  /\ Fault
  /\ tx' = << >>
  /\ phase' = "failed"
  /\ UNCHANGED <<db, queue, jobs, done, outcome, result, answer, sent, open>>

\* The next job runs under its savepoint, which is rolled back when it fails.
RunJob ==
  /\ phase = "running" /\ done < Len(jobs)
  /\ LET w == jobs[done + 1]
     IN /\ result' = [result EXCEPT ![w] = tx]
        /\ \E o \in {"ok", "error", "panicked"} :
             /\ outcome' = [outcome EXCEPT ![w] = o]
             /\ tx' = IF o = "ok" THEN Append(tx, w) ELSE tx
             /\ IF o = "ok" THEN faults' = faults ELSE Fault
  /\ done' = done + 1
  /\ UNCHANGED <<db, queue, jobs, phase, answer, sent, open>>

\* Mutant of Aborted: the end of the transaction is not noticed, and the later
\* statements run in no transaction at all.
AbortedUnnoticed ==
  /\ phase = "running" /\ done < Len(jobs)
  /\ Fault
  /\ \E o \in {"ok", "error", "panicked"} : outcome' = [outcome EXCEPT ![jobs[done + 1]] = o]
  /\ tx' = db
  /\ done' = done + 1
  /\ UNCHANGED <<db, queue, jobs, phase, result, answer, sent, open>>

\* SQLite rolls the whole transaction back under a job (is_autocommit).
Aborted ==
  /\ phase = "running" /\ done < Len(jobs)
  /\ Fault
  /\ \E o \in {"ok", "error", "panicked"} : outcome' = [outcome EXCEPT ![jobs[done + 1]] = o]
  /\ tx' = << >>
  /\ phase' = "failed"
  /\ UNCHANGED <<db, queue, jobs, done, result, answer, sent, open>>

Commit ==
  /\ phase = "running" /\ done = Len(jobs)
  /\ db' = tx
  /\ phase' = "committed"
  /\ UNCHANGED <<tx, queue, jobs, done, outcome, result, answer, sent, open, faults>>

\* Job::finish: the outcome of the write and the one of its group.
Verdict(w) == IF outcome[w] = "ok" /\ phase = "committed" THEN "ok" ELSE "error"

\* Mutant of Finish: the first job stands for the whole group.
FinishFirst ==
  /\ phase \in {"committed", "failed"}
  /\ LET w == Head(jobs)
     IN /\ answer' = [answer EXCEPT ![w] = IF @ = "waiting" THEN Verdict(w) ELSE @]
        /\ jobs' = Tail(jobs)
        /\ phase' = "idle"
  /\ UNCHANGED <<db, tx, queue, done, outcome, result, sent, open, faults>>

\* The first job left is answered; a caller that is gone hears nothing.
Finish ==
  /\ phase \in {"committed", "failed"}
  /\ LET w == Head(jobs)
     IN /\ answer' = [answer EXCEPT ![w] = IF @ = "waiting" THEN Verdict(w) ELSE @]
        /\ jobs' = Tail(jobs)
        /\ phase' = IF Len(jobs) = 1 THEN "idle" ELSE phase
  /\ UNCHANGED <<db, tx, queue, done, outcome, result, sent, open, faults>>

Close ==
  /\ open /\ Fault
  /\ open' = FALSE
  /\ UNCHANGED <<db, group, answer, sent>>

\* The process stops and starts again: the queue, the transaction and the
\* callers are gone.
Crash ==
  /\ Fault
  /\ tx' = << >> /\ queue' = << >> /\ jobs' = << >> /\ done' = 0 /\ phase' = "idle"
  /\ answer' = [w \in Write |-> IF answer[w] \in {"waiting", "gone"} THEN "lost" ELSE answer[w]]
  /\ open' = TRUE
  /\ UNCHANGED <<db, outcome, result, sent>>

Committer == TakeGroup \/ DropGroup \/ Begin \/ RunJob \/ Commit \/ Finish

Next ==
  \/ \E w \in Write : Submit(w) \/ Cancel(w) \/ Direct(w)
  \/ Committer \/ GroupFails \/ Aborted
  \/ Close \/ Crash

Spec == Init /\ [][Next]_vars

\* The committer task and the writer thread keep running.
FairSpec == Spec /\ WF_vars(Committer)
------------------------------------------------------------------------------
\* Type invariant; a group is never larger than MaxGroup, and a committed one
\* has run all its writes (the unreachable!() of Job::finish).
TypeOK ==
  /\ db \in Seq(Write) /\ tx \in Seq(Write) /\ queue \in Seq(Write) /\ sent \in Seq(Write)
  /\ jobs \in Seq(Write) /\ Len(jobs) <= MaxGroup /\ done \in 0 .. MaxGroup
  /\ phase \in {"idle", "taken", "running", "committed", "failed"}
  /\ outcome \in [Write -> {"pending", "ok", "error", "panicked"}]
  /\ result \in [Write -> Seq(Write)]
  /\ answer \in [Write -> {"new", "waiting", "gone", "ok", "error", "lost"}]
  /\ open \in BOOLEAN /\ faults \in Nat
  /\ phase = "committed" => \A i \in 1 .. Len(jobs) : outcome[jobs[i]] # "pending"

\* Module comment, "exactly as separate transactions on the one writer would":
\* whatever fails, the writes are atomic, each of them sees exactly the ones
\* before it, an "ok" is durable and an error leaves nothing.
Atomic == INSTANCE AtomicWriter WITH
            log <- db,
            saw <- [w \in Write |-> IF w \in Rows(db) THEN result[w] ELSE << >>]

AtomicSpec == Atomic!Spec

\* Module comment, "in submission order": the queued writes that are committed
\* are in the order in which they were queued.
InSubmissionOrder ==
  \A i, j \in 1 .. Len(db) : \A m, n \in 1 .. Len(sent) :
    i < j /\ db[i] = sent[m] /\ db[j] = sent[n] => m < n

\* Every caller that stays gets an answer.
EventuallyAnswered == \A w \in Write : answer[w] = "waiting" ~> answer[w] # "waiting"
==============================================================================
