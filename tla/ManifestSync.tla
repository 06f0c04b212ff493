---------------------------- MODULE ManifestSync -----------------------------
(***************************************************************************)
(* One direction of the object anti-entropy                                *)
(* (crates/arca-server/src/cluster/anti_entropy.rs): node D pulls the      *)
(* changed-since manifest of its peer S, page by page, keeps a high-water  *)
(* mark, skips an entry that keeps failing, and detects from the pings of  *)
(* the membership loop that the sequence counter of S went back.           *)
(*                                                                         *)
(* A row is its key, its version (the timestamp last-writer-wins compares) *)
(* and, on S, the sequence number of its last change.                      *)
(***************************************************************************)
EXTENDS Naturals, FiniteSets

CONSTANTS
  Key,         \* the object keys
  Batch,       \* MANIFEST_BATCH
  SkipAfter,   \* STUCK_SKIP_AFTER
  Broken,      \* the keys whose rows D's store may refuse to apply
  CanRestore,  \* S may be restored from a backup
  MaxWrites,   \* bound: writes to S
  MaxErrors    \* bound: failed requests to S and apply failures; a key in Broken
               \* fails without counting

ASSUME SyncAssumption ==
  /\ IsFiniteSet(Key) /\ Broken \subseteq Key
  /\ Batch \in Nat \ {0} /\ SkipAfter \in Nat \ {0, 1}
  /\ CanRestore \in BOOLEAN
  /\ MaxWrites \in Nat /\ MaxErrors \in Nat

VARIABLES
  src,      \* src[k]: the row of S; version 0 is no row
  counter,  \* object_seq of S
  backup,   \* the backup of S
  restored, \* S has been restored from it
  dst,      \* dst[k]: the version of the row of D
  ping,     \* the answers of S to pings whose probe round has not ended
  seen,     \* what D's membership publishes of S: {} or its max_seq
  newer,    \* last_seen of S is later than hwm_at
  hwm,      \* high-water mark of D
  pass,     \* the pass of the anti-entropy worker under way
  stuck,    \* StuckTracker: the failing seq and its streak
  first,    \* first_pass_done
  skipped,  \* the entries D has given up
  errors,   \* errors so far
  writes    \* client writes so far; also the version of the last one

vars == <<src, counter, backup, restored, dst, ping, seen, newer, hwm, pass, stuck,
          first, skipped, errors, writes>>

source == <<src, counter, backup, restored, writes>>
probe == <<ping, seen>>
------------------------------------------------------------------------------
NoRows == [k \in Key |-> [ver |-> 0, seq |-> 0]]
Entry == [key : Key, ver : Nat, seq : Nat]
\* page is what is left of the fetched page, in the order of the seqs; goal is
\* history: the counter of S when the pass started.
Idle == [on |-> FALSE, since |-> 0, cursor |-> 0, page |-> {}, more |-> FALSE, goal |-> 0]
NoStreak == [seq |-> 0, count |-> 0]

Init ==
  /\ src = NoRows /\ counter = 0 /\ writes = 0
  /\ backup = {} /\ restored = FALSE
  /\ dst = [k \in Key |-> 0]
  /\ ping = {} /\ seen = {} /\ newer = TRUE
  /\ hwm = 0 /\ pass = Idle /\ stuck = NoStreak
  /\ first = FALSE /\ skipped = {} /\ errors = 0
------------------------------------------------------------------------------
\* A row of S changes under a fresh seq.
Store(k, v) ==
  /\ src' = [src EXCEPT ![k] = [ver |-> v, seq |-> counter + 1]]
  /\ counter' = counter + 1

Write(k) ==
  /\ writes < MaxWrites
  /\ writes' = writes + 1
  /\ Store(k, writes + 1)
  /\ UNCHANGED <<backup, restored, dst, probe, newer, hwm, pass, stuck, first, skipped,
                 errors>>

\* S adopts a row of D that is newer than its own.
PullBack(k) ==
  /\ dst[k] > src[k].ver
  /\ Store(k, dst[k])
  /\ UNCHANGED <<backup, restored, dst, probe, newer, hwm, pass, stuck, first, skipped,
                 errors, writes>>

Backup ==
  /\ CanRestore /\ backup = {}
  /\ backup' = {[src |-> src, counter |-> counter]}
  /\ UNCHANGED <<src, counter, restored, dst, probe, newer, hwm, pass, stuck, first,
                 skipped, errors, writes>>

\* S is restored from its backup: its rows and its counter go back.
Restore ==
  /\ ~restored
  /\ \E b \in backup : src' = b.src /\ counter' = b.counter
  /\ restored' = TRUE
  /\ UNCHANGED <<backup, dst, probe, newer, hwm, pass, stuck, first, skipped, errors, writes>>
------------------------------------------------------------------------------
\* S answers a ping with its counter.
Ping ==
  /\ ping = {}
  /\ ping' = {counter}
  /\ UNCHANGED <<source, dst, seen, newer, hwm, pass, stuck, first, skipped, errors>>

\* Mutant of Publish: the largest max_seq ever answered is kept.
PublishLargest ==
  /\ ping # {}
  /\ seen' = {CHOOSE x \in ping \cup seen : \A y \in ping \cup seen : x >= y}
  /\ newer' = TRUE
  /\ ping' = {}
  /\ UNCHANGED <<source, dst, hwm, pass, stuck, first, skipped, errors>>

\* The probe round ends: the answer is published, with the time of the end of
\* the round as last_seen.
Publish ==
  /\ ping # {}
  /\ seen' = ping
  /\ newer' = TRUE
  /\ ping' = {}
  /\ UNCHANGED <<source, dst, hwm, pass, stuck, first, skipped, errors>>

\* sync_rewound: S reports less than D has consumed, after D last advanced.
SyncRewound == newer /\ \E max \in seen : max < hwm

\* A pass starts: the rewind check, then the objects from the high-water mark.
StartPass ==
  /\ ~pass.on
  /\ LET h == IF SyncRewound THEN 0 ELSE hwm
     IN /\ hwm' = h
        /\ pass' = [on |-> TRUE, since |-> h, cursor |-> h, page |-> {}, more |-> TRUE,
                     goal |-> counter]
  /\ newer' = (newer \/ SyncRewound)
  /\ UNCHANGED <<source, dst, probe, stuck, first, skipped, errors>>

Past(after) == {[key |-> k, ver |-> src[k].ver, seq |-> src[k].seq] :
                  k \in {j \in Key : src[j].seq > after}}

\* Mutant of Manifest: the rows are not ordered by their seq.
ManifestNewestFirst(after) ==
  {e \in Past(after) : Cardinality({x \in Past(after) : x.seq > e.seq}) < Batch}

\* list_rows_changed_since: the first rows past a seq, in the order of their seq.
Manifest(after) ==
  {e \in Past(after) : Cardinality({x \in Past(after) : x.seq < e.seq}) < Batch}

\* The entry of the page that is applied next.
IsNext(e) == e \in pass.page /\ \A x \in pass.page : e.seq <= x.seq

\* Mutant of Observe: the streak starts again at every pass.
ObserveAnew(failed) == [seq |-> failed, count |-> 1]

\* StuckTracker::observe
Observe(failed) ==
  IF stuck.seq = failed THEN [seq |-> failed, count |-> stuck.count + 1]
                        ELSE [seq |-> failed, count |-> 1]

\* set_sync_hwm, when the pass got further than it started.
Advance(to) ==
  IF to > pass.since THEN hwm' = to /\ newer' = FALSE ELSE UNCHANGED <<hwm, newer>>

\* Mutant of FetchPage: a full page is taken for the last one.
FetchOnePage ==
  /\ pass.on /\ pass.page = {} /\ pass.more
  /\ LET p == Manifest(pass.cursor)
     IN pass' = [pass EXCEPT !.page = p, !.more = (Cardinality(p) > Batch)]
  /\ UNCHANGED <<source, dst, probe, newer, hwm, stuck, first, skipped, errors>>

\* A page is fetched; a full page is followed by another one.
FetchPage ==
  /\ pass.on /\ pass.page = {} /\ pass.more
  /\ LET p == Manifest(pass.cursor)
     IN pass' = [pass EXCEPT !.page = p, !.more = (Cardinality(p) = Batch)]
  /\ UNCHANGED <<source, dst, probe, newer, hwm, stuck, first, skipped, errors>>

\* The request for a page fails: nothing of the pass is recorded.
FetchError ==
  /\ pass.on /\ pass.page = {} /\ pass.more
  /\ errors < MaxErrors
  /\ errors' = errors + 1
  /\ pass' = Idle
  /\ UNCHANGED <<source, dst, probe, newer, hwm, stuck, first, skipped>>

\* The first entry of the page is applied; last-writer-wins keeps a newer row.
ApplyEntry ==
  /\ \E e \in pass.page :
       /\ IsNext(e) /\ e.key \notin Broken
       /\ dst' = [dst EXCEPT ![e.key] = IF e.ver > @ THEN e.ver ELSE @]
       /\ pass' = [pass EXCEPT !.cursor = e.seq, !.page = @ \ {e}]
  /\ UNCHANGED <<source, probe, newer, hwm, stuck, first, skipped, errors>>

\* Mutant of ApplyError: the entry is skipped one failure too late.
ApplyErrorLate ==
  /\ \E e \in pass.page :
       LET skip == Observe(e.seq).count > SkipAfter
       IN /\ IsNext(e)
          /\ e.key \in Broken \/ errors < MaxErrors
          /\ errors' = IF e.key \in Broken THEN errors ELSE errors + 1
          /\ stuck' = IF skip THEN NoStreak ELSE Observe(e.seq)
          /\ skipped' = IF skip THEN skipped \cup {e} ELSE skipped
          /\ Advance(IF skip THEN e.seq ELSE pass.cursor)
  /\ pass' = Idle
  /\ UNCHANGED <<source, dst, probe, first>>

\* The first entry of the page cannot be applied: the pass ends before it, or
\* past it when it has failed SkipAfter times in a row.
ApplyError ==
  /\ \E e \in pass.page :
       LET skip == Observe(e.seq).count >= SkipAfter
       IN /\ IsNext(e)
          /\ e.key \in Broken \/ errors < MaxErrors
          /\ errors' = IF e.key \in Broken THEN errors ELSE errors + 1
          /\ stuck' = IF skip THEN NoStreak ELSE Observe(e.seq)
          /\ skipped' = IF skip THEN skipped \cup {e} ELSE skipped
          /\ Advance(IF skip THEN e.seq ELSE pass.cursor)
  /\ pass' = Idle
  /\ UNCHANGED <<source, dst, probe, first>>

\* The manifest is drained.  The pass counts as complete when the control
\* snapshot of S could be merged too.
EndPass ==
  /\ pass.on /\ pass.page = {} /\ ~pass.more
  /\ stuck' = NoStreak
  /\ Advance(pass.cursor)
  /\ \/ first' = TRUE /\ errors' = errors
     \/ first' = first /\ errors < MaxErrors /\ errors' = errors + 1
  /\ pass' = Idle
  /\ UNCHANGED <<source, dst, probe, skipped>>

Worker == StartPass \/ FetchPage \/ FetchError \/ ApplyEntry \/ ApplyError \/ EndPass

Next ==
  \/ \E k \in Key : Write(k) \/ PullBack(k)
  \/ Backup \/ Restore
  \/ Ping \/ Publish
  \/ Worker

Spec == Init /\ [][Next]_vars

\* The worker and the probe loop of D run for ever.
FairSpec == Spec /\ WF_vars(Worker) /\ WF_vars(Ping) /\ WF_vars(Publish)
------------------------------------------------------------------------------
\* Type invariant; a streak never reaches SkipAfter, the entry is skipped first.
TypeOK ==
  /\ src \in [Key -> [ver : Nat, seq : Nat]]
  /\ counter \in Nat /\ hwm \in Nat /\ errors \in Nat /\ writes \in Nat
  /\ backup \subseteq [src : [Key -> [ver : Nat, seq : Nat]], counter : Nat]
  /\ dst \in [Key -> Nat]
  /\ ping \subseteq Nat /\ seen \subseteq Nat
  /\ restored \in BOOLEAN /\ newer \in BOOLEAN /\ first \in BOOLEAN
  /\ pass \in [on : BOOLEAN, since : Nat, cursor : Nat, page : SUBSET Entry, more : BOOLEAN,
               goal : Nat]
  /\ stuck \in [seq : Nat, count : 0 .. SkipAfter - 1]
  /\ skipped \subseteq Entry

\* D holds the row of k that S has, or has given it up.
Pulled(k) ==
  \/ dst[k] >= src[k].ver
  \/ \E e \in skipped : e.key = k /\ e.ver = src[k].ver

\* What the cursor has passed is merged into D: rows that change at S while a
\* page is applied move past the cursor (reconcile_peer_objects, apply_entries).
\* A restore of S takes its seqs back below the cursor and is excepted.
CursorCoversRows ==
  \A k \in Key : src[k].seq <= hwm \/ (pass.on /\ src[k].seq <= pass.cursor)
                => restored \/ Pulled(k)

\* Guide, "Convergence is automatic in both directions": when the writes stop, D
\* ends up with every row of S, but for entries it has given up, and an entry
\* that can never be applied does not keep the ones behind it from D.  D may miss
\* rows of an S that was restored and wrote past the old high-water mark between
\* two probes.
EventuallyPulled ==
  <>[](restored \/ /\ \A k \in Key : Pulled(k)
                   /\ \A k \in Key \ Broken : dst[k] >= src[k].ver)

\* sync_rewound: a high-water mark beyond the counter of S does not last; D
\* notices the restore and starts over, or S has written its way up again.
RewindNoticed == counter < hwm ~> counter >= hwm

\* Guide, "as complete as its peers'": the readiness latch is set only when D
\* holds every row that S had when the pass started, up to the rows D has given
\* up, however many pages they take (caught_up, record_reconcile_complete).
FirstPassIsFullStep ==
    ~first /\ first' =>
    restored \/ \A k \in Key : src[k].seq <= pass.goal => Pulled(k)

\* The same, as a property of the behaviour: every step is such a step.
FirstPassIsFull == [][FirstPassIsFullStep]_vars

\* sync_rewound, "avoids the false alarm under sustained writes": D starts over
\* only when the counter of S really went back.  It does not hold when a pass ends
\* between the answer to a ping and the end of its probe round.
RewindIsReal == [][hwm' < hwm => restored]_vars
==============================================================================
