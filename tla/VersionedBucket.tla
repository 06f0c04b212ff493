--------------------------- MODULE VersionedBucket ---------------------------
(***************************************************************************)
(* The versions of one key (crates/arca-storage/src/sqlite/metadata.rs)    *)
(* and their replication (crates/arca-server/src/cluster/cluster_meta.rs): *)
(* what PUT, DELETE and DELETE ?versionId do in an unversioned, a          *)
(* versioned and a suspended bucket, which row is current (is_latest), and *)
(* how rows of all kinds travel between nodes whose view of the versioning *)
(* state may differ.                                                       *)
(*                                                                         *)
(* The registers of one row that change in place are in ObjectReplication. *)
(***************************************************************************)
EXTENDS Naturals, FiniteSets

CONSTANTS
  Node,       \* the nodes
  Clustered,  \* cluster_mode: a hard delete leaves a tombstone
  Quorum,     \* write quorum
  Initial,    \* versioning state of the bucket in the beginning
  Lag,        \* the states in which a node may still be when others have left them
  Skew,       \* Skew[n]: how far the clock of n is ahead
  Overlap,    \* a PUT of the null version may commit after a later-stamped row
  MaxOps,     \* bound: client requests; requests number versions and contents
  MaxChanges  \* bound: changes of the versioning state

State == {"unversioned", "enabled", "suspended"}

ASSUME BucketAssumption ==
  /\ IsFiniteSet(Node) /\ Quorum \in 1 .. Cardinality(Node)
  /\ Clustered \in BOOLEAN /\ Lag \subseteq State /\ Overlap \in BOOLEAN
  /\ (Clustered \/ Cardinality(Node) = 1)
  /\ Initial \in State /\ Skew \in [Node -> Nat]
  /\ MaxOps \in Nat /\ MaxChanges \in Nat

VARIABLES
  rows,      \* rows[n][v]: the row of version v on n; 0 is the null version
  seq,       \* object_seq of the nodes
  cursor,    \* cursor[d][s]: how far d has read the manifest of s
  vers,      \* vers[n]: versioning state, and the number of its change
  clock,     \* true time; every stamp advances it
  ops,       \* requests so far
  puts,      \* PUTs that are stamped and not committed
  reqs,      \* deletes that are committed and not answered
  calls,     \* fan-out calls under way
  kept,      \* history: versions put and not deleted since, and their nodes
  answered   \* history: the rows of answered deletes

vars == <<rows, seq, cursor, vers, clock, ops, puts, reqs, calls, kept, answered>>

Vid == 0 .. MaxOps
NoRow == [lm |-> 0, put |-> 0, marker |-> FALSE, tomb |-> FALSE, latest |-> FALSE, seq |-> 0]
Exists(r) == r.lm # 0
Live(r) == Exists(r) /\ ~r.tomb

Init ==
  /\ rows = [n \in Node |-> [v \in Vid |-> NoRow]]
  /\ seq = [n \in Node |-> 0]
  /\ cursor = [d \in Node |-> [s \in Node |-> 0]]
  /\ vers = [n \in Node |-> [state |-> Initial, at |-> 0]]
  /\ clock = 0 /\ ops = 0
  /\ puts = {} /\ reqs = {} /\ calls = {} /\ kept = {} /\ answered = {}

Now(n) == clock + 1 + Skew[n]

\* Two values of Skew for TLC: the clocks agree, or that of the last node is ahead.
InStep == [n \in Node |-> 0]
LastAhead == [n \in Node |-> IF \A m \in Node : m <= n THEN 2 ELSE 0]

Tick == clock' = clock + 1
------------------------------------------------------------------------------
\* Mutant of Recompute: tombstones take part.
RecomputeTombstones(rs) ==
  LET live == {v \in Vid : Exists(rs[v])}
      beats(v, w) == rs[v].lm > rs[w].lm \/ (rs[v].lm = rs[w].lm /\ v > w)
  IN [v \in Vid |-> [rs[v] EXCEPT !.latest = v \in live /\ \A w \in live \ {v} : beats(v, w)]]

\* recompute_is_latest; NULL sorts below every version id.
Recompute(rs) ==
  LET live == {v \in Vid : Live(rs[v])}
      beats(v, w) == rs[v].lm > rs[w].lm \/ (rs[v].lm = rs[w].lm /\ v > w)
  IN [v \in Vid |-> [rs[v] EXCEPT !.latest = v \in live /\ \A w \in live \ {v} : beats(v, w)]]

Latest(n) == {v \in Vid : rows[n][v].latest}

\* A row of version v becomes the current one, as the statement leaves it.
Insert(rs, v, lm, put, marker, s) ==
  [w \in Vid |-> IF w = v
     THEN [lm |-> lm, put |-> put, marker |-> marker, tomb |-> FALSE, latest |-> TRUE, seq |-> s]
     ELSE [rs[w] EXCEPT !.latest = FALSE]]

Entomb(r, lm, s) == [r EXCEPT !.lm = lm, !.marker = FALSE, !.tomb = TRUE, !.seq = s]

\* Fan-out calls to the peers of n; a version delete carries no row.
Send(req, n, v, r) == {[req |-> req, to |-> p, vid |-> v, row |-> r] : p \in Node \ {n}}
------------------------------------------------------------------------------
\* put_object takes its timestamp ...
PutStamp(n) ==
  /\ ops < MaxOps
  /\ ops' = ops + 1 /\ Tick
  /\ puts' = puts \cup {[node |-> n, op |-> ops + 1, lm |-> Now(n)]}
  /\ UNCHANGED <<rows, seq, cursor, vers, reqs, calls, kept, answered>>

\* Mutant of Install: the current row is the one written last.
InstallLast(n, p) ==
  CASE vers[n].state = "unversioned" ->
         Insert([v \in Vid |-> NoRow], 0, p.lm, p.op, FALSE, seq[n] + 1)
    [] vers[n].state = "enabled" -> Insert(rows[n], p.op, p.lm, p.op, FALSE, seq[n] + 1)
    [] OTHER -> Insert(rows[n], 0, p.lm, p.op, FALSE, seq[n] + 1)

\* Mutant of Install: the DELETE of the suspended branch removes every version.
InstallWhole(n, p) ==
  IF vers[n].state = "enabled"
    THEN Recompute(Insert(rows[n], p.op, p.lm, p.op, FALSE, seq[n] + 1))
    ELSE Insert([v \in Vid |-> NoRow], 0, p.lm, p.op, FALSE, seq[n] + 1)

\* install_object: the rows of n when PUT p commits.
Install(n, p) ==
  CASE vers[n].state = "unversioned" ->
         Insert([v \in Vid |-> NoRow], 0, p.lm, p.op, FALSE, seq[n] + 1)
    [] vers[n].state = "enabled" ->
         Recompute(Insert(rows[n], p.op, p.lm, p.op, FALSE, seq[n] + 1))
    [] OTHER -> Recompute(Insert(rows[n], 0, p.lm, p.op, FALSE, seq[n] + 1))

\* ... and commits; the peers are sent the row as it was stored.
PutCommit(p) ==
  LET n == p.node
      v == IF vers[n].state = "enabled" THEN p.op ELSE 0
  IN /\ Overlap \/ v # 0 \/ rows[n][0].lm < p.lm
     /\ rows' = [rows EXCEPT ![n] = Install(n, p)]
     /\ seq' = [seq EXCEPT ![n] = @ + 1]
     /\ puts' = puts \ {p}
     /\ calls' = calls \cup Send(p.op, n, v, rows'[n][v])
     /\ kept' = IF v # 0 THEN kept \cup {[vid |-> v, node |-> n]} ELSE kept
     /\ UNCHANGED <<cursor, vers, clock, ops, reqs, answered>>

\* delete_latest_in_tx: the rows of n after it; an unversioned key that is absent
\* is left alone.
DeleteLatest(n) ==
  CASE vers[n].state = "unversioned" /\ Latest(n) = {} -> rows[n]
    [] vers[n].state = "unversioned" /\ Latest(n) # {} ->
         IF Clustered
           THEN Recompute([v \in Vid |-> IF Exists(rows[n][v])
                                           THEN Entomb(rows[n][v], Now(n), seq[n] + 1)
                                           ELSE NoRow])
           ELSE [v \in Vid |-> NoRow]
    [] vers[n].state = "enabled" -> Insert(rows[n], ops + 1, Now(n), 0, TRUE, seq[n] + 1)
    [] OTHER -> Insert(rows[n], 0, Now(n), 0, TRUE, seq[n] + 1)

\* What it returns, as a set: the version id of the marker (enabled) or of the
\* row it removed.
Returned(n) ==
  CASE vers[n].state = "unversioned" -> Latest(n)
    [] vers[n].state = "enabled" -> {ops + 1}
    [] OTHER -> IF Live(rows[n][0]) THEN {0} ELSE {}

\* delete_object_if: without a returned row the request is answered at once.
Delete(n) ==
  /\ ops < MaxOps
  /\ ops' = ops + 1 /\ Tick
  /\ rows' = [rows EXCEPT ![n] = DeleteLatest(n)]
  /\ seq' = [seq EXCEPT ![n] = @ + (IF rows'[n] = rows[n] THEN 0 ELSE 1)]
  /\ reqs' = reqs \cup {[id |-> ops + 1, node |-> n, vid |-> v, lm |-> Now(n), sent |-> FALSE] :
                          v \in Returned(n)}
  /\ answered' = IF Returned(n) = {} /\ rows'[n] # rows[n]
                   THEN answered \cup {[vid |-> 0, lm |-> Now(n)]} ELSE answered
  /\ UNCHANGED <<cursor, vers, puts, calls, kept>>

\* The current row is read again: a marker is sent as a row, anything else as a
\* version delete.
DeleteFanOut(d) ==
  LET n == d.node
      markers == {v \in Latest(n) : rows[n][v].marker}
  IN /\ ~d.sent
     /\ calls' = calls \cup
          IF markers # {} THEN UNION {Send(d.id, n, v, rows[n][v]) : v \in markers}
                          ELSE Send(d.id, n, d.vid, NoRow)
     /\ reqs' = (reqs \ {d}) \cup {[d EXCEPT !.sent = TRUE]}
     /\ UNCHANGED <<rows, seq, cursor, vers, clock, ops, puts, kept, answered>>

\* enforce_ack_quorum
Answer(d) ==
  /\ d.sent
  /\ Cardinality({c \in calls : c.req = d.id}) <= Cardinality(Node) - Quorum
  /\ reqs' = reqs \ {d}
  /\ answered' = answered \cup {[vid |-> d.vid, lm |-> d.lm]}
  /\ UNCHANGED <<rows, seq, cursor, vers, clock, ops, puts, calls, kept>>

\* delete_version_in_tx, and its fan-out; version 0 is asked for as "null".
DeleteVersion(n, v) ==
  /\ ops < MaxOps /\ Live(rows[n][v])
  /\ ops' = ops + 1 /\ Tick
  /\ rows' = [rows EXCEPT ![n] =
       Recompute([rows[n] EXCEPT ![v] = IF Clustered THEN Entomb(@, Now(n), seq[n] + 1) ELSE NoRow])]
  /\ seq' = [seq EXCEPT ![n] = @ + 1]
  /\ calls' = calls \cup Send(ops + 1, n, v, NoRow)
  /\ reqs' = reqs \cup {[id |-> ops + 1, node |-> n, vid |-> v, lm |-> Now(n), sent |-> TRUE]}
  /\ kept' = {k \in kept : k.vid # v}
  /\ UNCHANGED <<cursor, vers, puts, answered>>
------------------------------------------------------------------------------
\* resolve_replicated, for rows whose registers do not change in place.
Blob(r) == IF r.tomb \/ r.marker THEN 0 ELSE r.put
Wins(r, x) == r.lm > x.lm \/ (r.lm = x.lm /\ r.put # x.put /\ Blob(r) > Blob(x))

\* apply_remote_object on n: its rows and its counter afterwards.
Applied(n, v, r) ==
  Recompute(IF Wins(r, rows[n][v])
              THEN [rows[n] EXCEPT ![v] = [r EXCEPT !.latest = FALSE, !.seq = seq[n] + 1]]
              ELSE rows[n])

\* Mutant of AppliedSeq: a replicated row does not advance the counter.
AppliedSeqKept(n, v, r) == seq[n]

AppliedSeq(n, v, r) == IF Wins(r, rows[n][v]) THEN seq[n] + 1 ELSE seq[n]

\* Mutant of Pull: a row that loses is taken for the end of the manifest.
PullStops(d, s) ==
  /\ d # s
  /\ \E v \in Vid :
       LET r == rows[s][v]
       IN /\ r.seq > cursor[d][s]
          /\ \A w \in Vid : rows[s][w].seq > cursor[d][s] => r.seq <= rows[s][w].seq
          /\ rows' = [rows EXCEPT ![d] = Applied(d, v, r)]
          /\ seq' = [seq EXCEPT ![d] = AppliedSeq(d, v, r)]
          /\ cursor' = [cursor EXCEPT ![d][s] = IF Wins(r, rows[d][v]) THEN r.seq ELSE seq[s]]
  /\ UNCHANGED <<vers, clock, ops, puts, reqs, calls, kept, answered>>

\* Anti-entropy: d applies the next row of the manifest of s.
Pull(d, s) ==
  /\ d # s
  /\ \E v \in Vid :
       LET r == rows[s][v]
       IN /\ r.seq > cursor[d][s]
          /\ \A w \in Vid : rows[s][w].seq > cursor[d][s] => r.seq <= rows[s][w].seq
          /\ rows' = [rows EXCEPT ![d] = Applied(d, v, r)]
          /\ seq' = [seq EXCEPT ![d] = AppliedSeq(d, v, r)]
          /\ cursor' = [cursor EXCEPT ![d][s] = r.seq]
  /\ UNCHANGED <<vers, clock, ops, puts, reqs, calls, kept, answered>>

\* receive_object, or receive_version_delete: the tombstone is stamped here.
Receive(c) ==
  LET n == c.to
      r == c.row
      x == rows[n][c.vid]
  IN /\ IF Exists(r)
          THEN /\ rows' = [rows EXCEPT ![n] = Applied(n, c.vid, r)]
               /\ seq' = [seq EXCEPT ![n] = AppliedSeq(n, c.vid, r)]
               /\ UNCHANGED clock
          ELSE /\ rows' = [rows EXCEPT ![n] = Recompute(
                    IF Live(x) THEN [@ EXCEPT ![c.vid] = Entomb(x, Now(n), seq[n] + 1)] ELSE @)]
               /\ seq' = [seq EXCEPT ![n] = @ + 1]
               /\ Tick
     /\ calls' = calls \ {c}
     /\ UNCHANGED <<cursor, vers, ops, puts, reqs, kept, answered>>

\* put_bucket_versioning: a bucket never becomes unversioned again.
SetVersioning(n, s) ==
  LET at == 1 + vers[n].at
  IN /\ at <= MaxChanges /\ s # "unversioned" /\ s # vers[n].state
     /\ \A m \in Node : vers[m].at < at
     /\ vers' = [m \in Node |-> IF m # n /\ vers[m].state \in Lag
                                  THEN vers[m] ELSE [state |-> s, at |-> at]]
     /\ UNCHANGED <<rows, seq, cursor, clock, ops, puts, reqs, calls, kept, answered>>

\* The bucket configuration of n reaches m (its newest change wins).
SpreadVersioning(n, m) ==
  /\ vers[n].at > vers[m].at
  /\ vers' = [vers EXCEPT ![m] = vers[n]]
  /\ UNCHANGED <<rows, seq, cursor, clock, ops, puts, reqs, calls, kept, answered>>

Next ==
  \/ \E n \in Node : PutStamp(n) \/ Delete(n)
  \/ \E p \in puts : PutCommit(p)
  \/ \E d \in reqs : DeleteFanOut(d) \/ Answer(d)
  \/ \E n \in Node, v \in Vid : DeleteVersion(n, v)
  \/ \E d, s \in Node : Pull(d, s) \/ SpreadVersioning(d, s)
  \/ \E c \in calls : Receive(c)
  \/ \E n \in Node, s \in State : SetVersioning(n, s)

Spec == Init /\ [][Next]_vars
------------------------------------------------------------------------------
Row == [lm : Nat, put : Vid, marker : BOOLEAN, tomb : BOOLEAN, latest : BOOLEAN, seq : Nat]

\* Type invariant; the sequence numbers of a node are its own.
TypeOK ==
  /\ rows \in [Node -> [Vid -> Row]]
  /\ seq \in [Node -> Nat] /\ cursor \in [Node -> [Node -> Nat]]
  /\ vers \in [Node -> [state : State, at : Nat]]
  /\ clock \in Nat /\ ops \in 0 .. MaxOps
  /\ \A n \in Node, v \in Vid : rows[n][v].seq <= seq[n]
  /\ \A d, s \in Node : cursor[d][s] <= seq[s]

\* idx_objects_latest and recompute_is_latest: after any sequence of local and
\* remote changes exactly the newest live row of the key is current, and none is
\* when all are gone.
LatestIsNewest ==
  \A n \in Node, v \in Vid :
    rows[n][v].latest <=>
      /\ Live(rows[n][v])
      /\ \A w \in Vid \ {v} : Live(rows[n][w]) =>
           \/ rows[n][v].lm > rows[n][w].lm
           \/ rows[n][v].lm = rows[n][w].lm /\ v > w

CaughtUp(d, s) == \A v \in Vid : rows[s][v].seq <= cursor[d][s]
SameRow(r, x) == [r EXCEPT !.seq = 0] = [x EXCEPT !.seq = 0]

\* Nodes that have read all of each other's manifests have the same versions and
\* the same current one (install_object, delete_version_in_tx,
\* apply_remote_object).
CaughtUpAgree ==
  \A n, m \in Node : CaughtUp(n, m) /\ CaughtUp(m, n)
                       => \A v \in Vid : SameRow(rows[n][v], rows[m][v])

\* Comment of recompute_is_latest, "every node converges on the same current
\* version without coordination": nodes with the same rows have the same current
\* one, whatever the order in which the rows came.  It does not hold for a delete
\* marker that is older than a version from a node whose clock is ahead.
SameCurrent ==
  LET content(r) == [r EXCEPT !.seq = 0, !.latest = FALSE]
  IN \A n, m \in Node : (\A v \in Vid : content(rows[n][v]) = content(rows[m][v]))
                           => Latest(n) = Latest(m)

\* Guide, "Deletes create delete markers instead of removing data": a version of a
\* versioned bucket stays on the node that stored it until it is itself deleted.
VersionsKept == \A k \in kept : Live(rows[k.node][k.vid])

\* Guide, the acknowledgement count covers "delete markers": a quorum holds the
\* row of an answered delete, or a newer one.
AnsweredDeleteHeld ==
  \A a \in answered : Cardinality({n \in Node : rows[n][a.vid].lm >= a.lm}) >= Quorum
==============================================================================
