----------------------- MODULE VersionedBucket_proofs -----------------------
(***************************************************************************)
(* The versions of a key: which row is current, that no version is lost,   *)
(* and that nodes which have read each other's manifests have the same     *)
(* rows.                                                                   *)
(***************************************************************************)
EXTENDS VersionedBucket, FiniteSetTheorems, TLAPS

\* The current row of rs is its newest live one.
Newest(rs) ==
  \A v \in Vid :
    rs[v].latest <=>
      /\ Live(rs[v])
      /\ \A w \in Vid \ {v} : Live(rs[w]) =>
           \/ rs[v].lm > rs[w].lm
           \/ rs[v].lm = rs[w].lm /\ v > w

\* Two rows that differ at most in being current.
SameBody(r, x) ==
  /\ r.lm = x.lm /\ r.put = x.put /\ r.marker = x.marker
  /\ r.tomb = x.tomb /\ r.seq = x.seq

\* A row that was never written.
Absent(r) == r.lm = 0 /\ r.put = 0 /\ ~r.marker /\ ~r.tomb /\ ~r.latest /\ r.seq = 0

\* The requests and calls in progress have their types.
TInv ==
  /\ TypeOK
  /\ puts \subseteq [node : Node, op : 1 .. MaxOps, lm : Nat \ {0}]
  /\ reqs \subseteq [id : 1 .. MaxOps, node : Node, vid : Vid, lm : Nat, sent : BOOLEAN]
  /\ calls \subseteq [req : 1 .. MaxOps, to : Node, vid : Vid, row : Row]
  /\ kept \subseteq [vid : Vid, node : Node]
-----------------------------------------------------------------------------
(* The operators the statements are made of. *)

LEMMA NoRowIsAbsent ==
  NoRow \in Row /\ Absent(NoRow) /\ \A r \in Row : Absent(r) => r = NoRow
BY BucketAssumption DEF NoRow, Row, Absent, Vid

\* recompute_is_latest only moves the mark, to the newest live row.
LEMMA RecomputeRows ==
  ASSUME NEW rs \in [Vid -> Row]
  PROVE  /\ Recompute(rs) \in [Vid -> Row]
         /\ \A v \in Vid : SameBody(Recompute(rs)[v], rs[v])
         /\ \A v \in Vid : Absent(rs[v]) => Absent(Recompute(rs)[v])
         /\ Newest(Recompute(rs))
<1> DEFINE Cur(v) == v \in {x \in Vid : Live(rs[x])} /\
             \A w \in {x \in Vid : Live(rs[x])} \ {v} :
               rs[v].lm > rs[w].lm \/ (rs[v].lm = rs[w].lm /\ v > w)
<1>1. Recompute(rs) = [v \in Vid |-> [rs[v] EXCEPT !.latest = Cur(v)]]
  BY DEF Recompute
<1>2. \A v \in Vid : Cur(v) \in BOOLEAN
  OBVIOUS
<1>3. \A v \in Vid : (Cur(v) <=> Live(rs[v]) /\ \A w \in Vid \ {v} : Live(rs[w]) =>
           rs[v].lm > rs[w].lm \/ (rs[v].lm = rs[w].lm /\ v > w))
  OBVIOUS
<1> HIDE DEF Cur
<1>4. \A v \in Vid : /\ Recompute(rs)[v] \in Row
                     /\ Recompute(rs)[v].latest = Cur(v)
                     /\ SameBody(Recompute(rs)[v], rs[v])
  BY <1>1, <1>2 DEF SameBody, Row
<1>5. Recompute(rs) \in [Vid -> Row]
  BY <1>1, <1>4
<1>6. \A v \in Vid : Live(Recompute(rs)[v]) <=> Live(rs[v])
  BY <1>4 DEF Live, Exists, SameBody
<1>7. \A v \in Vid : Absent(rs[v]) => Absent(Recompute(rs)[v])
  BY <1>3, <1>4 DEF Absent, SameBody, Live, Exists
<1>8. Newest(Recompute(rs))
  BY <1>3, <1>4, <1>6 DEF Newest, SameBody
<1> QED
  BY <1>4, <1>5, <1>7, <1>8

LEMMA UnmarkedRow ==
  ASSUME NEW r \in Row
  PROVE  LET x == [r EXCEPT !.latest = FALSE]
         IN x \in Row /\ SameBody(x, r) /\ ~x.latest /\ (Absent(r) => Absent(x))
BY DEF Row, SameBody, Absent

\* The row that is inserted is current and no other is.
LEMMA InsertRows ==
  ASSUME NEW rs \in [Vid -> Row], NEW v \in Vid, NEW lm \in Nat, NEW put \in Vid,
         NEW marker \in BOOLEAN, NEW s \in Nat,
         NEW x, x = Insert(rs, v, lm, put, marker, s)
  PROVE  /\ x \in [Vid -> Row]
         /\ x[v].lm = lm /\ x[v].put = put /\ x[v].marker = marker /\ ~x[v].tomb
         /\ x[v].latest /\ x[v].seq = s
         /\ \A w \in Vid \ {v} : /\ SameBody(x[w], rs[w]) /\ ~x[w].latest
                                 /\ Absent(rs[w]) => Absent(x[w])
<1> DEFINE rec == [lm |-> lm, put |-> put, marker |-> marker, tomb |-> FALSE, latest |-> TRUE, seq |-> s]
           Off(w) == [rs[w] EXCEPT !.latest = FALSE]
<1>1. /\ rec \in Row
      /\ rec.lm = lm /\ rec.put = put /\ rec.marker = marker /\ ~rec.tomb /\ rec.latest /\ rec.seq = s
  BY DEF Row
<1>2. \A w \in Vid : /\ Off(w) \in Row /\ SameBody(Off(w), rs[w]) /\ ~Off(w).latest
                     /\ Absent(rs[w]) => Absent(Off(w))
  <2> TAKE w \in Vid
  <2>1. rs[w] \in Row
    OBVIOUS
  <2> QED
    BY <2>1, UnmarkedRow
<1>3. x = [w \in Vid |-> IF w = v THEN rec ELSE Off(w)]
  BY DEF Insert
<1> HIDE DEF rec, Off
<1>4. x \in [Vid -> Row] /\ x[v] = rec /\ \A w \in Vid \ {v} : x[w] = Off(w)
  BY <1>1, <1>2, <1>3
<1>5. \A w \in Vid \ {v} : SameBody(x[w], rs[w]) /\ ~x[w].latest /\ (Absent(rs[w]) => Absent(x[w]))
  BY <1>2, <1>4
<1> QED
  BY <1>1, <1>4, <1>5

\* The same for a PUT and for a delete marker.
LEMMA InsertObject ==
  ASSUME NEW rs \in [Vid -> Row], NEW v \in Vid, NEW lm \in Nat, NEW put \in Vid, NEW s \in Nat
  PROVE  LET x == Insert(rs, v, lm, put, FALSE, s) IN
         /\ x \in [Vid -> Row]
         /\ x[v].lm = lm /\ x[v].put = put /\ ~x[v].marker /\ ~x[v].tomb /\ x[v].seq = s
         /\ \A w \in Vid \ {v} : SameBody(x[w], rs[w]) /\ (Absent(rs[w]) => Absent(x[w]))
<1>1. \A m \in BOOLEAN : LET y == Insert(rs, v, lm, put, m, s) IN
        /\ y \in [Vid -> Row]
        /\ y[v].lm = lm /\ y[v].put = put /\ y[v].marker = m /\ ~y[v].tomb /\ y[v].seq = s
        /\ \A w \in Vid \ {v} : SameBody(y[w], rs[w]) /\ (Absent(rs[w]) => Absent(y[w]))
  BY InsertRows
<1> QED
  BY <1>1, FALSE \in BOOLEAN

LEMMA InsertMarker ==
  ASSUME NEW rs \in [Vid -> Row], NEW v \in Vid, NEW lm \in Nat, NEW put \in Vid, NEW s \in Nat
  PROVE  LET x == Insert(rs, v, lm, put, TRUE, s) IN
         /\ x \in [Vid -> Row]
         /\ x[v].lm = lm /\ x[v].put = put /\ x[v].marker /\ ~x[v].tomb /\ x[v].seq = s
         /\ \A w \in Vid \ {v} : SameBody(x[w], rs[w]) /\ (Absent(rs[w]) => Absent(x[w]))
<1>1. \A m \in BOOLEAN : LET y == Insert(rs, v, lm, put, m, s) IN
        /\ y \in [Vid -> Row]
        /\ y[v].lm = lm /\ y[v].put = put /\ y[v].marker = m /\ ~y[v].tomb /\ y[v].seq = s
        /\ \A w \in Vid \ {v} : SameBody(y[w], rs[w]) /\ (Absent(rs[w]) => Absent(y[w]))
  BY InsertRows
<1> QED
  BY <1>1, TRUE \in BOOLEAN

LEMMA EntombRow ==
  ASSUME NEW r \in Row, NEW lm \in Nat, NEW s \in Nat
  PROVE  LET x == Entomb(r, lm, s)
         IN x \in Row /\ x.lm = lm /\ x.put = r.put /\ ~x.marker /\ x.tomb /\ x.seq = s /\ x.latest = r.latest
BY DEF Entomb, Row

LEMMA EmptyRows ==
  /\ [v \in Vid |-> NoRow] \in [Vid -> Row]
  /\ Newest([v \in Vid |-> NoRow])
  /\ \A v \in Vid : Absent([w \in Vid |-> NoRow][v])
<1>1. \A v \in Vid : [w \in Vid |-> NoRow][v] = NoRow
  OBVIOUS
<1>2. [v \in Vid |-> NoRow] \in [Vid -> Row]
  BY NoRowIsAbsent
<1>3. ~Live(NoRow) /\ ~NoRow.latest
  BY DEF Live, Exists, NoRow
<1> QED
  BY <1>1, <1>2, <1>3, NoRowIsAbsent DEF Newest

\* A row inserted with a stamp past those of all the live rows is the newest.
LEMMA InsertNewest ==
  ASSUME NEW rs \in [Vid -> Row], NEW v \in Vid, NEW lm \in Nat \ {0}, NEW put \in Vid,
         NEW marker \in BOOLEAN, NEW s \in Nat,
         \A w \in Vid : Live(rs[w]) => rs[w].lm < lm
  PROVE  Newest(Insert(rs, v, lm, put, marker, s))
<1> DEFINE x == Insert(rs, v, lm, put, marker, s)
<1>0. /\ x[v].lm = lm /\ x[v].latest /\ ~x[v].tomb
      /\ \A w \in Vid \ {v} : SameBody(x[w], rs[w]) /\ ~x[w].latest
  <2>1. lm \in Nat
    OBVIOUS
  <2> QED
    BY <2>1, InsertRows
<1> HIDE DEF x
<1>1. x[v].lm = lm /\ x[v].latest /\ Live(x[v])
  BY <1>0 DEF Live, Exists
<1>2. \A w \in Vid \ {v} : ~x[w].latest /\ x[w].lm = rs[w].lm /\ (Live(x[w]) <=> Live(rs[w]))
  BY <1>0 DEF Live, Exists, SameBody
<1>3. \A w \in Vid : rs[w].lm \in Nat
  BY DEF Row
<1>4. \A w \in Vid \ {v} : Live(x[w]) => x[w].lm < x[v].lm /\ x[w].lm \in Nat /\ x[v].lm \in Nat
  BY <1>1, <1>2, <1>3
<1>5. Newest(x)
  BY <1>1, <1>2, <1>4 DEF Newest
<1> QED
  BY <1>5 DEF x

\* The only row is the newest.
LEMMA FirstRow ==
  ASSUME NEW E, E \in [Vid -> Row], \A w \in Vid : Absent(E[w]),
         NEW v \in Vid, NEW lm \in Nat \ {0}, NEW put \in Vid, NEW s \in Nat
  PROVE  LET x == Insert(E, v, lm, put, FALSE, s)
         IN /\ x \in [Vid -> Row] /\ Newest(x)
            /\ x[v].lm = lm /\ x[v].put = put /\ ~x[v].marker /\ ~x[v].tomb /\ x[v].seq = s
            /\ \A w \in Vid \ {v} : Absent(x[w])
<1>1. \A w \in Vid : ~Live(E[w])
  BY DEF Absent, Live, Exists
<1>2. lm \in Nat
  OBVIOUS
<1>3. \A m \in BOOLEAN : LET x == Insert(E, v, lm, put, m, s) IN
        /\ x \in [Vid -> Row]
        /\ x[v].lm = lm /\ x[v].put = put /\ x[v].marker = m /\ ~x[v].tomb /\ x[v].seq = s
        /\ \A w \in Vid \ {v} : Absent(x[w])
  BY <1>2, InsertRows
<1>4. \A m \in BOOLEAN : Newest(Insert(E, v, lm, put, m, s))
  BY <1>1, InsertNewest
<1> QED
  BY <1>3, <1>4, FALSE \in BOOLEAN

\* The fan-out.
LEMMA SendCalls ==
  ASSUME NEW q \in 1 .. MaxOps, NEW n \in Node, NEW v \in Vid, NEW r \in Row
  PROVE  /\ Send(q, n, v, r) \subseteq [req : 1 .. MaxOps, to : Node, vid : Vid, row : Row]
         /\ \A c \in Send(q, n, v, r) : c.vid = v /\ c.row = r
BY DEF Send
-----------------------------------------------------------------------------
(* What the handlers make of the rows of a node. *)

\* install_object
LEMMA InstallRows ==
  ASSUME TInv, NEW p \in puts
  PROVE  LET n == p.node
             v == IF vers[n].state = "enabled" THEN p.op ELSE 0
             x == Install(n, p)
         IN /\ n \in Node /\ v \in Vid /\ p.op \in 1 .. MaxOps /\ p.lm \in Nat \ {0}
            /\ x \in [Vid -> Row] /\ Newest(x)
            /\ x[v].lm = p.lm /\ x[v].put = p.op /\ ~x[v].marker /\ ~x[v].tomb /\ x[v].seq = seq[n] + 1
            /\ \A w \in Vid \ {v} :
                 /\ vers[n].state # "unversioned" => SameBody(x[w], rows[n][w])
                 /\ vers[n].state = "unversioned" \/ Absent(rows[n][w]) => Absent(x[w])
<1> DEFINE n == p.node
           v == IF vers[n].state = "enabled" THEN p.op ELSE 0
           E == [w \in Vid |-> NoRow]
<1>1. /\ n \in Node /\ v \in Vid /\ p.op \in 1 .. MaxOps /\ p.op \in Vid /\ p.lm \in Nat \ {0}
      /\ 0 \in Vid /\ seq[n] + 1 \in Nat /\ rows[n] \in [Vid -> Row]
      /\ vers[n].state \in State
  BY BucketAssumption DEF TInv, TypeOK, Vid
<1>2. CASE vers[n].state = "unversioned"
  <2>1. Install(n, p) = Insert(E, v, p.lm, p.op, FALSE, seq[n] + 1)
    BY <1>2 DEF Install
  <2>2. \A w \in Vid : Absent(E[w])
    BY EmptyRows
  <2>3. E \in [Vid -> Row]
    BY EmptyRows
  <2> DEFINE x == Insert(E, v, p.lm, p.op, FALSE, seq[n] + 1)
  <2>4. v \in Vid /\ p.lm \in Nat \ {0} /\ p.op \in Vid /\ seq[n] + 1 \in Nat
    BY <1>1
  <2> HIDE DEF E, n, v
  <2>5. /\ x \in [Vid -> Row] /\ Newest(x)
        /\ x[v].lm = p.lm /\ x[v].put = p.op /\ ~x[v].marker /\ ~x[v].tomb /\ x[v].seq = seq[n] + 1
        /\ \A w \in Vid \ {v} : Absent(x[w])
    BY <2>2, <2>3, <2>4, FirstRow
  <2> HIDE DEF x
  <2> QED
    BY <1>1, <1>2, <2>1, <2>5 DEF x, n, v
<1>3. CASE vers[n].state # "unversioned"
  <2> DEFINE y == Insert(rows[n], v, p.lm, p.op, FALSE, seq[n] + 1)
  <2>1. Install(n, p) = Recompute(y)
    BY <1>1, <1>3 DEF Install, State
  <2>2. /\ y \in [Vid -> Row]
        /\ y[v].lm = p.lm /\ y[v].put = p.op /\ ~y[v].marker /\ ~y[v].tomb /\ y[v].seq = seq[n] + 1
        /\ \A w \in Vid \ {v} : SameBody(y[w], rows[n][w]) /\ (Absent(rows[n][w]) => Absent(y[w]))
    <3>1. p.lm \in Nat
      BY <1>1
    <3> HIDE DEF n, v
    <3> QED
      BY <1>1, <3>1, InsertObject
  <2> HIDE DEF y
  <2> QED
    BY <1>1, <1>3, <2>1, <2>2, RecomputeRows DEF SameBody
<1> QED
  BY <1>2, <1>3

\* delete_latest_in_tx: an unversioned key goes whole, otherwise a marker is put on
\* top; `u' is the version the marker gets.
LEMMA DeleteRows ==
  ASSUME TInv, NEW n \in Node, ops < MaxOps
  PROVE  LET u == IF vers[n].state = "enabled" THEN ops + 1 ELSE 0
             x == DeleteLatest(n)
         IN /\ u \in Vid /\ ops + 1 \in 1 .. MaxOps /\ Now(n) \in Nat \ {0}
            /\ x \in [Vid -> Row]
            /\ vers[n].state # "unversioned" =>
                 /\ x = Insert(rows[n], u, Now(n), 0, TRUE, seq[n] + 1)
                 /\ x[u].lm = Now(n) /\ x[u].put = 0 /\ x[u].marker /\ ~x[u].tomb /\ x[u].seq = seq[n] + 1
                 /\ \A w \in Vid \ {u} : SameBody(x[w], rows[n][w]) /\ (Absent(rows[n][w]) => Absent(x[w]))
            /\ vers[n].state = "unversioned" =>
                 \/ x = rows[n]
                 \/ /\ Newest(x)
                    /\ \A w \in Vid :
                         \/ Absent(x[w]) /\ (Clustered => ~Exists(rows[n][w]))
                         \/ /\ Clustered /\ Exists(rows[n][w])
                            /\ x[w].lm = Now(n) /\ x[w].put = rows[n][w].put /\ ~x[w].marker
                            /\ x[w].tomb /\ x[w].seq = seq[n] + 1
<1> DEFINE u == IF vers[n].state = "enabled" THEN ops + 1 ELSE 0
           k == seq[n] + 1
           t == Now(n)
<1>1. /\ u \in Vid /\ ops + 1 \in 1 .. MaxOps /\ t \in Nat \ {0} /\ k \in Nat
      /\ rows[n] \in [Vid -> Row] /\ vers[n].state \in State /\ 0 \in Vid
  BY BucketAssumption DEF TInv, TypeOK, Vid, Now
<1> HIDE DEF t, k
<1>2. CASE vers[n].state # "unversioned"
  <2>1. DeleteLatest(n) = Insert(rows[n], u, t, 0, TRUE, k)
    BY <1>1, <1>2 DEF DeleteLatest, State, t, k
  <2>2. t \in Nat
    BY <1>1
  <2> DEFINE x == Insert(rows[n], u, t, 0, TRUE, k)
  <2>3. /\ x \in [Vid -> Row]
        /\ x[u].lm = t /\ x[u].put = 0 /\ x[u].marker /\ ~x[u].tomb /\ x[u].seq = k
        /\ \A w \in Vid \ {u} : SameBody(x[w], rows[n][w]) /\ (Absent(rows[n][w]) => Absent(x[w]))
    <3> HIDE DEF u
    <3> QED
      BY <1>1, <2>2, InsertMarker
  <2>4. DeleteLatest(n) = x
    BY <2>1
  <2> HIDE DEF x
  <2>5. /\ x[u].lm = Now(n) /\ x[u].put = 0 /\ x[u].marker /\ ~x[u].tomb /\ x[u].seq = seq[n] + 1
        /\ x = Insert(rows[n], u, Now(n), 0, TRUE, seq[n] + 1)
        /\ Now(n) \in Nat \ {0}
    BY <1>1, <2>3 DEF t, k, x
  <2> QED
    BY <1>1, <1>2, <2>3, <2>4, <2>5
<1>3. CASE vers[n].state = "unversioned" /\ Latest(n) = {}
  <2>1. DeleteLatest(n) = rows[n]
    BY <1>3 DEF DeleteLatest
  <2> QED
    BY <1>1, <1>3, <2>1 DEF t
<1>4. CASE vers[n].state = "unversioned" /\ Latest(n) # {} /\ Clustered
  <2> DEFINE y == [v \in Vid |-> IF Exists(rows[n][v]) THEN Entomb(rows[n][v], t, k) ELSE NoRow]
  <2>1. DeleteLatest(n) = Recompute(y)
    BY <1>4 DEF DeleteLatest, t, k
  <2>2. \A w \in Vid : y[w] = IF Exists(rows[n][w]) THEN Entomb(rows[n][w], t, k) ELSE NoRow
    OBVIOUS
  <2>3. \A w \in Vid : rows[n][w] \in Row
    BY <1>1
  <2>4. \A w \in Vid : y[w] \in Row
    <3> TAKE w \in Vid
    <3>1. t \in Nat /\ rows[n][w] \in Row
      BY <1>1, <2>3
    <3> QED
      BY <1>1, <2>2, <3>1, EntombRow, NoRowIsAbsent
  <2>5. y \in [Vid -> Row]
    BY <2>4
  <2>6. \A w \in Vid :
          \/ Absent(y[w]) /\ ~Exists(rows[n][w])
          \/ /\ Exists(rows[n][w])
             /\ y[w].lm = t /\ y[w].put = rows[n][w].put /\ ~y[w].marker /\ y[w].tomb /\ y[w].seq = k
    <3> TAKE w \in Vid
    <3>1. t \in Nat /\ rows[n][w] \in Row
      BY <1>1, <2>3
    <3>2. CASE Exists(rows[n][w])
      <4>1. y[w] = Entomb(rows[n][w], t, k)
        BY <2>2, <3>2
      <4> DEFINE e == Entomb(rows[n][w], t, k)
      <4>2. k \in Nat
        BY <1>1
      <4>3. e.lm = t /\ e.put = rows[n][w].put /\ ~e.marker /\ e.tomb /\ e.seq = k
        BY <3>1, <4>2, EntombRow
      <4> HIDE DEF y, e
      <4> QED
        BY <3>2, <4>1, <4>3 DEF e
    <3>3. CASE ~Exists(rows[n][w])
      BY <2>2, <3>3, NoRowIsAbsent
    <3> QED
      BY <3>2, <3>3
  <2> HIDE DEF y
  <2>7. \A w \in Vid : SameBody(Recompute(y)[w], y[w]) /\ (Absent(y[w]) => Absent(Recompute(y)[w]))
    BY <2>5, RecomputeRows
  <2>8. Recompute(y) \in [Vid -> Row] /\ Newest(Recompute(y))
    BY <2>5, RecomputeRows
  <2>9. \A w \in Vid :
          \/ Absent(Recompute(y)[w]) /\ (Clustered => ~Exists(rows[n][w]))
          \/ /\ Clustered /\ Exists(rows[n][w])
             /\ Recompute(y)[w].lm = t /\ Recompute(y)[w].put = rows[n][w].put /\ ~Recompute(y)[w].marker
             /\ Recompute(y)[w].tomb /\ Recompute(y)[w].seq = k
    BY <1>4, <2>6, <2>7 DEF SameBody
  <2> QED
    BY <1>1, <1>4, <2>1, <2>8, <2>9 DEF t, k
<1>5. CASE vers[n].state = "unversioned" /\ Latest(n) # {} /\ ~Clustered
  <2>1. DeleteLatest(n) = [v \in Vid |-> NoRow]
    BY <1>5 DEF DeleteLatest
  <2> QED
    BY <1>1, <1>5, <2>1, EmptyRows DEF t
<1> QED
  BY <1>2, <1>3, <1>4, <1>5

\* apply_remote_object
LEMMA AppliedRows ==
  ASSUME TInv, NEW n \in Node, NEW v \in Vid, NEW r \in Row
  PROVE  LET x == Applied(n, v, r)
         IN /\ x \in [Vid -> Row] /\ Newest(x)
            /\ \A w \in Vid : w # v \/ ~Wins(r, rows[n][v]) =>
                 SameBody(x[w], rows[n][w]) /\ (Absent(rows[n][w]) => Absent(x[w]))
            /\ Wins(r, rows[n][v]) =>
                 /\ x[v].lm = r.lm /\ x[v].put = r.put /\ x[v].marker = r.marker
                 /\ x[v].tomb = r.tomb /\ x[v].seq = seq[n] + 1
<1> DEFINE z == [r EXCEPT !.latest = FALSE, !.seq = seq[n] + 1]
           y == IF Wins(r, rows[n][v]) THEN [rows[n] EXCEPT ![v] = z] ELSE rows[n]
<1>1. Applied(n, v, r) = Recompute(y)
  BY DEF Applied
<1>2. rows[n] \in [Vid -> Row] /\ seq[n] \in Nat
  BY DEF TInv, TypeOK
<1>3. /\ z \in Row
      /\ z.lm = r.lm /\ z.put = r.put /\ z.marker = r.marker /\ z.tomb = r.tomb /\ z.seq = seq[n] + 1
  <2>1. seq[n] + 1 \in Nat
    BY <1>2
  <2> QED
    BY <2>1 DEF Row
<1> HIDE DEF z
<1>4. /\ y \in [Vid -> Row]
      /\ \A w \in Vid : w # v \/ ~Wins(r, rows[n][v]) => y[w] = rows[n][w]
      /\ Wins(r, rows[n][v]) => y[v] = z
  BY <1>2, <1>3
<1> HIDE DEF y
<1>5. /\ Recompute(y) \in [Vid -> Row] /\ Newest(Recompute(y))
      /\ \A w \in Vid : SameBody(Recompute(y)[w], y[w]) /\ (Absent(y[w]) => Absent(Recompute(y)[w]))
  BY <1>4, RecomputeRows
<1>6. \A w \in Vid : w # v \/ ~Wins(r, rows[n][v]) =>
         SameBody(Recompute(y)[w], rows[n][w]) /\ (Absent(rows[n][w]) => Absent(Recompute(y)[w]))
  BY <1>4, <1>5
<1>7. Wins(r, rows[n][v]) =>
        /\ Recompute(y)[v].lm = r.lm /\ Recompute(y)[v].put = r.put /\ Recompute(y)[v].marker = r.marker
        /\ Recompute(y)[v].tomb = r.tomb /\ Recompute(y)[v].seq = seq[n] + 1
  BY <1>3, <1>4, <1>5 DEF SameBody
<1> QED
  BY <1>1, <1>5, <1>6, <1>7

\* A version delete on node n, local or received: the row becomes a tombstone (in a
\* cluster) or goes.
Dropped(n, v, tombs) ==
  Recompute([rows[n] EXCEPT ![v] = IF tombs THEN Entomb(rows[n][v], Now(n), seq[n] + 1) ELSE NoRow])

LEMMA DroppedRows ==
  ASSUME TInv, NEW n \in Node, NEW v \in Vid, NEW tombs \in BOOLEAN
  PROVE  LET x == Dropped(n, v, tombs)
         IN /\ Now(n) \in Nat \ {0}
            /\ x \in [Vid -> Row] /\ Newest(x)
            /\ \A w \in Vid \ {v} : SameBody(x[w], rows[n][w]) /\ (Absent(rows[n][w]) => Absent(x[w]))
            /\ ~tombs => Absent(x[v])
            /\ tombs => /\ x[v].lm = Now(n) /\ x[v].put = rows[n][v].put /\ ~x[v].marker
                        /\ x[v].tomb /\ x[v].seq = seq[n] + 1
<1> DEFINE z == IF tombs THEN Entomb(rows[n][v], Now(n), seq[n] + 1) ELSE NoRow
           y == [rows[n] EXCEPT ![v] = z]
<1>1. Dropped(n, v, tombs) = Recompute(y)
  BY DEF Dropped
<1>2. /\ rows[n] \in [Vid -> Row] /\ rows[n][v] \in Row /\ seq[n] + 1 \in Nat
      /\ Now(n) \in Nat \ {0} /\ Now(n) \in Nat
  BY BucketAssumption DEF TInv, TypeOK, Now
<1>3. /\ z \in Row
      /\ ~tombs => Absent(z)
      /\ tombs => z.lm = Now(n) /\ z.put = rows[n][v].put /\ ~z.marker /\ z.tomb /\ z.seq = seq[n] + 1
  BY <1>2, EntombRow, NoRowIsAbsent
<1> HIDE DEF z
<1>4. y \in [Vid -> Row] /\ y[v] = z /\ \A w \in Vid \ {v} : y[w] = rows[n][w]
  BY <1>2, <1>3
<1> HIDE DEF y
<1>5. /\ Recompute(y) \in [Vid -> Row] /\ Newest(Recompute(y))
      /\ \A w \in Vid : SameBody(Recompute(y)[w], y[w]) /\ (Absent(y[w]) => Absent(Recompute(y)[w]))
  BY <1>4, RecomputeRows
<1>6. \A w \in Vid \ {v} : SameBody(Recompute(y)[w], rows[n][w]) /\ (Absent(rows[n][w]) => Absent(Recompute(y)[w]))
  BY <1>4, <1>5
<1>7. ~tombs => Absent(Recompute(y)[v])
  BY <1>3, <1>4, <1>5
<1>8. tombs => /\ Recompute(y)[v].lm = Now(n) /\ Recompute(y)[v].put = rows[n][v].put
               /\ ~Recompute(y)[v].marker /\ Recompute(y)[v].tomb /\ Recompute(y)[v].seq = seq[n] + 1
  BY <1>3, <1>4, <1>5 DEF SameBody
<1> QED
  BY <1>1, <1>2, <1>5, <1>6, <1>7, <1>8
-----------------------------------------------------------------------------
(* Type correctness. *)

\* A step that gives node n the rows rs and the counter k.
LEMMA TypeStep ==
  ASSUME TypeOK, NEW n \in Node, NEW rs \in [Vid -> Row], NEW k \in Nat,
         k >= seq[n], \A v \in Vid : rs[v].seq <= k,
         rows' = [rows EXCEPT ![n] = rs], seq' = [seq EXCEPT ![n] = k],
         cursor' \in [Node -> [Node -> Nat]], \A d, s \in Node : cursor'[d][s] <= seq[s],
         vers' = vers, clock' \in Nat, ops' \in 0 .. MaxOps
  PROVE  TypeOK'
<1>1. rows' \in [Node -> [Vid -> Row]] /\ seq' \in [Node -> Nat]
  BY DEF TypeOK
<1>2. \A m \in Node, v \in Vid : rows'[m][v].seq <= seq'[m]
  BY DEF TypeOK
<1>3. \A s \in Node : seq[s] <= seq'[s] /\ seq[s] \in Nat /\ seq'[s] \in Nat
  BY DEF TypeOK
<1>4. \A d, s \in Node : cursor'[d][s] \in Nat
  OBVIOUS
<1>5. \A d, s \in Node : cursor'[d][s] <= seq'[s]
  BY <1>3, <1>4
<1> QED
  BY <1>1, <1>2, <1>5 DEF TypeOK

LEMMA InitTyped == Init => TInv
<1> SUFFICES ASSUME Init PROVE TInv
  OBVIOUS
<1>1. rows \in [Node -> [Vid -> Row]] /\ \A n \in Node, v \in Vid : rows[n][v].seq = 0
  BY NoRowIsAbsent DEF Init, Absent
<1>2. ops \in 0 .. MaxOps /\ Initial \in State
  BY BucketAssumption DEF Init
<1> QED
  BY <1>1, <1>2 DEF Init, TInv, TypeOK

LEMMA PutStampTyped ==
  ASSUME TInv, NEW n \in Node, PutStamp(n)
  PROVE  TInv'
<1>1. ops + 1 \in 1 .. MaxOps /\ ops + 1 \in 0 .. MaxOps /\ Now(n) \in Nat \ {0} /\ clock' \in Nat
  BY BucketAssumption DEF TInv, TypeOK, PutStamp, Tick, Now
<1>2. puts' \subseteq [node : Node, op : 1 .. MaxOps, lm : Nat \ {0}]
  BY <1>1 DEF TInv, PutStamp
<1> QED
  BY <1>1, <1>2 DEF TInv, TypeOK, PutStamp

LEMMA PutCommitTyped ==
  ASSUME TInv, NEW p \in puts, PutCommit(p)
  PROVE  TInv'
<1> DEFINE n == p.node
           v == IF vers[n].state = "enabled" THEN p.op ELSE 0
           x == Install(n, p)
<1>1. /\ n \in Node /\ v \in Vid /\ p.op \in 1 .. MaxOps
      /\ x \in [Vid -> Row] /\ x[v].seq = seq[n] + 1
      /\ \A w \in Vid \ {v} : SameBody(x[w], rows[n][w]) \/ Absent(x[w])
  BY InstallRows
<1>2. /\ rows' = [rows EXCEPT ![n] = x] /\ seq' = [seq EXCEPT ![n] = seq[n] + 1]
      /\ puts' = puts \ {p} /\ calls' = calls \cup Send(p.op, n, v, rows'[n][v])
      /\ kept' = IF v # 0 THEN kept \cup {[vid |-> v, node |-> n]} ELSE kept
      /\ UNCHANGED <<cursor, vers, clock, ops, reqs, answered>>
  BY <1>1 DEF PutCommit, TInv, TypeOK
<1> HIDE DEF n, v, x
<1>3. seq[n] \in Nat /\ \A w \in Vid : rows[n][w].seq \in Nat /\ rows[n][w].seq <= seq[n]
  BY <1>1 DEF TInv, TypeOK, Row
<1>4. \A w \in Vid : x[w].seq <= seq[n] + 1
  BY <1>1, <1>3 DEF SameBody, Absent
<1>5. TypeOK'
  BY <1>1, <1>2, <1>3, <1>4, TypeStep DEF TInv, TypeOK
<1>6. rows'[n][v] \in Row
  BY <1>1, <1>2 DEF TInv, TypeOK
<1>7. calls' \subseteq [req : 1 .. MaxOps, to : Node, vid : Vid, row : Row]
  BY <1>1, <1>2, <1>6, SendCalls DEF TInv
<1>8. kept' \subseteq [vid : Vid, node : Node]
  BY <1>1, <1>2 DEF TInv
<1> QED
  BY <1>2, <1>5, <1>7, <1>8 DEF TInv

LEMMA DeleteTyped ==
  ASSUME TInv, NEW n \in Node, Delete(n)
  PROVE  TInv'
<1> DEFINE x == DeleteLatest(n)
           k == seq[n] + (IF x = rows[n] THEN 0 ELSE 1)
<1>1. /\ ops + 1 \in 1 .. MaxOps /\ ops + 1 \in 0 .. MaxOps /\ Now(n) \in Nat
      /\ x \in [Vid -> Row]
      /\ x = rows[n] \/ \A w \in Vid : SameBody(x[w], rows[n][w]) \/ Absent(x[w]) \/ x[w].seq = seq[n] + 1
  <2>1. ops < MaxOps
    BY DEF Delete
  <2>2. ops + 1 \in 1 .. MaxOps /\ Now(n) \in Nat /\ x \in [Vid -> Row]
    BY <2>1, DeleteRows
  <2>3. ops + 1 \in 0 .. MaxOps
    BY <2>2
  <2>4. CASE vers[n].state # "unversioned"
    <3> DEFINE u == IF vers[n].state = "enabled" THEN ops + 1 ELSE 0
    <3>1. u \in Vid /\ x[u].seq = seq[n] + 1 /\ \A w \in Vid \ {u} : SameBody(x[w], rows[n][w])
      BY <2>1, <2>4, DeleteRows
    <3> HIDE DEF u, x
    <3> QED
      BY <2>2, <2>3, <3>1
  <2>5. CASE vers[n].state = "unversioned"
    <3>1. x = rows[n] \/ \A w \in Vid : Absent(x[w]) \/ x[w].seq = seq[n] + 1
      BY <2>1, <2>5, DeleteRows
    <3> HIDE DEF x
    <3> QED
      BY <2>2, <2>3, <3>1
  <2> QED
    BY <2>4, <2>5
<1>2. /\ rows' = [rows EXCEPT ![n] = x] /\ rows'[n] = x /\ seq' = [seq EXCEPT ![n] = k]
      /\ ops' = ops + 1 /\ clock' = clock + 1
      /\ UNCHANGED <<cursor, vers, puts, calls, kept>>
  BY <1>1 DEF Delete, Tick, TInv, TypeOK
<1>3. seq[n] \in Nat /\ \A w \in Vid : rows[n][w].seq \in Nat /\ rows[n][w].seq <= seq[n]
  BY DEF TInv, TypeOK, Row
<1> HIDE DEF x
<1>4. k \in Nat /\ k >= seq[n] /\ \A w \in Vid : x[w].seq <= k
  BY <1>1, <1>3 DEF SameBody, Absent
<1> HIDE DEF k
<1>5. clock' \in Nat /\ ops' \in 0 .. MaxOps
  BY <1>1, <1>2 DEF TInv, TypeOK
<1>6. TypeOK'
  BY <1>1, <1>2, <1>4, <1>5, TypeStep DEF TInv, TypeOK
<1>7. Returned(n) \subseteq Vid
  <2>1. Latest(n) \subseteq Vid /\ {ops + 1} \subseteq Vid /\ {0} \subseteq Vid
    BY <1>1, BucketAssumption DEF Latest, Vid
  <2>2. Returned(n) \in {Latest(n), {ops + 1}, {0}, {}}
    BY DEF Returned
  <2> QED
    BY <2>1, <2>2
<1>8. reqs' \subseteq [id : 1 .. MaxOps, node : Node, vid : Vid, lm : Nat, sent : BOOLEAN]
  <2>1. \A w \in Returned(n) : [id |-> ops + 1, node |-> n, vid |-> w, lm |-> Now(n), sent |-> FALSE]
          \in [id : 1 .. MaxOps, node : Node, vid : Vid, lm : Nat, sent : BOOLEAN]
    BY <1>1, <1>7
  <2>2. reqs' = reqs \cup {[id |-> ops + 1, node |-> n, vid |-> w, lm |-> Now(n), sent |-> FALSE] : w \in Returned(n)}
    BY DEF Delete
  <2> QED
    BY <2>1, <2>2 DEF TInv
<1> QED
  BY <1>2, <1>6, <1>8 DEF TInv

LEMMA DeleteFanOutTyped ==
  ASSUME TInv, NEW d \in reqs, DeleteFanOut(d)
  PROVE  TInv'
<1> DEFINE n == d.node
           markers == {v \in Latest(n) : rows[n][v].marker}
<1>1. d \in [id : 1 .. MaxOps, node : Node, vid : Vid, lm : Nat, sent : BOOLEAN]
  BY DEF TInv
<1>2. n \in Node /\ d.id \in 1 .. MaxOps /\ d.vid \in Vid /\ \A v \in markers : v \in Vid /\ rows[n][v] \in Row
  BY <1>1 DEF Latest, TInv, TypeOK
<1>3. \A v \in markers : Send(d.id, n, v, rows[n][v]) \subseteq [req : 1 .. MaxOps, to : Node, vid : Vid, row : Row]
  <2> HIDE DEF markers, n
  <2> QED
    BY <1>2, SendCalls
<1>4. Send(d.id, n, d.vid, NoRow) \subseteq [req : 1 .. MaxOps, to : Node, vid : Vid, row : Row]
  BY <1>2, SendCalls, NoRowIsAbsent
<1>5. calls' = calls \cup (IF markers # {} THEN UNION {Send(d.id, n, v, rows[n][v]) : v \in markers}
                                          ELSE Send(d.id, n, d.vid, NoRow))
  BY DEF DeleteFanOut
<1>6. calls' \subseteq [req : 1 .. MaxOps, to : Node, vid : Vid, row : Row]
  <2> HIDE DEF markers, n
  <2> QED
    BY <1>3, <1>4, <1>5 DEF TInv
<1>7. [d EXCEPT !.sent = TRUE] \in [id : 1 .. MaxOps, node : Node, vid : Vid, lm : Nat, sent : BOOLEAN]
  BY <1>1
<1>8. reqs' = (reqs \ {d}) \cup {[d EXCEPT !.sent = TRUE]}
  BY DEF DeleteFanOut
<1>9. reqs' \subseteq [id : 1 .. MaxOps, node : Node, vid : Vid, lm : Nat, sent : BOOLEAN]
  BY <1>7, <1>8 DEF TInv
<1>10. UNCHANGED <<rows, seq, cursor, vers, clock, ops, puts, kept>>
  BY DEF DeleteFanOut
<1>11. TypeOK'
  BY <1>10 DEF TInv, TypeOK
<1> QED
  BY <1>6, <1>9, <1>10, <1>11 DEF TInv

\* The rows of n when version v is deleted there.
LEMMA DeleteVersionIs ==
  ASSUME TInv, NEW n \in Node, NEW v \in Vid, DeleteVersion(n, v)
  PROVE  /\ rows' = [rows EXCEPT ![n] = Dropped(n, v, Clustered)]
         /\ seq' = [seq EXCEPT ![n] = seq[n] + 1]
         /\ ops < MaxOps /\ Live(rows[n][v])
<1>1. rows \in [Node -> [Vid -> Row]] /\ seq \in [Node -> Nat]
  BY DEF TInv, TypeOK
<1>2. rows' = [rows EXCEPT ![n] = Recompute([rows[n] EXCEPT ![v] =
                 IF Clustered THEN Entomb(rows[n][v], Now(n), seq[n] + 1) ELSE NoRow])]
  BY <1>1 DEF DeleteVersion
<1> QED
  BY <1>1, <1>2 DEF DeleteVersion, Dropped

LEMMA DeleteVersionTyped ==
  ASSUME TInv, NEW n \in Node, NEW v \in Vid, DeleteVersion(n, v)
  PROVE  TInv'
<1> DEFINE x == Dropped(n, v, Clustered)
<1>1. /\ rows' = [rows EXCEPT ![n] = x] /\ seq' = [seq EXCEPT ![n] = seq[n] + 1] /\ ops < MaxOps
  BY DeleteVersionIs
<1>2. /\ x \in [Vid -> Row] /\ Now(n) \in Nat
      /\ \A w \in Vid : SameBody(x[w], rows[n][w]) \/ Absent(x[w]) \/ x[w].seq = seq[n] + 1
  BY DroppedRows, BucketAssumption
<1>3. seq[n] \in Nat /\ \A w \in Vid : rows[n][w].seq \in Nat /\ rows[n][w].seq <= seq[n]
  BY DEF TInv, TypeOK, Row
<1> HIDE DEF x
<1>4. \A w \in Vid : x[w].seq <= seq[n] + 1
  BY <1>2, <1>3 DEF SameBody, Absent
<1>5. ops + 1 \in 1 .. MaxOps /\ ops' \in 0 .. MaxOps /\ clock' \in Nat
  BY <1>1, BucketAssumption DEF TInv, TypeOK, DeleteVersion, Tick
<1>6. TypeOK'
  <2>1. UNCHANGED <<cursor, vers>>
    BY DEF DeleteVersion
  <2> QED
    BY <1>1, <1>2, <1>3, <1>4, <1>5, <2>1, TypeStep DEF TInv, TypeOK
<1>7. calls' \subseteq [req : 1 .. MaxOps, to : Node, vid : Vid, row : Row]
  BY <1>5, SendCalls, NoRowIsAbsent DEF TInv, DeleteVersion
<1>8. reqs' \subseteq [id : 1 .. MaxOps, node : Node, vid : Vid, lm : Nat, sent : BOOLEAN]
  <2>1. reqs' = reqs \cup {[id |-> ops + 1, node |-> n, vid |-> v, lm |-> Now(n), sent |-> TRUE]}
    BY DEF DeleteVersion
  <2>2. [id |-> ops + 1, node |-> n, vid |-> v, lm |-> Now(n), sent |-> TRUE]
          \in [id : 1 .. MaxOps, node : Node, vid : Vid, lm : Nat, sent : BOOLEAN]
    BY <1>2, <1>5
  <2> QED
    BY <2>1, <2>2 DEF TInv
<1> QED
  BY <1>6, <1>7, <1>8 DEF TInv, DeleteVersion

\* The step of the counter, and the rows of n, when a row of a peer is applied.
LEMMA AppliedTyped ==
  ASSUME TInv, NEW n \in Node, NEW v \in Vid, NEW r \in Row,
         rows' = [rows EXCEPT ![n] = Applied(n, v, r)],
         seq' = [seq EXCEPT ![n] = AppliedSeq(n, v, r)],
         cursor' \in [Node -> [Node -> Nat]], \A d, s \in Node : cursor'[d][s] <= seq[s],
         UNCHANGED <<vers, clock, ops>>
  PROVE  TypeOK'
<1> DEFINE x == Applied(n, v, r)
           k == AppliedSeq(n, v, r)
<1>1. /\ x \in [Vid -> Row]
      /\ \A w \in Vid : SameBody(x[w], rows[n][w]) \/ (Wins(r, rows[n][v]) /\ x[w].seq = seq[n] + 1)
  BY AppliedRows
<1>2. seq[n] \in Nat /\ \A w \in Vid : rows[n][w].seq \in Nat /\ rows[n][w].seq <= seq[n]
  BY DEF TInv, TypeOK, Row
<1>3. k = IF Wins(r, rows[n][v]) THEN seq[n] + 1 ELSE seq[n]
  BY DEF AppliedSeq
<1> HIDE DEF x, k
<1>4. k \in Nat /\ k >= seq[n] /\ \A w \in Vid : x[w].seq <= k
  <2>1. CASE Wins(r, rows[n][v])
    BY <1>1, <1>2, <1>3, <2>1 DEF SameBody
  <2>2. CASE ~Wins(r, rows[n][v])
    BY <1>1, <1>2, <1>3, <2>2 DEF SameBody
  <2> QED
    BY <2>1, <2>2
<1>5. rows' = [rows EXCEPT ![n] = x] /\ seq' = [seq EXCEPT ![n] = k]
  BY DEF x, k
<1>6. vers' = vers /\ clock' \in Nat /\ ops' \in 0 .. MaxOps /\ TypeOK
  BY DEF TInv, TypeOK
<1> QED
  BY <1>1, <1>4, <1>5, <1>6, TypeStep

LEMMA PullTyped ==
  ASSUME TInv, NEW d \in Node, NEW s \in Node, Pull(d, s)
  PROVE  TInv'
<1>1. PICK v \in Vid :
        /\ rows' = [rows EXCEPT ![d] = Applied(d, v, rows[s][v])]
        /\ seq' = [seq EXCEPT ![d] = AppliedSeq(d, v, rows[s][v])]
        /\ cursor' = [cursor EXCEPT ![d][s] = rows[s][v].seq]
  BY DEF Pull
<1>2. UNCHANGED <<vers, clock, ops, puts, reqs, calls, kept>>
  BY DEF Pull
<1>3. rows[s][v] \in Row /\ rows[s][v].seq \in Nat /\ rows[s][v].seq <= seq[s]
  BY DEF TInv, TypeOK, Row
<1>4. cursor' \in [Node -> [Node -> Nat]] /\ \A e, t \in Node : cursor'[e][t] <= seq[t]
  BY <1>1, <1>3 DEF TInv, TypeOK
<1>5. TypeOK'
  BY <1>1, <1>2, <1>3, <1>4, AppliedTyped
<1> QED
  BY <1>2, <1>5 DEF TInv

\* receive_version_delete leaves a tombstone where there was a live row.
LEMMA ReceiveIs ==
  ASSUME TInv, NEW c \in calls, Receive(c)
  PROVE  LET n == c.to
             r == c.row
         IN /\ n \in Node /\ c.vid \in Vid /\ r \in Row
            /\ Exists(r) => /\ rows' = [rows EXCEPT ![n] = Applied(n, c.vid, r)]
                            /\ seq' = [seq EXCEPT ![n] = AppliedSeq(n, c.vid, r)]
                            /\ clock' = clock
            /\ ~Exists(r) => /\ rows' = [rows EXCEPT ![n] = IF Live(rows[n][c.vid])
                                            THEN Dropped(n, c.vid, TRUE) ELSE Recompute(rows[n])]
                             /\ seq' = [seq EXCEPT ![n] = seq[n] + 1]
                             /\ clock' = clock + 1
            /\ calls' = calls \ {c}
            /\ UNCHANGED <<cursor, vers, ops, puts, reqs, kept, answered>>
<1>1. c.to \in Node /\ c.vid \in Vid /\ c.row \in Row
  BY DEF TInv
<1>2. rows \in [Node -> [Vid -> Row]] /\ seq \in [Node -> Nat]
  BY DEF TInv, TypeOK
<1> QED
  BY <1>1, <1>2 DEF Receive, Dropped, Tick

LEMMA ReceiveTyped ==
  ASSUME TInv, NEW c \in calls, Receive(c)
  PROVE  TInv'
<1> DEFINE n == c.to
           r == c.row
<1>1. /\ n \in Node /\ c.vid \in Vid /\ r \in Row
      /\ calls' = calls \ {c}
      /\ UNCHANGED <<cursor, vers, ops, puts, reqs, kept>>
  BY ReceiveIs
<1>2. cursor' \in [Node -> [Node -> Nat]] /\ \A d, s \in Node : cursor'[d][s] <= seq[s]
  BY <1>1 DEF TInv, TypeOK
<1>3. CASE Exists(r)
  <2>1. /\ rows' = [rows EXCEPT ![n] = Applied(n, c.vid, r)]
        /\ seq' = [seq EXCEPT ![n] = AppliedSeq(n, c.vid, r)] /\ clock' = clock
    BY <1>3, ReceiveIs
  <2> HIDE DEF n, r
  <2>2. TypeOK'
    BY <1>1, <1>2, <2>1, AppliedTyped
  <2> QED
    BY <1>1, <2>2 DEF TInv
<1>4. CASE ~Exists(r)
  <2> DEFINE x == IF Live(rows[n][c.vid]) THEN Dropped(n, c.vid, TRUE) ELSE Recompute(rows[n])
  <2>1. /\ rows' = [rows EXCEPT ![n] = x]
        /\ seq' = [seq EXCEPT ![n] = seq[n] + 1] /\ clock' = clock + 1
    BY <1>4, ReceiveIs
  <2> HIDE DEF n, r
  <2>2. /\ x \in [Vid -> Row]
        /\ \A w \in Vid : SameBody(x[w], rows[n][w]) \/ x[w].seq = seq[n] + 1
    <3>1. rows[n] \in [Vid -> Row]
      BY <1>1 DEF TInv, TypeOK
    <3>2. \A b \in BOOLEAN : b = TRUE =>
            /\ Dropped(n, c.vid, b) \in [Vid -> Row]
            /\ \A w \in Vid : SameBody(Dropped(n, c.vid, b)[w], rows[n][w]) \/ Dropped(n, c.vid, b)[w].seq = seq[n] + 1
      BY <1>1, DroppedRows
    <3> QED
      BY <3>1, <3>2, RecomputeRows, TRUE \in BOOLEAN
  <2> HIDE DEF x
  <2>3. seq[n] \in Nat /\ \A w \in Vid : rows[n][w].seq \in Nat /\ rows[n][w].seq <= seq[n]
    BY <1>1 DEF TInv, TypeOK, Row
  <2>4. \A w \in Vid : x[w].seq <= seq[n] + 1
    BY <2>2, <2>3 DEF SameBody
  <2>5. TypeOK /\ vers' = vers /\ ops' \in 0 .. MaxOps /\ clock' \in Nat
    BY <1>1, <2>1 DEF TInv, TypeOK
  <2>6. TypeOK'
    <3>1. seq[n] + 1 \in Nat /\ seq[n] + 1 >= seq[n]
      BY <2>3
    <3> QED
      BY <1>1, <1>2, <2>1, <2>2, <2>4, <2>5, <3>1, TypeStep
  <2> QED
    BY <1>1, <2>6 DEF TInv
<1> QED
  BY <1>3, <1>4

LEMMA SetVersioningTyped ==
  ASSUME TInv, NEW n \in Node, NEW s \in State, SetVersioning(n, s)
  PROVE  TInv'
<1>1. vers' \in [Node -> [state : State, at : Nat]]
  BY DEF TInv, TypeOK, SetVersioning
<1> QED
  BY <1>1 DEF TInv, TypeOK, SetVersioning

LEMMA SpreadVersioningTyped ==
  ASSUME TInv, NEW n \in Node, NEW m \in Node, SpreadVersioning(n, m)
  PROVE  TInv'
<1>1. vers' \in [Node -> [state : State, at : Nat]]
  BY DEF TInv, TypeOK, SpreadVersioning
<1> QED
  BY <1>1 DEF TInv, TypeOK, SpreadVersioning

LEMMA NextTyped == TInv /\ [Next]_vars => TInv'
<1> SUFFICES ASSUME TInv, [Next]_vars PROVE TInv'
  OBVIOUS
<1>1. ASSUME NEW n \in Node, PutStamp(n) PROVE TInv'
  BY <1>1, PutStampTyped
<1>2. ASSUME NEW n \in Node, Delete(n) PROVE TInv'
  BY <1>2, DeleteTyped
<1>3. ASSUME NEW p \in puts, PutCommit(p) PROVE TInv'
  BY <1>3, PutCommitTyped
<1>4. ASSUME NEW d \in reqs, DeleteFanOut(d) PROVE TInv'
  BY <1>4, DeleteFanOutTyped
<1>5. ASSUME NEW d \in reqs, Answer(d) PROVE TInv'
  BY <1>5 DEF Answer, TInv, TypeOK
<1>6. ASSUME NEW n \in Node, NEW v \in Vid, DeleteVersion(n, v) PROVE TInv'
  BY <1>6, DeleteVersionTyped
<1>7. ASSUME NEW d \in Node, NEW s \in Node, Pull(d, s) PROVE TInv'
  BY <1>7, PullTyped
<1>8. ASSUME NEW d \in Node, NEW s \in Node, SpreadVersioning(d, s) PROVE TInv'
  BY <1>8, SpreadVersioningTyped
<1>9. ASSUME NEW c \in calls, Receive(c) PROVE TInv'
  BY <1>9, ReceiveTyped
<1>10. ASSUME NEW n \in Node, NEW s \in State, SetVersioning(n, s) PROVE TInv'
  BY <1>10, SetVersioningTyped
<1>11. CASE UNCHANGED vars
  BY <1>11 DEF vars, TInv, TypeOK
<1> QED
  BY <1>1, <1>2, <1>3, <1>4, <1>5, <1>6, <1>7, <1>8, <1>9, <1>10, <1>11 DEF Next

LEMMA TypedAlways == Spec => []TInv
<1>1. Init => TInv
  BY InitTyped
<1>2. TInv /\ [Next]_vars => TInv'
  BY NextTyped
<1> QED
  BY <1>1, <1>2, PTL DEF Spec

\* Every variable keeps its type, no row is ahead of the counter of its node and no
\* cursor is ahead of the counter it follows, whatever the clocks and the lags
\* (next_object_seq, apply_remote_object, the anti-entropy cursor).
THEOREM BucketTypeCorrect == Spec => []TypeOK
<1>1. TInv => TypeOK
  BY DEF TInv
<1> QED
  BY <1>1, TypedAlways, PTL
-----------------------------------------------------------------------------
(* The current row. *)

\* The clocks agree: every stamp is later than all the earlier ones.
ClocksAgree == \A n \in Node : Skew[n] = 0

\* Nothing is stamped in the future.
Stamped ==
  /\ \A n \in Node, v \in Vid : rows[n][v].lm <= clock
  /\ \A p \in puts : p.lm <= clock
  /\ \A c \in calls : c.row.lm <= clock

NInv == Stamped /\ \A n \in Node : Newest(rows[n])

\* What the types say of the stamps.
LEMMA Stamps ==
  ASSUME TInv
  PROVE  /\ clock \in Nat
         /\ \A n \in Node, v \in Vid : rows[n][v] \in Row /\ rows[n][v].lm \in Nat /\ rows[n][v].seq \in Nat
         /\ \A p \in puts : p.lm \in Nat \ {0} /\ p.node \in Node /\ p.op \in 1 .. MaxOps
         /\ \A c \in calls : c.row \in Row /\ c.row.lm \in Nat /\ c.vid \in Vid /\ c.to \in Node
<1>1. \A n \in Node, v \in Vid : rows[n][v] \in Row
  BY DEF TInv, TypeOK
<1>2. \A r \in Row : r.lm \in Nat /\ r.seq \in Nat
  BY DEF Row
<1>3. \A c \in calls : c.row \in Row /\ c.vid \in Vid /\ c.to \in Node
  BY DEF TInv
<1>4. \A p \in puts : p.lm \in Nat \ {0} /\ p.node \in Node /\ p.op \in 1 .. MaxOps
  BY DEF TInv
<1> QED
  BY <1>1, <1>2, <1>3, <1>4 DEF TInv, TypeOK

LEMMA NowIsNext ==
  ASSUME TInv, ClocksAgree, NEW n \in Node
  PROVE  Now(n) = clock + 1
<1>1. Skew[n] = 0 /\ clock \in Nat
  BY DEF ClocksAgree, TInv, TypeOK
<1> QED
  BY <1>1 DEF Now

\* A step that gives node n the rows rs.
LEMMA NewestStep ==
  ASSUME TInv, NInv, NEW n \in Node, NEW rs \in [Vid -> Row], Newest(rs),
         rows' = [rows EXCEPT ![n] = rs], clock' \in Nat, clock <= clock',
         \A v \in Vid : rs[v].lm <= clock',
         \A p \in puts' : p.lm <= clock', \A c \in calls' : c.row.lm <= clock'
  PROVE  NInv'
<1>1. /\ \A m \in Node, v \in Vid : rows[m][v].lm \in Nat /\ rows[m][v].lm <= clock
      /\ clock \in Nat
  BY Stamps DEF NInv, Stamped
<1>2. \A m \in Node : rows'[m] = IF m = n THEN rs ELSE rows[m]
  BY DEF TInv, TypeOK
<1>3. \A m \in Node, v \in Vid : rows'[m][v].lm <= clock'
  BY <1>1, <1>2
<1>4. \A m \in Node : Newest(rows'[m])
  BY <1>2 DEF NInv
<1>5. NInv' <=> /\ \A m \in Node, v \in Vid : rows'[m][v].lm <= clock'
                /\ \A p \in puts' : p.lm <= clock'
                /\ \A c \in calls' : c.row.lm <= clock'
                /\ \A m \in Node : Newest(rows'[m])
  BY DEF NInv, Stamped, Newest, Live, Exists
<1> QED
  BY <1>3, <1>4, <1>5

LEMMA InitNewest == Init => NInv
<1> SUFFICES ASSUME Init PROVE NInv
  OBVIOUS
<1>1. \A n \in Node : rows[n] = [v \in Vid |-> NoRow]
  BY DEF Init
<1>2. \A n \in Node, v \in Vid : rows[n][v].lm = 0
  BY <1>1, EmptyRows DEF Absent
<1>3. clock = 0 /\ puts = {} /\ calls = {}
  BY DEF Init
<1>4. \A n \in Node : Newest(rows[n])
  BY <1>1, EmptyRows
<1> QED
  BY <1>2, <1>3, <1>4 DEF NInv, Stamped

\* The rows stay and the clock does not go back.
LEMMA NewestKept ==
  ASSUME TInv, NInv, rows' = rows, clock' \in Nat, clock <= clock',
         \A p \in puts' : p.lm <= clock', \A c \in calls' : c.row.lm <= clock'
  PROVE  NInv'
<1>1. \A n \in Node, v \in Vid : rows[n][v].lm <= clock'
  <2>1. \A n \in Node, v \in Vid : rows[n][v].lm \in Nat /\ rows[n][v].lm <= clock /\ clock \in Nat
    BY Stamps DEF NInv, Stamped
  <2> QED
    BY <2>1
<1> QED
  BY <1>1 DEF NInv, Stamped, Newest, Live, Exists

LEMMA PutStampNewest ==
  ASSUME ClocksAgree, TInv, NInv, NEW n \in Node, PutStamp(n)
  PROVE  NInv'
<1>1. Now(n) = clock + 1 /\ clock' = clock + 1 /\ clock \in Nat
  BY NowIsNext, Stamps DEF PutStamp, Tick
<1>2. \A p \in puts' : p \in puts \/ p.lm = clock + 1
  BY <1>1 DEF PutStamp
<1>3. \A p \in puts' : p.lm <= clock'
  <2>1. \A p \in puts : p.lm \in Nat /\ p.lm <= clock
    BY Stamps DEF NInv, Stamped
  <2> QED
    BY <1>1, <1>2, <2>1
<1>4. \A c \in calls' : c.row.lm <= clock'
  <2>1. \A c \in calls : c.row.lm \in Nat /\ c.row.lm <= clock
    BY Stamps DEF NInv, Stamped
  <2>2. calls' = calls
    BY DEF PutStamp
  <2> QED
    BY <1>1, <2>1, <2>2
<1>5. rows' = rows
  BY DEF PutStamp
<1> QED
  BY <1>1, <1>3, <1>4, <1>5, NewestKept

LEMMA PutCommitNewest ==
  ASSUME TInv, NInv, NEW p \in puts, PutCommit(p)
  PROVE  NInv'
<1> DEFINE n == p.node
           v == IF vers[n].state = "enabled" THEN p.op ELSE 0
           x == Install(n, p)
<1>1. /\ n \in Node /\ v \in Vid /\ x \in [Vid -> Row] /\ Newest(x)
      /\ x[v].lm = p.lm /\ p.op \in 1 .. MaxOps
      /\ \A w \in Vid \ {v} : SameBody(x[w], rows[n][w]) \/ Absent(x[w])
  BY InstallRows
<1>2. /\ rows' = [rows EXCEPT ![n] = x] /\ rows'[n] = x
      /\ puts' = puts \ {p} /\ calls' = calls \cup Send(p.op, n, v, rows'[n][v])
      /\ clock' = clock
  BY <1>1 DEF PutCommit, TInv, TypeOK
<1> HIDE DEF n, v, x
<1>3. /\ p.lm \in Nat /\ p.lm <= clock /\ clock \in Nat
      /\ \A w \in Vid : rows[n][w].lm \in Nat /\ rows[n][w].lm <= clock
  BY <1>1, Stamps DEF NInv, Stamped
<1>4. \A w \in Vid : x[w].lm <= clock'
  BY <1>1, <1>2, <1>3 DEF SameBody, Absent
<1>5. \A c \in calls' : c.row.lm <= clock'
  <2>1. x[v] \in Row
    BY <1>1
  <2>2. \A c \in Send(p.op, n, v, x[v]) : c.row = x[v]
    BY <1>1, <2>1, SendCalls
  <2>3. \A c \in calls : c.row.lm <= clock
    BY DEF NInv, Stamped
  <2> QED
    BY <1>1, <1>2, <1>3, <2>2, <2>3
<1>6. \A q \in puts' : q.lm <= clock'
  BY <1>2 DEF NInv, Stamped
<1>7. clock' \in Nat /\ clock <= clock'
  BY <1>2, <1>3
<1> QED
  BY <1>1, <1>2, <1>4, <1>5, <1>6, <1>7, NewestStep

LEMMA DeleteNewest ==
  ASSUME ClocksAgree, TInv, NInv, NEW n \in Node, Delete(n)
  PROVE  NInv'
<1> DEFINE x == DeleteLatest(n)
<1>1. /\ ops < MaxOps /\ clock' = clock + 1 /\ rows' = [rows EXCEPT ![n] = x]
      /\ puts' = puts /\ calls' = calls
  BY DEF Delete, Tick
<1>2. /\ clock \in Nat /\ Now(n) = clock + 1
      /\ \A w \in Vid : rows[n][w].lm \in Nat /\ rows[n][w].lm <= clock
  BY NowIsNext, Stamps DEF NInv, Stamped
<1>3. x \in [Vid -> Row]
  BY <1>1, DeleteRows
<1>4. Newest(x) /\ \A w \in Vid : x[w].lm <= clock + 1
  <2>1. CASE vers[n].state # "unversioned"
    <3> DEFINE u == IF vers[n].state = "enabled" THEN ops + 1 ELSE 0
    <3>1. /\ u \in Vid /\ Now(n) \in Nat \ {0}
          /\ x = Insert(rows[n], u, Now(n), 0, TRUE, seq[n] + 1)
          /\ x[u].lm = Now(n) /\ \A w \in Vid \ {u} : SameBody(x[w], rows[n][w])
      BY <1>1, <2>1, DeleteRows
    <3>2. rows[n] \in [Vid -> Row] /\ seq[n] + 1 \in Nat /\ 0 \in Vid
      BY BucketAssumption DEF TInv, TypeOK, Vid
    <3>3. \A w \in Vid : Live(rows[n][w]) => rows[n][w].lm < Now(n)
      BY <1>2
    <3> HIDE DEF u, x
    <3>4. \A m \in BOOLEAN : Newest(Insert(rows[n], u, Now(n), 0, m, seq[n] + 1))
      BY <3>1, <3>2, <3>3, InsertNewest
    <3>5. Newest(x)
      BY <3>1, <3>4, TRUE \in BOOLEAN
    <3>6. \A w \in Vid \ {u} : x[w].lm = rows[n][w].lm
      BY <3>1 DEF SameBody
    <3>7. \A w \in Vid : x[w].lm <= clock + 1
      <4> SUFFICES ASSUME NEW w \in Vid PROVE x[w].lm <= clock + 1
        OBVIOUS
      <4>1. CASE w = u
        <5>1. x[u].lm = Now(n) /\ Now(n) = clock + 1 /\ clock + 1 \in Nat
          BY <1>2, <3>1
        <5> QED
          BY <4>1, <5>1
      <4>2. CASE w # u
        BY <1>2, <3>6, <4>2
      <4> QED
        BY <4>1, <4>2
    <3> QED
      BY <3>5, <3>7
  <2>2. CASE vers[n].state = "unversioned"
    <3>1. x = rows[n] \/ (Newest(x) /\ \A w \in Vid : Absent(x[w]) \/ x[w].lm = Now(n))
      BY <1>1, <2>2, DeleteRows
    <3>2. Newest(rows[n])
      BY DEF NInv
    <3> HIDE DEF x
    <3> QED
      BY <1>2, <3>1, <3>2 DEF Absent
  <2> QED
    BY <2>1, <2>2
<1> HIDE DEF x
<1>5. clock' \in Nat /\ clock <= clock' /\ \A w \in Vid : x[w].lm <= clock'
  BY <1>1, <1>2, <1>4
<1>6. \A p \in puts' : p.lm <= clock'
  <2>1. \A p \in puts : p.lm \in Nat /\ p.lm <= clock
    BY Stamps DEF NInv, Stamped
  <2> QED
    BY <1>1, <1>2, <2>1
<1>7. \A c \in calls' : c.row.lm <= clock'
  <2>1. \A c \in calls : c.row.lm \in Nat /\ c.row.lm <= clock
    BY Stamps DEF NInv, Stamped
  <2> QED
    BY <1>1, <1>2, <2>1
<1> QED
  BY <1>1, <1>3, <1>4, <1>5, <1>6, <1>7, NewestStep

\* What a delete sends: markers, which exist, or the request to delete its version.
LEMMA FanOutCalls ==
  ASSUME TInv, NEW d \in reqs, DeleteFanOut(d)
  PROVE  /\ d.node \in Node /\ d.vid \in Vid
         /\ \A c \in calls' :
              \/ c \in calls
              \/ c.vid = d.vid /\ c.row = NoRow
              \/ c.vid \in Latest(d.node) /\ c.row = rows[d.node][c.vid] /\ c.row.marker
<1> DEFINE n == d.node
           markers == {v \in Latest(n) : rows[n][v].marker}
<1>1. d \in [id : 1 .. MaxOps, node : Node, vid : Vid, lm : Nat, sent : BOOLEAN]
  BY DEF TInv
<1>2. n \in Node /\ d.id \in 1 .. MaxOps /\ d.vid \in Vid /\ \A v \in markers : v \in Vid /\ rows[n][v] \in Row
  BY <1>1 DEF Latest, TInv, TypeOK
<1>3. calls' = calls \cup (IF markers # {} THEN UNION {Send(d.id, n, v, rows[n][v]) : v \in markers}
                                          ELSE Send(d.id, n, d.vid, NoRow))
  BY DEF DeleteFanOut
<1>4. \A v \in markers : v \in Latest(n) /\ rows[n][v].marker
  OBVIOUS
<1> HIDE DEF markers, n
<1>5. \A v \in markers : \A c \in Send(d.id, n, v, rows[n][v]) : c.vid = v /\ c.row = rows[n][v]
  BY <1>2, SendCalls
<1>6. \A c \in Send(d.id, n, d.vid, NoRow) : c.vid = d.vid /\ c.row = NoRow
  BY <1>2, SendCalls, NoRowIsAbsent
<1>7. \A c \in calls' : c \in calls \/ (c.vid = d.vid /\ c.row = NoRow)
                          \/ (c.vid \in Latest(n) /\ c.row = rows[n][c.vid] /\ c.row.marker)
  BY <1>3, <1>4, <1>5, <1>6
<1> QED
  BY <1>2, <1>7 DEF n

LEMMA DeleteFanOutNewest ==
  ASSUME TInv, NInv, NEW d \in reqs, DeleteFanOut(d)
  PROVE  NInv'
<1>1. rows' = rows /\ clock' = clock /\ puts' = puts /\ clock \in Nat
  BY Stamps DEF DeleteFanOut
<1>2. \A c \in calls' : c.row.lm <= clock'
  <2> TAKE c \in calls'
  <2>1. CASE c \in calls
    BY <1>1, <2>1 DEF NInv, Stamped
  <2>2. CASE c.row = NoRow
    BY <1>1, <2>2 DEF NoRow
  <2>3. CASE c.vid \in Latest(d.node) /\ c.row = rows[d.node][c.vid]
    <3>1. d.node \in Node /\ c.vid \in Vid
      BY <2>3, FanOutCalls DEF Latest
    <3> QED
      BY <1>1, <2>3, <3>1 DEF NInv, Stamped
  <2> QED
    BY <2>1, <2>2, <2>3, FanOutCalls
<1>3. \A p \in puts' : p.lm <= clock'
  BY <1>1 DEF NInv, Stamped
<1> QED
  BY <1>1, <1>2, <1>3, NewestKept

LEMMA DeleteVersionNewest ==
  ASSUME ClocksAgree, TInv, NInv, NEW n \in Node, NEW v \in Vid, DeleteVersion(n, v)
  PROVE  NInv'
<1> DEFINE x == Dropped(n, v, Clustered)
<1>1. /\ rows' = [rows EXCEPT ![n] = x] /\ ops < MaxOps
      /\ clock' = clock + 1 /\ puts' = puts /\ calls' = calls \cup Send(ops + 1, n, v, NoRow)
  BY DeleteVersionIs DEF DeleteVersion, Tick
<1>2. /\ clock \in Nat /\ Now(n) = clock + 1
      /\ \A w \in Vid : rows[n][w].lm \in Nat /\ rows[n][w].lm <= clock
  BY NowIsNext, Stamps DEF NInv, Stamped
<1>3. /\ x \in [Vid -> Row] /\ Newest(x)
      /\ \A w \in Vid : SameBody(x[w], rows[n][w]) \/ Absent(x[w]) \/ x[w].lm = Now(n)
  BY DroppedRows, BucketAssumption
<1> HIDE DEF x
<1>4. \A w \in Vid : x[w].lm <= clock'
  BY <1>1, <1>2, <1>3 DEF SameBody, Absent
<1>5. \A p \in puts' : p.lm <= clock'
  <2>1. \A p \in puts : p.lm \in Nat /\ p.lm <= clock
    BY Stamps DEF NInv, Stamped
  <2> QED
    BY <1>1, <1>2, <2>1
<1>6. \A c \in calls' : c.row.lm <= clock'
  <2>1. \A c \in calls : c.row.lm \in Nat /\ c.row.lm <= clock
    BY Stamps DEF NInv, Stamped
  <2>2. ops + 1 \in 1 .. MaxOps
    BY <1>1, BucketAssumption DEF TInv, TypeOK
  <2>3. \A c \in Send(ops + 1, n, v, NoRow) : c.row = NoRow
    BY <2>2, SendCalls, NoRowIsAbsent
  <2>4. NoRow.lm = 0
    BY DEF NoRow
  <2> QED
    BY <1>1, <1>2, <2>1, <2>3, <2>4
<1>7. clock' \in Nat /\ clock <= clock'
  BY <1>1, <1>2
<1> QED
  BY <1>1, <1>3, <1>4, <1>5, <1>6, <1>7, NewestStep

LEMMA AppliedNewest ==
  ASSUME TInv, NInv, NEW n \in Node, NEW v \in Vid, NEW r \in Row, r.lm <= clock,
         rows' = [rows EXCEPT ![n] = Applied(n, v, r)],
         clock' = clock, puts' = puts, calls' \subseteq calls
  PROVE  NInv'
<1> DEFINE x == Applied(n, v, r)
<1>1. /\ x \in [Vid -> Row] /\ Newest(x)
      /\ \A w \in Vid : SameBody(x[w], rows[n][w]) \/ x[w].lm = r.lm
  BY AppliedRows
<1>2. /\ clock \in Nat
      /\ \A w \in Vid : rows[n][w].lm \in Nat /\ rows[n][w].lm <= clock
  BY Stamps DEF NInv, Stamped
<1>3. rows' = [rows EXCEPT ![n] = x]
  OBVIOUS
<1> HIDE DEF x
<1>4. \A w \in Vid : x[w].lm <= clock'
  BY <1>1, <1>2 DEF SameBody
<1>5. (\A p \in puts' : p.lm <= clock') /\ (\A c \in calls' : c.row.lm <= clock')
  BY DEF NInv, Stamped
<1>6. clock' \in Nat /\ clock <= clock'
  BY <1>2
<1> QED
  BY <1>1, <1>3, <1>4, <1>5, <1>6, NewestStep

LEMMA PullNewest ==
  ASSUME TInv, NInv, NEW d \in Node, NEW s \in Node, Pull(d, s)
  PROVE  NInv'
<1>1. PICK v \in Vid : rows' = [rows EXCEPT ![d] = Applied(d, v, rows[s][v])]
  BY DEF Pull
<1>2. clock' = clock /\ puts' = puts /\ calls' = calls
  BY DEF Pull
<1>3. rows[s][v] \in Row /\ rows[s][v].lm <= clock
  BY Stamps DEF NInv, Stamped
<1> QED
  BY <1>1, <1>2, <1>3, AppliedNewest

LEMMA ReceiveNewest ==
  ASSUME ClocksAgree, TInv, NInv, NEW c \in calls, Receive(c)
  PROVE  NInv'
<1> DEFINE n == c.to
           r == c.row
<1>1. n \in Node /\ c.vid \in Vid /\ r \in Row /\ calls' = calls \ {c} /\ puts' = puts
  BY ReceiveIs
<1>2. CASE Exists(r)
  <2>1. rows' = [rows EXCEPT ![n] = Applied(n, c.vid, r)] /\ clock' = clock
    BY <1>2, ReceiveIs
  <2>2. r.lm <= clock /\ calls' \subseteq calls
    BY <1>1 DEF NInv, Stamped
  <2> HIDE DEF n, r
  <2> QED
    BY <1>1, <2>1, <2>2, AppliedNewest
<1>3. CASE ~Exists(r)
  <2> DEFINE x == IF Live(rows[n][c.vid]) THEN Dropped(n, c.vid, TRUE) ELSE Recompute(rows[n])
  <2>1. rows' = [rows EXCEPT ![n] = x] /\ clock' = clock + 1
    BY <1>3, ReceiveIs
  <2> HIDE DEF n, r
  <2>2. /\ x \in [Vid -> Row] /\ Newest(x)
        /\ \A w \in Vid : SameBody(x[w], rows[n][w]) \/ x[w].lm = Now(n)
    <3>1. rows[n] \in [Vid -> Row]
      BY <1>1 DEF TInv, TypeOK
    <3>2. \A b \in BOOLEAN : b = TRUE =>
            /\ Dropped(n, c.vid, b) \in [Vid -> Row] /\ Newest(Dropped(n, c.vid, b))
            /\ \A w \in Vid : SameBody(Dropped(n, c.vid, b)[w], rows[n][w]) \/ Dropped(n, c.vid, b)[w].lm = Now(n)
      BY <1>1, DroppedRows
    <3> QED
      BY <3>1, <3>2, RecomputeRows, TRUE \in BOOLEAN
  <2> HIDE DEF x
  <2>3. /\ clock \in Nat /\ Now(n) = clock + 1
        /\ \A w \in Vid : rows[n][w].lm \in Nat /\ rows[n][w].lm <= clock
    BY <1>1, NowIsNext, Stamps DEF NInv, Stamped
  <2>4. \A w \in Vid : x[w].lm <= clock'
    BY <2>1, <2>2, <2>3 DEF SameBody
  <2>5. \A p \in puts' : p.lm <= clock'
    <3>1. \A p \in puts : p.lm \in Nat /\ p.lm <= clock
      BY Stamps DEF NInv, Stamped
    <3> QED
      BY <1>1, <2>1, <2>3, <3>1
  <2>6. \A e \in calls' : e.row.lm <= clock'
    <3>1. \A e \in calls : e.row.lm \in Nat /\ e.row.lm <= clock
      BY Stamps DEF NInv, Stamped
    <3> QED
      BY <1>1, <2>1, <2>3, <3>1
  <2>7. clock' \in Nat /\ clock <= clock'
    BY <2>1, <2>3
  <2> QED
    BY <1>1, <2>1, <2>2, <2>4, <2>5, <2>6, <2>7, NewestStep
<1> QED
  BY <1>2, <1>3

LEMMA NextNewest ==
  ASSUME ClocksAgree
  PROVE  TInv /\ NInv /\ [Next]_vars => NInv'
<1> SUFFICES ASSUME TInv, NInv, [Next]_vars PROVE NInv'
  OBVIOUS
<1>1. ASSUME NEW n \in Node, PutStamp(n) PROVE NInv'
  BY <1>1, PutStampNewest
<1>2. ASSUME NEW n \in Node, Delete(n) PROVE NInv'
  BY <1>2, DeleteNewest
<1>3. ASSUME NEW p \in puts, PutCommit(p) PROVE NInv'
  BY <1>3, PutCommitNewest
<1>4. ASSUME NEW d \in reqs, DeleteFanOut(d) PROVE NInv'
  BY <1>4, DeleteFanOutNewest
<1>5. ASSUME NEW n \in Node, NEW v \in Vid, DeleteVersion(n, v) PROVE NInv'
  BY <1>5, DeleteVersionNewest
<1>6. ASSUME NEW d \in Node, NEW s \in Node, Pull(d, s) PROVE NInv'
  BY <1>6, PullNewest
<1>7. ASSUME NEW c \in calls, Receive(c) PROVE NInv'
  BY <1>7, ReceiveNewest
<1>8. ASSUME UNCHANGED <<rows, clock, puts, calls>> PROVE NInv'
  <2>1. clock \in Nat
    BY Stamps
  <2>2. (\A p \in puts' : p.lm <= clock') /\ (\A c \in calls' : c.row.lm <= clock')
    BY <1>8 DEF NInv, Stamped
  <2> QED
    BY <1>8, <2>1, <2>2, NewestKept
<1>9. ASSUME NEW d \in reqs, Answer(d) PROVE NInv'
  BY <1>8, <1>9 DEF Answer
<1>10. ASSUME NEW d \in Node, NEW s \in Node, SpreadVersioning(d, s) PROVE NInv'
  BY <1>8, <1>10 DEF SpreadVersioning
<1>11. ASSUME NEW n \in Node, NEW s \in State, SetVersioning(n, s) PROVE NInv'
  BY <1>8, <1>11 DEF SetVersioning
<1>12. CASE UNCHANGED vars
  BY <1>8, <1>12 DEF vars
<1> QED
  BY <1>1, <1>2, <1>3, <1>4, <1>5, <1>6, <1>7, <1>9, <1>10, <1>11, <1>12 DEF Next

LEMMA NewestAlways ==
  ASSUME ClocksAgree
  PROVE  Spec => []NInv
<1>1. Init => NInv
  BY InitNewest
<1>2. TInv /\ NInv /\ [Next]_vars => NInv'
  BY NextNewest
<1> QED
  BY <1>1, <1>2, TypedAlways, PTL DEF Spec

\* With clocks that agree, after any sequence of local changes and of rows and
\* deletes from peers, in any order and with any lag of the versioning state, the
\* current row of a key is its newest live one (recompute_is_latest, install_object,
\* delete_latest_in_tx).  A delete marker is inserted without recomputing, so this
\* rests on its stamp being later than those of all the rows.
THEOREM CurrentIsNewest ==
  ASSUME ClocksAgree
  PROVE  Spec => []LatestIsNewest
<1>1. NInv => LatestIsNewest
  BY DEF NInv, Newest, LatestIsNewest
<1> QED
  BY <1>1, NewestAlways, PTL
-----------------------------------------------------------------------------
(* No version is lost. *)

\* A node is not left behind in an unversioned bucket.
NoLag == "unversioned" \notin Lag

\* Version id v has been used: a row, a call, a delete or a kept version has it.
Used(v) ==
  \/ \E n \in Node : Exists(rows[n][v])
  \/ \E c \in calls : c.vid = v
  \/ \E d \in reqs : d.vid = v
  \/ \E k \in kept : k.vid = v

\* What was never written is blank.
Blank == \A n \in Node, v \in Vid : ~Exists(rows[n][v]) => Absent(rows[n][v])

\* A bucket is unversioned on all nodes or on none; as long as it is, only the null
\* version has been used.
Together ==
  \A n \in Node : vers[n].state = "unversioned" =>
    /\ \A m \in Node : vers[m].state = "unversioned"
    /\ \A v \in Vid : Used(v) => v = 0

\* A PUT under way has a request number of its own, which no version id is.
Fresh ==
  /\ \A p \in puts : p.op <= ops
  /\ \A p, q \in puts : p.op = q.op => p = q
  /\ \A v \in Vid : Used(v) => v <= ops /\ \A p \in puts : p.op # v

\* Version k is where it was put, and nothing under way deletes it.
Guarded(k) ==
  /\ k.vid # 0 /\ Exists(rows[k.node][k.vid])
  /\ \A n \in Node : ~rows[n][k.vid].tomb
  /\ \A c \in calls : c.vid = k.vid => Exists(c.row) /\ ~c.row.tomb
  /\ \A d \in reqs : d.vid # k.vid

Safe == \A k \in kept : Guarded(k)

KInv == Blank /\ Together /\ Fresh /\ Safe

\* Row r is x, up to being current.
Carried(r, x) == SameBody(r, x) /\ (Absent(x) => Absent(r))

\* The rows of a node are carried over, blank or written.
LEMMA BlankStep ==
  ASSUME TInv, Blank, NEW n \in Node, NEW x \in [Vid -> Row],
         rows' = [rows EXCEPT ![n] = x],
         \A w \in Vid : Carried(x[w], rows[n][w]) \/ Absent(x[w]) \/ Exists(x[w])
  PROVE  Blank'
<1>1. \A m \in Node : rows'[m] = IF m = n THEN x ELSE rows[m]
  BY DEF TInv, TypeOK
<1>2. \A w \in Vid : ~Exists(x[w]) => Absent(x[w])
  BY DEF Blank, Carried, SameBody, Exists
<1>3. \A m \in Node, w \in Vid : ~Exists(rows'[m][w]) => Absent(rows'[m][w])
  BY <1>1, <1>2 DEF Blank
<1> QED
  BY <1>3 DEF Blank, Exists, Absent

\* The version ids in N come into use, and no other.
LEMMA UsedStep ==
  ASSUME TInv, NEW n \in Node, NEW x \in [Vid -> Row], rows' = [rows EXCEPT ![n] = x], NEW N,
         \A w \in Vid : Exists(x[w]) => Used(w) \/ w \in N,
         \A c \in calls' : Used(c.vid) \/ c.vid \in N,
         \A d \in reqs' : Used(d.vid) \/ d.vid \in N,
         \A k \in kept' : Used(k.vid) \/ k.vid \in N
  PROVE  \A v \in Vid : Used(v)' => Used(v) \/ v \in N
<1>1. \A m \in Node : rows'[m] = IF m = n THEN x ELSE rows[m]
  BY DEF TInv, TypeOK
<1>2. \A m \in Node, w \in Vid : Exists(rows[m][w]) => Used(w)
  BY DEF Used
<1> SUFFICES ASSUME NEW v \in Vid, Used(v)' PROVE Used(v) \/ v \in N
  OBVIOUS
<1>3. \/ \E m \in Node : Exists(rows'[m][v])
      \/ \E c \in calls' : c.vid = v
      \/ \E d \in reqs' : d.vid = v
      \/ \E k \in kept' : k.vid = v
  BY DEF Used, Exists
<1>4. \A m \in Node : Exists(rows'[m][v]) => Used(v) \/ v \in N
  BY <1>1, <1>2
<1> HIDE DEF Used
<1> QED
  BY <1>3, <1>4

LEMMA FreshStep ==
  ASSUME TInv, Together, Fresh, NEW N, N \subseteq Vid,
         \A v \in Vid : Used(v)' => Used(v) \/ v \in N,
         vers' = vers, puts' \subseteq puts, ops' \in Nat, ops <= ops',
         \A v \in N : v <= ops' /\ \A p \in puts' : p.op # v,
         \A v \in N : v = 0 \/ Used(v) \/ \E n \in Node : vers[n].state # "unversioned"
  PROVE  Together' /\ Fresh'
<1>1. Together'
  <2>1. ASSUME NEW n \in Node, vers[n].state = "unversioned"
        PROVE  /\ \A m \in Node : vers[m].state = "unversioned"
               /\ \A v \in Vid : Used(v)' => v = 0
    BY <2>1 DEF Together
  <2> QED
    BY <2>1 DEF Together
<1>2. ops \in Nat /\ \A v \in Vid : v \in Nat
  BY BucketAssumption DEF TInv, TypeOK, Vid
<1>3. \A p \in puts : p.op \in Nat /\ p.op <= ops
  BY DEF TInv, Fresh
<1>4. \A p \in puts' : p.op <= ops'
  BY <1>2, <1>3
<1>5. \A v \in Vid : Used(v)' => v <= ops'
  BY <1>2 DEF Fresh
<1>6. \A v \in Vid : Used(v)' => \A p \in puts' : p.op # v
  BY DEF Fresh
<1>7. \A p, q \in puts' : p.op = q.op => p = q
  BY DEF Fresh
<1> QED
  BY <1>1, <1>4, <1>5, <1>6, <1>7 DEF Fresh

\* A kept version stays guarded.
LEMMA GuardedStep ==
  ASSUME TInv, NEW k \in kept, Guarded(k), NEW n \in Node, NEW x \in [Vid -> Row],
         rows' = [rows EXCEPT ![n] = x],
         ~x[k.vid].tomb, Exists(rows[n][k.vid]) => Exists(x[k.vid]),
         \A c \in calls' : c.vid = k.vid => c \in calls \/ (Exists(c.row) /\ ~c.row.tomb),
         \A d \in reqs' : d.vid = k.vid => \E e \in reqs : e.vid = d.vid
  PROVE  Guarded(k)'
<1>1. k.vid \in Vid /\ k.node \in Node
  BY DEF TInv
<1>2. \A m \in Node : rows'[m] = IF m = n THEN x ELSE rows[m]
  BY DEF TInv, TypeOK
<1>3. Exists(rows'[k.node][k.vid]) /\ \A m \in Node : ~rows'[m][k.vid].tomb
  BY <1>1, <1>2 DEF Guarded
<1>4. \A c \in calls' : c.vid = k.vid => Exists(c.row) /\ ~c.row.tomb
  BY DEF Guarded
<1>5. \A d \in reqs' : d.vid # k.vid
  BY DEF Guarded
<1> QED
  BY <1>3, <1>4, <1>5 DEF Guarded, Exists

LEMMA InitKept == Init => KInv
<1> SUFFICES ASSUME Init PROVE KInv
  OBVIOUS
<1>1. \A n \in Node : rows[n] = [v \in Vid |-> NoRow]
  BY DEF Init
<1>2. \A n \in Node, v \in Vid : Absent(rows[n][v])
  BY <1>1, EmptyRows
<1>3. \A v \in Vid : ~Used(v)
  BY <1>2 DEF Init, Used, Absent, Exists
<1>4. \A n \in Node : vers[n].state = Initial
  BY DEF Init
<1>5. puts = {} /\ kept = {}
  BY DEF Init
<1> QED
  BY <1>2, <1>3, <1>4, <1>5 DEF KInv, Blank, Together, Fresh, Safe

\* What the numbers of the requests are.
LEMMA Numbers ==
  ASSUME TInv
  PROVE  /\ ops \in Nat /\ MaxOps \in Nat /\ 0 \in Vid
         /\ \A v \in Vid : v \in Nat
         /\ \A p \in puts : p.op \in Nat \ {0} /\ p.op \in Vid
         /\ \A k \in kept : k.vid \in Vid /\ k.node \in Node
         /\ \A d \in reqs : d.vid \in Vid /\ d.node \in Node
<1>1. ops \in Nat /\ MaxOps \in Nat /\ 0 \in Vid /\ \A v \in Vid : v \in Nat
  BY BucketAssumption DEF TInv, TypeOK, Vid
<1>2. \A p \in puts : p.op \in 1 .. MaxOps
  BY DEF TInv
<1>3. \A i \in 1 .. MaxOps : i \in Nat \ {0} /\ i \in Vid
  BY <1>1 DEF Vid
<1>4. /\ \A k \in kept : k.vid \in Vid /\ k.node \in Node
      /\ \A d \in reqs : d.vid \in Vid /\ d.node \in Node
  BY DEF TInv
<1> QED
  BY <1>1, <1>2, <1>3, <1>4

LEMMA PutStampKept ==
  ASSUME TInv, KInv, NEW n \in Node, PutStamp(n)
  PROVE  KInv'
<1> DEFINE q == [node |-> n, op |-> ops + 1, lm |-> Now(n)]
<1>1. /\ puts' = puts \cup {q} /\ q.op = ops + 1 /\ ops' = ops + 1
      /\ UNCHANGED <<rows, vers, reqs, calls, kept>>
  BY DEF PutStamp
<1> HIDE DEF q
<1>2. Blank' /\ Together' /\ Safe'
  BY <1>1 DEF KInv, Blank, Together, Used, Safe, Guarded, Exists, Absent
<1>3. \A v \in Vid : Used(v)' => Used(v)
  BY <1>1 DEF Used, Exists
<1>4. ops \in Nat /\ (\A v \in Vid : v \in Nat) /\ \A p \in puts : p.op \in Nat /\ p.op <= ops
  BY Numbers DEF KInv, Fresh
<1>5. \A p \in puts' : p.op <= ops'
  BY <1>1, <1>4
<1>6. \A p, r \in puts' : p.op = r.op => p = r
  BY <1>1, <1>4 DEF KInv, Fresh
<1>7. \A v \in Vid : Used(v) => v <= ops /\ \A p \in puts : p.op # v
  BY DEF KInv, Fresh
<1>8. \A v \in Vid : Used(v)' => v <= ops' /\ \A p \in puts' : p.op # v
  <2> SUFFICES ASSUME NEW v \in Vid, Used(v)' PROVE v <= ops' /\ \A p \in puts' : p.op # v
    OBVIOUS
  <2>1. v <= ops /\ v \in Nat /\ \A p \in puts : p.op # v
    BY <1>3, <1>4, <1>7
  <2> QED
    BY <1>1, <1>4, <2>1
<1> QED
  BY <1>2, <1>5, <1>6, <1>8 DEF KInv, Fresh

LEMMA PutCommitKept ==
  ASSUME TInv, KInv, NEW p \in puts, PutCommit(p)
  PROVE  KInv'
<1> DEFINE n == p.node
           v == IF vers[n].state = "enabled" THEN p.op ELSE 0
           x == Install(n, p)
<1>1. /\ n \in Node /\ v \in Vid /\ x \in [Vid -> Row] /\ p.op \in 1 .. MaxOps
      /\ x[v].lm \in Nat \ {0} /\ ~x[v].tomb
      /\ \A w \in Vid \ {v} : Carried(x[w], rows[n][w]) \/ Absent(x[w])
      /\ vers[n].state # "unversioned" => \A w \in Vid \ {v} : SameBody(x[w], rows[n][w])
  BY InstallRows DEF Carried
<1>2. /\ rows' = [rows EXCEPT ![n] = x] /\ puts' = puts \ {p}
      /\ calls' = calls \cup Send(p.op, n, v, rows'[n][v])
      /\ kept' = IF v # 0 THEN kept \cup {[vid |-> v, node |-> n]} ELSE kept
      /\ UNCHANGED <<vers, ops, reqs>> /\ rows'[n] = x
  BY <1>1 DEF PutCommit, TInv, TypeOK
<1>3. /\ v = 0 \/ (v = p.op /\ vers[n].state # "unversioned" /\ v # 0)
      /\ vers[n].state = "unversioned" => v = 0
  BY <1>1
<1>4. x[v] \in Row /\ Exists(x[v])
  BY <1>1 DEF Exists
<1> HIDE DEF n, v, x
<1>5. \A c \in Send(p.op, n, v, x[v]) : c.vid = v /\ c.row = x[v]
  BY <1>1, <1>4, SendCalls
<1>6. Blank'
  BY <1>1, <1>2, <1>4, BlankStep DEF KInv
<1>7. \A w \in Vid : Used(w)' => Used(w) \/ w \in {v}
  <2>1. \A w \in Vid : Exists(x[w]) => Used(w) \/ w \in {v}
    BY <1>1 DEF Carried, SameBody, Exists, Absent, Used
  <2>2. \A c \in calls' : Used(c.vid) \/ c.vid \in {v}
    BY <1>2, <1>5 DEF Used
  <2>3. \A k \in kept' : Used(k.vid) \/ k.vid \in {v}
    BY <1>2 DEF Used
  <2>4. \A d \in reqs' : Used(d.vid) \/ d.vid \in {v}
    BY <1>2 DEF Used
  <2> QED
    BY <1>1, <1>2, <2>1, <2>2, <2>3, <2>4, UsedStep
<1>8. Together' /\ Fresh'
  <2>1. p.op \in Nat /\ p.op <= ops /\ ops \in Nat /\ \A q \in puts : q.op \in Nat \ {0}
    BY Numbers DEF KInv, Fresh
  <2>2. v <= ops
    BY <1>3, <2>1
  <2>3. \A q \in puts' : q.op # v
    BY <1>2, <1>3, <2>1 DEF KInv, Fresh
  <2>4. {v} \subseteq Vid /\ puts' \subseteq puts /\ ops' \in Nat /\ ops <= ops' /\ vers' = vers
    BY <1>1, <1>2, <2>1
  <2>5. v = 0 \/ \E m \in Node : vers[m].state # "unversioned"
    BY <1>1, <1>3
  <2> QED
    BY <1>2, <1>7, <2>2, <2>3, <2>4, <2>5, FreshStep DEF KInv
<1>9. Safe'
  <2>1. \A w \in Vid : Used(w) => \A q \in puts : q.op # w
    BY DEF KInv, Fresh
  <2>2. ASSUME NEW k \in kept PROVE Guarded(k)'
    <3>1. k.vid \in Vid /\ Used(k.vid) /\ Guarded(k) /\ k.vid # 0
      BY Numbers DEF Used, KInv, Safe, Guarded
    <3>2. k.vid # v
      BY <1>3, <2>1, <3>1
    <3>3. vers[n].state # "unversioned"
      BY <1>1, <3>1 DEF KInv, Together
    <3>4. SameBody(x[k.vid], rows[n][k.vid])
      BY <1>1, <3>1, <3>2, <3>3
    <3>5. ~x[k.vid].tomb /\ (Exists(rows[n][k.vid]) => Exists(x[k.vid]))
      BY <1>1, <3>1, <3>4 DEF SameBody, Exists, Guarded
    <3>6. \A c \in calls' : c.vid = k.vid => c \in calls
      BY <1>2, <1>5, <3>2
    <3> QED
      BY <1>1, <1>2, <3>1, <3>5, <3>6, GuardedStep
  <2>3. ASSUME v # 0, NEW k, k = [vid |-> v, node |-> n] PROVE Guarded(k)'
    <3>1. k.vid = v /\ k.node = n /\ v \in Vid /\ ~Used(v)
      BY <1>1, <1>3, <2>1, <2>3
    <3>2. /\ \A m \in Node : ~Exists(rows[m][v])
          /\ \A c \in calls : c.vid # v
          /\ \A d \in reqs : d.vid # v
      BY <3>1 DEF Used
    <3>3. \A m \in Node : ~rows[m][v].tomb
      BY <3>1, <3>2 DEF KInv, Blank, Absent
    <3>4. \A m \in Node : rows'[m] = IF m = n THEN x ELSE rows[m]
      BY <1>2 DEF TInv, TypeOK
    <3>5. Exists(rows'[n][v]) /\ \A m \in Node : ~rows'[m][v].tomb
      BY <1>1, <1>4, <3>3, <3>4
    <3>6. \A c \in calls' : c.vid = v => Exists(c.row) /\ ~c.row.tomb
      BY <1>1, <1>2, <1>4, <1>5, <3>2
    <3>7. \A d \in reqs' : d.vid # v
      BY <1>2, <3>2
    <3> QED
      BY <2>3, <3>1, <3>5, <3>6, <3>7 DEF Guarded, Exists
  <2>4. \A k \in kept' : k \in kept \/ (v # 0 /\ k = [vid |-> v, node |-> n])
    BY <1>2
  <2> QED
    BY <2>2, <2>3, <2>4 DEF Safe
<1> QED
  BY <1>6, <1>8, <1>9 DEF KInv

LEMMA DeleteKept ==
  ASSUME TInv, KInv, NEW n \in Node, Delete(n)
  PROVE  KInv'
<1> DEFINE u == IF vers[n].state = "enabled" THEN ops + 1 ELSE 0
           x == DeleteLatest(n)
<1>1. /\ ops < MaxOps /\ ops' = ops + 1 /\ rows' = [rows EXCEPT ![n] = x]
      /\ UNCHANGED <<vers, puts, calls, kept>>
  BY DEF Delete
<1>2. /\ u \in Vid /\ x \in [Vid -> Row] /\ ops + 1 \in 1 .. MaxOps
      /\ vers[n].state # "unversioned" =>
           /\ Exists(x[u]) /\ ~x[u].tomb
           /\ \A w \in Vid \ {u} : Carried(x[w], rows[n][w])
      /\ vers[n].state = "unversioned" =>
           \/ x = rows[n]
           \/ \A w \in Vid : Absent(x[w]) \/ (Exists(rows[n][w]) /\ Exists(x[w]))
  <2>1. /\ u \in Vid /\ x \in [Vid -> Row] /\ ops + 1 \in 1 .. MaxOps /\ Now(n) \in Nat \ {0}
    BY <1>1, DeleteRows
  <2>2. vers[n].state # "unversioned" =>
          /\ x[u].lm = Now(n) /\ ~x[u].tomb
          /\ \A w \in Vid \ {u} : Carried(x[w], rows[n][w])
    BY <1>1, DeleteRows DEF Carried
  <2>3. vers[n].state = "unversioned" =>
           \/ x = rows[n]
           \/ \A w \in Vid : Absent(x[w]) \/ (Exists(rows[n][w]) /\ x[w].lm = Now(n))
    BY <1>1, DeleteRows
  <2> HIDE DEF u, x
  <2> QED
    BY <2>1, <2>2, <2>3 DEF Exists
<1>3. \A d \in reqs' : d \in reqs \/ d.vid \in Returned(n)
  BY DEF Delete
<1>4. \A w \in Vid : rows[n][w].latest => Exists(rows[n][w])
  BY DEF KInv, Blank, Absent
<1>5. \A w \in Returned(n) : w = u \/ (w \in Vid /\ Exists(rows[n][w]))
  BY <1>4 DEF Returned, Latest, Live
<1>6. u = 0 \/ (u = ops + 1 /\ vers[n].state # "unversioned")
  OBVIOUS
<1> HIDE DEF u, x
<1>7. \A w \in Vid : Carried(rows[n][w], rows[n][w])
  BY DEF Carried, SameBody
<1>8. Blank'
  <2>1. \A w \in Vid : Carried(x[w], rows[n][w]) \/ Absent(x[w]) \/ Exists(x[w])
    BY <1>2, <1>7
  <2> QED
    BY <1>1, <1>2, <2>1, BlankStep DEF KInv
<1>9. \A w \in Vid : Used(w)' => Used(w) \/ w \in {u}
  <2>1. \A w \in Vid : Exists(rows[n][w]) => Used(w)
    BY DEF Used
  <2>2. \A w \in Vid : Exists(x[w]) => Exists(rows[n][w]) \/ w \in {u}
    BY <1>2 DEF Carried, SameBody, Exists, Absent
  <2>3. \A d \in reqs' : Used(d.vid) \/ d.vid \in {u}
    BY <1>3, <1>5, <2>1 DEF Used
  <2>4. \A c \in calls' : Used(c.vid) \/ c.vid \in {u}
    BY <1>1 DEF Used
  <2>5. \A k \in kept' : Used(k.vid) \/ k.vid \in {u}
    BY <1>1 DEF Used
  <2>6. \A w \in Vid : Exists(x[w]) => Used(w) \/ w \in {u}
    BY <2>1, <2>2
  <2> QED
    BY <1>1, <1>2, <2>3, <2>4, <2>5, <2>6, UsedStep
<1>10. Together' /\ Fresh'
  <2>1. ops \in Nat /\ \A p \in puts : p.op \in Nat \ {0} /\ p.op <= ops
    BY Numbers DEF KInv, Fresh
  <2>2. u <= ops'
    BY <1>1, <1>6, <2>1
  <2>3. \A p \in puts' : p.op # u
    BY <1>1, <1>6, <2>1
  <2>4. {u} \subseteq Vid /\ puts' \subseteq puts /\ ops' \in Nat /\ ops <= ops' /\ vers' = vers
    BY <1>1, <1>2, <2>1
  <2>5. u = 0 \/ \E m \in Node : vers[m].state # "unversioned"
    BY <1>6
  <2>6. \A w \in {u} : w <= ops' /\ \A p \in puts' : p.op # w
    BY <2>2, <2>3
  <2>7. \A w \in {u} : w = 0 \/ Used(w) \/ \E m \in Node : vers[m].state # "unversioned"
    BY <2>5
  <2>8. Together /\ Fresh
    BY DEF KInv
  <2> DEFINE N == {u}
  <2>9. /\ N \subseteq Vid /\ \A w \in Vid : Used(w)' => Used(w) \/ w \in N
        /\ \A w \in N : w <= ops' /\ \A p \in puts' : p.op # w
        /\ \A w \in N : w = 0 \/ Used(w) \/ \E m \in Node : vers[m].state # "unversioned"
    BY <1>9, <2>4, <2>6, <2>7
  <2> HIDE DEF N
  <2> QED
    BY <2>4, <2>8, <2>9, FreshStep
<1>11. Safe'
  <2> SUFFICES ASSUME NEW k \in kept PROVE Guarded(k)'
    BY <1>1 DEF Safe
  <2>1. k.vid \in Vid /\ Used(k.vid) /\ Guarded(k) /\ k.vid # 0
    BY Numbers DEF Used, KInv, Safe, Guarded
  <2>2. vers[n].state # "unversioned"
    BY <2>1 DEF KInv, Together
  <2>3. k.vid <= ops /\ k.vid \in Nat /\ ops \in Nat
    BY <2>1, Numbers DEF KInv, Fresh
  <2>4. k.vid # u
    BY <1>6, <2>1, <2>3
  <2>5. SameBody(x[k.vid], rows[n][k.vid])
    BY <1>2, <2>1, <2>2, <2>4 DEF Carried
  <2>6. ~x[k.vid].tomb /\ (Exists(rows[n][k.vid]) => Exists(x[k.vid]))
    BY <2>1, <2>5 DEF SameBody, Exists, Guarded
  <2>7. \A d \in reqs' : d \in reqs \/ d.vid = u \/ d.vid = 0
    BY <1>3, <2>2 DEF Returned, u
  <2> QED
    BY <1>1, <1>2, <2>1, <2>4, <2>6, <2>7, GuardedStep
<1> QED
  BY <1>8, <1>10, <1>11 DEF KInv

\* A step of node n that brings no version id into use.
LEMMA NoNewVersion ==
  ASSUME TInv, KInv, NEW n \in Node, NEW x \in [Vid -> Row], rows' = [rows EXCEPT ![n] = x],
         vers' = vers, puts' = puts, kept' \subseteq kept, ops' \in Nat, ops <= ops',
         \A w \in Vid : Carried(x[w], rows[n][w]) \/ Absent(x[w]) \/ (Exists(x[w]) /\ Used(w)),
         \A c \in calls' : Used(c.vid),
         \A d \in reqs' : Used(d.vid),
         \A k \in kept' :
           /\ ~x[k.vid].tomb /\ (Exists(rows[n][k.vid]) => Exists(x[k.vid]))
           /\ \A c \in calls' : c.vid = k.vid => c \in calls \/ (Exists(c.row) /\ ~c.row.tomb)
           /\ \A d \in reqs' : d.vid = k.vid => \E e \in reqs : e.vid = d.vid
  PROVE  KInv'
<1> DEFINE N == Vid \ Vid
<1>1. N \subseteq Vid /\ \A v \in N : FALSE
  OBVIOUS
<1> HIDE DEF N
<1>2. Blank'
  BY BlankStep DEF KInv
<1>3. \A v \in Vid : Used(v)' => Used(v) \/ v \in N
  <2>1. \A w \in Vid : Exists(rows[n][w]) => Used(w)
    BY DEF Used
  <2>2. \A w \in Vid : Exists(x[w]) => Used(w) \/ w \in N
    BY <2>1 DEF Carried, SameBody, Absent, Exists
  <2>3. \A k \in kept' : Used(k.vid) \/ k.vid \in N
    BY DEF Used
  <2> QED
    BY <2>2, <2>3, UsedStep
<1>4. Together' /\ Fresh'
  <2>1. /\ puts' \subseteq puts
        /\ \A v \in N : v <= ops' /\ \A p \in puts' : p.op # v
        /\ \A v \in N : v = 0 \/ Used(v) \/ \E m \in Node : vers[m].state # "unversioned"
    BY <1>1
  <2>2. Together /\ Fresh
    BY DEF KInv
  <2> QED
    BY <1>1, <1>3, <2>1, <2>2, FreshStep
<1>5. Safe'
  <2> SUFFICES ASSUME NEW k \in kept' PROVE Guarded(k)'
    BY DEF Safe
  <2>1. k \in kept /\ Guarded(k)
    BY DEF KInv, Safe
  <2> QED
    BY <2>1, GuardedStep
<1> QED
  BY <1>2, <1>4, <1>5 DEF KInv

\* The rows stay as they are.
LEMMA RowsStayKept ==
  ASSUME TInv, KInv, UNCHANGED <<rows, vers, ops, puts, kept>>, NEW n \in Node,
         \A c \in calls' : c \in calls \/ Used(c.vid),
         \A d \in reqs' : \E e \in reqs : e.vid = d.vid,
         \A c \in calls' \ calls, k \in kept :
           c.vid = k.vid => Exists(c.row) /\ ~c.row.tomb
  PROVE  KInv'
<1> DEFINE x == rows[n]
<1>1. rows' = [rows EXCEPT ![n] = x] /\ x \in [Vid -> Row]
  BY DEF TInv, TypeOK
<1>2. \A w \in Vid : Carried(x[w], rows[n][w])
  BY DEF Carried, SameBody
<1>3. (\A c \in calls' : Used(c.vid)) /\ \A d \in reqs' : Used(d.vid)
  BY DEF Used
<1>4. \A k \in kept' :
        /\ ~x[k.vid].tomb /\ (Exists(rows[n][k.vid]) => Exists(x[k.vid]))
        /\ \A c \in calls' : c.vid = k.vid => c \in calls \/ (Exists(c.row) /\ ~c.row.tomb)
        /\ \A d \in reqs' : d.vid = k.vid => \E e \in reqs : e.vid = d.vid
  BY DEF KInv, Safe, Guarded
<1>5. ops' \in Nat /\ ops <= ops'
  BY Numbers
<1> HIDE DEF x
<1> QED
  BY <1>1, <1>2, <1>3, <1>4, <1>5, NoNewVersion

LEMMA DeleteFanOutKept ==
  ASSUME TInv, KInv, NEW d \in reqs, DeleteFanOut(d)
  PROVE  KInv'
<1>1. UNCHANGED <<rows, vers, ops, puts, kept>>
  BY DEF DeleteFanOut
<1>2. /\ d.node \in Node /\ d.vid \in Vid
      /\ \A c \in calls' : \/ c \in calls
                           \/ c.vid = d.vid /\ c.row = NoRow
                           \/ c.vid \in Latest(d.node) /\ c.row = rows[d.node][c.vid]
  BY FanOutCalls
<1>3. \A w \in Latest(d.node) : w \in Vid /\ Exists(rows[d.node][w]) /\ Used(w)
  BY <1>2 DEF KInv, Blank, Absent, Latest, Used
<1>4. \A c \in calls' : c \in calls \/ Used(c.vid)
  BY <1>2, <1>3 DEF Used
<1>5. \A e \in reqs' : \E f \in reqs : f.vid = e.vid
  <2>1. d \in [id : 1 .. MaxOps, node : Node, vid : Vid, lm : Nat, sent : BOOLEAN]
    BY DEF TInv
  <2>2. [d EXCEPT !.sent = TRUE].vid = d.vid
    BY <2>1
  <2>3. reqs' = (reqs \ {d}) \cup {[d EXCEPT !.sent = TRUE]}
    BY DEF DeleteFanOut
  <2> QED
    BY <2>2, <2>3
<1>6. \A c \in calls' \ calls, k \in kept : c.vid = k.vid => Exists(c.row) /\ ~c.row.tomb
  BY <1>2, <1>3 DEF KInv, Safe, Guarded
<1> QED
  BY <1>1, <1>2, <1>4, <1>5, <1>6, RowsStayKept

LEMMA DeleteVersionKept ==
  ASSUME TInv, KInv, NEW n \in Node, NEW v \in Vid, DeleteVersion(n, v)
  PROVE  KInv'
<1> DEFINE x == Dropped(n, v, Clustered)
<1>1. rows' = [rows EXCEPT ![n] = x] /\ ops < MaxOps /\ Live(rows[n][v])
  BY DeleteVersionIs
<1>2. /\ x \in [Vid -> Row] /\ Now(n) \in Nat \ {0}
      /\ \A w \in Vid \ {v} : Carried(x[w], rows[n][w])
      /\ Absent(x[v]) \/ x[v].lm = Now(n)
  BY DroppedRows, BucketAssumption DEF Carried
<1> HIDE DEF x
<1>3. Used(v)
  BY <1>1 DEF Used, Live
<1>4. /\ UNCHANGED <<vers, puts>> /\ kept' = {k \in kept : k.vid # v} /\ ops' = ops + 1
      /\ calls' = calls \cup Send(ops + 1, n, v, NoRow)
      /\ reqs' = reqs \cup {[id |-> ops + 1, node |-> n, vid |-> v, lm |-> Now(n), sent |-> TRUE]}
  BY DEF DeleteVersion
<1>5. ops \in Nat /\ ops + 1 \in 1 .. MaxOps
  BY <1>1, Numbers
<1>6. \A c \in Send(ops + 1, n, v, NoRow) : c.vid = v
  BY <1>5, SendCalls, NoRowIsAbsent
<1>7. \A w \in Vid : Carried(x[w], rows[n][w]) \/ Absent(x[w]) \/ (Exists(x[w]) /\ Used(w))
  BY <1>2, <1>3 DEF Exists
<1>8. (\A c \in calls' : c \in calls \/ c.vid = v) /\ (\A d \in reqs' : d \in reqs \/ d.vid = v)
  BY <1>4, <1>6
<1>9. (\A c \in calls' : Used(c.vid)) /\ (\A d \in reqs' : Used(d.vid))
  BY <1>3, <1>8 DEF Used
<1>10. ASSUME NEW k \in kept'
       PROVE  /\ ~x[k.vid].tomb /\ (Exists(rows[n][k.vid]) => Exists(x[k.vid]))
              /\ \A c \in calls' : c.vid = k.vid => c \in calls \/ (Exists(c.row) /\ ~c.row.tomb)
              /\ \A d \in reqs' : d.vid = k.vid => \E e \in reqs : e.vid = d.vid
  <2>1. k \in kept /\ k.vid # v /\ k.vid \in Vid /\ ~rows[n][k.vid].tomb
    BY <1>4, Numbers DEF KInv, Safe, Guarded
  <2>2. SameBody(x[k.vid], rows[n][k.vid])
    BY <1>2, <2>1 DEF Carried
  <2>3. ~x[k.vid].tomb /\ (Exists(rows[n][k.vid]) => Exists(x[k.vid]))
    BY <1>2, <2>1, <2>2 DEF SameBody, Exists
  <2> QED
    BY <1>8, <2>1, <2>3
<1>11. ops' \in Nat /\ ops <= ops' /\ kept' \subseteq kept
  BY <1>4, <1>5
<1> QED
  BY <1>1, <1>2, <1>4, <1>7, <1>9, <1>10, <1>11, NoNewVersion

\* A row of version v that exists comes from a peer.
LEMMA AppliedKept ==
  ASSUME TInv, KInv, NEW n \in Node, NEW v \in Vid, NEW r \in Row, Exists(r), Used(v),
         \A k \in kept : k.vid = v => ~r.tomb,
         rows' = [rows EXCEPT ![n] = Applied(n, v, r)],
         UNCHANGED <<vers, puts, ops, kept, reqs>>, calls' \subseteq calls
  PROVE  KInv'
<1> DEFINE x == Applied(n, v, r)
<1>1. /\ x \in [Vid -> Row]
      /\ \A w \in Vid : w # v \/ ~Wins(r, rows[n][v]) => Carried(x[w], rows[n][w])
      /\ Wins(r, rows[n][v]) => x[v].lm = r.lm /\ x[v].tomb = r.tomb
  BY AppliedRows DEF Carried
<1>2. rows' = [rows EXCEPT ![n] = x]
  OBVIOUS
<1> HIDE DEF x
<1>3. \A w \in Vid : Carried(x[w], rows[n][w]) \/ (w = v /\ Exists(x[w]) /\ x[w].tomb = r.tomb)
  BY <1>1 DEF Exists
<1>4. \A w \in Vid : Carried(x[w], rows[n][w]) \/ Absent(x[w]) \/ (Exists(x[w]) /\ Used(w))
  BY <1>3
<1>5. (\A c \in calls' : Used(c.vid)) /\ (\A d \in reqs' : Used(d.vid))
  BY DEF Used
<1>6. ASSUME NEW k \in kept'
      PROVE  /\ ~x[k.vid].tomb /\ (Exists(rows[n][k.vid]) => Exists(x[k.vid]))
             /\ \A c \in calls' : c.vid = k.vid => c \in calls \/ (Exists(c.row) /\ ~c.row.tomb)
             /\ \A d \in reqs' : d.vid = k.vid => \E e \in reqs : e.vid = d.vid
  <2>1. k \in kept /\ k.vid \in Vid /\ ~rows[n][k.vid].tomb
    BY Numbers DEF KInv, Safe, Guarded
  <2>2. CASE Carried(x[k.vid], rows[n][k.vid])
    <3>1. ~x[k.vid].tomb /\ (Exists(rows[n][k.vid]) => Exists(x[k.vid]))
      BY <2>1, <2>2 DEF Carried, SameBody, Exists
    <3> QED
      BY <3>1
  <2>3. CASE ~Carried(x[k.vid], rows[n][k.vid])
    <3>1. ~x[k.vid].tomb /\ Exists(x[k.vid])
      BY <1>3, <2>1, <2>3
    <3> QED
      BY <3>1
  <2> QED
    BY <2>2, <2>3
<1>7. ops' \in Nat /\ ops <= ops' /\ kept' \subseteq kept
  BY Numbers
<1> QED
  BY <1>1, <1>2, <1>4, <1>5, <1>6, <1>7, NoNewVersion

LEMMA PullKept ==
  ASSUME TInv, KInv, NEW d \in Node, NEW s \in Node, Pull(d, s)
  PROVE  KInv'
<1>1. PICK v \in Vid : /\ rows' = [rows EXCEPT ![d] = Applied(d, v, rows[s][v])]
                       /\ rows[s][v].seq > cursor[d][s]
  BY DEF Pull
<1>2. rows[s][v] \in Row /\ rows[s][v].seq # 0
  <2>1. rows[s][v] \in Row /\ rows[s][v].seq \in Nat /\ cursor[d][s] \in Nat
    BY Stamps DEF TInv, TypeOK
  <2> QED
    BY <1>1, <2>1
<1>3. Exists(rows[s][v]) /\ Used(v)
  BY <1>2 DEF KInv, Blank, Absent, Used
<1>4. \A k \in kept : k.vid = v => ~rows[s][v].tomb
  BY DEF KInv, Safe, Guarded
<1>5. UNCHANGED <<vers, puts, ops, kept, reqs>> /\ calls' \subseteq calls
  BY DEF Pull
<1> QED
  BY <1>1, <1>2, <1>3, <1>4, <1>5, AppliedKept

LEMMA ReceiveKept ==
  ASSUME TInv, KInv, NEW c \in calls, Receive(c)
  PROVE  KInv'
<1> DEFINE n == c.to
           r == c.row
           v == c.vid
<1>1. /\ n \in Node /\ v \in Vid /\ r \in Row
      /\ Exists(r) => rows' = [rows EXCEPT ![n] = Applied(n, v, r)]
      /\ ~Exists(r) => rows' = [rows EXCEPT ![n] = IF Live(rows[n][v])
                                   THEN Dropped(n, v, TRUE) ELSE Recompute(rows[n])]
      /\ calls' \subseteq calls
      /\ UNCHANGED <<vers, ops, puts, reqs, kept>>
  BY ReceiveIs
<1>2. Used(v) /\ \A k \in kept : k.vid = v => Exists(r) /\ ~r.tomb
  BY DEF Used, KInv, Safe, Guarded
<1> HIDE DEF n, r, v
<1>3. CASE Exists(r)
  BY <1>1, <1>2, <1>3, AppliedKept
<1>4. CASE ~Exists(r)
  <2> DEFINE x == IF Live(rows[n][v]) THEN Dropped(n, v, TRUE) ELSE Recompute(rows[n])
  <2>1. rows' = [rows EXCEPT ![n] = x]
    BY <1>1, <1>4
  <2>2. /\ x \in [Vid -> Row]
        /\ \A w \in Vid \ {v} : Carried(x[w], rows[n][w])
        /\ Carried(x[v], rows[n][v]) \/ Exists(x[v])
    <3>1. CASE Live(rows[n][v])
      <4> DEFINE y(b) == Dropped(n, v, b)
      <4>1. \A b \in BOOLEAN : b => /\ y(b) \in [Vid -> Row] /\ Now(n) \in Nat \ {0}
                                    /\ \A w \in Vid \ {v} : Carried(y(b)[w], rows[n][w])
                                    /\ y(b)[v].lm = Now(n)
        BY <1>1, DroppedRows DEF Carried
      <4>2. /\ y(TRUE) \in [Vid -> Row] /\ Now(n) \in Nat \ {0}
            /\ \A w \in Vid \ {v} : Carried(y(TRUE)[w], rows[n][w])
            /\ y(TRUE)[v].lm = Now(n)
        BY <4>1, TRUE \in BOOLEAN
      <4>3. x = y(TRUE)
        BY <3>1
      <4> HIDE DEF x, y
      <4> QED
        BY <4>2, <4>3 DEF Exists
    <3>2. CASE ~Live(rows[n][v])
      <4>1. rows[n] \in [Vid -> Row]
        BY <1>1 DEF TInv, TypeOK
      <4>2. x = Recompute(rows[n])
        BY <3>2
      <4> HIDE DEF x
      <4> QED
        BY <1>1, <4>1, <4>2, RecomputeRows DEF Carried
    <3> QED
      BY <3>1, <3>2
  <2> HIDE DEF x
  <2>3. \A w \in Vid : Carried(x[w], rows[n][w]) \/ Absent(x[w]) \/ (Exists(x[w]) /\ Used(w))
    BY <1>2, <2>2
  <2>4. (\A e \in calls' : Used(e.vid)) /\ (\A d \in reqs' : Used(d.vid))
    BY <1>1 DEF Used
  <2>5. ASSUME NEW k \in kept'
        PROVE  /\ ~x[k.vid].tomb /\ (Exists(rows[n][k.vid]) => Exists(x[k.vid]))
               /\ \A e \in calls' : e.vid = k.vid => e \in calls \/ (Exists(e.row) /\ ~e.row.tomb)
               /\ \A d \in reqs' : d.vid = k.vid => \E e \in reqs : e.vid = d.vid
    <3>1. k \in kept /\ k.vid \in Vid /\ k.vid # v /\ ~rows[n][k.vid].tomb
      BY <1>1, <1>2, <1>4, Numbers DEF KInv, Safe, Guarded
    <3>2. SameBody(x[k.vid], rows[n][k.vid])
      BY <2>2, <3>1 DEF Carried
    <3>3. ~x[k.vid].tomb /\ (Exists(rows[n][k.vid]) => Exists(x[k.vid]))
      BY <3>1, <3>2 DEF SameBody, Exists
    <3> QED
      BY <1>1, <3>3
  <2>6. ops' \in Nat /\ ops <= ops' /\ kept' \subseteq kept
    BY <1>1, Numbers
  <2> QED
    BY <1>1, <2>1, <2>2, <2>3, <2>4, <2>5, <2>6, NoNewVersion
<1> QED
  BY <1>3, <1>4

\* No node stays behind in the unversioned state, and none returns to it.
LEMMA SetVersioningKept ==
  ASSUME NoLag, TInv, KInv, NEW n \in Node, NEW s \in State, SetVersioning(n, s)
  PROVE  KInv'
<1>1. UNCHANGED <<rows, puts, ops, calls, reqs, kept>>
  BY DEF SetVersioning
<1>2. \A m \in Node : vers'[m].state # "unversioned"
  BY DEF SetVersioning, NoLag
<1> QED
  BY <1>1, <1>2 DEF KInv, Blank, Together, Fresh, Used, Safe, Guarded, Exists, Absent

LEMMA SpreadVersioningKept ==
  ASSUME TInv, KInv, NEW n \in Node, NEW m \in Node, SpreadVersioning(n, m)
  PROVE  KInv'
<1>1. UNCHANGED <<rows, puts, ops, calls, reqs, kept>>
  BY DEF SpreadVersioning
<1>2. \A i \in Node : vers'[i] = vers[i] \/ vers'[i] = vers[n]
  BY DEF SpreadVersioning, TInv, TypeOK
<1>3. \A v \in Vid : Used(v)' <=> Used(v)
  BY <1>1 DEF Used, Exists
<1>4. ASSUME NEW i \in Node, vers'[i].state = "unversioned"
      PROVE  /\ \A j \in Node : vers'[j].state = "unversioned"
             /\ \A v \in Vid : Used(v)' => v = 0
  BY <1>2, <1>3, <1>4 DEF KInv, Together
<1>5. Together'
  BY <1>4 DEF Together
<1>6. Blank' /\ Fresh' /\ Safe'
  BY <1>1, <1>3 DEF KInv, Blank, Fresh, Safe, Guarded, Exists, Absent
<1> QED
  BY <1>5, <1>6 DEF KInv

LEMMA NextKept ==
  ASSUME NoLag
  PROVE  TInv /\ KInv /\ [Next]_vars => KInv'
<1> SUFFICES ASSUME TInv, KInv, [Next]_vars PROVE KInv'
  OBVIOUS
<1>1. ASSUME NEW n \in Node, PutStamp(n) PROVE KInv'
  BY <1>1, PutStampKept
<1>2. ASSUME NEW n \in Node, Delete(n) PROVE KInv'
  BY <1>2, DeleteKept
<1>3. ASSUME NEW p \in puts, PutCommit(p) PROVE KInv'
  BY <1>3, PutCommitKept
<1>4. ASSUME NEW d \in reqs, DeleteFanOut(d) PROVE KInv'
  BY <1>4, DeleteFanOutKept
<1>5. ASSUME NEW d \in reqs, Answer(d) PROVE KInv'
  <2>1. UNCHANGED <<rows, vers, ops, puts, kept>> /\ calls' = calls /\ reqs' \subseteq reqs /\ d.node \in Node
    BY <1>5, Numbers DEF Answer
  <2> QED
    BY <2>1, RowsStayKept
<1>6. ASSUME NEW n \in Node, NEW v \in Vid, DeleteVersion(n, v) PROVE KInv'
  BY <1>6, DeleteVersionKept
<1>7. ASSUME NEW d \in Node, NEW s \in Node, Pull(d, s) PROVE KInv'
  BY <1>7, PullKept
<1>8. ASSUME NEW c \in calls, Receive(c) PROVE KInv'
  BY <1>8, ReceiveKept
<1>9. ASSUME NEW d \in Node, NEW s \in Node, SpreadVersioning(d, s) PROVE KInv'
  BY <1>9, SpreadVersioningKept
<1>10. ASSUME NEW n \in Node, NEW s \in State, SetVersioning(n, s) PROVE KInv'
  BY <1>10, SetVersioningKept
<1>11. CASE UNCHANGED vars
  BY <1>11 DEF vars, KInv, Blank, Together, Fresh, Used, Safe, Guarded, Exists, Absent
<1> QED
  BY <1>1, <1>2, <1>3, <1>4, <1>5, <1>6, <1>7, <1>8, <1>9, <1>10, <1>11 DEF Next

LEMMA KeptAlways ==
  ASSUME NoLag
  PROVE  Spec => []KInv
<1>1. Init => KInv
  BY InitKept
<1>2. TInv /\ KInv /\ [Next]_vars => KInv'
  BY NextKept
<1> QED
  BY <1>1, <1>2, TypedAlways, PTL DEF Spec

\* As long as no node treats the bucket as unversioned after another has left that
\* state, a version stays on the node that stored it until it is itself deleted:
\* whatever the clocks, the order of the fan-out calls, the lag of an enabled or
\* suspended state, and PUTs that commit late (install_object,
\* delete_latest_in_tx, apply_remote_object, receive_version_delete).
THEOREM NoVersionLost ==
  ASSUME NoLag
  PROVE  Spec => []VersionsKept
<1>1. TInv /\ KInv => VersionsKept
  BY DEF TInv, KInv, Safe, Guarded, VersionsKept, Live
<1> QED
  BY <1>1, KeptAlways, TypedAlways, PTL
-----------------------------------------------------------------------------
(* Nodes that have caught up agree. *)

\* Two rows with the same stamp and content.
Alike(r, x) == r.lm = x.lm /\ r.put = x.put /\ r.marker = x.marker /\ r.tomb = x.tomb

\* The rows of version v, stored or on the way.
Copies(v) == {rows[n][v] : n \in Node} \cup {c.row : c \in {c \in calls : c.vid = v}}

\* The stamp of a row determines its content.
StampTells ==
  \A v \in Vid : \A r, x \in Copies(v) : Exists(r) /\ r.lm = x.lm => Alike(r, x)

\* The stamp of a PUT under way is nobody else's.
StampIsOwn ==
  /\ \A p \in puts, v \in Vid : \A r \in Copies(v) : r.lm # p.lm
  /\ \A p, q \in puts : p.lm = q.lm => p = q

\* No two rows of a node have the same sequence number.
SeqsDiffer ==
  \A n \in Node, v, w \in Vid :
    Exists(rows[n][v]) /\ Exists(rows[n][w]) /\ rows[n][v].seq = rows[n][w].seq => v = w

\* What d has read of s, it has, or something newer.
ReadIsHeld ==
  \A d, s \in Node, v \in Vid :
    rows[s][v].seq <= cursor[d][s] => rows[s][v].lm <= rows[d][v].lm

AInv == StampTells /\ StampIsOwn /\ SeqsDiffer /\ ReadIsHeld

\* At most row u of the rows x of node n is not carried over; it is then newer than
\* the one before, and the last one of the manifest.
Moves(n, u, x) ==
  /\ x \in [Vid -> Row]
  /\ \A w \in Vid \ {u} : Carried(x[w], rows[n][w])
  /\ Carried(x[u], rows[n][u]) \/ (x[u].seq = seq[n] + 1 /\ rows[n][u].lm < x[u].lm)

\* A row of version u is a copy of one there was, or its stamp is new.
Origin(u, y, ps) ==
  \/ \E z \in Copies(u) : Alike(y, z)
  \/ (\A z \in Copies(u) : z.lm # y.lm) /\ \A p \in ps : p.lm # y.lm

LEMMA RowNumbers ==
  ASSUME TInv, NEW n \in Node
  PROVE  /\ seq[n] \in Nat /\ rows[n] \in [Vid -> Row]
         /\ \A w \in Vid : /\ rows[n][w].seq \in Nat /\ rows[n][w].seq <= seq[n]
                           /\ rows[n][w].lm \in Nat
BY Stamps DEF TInv, TypeOK

LEMMA SeqsStep ==
  ASSUME TInv, SeqsDiffer, NEW n \in Node, NEW u \in Vid, NEW x, Moves(n, u, x),
         rows' = [rows EXCEPT ![n] = x]
  PROVE  SeqsDiffer'
<1>1. \A m \in Node : rows'[m] = IF m = n THEN x ELSE rows[m]
  BY DEF TInv, TypeOK
<1>2. \A w \in Vid : \/ x[w].seq = rows[n][w].seq /\ (Exists(x[w]) <=> Exists(rows[n][w]))
                     \/ w = u /\ x[w].seq = seq[n] + 1
  BY DEF Moves, Carried, SameBody, Exists
<1>3. seq[n] \in Nat /\ \A w \in Vid : rows[n][w].seq \in Nat /\ rows[n][w].seq <= seq[n]
  BY RowNumbers
<1>4. \A w \in Vid : rows[n][w].seq # seq[n] + 1
  BY <1>3
<1>5. \A v, w \in Vid : Exists(x[v]) /\ Exists(x[w]) /\ x[v].seq = x[w].seq => v = w
  BY <1>2, <1>4 DEF SeqsDiffer
<1>6. \A m \in Node, v, w \in Vid :
        Exists(rows'[m][v]) /\ Exists(rows'[m][w]) /\ rows'[m][v].seq = rows'[m][w].seq => v = w
  BY <1>1, <1>5 DEF SeqsDiffer
<1> QED
  BY <1>6 DEF SeqsDiffer, Exists

\* What has been read is held, if it is of the rows there were.
LEMMA ReadStep ==
  ASSUME TInv, NEW n \in Node, NEW u \in Vid, NEW x, Moves(n, u, x),
         rows' = [rows EXCEPT ![n] = x],
         \A d, s \in Node : cursor'[d][s] \in Nat /\ cursor'[d][s] <= seq[s],
         \A d, s \in Node, v \in Vid :
           rows[s][v].seq <= cursor'[d][s] => rows[s][v].lm <= rows'[d][v].lm
  PROVE  ReadIsHeld'
<1>1. \A m \in Node : rows'[m] = IF m = n THEN x ELSE rows[m]
  BY DEF TInv, TypeOK
<1>2. \A w \in Vid : \/ x[w].seq = rows[n][w].seq /\ x[w].lm = rows[n][w].lm
                     \/ w = u /\ x[w].seq = seq[n] + 1
  BY DEF Moves, Carried, SameBody
<1> SUFFICES ASSUME NEW d \in Node, NEW s \in Node, NEW v \in Vid,
                    rows'[s][v].seq <= cursor'[d][s]
             PROVE  rows'[s][v].lm <= rows'[d][v].lm
  BY DEF ReadIsHeld
<1>3. CASE s # n
  BY <1>1, <1>3
<1>4. CASE s = n
  <2>1. seq[n] \in Nat /\ cursor'[d][n] \in Nat /\ cursor'[d][n] <= seq[n]
    BY RowNumbers
  <2>2. x[v].seq <= cursor'[d][n] /\ rows'[s] = x
    BY <1>1, <1>4
  <2>3. x[v].seq # seq[n] + 1
    BY <2>1, <2>2
  <2>4. x[v].seq = rows[n][v].seq /\ x[v].lm = rows[n][v].lm
    BY <1>2, <2>3
  <2>5. rows[n][v].lm <= rows'[d][v].lm
    BY <2>2, <2>4
  <2> QED
    BY <2>2, <2>4, <2>5
<1> QED
  BY <1>3, <1>4

LEMMA CursorStays ==
  ASSUME TInv, ReadIsHeld, NEW n \in Node, NEW u \in Vid, NEW x, Moves(n, u, x),
         rows' = [rows EXCEPT ![n] = x], cursor' = cursor
  PROVE  /\ \A d, s \in Node : cursor'[d][s] \in Nat /\ cursor'[d][s] <= seq[s]
         /\ \A d, s \in Node, v \in Vid :
              rows[s][v].seq <= cursor'[d][s] => rows[s][v].lm <= rows'[d][v].lm
<1>1. \A m \in Node : rows'[m] = IF m = n THEN x ELSE rows[m]
  BY DEF TInv, TypeOK
<1>2. \A w \in Vid : x[w].lm = rows[n][w].lm \/ rows[n][w].lm < x[w].lm
  BY DEF Moves, Carried, SameBody
<1>3. \A w \in Vid : x[w].lm \in Nat
  BY DEF Moves, Row
<1>4. \A m \in Node, w \in Vid : rows[m][w].lm \in Nat
  BY RowNumbers
<1>5. \A m \in Node, w \in Vid : rows'[m][w].lm \in Nat /\ rows[m][w].lm <= rows'[m][w].lm
  BY <1>1, <1>2, <1>3, <1>4
<1>6. \A d, s \in Node, v \in Vid : rows[s][v].seq <= cursor[d][s] => rows[s][v].lm <= rows[d][v].lm
  BY DEF ReadIsHeld
<1>7. \A d, s \in Node, v \in Vid :
              rows[s][v].seq <= cursor'[d][s] => rows[s][v].lm <= rows'[d][v].lm
  BY <1>4, <1>5, <1>6
<1>8. \A d, s \in Node : cursor'[d][s] \in Nat /\ cursor'[d][s] <= seq[s]
  BY DEF TInv, TypeOK
<1> QED
  BY <1>7, <1>8

\* Where the copies of a version come from.
LEMMA CopiesStep ==
  ASSUME TInv, NEW n \in Node, NEW u \in Vid, NEW x, Moves(n, u, x),
         rows' = [rows EXCEPT ![n] = x],
         \A c \in calls' : \/ c \in calls \/ ~Exists(c.row)
                           \/ \E m \in Node : c.vid \in Vid /\ c.row = rows'[m][c.vid]
  PROVE  \A v \in Vid : \A r \in Copies(v)' :
           (\E z \in Copies(v) : Alike(r, z)) \/ (v = u /\ Alike(r, x[u])) \/ ~Exists(r)
<1>1. \A m \in Node : rows'[m] = IF m = n THEN x ELSE rows[m]
  BY DEF TInv, TypeOK
<1>2. \A w \in Vid : w = u \/ Alike(x[w], rows[n][w])
  BY DEF Moves, Carried, SameBody, Alike
<1>3. \A r : Alike(r, r)
  BY DEF Alike
<1>4. \A w \in Vid : \A m \in Node : rows[m][w] \in Copies(w)
  BY DEF Copies
<1>5. \A w \in Vid, m \in Node :
        (\E z \in Copies(w) : Alike(rows'[m][w], z)) \/ (w = u /\ Alike(rows'[m][w], x[u]))
  BY <1>1, <1>2, <1>3, <1>4
<1>6. \A w \in Vid : \A c \in calls : c.vid = w => c.row \in Copies(w)
  BY DEF Copies
<1> SUFFICES ASSUME NEW v \in Vid, NEW r \in Copies(v)'
             PROVE  (\E z \in Copies(v) : Alike(r, z)) \/ (v = u /\ Alike(r, x[u])) \/ ~Exists(r)
  OBVIOUS
<1>7. (\E m \in Node : r = rows'[m][v]) \/ (\E c \in calls' : c.vid = v /\ r = c.row)
  BY DEF Copies
<1>8. CASE \E m \in Node : r = rows'[m][v]
  BY <1>5, <1>8
<1>9. CASE \E c \in calls' : c.vid = v /\ r = c.row
  <2> PICK c \in calls' : c.vid = v /\ r = c.row
    BY <1>9
  <2> QED
    BY <1>3, <1>5, <1>6
<1> QED
  BY <1>7, <1>8, <1>9

LEMMA TellsStep ==
  ASSUME StampTells, NEW u \in Vid, NEW y, NEW ps, Origin(u, y, ps),
         \A v \in Vid : \A r \in Copies(v)' :
           (\E z \in Copies(v) : Alike(r, z)) \/ (v = u /\ Alike(r, y)) \/ ~Exists(r)
  PROVE  StampTells'
<1> SUFFICES ASSUME NEW v \in Vid, NEW r \in Copies(v)', NEW s \in Copies(v)',
                    Exists(r), r.lm = s.lm
             PROVE  Alike(r, s)
  BY DEF StampTells, Exists, Alike
<1>1. Exists(s)
  BY DEF Exists
<1>2. /\ (\E z \in Copies(v) : Alike(r, z)) \/ (v = u /\ Alike(r, y))
      /\ (\E z \in Copies(v) : Alike(s, z)) \/ (v = u /\ Alike(s, y))
  BY <1>1
<1>3. \A a, b \in Copies(v) : Exists(a) /\ a.lm = b.lm => Alike(a, b)
  BY DEF StampTells
<1>4. v = u /\ Exists(y) => \A z \in Copies(u) : z.lm = y.lm => Alike(y, z)
  <2> SUFFICES ASSUME v = u, Exists(y), NEW z \in Copies(u), z.lm = y.lm PROVE Alike(y, z)
    OBVIOUS
  <2>1. PICK w \in Copies(u) : Alike(y, w)
    BY DEF Origin
  <2>2. Alike(w, z)
    BY <1>3, <2>1 DEF Alike, Exists
  <2> QED
    BY <2>1, <2>2 DEF Alike
<1>5. CASE \E z \in Copies(v) : Alike(r, z)
  <2>1. PICK a \in Copies(v) : Alike(r, a)
    BY <1>5
  <2>2. CASE \E z \in Copies(v) : Alike(s, z)
    <3>1. PICK b \in Copies(v) : Alike(s, b)
      BY <2>2
    <3>2. Exists(a) /\ a.lm = b.lm
      BY <2>1, <3>1 DEF Alike, Exists
    <3>3. Alike(a, b)
      BY <1>3, <3>2
    <3> QED
      BY <2>1, <3>1, <3>3 DEF Alike
  <2>3. CASE v = u /\ Alike(s, y)
    BY <1>1, <1>4, <2>1, <2>3 DEF Alike, Exists
  <2> QED
    BY <1>2, <2>2, <2>3
<1>6. CASE v = u /\ Alike(r, y)
  <2>1. CASE \E z \in Copies(v) : Alike(s, z)
    BY <1>4, <1>6, <2>1 DEF Alike, Exists
  <2>2. CASE v = u /\ Alike(s, y)
    BY <1>6, <2>2 DEF Alike
  <2> QED
    BY <1>2, <2>1, <2>2
<1> QED
  BY <1>2, <1>5, <1>6

LEMMA OwnStep ==
  ASSUME TInv, StampIsOwn, NEW u \in Vid, NEW y, Origin(u, y, puts'), puts' \subseteq puts,
         \A v \in Vid : \A r \in Copies(v)' :
           (\E z \in Copies(v) : Alike(r, z)) \/ (v = u /\ Alike(r, y)) \/ ~Exists(r)
  PROVE  StampIsOwn'
<1>1. \A p \in puts, v \in Vid : \A r \in Copies(v) : r.lm # p.lm
  BY DEF StampIsOwn
<1>2. \A p \in puts' : p.lm # y.lm
  BY <1>1 DEF Origin, Alike
<1>3. \A p \in puts' : p.lm # 0
  BY Stamps
<1>4. \A p \in puts', v \in Vid : \A r \in Copies(v)' : r.lm # p.lm
  <2> SUFFICES ASSUME NEW p \in puts', NEW v \in Vid, NEW r \in Copies(v)' PROVE r.lm # p.lm
    OBVIOUS
  <2>1. p \in puts
    OBVIOUS
  <2> QED
    BY <1>1, <1>2, <1>3, <2>1 DEF Alike, Exists
<1>5. \A p, q \in puts' : p.lm = q.lm => p = q
  BY DEF StampIsOwn
<1> QED
  BY <1>4, <1>5 DEF StampIsOwn

LEMMA AgreeStep ==
  ASSUME TInv, AInv, NEW n \in Node, NEW u \in Vid, NEW x, Moves(n, u, x),
         rows' = [rows EXCEPT ![n] = x], Origin(u, x[u], puts'), puts' \subseteq puts,
         \A c \in calls' : \/ c \in calls \/ ~Exists(c.row)
                           \/ \E m \in Node : c.vid \in Vid /\ c.row = rows'[m][c.vid],
         \A d, s \in Node : cursor'[d][s] \in Nat /\ cursor'[d][s] <= seq[s],
         \A d, s \in Node, v \in Vid :
           rows[s][v].seq <= cursor'[d][s] => rows[s][v].lm <= rows'[d][v].lm
  PROVE  AInv'
<1>1. SeqsDiffer'
  BY SeqsStep DEF AInv
<1>2. ReadIsHeld'
  BY ReadStep
<1>3. \A v \in Vid : \A r \in Copies(v)' :
           (\E z \in Copies(v) : Alike(r, z)) \/ (v = u /\ Alike(r, x[u])) \/ ~Exists(r)
  BY CopiesStep
<1>4. StampTells'
  BY <1>3, TellsStep DEF AInv
<1>5. StampIsOwn'
  BY <1>3, OwnStep DEF AInv
<1> QED
  BY <1>1, <1>2, <1>4, <1>5 DEF AInv

\* Nothing that the agreement is about changes.
LEMMA AgreeKept ==
  ASSUME AInv, UNCHANGED <<rows, cursor, puts, calls>>
  PROVE  AInv'
BY DEF AInv, StampTells, StampIsOwn, SeqsDiffer, ReadIsHeld, Copies, Exists, Alike

LEMMA CarriedSelf ==
  ASSUME NEW r PROVE Carried(r, r)
BY DEF Carried, SameBody

LEMMA CarriedAbsent ==
  ASSUME NEW r \in Row, NEW s \in Row, Absent(r), Absent(s) PROVE Carried(r, s)
<1>1. r = s
  BY NoRowIsAbsent
<1> QED
  BY <1>1, CarriedSelf

\* Every copy of a row is stamped before the next tick of the clock.
LEMMA CopiesPast ==
  ASSUME TInv, NInv, NEW v \in Vid
  PROVE  \A z \in Copies(v) : z.lm \in Nat /\ z.lm <= clock
BY Stamps DEF NInv, Stamped, Copies

LEMMA NowIsNew ==
  ASSUME TInv, NInv, ClocksAgree, NEW n \in Node, NEW u \in Vid, NEW y, y.lm = Now(n)
  PROVE  Origin(u, y, puts) /\ \A m \in Node : rows[m][u].lm < y.lm
<1>1. y.lm = clock + 1 /\ clock \in Nat
  BY NowIsNext, Stamps
<1>2. \A z \in Copies(u) : z.lm \in Nat /\ z.lm <= clock
  BY CopiesPast
<1>3. \A p \in puts : p.lm \in Nat /\ p.lm <= clock
  BY Stamps DEF NInv, Stamped
<1>4. \A m \in Node : rows[m][u].lm \in Nat /\ rows[m][u].lm <= clock
  BY Stamps DEF NInv, Stamped
<1> QED
  BY <1>1, <1>2, <1>3, <1>4 DEF Origin

LEMMA InitAgree == Init => AInv
<1> SUFFICES ASSUME Init PROVE AInv
  OBVIOUS
<1>1. puts = {} /\ calls = {} /\ \A n \in Node : rows[n] = [v \in Vid |-> NoRow]
  BY DEF Init
<1>2. \A n \in Node, v \in Vid : rows[n][v] = NoRow
  BY <1>1
<1>3. NoRow.lm = 0 /\ ~Exists(NoRow)
  BY DEF NoRow, Exists
<1>4. \A v \in Vid : \A r \in Copies(v) : r = NoRow
  BY <1>1, <1>2 DEF Copies
<1>5. StampTells /\ StampIsOwn
  BY <1>1, <1>3, <1>4 DEF StampTells, StampIsOwn
<1>6. SeqsDiffer /\ ReadIsHeld
  BY <1>2, <1>3 DEF SeqsDiffer, ReadIsHeld
<1> QED
  BY <1>5, <1>6 DEF AInv

LEMMA PutStampAgree ==
  ASSUME ClocksAgree, TInv, NInv, AInv, NEW n \in Node, PutStamp(n)
  PROVE  AInv'
<1> DEFINE q == [node |-> n, op |-> ops + 1, lm |-> Now(n)]
<1>1. puts' = puts \cup {q} /\ q.lm = clock + 1 /\ UNCHANGED <<rows, cursor, calls>> /\ clock \in Nat
  BY NowIsNext, Stamps DEF PutStamp
<1> HIDE DEF q
<1>2. SeqsDiffer' /\ ReadIsHeld' /\ StampTells'
  BY <1>1 DEF AInv, SeqsDiffer, ReadIsHeld, StampTells, Copies, Exists, Alike
<1>3. \A v \in Vid : Copies(v)' = Copies(v)
  BY <1>1 DEF Copies
<1>4. \A v \in Vid : \A z \in Copies(v) : z.lm \in Nat /\ z.lm <= clock
  BY CopiesPast
<1>5. \A p \in puts : p.lm \in Nat /\ p.lm <= clock
  BY Stamps DEF NInv, Stamped
<1>6. \A v \in Vid : \A z \in Copies(v) : z.lm # q.lm
  BY <1>1, <1>4
<1>7. \A p \in puts : p.lm # q.lm
  BY <1>1, <1>5
<1>8. \A p \in puts', v \in Vid : \A r \in Copies(v)' : r.lm # p.lm
  BY <1>1, <1>3, <1>6 DEF AInv, StampIsOwn
<1>9. \A p, r \in puts' : p.lm = r.lm => p = r
  BY <1>1, <1>7 DEF AInv, StampIsOwn
<1> QED
  BY <1>2, <1>8, <1>9 DEF AInv, StampIsOwn

LEMMA PutCommitAgree ==
  ASSUME ~Overlap, TInv, KInv, AInv, NEW p \in puts, PutCommit(p)
  PROVE  AInv'
<1> DEFINE n == p.node
           v == IF vers[n].state = "enabled" THEN p.op ELSE 0
           x == Install(n, p)
<1>1. /\ n \in Node /\ v \in Vid /\ x \in [Vid -> Row] /\ p.op \in 1 .. MaxOps /\ p.op \in Vid
      /\ p.lm \in Nat \ {0} /\ x[v].lm = p.lm /\ x[v].seq = seq[n] + 1
      /\ \A w \in Vid \ {v} :
           /\ vers[n].state # "unversioned" => SameBody(x[w], rows[n][w])
           /\ vers[n].state = "unversioned" \/ Absent(rows[n][w]) => Absent(x[w])
  BY InstallRows, Numbers
<1>2. /\ rows' = [rows EXCEPT ![n] = x] /\ rows'[n] = x
      /\ puts' = puts \ {p} /\ calls' = calls \cup Send(p.op, n, v, rows'[n][v])
      /\ cursor' = cursor
      /\ v # 0 \/ rows[n][0].lm < p.lm
  BY <1>1 DEF PutCommit, TInv, TypeOK
<1>3. v = 0 \/ v = p.op
  OBVIOUS
<1>4. vers[n].state = "unversioned" => v = 0
  OBVIOUS
<1> HIDE DEF n, v, x
<1>5. rows[n] \in [Vid -> Row] /\ \A w \in Vid : x[w] \in Row /\ rows[n][w] \in Row
  BY <1>1, RowNumbers
<1>6. \A w \in Vid \ {v} : Carried(x[w], rows[n][w])
  <2> TAKE w \in Vid \ {v}
  <2>1. CASE vers[n].state # "unversioned"
    BY <1>1, <2>1 DEF Carried
  <2>2. CASE vers[n].state = "unversioned"
    <3>1. ~Exists(rows[n][w])
      BY <1>1, <1>4, <2>2 DEF KInv, Together, Used
    <3>2. Absent(rows[n][w]) /\ Absent(x[w])
      BY <1>1, <2>2, <3>1 DEF KInv, Blank
    <3> QED
      BY <1>5, <3>2, CarriedAbsent
  <2> QED
    BY <2>1, <2>2
<1>7. rows[n][v].lm < x[v].lm
  <2>1. CASE v = 0
    BY <1>1, <1>2, <2>1
  <2>2. CASE v = p.op
    <3>1. ~Exists(rows[n][v])
      BY <1>1, <2>2 DEF KInv, Fresh, Used
    <3> QED
      BY <1>1, <3>1 DEF Exists
  <2> QED
    BY <1>3, <2>1, <2>2
<1>8. Moves(n, v, x)
  BY <1>1, <1>6, <1>7 DEF Moves
<1>9. Origin(v, x[v], puts')
  BY <1>1, <1>2 DEF AInv, StampIsOwn, Origin
<1>10. \A c \in calls' : c \in calls \/ \E m \in Node : c.vid \in Vid /\ c.row = rows'[m][c.vid]
  <2>1. \A c \in Send(p.op, n, v, x[v]) : c.vid = v /\ c.row = x[v]
    BY <1>1, <1>5, SendCalls
  <2> QED
    BY <1>1, <1>2, <2>1
<1>11. puts' \subseteq puts
  BY <1>2
<1>12. /\ \A d, s \in Node : cursor'[d][s] \in Nat /\ cursor'[d][s] <= seq[s]
       /\ \A d, s \in Node, w \in Vid :
            rows[s][w].seq <= cursor'[d][s] => rows[s][w].lm <= rows'[d][w].lm
  BY <1>1, <1>2, <1>8, CursorStays DEF AInv
<1> QED
  BY <1>1, <1>2, <1>8, <1>9, <1>10, <1>11, <1>12, AgreeStep

\* A step that changes no cursor, ends no PUT and stamps no call.
LEMMA LocalAgree ==
  ASSUME TInv, AInv, NEW n \in Node, NEW u \in Vid, NEW x, Moves(n, u, x),
         rows' = [rows EXCEPT ![n] = x], Origin(u, x[u], puts), puts' = puts, cursor' = cursor,
         \A c \in calls' : \/ c \in calls \/ ~Exists(c.row)
                           \/ \E m \in Node : c.vid \in Vid /\ c.row = rows'[m][c.vid]
  PROVE  AInv'
<1>1. /\ \A d, s \in Node : cursor'[d][s] \in Nat /\ cursor'[d][s] <= seq[s]
      /\ \A d, s \in Node, w \in Vid :
           rows[s][w].seq <= cursor'[d][s] => rows[s][w].lm <= rows'[d][w].lm
  BY CursorStays DEF AInv
<1>2. Origin(u, x[u], puts') /\ puts' \subseteq puts
  OBVIOUS
<1> QED
  BY <1>1, <1>2, AgreeStep

\* Row u of node n is stamped now, all others are carried over.
LEMMA NowAgree ==
  ASSUME ClocksAgree, TInv, NInv, AInv, NEW n \in Node, NEW u \in Vid, NEW x \in [Vid -> Row],
         rows' = [rows EXCEPT ![n] = x], puts' = puts, cursor' = cursor,
         \A w \in Vid \ {u} : Carried(x[w], rows[n][w]),
         Carried(x[u], rows[n][u]) \/ (x[u].lm = Now(n) /\ x[u].seq = seq[n] + 1),
         \A c \in calls' : c \in calls \/ ~Exists(c.row)
  PROVE  AInv'
<1>1. CASE Carried(x[u], rows[n][u])
  <2>1. Moves(n, u, x)
    BY <1>1 DEF Moves
  <2>2. rows[n][u] \in Copies(u) /\ Alike(x[u], rows[n][u])
    BY <1>1 DEF Copies, Alike, Carried, SameBody
  <2>3. Origin(u, x[u], puts)
    BY <2>2 DEF Origin
  <2> QED
    BY <2>1, <2>3, LocalAgree
<1>2. CASE x[u].lm = Now(n) /\ x[u].seq = seq[n] + 1
  <2>1. Origin(u, x[u], puts) /\ rows[n][u].lm < x[u].lm
    BY <1>2, NowIsNew
  <2>2. Moves(n, u, x)
    BY <1>2, <2>1 DEF Moves
  <2> QED
    BY <2>1, <2>2, LocalAgree
<1> QED
  BY <1>1, <1>2

LEMMA DeleteAgree ==
  ASSUME ClocksAgree, Clustered, TInv, NInv, KInv, AInv, NEW n \in Node, Delete(n)
  PROVE  AInv'
<1> DEFINE u == IF vers[n].state = "enabled" THEN ops + 1 ELSE 0
           x == DeleteLatest(n)
<1>1. /\ ops < MaxOps /\ rows' = [rows EXCEPT ![n] = x]
      /\ puts' = puts /\ calls' = calls /\ cursor' = cursor
  BY DEF Delete
<1>2. u \in Vid /\ x \in [Vid -> Row]
  BY <1>1, DeleteRows
<1>3. vers[n].state # "unversioned" =>
        /\ x[u].lm = Now(n) /\ x[u].seq = seq[n] + 1
        /\ \A w \in Vid \ {u} : Carried(x[w], rows[n][w])
  BY <1>1, DeleteRows DEF Carried
<1>4. vers[n].state = "unversioned" =>
        \/ x = rows[n]
        \/ \A w \in Vid : \/ Absent(x[w]) /\ ~Exists(rows[n][w])
                          \/ Exists(rows[n][w]) /\ x[w].lm = Now(n) /\ x[w].seq = seq[n] + 1
  BY <1>1, DeleteRows
<1>5. vers[n].state = "unversioned" => u = 0
  OBVIOUS
<1> HIDE DEF u, x
<1>6. CASE vers[n].state # "unversioned"
  BY <1>1, <1>2, <1>3, <1>6, NowAgree
<1>7. CASE vers[n].state = "unversioned" /\ x = rows[n]
  <2>1. \A w \in Vid : Carried(x[w], rows[n][w])
    BY <1>7, CarriedSelf
  <2> QED
    BY <1>1, <1>2, <2>1, NowAgree
<1>8. CASE vers[n].state = "unversioned" /\ x # rows[n]
  <2>1. \A w \in Vid : x[w] \in Row /\ rows[n][w] \in Row
    BY <1>2, RowNumbers
  <2>2. \A w \in Vid : Exists(rows[n][w]) => w = u
    BY <1>5, <1>8 DEF KInv, Together, Used
  <2>3. \A w \in Vid : Absent(x[w]) /\ ~Exists(rows[n][w]) => Carried(x[w], rows[n][w])
    BY <2>1, CarriedAbsent DEF KInv, Blank
  <2>4. \A w \in Vid \ {u} : Carried(x[w], rows[n][w])
    BY <1>4, <1>8, <2>2, <2>3
  <2>5. Carried(x[u], rows[n][u]) \/ (x[u].lm = Now(n) /\ x[u].seq = seq[n] + 1)
    BY <1>2, <1>4, <1>8, <2>3
  <2> QED
    BY <1>1, <1>2, <2>4, <2>5, NowAgree
<1> QED
  BY <1>6, <1>7, <1>8

LEMMA DeleteFanOutAgree ==
  ASSUME TInv, AInv, NEW d \in reqs, DeleteFanOut(d)
  PROVE  AInv'
<1> DEFINE n == d.node
           x == rows[n]
<1>1. /\ n \in Node /\ d.vid \in Vid
      /\ \A c \in calls' : \/ c \in calls \/ c.row = NoRow
                           \/ c.vid \in Latest(n) /\ c.row = rows[n][c.vid]
  BY FanOutCalls
<1>2. UNCHANGED <<rows, cursor, puts>>
  BY DEF DeleteFanOut
<1>3. \A c \in calls' : \/ c \in calls \/ ~Exists(c.row)
                        \/ \E m \in Node : c.vid \in Vid /\ c.row = rows'[m][c.vid]
  BY <1>1, <1>2 DEF Latest, NoRow, Exists
<1> HIDE DEF n
<1>4. x \in [Vid -> Row] /\ rows' = [rows EXCEPT ![n] = x]
  BY <1>1, <1>2, RowNumbers DEF TInv, TypeOK
<1>5. \A w \in Vid : Carried(x[w], rows[n][w])
  BY CarriedSelf
<1>6. Moves(n, d.vid, x)
  BY <1>1, <1>4, <1>5 DEF Moves
<1>7. Origin(d.vid, x[d.vid], puts)
  BY <1>1 DEF Origin, Copies, Alike
<1> HIDE DEF x
<1> QED
  BY <1>1, <1>2, <1>3, <1>4, <1>6, <1>7, LocalAgree

LEMMA DeleteVersionAgree ==
  ASSUME ClocksAgree, Clustered, TInv, NInv, AInv, NEW n \in Node, NEW v \in Vid, DeleteVersion(n, v)
  PROVE  AInv'
<1> DEFINE x == Dropped(n, v, Clustered)
<1>1. rows' = [rows EXCEPT ![n] = x] /\ ops < MaxOps
  BY DeleteVersionIs
<1>2. /\ x \in [Vid -> Row] /\ x[v].lm = Now(n) /\ x[v].seq = seq[n] + 1
      /\ \A w \in Vid \ {v} : Carried(x[w], rows[n][w])
  BY DroppedRows, BucketAssumption DEF Carried
<1> HIDE DEF x
<1>3. puts' = puts /\ cursor' = cursor /\ calls' = calls \cup Send(ops + 1, n, v, NoRow)
  BY DEF DeleteVersion
<1>4. ops + 1 \in 1 .. MaxOps /\ NoRow \in Row /\ ~Exists(NoRow)
  BY <1>1, Numbers, NoRowIsAbsent DEF Exists, Absent
<1>5. \A c \in calls' : c \in calls \/ ~Exists(c.row)
  BY <1>3, <1>4, SendCalls
<1> QED
  BY <1>1, <1>2, <1>3, <1>5, NowAgree

\* A row applied: it wins only with a later stamp.
LEMMA AppliedMoves ==
  ASSUME TInv, AInv, NEW n \in Node, NEW v \in Vid, NEW r \in Copies(v), r \in Row, Exists(r)
  PROVE  LET x == Applied(n, v, r)
         IN Moves(n, v, x) /\ Origin(v, x[v], puts) /\ r.lm <= x[v].lm
<1> DEFINE x == Applied(n, v, r)
           y == rows[n][v]
<1>1. /\ x \in [Vid -> Row]
      /\ \A w \in Vid : w # v \/ ~Wins(r, y) => Carried(x[w], rows[n][w])
      /\ Wins(r, y) => /\ x[v].lm = r.lm /\ x[v].put = r.put /\ x[v].marker = r.marker
                       /\ x[v].tomb = r.tomb /\ x[v].seq = seq[n] + 1
  BY AppliedRows DEF Carried
<1>2. y \in Copies(v) /\ r.lm \in Nat /\ y.lm \in Nat
  BY RowNumbers DEF Copies, Row
<1>3. r.lm = y.lm => r.put = y.put
  BY <1>2 DEF AInv, StampTells, Alike
<1>4. Wins(r, y) <=> r.lm > y.lm
  BY <1>2, <1>3 DEF Wins
<1> HIDE DEF x, y
<1>5. CASE Wins(r, y)
  <2>1. y.lm < x[v].lm /\ x[v].seq = seq[n] + 1
    BY <1>1, <1>2, <1>4, <1>5
  <2>2. Moves(n, v, x)
    BY <1>1, <2>1 DEF Moves, y
  <2>3. Alike(x[v], r)
    BY <1>1, <1>5 DEF Alike
  <2>4. Origin(v, x[v], puts)
    BY <2>3 DEF Origin
  <2>5. r.lm <= x[v].lm
    BY <1>1, <1>2, <1>5
  <2> QED
    BY <2>2, <2>4, <2>5 DEF x
<1>6. CASE ~Wins(r, y)
  <2>1. \A w \in Vid : Carried(x[w], rows[n][w])
    BY <1>1, <1>6
  <2>2. Moves(n, v, x)
    BY <1>1, <2>1 DEF Moves
  <2>3. Alike(x[v], y) /\ x[v].lm = y.lm
    BY <2>1 DEF Alike, Carried, SameBody, y
  <2>4. Origin(v, x[v], puts)
    BY <1>2, <2>3 DEF Origin
  <2>5. r.lm <= x[v].lm
    BY <1>2, <1>4, <1>6, <2>3
  <2> QED
    BY <2>2, <2>4, <2>5 DEF x
<1> QED
  BY <1>5, <1>6

LEMMA PullAgree ==
  ASSUME TInv, KInv, AInv, NEW d \in Node, NEW s \in Node, Pull(d, s)
  PROVE  AInv'
<1>1. PICK v \in Vid :
        /\ rows[s][v].seq > cursor[d][s]
        /\ \A w \in Vid : rows[s][w].seq > cursor[d][s] => rows[s][v].seq <= rows[s][w].seq
        /\ rows' = [rows EXCEPT ![d] = Applied(d, v, rows[s][v])]
        /\ cursor' = [cursor EXCEPT ![d][s] = rows[s][v].seq]
  BY DEF Pull
<1> DEFINE r == rows[s][v]
           x == Applied(d, v, r)
<1>2. UNCHANGED <<puts, calls>>
  BY DEF Pull
<1>3. r \in Row /\ r \in Copies(v) /\ r.seq \in Nat /\ r.seq <= seq[s] /\ cursor[d][s] \in Nat
  BY RowNumbers DEF Copies, TInv, TypeOK
<1>4. Exists(r)
  <2>1. r.seq # 0
    BY <1>1, <1>3
  <2> QED
    BY <2>1 DEF KInv, Blank, Absent
<1>5. Moves(d, v, x) /\ Origin(v, x[v], puts') /\ r.lm <= x[v].lm
  <2> HIDE DEF r
  <2> QED
    BY <1>2, <1>3, <1>4, AppliedMoves
<1>6. \A e, t \in Node : cursor'[e][t] = IF e = d /\ t = s THEN r.seq ELSE cursor[e][t]
  BY <1>1 DEF TInv, TypeOK
<1>7. \A e, t \in Node : cursor[e][t] \in Nat /\ cursor[e][t] <= seq[t]
  BY DEF TInv, TypeOK
<1>8. \A e, t \in Node : cursor'[e][t] \in Nat /\ cursor'[e][t] <= seq[t]
  BY <1>3, <1>6, <1>7
<1>9. \A m \in Node : rows'[m] = IF m = d THEN x ELSE rows[m]
  BY <1>1 DEF TInv, TypeOK
<1>10. \A w \in Vid : rows[s][w].seq <= r.seq => rows[s][w].seq <= cursor[d][s] \/ w = v
  <2> SUFFICES ASSUME NEW w \in Vid, rows[s][w].seq <= r.seq, ~(rows[s][w].seq <= cursor[d][s])
               PROVE  w = v
    OBVIOUS
  <2>1. rows[s][w].seq \in Nat /\ rows[s][w].seq > cursor[d][s]
    BY <1>3, RowNumbers
  <2>2. rows[s][w].seq = r.seq /\ rows[s][w].seq # 0
    BY <1>1, <1>3, <2>1
  <2>3. Exists(rows[s][w])
    BY <2>2 DEF KInv, Blank, Absent
  <2> QED
    BY <1>4, <2>2, <2>3 DEF AInv, SeqsDiffer
<1>11. \A w \in Vid : /\ rows[d][w].lm = x[w].lm \/ rows[d][w].lm < x[w].lm
                      /\ rows[d][w].lm \in Nat /\ rows[s][w].lm \in Nat /\ x[w].lm \in Nat
  BY <1>5, RowNumbers DEF Moves, Carried, SameBody, Row
<1>12. \A e, t \in Node, w \in Vid : rows[t][w].seq <= cursor[e][t] => rows[t][w].lm <= rows[e][w].lm
  BY DEF AInv, ReadIsHeld
<1> HIDE DEF r, x
<1>13. \A e, t \in Node, w \in Vid :
         rows[t][w].seq <= cursor'[e][t] => rows[t][w].lm <= rows'[e][w].lm
  <2> SUFFICES ASSUME NEW e \in Node, NEW t \in Node, NEW w \in Vid, rows[t][w].seq <= cursor'[e][t]
               PROVE  rows[t][w].lm <= rows'[e][w].lm
    OBVIOUS
  <2>1. rows[t][w].lm \in Nat /\ rows[e][w].lm \in Nat
    BY RowNumbers
  <2>2. CASE rows[t][w].seq <= cursor[e][t]
    <3>1. rows[t][w].lm <= rows[e][w].lm
      BY <1>12, <2>2
    <3>2. CASE e = d
      BY <1>9, <1>11, <2>1, <3>1, <3>2
    <3>3. CASE e # d
      BY <1>9, <3>1, <3>3
    <3> QED
      BY <3>2, <3>3
  <2>3. CASE ~(rows[t][w].seq <= cursor[e][t])
    <3>1. e = d /\ t = s /\ cursor'[e][t] = r.seq
      BY <1>6, <2>3
    <3>2. w = v
      BY <1>10, <2>3, <3>1
    <3> QED
      BY <1>5, <1>9, <3>1, <3>2 DEF r
  <2> QED
    BY <2>2, <2>3
<1>14. rows' = [rows EXCEPT ![d] = x]
  BY <1>1 DEF r, x
<1>15. puts' \subseteq puts /\ \A c \in calls' : c \in calls
  BY <1>2
<1> QED
  BY <1>5, <1>8, <1>13, <1>14, <1>15, AgreeStep

LEMMA ReceiveAgree ==
  ASSUME ClocksAgree, TInv, NInv, AInv, NEW c \in calls, Receive(c)
  PROVE  AInv'
<1> DEFINE n == c.to
           r == c.row
           v == c.vid
<1>1. /\ n \in Node /\ v \in Vid /\ r \in Row
      /\ Exists(r) => rows' = [rows EXCEPT ![n] = Applied(n, v, r)]
      /\ ~Exists(r) => rows' = [rows EXCEPT ![n] = IF Live(rows[n][v])
                                   THEN Dropped(n, v, TRUE) ELSE Recompute(rows[n])]
      /\ puts' = puts /\ cursor' = cursor /\ \A e \in calls' : e \in calls
  BY ReceiveIs
<1>2. r \in Copies(v)
  BY DEF Copies
<1> HIDE DEF n, r, v
<1>3. CASE Exists(r)
  <2> DEFINE x == Applied(n, v, r)
  <2>1. Moves(n, v, x) /\ Origin(v, x[v], puts)
    BY <1>1, <1>2, <1>3, AppliedMoves
  <2>2. rows' = [rows EXCEPT ![n] = x]
    BY <1>1, <1>3
  <2> HIDE DEF x
  <2> QED
    BY <1>1, <2>1, <2>2, LocalAgree
<1>4. CASE ~Exists(r)
  <2> DEFINE x == IF Live(rows[n][v]) THEN Dropped(n, v, TRUE) ELSE Recompute(rows[n])
  <2>1. rows' = [rows EXCEPT ![n] = x]
    BY <1>1, <1>4
  <2>2. /\ x \in [Vid -> Row]
        /\ \A w \in Vid \ {v} : Carried(x[w], rows[n][w])
        /\ Carried(x[v], rows[n][v]) \/ (x[v].lm = Now(n) /\ x[v].seq = seq[n] + 1)
    <3>1. CASE Live(rows[n][v])
      <4> DEFINE y(b) == Dropped(n, v, b)
      <4>1. \A b \in BOOLEAN : b => /\ y(b) \in [Vid -> Row]
                                    /\ \A w \in Vid \ {v} : Carried(y(b)[w], rows[n][w])
                                    /\ y(b)[v].lm = Now(n) /\ y(b)[v].seq = seq[n] + 1
        BY <1>1, DroppedRows DEF Carried
      <4>2. /\ y(TRUE) \in [Vid -> Row]
            /\ \A w \in Vid \ {v} : Carried(y(TRUE)[w], rows[n][w])
            /\ y(TRUE)[v].lm = Now(n) /\ y(TRUE)[v].seq = seq[n] + 1
        BY <4>1, TRUE \in BOOLEAN
      <4>3. x = y(TRUE)
        BY <3>1
      <4> HIDE DEF x, y
      <4> QED
        BY <4>2, <4>3
    <3>2. CASE ~Live(rows[n][v])
      <4>1. rows[n] \in [Vid -> Row]
        BY <1>1, RowNumbers
      <4>2. x = Recompute(rows[n])
        BY <3>2
      <4> HIDE DEF x
      <4> QED
        BY <1>1, <4>1, <4>2, RecomputeRows DEF Carried
    <3> QED
      BY <3>1, <3>2
  <2> HIDE DEF x
  <2> QED
    BY <1>1, <2>1, <2>2, NowAgree
<1> QED
  BY <1>3, <1>4

LEMMA NextAgree ==
  ASSUME ClocksAgree, ~Overlap, Clustered
  PROVE  TInv /\ NInv /\ KInv /\ AInv /\ [Next]_vars => AInv'
<1> SUFFICES ASSUME TInv, NInv, KInv, AInv, [Next]_vars PROVE AInv'
  OBVIOUS
<1>1. ASSUME NEW n \in Node, PutStamp(n) PROVE AInv'
  BY <1>1, PutStampAgree
<1>2. ASSUME NEW n \in Node, Delete(n) PROVE AInv'
  BY <1>2, DeleteAgree
<1>3. ASSUME NEW p \in puts, PutCommit(p) PROVE AInv'
  BY <1>3, PutCommitAgree
<1>4. ASSUME NEW d \in reqs, DeleteFanOut(d) PROVE AInv'
  BY <1>4, DeleteFanOutAgree
<1>5. ASSUME NEW d \in reqs, Answer(d) PROVE AInv'
  BY <1>5, AgreeKept DEF Answer
<1>6. ASSUME NEW n \in Node, NEW v \in Vid, DeleteVersion(n, v) PROVE AInv'
  BY <1>6, DeleteVersionAgree
<1>7. ASSUME NEW d \in Node, NEW s \in Node, Pull(d, s) PROVE AInv'
  BY <1>7, PullAgree
<1>8. ASSUME NEW c \in calls, Receive(c) PROVE AInv'
  BY <1>8, ReceiveAgree
<1>9. ASSUME NEW d \in Node, NEW s \in Node, SpreadVersioning(d, s) PROVE AInv'
  BY <1>9, AgreeKept DEF SpreadVersioning
<1>10. ASSUME NEW n \in Node, NEW s \in State, SetVersioning(n, s) PROVE AInv'
  BY <1>10, AgreeKept DEF SetVersioning
<1>11. CASE UNCHANGED vars
  BY <1>11, AgreeKept DEF vars
<1> QED
  BY <1>1, <1>2, <1>3, <1>4, <1>5, <1>6, <1>7, <1>8, <1>9, <1>10, <1>11 DEF Next

\* Nodes with the same content have the same current row.
LEMMA SameContent ==
  ASSUME NEW f \in [Vid -> Row], NEW g \in [Vid -> Row], Newest(f), Newest(g),
         \A v \in Vid : Alike(f[v], g[v])
  PROVE  \A v \in Vid : SameRow(f[v], g[v])
<1>1. \A v \in Vid : f[v].lm = g[v].lm /\ (Live(f[v]) <=> Live(g[v]))
  BY DEF Alike, Live, Exists
<1>2. \A v \in Vid : f[v].latest <=> g[v].latest
  BY <1>1 DEF Newest
<1>3. \A r, x \in Row : Alike(r, x) /\ r.latest = x.latest => SameRow(r, x)
  BY DEF Row, Alike, SameRow
<1>4. \A v \in Vid : f[v] \in Row /\ g[v] \in Row /\ f[v].latest \in BOOLEAN /\ g[v].latest \in BOOLEAN
  BY DEF Row
<1>5. \A v \in Vid : f[v].latest = g[v].latest
  BY <1>2, <1>4
<1> QED
  BY <1>3, <1>4, <1>5

LEMMA InvAgree == TInv /\ NInv /\ KInv /\ AInv => CaughtUpAgree
<1> SUFFICES ASSUME TInv, NInv, KInv, AInv, NEW n \in Node, NEW m \in Node,
                    CaughtUp(n, m), CaughtUp(m, n)
             PROVE  \A v \in Vid : SameRow(rows[n][v], rows[m][v])
  BY DEF CaughtUpAgree
<1>1. \A v \in Vid : rows[m][v].lm <= rows[n][v].lm /\ rows[n][v].lm <= rows[m][v].lm
  BY DEF CaughtUp, AInv, ReadIsHeld
<1>2. \A v \in Vid : rows[n][v].lm \in Nat /\ rows[m][v].lm \in Nat
  BY RowNumbers
<1>3. \A v \in Vid : rows[n][v].lm = rows[m][v].lm
  BY <1>1, <1>2
<1>4. \A v \in Vid : Alike(rows[n][v], rows[m][v])
  <2> TAKE v \in Vid
  <2>1. CASE Exists(rows[n][v])
    BY <1>3, <2>1 DEF AInv, StampTells, Copies
  <2>2. CASE ~Exists(rows[n][v])
    <3>1. Absent(rows[n][v]) /\ Absent(rows[m][v]) /\ rows[n][v] \in Row /\ rows[m][v] \in Row
      BY <1>3, <2>2, Stamps DEF KInv, Blank, Exists
    <3>2. rows[n][v] = rows[m][v]
      BY <3>1, NoRowIsAbsent
    <3> QED
      BY <3>2 DEF Alike
  <2> QED
    BY <2>1, <2>2
<1>5. rows[n] \in [Vid -> Row] /\ rows[m] \in [Vid -> Row] /\ Newest(rows[n]) /\ Newest(rows[m])
  BY RowNumbers DEF NInv
<1> QED
  BY <1>4, <1>5, SameContent

LEMMA AgreeAlways ==
  ASSUME ClocksAgree, NoLag, ~Overlap, Clustered
  PROVE  Spec => []CaughtUpAgree
<1>1. Init => AInv
  BY InitAgree
<1>2. TInv /\ NInv /\ KInv /\ AInv /\ [Next]_vars => AInv'
  BY NextAgree
<1>3. Spec => []TInv
  BY TypedAlways
<1>4. Spec => []NInv
  BY NewestAlways
<1>5. Spec => []KInv
  BY KeptAlways
<1> QED
  BY <1>1, <1>2, <1>3, <1>4, <1>5, InvAgree, PTL DEF Spec

\* A node by itself agrees with itself.
LEMMA AloneAgrees ==
  ASSUME ~Clustered PROVE CaughtUpAgree
<1>1. \E i : Node = {i}
  BY BucketAssumption, FS_Singleton
<1>2. \A n, m \in Node : n = m
  BY <1>1
<1> QED
  BY <1>2 DEF CaughtUpAgree, SameRow

\* With clocks that agree, no node left behind in the unversioned state and no PUT of
\* the null version committing after a later-stamped row, two nodes that have read
\* all of each other's manifests have the same versions, delete markers and
\* tombstones of the key and the same current one, whatever was lost, reordered or
\* delayed before (install_object, delete_version_in_tx, apply_remote_object).
THEOREM VersionsConverge ==
  ASSUME ClocksAgree, NoLag, ~Overlap
  PROVE  Spec => []CaughtUpAgree
<1>1. CASE Clustered
  BY <1>1, AgreeAlways
<1>2. CASE ~Clustered
  <2>1. CaughtUpAgree
    BY <1>2, AloneAgrees
  <2> QED
    BY <2>1, PTL
<1> QED
  BY <1>1, <1>2

\* Comment of recompute_is_latest, "every node converges on the same current version
\* without coordination": with clocks that agree, nodes with the same rows have the
\* same current one, whatever the order in which the rows came, also while versioning
\* states lag and PUTs commit late.
THEOREM CurrentIsShared ==
  ASSUME ClocksAgree
  PROVE  Spec => []SameCurrent
<1> DEFINE content(r) == [r EXCEPT !.seq = 0, !.latest = FALSE]
<1>1. ASSUME TInv, NInv, NEW n \in Node, NEW m \in Node,
             \A v \in Vid : content(rows[n][v]) = content(rows[m][v])
      PROVE  Latest(n) = Latest(m)
  <2>1. \A r, x \in Row : content(r) = content(x) => r.lm = x.lm /\ r.tomb = x.tomb
    BY DEF Row
  <2>2. \A v \in Vid : rows[n][v] \in Row /\ rows[m][v] \in Row
    BY <1>1, Stamps
  <2> HIDE DEF content
  <2>3. \A v \in Vid : rows[n][v].lm = rows[m][v].lm /\ (Live(rows[n][v]) <=> Live(rows[m][v]))
    BY <1>1, <2>1, <2>2 DEF Live, Exists
  <2>4. Newest(rows[n]) /\ Newest(rows[m])
    BY <1>1 DEF NInv
  <2>5. \A v \in Vid : rows[n][v].latest <=> rows[m][v].latest
    BY <2>3, <2>4 DEF Newest
  <2> QED
    BY <2>5 DEF Latest
<1>2. TInv /\ NInv => SameCurrent
  BY <1>1 DEF SameCurrent
<1> QED
  BY <1>2, TypedAlways, NewestAlways, PTL
============================================================================
