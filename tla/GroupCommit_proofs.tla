------------------------- MODULE GroupCommit_proofs -------------------------
(***************************************************************************)
(* Proofs that the group committer implements AtomicWriter and commits in  *)
(* the order of submission, for every set of writes and every group size.  *)
(***************************************************************************)
EXTENDS GroupCommit, SequenceTheorems, TLAPS

Distinct(s) == \A i, j \in 1 .. Len(s) : s[i] = s[j] => i = j
Undecided(w) == answer[w] \in {"waiting", "gone"}
Disjoint(s, t) == \A i \in 1 .. Len(s), j \in 1 .. Len(t) : s[i] # t[j]
Prefix(s, t) == Len(s) <= Len(t) /\ \A i \in 1 .. Len(s) : t[i] = s[i]

\* The committed writes saw exactly the ones before them.
DbInv ==
  /\ Distinct(db)
  /\ \A i \in 1 .. Len(db) : /\ result[db[i]] = SubSeq(db, 1, i - 1)
                             /\ answer[db[i]] \notin {"new", "error"}

\* The writes in the queue have not been run.
QueueInv ==
  /\ Distinct(queue) /\ Disjoint(queue, db) /\ Disjoint(queue, jobs)
  /\ \A i \in 1 .. Len(queue) : Undecided(queue[i])

\* The jobs of the group wait for their answer; before the commit none of them
\* is in the database, after it exactly those that succeeded are.
JobsInv ==
  /\ Distinct(jobs)
  /\ \A i \in 1 .. Len(jobs) : Undecided(jobs[i])
  /\ phase = "idle" <=> Len(jobs) = 0
  /\ phase \in {"taken", "running", "failed"} => Disjoint(jobs, db)
  /\ phase = "committed" =>
       \A i \in 1 .. Len(jobs) : outcome[jobs[i]] = "ok" <=> jobs[i] \in Rows(db)
  /\ phase = "taken" => done = 0

\* The open transaction holds the database and the jobs that have succeeded.
TxInv ==
  /\ done <= Len(jobs)
  /\ Prefix(db, tx) /\ Distinct(tx)
  /\ \A i \in Len(db) + 1 .. Len(tx) : /\ \E k \in 1 .. done : tx[i] = jobs[k]
                                       /\ result[tx[i]] = SubSeq(tx, 1, i - 1)
  /\ \A k \in 1 .. done : /\ outcome[jobs[k]] # "pending"
                          /\ outcome[jobs[k]] = "ok" <=> jobs[k] \in Rows(tx)

Inv ==
  /\ TypeOK /\ DbInv /\ QueueInv /\ JobsInv
  /\ phase = "running" => TxInv
------------------------------------------------------------------------------
LEMMA SubSeqOfPrefix ==
  ASSUME NEW S, NEW s \in Seq(S), NEW t \in Seq(S), Prefix(s, t), NEW m \in 0 .. Len(s)
  PROVE  SubSeq(t, 1, m) = SubSeq(s, 1, m)
<1>1. Len(s) \in Nat /\ Len(t) \in Nat
  BY LenProperties
<1>2. \A i \in 1 .. m : t[i] \in S /\ s[i] \in S
  BY <1>1, ElementOfSeq DEF Prefix
<1>3. /\ SubSeq(t, 1, m) \in Seq(S)
      /\ Len(SubSeq(t, 1, m)) = IF 1 <= m THEN m - 1 + 1 ELSE 0
      /\ \A i \in 1 .. m - 1 + 1 : SubSeq(t, 1, m)[i] = t[1 + i - 1]
  BY <1>2, SubSeqProperties, m \in Int, 1 \in Int
<1>4. /\ SubSeq(s, 1, m) \in Seq(S)
      /\ Len(SubSeq(s, 1, m)) = IF 1 <= m THEN m - 1 + 1 ELSE 0
      /\ \A i \in 1 .. m - 1 + 1 : SubSeq(s, 1, m)[i] = s[1 + i - 1]
  BY <1>2, SubSeqProperties, m \in Int, 1 \in Int
<1>5. Len(SubSeq(t, 1, m)) = Len(SubSeq(s, 1, m))
  BY <1>3, <1>4
<1>6. \A i \in 1 .. Len(SubSeq(t, 1, m)) : SubSeq(t, 1, m)[i] = SubSeq(s, 1, m)[i]
  BY <1>1, <1>3, <1>4 DEF Prefix
<1> QED
  BY <1>3, <1>4, <1>5, <1>6, SeqEqual

LEMMA SubSeqOfAppend ==
  ASSUME NEW S, NEW s \in Seq(S), NEW e \in S, NEW m \in 0 .. Len(s)
  PROVE  SubSeq(Append(s, e), 1, m) = SubSeq(s, 1, m)
<1>1. Append(s, e) \in Seq(S) /\ Prefix(s, Append(s, e))
  BY AppendProperties, LenProperties DEF Prefix
<1> QED
  BY <1>1, SubSeqOfPrefix

LEMMA DistinctAppend ==
  ASSUME NEW s \in Seq(Write), NEW e \in Write, Distinct(s), \A i \in 1 .. Len(s) : s[i] # e
  PROVE  Distinct(Append(s, e))
<1> DEFINE a == Append(s, e)
<1>1. /\ Len(a) = Len(s) + 1 /\ Len(s) \in Nat /\ a[Len(s) + 1] = e
      /\ \A i \in 1 .. Len(s) : a[i] = s[i]
  BY AppendProperties, LenProperties
<1> HIDE DEF a
<1>2. Distinct(a)
  BY <1>1 DEF Distinct
<1> QED
  BY <1>2 DEF a

LEMMA DisjointAppend ==
  ASSUME NEW s \in Seq(Write), NEW t \in Seq(Write), NEW e \in Write,
         \A i \in 1 .. Len(t) : t[i] # e
  PROVE  /\ Disjoint(s, t) => Disjoint(Append(s, e), t)
         /\ Disjoint(t, s) => Disjoint(t, Append(s, e))
<1> DEFINE a == Append(s, e)
<1>1. /\ Len(a) = Len(s) + 1 /\ Len(s) \in Nat /\ a[Len(s) + 1] = e
      /\ \A i \in 1 .. Len(s) : a[i] = s[i]
  BY AppendProperties, LenProperties
<1> HIDE DEF a
<1>2. \A i \in 1 .. Len(a) : i \in 1 .. Len(s) \/ i = Len(s) + 1
  BY <1>1
<1>3. Disjoint(s, t) => Disjoint(a, t)
  BY <1>1, <1>2 DEF Disjoint
<1>4. Disjoint(t, s) => Disjoint(t, a)
  BY <1>1, <1>2 DEF Disjoint
<1> QED
  BY <1>3, <1>4 DEF a

First(q, n) == SubSeq(q, 1, n)
Rest(q, n) == SubSeq(q, n + 1, Len(q))

LEMMA SplitSeq ==
  ASSUME NEW q \in Seq(Write), Distinct(q), NEW n \in 1 .. Len(q)
  PROVE  /\ First(q, n) \in Seq(Write) /\ Rest(q, n) \in Seq(Write)
         /\ Len(First(q, n)) = n
         /\ Distinct(First(q, n)) /\ Distinct(Rest(q, n)) /\ Disjoint(Rest(q, n), First(q, n))
         /\ \A i \in 1 .. Len(First(q, n)) : \E k \in 1 .. Len(q) : First(q, n)[i] = q[k]
         /\ \A i \in 1 .. Len(Rest(q, n)) : \E k \in 1 .. Len(q) : Rest(q, n)[i] = q[k]
<1> DEFINE a == First(q, n)
           b == Rest(q, n)
<1>1. Len(q) \in Nat /\ \A i \in 1 .. Len(q) : q[i] \in Write
  BY LenProperties, ElementOfSeq
<1>2. /\ a \in Seq(Write)
      /\ Len(a) = IF 1 <= n THEN n - 1 + 1 ELSE 0
      /\ \A i \in 1 .. n - 1 + 1 : a[i] = q[1 + i - 1]
  <2>1. \A i \in 1 .. n : q[i] \in Write
    BY <1>1
  <2> QED
    BY <2>1, SubSeqProperties, 1 \in Int, n \in Int DEF First
<1>3. /\ b \in Seq(Write)
      /\ Len(b) = IF n + 1 <= Len(q) THEN Len(q) - (n + 1) + 1 ELSE 0
      /\ \A i \in 1 .. Len(q) - (n + 1) + 1 : b[i] = q[n + 1 + i - 1]
  <2>1. \A i \in n + 1 .. Len(q) : q[i] \in Write
    BY <1>1
  <2>2. n + 1 \in Int /\ Len(q) \in Int
    BY <1>1
  <2> QED
    BY <2>1, <2>2, SubSeqProperties DEF Rest
<1> HIDE DEF a, b
<1>4. /\ Len(a) = n /\ \A i \in 1 .. Len(a) : i \in 1 .. Len(q) /\ a[i] = q[i]
      /\ Len(b) = Len(q) - n
      /\ \A i \in 1 .. Len(b) : n + i \in 1 .. Len(q) /\ b[i] = q[n + i]
  <2>1. Len(a) = n /\ Len(b) = Len(q) - n
    BY <1>1, <1>2, <1>3
  <2>2. ASSUME NEW i \in 1 .. Len(a) PROVE i \in 1 .. Len(q) /\ a[i] = q[i]
    <3>1. i \in 1 .. n - 1 + 1 /\ 1 + i - 1 = i
      BY <2>1
    <3> QED
      BY <1>1, <1>2, <2>1, <3>1
  <2>3. ASSUME NEW i \in 1 .. Len(b) PROVE n + i \in 1 .. Len(q) /\ b[i] = q[n + i]
    <3>1. i \in 1 .. Len(q) - (n + 1) + 1 /\ n + 1 + i - 1 = n + i /\ n + i \in 1 .. Len(q)
      BY <1>1, <2>1
    <3>2. b[i] = q[n + 1 + i - 1]
      BY <1>3, <3>1
    <3> QED
      BY <3>1, <3>2
  <2> QED
    BY <2>1, <2>2, <2>3
<1>5. Distinct(a)
  BY <1>4 DEF Distinct
<1>6. Distinct(b)
  BY <1>1, <1>4 DEF Distinct
<1>7. Disjoint(b, a)
  BY <1>1, <1>4 DEF Distinct, Disjoint
<1>8. /\ \A i \in 1 .. Len(a) : \E k \in 1 .. Len(q) : a[i] = q[k]
      /\ \A i \in 1 .. Len(b) : \E k \in 1 .. Len(q) : b[i] = q[k]
  BY <1>4
<1> QED
  BY <1>2, <1>3, <1>4, <1>5, <1>6, <1>7, <1>8 DEF a, b

LEMMA TailSeq ==
  ASSUME NEW s \in Seq(Write), Len(s) # 0
  PROVE  /\ Head(s) = s[1] /\ Head(s) \in Write
         /\ Tail(s) \in Seq(Write) /\ Len(Tail(s)) = Len(s) - 1
         /\ \A i \in 1 .. Len(Tail(s)) : i + 1 \in 1 .. Len(s) /\ Tail(s)[i] = s[i + 1]
         /\ Distinct(s) =>
              Distinct(Tail(s)) /\ \A i \in 1 .. Len(Tail(s)) : Tail(s)[i] # Head(s)
<1>1. s # << >>
  BY EmptySeq
<1>2. /\ Head(s) \in Write /\ Tail(s) \in Seq(Write) /\ Len(Tail(s)) = Len(s) - 1
      /\ \A i \in 1 .. Len(Tail(s)) : Tail(s)[i] = s[i + 1]
  BY <1>1, HeadTailProperties
<1>3. Head(s) = s[1] /\ Len(s) \in Nat
  BY <1>1, LenProperties
<1>4. \A i \in 1 .. Len(Tail(s)) : i + 1 \in 1 .. Len(s)
  BY <1>2, <1>3
<1>5. ASSUME Distinct(s) PROVE Distinct(Tail(s))
  BY <1>2, <1>3, <1>4, <1>5 DEF Distinct
<1>6. ASSUME Distinct(s), NEW i \in 1 .. Len(Tail(s)) PROVE Tail(s)[i] # Head(s)
  BY <1>2, <1>3, <1>4, <1>6 DEF Distinct
<1> QED
  BY <1>2, <1>3, <1>4, <1>5, <1>6

LEMMA InvInit == Init => Inv
<1> SUFFICES ASSUME Init PROVE Inv
  OBVIOUS
<1>1. << >> \in Seq(Write) /\ Len(<< >>) = 0
  BY EmptySeq
<1>2. TypeOK
  BY <1>1, GroupAssumption DEF Init, TypeOK
<1> QED
  BY <1>1, <1>2 DEF Init, Inv, DbInv, QueueInv, JobsInv, Distinct, Disjoint
------------------------------------------------------------------------------
LEMMA SubmitInv ==
  ASSUME Inv, NEW w \in Write, Submit(w)
  PROVE  Inv'
<1> USE DEF Inv
<1>1. /\ queue' \in Seq(Write) /\ Len(queue') = Len(queue) + 1 /\ Len(queue) \in Nat
      /\ \A i \in 1 .. Len(queue) : queue'[i] = queue[i] /\ queue[i] \in Write
      /\ queue'[Len(queue) + 1] = w
      /\ sent' \in Seq(Write)
  BY AppendProperties, ElementOfSeq, LenProperties DEF Submit, TypeOK
<1>2. Len(db) \in Nat /\ Len(jobs) \in Nat
  BY LenProperties DEF TypeOK
<1>3. /\ \A i \in 1 .. Len(db) : db[i] # w /\ db[i] \in Write
      /\ \A i \in 1 .. Len(queue) : queue[i] # w
      /\ \A i \in 1 .. Len(jobs) : jobs[i] # w /\ jobs[i] \in Write
  <2>1. answer[w] = "new"
    BY DEF Submit
  <2>2. /\ \A i \in 1 .. Len(db) : db[i] \in Write
        /\ \A i \in 1 .. Len(jobs) : jobs[i] \in Write
    BY ElementOfSeq DEF TypeOK
  <2> QED
    BY <2>1, <2>2 DEF DbInv, QueueInv, JobsInv, Undecided
<1>4. answer' = [answer EXCEPT ![w] = "waiting"] /\ answer \in [Write -> {"new", "waiting", "gone", "ok", "error", "lost"}]
  BY DEF Submit, TypeOK
<1>5. UNCHANGED <<db, tx, jobs, done, phase, outcome, result, open, faults>>
  BY DEF Submit
<1>6. TypeOK'
  BY <1>1, <1>4, <1>5 DEF TypeOK
<1>7. DbInv'
  BY <1>2, <1>3, <1>4, <1>5 DEF DbInv, Distinct
<1>8. QueueInv'
  <2>1. Distinct(queue)' /\ Disjoint(queue, db)' /\ Disjoint(queue, jobs)'
    BY <1>3, <1>5, DistinctAppend, DisjointAppend DEF Submit, QueueInv, TypeOK
  <2>2. \A i \in 1 .. Len(queue') : Undecided(queue[i])'
    BY <1>1, <1>3, <1>4 DEF QueueInv, Undecided
  <2> QED
    BY <2>1, <2>2 DEF QueueInv
<1>9. JobsInv'
  BY <1>2, <1>3, <1>4, <1>5 DEF JobsInv, Undecided
<1>10. phase' = "running" => TxInv'
  BY <1>5 DEF TxInv
<1> QED
  BY <1>6, <1>7, <1>8, <1>9, <1>10

\* A step that only turns undecided answers into other answers.
LEMMA CancelInv ==
  ASSUME Inv, NEW w \in Write, Cancel(w)
  PROVE  Inv'
<1> USE DEF Inv
<1>1. /\ answer' = [answer EXCEPT ![w] = "gone"]
      /\ answer \in [Write -> {"new", "waiting", "gone", "ok", "error", "lost"}]
      /\ answer[w] = "waiting"
  BY DEF Cancel, TypeOK
<1>2. UNCHANGED <<db, tx, queue, jobs, done, phase, outcome, result, sent, open>>
  BY DEF Cancel, group
<1>3. \A v \in Write : /\ answer[v] \notin {"new", "error"} => answer'[v] \notin {"new", "error"}
                       /\ Undecided(v) => Undecided(v)'
  BY <1>1 DEF Undecided
<1>4. /\ \A i \in 1 .. Len(db) : db[i] \in Write
      /\ \A i \in 1 .. Len(queue) : queue[i] \in Write
      /\ \A i \in 1 .. Len(jobs) : jobs[i] \in Write
  BY ElementOfSeq DEF TypeOK
<1>5. TypeOK'
  BY <1>1, <1>2 DEF TypeOK, Cancel, Fault
<1>6. DbInv'
  BY <1>2, <1>3, <1>4 DEF DbInv, Distinct
<1>7. QueueInv'
  BY <1>2, <1>3, <1>4 DEF QueueInv, Distinct, Disjoint
<1>8. JobsInv'
  BY <1>2, <1>3, <1>4 DEF JobsInv, Distinct, Disjoint, Rows
<1>9. phase' = "running" => TxInv'
  BY <1>2 DEF TxInv, Distinct, Prefix, Rows
<1> QED
  BY <1>5, <1>6, <1>7, <1>8, <1>9

LEMMA DirectInv ==
  ASSUME Inv, NEW w \in Write, Direct(w)
  PROVE  Inv'
<1> USE DEF Inv
<1>1. /\ db' \in Seq(Write) /\ Len(db') = Len(db) + 1 /\ Len(db) \in Nat
      /\ \A i \in 1 .. Len(db) : db'[i] = db[i] /\ db[i] \in Write
      /\ db'[Len(db) + 1] = w
  BY AppendProperties, ElementOfSeq, LenProperties DEF Direct, TypeOK
<1>2. /\ Len(queue) \in Nat /\ Len(jobs) \in Nat
      /\ \A i \in 1 .. Len(queue) : queue[i] \in Write
      /\ \A i \in 1 .. Len(jobs) : jobs[i] \in Write
  BY LenProperties, ElementOfSeq DEF TypeOK
<1>3. /\ \A i \in 1 .. Len(db) : db[i] # w
      /\ \A i \in 1 .. Len(queue) : queue[i] # w
      /\ \A i \in 1 .. Len(jobs) : jobs[i] # w
  BY DEF Direct, DbInv, QueueInv, JobsInv, Undecided
<1>4. /\ answer' = [answer EXCEPT ![w] = "ok"]
      /\ answer \in [Write -> {"new", "waiting", "gone", "ok", "error", "lost"}]
      /\ result' = [result EXCEPT ![w] = db] /\ result \in [Write -> Seq(Write)]
      /\ outcome' = [outcome EXCEPT ![w] = "ok"]
      /\ outcome \in [Write -> {"pending", "ok", "error", "panicked"}]
      /\ phase \in {"idle", "taken"}
  BY DEF Direct, TypeOK
<1>5. UNCHANGED <<tx, queue, jobs, done, phase, sent, open, faults>>
  BY DEF Direct
<1>6. TypeOK'
  BY <1>1, <1>4, <1>5 DEF TypeOK
<1>7. DbInv'
  <2>1. \A i \in 1 .. Len(db) : SubSeq(db', 1, i - 1) = SubSeq(db, 1, i - 1)
    BY SubSeqOfAppend, <1>1 DEF Direct, TypeOK
  <2>2. SubSeq(db', 1, Len(db)) = db
    BY SubSeqOfAppend, SubSeqFull, <1>1 DEF Direct, TypeOK
  <2>3. Distinct(db)'
    BY <1>1, <1>3 DEF Distinct, DbInv
  <2>4. ASSUME NEW i \in 1 .. Len(db')
        PROVE  result'[db'[i]] = SubSeq(db', 1, i - 1) /\ answer'[db'[i]] \notin {"new", "error"}
    <3>1. CASE i \in 1 .. Len(db)
      BY <3>1, <2>1, <1>1, <1>3, <1>4 DEF DbInv
    <3>2. CASE i = Len(db) + 1
      BY <3>2, <2>2, <1>1, <1>4
    <3> QED
      BY <3>1, <3>2, <1>1
  <2> QED
    BY <2>3, <2>4 DEF DbInv
<1>8. QueueInv'
  <2>1. Distinct(queue)' /\ Disjoint(queue, db)' /\ Disjoint(queue, jobs)'
    BY <1>3, <1>5, DisjointAppend DEF Direct, QueueInv, TypeOK
  <2>2. \A i \in 1 .. Len(queue') : Undecided(queue[i])'
    BY <1>2, <1>3, <1>4, <1>5 DEF QueueInv, Undecided
  <2> QED
    BY <2>1, <2>2 DEF QueueInv
<1>9. JobsInv'
  <2>1. phase = "taken" => Disjoint(jobs, db)'
    BY <1>3, <1>5, DisjointAppend DEF Direct, JobsInv, TypeOK
  <2>2. \A i \in 1 .. Len(jobs') : Undecided(jobs[i])'
    BY <1>2, <1>3, <1>4, <1>5 DEF JobsInv, Undecided
  <2> QED
    BY <1>4, <1>5, <2>1, <2>2 DEF JobsInv
<1> QED
  BY <1>4, <1>5, <1>6, <1>7, <1>8, <1>9

LEMMA TakeGroupInv ==
  ASSUME Inv, TakeGroup
  PROVE  Inv'
<1> USE DEF Inv
<1>1. Len(queue) \in Nat /\ Len(queue) # 0
  BY EmptySeq, LenProperties DEF TakeGroup, TypeOK
<1> DEFINE n == IF Len(queue) < MaxGroup THEN Len(queue) ELSE MaxGroup
<1>2. n \in 1 .. Len(queue) /\ n <= MaxGroup
  BY <1>1, GroupAssumption
<1>3. /\ jobs' = First(queue, n) /\ queue' = Rest(queue, n)
      /\ phase = "idle" /\ phase' = "taken" /\ done' = 0
      /\ UNCHANGED <<db, tx, outcome, result, answer, sent, open, faults>>
  BY DEF TakeGroup, First, Rest
<1> HIDE DEF n
<1>4. /\ jobs' \in Seq(Write) /\ queue' \in Seq(Write) /\ Len(jobs') = n
      /\ Distinct(jobs') /\ Distinct(queue') /\ Disjoint(queue', jobs')
      /\ \A i \in 1 .. Len(jobs') : \E k \in 1 .. Len(queue) : jobs'[i] = queue[k]
      /\ \A i \in 1 .. Len(queue') : \E k \in 1 .. Len(queue) : queue'[i] = queue[k]
  <2>1. queue \in Seq(Write) /\ Distinct(queue)
    BY DEF QueueInv, TypeOK
  <2> QED
    BY <1>2, <1>3, <2>1, SplitSeq
<1>5. TypeOK'
  BY <1>2, <1>3, <1>4, GroupAssumption DEF TypeOK
<1>6. DbInv'
  BY <1>3 DEF DbInv
<1>7. QueueInv'
  <2>1. Disjoint(queue, db)'
    BY <1>3, <1>4 DEF QueueInv, Disjoint
  <2>2. \A i \in 1 .. Len(queue') : Undecided(queue[i])'
    BY <1>3, <1>4 DEF QueueInv, Undecided
  <2> QED
    BY <1>4, <2>1, <2>2 DEF QueueInv
<1>8. JobsInv'
  <2>1. Disjoint(jobs, db)'
    BY <1>3, <1>4 DEF QueueInv, Disjoint
  <2>2. \A i \in 1 .. Len(jobs') : Undecided(jobs[i])'
    BY <1>3, <1>4 DEF QueueInv, Undecided
  <2>3. Len(jobs') # 0
    BY <1>2, <1>4
  <2> QED
    BY <1>3, <1>4, <2>1, <2>2, <2>3 DEF JobsInv
<1> QED
  BY <1>3, <1>5, <1>6, <1>7, <1>8

\* The first job is answered, or dropped: the next one becomes the first.
LEMMA PopInv ==
  ASSUME Inv, phase \in {"taken", "committed", "failed"},
         NEW v \in {"ok", "error"},
         v = "error" => Head(jobs) \notin Rows(db),
         answer' = [answer EXCEPT ![Head(jobs)] = IF @ = "waiting" THEN v ELSE @],
         jobs' = Tail(jobs),
         phase' = IF Len(jobs) = 1 THEN "idle" ELSE phase,
         UNCHANGED <<db, tx, queue, done, outcome, result, sent, open, faults>>
  PROVE  Inv'
<1> USE DEF Inv
<1>1. Len(jobs) # 0
  BY DEF JobsInv
<1>2. /\ Head(jobs) = jobs[1] /\ Head(jobs) \in Write
      /\ jobs' \in Seq(Write) /\ Len(jobs') = Len(jobs) - 1
      /\ \A i \in 1 .. Len(jobs') : i + 1 \in 1 .. Len(jobs) /\ jobs'[i] = jobs[i + 1]
      /\ Distinct(jobs') /\ \A i \in 1 .. Len(jobs') : jobs'[i] # Head(jobs)
  BY <1>1, TailSeq DEF JobsInv, TypeOK
<1>3. /\ Len(jobs) \in Nat /\ Len(jobs') \in Nat /\ 1 \in 1 .. Len(jobs)
      /\ \A i \in 1 .. Len(jobs) : jobs[i] \in Write
      /\ \A i \in 1 .. Len(db) : db[i] \in Write
      /\ \A i \in 1 .. Len(queue) : queue[i] \in Write
  BY <1>1, <1>2, LenProperties, ElementOfSeq DEF TypeOK
<1>4. /\ answer \in [Write -> {"new", "waiting", "gone", "ok", "error", "lost"}]
      /\ answer' \in [Write -> {"new", "waiting", "gone", "ok", "error", "lost"}]
      /\ \A w \in Write : w # Head(jobs) => answer'[w] = answer[w]
      /\ answer'[Head(jobs)] \in {"waiting", "gone", "ok", "error"} \/ answer'[Head(jobs)] = answer[Head(jobs)]
      /\ answer'[Head(jobs)] = "error" => v = "error" \/ answer[Head(jobs)] = "error"
  BY <1>2 DEF TypeOK
<1>5. TypeOK'
  <2>1. phase' = "committed" => \A i \in 1 .. Len(jobs') : outcome'[jobs'[i]] # "pending"
    BY <1>2 DEF TypeOK
  <2> QED
    BY <2>1, <1>2, <1>3, <1>4, GroupAssumption DEF TypeOK
<1>6. DbInv'
  <2>1. \A i \in 1 .. Len(db) : answer'[db[i]] \notin {"new", "error"}
    <3> SUFFICES ASSUME NEW i \in 1 .. Len(db) PROVE answer'[db[i]] \notin {"new", "error"}
      OBVIOUS
    <3>1. answer[db[i]] \notin {"new", "error"} /\ db[i] \in Write /\ db[i] \in Rows(db)
      BY <1>3 DEF DbInv, Rows
    <3> QED
      BY <3>1, <1>4
  <2> QED
    BY <2>1 DEF DbInv
<1>7. QueueInv'
  <2>1. Disjoint(queue, jobs)'
    BY <1>2 DEF QueueInv, Disjoint
  <2>2. \A i \in 1 .. Len(queue) : queue[i] # Head(jobs)
    BY <1>2, <1>3 DEF QueueInv, Disjoint
  <2>3. \A i \in 1 .. Len(queue) : Undecided(queue[i])'
    BY <2>2, <1>3, <1>4 DEF QueueInv, Undecided
  <2> QED
    BY <2>1, <2>3 DEF QueueInv
<1>8. JobsInv'
  <2>1. \A i \in 1 .. Len(jobs') : Undecided(jobs[i])'
    BY <1>2, <1>3, <1>4 DEF JobsInv, Undecided
  <2>2. phase' = "idle" <=> Len(jobs') = 0
    BY <1>2, <1>3
  <2>3. phase' \in {"taken", "running", "failed"} => Disjoint(jobs, db)'
    BY <1>2 DEF JobsInv, Disjoint
  <2>4. phase' = "committed" =>
          \A i \in 1 .. Len(jobs') : outcome'[jobs'[i]] = "ok" <=> jobs'[i] \in Rows(db')
    BY <1>2 DEF JobsInv
  <2>5. phase' = "taken" => done' = 0
    BY DEF JobsInv
  <2> QED
    BY <1>2, <2>1, <2>2, <2>3, <2>4, <2>5 DEF JobsInv
<1> QED
  BY <1>5, <1>6, <1>7, <1>8

LEMMA DropGroupInv ==
  ASSUME Inv, DropGroup
  PROVE  Inv'
<1>1. Head(jobs) \notin Rows(db)
  <2>1. Len(jobs) # 0 /\ jobs \in Seq(Write) /\ Disjoint(jobs, db)
    BY DEF Inv, DropGroup, JobsInv, TypeOK
  <2>2. Head(jobs) = jobs[1] /\ 1 \in 1 .. Len(jobs)
    BY <2>1, TailSeq, LenProperties
  <2> QED
    BY <2>1, <2>2 DEF Disjoint, Rows
<1> QED
  BY <1>1, PopInv DEF DropGroup

LEMMA FinishInv ==
  ASSUME Inv, Finish
  PROVE  Inv'
<1>1. Verdict(Head(jobs)) \in {"ok", "error"}
  BY DEF Verdict
<1>2. Verdict(Head(jobs)) = "error" => Head(jobs) \notin Rows(db)
  <2>1. Len(jobs) # 0 /\ jobs \in Seq(Write)
    BY DEF Inv, Finish, JobsInv, TypeOK
  <2>2. Head(jobs) = jobs[1] /\ 1 \in 1 .. Len(jobs)
    BY <2>1, TailSeq, LenProperties
  <2>3. phase = "failed" => Head(jobs) \notin Rows(db)
    BY <2>2 DEF Inv, JobsInv, Disjoint, Rows
  <2>4. phase = "committed" => (outcome[Head(jobs)] = "ok" <=> Head(jobs) \in Rows(db))
    BY <2>2 DEF Inv, JobsInv
  <2> QED
    BY <2>3, <2>4 DEF Finish, Verdict
<1> QED
  BY <1>1, <1>2, PopInv DEF Finish

LEMMA BeginInv ==
  ASSUME Inv, Begin
  PROVE  Inv'
<1> USE DEF Inv
<1>1. /\ phase = "taken" /\ phase' = "running" /\ tx' = db
      /\ UNCHANGED <<db, queue, jobs, done, outcome, result, answer, sent, open, faults>>
  BY DEF Begin
<1>2. TypeOK'
  BY <1>1 DEF TypeOK
<1>3. DbInv' /\ QueueInv' /\ JobsInv'
  BY <1>1 DEF DbInv, QueueInv, JobsInv, Undecided
<1>4. TxInv'
  <2>1. Len(jobs) \in Nat /\ Len(db) \in Nat /\ done = 0
    BY <1>1, LenProperties DEF TypeOK, JobsInv
  <2> QED
    BY <1>1, <2>1 DEF TxInv, Prefix, DbInv
<1> QED
  BY <1>2, <1>3, <1>4

\* The group fails as a whole: nothing of it has reached the database.
LEMMA FailInv ==
  ASSUME Inv, phase \in {"taken", "running"}, phase' = "failed", tx' = << >>,
         outcome' \in [Write -> {"pending", "ok", "error", "panicked"}], faults' \in Nat,
         UNCHANGED <<db, queue, jobs, done, result, answer, sent, open>>
  PROVE  Inv'
<1> USE DEF Inv
<1>1. TypeOK'
  BY EmptySeq DEF TypeOK
<1>2. DbInv' /\ QueueInv' /\ JobsInv'
  BY DEF DbInv, QueueInv, JobsInv, Undecided
<1> QED
  BY <1>1, <1>2

LEMMA GroupFailsInv ==
  ASSUME Inv, GroupFails
  PROVE  Inv'
<1>1. faults' \in Nat /\ outcome' \in [Write -> {"pending", "ok", "error", "panicked"}]
  BY DEF Inv, GroupFails, Fault, TypeOK
<1> QED
  BY <1>1, FailInv DEF GroupFails

LEMMA AbortedInv ==
  ASSUME Inv, Aborted
  PROVE  Inv'
<1>1. faults' \in Nat /\ outcome' \in [Write -> {"pending", "ok", "error", "panicked"}]
  BY DEF Inv, Aborted, Fault, TypeOK
<1> QED
  BY <1>1, FailInv DEF Aborted

LEMMA CommitInv ==
  ASSUME Inv, Commit
  PROVE  Inv'
<1> USE DEF Inv
<1>1. /\ phase = "running" /\ phase' = "committed" /\ db' = tx /\ done = Len(jobs)
      /\ UNCHANGED <<tx, queue, jobs, done, outcome, result, answer, sent, open, faults>>
  BY DEF Commit
<1>2. TxInv /\ Disjoint(jobs, db)
  BY <1>1 DEF JobsInv
<1>3. /\ Len(db) \in Nat /\ Len(tx) \in Nat
      /\ \A i \in 1 .. Len(tx) : i \in 1 .. Len(db) \/ i \in Len(db) + 1 .. Len(tx)
      /\ \A i \in 1 .. Len(tx) : tx[i] \in Write
  BY LenProperties, ElementOfSeq DEF TypeOK
<1>4. TypeOK'
  BY <1>1, <1>2 DEF TypeOK, TxInv
<1>5. \A i \in 1 .. Len(db) : tx[i] = db[i]
  BY <1>2 DEF TxInv, Prefix
<1>6. \A i \in Len(db) + 1 .. Len(tx) : \E k \in 1 .. Len(jobs) : tx[i] = jobs[k]
  BY <1>1, <1>2 DEF TxInv
<1>7. DbInv'
  <2> SUFFICES ASSUME NEW i \in 1 .. Len(tx)
               PROVE  result[tx[i]] = SubSeq(tx, 1, i - 1) /\ answer[tx[i]] \notin {"new", "error"}
    BY <1>1, <1>2 DEF DbInv, TxInv
  <2>1. CASE i \in 1 .. Len(db)
    <3>1. SubSeq(tx, 1, i - 1) = SubSeq(db, 1, i - 1)
      BY <1>2, SubSeqOfPrefix, <2>1 DEF TxInv, TypeOK
    <3> QED
      BY <2>1, <3>1, <1>5 DEF DbInv
  <2>2. CASE i \in Len(db) + 1 .. Len(tx)
    BY <2>2, <1>2, <1>6 DEF TxInv, JobsInv, Undecided
  <2> QED
    BY <1>3, <2>1, <2>2
<1>8. QueueInv'
  <2>1. Disjoint(queue, tx)
    BY <1>3, <1>5, <1>6 DEF QueueInv, Disjoint
  <2> QED
    BY <1>1, <2>1 DEF QueueInv, Undecided
<1>9. JobsInv'
  BY <1>1, <1>2 DEF JobsInv, TxInv, Undecided
<1> QED
  BY <1>1, <1>4, <1>7, <1>8, <1>9

LEMMA CloseInv ==
  ASSUME Inv, Close
  PROVE  Inv'
<1> USE DEF Inv
<1>1. UNCHANGED <<db, tx, queue, jobs, done, phase, outcome, result, answer, sent>>
  BY DEF Close, group
<1>2. TypeOK'
  <2>1. faults' \in Nat
    BY DEF Close, Fault, TypeOK
  <2>2. open' \in BOOLEAN
    BY Zenon DEF Close
  <2> QED
    BY <1>1, <2>1, <2>2 DEF TypeOK
<1>3. DbInv' /\ QueueInv' /\ JobsInv'
  BY <1>1 DEF DbInv, QueueInv, JobsInv, Undecided
<1>4. phase' = "running" => TxInv'
  BY <1>1 DEF TxInv
<1> QED
  BY <1>2, <1>3, <1>4

LEMMA CrashInv ==
  ASSUME Inv, Crash
  PROVE  Inv'
<1> USE DEF Inv
<1>1. /\ tx' = << >> /\ queue' = << >> /\ jobs' = << >> /\ done' = 0 /\ phase' = "idle"
      /\ UNCHANGED <<db, outcome, result, sent>>
  BY DEF Crash
<1>2. << >> \in Seq(Write) /\ Len(<< >>) = 0
  BY EmptySeq
<1>3. TypeOK'
  BY <1>1, <1>2, GroupAssumption DEF Crash, Fault, TypeOK
<1>4. DbInv'
  <2>1. \A w \in Write : answer[w] \notin {"new", "error"} => answer'[w] \notin {"new", "error"}
    BY DEF Crash
  <2>2. \A i \in 1 .. Len(db) : db[i] \in Write
    BY ElementOfSeq DEF TypeOK
  <2> QED
    BY <1>1, <2>1, <2>2 DEF DbInv
<1>5. QueueInv' /\ JobsInv'
  BY <1>1, <1>2 DEF QueueInv, JobsInv, Distinct, Disjoint
<1> QED
  BY <1>1, <1>3, <1>4, <1>5

LEMMA RunJobInv ==
  ASSUME Inv, RunJob
  PROVE  Inv'
<1> USE DEF Inv
<1> DEFINE w == jobs[done + 1]
<1>1. PICK o \in {"ok", "error", "panicked"} :
        /\ outcome' = [outcome EXCEPT ![w] = o]
        /\ tx' = IF o = "ok" THEN Append(tx, w) ELSE tx
        /\ faults' \in Nat
  <2>1. faults \in Nat
    BY DEF TypeOK
  <2>2. PICK o \in {"ok", "error", "panicked"} :
          /\ outcome' = [outcome EXCEPT ![w] = o]
          /\ tx' = IF o = "ok" THEN Append(tx, w) ELSE tx
          /\ IF o = "ok" THEN faults' = faults ELSE Fault
    BY DEF RunJob
  <2>3. faults' \in Nat
    BY <2>1, <2>2 DEF Fault
  <2> QED
    BY <2>2, <2>3
<1>2. /\ phase = "running" /\ done < Len(jobs) /\ done' = done + 1
      /\ result' = [result EXCEPT ![w] = tx]
      /\ UNCHANGED <<db, queue, jobs, phase, answer, sent, open>>
  BY DEF RunJob
<1>3. /\ TxInv /\ Disjoint(jobs, db) /\ Distinct(jobs)
      /\ done \in Nat /\ Len(jobs) \in Nat /\ Len(db) \in Nat /\ Len(tx) \in Nat
      /\ done + 1 \in 1 .. Len(jobs) /\ 1 .. done \subseteq 1 .. Len(jobs)
      /\ \A i \in 1 .. Len(jobs) : jobs[i] \in Write
      /\ \A i \in 1 .. Len(db) : db[i] \in Write
      /\ \A i \in 1 .. Len(tx) : tx[i] \in Write
      /\ result \in [Write -> Seq(Write)]
      /\ outcome \in [Write -> {"pending", "ok", "error", "panicked"}]
      /\ tx \in Seq(Write)
  BY <1>2, LenProperties, ElementOfSeq DEF JobsInv, TypeOK
<1>4. w \in Write
  BY <1>3
<1>5. /\ \A i \in 1 .. Len(db) : db[i] # w
      /\ \A k \in 1 .. done : jobs[k] # w
  BY <1>3 DEF Disjoint, Distinct
<1>6. \A i \in 1 .. Len(tx) : tx[i] # w
  <2> SUFFICES ASSUME NEW i \in 1 .. Len(tx) PROVE tx[i] # w
    OBVIOUS
  <2>1. CASE i \in 1 .. Len(db)
    BY <2>1, <1>3, <1>5 DEF TxInv, Prefix
  <2>2. CASE i \in Len(db) + 1 .. Len(tx)
    BY <2>2, <1>3, <1>5 DEF TxInv
  <2> QED
    BY <2>1, <2>2, <1>3
<1> HIDE DEF w
<1>7. /\ tx' \in Seq(Write) /\ Distinct(tx') /\ Len(tx') \in Nat
      /\ Len(tx) <= Len(tx') /\ \A i \in 1 .. Len(tx) : tx'[i] = tx[i]
      /\ \A i \in Len(tx) + 1 .. Len(tx') : i = Len(tx) + 1 /\ tx'[i] = w /\ o = "ok"
      /\ o = "ok" => Len(tx') = Len(tx) + 1 /\ tx'[Len(tx) + 1] = w
  <2>1. CASE o = "ok"
    BY <2>1, <1>1, <1>3, <1>4, <1>6, AppendProperties, DistinctAppend DEF TxInv
  <2>2. CASE o # "ok"
    BY <2>2, <1>1, <1>3 DEF TxInv
  <2> QED
    BY <2>1, <2>2
<1>8. TypeOK'
  <2>1. outcome' \in [Write -> {"pending", "ok", "error", "panicked"}]
    BY <1>1, <1>3
  <2>2. result' \in [Write -> Seq(Write)]
    BY <1>2, <1>3
  <2>3. done' \in 0 .. MaxGroup
    BY <1>2, <1>3, GroupAssumption DEF TypeOK
  <2> QED
    BY <1>1, <1>2, <1>7, <2>1, <2>2, <2>3 DEF TypeOK
<1>9. DbInv'
  BY <1>2, <1>3, <1>5 DEF DbInv
<1>10. QueueInv' /\ JobsInv'
  BY <1>2 DEF QueueInv, JobsInv, Undecided
<1>11. TxInv'
  <2>1. done' <= Len(jobs') /\ Distinct(tx') /\ Prefix(db', tx')
    BY <1>2, <1>3, <1>7 DEF TxInv, Prefix
  <2>2. ASSUME NEW i \in Len(db') + 1 .. Len(tx')
        PROVE  /\ \E k \in 1 .. done' : tx'[i] = jobs'[k]
               /\ result'[tx'[i]] = SubSeq(tx', 1, i - 1)
    <3>1. CASE i \in Len(db) + 1 .. Len(tx)
      <4>1. i \in 1 .. Len(tx) /\ tx'[i] = tx[i] /\ tx[i] # w /\ tx[i] \in Write /\ i - 1 \in 0 .. Len(tx)
        <5>1. i \in 1 .. Len(tx) /\ i - 1 \in 0 .. Len(tx)
          BY <3>1, <1>3
        <5> QED
          BY <5>1, <1>3, <1>6, <1>7
      <4>2. SubSeq(tx', 1, i - 1) = SubSeq(tx, 1, i - 1)
        <5>1. Prefix(tx, tx')
          BY <1>7 DEF Prefix
        <5> QED
          BY <5>1, <4>1, <1>3, <1>7, SubSeqOfPrefix
      <4>3. result'[tx[i]] = SubSeq(tx, 1, i - 1)
        BY <3>1, <4>1, <1>2, <1>3 DEF TxInv
      <4>4. \E k \in 1 .. done + 1 : tx[i] = jobs[k]
        BY <3>1, <1>3 DEF TxInv
      <4> QED
        BY <4>1, <4>2, <4>3, <4>4, <1>2
    <3>2. CASE i \in Len(tx) + 1 .. Len(tx')
      <4>1. i = Len(tx) + 1 /\ tx'[i] = w /\ o = "ok"
        BY <3>2, <1>7
      <4>2. SubSeq(tx', 1, i - 1) = tx
        BY <4>1, <1>1, <1>3, <1>4, SubSeqOfAppend, SubSeqFull
      <4>3. result'[w] = tx
        BY <1>2, <1>3, <1>4
      <4>4. w = jobs[done + 1] /\ done + 1 \in 1 .. done'
        BY <1>2, <1>3 DEF w
      <4> QED
        BY <4>1, <4>2, <4>3, <4>4, <1>2
    <3>3. i \in Len(db) + 1 .. Len(tx) \/ i \in Len(tx) + 1 .. Len(tx')
      <4>1. db' = db /\ Len(db) \in Nat /\ Len(tx) \in Nat /\ Len(tx') \in Nat
        BY <1>2, <1>3, <1>7
      <4> QED
        BY <4>1
    <3> QED
      BY <3>1, <3>2, <3>3
  <2>3. ASSUME NEW k \in 1 .. done'
        PROVE  /\ outcome'[jobs'[k]] # "pending"
               /\ outcome'[jobs'[k]] = "ok" <=> jobs'[k] \in Rows(tx')
    <3>1. \A v \in Write : v # w => (v \in Rows(tx') <=> v \in Rows(tx))
      <4>1. \A i \in 1 .. Len(tx') : i \in 1 .. Len(tx) \/ tx'[i] = w
        BY <1>3, <1>7
      <4>2. \A i \in 1 .. Len(tx) : i \in 1 .. Len(tx') /\ tx'[i] = tx[i]
        BY <1>3, <1>7
      <4> QED
        BY <4>1, <4>2 DEF Rows
    <3>2. w \in Rows(tx') <=> o = "ok"
      <4>1. o = "ok" => w \in Rows(tx')
        <5>1. ASSUME o = "ok" PROVE Len(tx) + 1 \in 1 .. Len(tx') /\ tx'[Len(tx) + 1] = w
          BY <5>1, <1>3, <1>7
        <5> QED
          BY <5>1 DEF Rows
      <4>2. o # "ok" => w \notin Rows(tx')
        BY <1>1, <1>6 DEF Rows
      <4> QED
        BY <4>1, <4>2
    <3>3. CASE k \in 1 .. done
      BY <3>1, <3>3, <1>1, <1>2, <1>3, <1>4, <1>5 DEF TxInv
    <3>4. CASE k = done + 1
      BY <3>2, <3>4, <1>1, <1>2, <1>3, <1>4 DEF w
    <3> QED
      BY <3>3, <3>4, <1>2, <1>3
  <2> QED
    BY <2>1, <2>2, <2>3 DEF TxInv
<1> QED
  BY <1>8, <1>9, <1>10, <1>11

LEMMA InvNext == Inv /\ [Next]_vars => Inv'
<1> SUFFICES ASSUME Inv, [Next]_vars PROVE Inv'
  OBVIOUS
<1>1. CASE \E w \in Write : Submit(w) \/ Cancel(w) \/ Direct(w)
  BY <1>1, SubmitInv, CancelInv, DirectInv
<1>2. CASE Committer
  BY <1>2, TakeGroupInv, DropGroupInv, BeginInv, RunJobInv, CommitInv, FinishInv DEF Committer
<1>3. CASE GroupFails \/ Aborted
  BY <1>3, GroupFailsInv, AbortedInv
<1>4. CASE Close \/ Crash
  BY <1>4, CloseInv, CrashInv
<1>5. CASE UNCHANGED vars
  <2>1. UNCHANGED <<db, tx, queue, jobs, done, phase, outcome, result, answer, sent, open, faults>>
    BY <1>5 DEF vars
  <2> QED
    BY <2>1 DEF Inv, TypeOK, DbInv, QueueInv, JobsInv, TxInv, Undecided
<1> QED
  BY <1>1, <1>2, <1>3, <1>4, <1>5 DEF Next

\* The bookkeeping of the committer is right in every reachable state: what the
\* queue, the group, the open transaction and the database have to do with each
\* other (run_groups, run_group).
THEOREM CommitterInvariant == Spec => []Inv
  BY InvInit, InvNext, PTL DEF Spec

\* Variables keep their types, a group never exceeds MaxGroup, and no job of a
\* committed group is without an outcome (the unreachable!() of Job::finish).
THEOREM CommitterTypeCorrect == Spec => []TypeOK
<1>1. Inv => TypeOK
  BY DEF Inv
<1> QED
  BY <1>1, CommitterInvariant, PTL
------------------------------------------------------------------------------
\* What the mapping makes of result.
Saw == [w \in Write |-> IF w \in Rows(db) THEN result[w] ELSE << >>]

LEMMA MapInit == Init => Atomic!Init
  BY DEF Init, Atomic!Init, Rows

LEMMA SameSaw ==
  ASSUME db' = db, \A w \in Rows(db) : result'[w] = result[w]
  PROVE  Saw' = Saw
<1>1. Rows(db)' = Rows(db)
  BY DEF Rows
<1> QED
  BY <1>1 DEF Saw

\* Steps that the mapping hides.
LEMMA MapStutter ==
  ASSUME Inv, TakeGroup \/ Begin \/ RunJob \/ GroupFails \/ Aborted \/ Close
  PROVE  UNCHANGED Atomic!vars
<1>1. db' = db /\ answer' = answer
  BY DEF TakeGroup, Begin, RunJob, GroupFails, Aborted, Close
<1>2. \A w \in Rows(db) : result'[w] = result[w]
  <2>1. CASE RunJob
    <3>1. /\ result' = [result EXCEPT ![jobs[done + 1]] = tx]
          /\ done + 1 \in 1 .. Len(jobs) /\ Disjoint(jobs, db)
          /\ result \in [Write -> Seq(Write)]
      BY <2>1, LenProperties DEF RunJob, Inv, JobsInv, TypeOK
    <3>2. \A i \in 1 .. Len(db) : db[i] # jobs[done + 1] /\ db[i] \in Write
      BY <3>1, ElementOfSeq DEF Disjoint, Inv, TypeOK
    <3> QED
      BY <3>1, <3>2 DEF Rows
  <2>2. CASE TakeGroup \/ Begin \/ GroupFails \/ Aborted \/ Close
    BY <2>2 DEF TakeGroup, Begin, GroupFails, Aborted, Close, group
  <2> QED
    BY <2>1, <2>2
<1> QED
  BY <1>1, <1>2, SameSaw DEF Atomic!vars, Saw

LEMMA MapCaller ==
  ASSUME NEW w \in Write
  PROVE  /\ Submit(w) => Atomic!Submit(w)
         /\ Cancel(w) => Atomic!Cancel(w)
<1>1. (Submit(w) \/ Cancel(w)) => db' = db /\ result' = result
  BY DEF Submit, Cancel, group
<1>2. (Submit(w) \/ Cancel(w)) => Saw' = Saw
  BY <1>1, SameSaw
<1> QED
  BY <1>1, <1>2 DEF Submit, Cancel, Atomic!Submit, Atomic!Cancel, Saw

LEMMA MapDirect ==
  ASSUME Inv, NEW w \in Write, Direct(w)
  PROVE  Atomic!Direct(w)
<1>1. /\ db' = Append(db, w) /\ db \in Seq(Write)
      /\ result' = [result EXCEPT ![w] = db] /\ result \in [Write -> Seq(Write)]
      /\ answer[w] = "new" /\ answer' = [answer EXCEPT ![w] = "ok"]
  BY DEF Direct, Inv, TypeOK
<1>2. /\ Len(db') = Len(db) + 1 /\ Len(db) \in Nat
      /\ \A i \in 1 .. Len(db) : db'[i] = db[i]
      /\ db'[Len(db) + 1] = w
  BY <1>1, AppendProperties, LenProperties
<1>3. w \notin Rows(db)
  BY <1>1 DEF Inv, DbInv, Rows
<1>4. \A v \in Write : v \in Rows(db') <=> v \in Rows(db) \/ v = w
  <2>1. \A i \in 1 .. Len(db') : i \in 1 .. Len(db) \/ i = Len(db) + 1
    BY <1>2
  <2>2. \A i \in 1 .. Len(db) : i \in 1 .. Len(db')
    BY <1>2
  <2>3. Len(db) + 1 \in 1 .. Len(db')
    BY <1>2
  <2> QED
    BY <1>2, <2>1, <2>2, <2>3 DEF Rows
<1>5. Saw' = [Saw EXCEPT ![w] = db]
  <2>1. Saw' = [v \in Write |-> IF v \in Rows(db') THEN result'[v] ELSE << >>]
    BY DEF Saw, Rows
  <2> QED
    BY <1>1, <1>3, <1>4, <2>1 DEF Saw
<1> QED
  BY <1>1, <1>5 DEF Atomic!Direct, Saw

\* An answer is "ok" exactly when the write is in the database.
LEMMA MapReply ==
  ASSUME Inv, DropGroup \/ Finish
  PROVE  UNCHANGED Atomic!vars \/ \E w \in Write : Atomic!Reply(w)
<1> DEFINE w == Head(jobs)
<1>1. /\ Len(jobs) # 0 /\ jobs \in Seq(Write) /\ answer \in [Write -> {"new", "waiting", "gone", "ok", "error", "lost"}]
      /\ db' = db /\ result' = result
  BY DEF Inv, DropGroup, Finish, JobsInv, TypeOK
<1>2. w = jobs[1] /\ 1 \in 1 .. Len(jobs) /\ w \in Write
  BY <1>1, TailSeq, LenProperties
<1>3. PICK v : /\ answer' = [answer EXCEPT ![w] = IF @ = "waiting" THEN v ELSE @]
               /\ v = IF w \in Rows(db) THEN "ok" ELSE "error"
  <2>1. phase \in {"taken", "failed"} => w \notin Rows(db)
    BY <1>2 DEF Inv, JobsInv, Disjoint, Rows
  <2>2. phase = "committed" => (outcome[w] = "ok" <=> w \in Rows(db))
    BY <1>2 DEF Inv, JobsInv
  <2>3. CASE DropGroup
    BY <2>1, <2>3 DEF DropGroup
  <2>4. CASE Finish
    BY <2>1, <2>2, <2>4 DEF Finish, Verdict
  <2> QED
    BY <2>3, <2>4
<1>4. Saw' = Saw
  BY <1>1, SameSaw
<1> HIDE DEF w
<1>5. CASE answer[w] = "waiting"
  <2>1. Atomic!Happened = Rows(db)
    BY DEF Atomic!Happened, Rows
  <2>2. Atomic!Reply(w)
    BY <1>1, <1>2, <1>3, <1>4, <1>5, <2>1 DEF Atomic!Reply, Saw
  <2> QED
    BY <1>2, <2>2
<1>6. CASE answer[w] # "waiting"
  <2>1. answer' = answer
    BY <1>1, <1>3, <1>6
  <2> QED
    BY <1>1, <1>4, <2>1 DEF Atomic!vars, Saw
<1> QED
  BY <1>5, <1>6

\* The commit of a group makes its successful writes happen, in their order.
LEMMA MapCommit ==
  ASSUME Inv, Commit
  PROVE  Atomic!Happen
<1>1. /\ phase = "running" /\ db' = tx /\ done = Len(jobs)
      /\ UNCHANGED <<jobs, result, answer>>
  BY DEF Commit
<1>2. /\ TxInv /\ Disjoint(jobs, db)
      /\ tx \in Seq(Write) /\ db \in Seq(Write) /\ result \in [Write -> Seq(Write)]
  BY <1>1 DEF Inv, JobsInv, TypeOK
<1>3. Len(db) \in Nat /\ Len(tx) \in Nat /\ \A i \in 1 .. Len(tx) : tx[i] \in Write
  BY <1>2, LenProperties, ElementOfSeq
<1>4. Len(db) <= Len(tx) /\ \A i \in 1 .. Len(db) : tx[i] = db[i]
  BY <1>2 DEF TxInv, Prefix
<1>5. Saw' = [w \in Write |-> IF w \in Rows(tx) THEN result[w] ELSE << >>]
  BY <1>1 DEF Saw, Rows
<1>6. ASSUME NEW i \in Len(db) + 1 .. Len(tx)
      PROVE  /\ answer[tx[i]] \in {"waiting", "gone"}
             /\ \A j \in 1 .. i - 1 : tx[j] # tx[i]
             /\ Saw'[tx[i]] = SubSeq(tx, 1, i - 1)
  <2>1. i \in 1 .. Len(tx) /\ \A j \in 1 .. i - 1 : j \in 1 .. Len(tx) /\ j # i
    BY <1>3
  <2>2. PICK k \in 1 .. Len(jobs) : tx[i] = jobs[k]
    BY <1>1, <1>2 DEF TxInv
  <2>3. answer[tx[i]] \in {"waiting", "gone"}
    BY <2>2 DEF Inv, JobsInv, Undecided
  <2>4. \A j \in 1 .. i - 1 : tx[j] # tx[i]
    BY <1>2, <2>1 DEF TxInv, Distinct
  <2>5. tx[i] \in Rows(tx) /\ tx[i] \in Write
    BY <1>3, <2>1 DEF Rows
  <2>6. result[tx[i]] = SubSeq(tx, 1, i - 1)
    BY <1>2 DEF TxInv
  <2> QED
    BY <1>5, <2>3, <2>4, <2>5, <2>6
<1>7. Saw' \in [Write -> Seq(Write)]
  BY <1>2, <1>5, EmptySeq
<1>8. ASSUME NEW w \in Write, \A i \in Len(db) + 1 .. Len(tx) : tx[i] # w
      PROVE  Saw'[w] = Saw[w]
  <2>1. w \in Rows(tx) <=> w \in Rows(db)
    <3>1. \A i \in 1 .. Len(tx) : i \in 1 .. Len(db) \/ i \in Len(db) + 1 .. Len(tx)
      BY <1>3
    <3>2. \A i \in 1 .. Len(db) : i \in 1 .. Len(tx)
      BY <1>3, <1>4
    <3> QED
      BY <1>4, <1>8, <3>1, <3>2 DEF Rows
  <2> QED
    BY <1>5, <2>1 DEF Saw
<1> QED
  BY <1>1, <1>2, <1>4, <1>6, <1>7, <1>8 DEF Atomic!Happen, Saw

LEMMA MapCrash ==
  ASSUME Inv, Crash
  PROVE  Atomic!Stop
<1>1. db' = db /\ result' = result
  BY DEF Crash
<1>2. Saw' = Saw
  BY <1>1, SameSaw
<1> QED
  BY <1>1, <1>2 DEF Crash, Atomic!Stop, Saw

LEMMA MapNext == Inv /\ [Next]_vars => [Atomic!Next]_(Atomic!vars)
<1> SUFFICES ASSUME Inv, [Next]_vars PROVE Atomic!Next \/ UNCHANGED Atomic!vars
  OBVIOUS
<1>1. CASE \E w \in Write : Submit(w) \/ Cancel(w) \/ Direct(w)
  BY <1>1, MapCaller, MapDirect DEF Atomic!Next
<1>2. CASE TakeGroup \/ Begin \/ RunJob \/ GroupFails \/ Aborted \/ Close
  BY <1>2, MapStutter
<1>3. CASE DropGroup \/ Finish
  BY <1>3, MapReply DEF Atomic!Next
<1>4. CASE Commit
  BY <1>4, MapCommit DEF Atomic!Next
<1>5. CASE Crash
  BY <1>5, MapCrash DEF Atomic!Next
<1>6. CASE UNCHANGED vars
  <2>1. db' = db /\ result' = result /\ answer' = answer
    BY <1>6 DEF vars
  <2> QED
    BY <2>1, SameSaw DEF Atomic!vars, Saw
<1> QED
  BY <1>1, <1>2, <1>3, <1>4, <1>5, <1>6 DEF Next, Committer

\* Module comment, "exactly as separate transactions on the one writer would":
\* for any writes and any group size, whatever fails, is cancelled or crashes, the
\* committer and the direct writes implement AtomicWriter (run_group, Job::finish).
THEOREM GroupCommitIsAtomic == Spec => AtomicSpec
<1>1. Init => Atomic!Init
  BY MapInit
<1>2. Inv /\ [Next]_vars => [Atomic!Next]_(Atomic!vars)
  BY MapNext
<1> QED
  BY <1>1, <1>2, CommitterInvariant, PTL DEF Spec, AtomicSpec, Atomic!Spec
------------------------------------------------------------------------------
\* Wherever a and b were queued, a was queued before b.
Before(s, a, b) == \A m, n \in 1 .. Len(s) : s[m] = a /\ s[n] = b => m < n
Ordered(s, q) == \A i, j \in 1 .. Len(q) : i < j => Before(s, q[i], q[j])
Crossed(s, q, r) == \A i \in 1 .. Len(q), j \in 1 .. Len(r) : Before(s, q[i], r[j])

\* Database, group and queue are stretches of the order in which the writes
\* were queued; a direct write is in none of them but the database.
OrderInv ==
  /\ \A m \in 1 .. Len(sent) : answer[sent[m]] # "new"
  /\ Ordered(sent, db) /\ Ordered(sent, jobs) /\ Ordered(sent, queue)
  /\ Crossed(sent, db, queue) /\ Crossed(sent, jobs, queue)
  /\ phase \in {"taken", "running", "failed"} => Crossed(sent, db, jobs)
  /\ phase = "running" => Ordered(sent, tx)
------------------------------------------------------------------------------
\* All the sequences of the committer are sequences of writes.
LEMMA Sequences ==
  ASSUME TypeOK
  PROVE  \A s \in {db, tx, queue, jobs, sent} :
           s \in Seq(Write) /\ Len(s) \in Nat /\ \A i \in 1 .. Len(s) : s[i] \in Write
<1> SUFFICES ASSUME NEW s \in {db, tx, queue, jobs, sent}
             PROVE  s \in Seq(Write) /\ Len(s) \in Nat /\ \A i \in 1 .. Len(s) : s[i] \in Write
  OBVIOUS
<1>1. s \in Seq(Write)
  BY DEF TypeOK
<1> QED
  BY <1>1, LenProperties, ElementOfSeq

LEMMA OrderInit == Init => OrderInv
  BY EmptySeq DEF Init, OrderInv, Ordered, Crossed

\* What is queued last comes after everything that was queued.
LEMMA BeforeAppend ==
  ASSUME NEW s \in Seq(Write), NEW w \in Write, \A m \in 1 .. Len(s) : s[m] # w,
         NEW a \in Write, a # w
  PROVE  /\ Before(Append(s, w), a, w)
         /\ \A b \in Write : b # w /\ Before(s, a, b) => Before(Append(s, w), a, b)
<1> DEFINE t == Append(s, w)
<1>1. /\ Len(t) = Len(s) + 1 /\ Len(s) \in Nat /\ t[Len(s) + 1] = w
      /\ \A i \in 1 .. Len(s) : t[i] = s[i]
  BY AppendProperties, LenProperties
<1>2. \A i \in 1 .. Len(t) : i \in 1 .. Len(s) \/ i = Len(s) + 1
  BY <1>1
<1> HIDE DEF t
<1>3. Before(t, a, w)
  BY <1>1, <1>2 DEF Before
<1>4. ASSUME NEW b \in Write, b # w, Before(s, a, b) PROVE Before(t, a, b)
  BY <1>1, <1>2, <1>4 DEF Before
<1> QED
  BY <1>3, <1>4 DEF t

\* Appending to an ordered sequence what comes after all of it.
LEMMA OrderedAppend ==
  ASSUME NEW s, NEW q \in Seq(Write), NEW w \in Write, Ordered(s, q),
         \A i \in 1 .. Len(q) : Before(s, q[i], w)
  PROVE  Ordered(s, Append(q, w))
<1> DEFINE t == Append(q, w)
<1>1. /\ Len(t) = Len(q) + 1 /\ Len(q) \in Nat /\ t[Len(q) + 1] = w
      /\ \A i \in 1 .. Len(q) : t[i] = q[i]
  BY AppendProperties, LenProperties
<1> HIDE DEF t
<1> SUFFICES ASSUME NEW i \in 1 .. Len(t), NEW j \in 1 .. Len(t), i < j
             PROVE  Before(s, t[i], t[j])
  BY DEF Ordered, t
<1>2. i \in 1 .. Len(q)
  BY <1>1
<1>3. CASE j \in 1 .. Len(q)
  BY <1>1, <1>2, <1>3 DEF Ordered
<1>4. CASE j = Len(q) + 1
  BY <1>1, <1>2, <1>4
<1> QED
  BY <1>1, <1>3, <1>4

LEMMA CrossedAppend ==
  ASSUME NEW s, NEW q \in Seq(Write), NEW r \in Seq(Write), NEW w \in Write, Crossed(s, q, r)
  PROVE  /\ (\A i \in 1 .. Len(q) : Before(s, q[i], w)) => Crossed(s, q, Append(r, w))
         /\ (\A i \in 1 .. Len(r) : Before(s, w, r[i])) => Crossed(s, Append(q, w), r)
<1>1. /\ Len(Append(r, w)) = Len(r) + 1 /\ Len(r) \in Nat /\ Append(r, w)[Len(r) + 1] = w
      /\ \A i \in 1 .. Len(r) : Append(r, w)[i] = r[i]
  BY AppendProperties, LenProperties
<1>2. /\ Len(Append(q, w)) = Len(q) + 1 /\ Len(q) \in Nat /\ Append(q, w)[Len(q) + 1] = w
      /\ \A i \in 1 .. Len(q) : Append(q, w)[i] = q[i]
  BY AppendProperties, LenProperties
<1>3. ASSUME \A i \in 1 .. Len(q) : Before(s, q[i], w),
             NEW i \in 1 .. Len(q), NEW j \in 1 .. Len(Append(r, w))
      PROVE  Before(s, q[i], Append(r, w)[j])
  <2>1. CASE j \in 1 .. Len(r)
    BY <1>1, <2>1 DEF Crossed
  <2>2. CASE j = Len(r) + 1
    BY <1>1, <1>3, <2>2
  <2> QED
    BY <1>1, <2>1, <2>2
<1>4. ASSUME \A i \in 1 .. Len(r) : Before(s, w, r[i]),
             NEW i \in 1 .. Len(Append(q, w)), NEW j \in 1 .. Len(r)
      PROVE  Before(s, Append(q, w)[i], r[j])
  <2>1. CASE i \in 1 .. Len(q)
    BY <1>2, <2>1 DEF Crossed
  <2>2. CASE i = Len(q) + 1
    BY <1>2, <1>4, <2>2
  <2> QED
    BY <1>2, <2>1, <2>2
<1> QED
  BY <1>3, <1>4 DEF Crossed

LEMMA OrderSubmit ==
  ASSUME Inv, OrderInv, NEW w \in Write, Submit(w)
  PROVE  OrderInv'
<1>1. /\ TypeOK /\ DbInv /\ QueueInv /\ JobsInv /\ (phase = "running" => TxInv)
      /\ answer[w] = "new" /\ answer' = [answer EXCEPT ![w] = "waiting"]
      /\ queue' = Append(queue, w) /\ sent' = Append(sent, w)
      /\ UNCHANGED <<db, tx, jobs, phase>>
  BY DEF Inv, Submit
<1>2. \A s \in {db, tx, queue, jobs, sent} :
        s \in Seq(Write) /\ Len(s) \in Nat /\ \A i \in 1 .. Len(s) : s[i] \in Write
  BY <1>1, Sequences
<1>3. /\ Len(queue') = Len(queue) + 1 /\ queue'[Len(queue) + 1] = w
      /\ \A i \in 1 .. Len(queue) : queue'[i] = queue[i]
      /\ Len(sent') = Len(sent) + 1 /\ sent'[Len(sent) + 1] = w
      /\ \A i \in 1 .. Len(sent) : sent'[i] = sent[i]
  BY <1>1, <1>2, AppendProperties
<1>4. /\ \A i \in 1 .. Len(db) : db[i] # w
      /\ \A i \in 1 .. Len(queue) : queue[i] # w
      /\ \A i \in 1 .. Len(jobs) : jobs[i] # w
      /\ \A i \in 1 .. Len(sent) : sent[i] # w
  BY <1>1, <1>2 DEF DbInv, QueueInv, JobsInv, Undecided, OrderInv
<1>5. phase = "running" => \A i \in 1 .. Len(tx) : tx[i] # w
  <2> SUFFICES ASSUME phase = "running", NEW i \in 1 .. Len(tx) PROVE tx[i] # w
    OBVIOUS
  <2>1. CASE i \in 1 .. Len(db)
    BY <1>1, <1>4, <2>1 DEF TxInv, Prefix
  <2>2. CASE i \in Len(db) + 1 .. Len(tx)
    <3>1. PICK k \in 1 .. done : tx[i] = jobs[k]
      BY <1>1, <2>2 DEF TxInv
    <3>2. k \in 1 .. Len(jobs)
      BY <1>1, <1>2 DEF TxInv, TypeOK
    <3> QED
      BY <3>1, <3>2, <1>4
  <2> QED
    BY <2>1, <2>2, <1>2
<1>6. \A a \in Write : a # w => Before(sent', a, w)
  BY <1>1, <1>2, <1>4, BeforeAppend
<1>7. \A a, b \in Write : a # w /\ b # w /\ Before(sent, a, b) => Before(sent', a, b)
  BY <1>1, <1>2, <1>4, BeforeAppend
<1>8. \A m \in 1 .. Len(sent') : answer'[sent'[m]] # "new"
  <2> SUFFICES ASSUME NEW m \in 1 .. Len(sent') PROVE answer'[sent'[m]] # "new"
    OBVIOUS
  <2>1. CASE m = Len(sent) + 1
    BY <2>1, <1>1, <1>3 DEF TypeOK
  <2>2. CASE m \in 1 .. Len(sent)
    BY <2>2, <1>1, <1>2, <1>3 DEF TypeOK, OrderInv
  <2> QED
    BY <2>1, <2>2, <1>2, <1>3
<1>9. Ordered(sent', db') /\ Ordered(sent', jobs') /\ (phase' = "running" => Ordered(sent', tx'))
  <2>1. Ordered(sent', db)
    BY <1>2, <1>4, <1>7 DEF OrderInv, Ordered
  <2>2. Ordered(sent', jobs)
    BY <1>2, <1>4, <1>7 DEF OrderInv, Ordered
  <2>3. phase = "running" => Ordered(sent', tx)
    BY <1>2, <1>5, <1>7 DEF OrderInv, Ordered
  <2> QED
    BY <2>1, <2>2, <2>3, <1>1
<1>10. Ordered(sent', queue')
  <2>1. Ordered(sent', queue)
    BY <1>2, <1>4, <1>7 DEF OrderInv, Ordered
  <2>2. \A i \in 1 .. Len(queue) : Before(sent', queue[i], w)
    BY <1>2, <1>4, <1>6
  <2>3. queue \in Seq(Write)
    BY <1>2
  <2> QED
    BY <2>1, <2>2, <2>3, <1>1, OrderedAppend
<1>11. Crossed(sent', db', queue') /\ Crossed(sent', jobs', queue')
  <2>1. Crossed(sent', db, queue) /\ Crossed(sent', jobs, queue)
    BY <1>2, <1>4, <1>7 DEF OrderInv, Crossed
  <2>2. /\ \A i \in 1 .. Len(db) : Before(sent', db[i], w)
        /\ \A i \in 1 .. Len(jobs) : Before(sent', jobs[i], w)
    BY <1>2, <1>4, <1>6
  <2>3. queue \in Seq(Write) /\ db \in Seq(Write) /\ jobs \in Seq(Write)
    BY <1>2
  <2>4. Crossed(sent', db, Append(queue, w)) /\ Crossed(sent', jobs, Append(queue, w))
    BY <2>1, <2>2, <2>3, CrossedAppend
  <2> QED
    BY <2>4, <1>1
<1>12. phase \in {"taken", "running", "failed"} => Crossed(sent', db, jobs)
  BY <1>2, <1>4, <1>7 DEF OrderInv, Crossed
<1> QED
  BY <1>1, <1>8, <1>9, <1>10, <1>11, <1>12 DEF OrderInv

\* A write that was not queued stands in no order to the ones that were.
LEMMA OrderDirect ==
  ASSUME Inv, OrderInv, NEW w \in Write, Direct(w)
  PROVE  OrderInv'
<1>1. /\ TypeOK /\ answer[w] = "new" /\ answer' = [answer EXCEPT ![w] = "ok"]
      /\ db' = Append(db, w) /\ phase \in {"idle", "taken"}
      /\ UNCHANGED <<tx, queue, jobs, sent, phase>>
  BY DEF Inv, Direct
<1>2. \A s \in {db, tx, queue, jobs, sent} :
        s \in Seq(Write) /\ Len(s) \in Nat /\ \A i \in 1 .. Len(s) : s[i] \in Write
  BY <1>1, Sequences
<1>3. queue \in Seq(Write) /\ db \in Seq(Write) /\ jobs \in Seq(Write)
  BY <1>2
<1>4. \A i \in 1 .. Len(sent) : sent[i] # w
  BY <1>1 DEF OrderInv
<1>5. \A a : Before(sent, a, w) /\ Before(sent, w, a)
  BY <1>4 DEF Before
<1>6. \A m \in 1 .. Len(sent) : answer'[sent[m]] # "new"
  BY <1>1, <1>2, <1>4 DEF TypeOK, OrderInv
<1>7. Ordered(sent, db')
  BY <1>1, <1>3, <1>5, OrderedAppend DEF OrderInv
<1>8. Crossed(sent, db', queue)
  BY <1>1, <1>3, <1>5, CrossedAppend DEF OrderInv
<1>9. phase = "taken" => Crossed(sent, db', jobs)
  BY <1>1, <1>3, <1>5, CrossedAppend DEF OrderInv
<1> QED
  BY <1>1, <1>6, <1>7, <1>8, <1>9 DEF OrderInv

LEMMA OrderTake ==
  ASSUME Inv, OrderInv, TakeGroup
  PROVE  OrderInv'
<1>1. /\ TypeOK /\ phase = "idle" /\ queue # << >> /\ phase' = "taken"
      /\ UNCHANGED <<db, answer, sent>>
  BY DEF Inv, TakeGroup
<1>2. queue \in Seq(Write) /\ Len(queue) \in Nat /\ \A i \in 1 .. Len(queue) : queue[i] \in Write
  BY <1>1, Sequences
<1>3. PICK n \in 1 .. Len(queue) :
        jobs' = SubSeq(queue, 1, n) /\ queue' = SubSeq(queue, n + 1, Len(queue))
  <2> DEFINE k == IF Len(queue) < MaxGroup THEN Len(queue) ELSE MaxGroup
  <2>1. Len(queue) # 0
    BY <1>1, <1>2, EmptySeq
  <2>2. k \in 1 .. Len(queue)
    BY <2>1, <1>2, GroupAssumption
  <2>3. jobs' = SubSeq(queue, 1, k) /\ queue' = SubSeq(queue, k + 1, Len(queue))
    BY DEF TakeGroup
  <2> QED
    BY <2>2, <2>3
<1>4. /\ Len(jobs') = n /\ \A i \in 1 .. n : jobs'[i] = queue[i]
      /\ Len(queue') = Len(queue) - n /\ \A i \in 1 .. Len(queue) - n : queue'[i] = queue[n + i]
  <2>1. /\ Len(jobs') = IF 1 <= n THEN n - 1 + 1 ELSE 0
        /\ \A i \in 1 .. n - 1 + 1 : jobs'[i] = queue[1 + i - 1]
    <3>1. \A i \in 1 .. n : queue[i] \in Write
      BY <1>2
    <3> QED
      BY <3>1, <1>3, <1>2, SubSeqProperties, n \in Int, 1 \in Int
  <2>2. /\ Len(queue') = IF n + 1 <= Len(queue) THEN Len(queue) - (n + 1) + 1 ELSE 0
        /\ \A i \in 1 .. Len(queue) - (n + 1) + 1 : queue'[i] = queue[n + 1 + i - 1]
    <3>1. \A i \in n + 1 .. Len(queue) : queue[i] \in Write
      BY <1>2
    <3> QED
      BY <3>1, <1>3, <1>2, SubSeqProperties, n + 1 \in Int, Len(queue) \in Int
  <2>3. Len(jobs') = n /\ Len(queue') = Len(queue) - n
    BY <2>1, <2>2, <1>2
  <2>4. \A i \in 1 .. n : i \in 1 .. n - 1 + 1 /\ 1 + i - 1 = i
    BY <1>2
  <2>5. \A i \in 1 .. Len(queue) - n : i \in 1 .. Len(queue) - (n + 1) + 1 /\ n + 1 + i - 1 = n + i
    BY <1>2
  <2>6. \A i \in 1 .. n : jobs'[i] = queue[i]
    BY <2>1, <2>4
  <2>7. \A i \in 1 .. Len(queue) - n : queue'[i] = queue[n + i]
    BY <2>2, <2>5
  <2> QED
    BY <2>3, <2>6, <2>7
<1>5. Ordered(sent, jobs') /\ Ordered(sent, queue')
  <2>1. ASSUME NEW i \in 1 .. n, NEW j \in 1 .. n, i < j PROVE Before(sent, jobs'[i], jobs'[j])
    <3>1. i \in 1 .. Len(queue) /\ j \in 1 .. Len(queue) /\ jobs'[i] = queue[i] /\ jobs'[j] = queue[j]
      BY <1>2, <1>4
    <3> QED
      BY <2>1, <3>1 DEF OrderInv, Ordered
  <2>2. ASSUME NEW i \in 1 .. Len(queue) - n, NEW j \in 1 .. Len(queue) - n, i < j
        PROVE  Before(sent, queue'[i], queue'[j])
    <3>1. /\ n + i \in 1 .. Len(queue) /\ n + j \in 1 .. Len(queue) /\ n + i < n + j
          /\ queue'[i] = queue[n + i] /\ queue'[j] = queue[n + j]
      BY <1>2, <1>4, <2>2
    <3> QED
      BY <3>1 DEF OrderInv, Ordered
  <2> QED
    BY <1>4, <2>1, <2>2 DEF Ordered
<1>6. Crossed(sent, db, queue') /\ Crossed(sent, db, jobs')
  <2>1. ASSUME NEW i \in 1 .. Len(db), NEW j \in 1 .. n PROVE Before(sent, db[i], jobs'[j])
    <3>1. j \in 1 .. Len(queue) /\ jobs'[j] = queue[j]
      BY <1>2, <1>4
    <3> QED
      BY <3>1 DEF OrderInv, Crossed
  <2>2. ASSUME NEW i \in 1 .. Len(db), NEW j \in 1 .. Len(queue) - n PROVE Before(sent, db[i], queue'[j])
    <3>1. n + j \in 1 .. Len(queue) /\ queue'[j] = queue[n + j]
      BY <1>2, <1>4
    <3> QED
      BY <3>1 DEF OrderInv, Crossed
  <2> QED
    BY <1>4, <2>1, <2>2 DEF Crossed
<1>7. Crossed(sent, jobs', queue')
  <2>1. ASSUME NEW i \in 1 .. n, NEW j \in 1 .. Len(queue) - n PROVE Before(sent, jobs'[i], queue'[j])
    <3>1. /\ i \in 1 .. Len(queue) /\ n + j \in 1 .. Len(queue) /\ i < n + j
          /\ jobs'[i] = queue[i] /\ queue'[j] = queue[n + j]
      BY <1>2, <1>4
    <3> QED
      BY <3>1 DEF OrderInv, Ordered
  <2> QED
    BY <1>4, <2>1 DEF Crossed
<1> QED
  BY <1>1, <1>5, <1>6, <1>7 DEF OrderInv

\* The first job of a group leaves it, answered or not.
LEMMA OrderPop ==
  ASSUME Inv, OrderInv, jobs # << >>, jobs' = Tail(jobs),
         phase \in {"taken", "committed", "failed"}, phase' \in {"idle", phase},
         \A w \in Write : answer'[w] = "new" => answer[w] = "new",
         UNCHANGED <<db, queue, sent>>
  PROVE  OrderInv'
<1>1. TypeOK
  BY DEF Inv
<1>2. \A s \in {db, tx, queue, jobs, sent} :
        s \in Seq(Write) /\ Len(s) \in Nat /\ \A i \in 1 .. Len(s) : s[i] \in Write
  BY <1>1, Sequences
<1>3. /\ Len(jobs') = Len(jobs) - 1
      /\ \A i \in 1 .. Len(jobs') : i + 1 \in 1 .. Len(jobs) /\ jobs'[i] = jobs[i + 1]
  BY <1>2, TailSeq, EmptySeq
<1>4. Ordered(sent, jobs')
  BY <1>2, <1>3 DEF OrderInv, Ordered
<1>5. Crossed(sent, jobs', queue)
  BY <1>2, <1>3 DEF OrderInv, Crossed
<1>6. phase' \in {"taken", "failed"} => Crossed(sent, db, jobs')
  BY <1>2, <1>3 DEF OrderInv, Crossed
<1>7. \A m \in 1 .. Len(sent) : answer'[sent[m]] # "new"
  BY <1>2 DEF OrderInv
<1> QED
  BY <1>4, <1>5, <1>6, <1>7 DEF OrderInv

LEMMA OrderRun ==
  ASSUME Inv, OrderInv, RunJob
  PROVE  OrderInv'
<1>1. /\ TypeOK /\ TxInv /\ phase = "running" /\ done < Len(jobs)
      /\ tx' \in {tx, Append(tx, jobs[done + 1])}
      /\ UNCHANGED <<db, queue, jobs, phase, answer, sent>>
  BY DEF Inv, RunJob
<1>2. \A s \in {db, tx, queue, jobs, sent} :
        s \in Seq(Write) /\ Len(s) \in Nat /\ \A i \in 1 .. Len(s) : s[i] \in Write
  BY <1>1, Sequences
<1>3. done \in Nat /\ done + 1 \in 1 .. Len(jobs)
  BY <1>1, <1>2 DEF TypeOK
<1>4. \A i \in 1 .. Len(tx) : Before(sent, tx[i], jobs[done + 1])
  <2> SUFFICES ASSUME NEW i \in 1 .. Len(tx) PROVE Before(sent, tx[i], jobs[done + 1])
    OBVIOUS
  <2>1. CASE i \in 1 .. Len(db)
    BY <1>1, <1>3, <2>1 DEF TxInv, Prefix, OrderInv, Crossed
  <2>2. CASE i \in Len(db) + 1 .. Len(tx)
    <3>1. PICK k \in 1 .. done : tx[i] = jobs[k]
      BY <1>1, <2>2 DEF TxInv
    <3>2. k \in 1 .. Len(jobs) /\ k < done + 1
      BY <1>2, <1>3
    <3> QED
      BY <3>1, <3>2, <1>3 DEF OrderInv, Ordered
  <2> QED
    BY <2>1, <2>2, <1>2
<1>5. Ordered(sent, Append(tx, jobs[done + 1]))
  <2>1. tx \in Seq(Write) /\ jobs[done + 1] \in Write
    BY <1>2, <1>3
  <2>2. Ordered(sent, tx)
    BY <1>1 DEF OrderInv
  <2> QED
    BY <2>1, <2>2, <1>4, OrderedAppend
<1>6. Ordered(sent, tx')
  BY <1>1, <1>5 DEF OrderInv
<1> QED
  BY <1>1, <1>6 DEF OrderInv

LEMMA OrderCommit ==
  ASSUME Inv, OrderInv, Commit
  PROVE  OrderInv'
<1>1. /\ TypeOK /\ TxInv /\ phase = "running" /\ db' = tx /\ phase' = "committed"
      /\ UNCHANGED <<queue, jobs, answer, sent>>
  BY DEF Inv, Commit
<1>2. \A s \in {db, tx, queue, jobs, sent} :
        s \in Seq(Write) /\ Len(s) \in Nat /\ \A i \in 1 .. Len(s) : s[i] \in Write
  BY <1>1, Sequences
<1>3. Crossed(sent, tx, queue)
  <2> SUFFICES ASSUME NEW i \in 1 .. Len(tx), NEW j \in 1 .. Len(queue)
               PROVE  Before(sent, tx[i], queue[j])
    BY DEF Crossed
  <2>1. CASE i \in 1 .. Len(db)
    BY <1>1, <2>1 DEF TxInv, Prefix, OrderInv, Crossed
  <2>2. CASE i \in Len(db) + 1 .. Len(tx)
    <3>1. PICK k \in 1 .. done : tx[i] = jobs[k]
      BY <1>1, <2>2 DEF TxInv
    <3>2. k \in 1 .. Len(jobs)
      BY <1>1, <1>2 DEF TypeOK, TxInv
    <3> QED
      BY <3>1, <3>2 DEF OrderInv, Crossed
  <2> QED
    BY <2>1, <2>2, <1>2
<1> QED
  BY <1>1, <1>3 DEF OrderInv

LEMMA OrderNext == Inv /\ OrderInv /\ [Next]_vars => OrderInv'
<1> SUFFICES ASSUME Inv, OrderInv, [Next]_vars PROVE OrderInv'
  OBVIOUS
<1>1. TypeOK
  BY DEF Inv
<1>2. \A m \in 1 .. Len(sent) : sent[m] \in Write
  BY <1>1, Sequences
<1>3. ASSUME NEW w \in Write, Submit(w) \/ Direct(w) PROVE OrderInv'
  BY <1>3, OrderSubmit, OrderDirect
<1>4. ASSUME NEW w \in Write, Cancel(w) PROVE OrderInv'
  <2>1. /\ answer' = [answer EXCEPT ![w] = "gone"]
        /\ UNCHANGED <<db, tx, queue, jobs, phase, sent>>
    BY <1>4 DEF Cancel, group
  <2>2. \A m \in 1 .. Len(sent) : answer'[sent[m]] # "new"
    BY <1>1, <1>2, <2>1 DEF OrderInv, TypeOK
  <2> QED
    BY <2>1, <2>2 DEF OrderInv
<1>5. CASE TakeGroup \/ RunJob \/ Commit
  BY <1>5, OrderTake, OrderRun, OrderCommit
<1>6. CASE DropGroup \/ Finish
  <2>1. /\ jobs # << >> /\ jobs' = Tail(jobs)
        /\ phase \in {"taken", "committed", "failed"} /\ phase' \in {"idle", phase}
        /\ UNCHANGED <<db, queue, sent>>
    BY <1>6, EmptySeq DEF DropGroup, Finish, Inv, JobsInv
  <2>2. \E w \in Write : \E v \in {"ok", "error", answer[w]} :
          (v = "new" => answer[w] = "new") /\ answer' = [answer EXCEPT ![w] = v]
    <3>1. Head(jobs) \in Write
      BY <1>1, <2>1, TailSeq, EmptySeq DEF TypeOK
    <3> QED
      BY <3>1, <1>6 DEF DropGroup, Finish, Verdict
  <2>3. \A w \in Write : answer'[w] = "new" => answer[w] = "new"
    BY <2>2, <1>1 DEF TypeOK
  <2> QED
    BY <2>1, <2>3, OrderPop
<1>7. CASE Begin
  <2>1. /\ phase = "taken" /\ tx' = db
        /\ UNCHANGED <<db, queue, jobs, answer, sent>>
    BY <1>7 DEF Begin
  <2> QED
    BY <2>1 DEF OrderInv
<1>8. CASE GroupFails \/ Aborted
  <2>1. /\ phase \in {"taken", "running"} /\ phase' = "failed"
        /\ UNCHANGED <<db, queue, jobs, answer, sent>>
    BY <1>8 DEF GroupFails, Aborted
  <2> QED
    BY <2>1 DEF OrderInv
<1>9. CASE Close
  BY <1>9 DEF Close, group, OrderInv
<1>10. CASE Crash
  <2>1. /\ queue' = << >> /\ jobs' = << >> /\ phase' = "idle"
        /\ UNCHANGED <<db, sent>>
        /\ \A w \in Write : answer'[w] = "new" => answer[w] = "new"
    BY <1>10 DEF Crash
  <2>2. \A m \in 1 .. Len(sent) : answer'[sent[m]] # "new"
    BY <1>2, <2>1 DEF OrderInv
  <2> QED
    BY <2>1, <2>2, EmptySeq DEF OrderInv, Ordered, Crossed
<1>11. CASE UNCHANGED vars
  BY <1>11 DEF vars, OrderInv
<1> QED
  BY <1>3, <1>4, <1>5, <1>6, <1>7, <1>8, <1>9, <1>10, <1>11 DEF Next, Committer

\* The queued writes that are committed are in the order in which they were
\* queued ("in submission order"), whatever fails in between, for any writes
\* and any MAX_GROUP.
THEOREM CommittedInOrder == Spec => []InSubmissionOrder
<1>1. OrderInv => InSubmissionOrder
  BY DEF OrderInv, Ordered, Before, InSubmissionOrder
<1> QED
  BY <1>1, OrderInit, OrderNext, CommitterInvariant, PTL DEF Spec
==============================================================================
