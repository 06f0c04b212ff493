------------------------------ MODULE ControlPlane ------------------------------
(***************************************************************************)
(* Replication of the control plane (users, credentials, grants, teams,    *)
(* attachments, bucket settings): every change is sent to the peers as an  *)
(* operation, best effort (cluster_control.rs, handlers/cluster.rs), and   *)
(* an anti-entropy round merges the full snapshot of a peer, last writer   *)
(* wins, with tombstones for deletions (plan_control_merge in              *)
(* core/cluster.rs, control_merge.rs, anti_entropy.rs).                    *)
(*                                                                         *)
(* All families follow one scheme.  They differ in a few points: a child   *)
(* (an attachment, the tags of a bucket, a part) goes with its parent, and *)
(* the receiver of an operation stamps the row with its own clock except   *)
(* for the families whose record carries the time.  Clocks are synchronous *)
(* here.                                                                   *)
(***************************************************************************)
EXTENDS Naturals, FiniteSets

CONSTANTS
    Node,
    Families,   \* pairs of families: of entity 1 and of entity 2
    Lossy,      \* the pairs for which operations are lost and nodes stop
    MaxOps,     \* bound on administrative calls
    MaxFaults,  \* bound on crashes and lost operations
    Overlap     \* may a call begin while others, or a merge, are under way?

VARIABLES
    family,  \* the pair of families looked at
    row,     \* row[n][e]: the row of e on node n
    tomb,    \* tomb[n][e]: deleted_at of the tombstone, 0 without one
    clock,   \* the last time stamp given
    msgs,    \* operations on their way
    pending, \* pending[n]: entities whose row is deleted and tombstone not yet written
    merge,   \* the merge a node is performing
    last,    \* history: the last acknowledged call per entity: its number, 0 for a delete
    ops,     \* calls so far
    faults

vars == <<family, row, tomb, clock, msgs, pending, merge, last, ops, faults>>

Entity == {1, 2}
None == [at |-> 0, val |-> 0]     \* no row
Unknown == MaxOps + 1             \* a call that was not acknowledged
Value == 1 .. MaxOps

IdleMerge == [pc |-> "idle", remote |-> [e \in Entity |-> None], rdead |-> [e \in Entity |-> 0],
              up |-> {}, del |-> {}, adopt |-> {}, clear |-> {}]

\* Types of the variables.
TypeOK ==
    /\ family \in Families
    /\ row \in [Node -> [Entity -> [at : 0 .. clock, val : Value \cup {0}]]]
    /\ tomb \in [Node -> [Entity -> 0 .. clock]]
    /\ \A m \in msgs : m.to \in Node /\ m.e \in Entity /\ m.kind \in {"upsert", "delete"}
    /\ pending \in [Node -> SUBSET Entity]
    /\ \A n \in Node : merge[n].pc \in {"idle", "fetched", "adopt", "parents", "children", "deletes",
                                         "clear", "late_up", "late_del"}
    /\ last \in [Entity -> 0 .. Unknown]
    /\ ops \in 0 .. MaxOps /\ faults \in 0 .. MaxFaults

Init ==
    /\ family \in Families
    /\ row = [n \in Node |-> [e \in Entity |-> None]]
    /\ tomb = [n \in Node |-> [e \in Entity |-> 0]]
    /\ clock = 0 /\ msgs = {}
    /\ pending = [n \in Node |-> {}]
    /\ merge = [n \in Node |-> IdleMerge]
    /\ last = [e \in Entity |-> 0]
    /\ ops = 0 /\ faults = 0

-----------------------------------------------------------------------------
(* What tells the families apart. *)

\* Children go with their parent; their table may reference the parent's.
ChildFamily == {"user_grant", "team_grant", "team_member", "bucket_tags", "part"}
ForeignKey == {"user_grant", "team_grant", "team_member"}

\* Families whose record carries the time it was written.
Carried == {"grant", "bucket", "upload", "part"}

\* Families whose key may be used again after a deletion (the others have
\* generated keys), and those whose rows are never changed in place.
Reusable == ChildFamily \cup {"bucket", "server_config"}
Immutable == {"bucket", "upload"}

\* Families merged after the others, outside apply_control_merge_via_traits.
LateFamily == {"bucket", "bucket_tags", "upload", "part"}

Of(f) == {e \in Entity : family[e] = f}
IsLate(e) == family[e] \in LateFamily
Parent(e) == IF family[e] \in ChildFamily THEN 1 ELSE e
IsChild(e) == Parent(e) # e
Children(e) == {c \in Entity : IsChild(c) /\ Parent(c) = e}
Alive(n, e) == row[n][e] # None

Fault == family \in Lossy /\ faults < MaxFaults /\ faults' = faults + 1

-----------------------------------------------------------------------------
(* Calls of the administration API on node n. *)

\* fan_out_op: to every eligible peer.
FanOut(n, kind, e, r) == msgs' = msgs \cup {[to |-> p, kind |-> kind, e |-> e, row |-> r] : p \in Node \ {n}}

Quiescent == msgs = {} /\ \A n \in Node : pending[n] = {} /\ merge[n] = IdleMerge

CallBegins == ops < MaxOps /\ ops' = ops + 1 /\ (Overlap \/ Quiescent)

\* Mutant of NewRow: an update leaves updated_at as it was.
NewRowUnstamped(n, e) == [at |-> IF Alive(n, e) THEN row[n][e].at ELSE clock + 1, val |-> ops + 1]

NewRow(n, e) == [at |-> clock + 1, val |-> ops + 1]

\* put_*, create_*, attach_*, set_*: the row, the stale tombstone, the operation to the peers.
Put(n, e) ==
    LET r == NewRow(n, e)
    IN  /\ CallBegins
        /\ IsChild(e) => Alive(n, Parent(e))
        /\ family[e] \in Immutable => ~ Alive(n, e)
        /\ family[e] \in Reusable \/ (last[e] = 0 /\ \A m \in Node : tomb[m][e] = 0)
        /\ clock' = clock + 1
        /\ row' = [row EXCEPT ![n][e] = r]
        /\ tomb' = [tomb EXCEPT ![n][e] = 0]
        /\ FanOut(n, "upsert", e, r)
        /\ last' = [last EXCEPT ![e] = ops + 1]
        /\ UNCHANGED <<family, pending, merge, faults>>

\* update_*: the row as it is after the update, and no tombstone is cleared.
Update(n, e) ==
    LET r == NewRow(n, e)
    IN  /\ CallBegins
        /\ Alive(n, e)
        /\ clock' = clock + 1
        /\ row' = [row EXCEPT ![n][e] = r]
        /\ FanOut(n, "upsert", e, r)
        /\ last' = [last EXCEPT ![e] = ops + 1]
        /\ UNCHANGED <<family, tomb, pending, merge, faults>>

\* The rows a delete removes on a node: the entity and, by cascade, its children.
Remove(rs, e) == [x \in Entity |-> IF x = e \/ x \in Children(e) THEN None ELSE rs[x]]

\* delete_*: first the row ...
DeleteRow(n, e) ==
    /\ CallBegins
    /\ Alive(n, e)
    /\ row' = [row EXCEPT ![n] = Remove(@, e)]
    /\ pending' = [pending EXCEPT ![n] = @ \cup {e}]
    /\ last' = [x \in Entity |-> IF x = e \/ x \in Children(e) THEN Unknown ELSE last[x]]
    /\ UNCHANGED <<family, tomb, clock, msgs, merge, faults>>

\* Mutant of RecordTombstone: the deletion is sent but leaves no tombstone.
RecordTombstoneNot(n, e) ==
    /\ e \in pending[n]
    /\ clock' = clock + 1
    /\ pending' = [pending EXCEPT ![n] = @ \ {e}]
    /\ FanOut(n, "delete", e, None)
    /\ last' = [x \in Entity |-> IF x = e \/ (x \in Children(e) /\ last[x] = Unknown) THEN 0 ELSE last[x]]
    /\ UNCHANGED <<family, row, tomb, merge, ops, faults>>

\* ... then the tombstone and the operation to the peers.
RecordTombstone(n, e) ==
    /\ e \in pending[n]
    /\ clock' = clock + 1
    /\ tomb' = [tomb EXCEPT ![n][e] = clock + 1]
    /\ pending' = [pending EXCEPT ![n] = @ \ {e}]
    /\ FanOut(n, "delete", e, None)
    /\ last' = [x \in Entity |-> IF x = e \/ (x \in Children(e) /\ last[x] = Unknown) THEN 0 ELSE last[x]]
    /\ UNCHANGED <<family, row, merge, ops, faults>>

-----------------------------------------------------------------------------
(* receive_op on a peer, below the cluster decorators. *)

\* apply_remote_*: unconditional; the time is the receiver's unless it is carried.
\* A row whose foreign key finds no parent is refused.
ReceiveUpsert(m) ==
    /\ m.kind = "upsert"
    /\ family[m.e] \in ForeignKey => Alive(m.to, Parent(m.e))
    /\ row' = [row EXCEPT ![m.to][m.e] = IF family[m.e] \in Carried THEN m.row ELSE [m.row EXCEPT !.at = clock + 1]]
    /\ clock' = IF family[m.e] \in Carried THEN clock ELSE clock + 1

\* The inner store deletes: no tombstone on the receiver.
ReceiveDelete(m) ==
    /\ m.kind = "delete"
    /\ row' = [row EXCEPT ![m.to] = Remove(@, m.e)]
    /\ UNCHANGED clock

ReceiveRefused(m) ==
    /\ m.kind = "upsert" /\ family[m.e] \in ForeignKey /\ ~ Alive(m.to, Parent(m.e))
    /\ UNCHANGED <<row, clock>>

ReceiveOp(m) ==
    /\ m \in msgs
    /\ ReceiveUpsert(m) \/ ReceiveDelete(m) \/ ReceiveRefused(m)
    /\ msgs' = msgs \ {m}
    /\ UNCHANGED <<family, tomb, pending, merge, last, ops, faults>>

\* A send that fails is logged; anti-entropy heals what the peer missed.
Lose(m) ==
    /\ m \in msgs /\ Fault
    /\ msgs' = msgs \ {m}
    /\ UNCHANGED <<family, row, tomb, clock, pending, merge, last, ops>>

-----------------------------------------------------------------------------
(* resolve_key: the newest of the four times a key has on two nodes wins. *)

Later(a, b) == IF a >= b THEN a ELSE b

\* Mutant of Dead: a row of the peer is alive whatever was deleted since.
DeadHere(la, ld, ra, rd) == ra = 0 /\ Later(ld, rd) > la

Dead(la, ld, ra, rd) == Later(ld, rd) > Later(la, ra)

\* build_control_snapshot: every family with its times, and the tombstones.
Snapshot(m) == [IdleMerge EXCEPT !.pc = "fetched", !.remote = row[m], !.rdead = tomb[m]]

\* A round asks a peer for its snapshot.
Fetch(n, m) ==
    /\ merge[n] = IdleMerge /\ n # m
    /\ merge' = [merge EXCEPT ![n] = Snapshot(m)]
    /\ UNCHANGED <<family, row, tomb, clock, msgs, pending, last, ops, faults>>

\* Mutant of FamilyPlan: a row as new as the local one is taken as well.
FamilyPlanTies(es, s, alive) ==
    LET dead(e) == Dead(s.lrow[e].at, s.ldead[e], s.rrow[e].at, s.rdead[e])
    IN  [up    |-> {e \in es : ~ dead(e) /\ s.rrow[e] # None /\ s.rrow[e].at >= s.lrow[e].at
                               /\ Parent(e) \in alive \cup {e}},
         del   |-> {e \in es : dead(e) /\ s.lrow[e] # None},
         adopt |-> {e \in es : dead(e) /\ s.ldead[e] < s.rdead[e]},
         clear |-> {e \in es : ~ dead(e) /\ s.ldead[e] # 0}]

\* The writes a family needs: a live row that is newer on the peer, unless its
\* parent is not alive after the merge; a row that lost to a deletion; the
\* deletion to record; the tombstone to drop.
FamilyPlan(es, s, alive) ==
    LET dead(e) == Dead(s.lrow[e].at, s.ldead[e], s.rrow[e].at, s.rdead[e])
    IN  [up    |-> {e \in es : ~ dead(e) /\ s.rrow[e].at > s.lrow[e].at /\ Parent(e) \in alive \cup {e}},
         del   |-> {e \in es : dead(e) /\ s.lrow[e] # None},
         adopt |-> {e \in es : dead(e) /\ s.ldead[e] < s.rdead[e]},
         clear |-> {e \in es : ~ dead(e) /\ s.ldead[e] # 0}]

\* Keys with a live row on either side after the merge.
AliveAfter(s) == {e \in Entity : /\ ~ Dead(s.lrow[e].at, s.ldead[e], s.rrow[e].at, s.rdead[e])
                                 /\ s.lrow[e] # None \/ s.rrow[e] # None}

PlanCredentials(s) == FamilyPlan(Of("credential"), s, {})
PlanUsers(s) == FamilyPlan(Of("user"), s, {})
PlanTeams(s) == FamilyPlan(Of("team"), s, {})
PlanGrants(s) == FamilyPlan(Of("grant"), s, {})
PlanBuckets(s) == FamilyPlan(Of("bucket"), s, {})

\* Mutant of PlanUserGrants: attachments are adopted whatever became of the user.
PlanUserGrantsOrphans(s) == FamilyPlan(Of("user_grant"), s, Entity)

PlanUserGrants(s) == FamilyPlan(Of("user_grant"), s, AliveAfter(s))
PlanTeamGrants(s) == FamilyPlan(Of("team_grant"), s, AliveAfter(s))

PlanTeamMembers(s) == FamilyPlan(Of("team_member"), s, AliveAfter(s))
PlanBucketTags(s) == FamilyPlan(Of("bucket_tags"), s, AliveAfter(s))
PlanServerConfigs(s) == FamilyPlan(Of("server_config"), s, {})
PlanUploads(s) == FamilyPlan(Of("upload"), s, {})

\* Parts have no tombstones: they are replaced, or go with their upload.
PlanParts(s) == FamilyPlan(Of("part"), [s EXCEPT !.ldead = [e \in Entity |-> IF e \in Of("part") THEN 0 ELSE @[e]],
                                                !.rdead = [e \in Entity |-> IF e \in Of("part") THEN 0 ELSE @[e]]],
                           AliveAfter(s))

Both(p, q) == [f \in DOMAIN p |-> p[f] \cup q[f]]

\* plan_control_merge of a local and a remote snapshot.
MergePlan(lrow, ldead, rrow, rdead) ==
    LET s == [lrow |-> lrow, ldead |-> ldead, rrow |-> rrow, rdead |-> rdead]
        identities == Both(PlanCredentials(s), Both(PlanUsers(s), Both(PlanTeams(s), PlanGrants(s))))
        joins == Both(PlanUserGrants(s), Both(PlanTeamGrants(s), PlanTeamMembers(s)))
        storage == Both(PlanBuckets(s), Both(PlanBucketTags(s), Both(PlanUploads(s), PlanParts(s))))
    IN  Both(Both(identities, joins), Both(storage, PlanServerConfigs(s)))

PlanMerge(n) ==
    LET p == MergePlan(row[n], tomb[n], merge[n].remote, merge[n].rdead)
    IN  /\ merge[n].pc = "fetched"
        /\ merge' = [merge EXCEPT ![n] =
              IF p.up \cup p.del \cup p.adopt \cup p.clear = {} THEN IdleMerge
              ELSE [merge[n] EXCEPT !.pc = "adopt", !.up = p.up, !.del = p.del,
                                    !.adopt = p.adopt, !.clear = p.clear]]
        /\ UNCHANGED <<family, row, tomb, clock, msgs, pending, last, ops, faults>>

(* apply_control_merge_via_traits: each family in transactions of its own. *)

MergeStep(n, from, to) ==
    /\ merge[n].pc = from
    /\ merge' = [merge EXCEPT ![n] = IF to = "idle" THEN IdleMerge ELSE [@ EXCEPT !.pc = to]]
    /\ UNCHANGED <<family, clock, msgs, pending, last, ops, faults>>

AdoptTombstones(n) ==
    /\ MergeStep(n, "adopt", "parents")
    /\ tomb' = [tomb EXCEPT ![n] = [e \in Entity |-> IF e \in merge[n].adopt
                                                    THEN Later(@[e], merge[n].rdead[e]) ELSE @[e]]]
    /\ UNCHANGED row

\* apply_*_at: the peer's row with the peer's time.
Upserted(n, es) == [row EXCEPT ![n] = [e \in Entity |-> IF e \in es THEN merge[n].remote[e] ELSE @[e]]]

UpsertParents(n) ==
    /\ MergeStep(n, "parents", "children")
    /\ row' = Upserted(n, {e \in merge[n].up : ~ IsLate(e) /\ ~ IsChild(e)})
    /\ UNCHANGED tomb

UpsertChildren(n) ==
    /\ MergeStep(n, "children", "deletes")
    /\ row' = Upserted(n, {e \in merge[n].up : ~ IsLate(e) /\ IsChild(e)})
    /\ UNCHANGED tomb

Deleted(n, es) == [row EXCEPT ![n] = [e \in Entity |-> IF e \in es \/ Parent(e) \in es THEN None ELSE @[e]]]

DeleteLosers(n) ==
    /\ MergeStep(n, "deletes", "clear")
    /\ row' = Deleted(n, {e \in merge[n].del : ~ IsLate(e)})
    /\ UNCHANGED tomb

\* The last write for the identities; buckets and uploads follow.
ClearTombstones(n) ==
    /\ MergeStep(n, "clear", IF \E e \in merge[n].up \cup merge[n].del : IsLate(e) THEN "late_up" ELSE "idle")
    /\ tomb' = [tomb EXCEPT ![n] = [e \in Entity |-> IF e \in merge[n].clear THEN 0 ELSE @[e]]]
    /\ UNCHANGED row

UpsertLate(n) ==
    /\ MergeStep(n, "late_up", "late_del")
    /\ row' = Upserted(n, {e \in merge[n].up : IsLate(e)})
    /\ UNCHANGED tomb

DeleteLate(n) ==
    /\ MergeStep(n, "late_del", "idle")
    /\ row' = Deleted(n, {e \in merge[n].del : IsLate(e)})
    /\ UNCHANGED tomb

\* The node stops in the middle of a call or a merge.
Crash(n) ==
    /\ merge[n] # IdleMerge \/ pending[n] # {}
    /\ Fault
    /\ merge' = [merge EXCEPT ![n] = IdleMerge]
    /\ pending' = [pending EXCEPT ![n] = {}]
    /\ UNCHANGED <<family, row, tomb, clock, msgs, last, ops>>

-----------------------------------------------------------------------------
\* A round is only interesting when the peer has something new.
Differ(n, m) == MergePlan(row[n], tomb[n], row[m], tomb[m]) # [up |-> {}, del |-> {}, adopt |-> {}, clear |-> {}]

Round(n) ==
    \/ \E m \in Node : Differ(n, m) /\ Fetch(n, m)
    \/ PlanMerge(n) \/ AdoptTombstones(n) \/ UpsertParents(n) \/ UpsertChildren(n)
    \/ DeleteLosers(n) \/ ClearTombstones(n) \/ UpsertLate(n) \/ DeleteLate(n)

CredentialCall(n) == \E e \in Of("credential") : Put(n, e) \/ Update(n, e) \/ DeleteRow(n, e)
UserCall(n) == \E e \in Of("user") : Put(n, e) \/ Update(n, e) \/ DeleteRow(n, e)
TeamCall(n) == \E e \in Of("team") : Put(n, e) \/ Update(n, e) \/ DeleteRow(n, e)
GrantCall(n) == \E e \in Of("grant") : Put(n, e) \/ Update(n, e) \/ DeleteRow(n, e)
UserGrantCall(n) == \E e \in Of("user_grant") : Put(n, e) \/ DeleteRow(n, e)
TeamGrantCall(n) == \E e \in Of("team_grant") : Put(n, e) \/ DeleteRow(n, e)
TeamMemberCall(n) == \E e \in Of("team_member") : Put(n, e) \/ DeleteRow(n, e)
ServerConfigCall(n) == \E e \in Of("server_config") : Put(n, e) \/ DeleteRow(n, e)
BucketCall(n) == \E e \in Of("bucket") : Put(n, e) \/ DeleteRow(n, e)
BucketTagsCall(n) == \E e \in Of("bucket_tags") : Put(n, e) \/ DeleteRow(n, e)
UploadCall(n) == \E e \in Of("upload") : Put(n, e) \/ DeleteRow(n, e)
PartCall(n) == \E e \in Of("part") : Put(n, e)

Call(n) ==
    \/ CredentialCall(n) \/ UserCall(n) \/ TeamCall(n) \/ GrantCall(n)
    \/ UserGrantCall(n) \/ TeamGrantCall(n) \/ TeamMemberCall(n) \/ ServerConfigCall(n)
    \/ BucketCall(n) \/ BucketTagsCall(n) \/ UploadCall(n) \/ PartCall(n)

Finish(n) == \E e \in Entity : RecordTombstone(n, e)
Deliver == \E m \in msgs : ReceiveOp(m)

Next ==
    \/ \E n \in Node : Call(n) \/ Finish(n) \/ Round(n) \/ Crash(n)
    \/ Deliver
    \/ \E m \in msgs : Lose(m)

Spec == Init /\ [][Next]_vars

\* Operations are delivered, calls end and the rounds go on; in which order is open.
Progress == Deliver \/ \E n \in Node : Finish(n) \/ Round(n)

FairSpec == Spec /\ WF_vars(Progress)

-----------------------------------------------------------------------------
(* Properties. *)

\* Nothing is under way and no round would change anything.
Settled == Quiescent /\ \A n, m \in Node : n # m => ~ Differ(n, m)

\* Entities that are no child, or a child whose table knows its parent's.
Guarded(e) == IsChild(e) => family[e] \in ForeignKey

\* When the nodes have settled they hold the same rows, whichever operations
\* were lost and wherever a merge was interrupted.
NodesAgree == Settled => \A n, m \in Node, e \in Entity : Guarded(e) => row[n][e] = row[m][e]

\* When the nodes have settled, an acknowledged deletion is a deletion
\* everywhere and an acknowledged change is the row everywhere: no node that
\* missed the operation brings back what was there before.
LastCallWins ==
    Settled => \A n \in Node, e \in Entity :
        /\ Guarded(e) /\ last[e] # Unknown
        /\ IsChild(e) => last[Parent(e)] \in Value
        => row[n][e].val = last[e]

\* When the nodes have settled, no attachment is left of a parent that is gone.
NoOrphans ==
    Settled => \A n \in Node, e \in Entity : Guarded(e) /\ Alive(n, e) => Alive(n, Parent(e))

\* The same for every family: the children of a deleted parent do not come
\* back from a peer that missed the deletion.
NoChildOfTheDead == Settled => \A n \in Node, e \in Entity : Alive(n, e) => Alive(n, Parent(e))

\* The rounds come to an end: the nodes do not hand changes to each other for ever.
AllAsked == ops = MaxOps
EventuallySettled == AllAsked ~> Settled
=============================================================================
