----------------------------- MODULE PgControl -----------------------------
(* The control-plane tables on PostgreSQL: users, teams, grants and        *)
(* credentials, the links between them, and the snapshot the cluster       *)
(* exchanges.  SQLite has one writer and one lock; here every call is a     *)
(* statement or a transaction of its own connection, deletes are           *)
(* transactions of several statements at READ COMMITTED, the tables hold   *)
(* foreign keys, and the snapshot is read table by table while the others  *)
(* write.                                                                  *)
(*                                                                         *)
(* One row per table: u is a member of t, and g is granted to both.  A row *)
(* is its value and its updated_at; stamps are unique.                     *)
EXTENDS Integers, Sequences, FiniteSets

CONSTANTS
  Proc,      \* connections
  Starts,    \* the sets of tables that hold their row at the start
  Peers,     \* whether a peer takes snapshots
  MaxWrites  \* writes in a behaviour

VARIABLES
  rows,      \* [Table -> {} or {row}]: what is committed
  tx,        \* [Proc -> transaction]: the deletes under way
  clock,     \* writes so far
  snap,      \* the snapshot under construction
  there      \* the rows of the peer that merges the snapshots

vars == <<rows, tx, clock, snap, there>>

Entities == {"users", "teams", "grants", "credentials"}
Links == {"team_members", "user_grants", "team_grants"}
Table == Entities \union Links

(* The REFERENCES of the schema; a credential names its user without one. *)
ForeignKeys == [l \in Links |->
  CASE l = "team_members" -> {"teams", "users"}
    [] l = "user_grants"  -> {"users", "grants"}
    [] l = "team_grants"  -> {"teams", "grants"}]

Row(v, created, ts) == [value |-> v, created_at |-> created, updated_at |-> ts]
Idle == [delete |-> "", at |-> 1, gone |-> {}]

(* A row some open transaction has deleted: who touches it waits. *)
Locked(t) == \E p \in Proc : t \in tx[p].gone

Write(t, r) ==
  /\ clock < MaxWrites
  /\ clock' = clock + 1
  /\ ~Locked(t)
  /\ rows' = [rows EXCEPT ![t] = r]
  /\ UNCHANGED <<tx, snap, there>>

Now == clock + 1
Fresh(t) == {Row(Now, Now, Now)}
Touched(t) == {[r EXCEPT !.value = Now, !.updated_at = Now] : r \in rows[t]}

----------------------------------------------------------------------------
(* Single statements *)

put_user == rows["users"] = {} /\ Write("users", Fresh("users"))
put_team == rows["teams"] = {} /\ Write("teams", Fresh("teams"))
put_grant == rows["grants"] = {} /\ Write("grants", Fresh("grants"))
put_credential == rows["credentials"] = {} /\ Write("credentials", Fresh("credentials"))

update_user == rows["users"] # {} /\ Write("users", Touched("users"))
update_team == rows["teams"] # {} /\ Write("teams", Touched("teams"))
update_grant == rows["grants"] # {} /\ Write("grants", Touched("grants"))
update_credential == rows["credentials"] # {} /\ Write("credentials", Touched("credentials"))

delete_credential == rows["credentials"] # {} /\ Write("credentials", {})

(* The operations of a peer arrive as upserts stamped on arrival. *)
apply_remote_user == Write("users", Fresh("users"))
apply_remote_team == Write("teams", Fresh("teams"))
apply_remote_grant == Write("grants", Fresh("grants"))
apply_remote_credential == Write("credentials", Fresh("credentials"))

(* A link is inserted only while both rows it names stand, and waits for a  *)
(* transaction that is deleting one of them.                                *)
Attach(l) ==
  /\ \A t \in ForeignKeys[l] : rows[t] # {} /\ ~Locked(t)
  /\ Write(l, Fresh(l))
Detach(l) == rows[l] # {} /\ Write(l, {})

attach_to_user == Attach("user_grants")
attach_to_team == Attach("team_grants")
add_member == Attach("team_members")
detach_from_user == Detach("user_grants")
detach_from_team == Detach("team_grants")
remove_member == Detach("team_members")

----------------------------------------------------------------------------
(* Deletes: the links first, then the row, in one transaction. *)

delete_user == <<"team_members", "user_grants", "credentials", "users">>
delete_team == <<"team_members", "team_grants", "teams">>
delete_grant == <<"user_grants", "team_grants", "grants">>

Deletes == [users |-> delete_user, teams |-> delete_team, grants |-> delete_grant]

Begin(p, t) ==
  /\ tx[p] = Idle
  /\ clock < MaxWrites
  /\ clock' = clock + 1
  /\ tx' = [tx EXCEPT ![p].delete = t]
  /\ UNCHANGED <<rows, snap, there>>

Upcoming(p) == Deletes[tx[p].delete][tx[p].at]
Running(p) ==
  /\ tx[p] # Idle
  /\ \A q \in Proc \ {p} : Upcoming(p) \notin tx[q].gone

(* Mutant of Statement: the statements run on the pool, each by itself. *)
StatementAlone(p) ==
  /\ Running(p) /\ Upcoming(p) # tx[p].delete
  /\ tx' = [tx EXCEPT ![p].at = @ + 1]
  /\ rows' = [rows EXCEPT ![Upcoming(p)] = {}]
  /\ UNCHANGED <<clock, snap, there>>

(* The next statement deletes the rows it finds; a row another transaction  *)
(* has deleted is waited for.                                               *)
Statement(p) ==
  /\ Running(p) /\ Upcoming(p) # tx[p].delete
  /\ tx' = [tx EXCEPT ![p].at = @ + 1,
                      ![p].gone = @ \union {t \in {Upcoming(p)} : rows[t] # {}}]
  /\ UNCHANGED <<rows, clock, snap, there>>

(* Mutant of Referenced: the keys of the schema are checked on insert only. *)
ReferencedNever(p) == FALSE

(* The last statement deletes the row itself.  A link attached since the   *)
(* statement on its table ran still names the row, and the delete fails.   *)
Referenced(p) ==
  \E l \in Links \ tx[p].gone : tx[p].delete \in ForeignKeys[l] /\ rows[l] # {}

Commit(p) ==
  /\ Running(p) /\ Upcoming(p) = tx[p].delete
  /\ ~Referenced(p)
  /\ rows' = [t \in Table |-> IF t \in tx[p].gone \union {tx[p].delete} THEN {} ELSE rows[t]]
  /\ tx' = [tx EXCEPT ![p] = Idle]
  /\ UNCHANGED <<clock, snap, there>>

(* A failed statement, or a lost connection, rolls everything back. *)
Rollback(p) ==
  /\ tx[p] # Idle
  /\ tx' = [tx EXCEPT ![p] = Idle]
  /\ UNCHANGED <<rows, clock, snap, there>>

----------------------------------------------------------------------------
(* The snapshot: one query after the other, outside any transaction.  The  *)
(* stamps of credentials, users and teams are read by a query of their own. *)

Read(t, what) == [table |-> t, what |-> what]

(* Mutant of build_control_snapshot: the rows first, their stamps after. *)
SnapshotRowsFirst ==
  <<Read("credentials", "rows"), Read("credentials", "stamps"),
    Read("users", "rows"), Read("users", "stamps"),
    Read("teams", "rows"), Read("teams", "stamps"),
    Read("user_grants", "both"), Read("team_grants", "both"), Read("team_members", "both"),
    Read("grants", "both")>>

build_control_snapshot ==
  <<Read("credentials", "stamps"), Read("credentials", "rows"),
    Read("users", "stamps"), Read("users", "rows"),
    Read("teams", "stamps"), Read("teams", "rows"),
    Read("user_grants", "both"), Read("team_grants", "both"), Read("team_members", "both"),
    Read("grants", "both")>>

Blank == [at |-> 1, stamps |-> [t \in Table |-> {}], rows |-> [t \in Table |-> {}]]

updated_at_map(t) == {r.updated_at : r \in rows[t]}

Query ==
  LET q == build_control_snapshot[snap.at] IN
  /\ Peers
  /\ snap.at <= Len(build_control_snapshot)
  /\ snap' = [at |-> snap.at + 1,
              stamps |-> [snap.stamps EXCEPT ![q.table] = IF q.what = "rows" THEN @ ELSE updated_at_map(q.table)],
              rows |-> [snap.rows EXCEPT ![q.table] = IF q.what = "stamps" THEN @ ELSE rows[q.table]]]
  /\ UNCHANGED <<rows, tx, clock, there>>

(* The peer adopts the entries that are newer than its own rows.  A row    *)
(* whose stamp the first query did not see gets its created_at.            *)
Merged(t) ==
  LET entries == {[r EXCEPT !.updated_at = IF snap.stamps[t] = {} THEN r.created_at
                                           ELSE CHOOSE s \in snap.stamps[t] : TRUE] : r \in snap.rows[t]}
  IN  IF \E e \in entries : \A r \in there[t] : e.updated_at > r.updated_at THEN entries ELSE there[t]

apply_credential_at == Merged("credentials")
apply_user_at == Merged("users")
apply_team_at == Merged("teams")
apply_user_grant_at == Merged("user_grants")
apply_team_grant_at == Merged("team_grants")
apply_team_member_at == Merged("team_members")

Merge ==
  /\ snap.at > Len(build_control_snapshot)
  /\ there' = [credentials |-> apply_credential_at, users |-> apply_user_at, teams |-> apply_team_at,
               grants |-> Merged("grants"), user_grants |-> apply_user_grant_at,
               team_grants |-> apply_team_grant_at, team_members |-> apply_team_member_at]
  /\ snap' = Blank
  /\ UNCHANGED <<rows, tx, clock>>

----------------------------------------------------------------------------
Consistent(S) == \A l \in S \intersect Links : ForeignKeys[l] \subseteq S

Init ==
  /\ \E S \in Starts : Consistent(S) /\ rows = [t \in Table |-> IF t \in S THEN {Row(0, 0, 0)} ELSE {}]
  /\ tx = [p \in Proc |-> Idle]
  /\ clock = 0
  /\ snap = Blank
  /\ there = rows

Statements ==
  \/ put_user \/ put_team \/ put_grant \/ put_credential
  \/ update_user \/ update_team \/ update_grant \/ update_credential \/ delete_credential
  \/ apply_remote_user \/ apply_remote_team \/ apply_remote_grant \/ apply_remote_credential
  \/ attach_to_user \/ attach_to_team \/ add_member
  \/ detach_from_user \/ detach_from_team \/ remove_member

Deleting(p) == (\E t \in DOMAIN Deletes : Begin(p, t)) \/ Statement(p) \/ Commit(p) \/ Rollback(p)

Next == Statements \/ (\E p \in Proc : Deleting(p)) \/ Query \/ Merge

Spec == Init /\ [][Next]_vars

----------------------------------------------------------------------------
Rows == [value : 0..MaxWrites, created_at : 0..MaxWrites, updated_at : 0..MaxWrites]

TypeOK ==
  /\ clock \in 0..MaxWrites
  /\ \A t \in Table : Cardinality(rows[t]) <= 1 /\ rows[t] \union there[t] \subseteq Rows
  /\ \A p \in Proc : tx[p].gone \subseteq Table

(* A delete is whole.  The links and keys of a user, a team or a grant go  *)
(* when it goes, or by a call of their own; a delete that fails halfway,   *)
(* or finds a link attached meanwhile, takes nothing with it.              *)
DeleteIsWholeStep ==
    clock' = clock =>
      \A l \in Links \union {"credentials"} :
        rows[l] # {} /\ rows'[l] = {} =>
          \E t \in DOMAIN Deletes : rows'[t] = {}
            /\ \E i \in DOMAIN Deletes[t] : Deletes[t][i] = l

\* The same, as a property of the behaviour: every step is such a step.
DeleteIsWhole == [][DeleteIsWholeStep]_vars

(* No link outlives a row it names, however attaches and deletes overlap. *)
LinksHaveEnds == \A l \in Links : rows[l] # {} => \A t \in ForeignKeys[l] : rows[t] # {}

(* A peer that holds a row under the stamp it has here holds the value it  *)
(* has here: a snapshot read while rows change never pairs a value with a  *)
(* later value's stamp, which no later merge would correct.                *)
SameStampSameValue ==
  \A t \in Table : \A r \in rows[t], q \in there[t] :
    r.updated_at = q.updated_at => r.value = q.value
=============================================================================
