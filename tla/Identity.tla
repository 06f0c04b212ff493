-------------------------------- MODULE Identity --------------------------------
(***************************************************************************)
(* Users, teams, grants and access keys: the rows (sqlite/user.rs,         *)
(* credential.rs, team.rs, grant.rs), the administration handlers that     *)
(* check one row and then write another (admin.rs, admin_users.rs,         *)
(* admin_teams.rs, admin_grants.rs), the cache in front of the rows        *)
(* (identity_cache.rs) and the three lookups by which every request is     *)
(* authenticated and authorised (middleware/auth.rs).                      *)
(*                                                                         *)
(* A policy document is reduced to whether it allows the request.          *)
(***************************************************************************)
EXTENDS Naturals, FiniteSets

CONSTANTS
    User, Root,     \* users; Root is the root user
    Key, RootKey,   \* access key ids; those of the root user at first
    Team, Grant,
    Admin,          \* administration requests that may be in progress together
    Request,        \* client requests
    NoKey,          \* no access key
    MaxWrites,      \* bound on the number of identity writes
    Overlap         \* may two removals of root credentials overlap?

ASSUME IdentityAssumption ==
    /\ Root \in User
    /\ RootKey \subseteq Key /\ RootKey # {}
    /\ MaxWrites \in Nat
    /\ Overlap \in BOOLEAN

VARIABLES
    db,         \* the identity tables
    fresh,      \* ids not given out yet (UUIDs are never used twice)
    cache,      \* CachingIdentityStore: answers by kind of lookup
    generation, \* CachingIdentityStore::generation
    admin,      \* administration requests in progress
    req,        \* client requests in progress
    foreign,    \* has another process written within the last cache TTL?
    since       \* what was true of a request's key since the request began

vars == <<db, fresh, cache, generation, admin, req, foreign, since>>

Id == User \cup Team \cup Grant

Lookup == {"cred", "user", "policy"}

Credential == [key : Key, user : User, active : BOOLEAN]

-----------------------------------------------------------------------------
(* The tables. *)

\* get_effective_policies: a grant attached to the user or to a team of theirs.
Effective(d, u) ==
    {g \in d.grants : \/ <<u, g>> \in d.userGrants
                      \/ \E t \in Team : <<t, u>> \in d.members /\ <<t, g>> \in d.teamGrants}

Allowed(d, u) == Effective(d, u) \cap d.allowing # {}

\* The users a key acts for, the users that exist, those that are allowed.
Facts(d, k) ==
    [named |-> {c.user : c \in {x \in d.creds : x.key = k /\ x.active}},
     exist |-> d.users,
     allowed |-> {u \in User : Allowed(d, u)}]

AllFacts == [named |-> User, exist |-> User, allowed |-> User]

NoFacts == [named |-> {}, exist |-> {}, allowed |-> {}]

\* delete_user: memberships, attachments and credentials in the same transaction.
WithoutUser(d, u) ==
    [d EXCEPT !.users = @ \ {u},
              !.creds = {c \in @ : c.user # u},
              !.members = {m \in @ : m[2] # u},
              !.userGrants = {a \in @ : a[1] # u}]

\* delete_team.
WithoutTeam(d, t) ==
    [d EXCEPT !.teams = @ \ {t},
              !.members = {m \in @ : m[1] # t},
              !.teamGrants = {a \in @ : a[1] # t}]

\* delete_grant.
WithoutGrant(d, g) ==
    [d EXCEPT !.grants = @ \ {g},
              !.allowing = @ \ {g},
              !.userGrants = {a \in @ : a[2] # g},
              !.teamGrants = {a \in @ : a[2] # g}]

\* put_credential fails on an access key id that exists.
WithCredential(d, k, u) ==
    IF \E c \in d.creds : c.key = k THEN d
    ELSE [d EXCEPT !.creds = @ \cup {[key |-> k, user |-> u, active |-> TRUE]}]

WithoutCredential(d, k) == [d EXCEPT !.creds = {c \in @ : c.key # k}]

\* update_credential.
WithActive(d, k, b) ==
    [d EXCEPT !.creds = {IF c.key = k THEN [c EXCEPT !.active = b] ELSE c : c \in @}]

PutUser(d, u) == [d EXCEPT !.users = @ \cup {u}]

PutTeam(d, t) == [d EXCEPT !.teams = @ \cup {t}]

PutGrant(d, g) == [d EXCEPT !.grants = @ \cup {g}, !.allowing = @ \cup {g}]

\* update_grant, with a document that no longer allows the request.
WithDocument(d, g) == [d EXCEPT !.allowing = @ \ {g}]

AttachToUser(d, u, g) == [d EXCEPT !.userGrants = @ \cup {<<u, g>>}]

DetachFromUser(d, u, g) == [d EXCEPT !.userGrants = @ \ {<<u, g>>}]

AttachToTeam(d, t, g) == [d EXCEPT !.teamGrants = @ \cup {<<t, g>>}]

DetachFromTeam(d, t, g) == [d EXCEPT !.teamGrants = @ \ {<<t, g>>}]

PutMember(d, t, u) == [d EXCEPT !.members = @ \cup {<<t, u>>}]

WithoutMember(d, t, u) == [d EXCEPT !.members = @ \ {<<t, u>>}]

\* The write a handler has decided on.
Written(d, op) ==
    LET x == op.x  y == op.y
    IN  CASE op.name = "put_user" -> PutUser(d, x)
          [] op.name = "put_team" -> PutTeam(d, x)
          [] op.name = "put_grant" -> PutGrant(d, x)
          [] op.name = "delete_user" -> WithoutUser(d, x)
          [] op.name = "delete_team" -> WithoutTeam(d, x)
          [] op.name = "delete_grant" -> WithoutGrant(d, x)
          [] op.name = "update_grant" -> WithDocument(d, x)
          [] op.name = "put_credential" -> WithCredential(d, x, y)
          [] op.name = "delete_credential" -> WithoutCredential(d, x)
          [] op.name = "activate" -> WithActive(d, x, TRUE)
          [] op.name = "deactivate" -> WithActive(d, x, FALSE)
          [] op.name = "attach_to_user" -> AttachToUser(d, x, y)
          [] op.name = "detach_from_user" -> DetachFromUser(d, x, y)
          [] op.name = "attach_to_team" -> AttachToTeam(d, x, y)
          [] op.name = "detach_from_team" -> DetachFromTeam(d, x, y)
          [] op.name = "add_member" -> PutMember(d, x, y)
          [] op.name = "remove_member" -> WithoutMember(d, x, y)

-----------------------------------------------------------------------------
(* The cache.  An entry is <<id, answer>>; an answer that finds nothing is *)
(* not cached.                                                             *)

\* The answers the tables hold for one kind of lookup.
Stored(d) ==
    [cred |-> {<<c.key, c>> : c \in d.creds},
     user |-> {<<u, u>> : u \in d.users},
     policy |-> {<<u, Allowed(d, u)>> : u \in User}]

Of(entries, id) == {e \in entries : e[1] = id}

EmptyCache == [l \in Lookup |-> {}]

\* An uninterrupted lookup: from the cache or, read through, from the tables.
Got(lookup, id) ==
    IF Of(cache[lookup], id) # {} THEN Of(cache[lookup], id) ELSE Of(Stored(db)[lookup], id)

\* Does the row of get_user, get_credential exist, as far as a handler sees?
Found(lookup, id) == Got(lookup, id) # {}

\* Cache::insert replaces the entry of the same id.
Cached(lookup, id, answer) ==
    [cache EXCEPT ![lookup] = (@ \ Of(@, id)) \cup answer]

ReadThrough(lookup, id) == cache' = Cached(lookup, id, Got(lookup, id))

-----------------------------------------------------------------------------
(* Administration.  A handler checks, then writes, then invalidates; each  *)
(* of the three is a step, because nothing holds a lock in between.        *)

NoOp == [name |-> "none", x |-> Root, y |-> Root]

Idle == [pc |-> "idle", op |-> NoOp]

Call(name, x, y) == [name |-> name, x |-> x, y |-> y]

Accept(a, op) ==
    /\ admin[a].pc = "idle"
    /\ generation + Cardinality({b \in Admin : admin[b].pc # "idle"}) < MaxWrites
    /\ admin' = [admin EXCEPT ![a] = [pc |-> "write", op |-> op]]
    /\ UNCHANGED <<db, generation, req, foreign, since>>

CreateUser(a, u) ==
    /\ u \in fresh /\ fresh' = fresh \ {u}
    /\ Accept(a, Call("put_user", u, u))
    /\ UNCHANGED cache

CreateTeam(a, t) ==
    /\ t \in fresh /\ fresh' = fresh \ {t}
    /\ Accept(a, Call("put_team", t, t))
    /\ UNCHANGED cache

CreateGrant(a, g) ==
    /\ g \in fresh /\ fresh' = fresh \ {g}
    /\ Accept(a, Call("put_grant", g, g))
    /\ UNCHANGED cache

\* delete_user: refused for root and for a user with credentials.
DeleteUser(a, u) ==
    /\ Found("user", u) /\ u # Root
    /\ \A c \in db.creds : c.user # u
    /\ ReadThrough("user", u)
    /\ Accept(a, Call("delete_user", u, u))
    /\ UNCHANGED fresh

DeleteTeam(a, t) ==
    /\ t \in db.teams
    /\ Accept(a, Call("delete_team", t, t))
    /\ UNCHANGED <<fresh, cache>>

DeleteGrant(a, g) ==
    /\ g \in db.grants
    /\ Accept(a, Call("delete_grant", g, g))
    /\ UNCHANGED <<fresh, cache>>

\* update_grant with a document that no longer allows the request.
UpdateGrant(a, g) ==
    /\ g \in db.grants
    /\ Accept(a, Call("update_grant", g, g))
    /\ UNCHANGED <<fresh, cache>>

\* create_user_credential, and create_credential for the caller.
CreateUserCredential(a, k, u) ==
    /\ Found("user", u)
    /\ ReadThrough("user", u)
    /\ Accept(a, Call("put_credential", k, u))
    /\ UNCHANGED fresh

ActiveRoot(d) == {c \in d.creds : c.active /\ c.user = Root /\ Root \in d.users}

Active(d) == {c \in d.creds : c.active}

\* Mutant of KeepsAnotherKey: only the active credentials of all users count.
KeepsAnyKey(c) == c.active => Cardinality(Active(db)) > 1

\* The lockout guards of update_credential and delete_credential.
KeepsAnotherKey(c) ==
    c.active => /\ c.user = Root => Cardinality(ActiveRoot(db)) > 1
                /\ c.user # Root => Cardinality(Active(db)) > 1

Removes(op) == op.name \in {"delete_credential", "deactivate"}

RemoveCredential(a, k, name) ==
    /\ Overlap \/ \A b \in Admin : ~ Removes(admin[b].op)
    /\ \E e \in Got("cred", k) : KeepsAnotherKey(e[2])
    /\ ReadThrough("cred", k)
    /\ Accept(a, Call(name, k, Root))
    /\ UNCHANGED fresh

ActivateCredential(a, k) ==
    /\ \E e \in Got("cred", k) : ~ e[2].active
    /\ ReadThrough("cred", k)
    /\ Accept(a, Call("activate", k, Root))
    /\ UNCHANGED fresh

\* Attaching looks up both rows; detaching reports what the delete removed.
AttachUserGrant(a, u, g) ==
    /\ Found("user", u) /\ g \in db.grants
    /\ ReadThrough("user", u)
    /\ Accept(a, Call("attach_to_user", u, g))
    /\ UNCHANGED fresh

DetachUserGrant(a, u, g) ==
    /\ <<u, g>> \in db.userGrants
    /\ Accept(a, Call("detach_from_user", u, g))
    /\ UNCHANGED <<fresh, cache>>

AttachTeamGrant(a, t, g) ==
    /\ t \in db.teams /\ g \in db.grants
    /\ Accept(a, Call("attach_to_team", t, g))
    /\ UNCHANGED <<fresh, cache>>

DetachTeamGrant(a, t, g) ==
    /\ <<t, g>> \in db.teamGrants
    /\ Accept(a, Call("detach_from_team", t, g))
    /\ UNCHANGED <<fresh, cache>>

AddMember(a, t, u) ==
    /\ t \in db.teams /\ Found("user", u)
    /\ ReadThrough("user", u)
    /\ Accept(a, Call("add_member", t, u))
    /\ UNCHANGED fresh

RemoveMember(a, t, u) ==
    /\ <<t, u>> \in db.members
    /\ Accept(a, Call("remove_member", t, u))
    /\ UNCHANGED <<fresh, cache>>

Handle(a) ==
    \/ \E u \in User : CreateUser(a, u) \/ DeleteUser(a, u)
    \/ \E t \in Team : CreateTeam(a, t) \/ DeleteTeam(a, t)
    \/ \E g \in Grant : CreateGrant(a, g) \/ DeleteGrant(a, g) \/ UpdateGrant(a, g)
    \/ \E u \in User, g \in Grant : AttachUserGrant(a, u, g) \/ DetachUserGrant(a, u, g)
    \/ \E t \in Team, g \in Grant : AttachTeamGrant(a, t, g) \/ DetachTeamGrant(a, t, g)
    \/ \E t \in Team, u \in User : AddMember(a, t, u) \/ RemoveMember(a, t, u)
    \/ \E k \in Key, u \in User : CreateUserCredential(a, k, u)
    \/ \E k \in Key : \/ RemoveCredential(a, k, "delete_credential")
                      \/ RemoveCredential(a, k, "deactivate")
                      \/ ActivateCredential(a, k)

\* What every request in progress may from now on have seen.
Remember(d) ==
    since' = [r \in Request |->
                IF req[r].pc = "idle" THEN NoFacts
                ELSE LET f == Facts(d, req[r].key)
                     IN  [named |-> since[r].named \cup f.named,
                          exist |-> since[r].exist \cup f.exist,
                          allowed |-> since[r].allowed \cup f.allowed]]

\* CachingIdentityStore::write, first half: the transaction (it may fail).
Commit(a) ==
    /\ admin[a].pc = "write"
    /\ \E d \in {Written(db, admin[a].op), db} : db' = d /\ Remember(d)
    /\ admin' = [admin EXCEPT ![a].pc = "invalidate"]
    /\ UNCHANGED <<fresh, cache, generation, req, foreign>>

\* The second half, whatever the outcome: empty the cache under a new generation.
Invalidate(a) ==
    /\ admin[a].pc = "invalidate"
    /\ generation' = generation + 1
    /\ cache' = EmptyCache
    /\ admin' = [admin EXCEPT ![a] = Idle]
    /\ UNCHANGED <<db, fresh, req, foreign, since>>

\* `arca credential remove` against a live server, here of a user's key: a write
\* the cache cannot see, and without the lockout guards.
CliDeleteCredential(k) ==
    /\ ~ foreign
    /\ generation < MaxWrites
    /\ \E c \in db.creds : c.key = k /\ c.user # Root
    /\ db' = WithoutCredential(db, k) /\ Remember(db')
    /\ foreign' = TRUE
    /\ UNCHANGED <<fresh, cache, generation, admin, req>>

\* IDENTITY_CACHE_TTL passes, and with it all entries; no lookup takes that long.
TtlPasses ==
    /\ cache # EmptyCache \/ foreign
    /\ \A r \in Request : req[r].step = "ask"
    /\ foreign' = FALSE
    /\ cache' = EmptyCache
    /\ UNCHANGED <<db, fresh, generation, admin, req, since>>

-----------------------------------------------------------------------------
(* Requests: auth_middleware and resolve_identity. *)

NoRequest ==
    [pc |-> "idle", step |-> "ask", key |-> NoKey, user |-> Root, gen |-> 0, answer |-> {}]

Writing == foreign \/ \E a \in Admin : admin[a].pc = "invalidate"

\* A request arrives.  Writes that are not answered yet excuse what it sees.
Arrive(r, k) ==
    /\ req[r] = NoRequest
    /\ req' = [req EXCEPT ![r] = [NoRequest EXCEPT !.pc = "cred", !.key = k]]
    /\ since' = [since EXCEPT ![r] = IF Writing THEN AllFacts ELSE Facts(db, k)]
    /\ UNCHANGED <<db, fresh, cache, generation, admin, foreign>>

LookupId(r) == IF req[r].pc = "cred" THEN req[r].key ELSE req[r].user

Value(answer) == (CHOOSE e \in answer : TRUE)[2]

\* Mutant of Refused: an inactive credential is as good as an active one.
RefusedUnknown(q, answer) ==
    answer = {} \/ (q.pc = "policy" /\ ~ Value(answer))

\* The lookup found nothing (fail closed), an inactive key, or no allowing grant.
Refused(q, answer) ==
    \/ answer = {}
    \/ q.pc = "cred" /\ ~ Value(answer).active
    \/ q.pc = "policy" /\ ~ Value(answer)

\* What the request does with the answer of the lookup it is at.
Answered(q, answer) ==
    LET after == IF Refused(q, answer) THEN "refused"
                 ELSE IF q.pc = "cred" THEN "user"
                 ELSE IF q.pc = "user" /\ q.user # Root THEN "policy"
                 ELSE "admitted"
    IN  [q EXCEPT !.step = "ask", !.gen = 0, !.answer = {}, !.pc = after,
                  !.user = IF after = "user" THEN Value(answer).user ELSE @]

Hit(r) ==
    /\ req[r].pc \in Lookup /\ req[r].step = "ask"
    /\ LET answer == Of(cache[req[r].pc], LookupId(r))
       IN  answer # {} /\ req' = [req EXCEPT ![r] = Answered(req[r], answer)]
    /\ UNCHANGED <<db, fresh, cache, generation, admin, foreign, since>>

\* A miss records the generation before it reads the database.
Miss(r) ==
    /\ req[r].pc \in Lookup /\ req[r].step = "ask"
    /\ Of(cache[req[r].pc], LookupId(r)) = {}
    /\ req' = [req EXCEPT ![r].step = "read", ![r].gen = generation]
    /\ UNCHANGED <<db, fresh, cache, generation, admin, foreign, since>>

Read(r) ==
    /\ req[r].step = "read"
    /\ req' = [req EXCEPT ![r].step = "insert",
                          ![r].answer = Of(Stored(db)[req[r].pc], LookupId(r))]
    /\ UNCHANGED <<db, fresh, cache, generation, admin, foreign, since>>

\* Mutant of Current: an answer read before an invalidation is cached after it.
CurrentAlways(r) == req[r].gen \in Nat

\* insert_if_current.
Current(r) == req[r].gen = generation

Insert(r) ==
    /\ req[r].step = "insert"
    /\ cache' = IF Current(r) /\ req[r].answer # {}
                THEN Cached(req[r].pc, LookupId(r), req[r].answer) ELSE cache
    /\ req' = [req EXCEPT ![r] = Answered(req[r], req[r].answer)]
    /\ UNCHANGED <<db, fresh, generation, admin, foreign, since>>

\* The response has gone out.
Leave(r) ==
    /\ req[r].pc \in {"admitted", "refused"}
    /\ req' = [req EXCEPT ![r] = NoRequest]
    /\ since' = [since EXCEPT ![r] = NoFacts]
    /\ UNCHANGED <<db, fresh, cache, generation, admin, foreign>>

-----------------------------------------------------------------------------

\* Root with its keys, the other keys with a user each, and every user in a team
\* that has a grant, unless all of these are still to be created.
Init ==
    /\ fresh \in {{}, Id \ {Root}}
    /\ \E owner \in [Key \ RootKey -> User \ {Root}] :
         db = [users |-> User \ fresh, teams |-> Team \ fresh, grants |-> Grant \ fresh,
               creds |-> {[key |-> k, user |-> Root, active |-> TRUE] : k \in RootKey} \cup
                         {[key |-> k, user |-> owner[k], active |-> TRUE] :
                             k \in {x \in Key \ RootKey : owner[x] \notin fresh}},
               allowing |-> Grant \ fresh,
               members |-> (Team \ fresh) \X (User \ (fresh \cup {Root})),
               userGrants |-> {},
               teamGrants |-> (Team \ fresh) \X (Grant \ fresh)]
    /\ cache = EmptyCache
    /\ generation = 0
    /\ admin = [a \in Admin |-> Idle]
    /\ req = [r \in Request |-> NoRequest]
    /\ foreign = FALSE
    /\ since = [r \in Request |-> NoFacts]

Next ==
    \/ \E a \in Admin : Handle(a) \/ Commit(a) \/ Invalidate(a)
    \/ \E k \in Key : CliDeleteCredential(k)
    \/ TtlPasses
    \/ \E r \in Request : \/ \E k \in Key : Arrive(r, k)
                          \/ Hit(r) \/ Miss(r) \/ Read(r) \/ Insert(r) \/ Leave(r)

Spec == Init /\ [][Next]_vars

-----------------------------------------------------------------------------
(* Properties. *)

\* Types of the variables.
TypeOK ==
    /\ db \in [users : SUBSET User, teams : SUBSET Team, grants : SUBSET Grant,
               creds : SUBSET Credential, allowing : SUBSET Grant,
               members : SUBSET (Team \X User), userGrants : SUBSET (User \X Grant),
               teamGrants : SUBSET (Team \X Grant)]
    /\ fresh \subseteq Id
    /\ generation \in 0 .. MaxWrites
    /\ foreign \in BOOLEAN
    /\ \A r \in Request :
          /\ req[r].pc \in Lookup \cup {"idle", "admitted", "refused"}
          /\ req[r].step \in {"ask", "read", "insert"}
          /\ Cardinality(req[r].answer) \leq 1
    /\ \A l \in Lookup : \A e, f \in cache[l] : e[1] = f[1] => e = f

\* Between a write's invalidation and the next write, the cache holds nothing
\* but what the tables hold: no slow lookup puts an older answer back, and what
\* another process changed is gone after the cache TTL.
CacheCoherent == ~ Writing => \A l \in Lookup : cache[l] \subseteq Stored(db)[l]

\* A request is only admitted for a user whom its key stood for, and whose
\* policies allowed it, at some moment since the request arrived: a credential,
\* user, grant or membership whose removal was answered before has no effect,
\* and a credential that outlived its user admits nobody.
RevokedIsRefused ==
    \A r \in Request : req[r].pc = "admitted" =>
        /\ req[r].user \in since[r].named \cap since[r].exist
        /\ req[r].user # Root => req[r].user \in since[r].allowed

\* Nobody can lock every administrator out: root keeps an active credential.
RootReachable == ActiveRoot(db) # {}
-----------------------------------------------------------------------------
(* The parts of the inductive invariant behind these properties. *)

\* What the cache may hold for a kind of lookup.
Entry(l) ==
    CASE l = "cred" -> {<<c.key, c>> : c \in Credential}
      [] l = "user" -> {<<u, u>> : u \in User}
      [] l = "policy" -> User \X BOOLEAN

\* An access key id is in the table once.
KeysUnique == \A c, d \in db.creds : c.key = d.key => c = d

\* The requests are somewhere in their three lookups, and the answer one has read
\* is an answer to what it asked.
LookupsInStep ==
    \A r \in Request :
      /\ req[r].gen <= generation
      /\ req[r].pc # "idle" => req[r].key \in Key
      /\ req[r].step # "ask" => req[r].pc \in Lookup
      /\ req[r].step = "insert" =>
           req[r].answer \subseteq {e \in Entry(req[r].pc) : e[1] = LookupId(r)}

\* An answer that insert_if_current may still put into the cache.
Insertable(r) == req[r].step = "insert" /\ Current(r)

\* Unless a write is being published, such an answer is what the tables hold.
ReadsCoherent ==
    ~ Writing => \A r \in Request :
                   Insertable(r) => req[r].answer \subseteq Stored(db)[req[r].pc]

\* What entry e of lookup l says is among the facts f about key k.
Vouched(l, e, f, k) ==
    /\ l = "cred" /\ e[1] = k /\ e[2].active => e[2].user \in f.named
    /\ l = "user" => e[1] \in f.exist
    /\ l = "policy" /\ e[2] => e[1] \in f.allowed

\* Nothing that request r can be told was untrue all the time since it arrived.
ToldTheTruth(r) ==
    req[r].pc # "idle" =>
      /\ \A l \in Lookup : \A e \in Stored(db)[l] \cup cache[l] : Vouched(l, e, since[r], req[r].key)
      /\ \A q \in Request : Insertable(q) \/ (q = r /\ req[q].step = "insert") =>
           \A e \in req[q].answer : Vouched(req[q].pc, e, since[r], req[r].key)

\* What a request has established, lookup by lookup.
Established(r) ==
    /\ req[r].pc \in {"user", "policy", "admitted"} => req[r].user \in since[r].named
    /\ req[r].pc \in {"policy", "admitted"} => req[r].user \in since[r].exist
    /\ req[r].pc = "admitted" /\ req[r].user # Root => req[r].user \in since[r].allowed

\* A removal of a credential that has been accepted leaves root another one.
RemovalIsSafe ==
    \A a \in Admin : Removes(admin[a].op) =>
      /\ \A b \in Admin \ {a} : ~ Removes(admin[b].op)
      /\ admin[a].pc = "write" => \E c \in ActiveRoot(db) : c.key # admin[a].op.x

\* Of the last key of root the cache knows the truth, unless a removal is being
\* published: the lockout guards see it as it is.
LastKeyIsKnown ==
    \A c \in ActiveRoot(db) :
      \/ \E a \in Admin : Removes(admin[a].op)
      \/ \E d \in ActiveRoot(db) : d.key # c.key
      \/ /\ \A e \in Of(cache["cred"], c.key) : e[2] = c
         /\ \A r \in Request : Insertable(r) /\ req[r].pc = "cred" =>
              \A e \in Of(req[r].answer, c.key) : e[2] = c

=============================================================================
