---------------------------- MODULE Identity_proofs ----------------------------
(***************************************************************************)
(* Proofs about Identity, for any users, teams, grants, keys and requests, *)
(* and any number of administration requests at once: the cache never goes *)
(* back to an older answer, a revoked key is refused, and root keeps a key *)
(* as long as removals of credentials do not overlap.                      *)
(***************************************************************************)
EXTENDS Identity, FiniteSetTheorems, TLAPS

AnyEntry == Entry("cred") \cup Entry("user") \cup Entry("policy")

Tables == [users : SUBSET User, teams : SUBSET Team, grants : SUBSET Grant,
           creds : SUBSET Credential, allowing : SUBSET Grant,
           members : SUBSET (Team \X User), userGrants : SUBSET (User \X Grant),
           teamGrants : SUBSET (Team \X Grant)]

OpName == {"none", "put_user", "put_team", "put_grant", "delete_user", "delete_team",
           "delete_grant", "update_grant", "put_credential", "delete_credential",
           "activate", "deactivate", "attach_to_user", "detach_from_user",
           "attach_to_team", "detach_from_team", "add_member", "remove_member"}

Thing == User \cup Team \cup Grant \cup Key

Operation == [name : OpName, x : Thing, y : Thing]

RequestState == [pc : Lookup \cup {"idle", "admitted", "refused"},
                 step : {"ask", "read", "insert"}, key : Key \cup {NoKey}, user : User,
                 gen : Nat, answer : SUBSET AnyEntry]

Known == [named : SUBSET User, exist : SUBSET User, allowed : SUBSET User]

\* What the write of an operation is applied to; root is never deleted.
OperandsFit(op) ==
  /\ op.name \in {"put_user", "delete_user", "attach_to_user", "detach_from_user"} => op.x \in User
  /\ op.name \in {"put_team", "delete_team", "attach_to_team", "detach_from_team",
                  "add_member", "remove_member"} => op.x \in Team
  /\ op.name \in {"put_grant", "delete_grant", "update_grant"} => op.x \in Grant
  /\ op.name \in {"put_credential", "delete_credential", "activate", "deactivate"} => op.x \in Key
  /\ op.name \in {"put_credential", "add_member", "remove_member"} => op.y \in User
  /\ op.name \in {"attach_to_user", "detach_from_user", "attach_to_team", "detach_from_team"}
       => op.y \in Grant
  /\ op.name = "delete_user" => op.x # Root

\* The types of all variables.
Shapes ==
  /\ db \in Tables
  /\ cache \in [Lookup -> SUBSET AnyEntry]
  /\ \A l \in Lookup : cache[l] \subseteq Entry(l)
  /\ generation \in Nat
  /\ admin \in [Admin -> [pc : {"idle", "write", "invalidate"}, op : Operation]]
  /\ \A a \in Admin : /\ OperandsFit(admin[a].op)
                      /\ admin[a].pc = "write" => admin[a].op.name # "none"
  /\ req \in [Request -> RequestState]
  /\ foreign \in BOOLEAN
  /\ since \in [Request -> Known]

LEMMA EntryIs ==
  /\ Entry("cred") = {<<c.key, c>> : c \in Credential}
  /\ Entry("user") = {<<u, u>> : u \in User}
  /\ Entry("policy") = User \X BOOLEAN
  BY DEF Entry

LEMMA StoredIs ==
  ASSUME NEW d
  PROVE  /\ Stored(d)["cred"] = {<<c.key, c>> : c \in d.creds}
         /\ Stored(d)["user"] = {<<u, u>> : u \in d.users}
         /\ Stored(d)["policy"] = {<<u, Allowed(d, u)>> : u \in User}
  BY DEF Stored

LEMMA AllowedIsBoolean == \A d, u : Allowed(d, u) \in BOOLEAN
  BY DEF Allowed

\* What the tables answer is an entry.
LEMMA StoredEntries ==
  ASSUME NEW d \in Tables, NEW l \in Lookup
  PROVE  Stored(d)[l] \subseteq Entry(l) /\ Entry(l) \subseteq AnyEntry
<1>1. d.creds \subseteq Credential /\ d.users \subseteq User
  BY DEF Tables
<1>2. CASE l = "cred"
  BY <1>1, <1>2, EntryIs, StoredIs DEF AnyEntry
<1>3. CASE l = "user"
  BY <1>1, <1>3, EntryIs, StoredIs DEF AnyEntry
<1>4. CASE l = "policy"
  BY <1>4, EntryIs, StoredIs, AllowedIsBoolean DEF AnyEntry
<1> QED
  BY <1>2, <1>3, <1>4 DEF Lookup

LEMMA FactsAre ==
  ASSUME NEW d \in Tables, NEW k
  PROVE  /\ Facts(d, k) \in Known
         /\ Facts(d, k).exist = d.users
         /\ \A c \in d.creds : c.key = k /\ c.active => c.user \in Facts(d, k).named
         /\ \A u \in User : Allowed(d, u) => u \in Facts(d, k).allowed
<1>1. d.creds \subseteq Credential /\ d.users \subseteq User
  BY DEF Tables
<1>2. {c.user : c \in {x \in d.creds : x.key = k /\ x.active}} \subseteq User
  BY <1>1 DEF Credential
<1> QED
  BY <1>1, <1>2 DEF Facts, Known

\* The facts of a moment vouch for what the tables answer at that moment.
LEMMA FactsVouch ==
  ASSUME NEW d \in Tables, NEW l \in Lookup, NEW e \in Stored(d)[l], NEW k
  PROVE  Vouched(l, e, Facts(d, k), k)
<1>1. CASE l = "cred"
  <2>1. PICK c \in d.creds : e = <<c.key, c>>
    BY <1>1, StoredIs
  <2>2. e[1] = c.key /\ e[2] = c
    BY <2>1
  <2> QED
    BY <1>1, <2>2, FactsAre DEF Vouched
<1>2. CASE l = "user"
  <2>1. PICK u \in d.users : e = <<u, u>>
    BY <1>2, StoredIs
  <2>2. e[1] = u
    BY <2>1
  <2> QED
    BY <1>2, <2>2, FactsAre DEF Vouched
<1>3. CASE l = "policy"
  <2>1. PICK u \in User : e = <<u, Allowed(d, u)>>
    BY <1>3, StoredIs
  <2>2. e[1] = u /\ e[2] = Allowed(d, u)
    BY <2>1
  <2> QED
    BY <1>3, <2>2, FactsAre DEF Vouched
<1> QED
  BY <1>1, <1>2, <1>3 DEF Lookup

\* More facts vouch for no less.
LEMMA VouchedMore ==
  ASSUME NEW l, NEW e, NEW k, NEW f, NEW g, Vouched(l, e, f, k),
         f.named \subseteq g.named, f.exist \subseteq g.exist, f.allowed \subseteq g.allowed
  PROVE  Vouched(l, e, g, k)
  BY DEF Vouched

\* Nothing is beyond what is said of a request that a write excuses.
LEMMA AllFactsVouch ==
  ASSUME NEW l \in Lookup, NEW e \in Entry(l), NEW k
  PROVE  Vouched(l, e, AllFacts, k)
<1>1. CASE l = "cred"
  <2>1. PICK c \in Credential : e = <<c.key, c>>
    BY <1>1, EntryIs
  <2>2. e[1] = c.key /\ e[2] = c /\ c.user \in User
    BY <2>1 DEF Credential
  <2> QED
    BY <1>1, <2>2 DEF Vouched, AllFacts
<1>2. CASE l = "user"
  BY <1>2, EntryIs DEF Vouched, AllFacts
<1>3. CASE l = "policy"
  BY <1>3, EntryIs DEF Vouched, AllFacts
<1> QED
  BY <1>1, <1>2, <1>3 DEF Lookup
-----------------------------------------------------------------------------
\* An access key id is in table d once.
UniqueIn(d) == \A c, e \in d.creds : c.key = e.key => c = e

\* What each write does to the users and the credentials.
LEMMA WrittenIs ==
  ASSUME NEW d \in Tables, NEW op \in Operation, OperandsFit(op), op.name # "none"
  PROVE  LET w == Written(d, op)
         IN  /\ w \in Tables
             /\ w.users = IF op.name = "put_user" THEN d.users \cup {op.x}
                          ELSE IF op.name = "delete_user" THEN d.users \ {op.x} ELSE d.users
             /\ w.creds = IF op.name = "delete_user" THEN {c \in d.creds : c.user # op.x}
                          ELSE IF op.name = "put_credential" THEN WithCredential(d, op.x, op.y).creds
                          ELSE IF op.name = "delete_credential" THEN {c \in d.creds : c.key # op.x}
                          ELSE IF op.name = "activate" THEN WithActive(d, op.x, TRUE).creds
                          ELSE IF op.name = "deactivate" THEN WithActive(d, op.x, FALSE).creds
                          ELSE d.creds
<1> DEFINE w == Written(d, op)
<1> USE DEF Tables, OperandsFit
<1>1. CASE op.name = "put_user"
  BY <1>1 DEF Written, PutUser
<1>2. CASE op.name = "put_team"
  BY <1>2 DEF Written, PutTeam
<1>3. CASE op.name = "put_grant"
  BY <1>3 DEF Written, PutGrant
<1>4. CASE op.name = "delete_user"
  BY <1>4 DEF Written, WithoutUser
<1>5. CASE op.name = "delete_team"
  BY <1>5 DEF Written, WithoutTeam
<1>6. CASE op.name = "delete_grant"
  BY <1>6 DEF Written, WithoutGrant
<1>7. CASE op.name = "update_grant"
  BY <1>7 DEF Written, WithDocument
<1>8. CASE op.name = "put_credential"
  <2>1. [key |-> op.x, user |-> op.y, active |-> TRUE] \in Credential
    BY <1>8 DEF Credential
  <2>2. WithCredential(d, op.x, op.y) \in Tables /\ WithCredential(d, op.x, op.y).users = d.users
    BY <2>1 DEF WithCredential
  <2>3. w = WithCredential(d, op.x, op.y)
    BY <1>8 DEF Written
  <2> QED
    BY <1>8, <2>2, <2>3
<1>9. CASE op.name = "delete_credential"
  BY <1>9 DEF Written, WithoutCredential
<1>10. ASSUME NEW b \in BOOLEAN
       PROVE  WithActive(d, op.x, b) \in Tables /\ WithActive(d, op.x, b).users = d.users
  <2>1. \A c \in d.creds : [c EXCEPT !.active = b] \in Credential
    BY DEF Credential
  <2> QED
    BY <2>1 DEF WithActive
<1>11. CASE op.name = "activate"
  <2>1. w = WithActive(d, op.x, TRUE)
    BY <1>11 DEF Written
  <2> QED
    BY <1>10, <1>11, <2>1
<1>12. CASE op.name = "deactivate"
  <2>1. w = WithActive(d, op.x, FALSE)
    BY <1>12 DEF Written
  <2> QED
    BY <1>10, <1>12, <2>1
<1>13. CASE op.name = "attach_to_user"
  BY <1>13 DEF Written, AttachToUser
<1>14. CASE op.name = "detach_from_user"
  BY <1>14 DEF Written, DetachFromUser
<1>15. CASE op.name = "attach_to_team"
  BY <1>15 DEF Written, AttachToTeam
<1>16. CASE op.name = "detach_from_team"
  BY <1>16 DEF Written, DetachFromTeam
<1>17. CASE op.name = "add_member"
  BY <1>17 DEF Written, PutMember
<1>18. CASE op.name = "remove_member"
  BY <1>18 DEF Written, WithoutMember
<1>19. op.name \in OpName
  BY DEF Operation
<1> QED
  BY <1>1, <1>2, <1>3, <1>4, <1>5, <1>6, <1>7, <1>8, <1>9, <1>11, <1>12, <1>13, <1>14,
     <1>15, <1>16, <1>17, <1>18, <1>19 DEF OpName

\* The credentials after update_credential.
LEMMA ActiveIs ==
  ASSUME NEW d \in Tables, NEW k, NEW b \in BOOLEAN
  PROVE  /\ \A c \in d.creds : c.key # k => c \in WithActive(d, k, b).creds
         /\ \A c \in d.creds : c.key = k => [c EXCEPT !.active = b] \in WithActive(d, k, b).creds
         /\ \A e \in WithActive(d, k, b).creds :
              \/ e \in d.creds /\ e.key # k
              \/ \E c \in d.creds : /\ c.key = k /\ e = [c EXCEPT !.active = b]
                                    /\ e.key = k /\ e.user = c.user /\ e.active = b
  BY DEF WithActive, Tables, Credential

LEMMA WrittenUnique ==
  ASSUME NEW d \in Tables, UniqueIn(d), NEW op \in Operation, OperandsFit(op), op.name # "none"
  PROVE  UniqueIn(Written(d, op))
<1> DEFINE w == Written(d, op)
<1>1. CASE w.creds \subseteq d.creds
  BY <1>1 DEF UniqueIn
<1>2. CASE op.name = "put_credential"
  <2>1. w.creds = WithCredential(d, op.x, op.y).creds
    BY <1>2, WrittenIs
  <2>2. CASE \E c \in d.creds : c.key = op.x
    BY <2>1, <2>2 DEF WithCredential, UniqueIn
  <2>3. CASE ~ \E c \in d.creds : c.key = op.x
    <3> DEFINE N == [key |-> op.x, user |-> op.y, active |-> TRUE]
    <3>1. w.creds = d.creds \cup {N}
      BY <2>1, <2>3 DEF WithCredential, Tables
    <3>2. N.key = op.x
      OBVIOUS
    <3> HIDE DEF w, N
    <3>3. UniqueIn(w)
      BY <2>3, <3>1, <3>2 DEF UniqueIn
    <3> QED
      BY <3>3 DEF w
  <2> QED
    BY <2>2, <2>3
<1>3. ASSUME NEW b \in BOOLEAN, w.creds = WithActive(d, op.x, b).creds PROVE UniqueIn(w)
  <2> SUFFICES ASSUME NEW c \in w.creds, NEW e \in w.creds, c.key = e.key PROVE c = e
    BY DEF UniqueIn
  <2> QED
    BY <1>3, ActiveIs DEF UniqueIn
<1>4. op.name = "activate" => w.creds = WithActive(d, op.x, TRUE).creds
  BY WrittenIs
<1>5. op.name = "deactivate" => w.creds = WithActive(d, op.x, FALSE).creds
  BY WrittenIs
<1>6. op.name \notin {"put_credential", "activate", "deactivate"} => w.creds \subseteq d.creds
  BY WrittenIs
<1> QED
  BY <1>1, <1>2, <1>3, <1>4, <1>5, <1>6

\* No write but a removal takes a key from root, and a key it gives to root is
\* another one than those root has.
LEMMA WrittenKeepsRoot ==
  ASSUME NEW d \in Tables, UniqueIn(d), NEW op \in Operation, OperandsFit(op),
         op.name # "none", ~ Removes(op), ActiveRoot(d) # {}
  PROVE  /\ ActiveRoot(d) \subseteq ActiveRoot(Written(d, op))
         /\ \A c \in ActiveRoot(Written(d, op)) \ ActiveRoot(d) :
              \A e \in ActiveRoot(d) : e.key # c.key
<1> DEFINE w == Written(d, op)
<1>1. Root \in d.users /\ d.creds \subseteq Credential
  BY DEF ActiveRoot, Tables
<1>2. Root \in w.users
  BY <1>1, WrittenIs DEF OperandsFit
<1>3. op.name \notin {"delete_credential", "deactivate"}
  BY DEF Removes
<1>4. CASE op.name = "put_credential"
  <2>1. w.creds = WithCredential(d, op.x, op.y).creds
    BY <1>4, WrittenIs
  <2>2. CASE \E c \in d.creds : c.key = op.x
    <3>1. w.creds = d.creds
      BY <2>1, <2>2 DEF WithCredential
    <3> QED
      BY <1>1, <1>2, <3>1 DEF ActiveRoot
  <2>3. CASE ~ \E c \in d.creds : c.key = op.x
    <3>1. w.creds = d.creds \cup {[key |-> op.x, user |-> op.y, active |-> TRUE]}
      BY <2>1, <2>3 DEF WithCredential, Tables
    <3> QED
      BY <1>1, <1>2, <2>3, <3>1 DEF ActiveRoot
  <2> QED
    BY <2>2, <2>3
<1>5. CASE op.name = "activate"
  <2>1. w.creds = WithActive(d, op.x, TRUE).creds
    BY <1>5, WrittenIs
  <2>2. \A c \in d.creds : c.active /\ c.key = op.x => c \in w.creds
    <3> SUFFICES ASSUME NEW c \in d.creds, c.active, c.key = op.x PROVE c \in w.creds
      OBVIOUS
    <3>1. c.active = TRUE
      BY <1>1 DEF Credential
    <3>2. [c EXCEPT !.active = TRUE] = c
      BY <1>1, <3>1 DEF Credential
    <3>3. [c EXCEPT !.active = TRUE] \in WithActive(d, op.x, TRUE).creds
      BY ActiveIs
    <3> QED
      BY <2>1, <3>2, <3>3
  <2>3. ActiveRoot(d) \subseteq ActiveRoot(w)
    BY <1>2, <2>1, <2>2, ActiveIs DEF ActiveRoot
  <2>4. ASSUME NEW c \in ActiveRoot(w), c \notin ActiveRoot(d), NEW e \in ActiveRoot(d),
               e.key = c.key
        PROVE  FALSE
    <3>1. e \in w.creds /\ c \in w.creds
      BY <2>3, <2>4 DEF ActiveRoot
    <3>2. UniqueIn(w)
      BY WrittenUnique
    <3> QED
      BY <2>4, <3>1, <3>2 DEF UniqueIn
  <2> QED
    BY <2>3, <2>4
<1>6. CASE op.name = "delete_user"
  <2>1. w.creds = {c \in d.creds : c.user # op.x} /\ op.x # Root
    BY <1>6, WrittenIs DEF OperandsFit
  <2> QED
    BY <1>1, <1>2, <2>1 DEF ActiveRoot
<1>7. CASE op.name \notin {"put_credential", "activate", "delete_user"}
  <2>1. w.creds = d.creds
    BY <1>3, <1>7, WrittenIs
  <2> QED
    BY <1>1, <1>2, <2>1 DEF ActiveRoot
<1> QED
  BY <1>4, <1>5, <1>6, <1>7

\* A removal takes no key but the one it is about.
LEMMA RemovalKeepsOthers ==
  ASSUME NEW d \in Tables, NEW op \in Operation, OperandsFit(op), Removes(op),
         NEW c \in ActiveRoot(d), c.key # op.x
  PROVE  c \in ActiveRoot(Written(d, op))
<1>1. op.name \in {"delete_credential", "deactivate"}
  BY DEF Removes
<1>2. Written(d, op).users = d.users
  BY <1>1, WrittenIs
<1>3. c \in d.creds
  BY DEF ActiveRoot
<1>4. CASE op.name = "delete_credential"
  <2>1. Written(d, op).creds = {x \in d.creds : x.key # op.x}
    BY <1>4, WrittenIs
  <2> QED
    BY <1>2, <1>3, <2>1 DEF ActiveRoot
<1>5. CASE op.name = "deactivate"
  <2>1. Written(d, op).creds = WithActive(d, op.x, FALSE).creds
    BY <1>5, WrittenIs
  <2>2. c \in WithActive(d, op.x, FALSE).creds
    BY <1>3, ActiveIs
  <2> QED
    BY <1>2, <2>1, <2>2 DEF ActiveRoot
<1> QED
  BY <1>1, <1>4, <1>5
-----------------------------------------------------------------------------
\* A lookup by a handler leaves in the cache nothing but what was there and what
\* the tables hold.
CacheStep ==
  /\ cache' \in [Lookup -> SUBSET AnyEntry]
  /\ \A l \in Lookup : cache'[l] \subseteq cache[l] \cup Stored(db)[l]

LEMMA ReadThroughStep ==
  ASSUME Shapes, NEW l \in Lookup, NEW id, ReadThrough(l, id)
  PROVE  CacheStep
<1>1. db \in Tables /\ cache \in [Lookup -> SUBSET AnyEntry]
  BY DEF Shapes
<1>2. Got(l, id) \subseteq cache[l] \cup Stored(db)[l]
  BY DEF Got, Of
<1>3. \A m \in Lookup : Stored(db)[m] \subseteq AnyEntry
  BY <1>1, StoredEntries
<1>4. Got(l, id) \subseteq AnyEntry
  BY <1>1, <1>2, <1>3
<1> DEFINE N == (cache[l] \ Of(cache[l], id)) \cup Got(l, id)
<1>5. cache' = [cache EXCEPT ![l] = N]
  BY DEF ReadThrough, Cached
<1>6. N \subseteq AnyEntry /\ N \subseteq cache[l] \cup Stored(db)[l]
  BY <1>1, <1>2, <1>4
<1> HIDE DEF N
<1> QED
  BY <1>1, <1>5, <1>6 DEF CacheStep

\* What a handler that accepts a request does: it notes the operation, perhaps
\* after lookups, and a removal has passed the lockout guard.
Accepted(a, op) ==
  /\ op \in Operation /\ OperandsFit(op) /\ op.name # "none"
  /\ Accept(a, op)
  /\ CacheStep
  /\ Removes(op) => /\ Overlap \/ \A b \in Admin : ~ Removes(admin[b].op)
                    /\ \E e \in Got("cred", op.x) : KeepsAnotherKey(e[2])

LEMMA CallIs ==
  ASSUME NEW n \in OpName, NEW x \in Thing, NEW y \in Thing
  PROVE  /\ Call(n, x, y) \in Operation
         /\ Call(n, x, y).name = n /\ Call(n, x, y).x = x /\ Call(n, x, y).y = y
  BY DEF Call, Operation

LEMMA SameCache == ASSUME Shapes, UNCHANGED cache PROVE CacheStep
  BY DEF CacheStep, Shapes

LEMMA HandleStep ==
  ASSUME Shapes, NEW a \in Admin, Handle(a)
  PROVE  \E op : Accepted(a, op)
<1> DEFINE Goal == \E op : Accepted(a, op)
<1>0. Root \in User /\ "user" \in Lookup /\ "cred" \in Lookup
  BY IdentityAssumption DEF Lookup
<1>1. ASSUME NEW n \in OpName \ {"none", "delete_credential", "deactivate"},
             NEW x \in Thing, NEW y \in Thing,
             OperandsFit(Call(n, x, y)), Accept(a, Call(n, x, y)), CacheStep
      PROVE  Goal
  <2>1. ~ Removes(Call(n, x, y))
    BY CallIs DEF Removes
  <2>2. Accepted(a, Call(n, x, y))
    BY <1>1, <2>1, CallIs DEF Accepted
  <2> QED
    BY <2>2
<1>2. ASSUME NEW u \in User, CreateUser(a, u) \/ DeleteUser(a, u) PROVE Goal
  <2>1. OperandsFit(Call("put_user", u, u)) /\ (u # Root => OperandsFit(Call("delete_user", u, u)))
    BY CallIs DEF OperandsFit, OpName, Thing
  <2>2. CacheStep
    BY <1>0, <1>2, ReadThroughStep, SameCache DEF CreateUser, DeleteUser
  <2> QED
    BY <1>1, <1>2, <2>1, <2>2 DEF CreateUser, DeleteUser, OpName, Thing
<1>3. ASSUME NEW t \in Team, CreateTeam(a, t) \/ DeleteTeam(a, t) PROVE Goal
  <2>1. OperandsFit(Call("put_team", t, t)) /\ OperandsFit(Call("delete_team", t, t))
    BY CallIs DEF OperandsFit, OpName, Thing
  <2>2. CacheStep
    BY <1>3, SameCache DEF CreateTeam, DeleteTeam
  <2> QED
    BY <1>1, <1>3, <2>1, <2>2 DEF CreateTeam, DeleteTeam, OpName, Thing
<1>4. ASSUME NEW g \in Grant, CreateGrant(a, g) \/ DeleteGrant(a, g) \/ UpdateGrant(a, g)
      PROVE  Goal
  <2>1. /\ OperandsFit(Call("put_grant", g, g)) /\ OperandsFit(Call("delete_grant", g, g))
        /\ OperandsFit(Call("update_grant", g, g))
    BY CallIs DEF OperandsFit, OpName, Thing
  <2>2. CacheStep
    BY <1>4, SameCache DEF CreateGrant, DeleteGrant, UpdateGrant
  <2> QED
    BY <1>1, <1>4, <2>1, <2>2 DEF CreateGrant, DeleteGrant, UpdateGrant, OpName, Thing
<1>5. ASSUME NEW u \in User, NEW g \in Grant, AttachUserGrant(a, u, g) \/ DetachUserGrant(a, u, g)
      PROVE  Goal
  <2>1. OperandsFit(Call("attach_to_user", u, g)) /\ OperandsFit(Call("detach_from_user", u, g))
    BY CallIs DEF OperandsFit, OpName, Thing
  <2>2. CacheStep
    BY <1>0, <1>5, ReadThroughStep, SameCache DEF AttachUserGrant, DetachUserGrant
  <2> QED
    BY <1>1, <1>5, <2>1, <2>2 DEF AttachUserGrant, DetachUserGrant, OpName, Thing
<1>6. ASSUME NEW t \in Team, NEW g \in Grant, AttachTeamGrant(a, t, g) \/ DetachTeamGrant(a, t, g)
      PROVE  Goal
  <2>1. OperandsFit(Call("attach_to_team", t, g)) /\ OperandsFit(Call("detach_from_team", t, g))
    BY CallIs DEF OperandsFit, OpName, Thing
  <2>2. CacheStep
    BY <1>6, SameCache DEF AttachTeamGrant, DetachTeamGrant
  <2> QED
    BY <1>1, <1>6, <2>1, <2>2 DEF AttachTeamGrant, DetachTeamGrant, OpName, Thing
<1>7. ASSUME NEW t \in Team, NEW u \in User, AddMember(a, t, u) \/ RemoveMember(a, t, u)
      PROVE  Goal
  <2>1. OperandsFit(Call("add_member", t, u)) /\ OperandsFit(Call("remove_member", t, u))
    BY CallIs DEF OperandsFit, OpName, Thing
  <2>2. CacheStep
    BY <1>0, <1>7, ReadThroughStep, SameCache DEF AddMember, RemoveMember
  <2> QED
    BY <1>1, <1>7, <2>1, <2>2 DEF AddMember, RemoveMember, OpName, Thing
<1>8. ASSUME NEW k \in Key, NEW u \in User, CreateUserCredential(a, k, u) PROVE Goal
  <2>1. OperandsFit(Call("put_credential", k, u))
    BY CallIs DEF OperandsFit, OpName, Thing
  <2>2. CacheStep
    BY <1>0, <1>8, ReadThroughStep DEF CreateUserCredential
  <2> QED
    BY <1>1, <1>8, <2>1, <2>2 DEF CreateUserCredential, OpName, Thing
<1>9. ASSUME NEW k \in Key, ActivateCredential(a, k) PROVE Goal
  <2>1. OperandsFit(Call("activate", k, Root))
    BY <1>0, CallIs DEF OperandsFit, OpName, Thing
  <2>2. CacheStep
    BY <1>0, <1>9, ReadThroughStep DEF ActivateCredential
  <2> QED
    BY <1>0, <1>1, <1>9, <2>1, <2>2 DEF ActivateCredential, OpName, Thing
<1>10. ASSUME NEW k \in Key, NEW n \in {"delete_credential", "deactivate"},
              RemoveCredential(a, k, n)
       PROVE  Goal
  <2> DEFINE op == Call(n, k, Root)
  <2>1. n \in OpName /\ k \in Thing /\ Root \in Thing
    BY <1>0 DEF OpName, Thing
  <2>2. op \in Operation /\ op.name = n /\ op.x = k /\ op.y = Root
    BY <2>1, CallIs
  <2>3. OperandsFit(op)
    BY <2>2 DEF OperandsFit
  <2>4. CacheStep
    BY <1>0, <1>10, ReadThroughStep DEF RemoveCredential
  <2>5. /\ Accept(a, op)
        /\ Overlap \/ \A b \in Admin : ~ Removes(admin[b].op)
        /\ \E e \in Got("cred", k) : KeepsAnotherKey(e[2])
    BY <1>10 DEF RemoveCredential
  <2> HIDE DEF op
  <2>6. Accepted(a, op)
    BY <2>2, <2>3, <2>4, <2>5 DEF Accepted
  <2> QED
    BY <2>6
<1> HIDE DEF Goal
<1>11. Goal
  BY <1>2, <1>3, <1>4, <1>5, <1>6, <1>7, <1>8, <1>9, <1>10 DEF Handle
<1> QED
  BY <1>11 DEF Goal
-----------------------------------------------------------------------------
\* The request after the answer A to the lookup it is at.
LEMMA AnsweredIs ==
  ASSUME Shapes, NEW r \in Request, req[r].pc \in Lookup, NEW A,
         A \subseteq {e \in Entry(req[r].pc) : e[1] = LookupId(r)}
  PROVE  LET q == Answered(req[r], A)
         IN  /\ q \in RequestState
             /\ q.step = "ask" /\ q.gen = 0 /\ q.key = req[r].key
             /\ q.pc \in {"refused", "user", "policy", "admitted"}
             /\ q.pc \in {"user", "policy", "admitted"} =>
                  \E e \in A :
                    \/ /\ req[r].pc = "cred" /\ q.pc = "user" /\ e[2].active /\ q.user = e[2].user
                    \/ /\ req[r].pc = "user" /\ q.user = req[r].user
                       /\ q.pc = "policy" \/ (q.pc = "admitted" /\ q.user = Root)
                    \/ /\ req[r].pc = "policy" /\ q.pc = "admitted" /\ q.user = req[r].user /\ e[2]
<1> DEFINE q == Answered(req[r], A)
<1>1. /\ req[r] \in RequestState
      /\ req[r].pc \in {"cred", "user", "policy"}
  BY DEF Shapes, Lookup
<1>2. CASE Refused(req[r], A)
  <2>1. q = [req[r] EXCEPT !.step = "ask", !.gen = 0, !.answer = {}, !.pc = "refused"]
    BY <1>1, <1>2 DEF Answered, RequestState
  <2> HIDE DEF q
  <2>2. /\ q \in RequestState /\ q.step = "ask" /\ q.gen = 0 /\ q.key = req[r].key
        /\ q.pc = "refused"
    BY <1>1, <2>1 DEF RequestState
  <2> QED
    BY <2>2 DEF q
<1>3. CASE ~ Refused(req[r], A)
  <2> DEFINE e == CHOOSE x \in A : TRUE
  <2>1. e \in A /\ Value(A) = e[2]
    BY <1>3 DEF Refused, Value
  <2> HIDE DEF e
  <2>2. CASE req[r].pc = "cred"
    <3>1. e[2].active
      BY <1>3, <2>1, <2>2 DEF Refused
    <3>2. e[2].user \in User
      <4>1. PICK c \in Credential : e = <<c.key, c>>
        BY <2>1, <2>2, EntryIs
      <4> QED
        BY <4>1 DEF Credential
    <3>3. q = [req[r] EXCEPT !.step = "ask", !.gen = 0, !.answer = {}, !.pc = "user",
                             !.user = e[2].user]
      BY <1>3, <2>1, <2>2 DEF Answered
    <3> HIDE DEF q
    <3>4. /\ q \in RequestState /\ q.step = "ask" /\ q.gen = 0 /\ q.key = req[r].key
          /\ q.pc = "user" /\ q.user = e[2].user
      BY <1>1, <3>2, <3>3 DEF RequestState, Lookup
    <3> QED
      BY <2>1, <2>2, <3>1, <3>4 DEF q
  <2>3. CASE req[r].pc = "user"
    <3>1. q = [req[r] EXCEPT !.step = "ask", !.gen = 0, !.answer = {},
                             !.pc = IF req[r].user # Root THEN "policy" ELSE "admitted"]
      BY <1>1, <1>3, <2>3 DEF Answered, RequestState
    <3> HIDE DEF q
    <3>2. /\ q \in RequestState /\ q.step = "ask" /\ q.gen = 0 /\ q.key = req[r].key
          /\ q.user = req[r].user
          /\ q.pc = "policy" \/ (q.pc = "admitted" /\ q.user = Root)
      BY <1>1, <3>1 DEF RequestState, Lookup
    <3> QED
      BY <2>1, <2>3, <3>2 DEF q
  <2>4. CASE req[r].pc = "policy"
    <3>1. e[2]
      BY <1>3, <2>1, <2>4 DEF Refused
    <3>2. q = [req[r] EXCEPT !.step = "ask", !.gen = 0, !.answer = {}, !.pc = "admitted"]
      BY <1>1, <1>3, <2>4 DEF Answered, RequestState
    <3> HIDE DEF q
    <3>3. /\ q \in RequestState /\ q.step = "ask" /\ q.gen = 0 /\ q.key = req[r].key
          /\ q.user = req[r].user /\ q.pc = "admitted"
      BY <1>1, <3>2 DEF RequestState
    <3> QED
      BY <2>1, <2>4, <3>1, <3>3 DEF q
  <2> QED
    BY <1>1, <2>2, <2>3, <2>4
<1> QED
  BY <1>2, <1>3
-----------------------------------------------------------------------------
Typed == Shapes /\ KeysUnique /\ LookupsInStep

LEMMA TypedInit == Init => Typed
<1> SUFFICES ASSUME Init PROVE Typed
  OBVIOUS
<1> USE IdentityAssumption
<1>1. fresh \in {{}, Id \ {Root}}
  BY DEF Init
<1>2. PICK owner \in [Key \ RootKey -> User \ {Root}] :
         db = [users |-> User \ fresh, teams |-> Team \ fresh, grants |-> Grant \ fresh,
               creds |-> {[key |-> k, user |-> Root, active |-> TRUE] : k \in RootKey} \cup
                         {[key |-> k, user |-> owner[k], active |-> TRUE] :
                             k \in {x \in Key \ RootKey : owner[x] \notin fresh}},
               allowing |-> Grant \ fresh,
               members |-> (Team \ fresh) \X (User \ (fresh \cup {Root})),
               userGrants |-> {},
               teamGrants |-> (Team \ fresh) \X (Grant \ fresh)]
  BY DEF Init
<1>3. /\ \A k \in RootKey : [key |-> k, user |-> Root, active |-> TRUE] \in Credential
      /\ \A k \in Key \ RootKey : [key |-> k, user |-> owner[k], active |-> TRUE] \in Credential
  BY DEF Credential
<1>4. db \in Tables
  BY <1>2, <1>3 DEF Tables
<1>5. KeysUnique
  <2>1. ASSUME NEW c \in db.creds
        PROVE  IF c.key \in RootKey THEN c = [key |-> c.key, user |-> Root, active |-> TRUE]
               ELSE c = [key |-> c.key, user |-> owner[c.key], active |-> TRUE]
    BY <1>2
  <2> SUFFICES ASSUME NEW c \in db.creds, NEW d \in db.creds, c.key = d.key PROVE c = d
    BY DEF KeysUnique
  <2>2. CASE c.key \in RootKey
    <3>1. c = [key |-> c.key, user |-> Root, active |-> TRUE]
      BY <2>1, <2>2
    <3>2. d = [key |-> c.key, user |-> Root, active |-> TRUE]
      BY <2>1, <2>2
    <3> QED
      BY <3>1, <3>2
  <2>3. CASE c.key \notin RootKey
    <3>1. c = [key |-> c.key, user |-> owner[c.key], active |-> TRUE]
      BY <2>1, <2>3
    <3>2. d = [key |-> c.key, user |-> owner[c.key], active |-> TRUE]
      BY <2>1, <2>3
    <3> QED
      BY <3>1, <3>2
  <2> QED
    BY <2>2, <2>3
<1>6. cache \in [Lookup -> SUBSET AnyEntry] /\ \A l \in Lookup : cache[l] \subseteq Entry(l)
  BY DEF Init, EmptyCache
<1>7. /\ NoOp \in Operation /\ NoOp.name = "none" /\ OperandsFit(NoOp)
  BY DEF NoOp, Operation, OpName, Thing, OperandsFit
<1>8. /\ admin \in [Admin -> [pc : {"idle", "write", "invalidate"}, op : Operation]]
      /\ \A a \in Admin : admin[a].pc = "idle" /\ admin[a].op = NoOp
  BY <1>7 DEF Init, Idle
<1>9. NoRequest \in RequestState
  BY DEF NoRequest, RequestState
<1>10. req \in [Request -> RequestState] /\ \A r \in Request : req[r] = NoRequest
  BY <1>9 DEF Init
<1>11. since \in [Request -> Known] /\ generation = 0 /\ foreign = FALSE
  BY DEF Init, NoFacts, Known
<1>12. Shapes
  BY <1>4, <1>6, <1>7, <1>8, <1>10, <1>11 DEF Shapes
<1>13. LookupsInStep
  BY <1>10, <1>11 DEF LookupsInStep, NoRequest
<1> QED
  BY <1>5, <1>12, <1>13 DEF Typed

\* What has been true since a request arrived only grows, and takes in what is
\* true now.
LEMMA RememberStep ==
  ASSUME Shapes, NEW d \in Tables, Remember(d), NEW r \in Request
  PROVE  /\ since' \in [Request -> Known]
         /\ req[r].pc # "idle" =>
              LET f == Facts(d, req[r].key)
              IN  since'[r] = [named |-> since[r].named \cup f.named,
                               exist |-> since[r].exist \cup f.exist,
                               allowed |-> since[r].allowed \cup f.allowed]
<1>1. \A q \in Request : Facts(d, req[q].key) \in Known /\ since[q] \in Known
  BY FactsAre DEF Shapes
<1>2. NoFacts \in Known
  BY DEF NoFacts, Known
<1>3. since' \in [Request -> Known]
  <2>1. ASSUME NEW f \in Known, NEW g \in Known
        PROVE  [named |-> f.named \cup g.named, exist |-> f.exist \cup g.exist,
                allowed |-> f.allowed \cup g.allowed] \in Known
    BY DEF Known
  <2> QED
    BY <1>1, <1>2, <2>1 DEF Remember
<1> QED
  BY <1>3 DEF Remember

\* The tables after the step of a handler's transaction.
LEMMA CommitStep ==
  ASSUME Shapes, KeysUnique, NEW a \in Admin, Commit(a)
  PROVE  /\ db' \in Tables /\ UniqueIn(db') /\ Remember(db')
         /\ db' \in {db, Written(db, admin[a].op)}
<1>0. admin[a] \in [pc : {"idle", "write", "invalidate"}, op : Operation] /\ db \in Tables
  BY DEF Shapes
<1>a. admin[a].op \in Operation
  BY <1>0
<1>b. OperandsFit(admin[a].op) /\ admin[a].op.name # "none"
  <2>1. admin[a].pc = "write"
    BY DEF Commit
  <2> QED
    BY <2>1 DEF Shapes
<1>c. UniqueIn(db)
  BY DEF KeysUnique, UniqueIn
<1>1. /\ admin[a].op \in Operation /\ OperandsFit(admin[a].op) /\ admin[a].op.name # "none"
      /\ db \in Tables /\ UniqueIn(db)
  BY <1>0, <1>a, <1>b, <1>c
<1>2. Written(db, admin[a].op) \in Tables /\ UniqueIn(Written(db, admin[a].op))
  BY <1>1, WrittenIs, WrittenUnique
<1> QED
  BY <1>1, <1>2 DEF Commit

LEMMA CliStep ==
  ASSUME Shapes, KeysUnique, NEW k \in Key, CliDeleteCredential(k)
  PROVE  /\ db' \in Tables /\ UniqueIn(db') /\ Remember(db')
         /\ db'.creds = {c \in db.creds : c.key # k} /\ db'.users = db.users
<1>1. db' = WithoutCredential(db, k) /\ Remember(db')
  BY DEF CliDeleteCredential
<1>2. /\ db' \in Tables /\ db'.creds = {c \in db.creds : c.key # k} /\ db'.users = db.users
  BY <1>1 DEF WithoutCredential, Shapes, Tables
<1>3. UniqueIn(db')
  BY <1>2 DEF KeysUnique, UniqueIn
<1> QED
  BY <1>1, <1>2, <1>3

\* The effect of the steps that end a lookup: the request goes on with an answer.
GoesOn(r, A) ==
  /\ req[r].pc \in Lookup
  /\ A \subseteq {e \in Entry(req[r].pc) : e[1] = LookupId(r)}
  /\ req' = [req EXCEPT ![r] = Answered(req[r], A)]

LEMMA HitGoesOn ==
  ASSUME Typed, NEW r \in Request, Hit(r)
  PROVE  GoesOn(r, Of(cache[req[r].pc], LookupId(r)))
<1>1. req[r].pc \in Lookup
  BY DEF Hit
<1>2. cache[req[r].pc] \subseteq Entry(req[r].pc)
  BY <1>1 DEF Typed, Shapes
<1> QED
  BY <1>1, <1>2 DEF GoesOn, Hit, Of

LEMMA InsertGoesOn ==
  ASSUME Typed, NEW r \in Request, Insert(r)
  PROVE  GoesOn(r, req[r].answer)
<1>1. /\ req[r].pc \in Lookup
      /\ req[r].answer \subseteq {e \in Entry(req[r].pc) : e[1] = LookupId(r)}
  BY DEF Typed, LookupsInStep, Insert
<1> QED
  BY <1>1 DEF GoesOn, Insert

\* After it, only the request itself has changed, and it asks for nothing yet.
LEMMA GoesOnStep ==
  ASSUME Typed, NEW r \in Request, NEW A, GoesOn(r, A), generation' = generation
  PROVE  /\ req' \in [Request -> RequestState]
         /\ \A q \in Request \ {r} : req'[q] = req[q]
         /\ req'[r].step = "ask" /\ req'[r].key = req[r].key /\ req[r].key \in Key
         /\ req'[r].pc \in {"refused", "user", "policy", "admitted"}
         /\ LookupsInStep'
<1>1. /\ Answered(req[r], A) \in RequestState
      /\ Answered(req[r], A).step = "ask" /\ Answered(req[r], A).gen = 0
      /\ Answered(req[r], A).key = req[r].key
      /\ Answered(req[r], A).pc \in {"refused", "user", "policy", "admitted"}
  BY AnsweredIs DEF Typed, GoesOn
<1>2. req \in [Request -> RequestState] /\ generation \in Nat
  BY DEF Typed, Shapes
<1>3. /\ req' \in [Request -> RequestState] /\ \A q \in Request \ {r} : req'[q] = req[q]
      /\ req'[r] = Answered(req[r], A)
  BY <1>1, <1>2 DEF GoesOn
<1>4. req[r].key \in Key
  BY DEF Typed, LookupsInStep, GoesOn, Lookup
<1>5. ASSUME NEW q \in Request
      PROVE  /\ req'[q].gen <= generation'
             /\ req'[q].pc # "idle" => req'[q].key \in Key
             /\ req'[q].step # "ask" => req'[q].pc \in Lookup
             /\ req'[q].step = "insert" =>
                  req'[q].answer \subseteq {e \in Entry(req'[q].pc) : e[1] = LookupId(q)'}
  <2>1. CASE q = r
    BY <1>1, <1>2, <1>3, <1>4, <2>1
  <2>2. CASE q # r
    BY <1>3, <2>2 DEF Typed, LookupsInStep, LookupId
  <2> QED
    BY <2>1, <2>2
<1>6. LookupsInStep'
  BY <1>5 DEF LookupsInStep
<1> QED
  BY <1>1, <1>3, <1>4, <1>6

\* Nothing but the requests is looked at by LookupsInStep, and the generation.
LEMMA SameLookups ==
  ASSUME Typed, UNCHANGED req, generation' \in Nat, generation' >= generation
  PROVE  LookupsInStep'
<1>1. generation \in Nat /\ \A r \in Request : req[r].gen \in Nat
  BY DEF Typed, Shapes, RequestState
<1> QED
  BY <1>1 DEF Typed, LookupsInStep, LookupId

LEMMA EmptyCacheType == EmptyCache \in [Lookup -> SUBSET AnyEntry] /\ \A l \in Lookup : EmptyCache[l] = {}
  BY DEF EmptyCache

LEMMA TypedStep == Typed /\ [Next]_vars => Typed'
<1> SUFFICES ASSUME Typed, [Next]_vars PROVE Typed'
  OBVIOUS
<1>a. /\ Shapes /\ KeysUnique /\ LookupsInStep
      /\ db \in Tables /\ cache \in [Lookup -> SUBSET AnyEntry] /\ generation \in Nat
      /\ \A l \in Lookup : cache[l] \subseteq Entry(l)
      /\ admin \in [Admin -> [pc : {"idle", "write", "invalidate"}, op : Operation]]
      /\ req \in [Request -> RequestState] /\ foreign \in BOOLEAN /\ since \in [Request -> Known]
  BY DEF Typed, Shapes
<1>b. \A a \in Admin : /\ OperandsFit(admin[a].op)
                       /\ admin[a].pc = "write" => admin[a].op.name # "none"
  BY <1>a DEF Shapes
<1>c. ASSUME UNCHANGED db PROVE KeysUnique'
  BY <1>a, <1>c DEF KeysUnique
<1>1. ASSUME NEW a \in Admin, Handle(a) PROVE Typed'
  <2>1. PICK op : Accepted(a, op)
    BY <1>1, <1>a, HandleStep
  <2>2. /\ op \in Operation /\ OperandsFit(op) /\ op.name # "none"
        /\ admin' = [admin EXCEPT ![a] = [pc |-> "write", op |-> op]]
        /\ UNCHANGED <<db, generation, req, foreign, since>>
    BY <2>1 DEF Accepted, Accept
  <2>3. /\ cache' \in [Lookup -> SUBSET AnyEntry]
        /\ \A l \in Lookup : cache'[l] \subseteq cache[l] \cup Stored(db)[l]
    BY <2>1 DEF Accepted, CacheStep
  <2>4. \A l \in Lookup : cache'[l] \subseteq Entry(l)
    BY <1>a, <2>3, StoredEntries
  <2>5. /\ admin' \in [Admin -> [pc : {"idle", "write", "invalidate"}, op : Operation]]
        /\ \A b \in Admin : /\ OperandsFit(admin'[b].op)
                            /\ admin'[b].pc = "write" => admin'[b].op.name # "none"
    BY <1>a, <1>b, <2>2
  <2>6. Shapes'
    BY <1>a, <2>2, <2>3, <2>4, <2>5 DEF Shapes, OperandsFit
  <2>7. LookupsInStep'
    BY <1>a, <2>2, SameLookups
  <2> QED
    BY <1>c, <2>2, <2>6, <2>7 DEF Typed
<1>2. ASSUME NEW a \in Admin, Commit(a) PROVE Typed'
  <2>1. db' \in Tables /\ UniqueIn(db') /\ Remember(db')
    BY <1>2, <1>a, CommitStep
  <2>2. /\ admin' = [admin EXCEPT ![a].pc = "invalidate"]
        /\ UNCHANGED <<cache, generation, req, foreign>>
    BY <1>2 DEF Commit
  <2>3. since' \in [Request -> Known]
    <3>1. CASE Request = {}
      BY <2>1, <3>1 DEF Remember
    <3>2. CASE Request # {}
      BY <1>a, <2>1, <3>2, RememberStep
    <3> QED
      BY <3>1, <3>2
  <2>4. /\ admin' \in [Admin -> [pc : {"idle", "write", "invalidate"}, op : Operation]]
        /\ \A b \in Admin : /\ OperandsFit(admin'[b].op)
                            /\ admin'[b].pc = "write" => admin'[b].op.name # "none"
    BY <1>a, <1>b, <2>2
  <2>5. Shapes'
    BY <1>a, <2>1, <2>2, <2>3, <2>4 DEF Shapes, OperandsFit
  <2>6. LookupsInStep'
    BY <1>a, <2>2, SameLookups
  <2>7. KeysUnique'
    BY <2>1 DEF KeysUnique, UniqueIn
  <2> QED
    BY <2>5, <2>6, <2>7 DEF Typed
<1>3. ASSUME NEW a \in Admin, Invalidate(a) PROVE Typed'
  <2>1. /\ generation' = generation + 1 /\ cache' = EmptyCache
        /\ admin' = [admin EXCEPT ![a] = Idle] /\ UNCHANGED <<db, req, foreign, since>>
    BY <1>3 DEF Invalidate
  <2>2. /\ Idle \in [pc : {"idle", "write", "invalidate"}, op : Operation]
        /\ Idle.pc = "idle" /\ OperandsFit(Idle.op)
    BY IdentityAssumption DEF Idle, NoOp, Operation, OpName, Thing, OperandsFit
  <2>3. /\ admin' \in [Admin -> [pc : {"idle", "write", "invalidate"}, op : Operation]]
        /\ \A b \in Admin : /\ OperandsFit(admin'[b].op)
                            /\ admin'[b].pc = "write" => admin'[b].op.name # "none"
    BY <1>a, <1>b, <2>1, <2>2
  <2>4. /\ cache' \in [Lookup -> SUBSET AnyEntry] /\ \A l \in Lookup : cache'[l] \subseteq Entry(l)
        /\ generation' \in Nat /\ generation' >= generation
    BY <1>a, <2>1, EmptyCacheType
  <2>5. Shapes'
    BY <1>a, <2>1, <2>3, <2>4 DEF Shapes, OperandsFit
  <2>6. LookupsInStep'
    BY <1>a, <2>1, <2>4, SameLookups
  <2> QED
    BY <1>c, <2>1, <2>5, <2>6 DEF Typed
<1>4. ASSUME NEW k \in Key, CliDeleteCredential(k) PROVE Typed'
  <2>1. db' \in Tables /\ UniqueIn(db') /\ Remember(db')
    BY <1>4, <1>a, CliStep
  <2>2. foreign' = TRUE /\ UNCHANGED <<cache, generation, admin, req>>
    BY <1>4 DEF CliDeleteCredential
  <2>3. since' \in [Request -> Known]
    <3>1. CASE Request = {}
      BY <2>1, <3>1 DEF Remember
    <3>2. CASE Request # {}
      BY <1>a, <2>1, <3>2, RememberStep
    <3> QED
      BY <3>1, <3>2
  <2>4. Shapes'
    BY <1>a, <1>b, <2>1, <2>2, <2>3 DEF Shapes, OperandsFit
  <2>5. LookupsInStep'
    BY <1>a, <2>2, SameLookups
  <2>6. KeysUnique'
    BY <2>1 DEF KeysUnique, UniqueIn
  <2> QED
    BY <2>4, <2>5, <2>6 DEF Typed
<1>5. ASSUME TtlPasses PROVE Typed'
  <2>1. foreign' = FALSE /\ cache' = EmptyCache /\ UNCHANGED <<db, generation, admin, req, since>>
    BY <1>5 DEF TtlPasses
  <2>2. /\ cache' \in [Lookup -> SUBSET AnyEntry] /\ \A l \in Lookup : cache'[l] \subseteq Entry(l)
    BY <2>1, EmptyCacheType
  <2>3. Shapes'
    BY <1>a, <1>b, <2>1, <2>2 DEF Shapes, OperandsFit
  <2>4. LookupsInStep'
    BY <1>a, <2>1, SameLookups
  <2> QED
    BY <1>c, <2>1, <2>3, <2>4 DEF Typed
<1>6. ASSUME NEW r \in Request, NEW k \in Key, Arrive(r, k) PROVE Typed'
  <2> DEFINE N == [NoRequest EXCEPT !.pc = "cred", !.key = k]
  <2>1. /\ N \in RequestState /\ N.pc = "cred" /\ N.key = k /\ N.step = "ask" /\ N.gen = 0
    BY IdentityAssumption DEF NoRequest, RequestState, Lookup
  <2>2. /\ req' = [req EXCEPT ![r] = N]
        /\ since' = [since EXCEPT ![r] = IF Writing THEN AllFacts ELSE Facts(db, k)]
        /\ UNCHANGED <<db, cache, generation, admin, foreign>>
    BY <1>6 DEF Arrive
  <2> HIDE DEF N
  <2>3. AllFacts \in Known /\ Facts(db, k) \in Known
    BY <1>a, FactsAre DEF AllFacts, Known
  <2>4. since' \in [Request -> Known] /\ req' \in [Request -> RequestState]
    BY <1>a, <2>1, <2>2, <2>3
  <2>5. Shapes'
    BY <1>a, <1>b, <2>2, <2>4 DEF Shapes, OperandsFit
  <2>6. ASSUME NEW q \in Request
        PROVE  /\ req'[q].gen <= generation'
               /\ req'[q].pc # "idle" => req'[q].key \in Key
               /\ req'[q].step # "ask" => req'[q].pc \in Lookup
               /\ req'[q].step = "insert" =>
                    req'[q].answer \subseteq {e \in Entry(req'[q].pc) : e[1] = LookupId(q)'}
    <3>1. CASE q = r
      BY <1>a, <2>1, <2>2, <3>1
    <3>2. CASE q # r
      BY <1>a, <2>2, <3>2 DEF LookupsInStep, LookupId
    <3> QED
      BY <3>1, <3>2
  <2>7. LookupsInStep'
    BY <2>6 DEF LookupsInStep
  <2> QED
    BY <1>c, <2>2, <2>5, <2>7 DEF Typed
<1>7. ASSUME NEW r \in Request, Hit(r) PROVE Typed'
  <2>1. UNCHANGED <<db, cache, generation, admin, foreign, since>>
    BY <1>7 DEF Hit
  <2>2. req' \in [Request -> RequestState] /\ LookupsInStep'
    BY <1>7, <2>1, HitGoesOn, GoesOnStep
  <2>3. Shapes'
    BY <1>a, <1>b, <2>1, <2>2 DEF Shapes, OperandsFit
  <2> QED
    BY <1>c, <2>1, <2>2, <2>3 DEF Typed
<1>8. ASSUME NEW r \in Request, Miss(r) \/ Read(r) \/ Leave(r) PROVE Typed'
  <2>1. UNCHANGED <<db, cache, generation, admin, foreign>>
    BY <1>8 DEF Miss, Read, Leave
  <2>2. since' \in [Request -> Known]
    BY <1>8, <1>a DEF Miss, Read, Leave, NoFacts, Known
  <2> DEFINE A == Of(Stored(db)[req[r].pc], LookupId(r))
  <2>3. ASSUME Read(r)
        PROVE  A \subseteq {e \in Entry(req[r].pc) : e[1] = LookupId(r)} /\ A \subseteq AnyEntry
    <3>1. req[r].pc \in Lookup
      BY <1>a, <2>3 DEF LookupsInStep, Read
    <3> QED
      BY <1>a, <3>1, StoredEntries DEF Of
  <2>4. \A q \in Request \ {r} : req'[q] = req[q]
    BY <1>8, <1>a DEF Miss, Read, Leave
  <2>5. req' \in [Request -> RequestState]
    <3>1. CASE Miss(r)
      <4> DEFINE N == [req[r] EXCEPT !.step = "read", !.gen = generation]
      <4>1. req[r] \in RequestState /\ N \in RequestState
        BY <1>a DEF RequestState
      <4>2. req' = [req EXCEPT ![r] = N]
        BY <1>a, <3>1, <4>1 DEF Miss
      <4> HIDE DEF N
      <4> QED
        BY <1>a, <4>1, <4>2
    <3>2. CASE Read(r)
      <4> DEFINE N == [req[r] EXCEPT !.step = "insert", !.answer = A]
      <4>1. A \subseteq AnyEntry
        BY <2>3, <3>2
      <4>2. req' = [req EXCEPT ![r] = N]
        BY <1>a, <3>2 DEF Read
      <4>3. req[r] \in RequestState /\ N \in RequestState
        <5> HIDE DEF A
        <5> QED
          BY <1>a, <4>1 DEF RequestState
      <4> HIDE DEF N
      <4> QED
        BY <1>a, <4>2, <4>3
    <3>3. NoRequest \in RequestState
      BY IdentityAssumption DEF NoRequest, RequestState
    <3>4. CASE Leave(r)
      BY <1>a, <3>3, <3>4 DEF Leave
    <3> QED
      BY <1>8, <3>1, <3>2, <3>4
  <2>6. /\ req'[r].gen <= generation
        /\ req'[r].pc # "idle" => req'[r].key \in Key
        /\ req'[r].step # "ask" => req'[r].pc \in Lookup
        /\ req'[r].step = "insert" =>
             req'[r].answer \subseteq {e \in Entry(req'[r].pc) : e[1] = LookupId(r)'}
    <3>0. /\ req[r] \in RequestState /\ req[r].gen <= generation
          /\ req[r].pc # "idle" => req[r].key \in Key
          /\ req[r].step # "ask" => req[r].pc \in Lookup
      BY <1>a DEF LookupsInStep
    <3>1. CASE Miss(r)
      <4>1. /\ req'[r].step = "read" /\ req'[r].gen = generation /\ req'[r].pc = req[r].pc
            /\ req'[r].key = req[r].key /\ req[r].pc \in Lookup
        BY <1>a, <3>1 DEF Miss, RequestState
      <4> QED
        BY <1>a, <3>0, <4>1 DEF Lookup
    <3>2. CASE Read(r)
      <4>1. /\ req'[r].step = "insert" /\ req'[r].gen = req[r].gen /\ req'[r].pc = req[r].pc
            /\ req'[r].key = req[r].key /\ req'[r].user = req[r].user
            /\ req'[r].answer = A
        BY <1>a, <3>2 DEF Read, RequestState
      <4>2. LookupId(r)' = LookupId(r)
        BY <4>1 DEF LookupId
      <4> HIDE DEF A
      <4> QED
        BY <2>3, <3>0, <3>2, <4>1, <4>2 DEF Read
    <3>3. CASE Leave(r)
      <4>1. req'[r] = NoRequest
        BY <1>a, <3>3 DEF Leave
      <4> QED
        BY <1>a, <4>1 DEF NoRequest
    <3> QED
      BY <1>8, <3>1, <3>2, <3>3
  <2>7. LookupsInStep'
    BY <1>a, <2>1, <2>4, <2>6 DEF LookupsInStep, LookupId
  <2>8. Shapes'
    BY <1>a, <1>b, <2>1, <2>2, <2>5 DEF Shapes, OperandsFit
  <2> QED
    BY <1>c, <2>1, <2>7, <2>8 DEF Typed
<1>9. ASSUME NEW r \in Request, Insert(r) PROVE Typed'
  <2>1. UNCHANGED <<db, generation, admin, foreign, since>>
    BY <1>9 DEF Insert
  <2>2. req' \in [Request -> RequestState] /\ LookupsInStep'
    BY <1>9, <2>1, InsertGoesOn, GoesOnStep
  <2>3. /\ req[r].pc \in Lookup /\ req[r].answer \subseteq Entry(req[r].pc)
        /\ Entry(req[r].pc) \subseteq AnyEntry
    BY <1>9, <1>a, StoredEntries DEF Insert, LookupsInStep
  <2>4. /\ cache' \in [Lookup -> SUBSET AnyEntry] /\ \A l \in Lookup : cache'[l] \subseteq Entry(l)
    BY <1>9, <1>a, <2>3 DEF Insert, Cached
  <2>5. Shapes'
    BY <1>a, <1>b, <2>1, <2>2, <2>4 DEF Shapes, OperandsFit
  <2> QED
    BY <1>c, <2>1, <2>2, <2>5 DEF Typed
<1>10. CASE UNCHANGED vars
  <2>1. Shapes'
    BY <1>10, <1>a, <1>b DEF vars, Shapes, OperandsFit
  <2>2. LookupsInStep'
    BY <1>10, <1>a, SameLookups DEF vars
  <2> QED
    BY <1>10, <1>c, <2>1, <2>2 DEF vars, Typed
<1> QED
  BY <1>1, <1>2, <1>3, <1>4, <1>5, <1>6, <1>7, <1>8, <1>9, <1>10 DEF Next
-----------------------------------------------------------------------------
\* What is in the cache, or may still be put there, is what the tables hold.
LEMMA SameWriting ==
  ASSUME UNCHANGED foreign,
         \A a \in Admin : admin'[a].pc = "invalidate" <=> admin[a].pc = "invalidate"
  PROVE  Writing' = Writing
  BY DEF Writing

Coherent == CacheCoherent /\ ReadsCoherent

LEMMA CoherentKept ==
  ASSUME Coherent, Writing' = Writing, UNCHANGED db,
         \A l \in Lookup : \A e \in cache'[l] :
           \/ e \in cache[l] \cup Stored(db)[l]
           \/ \E q \in Request : Insertable(q) /\ req[q].pc = l /\ e \in req[q].answer,
         \A q \in Request : Insertable(q)' =>
           \/ Insertable(q) /\ req'[q].pc = req[q].pc /\ req'[q].answer = req[q].answer
           \/ req'[q].answer \subseteq Stored(db)[req'[q].pc]
  PROVE  Coherent'
<1> SUFFICES ASSUME ~ Writing PROVE Coherent'
  BY DEF Coherent, CacheCoherent, ReadsCoherent
<1>1. /\ \A l \in Lookup : cache[l] \subseteq Stored(db)[l]
      /\ \A q \in Request : Insertable(q) => req[q].answer \subseteq Stored(db)[req[q].pc]
  BY DEF Coherent, CacheCoherent, ReadsCoherent
<1>2. Stored(db)' = Stored(db)
  OBVIOUS
<1>3. CacheCoherent'
  BY <1>1, <1>2 DEF CacheCoherent
<1>4. ReadsCoherent'
  BY <1>1, <1>2 DEF ReadsCoherent
<1> QED
  BY <1>3, <1>4 DEF Coherent

\* Of the requests, a step of request r moves no other.
Alone(r) == \A q \in Request \ {r} : req'[q] = req[q]

LEMMA OthersInsertable ==
  ASSUME NEW r \in Request, Alone(r), UNCHANGED generation, NEW q \in Request \ {r}
  PROVE  Insertable(q)' <=> Insertable(q)
  BY DEF Alone, Insertable, Current

\* A request that reads has read what the tables hold.
LEMMA ReadIs ==
  ASSUME Typed, NEW r \in Request, Read(r)
  PROVE  /\ Alone(r) /\ req[r].pc \in Lookup /\ req'[r].pc = req[r].pc
         /\ req'[r].key = req[r].key /\ req'[r].user = req[r].user
         /\ req'[r].step = "insert" /\ req'[r].answer \subseteq Stored(db)[req[r].pc]
         /\ UNCHANGED <<db, cache, generation, admin, foreign, since>>
<1>1. req \in [Request -> RequestState]
  BY DEF Typed, Shapes
<1>2. req[r].pc \in Lookup
  BY DEF Typed, LookupsInStep, Read
<1> DEFINE A == Of(Stored(db)[req[r].pc], LookupId(r))
<1>3. A \subseteq Stored(db)[req[r].pc]
  BY DEF Of
<1>4. req' = [req EXCEPT ![r].step = "insert", ![r].answer = A]
  BY DEF Read
<1>5. UNCHANGED <<db, cache, generation, admin, foreign, since>>
  BY DEF Read
<1> HIDE DEF A
<1> QED
  BY <1>1, <1>2, <1>3, <1>4, <1>5 DEF Alone, RequestState

\* The steps of a request that put nothing into the cache.
LEMMA AskIs ==
  ASSUME Typed, NEW r \in Request, NEW k \in Key, Arrive(r, k) \/ Hit(r) \/ Miss(r) \/ Leave(r)
  PROVE  /\ Alone(r) /\ req'[r].step # "insert"
         /\ UNCHANGED <<db, cache, generation, admin, foreign>>
<1>1. req \in [Request -> RequestState]
  BY DEF Typed, Shapes
<1>2. CASE Arrive(r, k)
  BY <1>1, <1>2 DEF Arrive, NoRequest, Alone
<1>3. CASE Hit(r)
  <2>1. UNCHANGED <<db, cache, generation, admin, foreign>>
    BY <1>3 DEF Hit
  <2> QED
    BY <1>3, <2>1, HitGoesOn, GoesOnStep DEF Alone
<1>4. CASE Miss(r)
  BY <1>1, <1>4 DEF Miss, Alone, RequestState
<1>5. CASE Leave(r)
  BY <1>1, <1>5 DEF Leave, NoRequest, Alone
<1> QED
  BY <1>2, <1>3, <1>4, <1>5

\* insert_if_current.
LEMMA InsertIs ==
  ASSUME Typed, NEW r \in Request, Insert(r)
  PROVE  /\ Alone(r) /\ req'[r].step = "ask"
         /\ \A l \in Lookup : \A e \in cache'[l] :
              e \in cache[l] \/ (Insertable(r) /\ req[r].pc = l /\ e \in req[r].answer)
         /\ UNCHANGED <<db, generation, admin, foreign, since>>
<1>1. UNCHANGED <<db, generation, admin, foreign, since>>
  BY DEF Insert
<1>2. Alone(r) /\ req'[r].step = "ask"
  BY <1>1, InsertGoesOn, GoesOnStep DEF Alone
<1>3. cache \in [Lookup -> SUBSET AnyEntry] /\ req[r].pc \in Lookup
  BY DEF Typed, Shapes, LookupsInStep, Insert
<1>4. ASSUME NEW l \in Lookup, NEW e \in cache'[l], e \notin cache[l]
      PROVE  Insertable(r) /\ req[r].pc = l /\ e \in req[r].answer
  <2>1. Current(r) /\ cache' = Cached(req[r].pc, LookupId(r), req[r].answer)
    BY <1>4 DEF Insert
  <2>2. req[r].step = "insert"
    BY DEF Insert
  <2> QED
    BY <1>3, <1>4, <2>1, <2>2 DEF Cached, Of, Insertable
<1> QED
  BY <1>1, <1>2, <1>4

LEMMA CoherentStep == Typed /\ Coherent /\ [Next]_vars => Coherent'
<1> SUFFICES ASSUME Typed, Coherent, [Next]_vars PROVE Coherent'
  OBVIOUS
<1>a. /\ Shapes /\ admin \in [Admin -> [pc : {"idle", "write", "invalidate"}, op : Operation]]
      /\ req \in [Request -> RequestState] /\ generation \in Nat
      /\ \A r \in Request : req[r].gen <= generation /\ req[r].gen \in Nat
  BY DEF Typed, Shapes, LookupsInStep, RequestState
<1>1. ASSUME NEW a \in Admin, Handle(a) PROVE Coherent'
  <2>1. PICK op : Accepted(a, op)
    BY <1>1, <1>a, HandleStep
  <2>2. /\ admin[a].pc = "idle" /\ admin' = [admin EXCEPT ![a] = [pc |-> "write", op |-> op]]
        /\ UNCHANGED <<db, generation, req, foreign, since>>
        /\ \A l \in Lookup : cache'[l] \subseteq cache[l] \cup Stored(db)[l]
    BY <2>1 DEF Accepted, Accept, CacheStep
  <2>3. Writing' = Writing
    BY <1>a, <2>2, SameWriting
  <2> QED
    BY <2>2, <2>3, CoherentKept DEF Insertable, Current
<1>2. ASSUME NEW a \in Admin, Commit(a) PROVE Coherent'
  <2>1. Writing'
    BY <1>2, <1>a DEF Commit, Writing
  <2> QED
    BY <2>1 DEF Coherent, CacheCoherent, ReadsCoherent
<1>3. ASSUME NEW a \in Admin, Invalidate(a) PROVE Coherent'
  <2>1. \A r \in Request : ~ Insertable(r)'
    BY <1>3, <1>a DEF Invalidate, Insertable, Current
  <2>2. \A l \in Lookup : cache'[l] = {}
    BY <1>3, EmptyCacheType DEF Invalidate
  <2> QED
    BY <2>1, <2>2 DEF Coherent, CacheCoherent, ReadsCoherent
<1>4. ASSUME NEW k \in Key, CliDeleteCredential(k) PROVE Coherent'
  BY <1>4 DEF CliDeleteCredential, Writing, Coherent, CacheCoherent, ReadsCoherent
<1>5. ASSUME TtlPasses PROVE Coherent'
  <2>1. \A r \in Request : ~ Insertable(r)'
    BY <1>5, <1>a DEF TtlPasses, Insertable
  <2>2. \A l \in Lookup : cache'[l] = {}
    BY <1>5, EmptyCacheType DEF TtlPasses
  <2> QED
    BY <2>1, <2>2 DEF Coherent, CacheCoherent, ReadsCoherent
<1>6. ASSUME NEW r \in Request, NEW k \in Key, Arrive(r, k) \/ Hit(r) \/ Miss(r) \/ Leave(r)
      PROVE  Coherent'
  <2>1. /\ Alone(r) /\ req'[r].step # "insert"
        /\ UNCHANGED <<db, cache, generation, admin, foreign>>
    BY <1>6, AskIs
  <2>2. \A q \in Request : Insertable(q)' =>
           Insertable(q) /\ req'[q].pc = req[q].pc /\ req'[q].answer = req[q].answer
    BY <2>1, OthersInsertable DEF Alone, Insertable
  <2> QED
    BY <2>1, <2>2, SameWriting, CoherentKept
<1>7. ASSUME NEW r \in Request, Read(r) PROVE Coherent'
  <2>1. /\ Alone(r) /\ req'[r].answer \subseteq Stored(db)[req'[r].pc]
        /\ UNCHANGED <<db, cache, generation, admin, foreign>>
    BY <1>7, ReadIs
  <2>2. \A q \in Request : Insertable(q)' =>
           \/ Insertable(q) /\ req'[q].pc = req[q].pc /\ req'[q].answer = req[q].answer
           \/ req'[q].answer \subseteq Stored(db)[req'[q].pc]
    BY <2>1, OthersInsertable DEF Alone
  <2> QED
    BY <2>1, <2>2, SameWriting, CoherentKept
<1>8. ASSUME NEW r \in Request, Insert(r) PROVE Coherent'
  <2>1. /\ Alone(r) /\ req'[r].step = "ask"
        /\ \A l \in Lookup : \A e \in cache'[l] :
             e \in cache[l] \/ (Insertable(r) /\ req[r].pc = l /\ e \in req[r].answer)
        /\ UNCHANGED <<db, generation, admin, foreign>>
    BY <1>8, InsertIs
  <2>2. \A q \in Request : Insertable(q)' =>
           Insertable(q) /\ req'[q].pc = req[q].pc /\ req'[q].answer = req[q].answer
    BY <2>1, OthersInsertable DEF Alone, Insertable
  <2> QED
    BY <2>1, <2>2, SameWriting, CoherentKept
<1>9. CASE UNCHANGED vars
  BY <1>9, SameWriting, CoherentKept DEF vars, Insertable, Current
<1>10. ASSUME NEW r \in Request, Hit(r) \/ Miss(r) \/ Leave(r) PROVE Coherent'
  <2>1. \E k \in Key : TRUE
    BY IdentityAssumption
  <2> QED
    BY <1>6, <1>10, <2>1
<1> QED
  BY <1>1, <1>2, <1>3, <1>4, <1>5, <1>6, <1>7, <1>8, <1>9, <1>10 DEF Next
-----------------------------------------------------------------------------
\* What a request is told, and what it has established.
Truthful == \A r \in Request : ToldTheTruth(r) /\ Established(r)

\* Answers that request r may be told, itself or out of the cache.
Tells(q, r) == Insertable(q) \/ (q = r /\ req[q].step = "insert")

LEMMA ToldKept ==
  ASSUME Typed, NEW r \in Request, ToldTheTruth(r), UNCHANGED db,
         req'[r].pc # "idle" =>
           req[r].pc # "idle" /\ req'[r].key = req[r].key /\ since'[r] = since[r],
         \A l \in Lookup : \A e \in cache'[l] :
           \/ e \in cache[l] \cup Stored(db)[l]
           \/ \E q \in Request : Insertable(q) /\ req[q].pc = l /\ e \in req[q].answer,
         \A q \in Request : Tells(q, r)' =>
           \/ Tells(q, r) /\ req'[q].pc = req[q].pc /\ req'[q].answer = req[q].answer
           \/ req'[q].pc \in Lookup /\ req'[q].answer \subseteq Stored(db)[req'[q].pc]
  PROVE  ToldTheTruth(r)'
<1> SUFFICES ASSUME req'[r].pc # "idle" PROVE ToldTheTruth(r)'
  BY DEF ToldTheTruth
<1> DEFINE V(l, e) == Vouched(l, e, since[r], req[r].key)
<1>1. /\ \A l \in Lookup : \A e \in Stored(db)[l] \cup cache[l] : V(l, e)
      /\ \A q \in Request : Tells(q, r) => \A e \in req[q].answer : V(req[q].pc, e)
  BY DEF ToldTheTruth, Tells
<1>2. req'[r].key = req[r].key /\ since'[r] = since[r] /\ Stored(db)' = Stored(db)
  OBVIOUS
<1>3. \A q \in Request : Insertable(q) => Tells(q, r)
  BY DEF Tells
<1>4. \A l, e : Vouched(l, e, since'[r], req'[r].key) <=> V(l, e)
  BY <1>2
<1> HIDE DEF V
<1>5. \A l \in Lookup : \A e \in Stored(db)[l] \cup cache'[l] : V(l, e)
  BY <1>1, <1>3
<1>6. \A q \in Request : Tells(q, r)' => \A e \in req'[q].answer : V(req'[q].pc, e)
  BY <1>1
<1> QED
  BY <1>2, <1>4, <1>5, <1>6 DEF ToldTheTruth, Tells

LEMMA EstablishedKept ==
  ASSUME NEW r \in Request, Established(r), req'[r].pc # "idle" => req'[r].pc = req[r].pc,
         req'[r].pc # "idle" =>
           /\ req'[r].user = req[r].user
           /\ since[r].named \subseteq since'[r].named
           /\ since[r].exist \subseteq since'[r].exist
           /\ since[r].allowed \subseteq since'[r].allowed
  PROVE  Established(r)'
  BY DEF Established

\* A write adds to what was true since a request arrived.
LEMMA TruthfulWrite ==
  ASSUME Typed, Truthful, db' \in Tables, Remember(db'), UNCHANGED <<cache, generation, req>>
  PROVE  Truthful'
<1> SUFFICES ASSUME NEW r \in Request PROVE ToldTheTruth(r)' /\ Established(r)'
  BY DEF Truthful
<1>1. CASE req[r].pc = "idle"
  BY <1>1 DEF ToldTheTruth, Established
<1>2. CASE req[r].pc # "idle"
  <2> DEFINE F == Facts(db', req[r].key)
  <2>1. /\ since[r].named \subseteq since'[r].named /\ F.named \subseteq since'[r].named
        /\ since[r].exist \subseteq since'[r].exist /\ F.exist \subseteq since'[r].exist
        /\ since[r].allowed \subseteq since'[r].allowed /\ F.allowed \subseteq since'[r].allowed
    <3>1. since'[r] = [named |-> since[r].named \cup F.named,
                       exist |-> since[r].exist \cup F.exist,
                       allowed |-> since[r].allowed \cup F.allowed]
      BY <1>2, RememberStep DEF Typed
    <3> HIDE DEF F
    <3> QED
      BY <3>1
  <2>2. \A l \in Lookup : \A e \in Stored(db')[l] : Vouched(l, e, F, req[r].key)
    BY FactsVouch
  <2> HIDE DEF F
  <2>3. \A l \in Lookup : \A e \in Stored(db')[l] : Vouched(l, e, since'[r], req[r].key)
    BY <2>1, <2>2, VouchedMore
  <2>4. \A l, e : Vouched(l, e, since[r], req[r].key) => Vouched(l, e, since'[r], req[r].key)
    BY <2>1, VouchedMore
  <2>5. /\ \A l \in Lookup : \A e \in cache[l] : Vouched(l, e, since'[r], req[r].key)
        /\ \A q \in Request : Insertable(q) \/ (q = r /\ req[q].step = "insert") =>
             \A e \in req[q].answer : Vouched(req[q].pc, e, since'[r], req[r].key)
    BY <1>2, <2>4 DEF Truthful, ToldTheTruth
  <2>6. \A q \in Request : Insertable(q)' <=> Insertable(q)
    BY DEF Insertable, Current
  <2>7. ToldTheTruth(r)'
    BY <2>3, <2>5, <2>6 DEF ToldTheTruth
  <2>8. Established(r)'
    BY <2>1, EstablishedKept DEF Truthful
  <2> QED
    BY <2>7, <2>8
<1> QED
  BY <1>1, <1>2

\* What a request may be told when it arrives is true then, or excused.
LEMMA ToldOnArrival ==
  ASSUME Typed, Coherent, NEW r \in Request, NEW k \in Key, Arrive(r, k)
  PROVE  ToldTheTruth(r)' /\ Established(r)'
<1>1. /\ req \in [Request -> RequestState] /\ since \in [Request -> Known] /\ db \in Tables
      /\ \A l \in Lookup : cache[l] \subseteq Entry(l)
  BY DEF Typed, Shapes
<1>2. /\ req'[r].pc = "cred" /\ req'[r].key = k /\ req'[r].step = "ask"
      /\ since'[r] = IF Writing THEN AllFacts ELSE Facts(db, k)
      /\ UNCHANGED <<db, cache, generation>>
  BY <1>1 DEF Arrive, NoRequest
<1>3. /\ Alone(r)
      /\ \A q \in Request : Insertable(q)' => Insertable(q) /\ req'[q] = req[q]
  BY <1>2, AskIs, OthersInsertable DEF Alone, Insertable
<1>4. \A q \in Request : Insertable(q) => req[q].pc \in Lookup /\ req[q].answer \subseteq Entry(req[q].pc)
  BY DEF Typed, LookupsInStep, Insertable
<1>5. \A l \in Lookup : \A e \in Stored(db)[l] \cup cache[l] : Vouched(l, e, since'[r], k)
  <2>1. CASE Writing
    BY <1>1, <1>2, <2>1, StoredEntries, AllFactsVouch
  <2>2. CASE ~ Writing
    <3>1. \A l \in Lookup : cache[l] \subseteq Stored(db)[l]
      BY <2>2 DEF Coherent, CacheCoherent
    <3> QED
      BY <1>1, <1>2, <2>2, <3>1, FactsVouch
  <2> QED
    BY <2>1, <2>2
<1>6. \A q \in Request : Insertable(q) => \A e \in req[q].answer : Vouched(req[q].pc, e, since'[r], k)
  <2>1. CASE Writing
    BY <1>2, <1>4, <2>1, AllFactsVouch
  <2>2. CASE ~ Writing
    <3>1. \A q \in Request : Insertable(q) => req[q].answer \subseteq Stored(db)[req[q].pc]
      BY <2>2 DEF Coherent, ReadsCoherent
    <3> QED
      BY <1>1, <1>2, <1>4, <2>2, <3>1, FactsVouch
  <2> QED
    BY <2>1, <2>2
<1>7. ToldTheTruth(r)'
  BY <1>2, <1>3, <1>5, <1>6 DEF ToldTheTruth
<1> QED
  BY <1>2, <1>7 DEF Established

\* A request goes on with an answer it has been told.
LEMMA EstablishedMore ==
  ASSUME Typed, NEW r \in Request, NEW A, GoesOn(r, A), Established(r), UNCHANGED since,
         \A e \in A : Vouched(req[r].pc, e, since[r], req[r].key)
  PROVE  Established(r)'
<1> DEFINE q == Answered(req[r], A)
<1>1. /\ req[r].pc \in Lookup /\ A \subseteq {e \in Entry(req[r].pc) : e[1] = LookupId(r)}
      /\ req' = [req EXCEPT ![r] = q] /\ req \in [Request -> RequestState]
  BY DEF Typed, Shapes, GoesOn
<1>2. req'[r] = q
  BY <1>1
<1>3. /\ q.pc \in {"refused", "user", "policy", "admitted"}
      /\ q.pc \in {"user", "policy", "admitted"} =>
           \E e \in A :
             \/ /\ req[r].pc = "cred" /\ q.pc = "user" /\ e[2].active /\ q.user = e[2].user
             \/ /\ req[r].pc = "user" /\ q.user = req[r].user
                /\ q.pc = "policy" \/ (q.pc = "admitted" /\ q.user = Root)
             \/ /\ req[r].pc = "policy" /\ q.pc = "admitted" /\ q.user = req[r].user /\ e[2]
  BY <1>1, AnsweredIs DEF Typed
<1> HIDE DEF q
<1>4. CASE q.pc = "refused"
  BY <1>2, <1>4 DEF Established
<1>5. CASE q.pc \in {"user", "policy", "admitted"}
  <2>1. PICK e \in A :
             \/ /\ req[r].pc = "cred" /\ q.pc = "user" /\ e[2].active /\ q.user = e[2].user
             \/ /\ req[r].pc = "user" /\ q.user = req[r].user
                /\ q.pc = "policy" \/ (q.pc = "admitted" /\ q.user = Root)
             \/ /\ req[r].pc = "policy" /\ q.pc = "admitted" /\ q.user = req[r].user /\ e[2]
    BY <1>3, <1>5
  <2>2. /\ e[1] = LookupId(r)
        /\ Vouched(req[r].pc, e, since[r], req[r].key)
    BY <1>1
  <2>3. CASE req[r].pc = "cred" /\ q.pc = "user" /\ e[2].active /\ q.user = e[2].user
    <3>1. q.user \in since[r].named
      BY <2>2, <2>3 DEF Vouched, LookupId
    <3> QED
      BY <1>2, <2>3, <3>1 DEF Established
  <2>4. CASE /\ req[r].pc = "user" /\ q.user = req[r].user
             /\ q.pc = "policy" \/ (q.pc = "admitted" /\ q.user = Root)
    <3>1. q.user \in since[r].named /\ q.user \in since[r].exist
      BY <2>2, <2>4 DEF Vouched, LookupId, Established
    <3> QED
      BY <1>2, <2>4, <3>1 DEF Established
  <2>5. CASE req[r].pc = "policy" /\ q.pc = "admitted" /\ q.user = req[r].user /\ e[2]
    <3>1. q.user \in since[r].named /\ q.user \in since[r].exist /\ q.user \in since[r].allowed
      BY <2>2, <2>5 DEF Vouched, LookupId, Established
    <3> QED
      BY <1>2, <2>5, <3>1 DEF Established
  <2> QED
    BY <2>1, <2>3, <2>4, <2>5
<1> QED
  BY <1>3, <1>4, <1>5
LEMMA TruthfulStep == Typed /\ Coherent /\ Truthful /\ [Next]_vars => Truthful'
<1> SUFFICES ASSUME Typed, Coherent, Truthful, [Next]_vars PROVE Truthful'
  OBVIOUS
<1>a. /\ Shapes /\ KeysUnique /\ req \in [Request -> RequestState] /\ generation \in Nat
      /\ since \in [Request -> Known]
      /\ \A r \in Request : req[r].gen <= generation /\ req[r].gen \in Nat
  BY DEF Typed, Shapes, LookupsInStep, RequestState
<1>b. \A r \in Request : ToldTheTruth(r) /\ Established(r)
  BY DEF Truthful
<1>c. ASSUME UNCHANGED <<db, req, since>>,
             \A l \in Lookup : cache'[l] \subseteq cache[l] \cup Stored(db)[l],
             \A q \in Request : Insertable(q)' => Insertable(q)
      PROVE  Truthful'
  <2>1. ASSUME NEW r \in Request PROVE ToldTheTruth(r)' /\ Established(r)'
    <3>1. \A q \in Request : Tells(q, r)' => Tells(q, r)
      BY <1>c DEF Tells
    <3> QED
      BY <1>b, <1>c, <3>1, ToldKept, EstablishedKept
  <2> QED
    BY <2>1 DEF Truthful
<1>1. ASSUME NEW a \in Admin, Handle(a) PROVE Truthful'
  <2>1. PICK op : Accepted(a, op)
    BY <1>1, <1>a, HandleStep
  <2>2. /\ UNCHANGED <<db, generation, req, since>>
        /\ \A l \in Lookup : cache'[l] \subseteq cache[l] \cup Stored(db)[l]
    BY <2>1 DEF Accepted, Accept, CacheStep
  <2> QED
    BY <1>c, <2>2 DEF Insertable, Current
<1>2. ASSUME NEW a \in Admin, Commit(a) PROVE Truthful'
  <2>1. db' \in Tables /\ Remember(db')
    BY <1>2, <1>a, CommitStep
  <2>2. UNCHANGED <<cache, generation, req>>
    BY <1>2 DEF Commit
  <2> QED
    BY <2>1, <2>2, TruthfulWrite
<1>3. ASSUME NEW a \in Admin, Invalidate(a) PROVE Truthful'
  <2>1. \A r \in Request : ~ Insertable(r)'
    BY <1>3, <1>a DEF Invalidate, Insertable, Current
  <2>2. \A l \in Lookup : cache'[l] = {}
    BY <1>3, EmptyCacheType DEF Invalidate
  <2> QED
    BY <1>3, <1>c, <2>1, <2>2 DEF Invalidate
<1>4. ASSUME NEW k \in Key, CliDeleteCredential(k) PROVE Truthful'
  <2>1. db' \in Tables /\ Remember(db')
    BY <1>4, <1>a, CliStep
  <2>2. UNCHANGED <<cache, generation, req>>
    BY <1>4 DEF CliDeleteCredential
  <2> QED
    BY <2>1, <2>2, TruthfulWrite
<1>5. ASSUME TtlPasses PROVE Truthful'
  <2>1. \A l \in Lookup : cache'[l] = {}
    BY <1>5, EmptyCacheType DEF TtlPasses
  <2> QED
    BY <1>5, <1>c, <2>1 DEF TtlPasses, Insertable, Current
<1>6. ASSUME NEW r \in Request, NEW k \in Key, Arrive(r, k) \/ Hit(r) \/ Miss(r) \/ Leave(r)
      PROVE  Truthful'
  <2>1. /\ Alone(r) /\ req'[r].step # "insert" /\ UNCHANGED <<db, cache, generation>>
    BY <1>6, AskIs
  <2>2. ASSUME NEW q \in Request, NEW p \in Request, Tells(q, p)'
        PROVE  Tells(q, p) /\ req'[q].pc = req[q].pc /\ req'[q].answer = req[q].answer
    BY <2>1, <2>2, OthersInsertable DEF Tells, Alone, Insertable
  <2>3. ASSUME NEW p \in Request \ {r} PROVE ToldTheTruth(p)' /\ Established(p)'
    <3>1. req'[p] = req[p] /\ since'[p] = since[p]
      BY <1>6, <1>a, <2>1 DEF Alone, Arrive, Hit, Miss, Leave
    <3> QED
      BY <1>b, <2>1, <2>2, <3>1, ToldKept, EstablishedKept
  <2>4. ToldTheTruth(r)' /\ Established(r)'
    <3>1. CASE Arrive(r, k)
      BY <3>1, ToldOnArrival
    <3>2. CASE Hit(r)
      <4> DEFINE A == Of(cache[req[r].pc], LookupId(r))
      <4>1. GoesOn(r, A) /\ UNCHANGED <<generation, since>>
        BY <3>2, HitGoesOn DEF Hit
      <4>2. req[r].pc \in Lookup /\ req[r].pc # "idle" /\ A \subseteq cache[req[r].pc]
        BY <4>1 DEF GoesOn, Lookup, Of
      <4>3. \A e \in A : Vouched(req[r].pc, e, since[r], req[r].key)
        BY <1>b, <4>2 DEF ToldTheTruth
      <4> HIDE DEF A
      <4>4. Established(r)'
        BY <1>b, <4>1, <4>3, EstablishedMore
      <4>5. req'[r].key = req[r].key
        BY <4>1, GoesOnStep
      <4>6. ToldTheTruth(r)'
        BY <1>b, <2>1, <2>2, <4>1, <4>2, <4>5, ToldKept
      <4> QED
        BY <4>4, <4>6
    <3>3. CASE Miss(r)
      <4>1. /\ req'[r].pc = req[r].pc /\ req'[r].key = req[r].key /\ req'[r].user = req[r].user
            /\ UNCHANGED since
        BY <1>a, <3>3 DEF Miss, RequestState
      <4> QED
        BY <1>b, <2>1, <2>2, <4>1, ToldKept, EstablishedKept
    <3>4. CASE Leave(r)
      <4>1. req'[r].pc = "idle"
        BY <1>a, <3>4 DEF Leave, NoRequest
      <4> QED
        BY <4>1 DEF ToldTheTruth, Established
    <3> QED
      BY <1>6, <3>1, <3>2, <3>3, <3>4
  <2> QED
    BY <2>3, <2>4 DEF Truthful
<1>7. ASSUME NEW r \in Request, Read(r) PROVE Truthful'
  <2>1. /\ Alone(r) /\ req[r].pc \in Lookup /\ req'[r].pc = req[r].pc
        /\ req'[r].key = req[r].key /\ req'[r].user = req[r].user
        /\ req'[r].answer \subseteq Stored(db)[req[r].pc]
        /\ UNCHANGED <<db, cache, generation, since>>
    BY <1>7, ReadIs
  <2>2. ASSUME NEW p \in Request PROVE ToldTheTruth(p)' /\ Established(p)'
    <3>1. ASSUME NEW q \in Request, Tells(q, p)'
          PROVE  \/ Tells(q, p) /\ req'[q].pc = req[q].pc /\ req'[q].answer = req[q].answer
                 \/ req'[q].pc \in Lookup /\ req'[q].answer \subseteq Stored(db)[req'[q].pc]
      BY <2>1, <3>1, OthersInsertable DEF Tells, Alone
    <3>2. req'[p].pc = req[p].pc /\ req'[p].key = req[p].key /\ req'[p].user = req[p].user
      BY <2>1 DEF Alone
    <3> QED
      BY <1>b, <2>1, <3>1, <3>2, ToldKept, EstablishedKept
  <2> QED
    BY <2>2 DEF Truthful
<1>8. ASSUME NEW r \in Request, Insert(r) PROVE Truthful'
  <2>1. /\ Alone(r) /\ req'[r].step = "ask"
        /\ \A l \in Lookup : \A e \in cache'[l] :
             e \in cache[l] \/ (Insertable(r) /\ req[r].pc = l /\ e \in req[r].answer)
        /\ UNCHANGED <<db, generation, since>>
    BY <1>8, InsertIs
  <2>2. GoesOn(r, req[r].answer)
    BY <1>8, InsertGoesOn
  <2>3. req[r].pc \in Lookup /\ req[r].pc # "idle" /\ req[r].step = "insert"
    BY <1>8, <2>2 DEF GoesOn, Lookup, Insert
  <2>4. req'[r].key = req[r].key
    BY <2>1, <2>2, GoesOnStep
  <2>5. ASSUME NEW p \in Request PROVE ToldTheTruth(p)'
    <3>1. ASSUME NEW q \in Request, Tells(q, p)'
          PROVE  Tells(q, p) /\ req'[q].pc = req[q].pc /\ req'[q].answer = req[q].answer
      BY <2>1, <3>1, OthersInsertable DEF Tells, Alone, Insertable
    <3>2. req'[p].pc # "idle" => req[p].pc # "idle" /\ req'[p].key = req[p].key
      BY <2>1, <2>3, <2>4 DEF Alone
    <3> QED
      BY <1>b, <2>1, <3>1, <3>2, ToldKept
  <2>6. \A e \in req[r].answer : Vouched(req[r].pc, e, since[r], req[r].key)
    BY <1>b, <2>3 DEF ToldTheTruth
  <2>7. Established(r)'
    BY <1>b, <2>1, <2>2, <2>6, EstablishedMore
  <2>8. \A p \in Request \ {r} : Established(p)'
    BY <1>b, <2>1, EstablishedKept DEF Alone
  <2> QED
    BY <2>5, <2>7, <2>8 DEF Truthful
<1>9. CASE UNCHANGED vars
  <2>1. \A q \in Request : Insertable(q)' => Insertable(q)
    BY <1>9 DEF vars, Insertable, Current
  <2> QED
    BY <1>9, <1>c, <2>1 DEF vars
<1>10. ASSUME NEW r \in Request, Hit(r) \/ Miss(r) \/ Leave(r) PROVE Truthful'
  <2>1. \E k \in Key : TRUE
    BY IdentityAssumption
  <2> QED
    BY <1>6, <1>10, <2>1
<1> QED
  BY <1>1, <1>2, <1>3, <1>4, <1>5, <1>6, <1>7, <1>8, <1>9, <1>10 DEF Next

LEMMA IdentityInit == Init => Coherent /\ Truthful
<1> SUFFICES ASSUME Init PROVE Coherent /\ Truthful
  OBVIOUS
<1>1. /\ \A l \in Lookup : cache[l] = {}
      /\ \A r \in Request : req[r] = NoRequest
  BY EmptyCacheType DEF Init
<1>2. \A r \in Request : req[r].pc = "idle" /\ req[r].step = "ask"
  BY <1>1 DEF NoRequest
<1> QED
  BY <1>1, <1>2 DEF Coherent, CacheCoherent, ReadsCoherent, Insertable, Truthful, ToldTheTruth,
     Established

\* The inductive invariant: types, coherence and truth.
THEOREM TruthHolds == Spec => [](Typed /\ Coherent /\ Truthful)
<1>1. Init => Typed /\ Coherent /\ Truthful
  BY TypedInit, IdentityInit
<1>2. Typed /\ Coherent /\ Truthful /\ [Next]_vars => (Typed /\ Coherent /\ Truthful)'
  BY TypedStep, CoherentStep, TruthfulStep
<1> QED
  BY <1>1, <1>2, PTL DEF Spec

\* identity_cache.rs: between a write's invalidation and the next write, the cache
\* holds nothing but what the tables hold, whatever lookups were under way.
THEOREM CacheIsCoherent == Spec => []CacheCoherent
<1>1. Coherent => CacheCoherent
  BY DEF Coherent
<1> QED
  BY <1>1, TruthHolds, PTL

\* middleware/auth.rs over identity_cache.rs: a request is only admitted for a user
\* whom its key stood for, and whose policies allowed it, since the request began.
THEOREM RevokedStaysOut == Spec => []RevokedIsRefused
<1>1. Truthful => RevokedIsRefused
  BY DEF Truthful, Established, RevokedIsRefused
<1> QED
  BY <1>1, TruthHolds, PTL
-----------------------------------------------------------------------------
(* Root keeps an active credential. *)

\* A handler that is idle has no operation.
IdleHasNone == \A a \in Admin : admin[a].pc = "idle" => ~ Removes(admin[a].op)

RootSafe == RootReachable /\ RemovalIsSafe /\ LastKeyIsKnown /\ IdleHasNone

Removing == \E a \in Admin : Removes(admin[a].op)

LEMMA StoredCredential ==
  ASSUME KeysUnique, NEW c \in db.creds, NEW e \in Stored(db)["cred"], e[1] = c.key
  PROVE  e[2] = c
<1>1. PICK d \in db.creds : e = <<d.key, d>>
  BY StoredIs
<1>2. e[1] = d.key /\ e[2] = d
  BY <1>1
<1> QED
  BY <1>2 DEF KeysUnique

\* The cache knows the last key of root after a step that leaves the tables alone.
LEMMA LastKeyKept ==
  ASSUME KeysUnique, LastKeyIsKnown, UNCHANGED db, Removing => Removing',
         \A l \in Lookup : \A e \in cache'[l] :
           \/ e \in cache[l] \cup Stored(db)[l]
           \/ \E q \in Request : Insertable(q) /\ req[q].pc = l /\ e \in req[q].answer,
         \A q \in Request : Insertable(q)' =>
           \/ Insertable(q) /\ req'[q].pc = req[q].pc /\ req'[q].answer = req[q].answer
           \/ req'[q].answer \subseteq Stored(db)[req'[q].pc]
  PROVE  LastKeyIsKnown'
<1> SUFFICES ASSUME NEW c \in ActiveRoot(db), ~ Removing', \A d \in ActiveRoot(db) : d.key = c.key
             PROVE  /\ \A e \in Of(cache'["cred"], c.key) : e[2] = c
                    /\ \A r \in Request : Insertable(r)' /\ req'[r].pc = "cred" =>
                         \A e \in Of(req'[r].answer, c.key) : e[2] = c
  BY DEF LastKeyIsKnown, Removing
<1>1. /\ \A e \in Of(cache["cred"], c.key) : e[2] = c
      /\ \A r \in Request : Insertable(r) /\ req[r].pc = "cred" =>
           \A e \in Of(req[r].answer, c.key) : e[2] = c
  BY DEF LastKeyIsKnown, Removing
<1>2. \A e \in Of(Stored(db)["cred"], c.key) : e[2] = c
  BY StoredCredential DEF Of, ActiveRoot
<1>3. "cred" \in Lookup
  BY DEF Lookup
<1>4. \A e \in Of(cache'["cred"], c.key) : e[2] = c
  BY <1>1, <1>2, <1>3 DEF Of
<1>5. \A r \in Request : Insertable(r)' /\ req'[r].pc = "cred" =>
        \A e \in Of(req'[r].answer, c.key) : e[2] = c
  BY <1>1, <1>2 DEF Of
<1> QED
  BY <1>4, <1>5

\* The lockout guards let a removal through only if root has another key.
LEMMA GuardHolds ==
  ASSUME Typed, RootReachable, LastKeyIsKnown, ~ Removing, NEW k,
         \E e \in Got("cred", k) : KeepsAnotherKey(e[2])
  PROVE  \E c \in ActiveRoot(db) : c.key # k
<1> SUFFICES ASSUME \A c \in ActiveRoot(db) : c.key = k PROVE FALSE
  OBVIOUS
<1>1. PICK c : c \in ActiveRoot(db)
  BY DEF RootReachable
<1>2. c \in db.creds /\ c.active /\ c.user = Root /\ c.key = k
  BY <1>1 DEF ActiveRoot
<1>3. KeysUnique
  BY DEF Typed
<1>4. ActiveRoot(db) = {c}
  BY <1>1, <1>2, <1>3 DEF KeysUnique, ActiveRoot
<1>5. \A e \in Of(cache["cred"], k) : e[2] = c
  BY <1>1, <1>2 DEF LastKeyIsKnown, Removing
<1>6. \A e \in Of(Stored(db)["cred"], k) : e[2] = c
  BY <1>2, <1>3, StoredCredential DEF Of
<1>7. KeepsAnotherKey(c)
  BY <1>5, <1>6 DEF Got
<1>8. Cardinality(ActiveRoot(db)) > 1
  BY <1>2, <1>7 DEF KeepsAnotherKey
<1>9. Cardinality({c}) = 1
  BY FS_Singleton
<1>10. Cardinality(ActiveRoot(db)) = 1
  BY <1>4, <1>9
<1> QED
  BY <1>8, <1>10

LEMMA RootInit == Init => RootSafe
<1> SUFFICES ASSUME Init PROVE RootSafe
  OBVIOUS
<1>1. PICK k \in RootKey : TRUE
  BY IdentityAssumption
<1> DEFINE C == [key |-> k, user |-> Root, active |-> TRUE]
<1>2. Root \in User /\ fresh \in {{}, Id \ {Root}}
  BY IdentityAssumption DEF Init
<1>3. C \in db.creds /\ Root \in db.users
  BY <1>1, <1>2 DEF Init
<1>4. C \in ActiveRoot(db)
  BY <1>3 DEF ActiveRoot
<1>5. /\ \A a \in Admin : ~ Removes(admin[a].op)
  BY DEF Init, Idle, NoOp, Removes
<1>6. /\ cache["cred"] = {} /\ \A r \in Request : req[r].step = "ask"
  BY EmptyCacheType DEF Init, Lookup, NoRequest
<1>7. LastKeyIsKnown
  BY <1>6 DEF LastKeyIsKnown, Of, Insertable
<1> QED
  BY <1>4, <1>5, <1>7 DEF RootSafe, RootReachable, RemovalIsSafe, IdleHasNone
LEMMA RootStep ==
  ASSUME ~ Overlap, Typed, RootSafe, [Next]_vars
  PROVE  RootSafe'
<1>a. /\ Shapes /\ KeysUnique /\ req \in [Request -> RequestState] /\ generation \in Nat
      /\ db \in Tables
      /\ admin \in [Admin -> [pc : {"idle", "write", "invalidate"}, op : Operation]]
      /\ \A r \in Request : req[r].gen <= generation /\ req[r].gen \in Nat
  BY DEF Typed, Shapes, LookupsInStep, RequestState
<1>b. RootReachable /\ RemovalIsSafe /\ LastKeyIsKnown /\ IdleHasNone
  BY DEF RootSafe
<1>c. ASSUME UNCHANGED <<db, admin>>, LastKeyIsKnown' PROVE RootSafe'
  <2>1. RootReachable' /\ RemovalIsSafe' /\ IdleHasNone'
    BY <1>b, <1>c DEF RootReachable, RemovalIsSafe, IdleHasNone
  <2> QED
    BY <1>c, <2>1 DEF RootSafe
<1>1. ASSUME NEW a \in Admin, Handle(a) PROVE RootSafe'
  <2>1. PICK op : Accepted(a, op)
    BY <1>1, <1>a, HandleStep
  <2>2. /\ admin[a].pc = "idle" /\ admin' = [admin EXCEPT ![a] = [pc |-> "write", op |-> op]]
        /\ UNCHANGED <<db, generation, req>>
        /\ \A l \in Lookup : cache'[l] \subseteq cache[l] \cup Stored(db)[l]
    BY <2>1 DEF Accepted, Accept, CacheStep
  <2>3. /\ admin'[a].op = op /\ admin'[a].pc = "write"
        /\ \A b \in Admin \ {a} : admin'[b] = admin[b]
        /\ ~ Removes(admin[a].op)
    BY <1>a, <1>b, <2>2 DEF IdleHasNone
  <2>4. Removes(op) => ~ Removing /\ \E c \in ActiveRoot(db) : c.key # op.x
    <3> SUFFICES ASSUME Removes(op) PROVE ~ Removing /\ \E c \in ActiveRoot(db) : c.key # op.x
      OBVIOUS
    <3>1. ~ Removing /\ \E e \in Got("cred", op.x) : KeepsAnotherKey(e[2])
      BY <2>1 DEF Accepted, Removing
    <3> QED
      BY <1>b, <3>1, GuardHolds
  <2>5. RemovalIsSafe'
    <3> SUFFICES ASSUME NEW b \in Admin, Removes(admin'[b].op)
                 PROVE  /\ \A d \in Admin \ {b} : ~ Removes(admin'[d].op)
                        /\ admin'[b].pc = "write" => \E c \in ActiveRoot(db) : c.key # admin'[b].op.x
      BY <2>2 DEF RemovalIsSafe
    <3>1. CASE b = a
      BY <2>3, <2>4, <3>1 DEF Removing
    <3>2. CASE b # a
      BY <1>b, <2>3, <2>4, <3>2 DEF RemovalIsSafe, Removing
    <3> QED
      BY <3>1, <3>2
  <2>6. Removing => Removing'
    BY <2>3 DEF Removing
  <2>7. LastKeyIsKnown'
    BY <1>a, <1>b, <2>2, <2>6, LastKeyKept DEF Insertable, Current
  <2>8. RootReachable' /\ IdleHasNone'
    BY <1>b, <2>2, <2>3 DEF RootReachable, IdleHasNone
  <2> QED
    BY <2>5, <2>7, <2>8 DEF RootSafe
<1>2. ASSUME NEW a \in Admin, Commit(a) PROVE RootSafe'
  <2> DEFINE op == admin[a].op
  <2>1. /\ admin[a].pc = "write" /\ admin' = [admin EXCEPT ![a].pc = "invalidate"]
        /\ UNCHANGED <<cache, generation, req>>
    BY <1>2 DEF Commit
  <2>2. db' \in {db, Written(db, op)}
    BY <1>2, <1>a, CommitStep
  <2>3. op \in Operation /\ OperandsFit(op) /\ op.name # "none" /\ UniqueIn(db)
    <3>1. op \in Operation
      BY <1>a
    <3>2. OperandsFit(op) /\ op.name # "none"
      BY <1>a, <2>1 DEF Shapes
    <3> QED
      BY <1>a, <3>1, <3>2 DEF KeysUnique, UniqueIn
  <2>4. \A b \in Admin : admin'[b].op = admin[b].op /\ (admin'[b].pc = "write" => admin[b].pc = "write" /\ b # a)
    BY <1>a, <2>1
  <2>5. IdleHasNone'
    BY <1>a, <1>b, <2>1 DEF IdleHasNone
  <2>6. \A q \in Request : Insertable(q)' <=> Insertable(q)
    BY <2>1 DEF Insertable, Current
  <2> HIDE DEF op
  <2>7. CASE Removes(op)
    <3>1. /\ \A b \in Admin \ {a} : ~ Removes(admin[b].op)
          /\ \E c \in ActiveRoot(db) : c.key # op.x
      BY <1>b, <2>1, <2>7 DEF RemovalIsSafe, op
    <3>2. RootReachable'
      BY <1>a, <2>2, <2>3, <2>7, <3>1, RemovalKeepsOthers DEF RootReachable
    <3>3. RemovalIsSafe'
      BY <2>4, <3>1 DEF RemovalIsSafe
    <3>4. LastKeyIsKnown'
      BY <2>4, <2>7 DEF LastKeyIsKnown, op
    <3> QED
      BY <2>5, <3>2, <3>3, <3>4 DEF RootSafe
  <2>8. CASE ~ Removes(op)
    <3>1. /\ ActiveRoot(db) \subseteq ActiveRoot(db')
          /\ \A c \in ActiveRoot(db') \ ActiveRoot(db) : \A e \in ActiveRoot(db) : e.key # c.key
      BY <1>a, <1>b, <2>2, <2>3, <2>8, WrittenKeepsRoot DEF RootReachable
    <3>2. RootReachable'
      BY <1>b, <3>1 DEF RootReachable
    <3>3. RemovalIsSafe'
      BY <1>b, <2>4, <3>1 DEF RemovalIsSafe
    <3>4. LastKeyIsKnown'
      <4> SUFFICES ASSUME NEW c \in ActiveRoot(db'),
                          ~ \E b \in Admin : Removes(admin'[b].op),
                          ~ \E d \in ActiveRoot(db') : d.key # c.key
                   PROVE  /\ \A e \in Of(cache'["cred"], c.key) : e[2] = c
                          /\ \A r \in Request : Insertable(r)' /\ req'[r].pc = "cred" =>
                               \A e \in Of(req'[r].answer, c.key) : e[2] = c
        BY DEF LastKeyIsKnown
      <4>1. c \in ActiveRoot(db)
        BY <1>b, <3>1 DEF RootReachable
      <4>2. /\ ~ \E b \in Admin : Removes(admin[b].op)
            /\ ~ \E d \in ActiveRoot(db) : d.key # c.key
        BY <2>4, <3>1
      <4> QED
        BY <1>b, <2>1, <2>6, <4>1, <4>2 DEF LastKeyIsKnown
    <3> QED
      BY <2>5, <3>2, <3>3, <3>4 DEF RootSafe
  <2> QED
    BY <2>7, <2>8
<1>3. ASSUME NEW a \in Admin, Invalidate(a) PROVE RootSafe'
  <2>1. /\ generation' = generation + 1 /\ cache' = EmptyCache
        /\ admin' = [admin EXCEPT ![a] = Idle] /\ UNCHANGED <<db, req>>
    BY <1>3 DEF Invalidate
  <2>2. \A b \in Admin : admin'[b] = admin[b] \/ (b = a /\ ~ Removes(admin'[b].op))
    BY <1>a, <2>1 DEF Idle, NoOp, Removes
  <2>3. \A r \in Request : ~ Insertable(r)'
    BY <1>a, <2>1 DEF Insertable, Current
  <2>4. cache'["cred"] = {}
    BY <2>1, EmptyCacheType DEF Lookup
  <2>5. LastKeyIsKnown'
    BY <2>3, <2>4 DEF LastKeyIsKnown, Of
  <2>6. RootReachable' /\ RemovalIsSafe' /\ IdleHasNone'
    BY <1>b, <2>1, <2>2 DEF RootReachable, RemovalIsSafe, IdleHasNone
  <2> QED
    BY <2>5, <2>6 DEF RootSafe
<1>4. ASSUME NEW k \in Key, CliDeleteCredential(k) PROVE RootSafe'
  <2>1. db'.creds = {c \in db.creds : c.key # k} /\ db'.users = db.users
    BY <1>4, <1>a, CliStep
  <2>2. /\ UNCHANGED <<cache, generation, admin, req>>
        /\ \E c \in db.creds : c.key = k /\ c.user # Root
    BY <1>4 DEF CliDeleteCredential
  <2>3. ActiveRoot(db') = ActiveRoot(db)
    BY <1>a, <2>1, <2>2 DEF ActiveRoot, KeysUnique
  <2>4. \A q \in Request : Insertable(q)' <=> Insertable(q)
    BY <2>2 DEF Insertable, Current
  <2>5. LastKeyIsKnown'
    BY <1>b, <2>2, <2>3, <2>4 DEF LastKeyIsKnown
  <2>6. RootReachable' /\ RemovalIsSafe' /\ IdleHasNone'
    BY <1>b, <2>2, <2>3 DEF RootReachable, RemovalIsSafe, IdleHasNone
  <2> QED
    BY <2>5, <2>6 DEF RootSafe
<1>5. ASSUME TtlPasses PROVE RootSafe'
  <2>1. cache'["cred"] = {} /\ UNCHANGED <<db, admin>>
    BY <1>5, EmptyCacheType DEF TtlPasses, Lookup
  <2>2. \A r \in Request : ~ Insertable(r)'
    BY <1>5, <1>a DEF TtlPasses, Insertable
  <2>3. LastKeyIsKnown'
    BY <2>1, <2>2 DEF LastKeyIsKnown, Of
  <2> QED
    BY <1>c, <2>1, <2>3
<1>6. ASSUME NEW r \in Request, NEW k \in Key, Arrive(r, k) \/ Hit(r) \/ Miss(r) \/ Leave(r)
      PROVE  RootSafe'
  <2>1. /\ Alone(r) /\ req'[r].step # "insert"
        /\ UNCHANGED <<db, cache, generation, admin>>
    BY <1>6, AskIs
  <2>2. \A q \in Request : Insertable(q)' =>
           Insertable(q) /\ req'[q].pc = req[q].pc /\ req'[q].answer = req[q].answer
    BY <2>1, OthersInsertable DEF Alone, Insertable
  <2> QED
    BY <1>a, <1>b, <1>c, <2>1, <2>2, LastKeyKept DEF Removing
<1>7. ASSUME NEW r \in Request, Read(r) PROVE RootSafe'
  <2>1. /\ Alone(r) /\ req'[r].answer \subseteq Stored(db)[req'[r].pc]
        /\ UNCHANGED <<db, cache, generation, admin>>
    BY <1>7, ReadIs
  <2>2. \A q \in Request : Insertable(q)' =>
           \/ Insertable(q) /\ req'[q].pc = req[q].pc /\ req'[q].answer = req[q].answer
           \/ req'[q].answer \subseteq Stored(db)[req'[q].pc]
    BY <2>1, OthersInsertable DEF Alone
  <2> QED
    BY <1>a, <1>b, <1>c, <2>1, <2>2, LastKeyKept DEF Removing
<1>8. ASSUME NEW r \in Request, Insert(r) PROVE RootSafe'
  <2>1. /\ Alone(r) /\ req'[r].step = "ask"
        /\ \A l \in Lookup : \A e \in cache'[l] :
             e \in cache[l] \/ (Insertable(r) /\ req[r].pc = l /\ e \in req[r].answer)
        /\ UNCHANGED <<db, generation, admin>>
    BY <1>8, InsertIs
  <2>2. \A q \in Request : Insertable(q)' =>
           Insertable(q) /\ req'[q].pc = req[q].pc /\ req'[q].answer = req[q].answer
    BY <2>1, OthersInsertable DEF Alone, Insertable
  <2> QED
    BY <1>a, <1>b, <1>c, <2>1, <2>2, LastKeyKept DEF Removing
<1>9. CASE UNCHANGED vars
  <2>1. \A q \in Request : Insertable(q)' <=> Insertable(q)
    BY <1>9 DEF vars, Insertable, Current
  <2> QED
    BY <1>9, <1>a, <1>b, <1>c, <2>1, LastKeyKept DEF vars, Removing
<1>10. ASSUME NEW r \in Request, Hit(r) \/ Miss(r) \/ Leave(r) PROVE RootSafe'
  <2>1. \E k \in Key : TRUE
    BY IdentityAssumption
  <2> QED
    BY <1>6, <1>10, <2>1
<1> QED
  BY <1>1, <1>2, <1>3, <1>4, <1>5, <1>6, <1>7, <1>8, <1>9, <1>10 DEF Next

\* admin.rs: the lockout guards of update_credential and delete_credential read a
\* cached credential and a count of the table, and write later; as long as the
\* removals do not overlap, they never take the last active key from root, however
\* lookups, other writes, failed writes and the command line interleave with them.
THEOREM RootKeepsAKey == ASSUME ~ Overlap PROVE Spec => []RootReachable
<1>1. Init => RootSafe
  BY RootInit
<1>2. Typed /\ RootSafe /\ [Next]_vars => RootSafe'
  BY RootStep
<1>3. RootSafe => RootReachable
  BY DEF RootSafe
<1> QED
  BY <1>1, <1>2, <1>3, TruthHolds, PTL DEF Spec
===============================================================================
