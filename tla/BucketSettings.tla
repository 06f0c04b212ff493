-------------------------- MODULE BucketSettings --------------------------
(* One bucket name and its settings on one node: CreateBucket, DeleteBucket  *)
(* and the sub-resources of a bucket (arca-proto handlers/bucket.rs), with   *)
(* object writes that run at the same time.  Tables: buckets, bucket_config  *)
(* (versioning, object_lock, encryption_algorithm, and the set of rules      *)
(* stored: lifecycle, notification, replication, compression), bucket_tags,  *)
(* objects.                                                                  *)
(*                                                                           *)
(* Each handler checks with one read and writes with a later one.  Whether a *)
(* bucket encrypts its objects is cached for Ttl (state.rs).                 *)
EXTENDS Naturals, FiniteSets

CONSTANTS Request,   \* requests, positive numbers
          Op,        \* operations of this instance
          Rule,      \* rule settings of this instance
          Overlap,   \* may two configuration requests overlap?
          Ttl,       \* BUCKET_CONFIG_CACHE_TTL
          MaxClock,  \* ticks
          MaxFaults  \* store errors

VARIABLES exists,    \* the row of table buckets
          config,    \* table bucket_config
          btags,     \* table bucket_tags
          objects,   \* objects, named after the requests that wrote them
          cache,     \* bucket_encryption_cache
          req, clock, faults,
          was        \* was[v]: last time the encryption setting had value v (history)

vars == <<exists, config, btags, objects, cache, req, clock, faults, was>>

Default == [versioning |-> "none", lock |-> FALSE, encryption |-> FALSE, rules |-> {}]
NoEntry == [set |-> FALSE, val |-> FALSE, expires |-> 0]
Idle    == [op |-> "none", pc |-> "idle", arg |-> FALSE, at |-> 0, enc |-> FALSE, age |-> 0]

ConfigOps == {"create", "delete", "versioning", "lock", "encryption", "tags",
              "lifecycle", "replication", "compression", "notification"}
Busy(r)   == req[r].pc \notin {"idle", "done"}

Begin(r, op, pc, arg) ==
    /\ req[r].pc = "idle" /\ op \in Op
    /\ \A s \in Request : s < r => req[s].pc # "idle"
    /\ Overlap \/ op \notin ConfigOps \/ \A s \in Request : Busy(s) => req[s].op \notin ConfigOps
    /\ req' = [req EXCEPT ![r] = [Idle EXCEPT !.op = op, !.pc = pc, !.arg = arg]]

At(r, op, pc)  == req[r].op = op /\ req[r].pc = pc
Goto(r, pc)    == req' = [req EXCEPT ![r].pc = pc]
Checked(ok)    == IF ok THEN "checked" ELSE "done"

SetConfig(f, v) == config' = [config EXCEPT ![f] = v]

--------------------------------------------------------------------------
\* create_bucket: the row; an existing bucket answers 200 and nothing else.
CreateBucket(r) ==
    \E lock \in BOOLEAN :
      /\ Begin(r, "create", IF lock /\ ~exists THEN "lock" ELSE "done", lock)
      /\ exists' = TRUE
      /\ UNCHANGED <<config, btags, objects, cache, clock, faults, was>>

\* x-amz-bucket-object-lock-enabled: object_lock, then versioning, each a
\* transaction of its own whose failure is ignored.
CreateLock(r) ==
    /\ At(r, "create", "lock") /\ Goto(r, "enable")
    /\ \/ SetConfig("lock", TRUE) /\ UNCHANGED faults
       \/ faults < MaxFaults /\ faults' = faults + 1 /\ UNCHANGED config
    /\ UNCHANGED <<exists, btags, objects, cache, clock, was>>

CreateVersioning(r) ==
    /\ At(r, "create", "enable") /\ Goto(r, "done")
    /\ \/ SetConfig("versioning", "Enabled") /\ UNCHANGED faults
       \/ faults < MaxFaults /\ faults' = faults + 1 /\ UNCHANGED config
    /\ UNCHANGED <<exists, btags, objects, cache, clock, was>>

\* delete_bucket: the bucket exists and holds no object.
DeleteCheck(r) ==
    /\ Begin(r, "delete", Checked(exists /\ objects = {}), FALSE)
    /\ UNCHANGED <<exists, config, btags, objects, cache, clock, faults, was>>

\* The transaction deletes the tags and the bucket.
DeleteBucket(r) ==
    /\ At(r, "delete", "checked") /\ Goto(r, "done")
    /\ exists' = FALSE /\ btags' = FALSE
    /\ UNCHANGED <<config, objects, cache, clock, faults, was>>

--------------------------------------------------------------------------
\* Mutant of VersioningCheck: Object Lock is not looked at.
VersioningCheckUnlocked(r) ==
    \E suspend \in BOOLEAN :
      /\ Begin(r, "versioning", Checked(exists), suspend)
      /\ UNCHANGED <<exists, config, btags, objects, cache, clock, faults, was>>

\* put_bucket_versioning: a locked bucket cannot be suspended.
VersioningCheck(r) ==
    \E suspend \in BOOLEAN :
      /\ Begin(r, "versioning", Checked(exists /\ (suspend => ~config.lock)), suspend)
      /\ UNCHANGED <<exists, config, btags, objects, cache, clock, faults, was>>

PutVersioning(r) ==
    /\ At(r, "versioning", "checked") /\ Goto(r, "done")
    /\ SetConfig("versioning", IF req[r].arg THEN "Suspended" ELSE "Enabled")
    /\ UNCHANGED <<exists, btags, objects, cache, clock, faults, was>>

\* PUT ?object-lock: the first lock needs an empty bucket.
LockCheck(r) ==
    /\ Begin(r, "lock", Checked(exists /\ (config.lock \/ objects = {})), TRUE)
    /\ UNCHANGED <<exists, config, btags, objects, cache, clock, faults, was>>

\* Versioning is enabled first, if it is not; on an error the lock is not set.
LockVersioning(r) ==
    /\ At(r, "lock", "checked")
    /\ \/ Goto(r, "versioned") /\ SetConfig("versioning", "Enabled") /\ UNCHANGED faults
       \/ faults < MaxFaults /\ faults' = faults + 1 /\ Goto(r, "done") /\ UNCHANGED config
    /\ UNCHANGED <<exists, btags, objects, cache, clock, was>>

PutObjectLock(r) ==
    /\ At(r, "lock", "versioned") /\ Goto(r, "done")
    /\ SetConfig("lock", TRUE)
    /\ UNCHANGED <<exists, btags, objects, cache, clock, faults, was>>

--------------------------------------------------------------------------
\* put_bucket_encryption and DELETE ?encryption: check, write, invalidate.
EncryptionCheck(r) ==
    \E on \in BOOLEAN :
      /\ Begin(r, "encryption", Checked(exists), on)
      /\ UNCHANGED <<exists, config, btags, objects, cache, clock, faults, was>>

PutEncryption(r) ==
    /\ At(r, "encryption", "checked") /\ Goto(r, "written")
    /\ SetConfig("encryption", req[r].arg)
    /\ was' = [was EXCEPT ![req[r].arg] = clock]
    /\ UNCHANGED <<exists, btags, objects, cache, clock, faults>>

InvalidateEncryption(r) ==
    /\ At(r, "encryption", "written") /\ Goto(r, "done")
    /\ cache' = NoEntry
    /\ UNCHANGED <<exists, config, btags, objects, clock, faults, was>>

\* A request to store or delete rules: the bucket is checked, the XML parsed.
RulesCheck(r, rule) ==
    \E on \in BOOLEAN :
      /\ rule \in Rule
      /\ Begin(r, rule, Checked(exists), on)
      /\ UNCHANGED <<exists, config, btags, objects, cache, clock, faults, was>>

StoreRules(r, rule) ==
    /\ At(r, rule, "checked") /\ Goto(r, "done")
    /\ SetConfig("rules", IF req[r].arg THEN config.rules \cup {rule} ELSE config.rules \ {rule})
    /\ UNCHANGED <<exists, btags, objects, cache, clock, faults, was>>

\* PUT and DELETE of ?lifecycle, ?replication and ?compression; PUT of
\* ?notification, where an empty configuration deletes the setting.
PutLifecycle(r)    == RulesCheck(r, "lifecycle")    \/ StoreRules(r, "lifecycle")
PutReplication(r)  == RulesCheck(r, "replication")  \/ StoreRules(r, "replication")
PutCompression(r)  == RulesCheck(r, "compression")  \/ StoreRules(r, "compression")
PutNotification(r) == RulesCheck(r, "notification") \/ StoreRules(r, "notification")

TagsCheck(r) ==
    \E on \in BOOLEAN :
      /\ Begin(r, "tags", Checked(exists), on)
      /\ UNCHANGED <<exists, config, btags, objects, cache, clock, faults, was>>

PutBucketTags(r) ==
    /\ At(r, "tags", "checked") /\ Goto(r, "done")
    /\ btags' = req[r].arg
    /\ UNCHANGED <<exists, config, objects, cache, clock, faults, was>>

--------------------------------------------------------------------------
\* put_object, as far as the bucket matters.

PutCheck(r) ==
    /\ Begin(r, "put", IF exists THEN "flag" ELSE "done", FALSE)
    /\ UNCHANGED <<exists, config, btags, objects, cache, clock, faults, was>>

Age(v) == IF config.encryption = v THEN 0 ELSE clock - was[v]

\* cached_bucket_flag: an entry that has not expired decides.
FlagCached(r) ==
    /\ At(r, "put", "flag") /\ cache.set /\ cache.expires > clock
    /\ req' = [req EXCEPT ![r].pc = "commit", ![r].enc = cache.val, ![r].age = Age(cache.val)]
    /\ UNCHANGED <<exists, config, btags, objects, cache, clock, faults, was>>

\* blob_for_write without one: `now` is taken, then the setting is read ...
FlagRead(r) ==
    /\ At(r, "put", "flag") /\ ~(cache.set /\ cache.expires > clock)
    /\ req' = [req EXCEPT ![r].pc = "insert", ![r].at = clock, ![r].enc = config.encryption]
    /\ UNCHANGED <<exists, config, btags, objects, cache, clock, faults, was>>

\* Mutant of CacheFlag: the entry lives for Ttl from its insertion.
CacheFlagLate(r) ==
    /\ At(r, "put", "insert") /\ Goto(r, "commit")
    /\ cache' = [set |-> TRUE, val |-> req[r].enc, expires |-> clock + Ttl]
    /\ UNCHANGED <<exists, config, btags, objects, clock, faults, was>>

\* ... and cached until Ttl after that `now`, whatever was invalidated since.
CacheFlag(r) ==
    /\ At(r, "put", "insert") /\ Goto(r, "commit")
    /\ cache' = [set |-> TRUE, val |-> req[r].enc, expires |-> req[r].at + Ttl]
    /\ UNCHANGED <<exists, config, btags, objects, clock, faults, was>>

\* The transaction does not look at table buckets.
PutCommit(r) ==
    /\ At(r, "put", "commit") /\ Goto(r, "done")
    /\ objects' = objects \cup {r}
    /\ UNCHANGED <<exists, config, btags, cache, clock, faults, was>>

DeleteObject(r) ==
    /\ Begin(r, "remove", "done", FALSE)
    /\ exists
    /\ \E o \in objects : objects' = objects \ {o}
    /\ UNCHANGED <<exists, config, btags, cache, clock, faults, was>>

Tick ==
    /\ clock < MaxClock
    /\ clock' = clock + 1
    /\ was' = [was EXCEPT ![config.encryption] = clock + 1]
    /\ UNCHANGED <<exists, config, btags, objects, cache, req, faults>>

--------------------------------------------------------------------------
Init ==
    /\ exists = FALSE /\ config = Default /\ btags = FALSE /\ objects = {}
    /\ cache = NoEntry /\ req = [r \in Request |-> Idle]
    /\ clock = 0 /\ faults = 0 /\ was = [v \in BOOLEAN |-> 0]

Handler(r) ==
    \/ CreateBucket(r) \/ CreateLock(r) \/ CreateVersioning(r) \/ DeleteCheck(r) \/ DeleteBucket(r)
    \/ VersioningCheck(r) \/ PutVersioning(r) \/ LockCheck(r) \/ LockVersioning(r) \/ PutObjectLock(r)
    \/ EncryptionCheck(r) \/ PutEncryption(r) \/ InvalidateEncryption(r)
    \/ PutLifecycle(r) \/ PutReplication(r) \/ PutCompression(r) \/ PutNotification(r)
    \/ TagsCheck(r) \/ PutBucketTags(r)
    \/ PutCheck(r) \/ FlagCached(r) \/ FlagRead(r) \/ CacheFlag(r) \/ PutCommit(r) \/ DeleteObject(r)

Next == Tick \/ \E r \in Request : Handler(r)
Spec == Init /\ [][Next]_vars

--------------------------------------------------------------------------
\* Types.
TypeOK ==
    /\ exists \in BOOLEAN /\ btags \in BOOLEAN /\ objects \subseteq Request
    /\ config \in [versioning : {"none", "Enabled", "Suspended"}, lock : BOOLEAN,
                   encryption : BOOLEAN, rules : SUBSET Rule]
    /\ cache \in [set : BOOLEAN, val : BOOLEAN, expires : 0..(MaxClock + Ttl)]
    /\ clock \in 0..MaxClock

\* A PUT stores its object as the bucket's encryption setting said at most Ttl
\* earlier, although an entry may be inserted after the setting changed and
\* after it was invalidated (blob_for_write, invalidate_bucket_encryption_cache).
SettingTakesEffect == \A r \in Request : req[r].op = "put" => req[r].age < Ttl

\* A bucket with Object Lock has versioning enabled, once no configuration
\* request is under way and no store error was ignored ("Cannot suspend versioning on a bucket with Object
\* Lock enabled", put_bucket_versioning).
LockedIsVersioned ==
    (config.lock /\ faults = 0 /\ \A r \in Request : Busy(r) => req[r].op \notin ConfigOps)
        => config.versioning = "Enabled"

\* Objects are only in buckets that exist (delete_bucket: "BucketNotEmpty if
\* the bucket contains objects").
NoOrphanObjects == objects # {} => exists

\* A bucket starts with the default settings, whatever a bucket of that name
\* had before (create_bucket).
NewBucketIsFresh == [][(~exists /\ exists') => config' = Default]_vars

==========================================================================
