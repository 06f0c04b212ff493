------------------------------ MODULE MetadataCache ------------------------------
(***************************************************************************)
(* CachingMetadataStore (caching.rs): one entry of the bucket cache and    *)
(* one of the object cache in front of the store.  Every call that changes *)
(* a row goes to the store first and then drops the entry.  Unlike the     *)
(* identity cache this one keeps no generation, so a slow reader may       *)
(* insert a row that a writer has replaced and invalidated meanwhile; what *)
(* bounds the damage is the time to live.                                  *)
(*                                                                         *)
(* A row is the number of the write that made it.                          *)
(***************************************************************************)
EXTENDS Naturals, FiniteSets

CONSTANTS
    Reader, Writer,
    MaxRow,     \* bound on the number of writes
    Ttl,        \* time to live, in ticks
    ReadTime    \* the longest a read of the store takes, in ticks

VARIABLES
    row,        \* the rows in the store
    entry,      \* the cache entries: {} or {[row, age, raced]}
    reader,     \* head_bucket, get_latest_object in progress
    writer,     \* the calls below in progress
    staleness   \* how long ago a row was replaced by an answered write

cacheVars == <<row, entry, reader, writer, staleness>>

Caches == {"bucket", "object"}
NoReader == [pc |-> "idle", cache |-> "object", row |-> 0, time |-> 0, raced |-> FALSE]

Limit == Ttl + ReadTime + 1

-----------------------------------------------------------------------------
(* The calls that change a cached row, and the results after which each    *)
(* drops the entry.  Configuration, tags and uploads are not cached.       *)

Call(cache, results) == [cache |-> cache, drops |-> results]

\* create_bucket_owned, delete_bucket; apply_remote_bucket.
BucketWrite == Call("bucket", {"ok"})
RemoteBucket == Call("bucket", {"ok"})

\* put_object_if, put_object_tagged_if; the deletes, of which a batch drops the
\* entries of all its keys; apply_remote_object, apply_remote_version_delete.
PutObject == Call("object", {"ok"})
DeleteObject == Call("object", {"ok"})
DeleteBatch == Call("object", {"ok", "error"})
DeleteVersion == Call("object", {"ok"})
RemoteObject == Call("object", {"ok"})

\* complete_multipart_object and its tagged form.
CompleteMultipart == Call("object", {"ok"})

(* Mutant of SetObjectLock: handed through like the tags. *)
SetLockThrough == Call("object", {})

\* set_object_retention, set_object_legal_hold; update_object_encryption(_cas).
SetObjectLock == Call("object", {"ok"})
UpdateEncryption == Call("object", {"ok"})

Calls == {BucketWrite, RemoteBucket, PutObject, DeleteObject, DeleteBatch, DeleteVersion,
          RemoteObject, CompleteMultipart, SetObjectLock, UpdateEncryption}

NoCall == [call |-> PutObject, result |-> ""]
Answered == \A w \in Writer : writer[w] = NoCall

Init ==
    /\ row = [c \in Caches |-> 0]
    /\ entry = [c \in Caches |-> {}]
    /\ reader = [r \in Reader |-> NoReader]
    /\ writer = [w \in Writer |-> NoCall]
    /\ staleness = [c \in Caches |-> [v \in 0 .. MaxRow |-> 0]]

-----------------------------------------------------------------------------
(* Reads: head_bucket of the bucket cache, get_latest_object of the other *)

\* A hit answers at once.
Hit(r, c) ==
    /\ reader[r].pc = "idle"
    /\ \E e \in entry[c] :
         reader' = [reader EXCEPT ![r] = [NoReader EXCEPT !.pc = "answered", !.cache = c, !.row = e.row]]
    /\ UNCHANGED <<row, entry, writer, staleness>>

\* A miss reads the store ...
Miss(r, c) ==
    /\ reader[r].pc = "idle"
    /\ entry[c] = {}
    /\ reader' = [reader EXCEPT ![r] = [NoReader EXCEPT !.pc = "insert", !.cache = c, !.row = row[c]]]
    /\ UNCHANGED <<row, entry, writer, staleness>>

\* ... and inserts what it found, absence included.
Insert(r) ==
    /\ reader[r].pc = "insert"
    /\ entry' = [entry EXCEPT ![reader[r].cache] =
                   {[row |-> reader[r].row, age |-> 0, raced |-> reader[r].raced]}]
    /\ reader' = [reader EXCEPT ![r].pc = "answered", ![r].time = 0]
    /\ UNCHANGED <<row, writer, staleness>>

Return(r) ==
    /\ reader[r].pc = "answered"
    /\ reader' = [reader EXCEPT ![r] = NoReader]
    /\ UNCHANGED <<row, entry, writer, staleness>>

-----------------------------------------------------------------------------
(* Writes *)

Raced(c) == [r \in Reader |-> [reader[r] EXCEPT !.raced = @ \/ (reader[r].pc = "insert" /\ reader[r].cache = c)]]

\* A write goes to the store first; a call that fails there changes nothing.
Write(w, call, result) ==
    /\ writer[w] = NoCall
    /\ row[call.cache] < MaxRow
    /\ row' = IF result = "ok" THEN [row EXCEPT ![call.cache] = @ + 1] ELSE row
    /\ reader' = IF result = "ok" THEN Raced(call.cache) ELSE reader
    /\ writer' = [writer EXCEPT ![w] = [call |-> call, result |-> result]]
    /\ UNCHANGED <<entry, staleness>>

\* Then it drops the entry, and is answered.
Invalidate(w) ==
    /\ writer[w] # NoCall
    /\ entry' = IF writer[w].result \in writer[w].call.drops
                THEN [entry EXCEPT ![writer[w].call.cache] = {}] ELSE entry
    /\ writer' = [writer EXCEPT ![w] = NoCall]
    /\ UNCHANGED <<row, reader, staleness>>

\* The client hangs up between the two: the store keeps the row, and nobody
\* drops the entry.
HangUp(w) ==
    /\ writer[w].result = "ok"
    /\ entry' = [entry EXCEPT ![writer[w].call.cache] = {[e EXCEPT !.raced = TRUE] : e \in @}]
    /\ writer' = [writer EXCEPT ![w] = NoCall]
    /\ UNCHANGED <<row, reader, staleness>>

\* Mutant of Aged: an entry that is never dropped for its age.
AgedForever(c) == entry[c]

\* time_to_live: counted from the insertion, whatever reads there were.
Aged(c) == {[e EXCEPT !.age = @ + 1] : e \in {x \in entry[c] : x.age < Ttl}}

\* No read of the store takes longer than ReadTime, no write spans a tick.
Tick ==
    /\ Answered
    /\ \A r \in Reader : reader[r].pc # "answered"
    /\ \A r \in Reader : reader[r].pc = "insert" => reader[r].time < ReadTime
    /\ entry' = [c \in Caches |-> Aged(c)]
    /\ reader' = [r \in Reader |-> IF reader[r].pc = "insert" THEN [reader[r] EXCEPT !.time = @ + 1]
                                   ELSE reader[r]]
    /\ staleness' = [c \in Caches |-> [v \in 0 .. MaxRow |->
                        IF v < row[c] /\ staleness[c][v] < Limit THEN staleness[c][v] + 1 ELSE staleness[c][v]]]
    /\ UNCHANGED <<row, writer>>

Next ==
    \/ \E r \in Reader : (\E c \in Caches : Hit(r, c) \/ Miss(r, c)) \/ Insert(r) \/ Return(r)
    \/ \E w \in Writer : (\E call \in Calls, result \in {"ok", "error"} : Write(w, call, result))
                         \/ Invalidate(w) \/ HangUp(w)
    \/ Tick

Spec == Init /\ [][Next]_cacheVars

-----------------------------------------------------------------------------

\* One entry at most per key, and ages and rows within their bounds.
TypeOK ==
    /\ row \in [Caches -> 0 .. MaxRow]
    /\ \A c \in Caches : Cardinality(entry[c]) <= 1
    /\ \A c \in Caches : entry[c] \subseteq [row : 0 .. MaxRow, age : 0 .. Ttl, raced : BOOLEAN]

\* No answer is older than the time to live and one slow read together,
\* whatever raced and whoever hung up.
StalenessBounded ==
    \A r \in Reader : reader[r].pc = "answered" => staleness[reader[r].cache][reader[r].row] < Limit

\* Whichever call changed a row, once it is answered the cache holds that row
\* or none: only a read under way during the write, or a client that hung up
\* in it, leaves an older one.
FreshUnlessRaced ==
    Answered => \A c \in Caches : \A e \in entry[c] : e.row = row[c] \/ e.raced
=============================================================================
