----------------------------- MODULE MCRequests -----------------------------
(****************************************************************************)
(* Who is admitted (the module this one extends: one administrator and one  *)
(* request that is authenticated meanwhile), and what the requests of one S3*)
(* client, or of several at once, do to objects, to the settings of a bucket*)
(* and to what is answered.                                                 *)
(****************************************************************************)
EXTENDS Integers, Identity, SideBySide

CONSTANTS Nil, k0, k1, k2

all == <<vars, sides>>

-----------------------------------------------------------------------------
(* Three requests on one key, with a failure of the store or of the client. *)
Objects == INSTANCE ObjectGateway WITH
  Request <- {1, 2, 3}, Key <- {1},
  Op <- {"put", "copy", "partcopy", "get", "head", "delete", "deletever", "batch", "tag", "untag"},
  Versionings <- {"Unversioned"}, Untils <- {}, MaxNow <- 0, MaxFaults <- 1,
  versioning <- v1, clock <- v2, now <- v3, rows <- v4, tags <- v5, part <- v6, disk <- v7,
  doomed <- v8, req <- v9, log <- v10, faults <- v11

-----------------------------------------------------------------------------
(* Deletes against retention and legal hold, while time passes. *)
Protected == INSTANCE ObjectGateway WITH
  Request <- {1, 2, 3}, Key <- {1}, Op <- {"put", "deletever", "batch", "retain", "hold"},
  Versionings <- {"Enabled"}, Untils <- {1}, MaxNow <- 1, MaxFaults <- 0,
  versioning <- v1, clock <- v2, now <- v3, rows <- v4, tags <- v5, part <- v6, disk <- v7,
  doomed <- v8, req <- v9, log <- v10, faults <- v11

-----------------------------------------------------------------------------
(* The same requests in a bucket with versions. *)
Versions == INSTANCE ObjectGateway WITH
  Request <- {1, 2, 3}, Key <- {1}, Op <- {"put", "copy", "delete", "tag"},
  Versionings <- {"Enabled", "Suspended"}, Untils <- {}, MaxNow <- 0, MaxFaults <- 0,
  versioning <- v1, clock <- v2, now <- v3, rows <- v4, tags <- v5, part <- v6, disk <- v7,
  doomed <- v8, req <- v9, log <- v10, faults <- v11

-----------------------------------------------------------------------------
(* Three settings calls one after another, one of which may fail. *)
Settings == INSTANCE BucketSettings WITH
  Request <- 1 .. 3,
  Op <- {"create", "delete", "versioning", "lock", "lifecycle", "replication", "compression",
         "notification", "tags", "put", "remove"},
  Rule <- {"lifecycle", "replication", "compression", "notification"}, Overlap <- FALSE,
  Ttl <- 2, MaxClock <- 0, MaxFaults <- 1,
  exists <- v1, config <- v2, btags <- v3, objects <- v4, cache <- v5, req <- v6,
  clock <- v7, faults <- v8, was <- v9

-----------------------------------------------------------------------------
(* The cached encryption flag while calls overlap and time passes. *)
Caches == INSTANCE BucketSettings WITH
  Request <- 1 .. 4, Op <- {"create", "encryption", "put"}, Rule <- {}, Overlap <- TRUE,
  Ttl <- 1, MaxClock <- 1, MaxFaults <- 0,
  exists <- v1, config <- v2, btags <- v3, objects <- v4, cache <- v5, req <- v6,
  clock <- v7, faults <- v8, was <- v9

-----------------------------------------------------------------------------
(* Keys a, a/, a/a, a/(highest character)a and aa, listed with a delimiter. *)
FolderKeys == {<<2>>, <<2, 1>>, <<2, 1, 2>>, <<2, 1, 9, 2>>, <<2, 2>>}

Folders == INSTANCE Listing WITH
  Key <- FolderKeys, Slash <- 1, MaxChar <- 9, Kind <- {"v1", "v2"},
  Prefixes <- {<<>>, <<2>>}, PageSizes <- {1, 2}, Batch <- 2, MaxWrites <- 1,
  rows <- v1, clock <- v2, writes <- v3, walk <- v4, out <- v5, stayed <- v6

-----------------------------------------------------------------------------
(* Keys a, a/a and aa, with a write during the walk. *)
WalkKeys == {<<2>>, <<2, 1, 2>>, <<2, 2>>}

Walks == INSTANCE Listing WITH
  Key <- WalkKeys, Slash <- 1, MaxChar <- 9, Kind <- {"versions", "uploads", "v2"},
  Prefixes <- {<<>>}, PageSizes <- {1, 2}, Batch <- 2, MaxWrites <- 1,
  rows <- v1, clock <- v2, writes <- v3, walk <- v4, out <- v5, stayed <- v6

-----------------------------------------------------------------------------
(* Bodies whose bytes look like the framing, in chunks of one or two. *)
Octet(v) == <<"byte", v, 0>>
SentBodies == {<<<<Octet(2), Octet(13)>>, <<Octet(10)>>>>, <<<<Octet(13), Octet(10), Octet(1), Octet(10)>>>>}
SentHeaders == {{}, {"md5"}, {"sha256"}, {"header", "trailer"}}

Bodies == INSTANCE RequestBody WITH
  Mode <- {"plain", "unsigned", "signed", "signedTrailer"}, Bodies <- SentBodies,
  Headers <- SentHeaders, Algorithm <- {"SHA256"}, Required <- {"none"}, Limits <- {3},
  MaxPiece <- 3,
  req <- v1, wire <- v2, broken <- v3, intact <- v4, buf <- v5, state <- v6, signed <- v7,
  trailers <- v8, out <- v9, result <- v10

-----------------------------------------------------------------------------
(* Reads of objects of 0 and 3 bytes; a bound that is left out is -1. *)
Between(a, b) == [first |-> a, last |-> b]
AskedRanges == {Between(0, 1), Between(1, 9), Between(2, -1), Between(-1, 2), Between(-1, 9), Between(3, 4)}

Reads == INSTANCE ObjectReads WITH
  Sizes <- {0, 3}, Layouts <- {<<2, 0, 1>>, <<1, 2>>}, Ranges <- AskedRanges,
  PartNumbers <- 1 .. 3, PageSizes <- {1, 2}, TicksPerSecond <- 2, MaxTime <- 4, Word <- 64,
  client <- v1, now <- v2, object <- v3, held <- v4, answer <- v5, walk <- v6,
  upload <- v7, pages <- v8

-----------------------------------------------------------------------------
(* Parts of 0 to 3 bytes under a CRC of 4 bits. *)
PartData == {<<>>, <<{0, 3}>>, <<{7}, {1, 2}>>, <<{0}, {}, {5, 6}>>}

Checksums == INSTANCE MultipartChecksum WITH
  Width <- 4, Poly <- {2, 3}, Datas <- PartData,
  Algorithm <- {"CRC32", "CRC64NVME", "SHA256"}, PartNumbers <- {1, 3},
  upload <- v1, parts <- v2, object <- v3

-----------------------------------------------------------------------------
(* Documents of one to three objects, whose elements come in any order. *)
Element(name, text) == [name |-> name, closed |-> FALSE, text |-> text]
Listed ==
  {<<Element("Key", <<1>>)>>, <<Element("Key", <<1, 2>>), Element("VersionId", <<1>>)>>,
   <<Element("VersionId", <<2>>), Element("Key", <<2>>)>>, <<Element("Key", <<>>), Element("Size", <<9>>)>>,
   <<Element("Key", <<1>>), [name |-> "VersionId", closed |-> TRUE, text |-> <<>>], Element("Other", <<1>>)>>,
   <<Element("Size", <<3>>), Element("Key", <<2>>), Element("ETag", <<1>>)>>}
DeleteBodies == UNION {[1 .. n -> Listed] : n \in 1 .. 3}

Batches == INSTANCE DeleteRequest WITH
  Documents <- DeleteBodies, Unreadable <- {<<9>>}, MaxObjects <- 2,
  Locked <- {<<<<2>>, <<2>>>>},
  doc <- v1, events <- v2, inside <- v3, text <- v4, current <- v5, objects <- v6,
  phase <- v7, outcomes <- v8, batch <- v9, results <- v10, answer <- v11

-----------------------------------------------------------------------------
(* Up to two policies of one statement, or one of two, with patterns that need backtracking. *)
Grants(effect, action, resource) == [effect |-> effect, action |-> action, resource |-> resource]
Patterns ==
  {<<1>>, <<7, 5>>, <<7, 5, 4, 1>>, <<7, 5, 4, 1, 6, 5>>, <<7, 2, 1, 6, 1>>, <<7, 1, 5, 2, 5, 1>>, <<7, 1, 6>>}
Single == {Grants(e, {<<1, "GetObject">>, <<2, "*">>}, <<p>>) : e \in {"Allow", "Deny"}, p \in Patterns}
PolicyDocs ==
  {<<>>} \union {<<<<s>>, <<t>>>> : s \in Single, t \in Single}
  \union {<<<<Grants("Allow", {<<1, "*">>}, <<<<7, 5>>, p>>),
             Grants("Deny", {<<1, "DeleteObject">>}, <<<<7, 1, 6, 1>>>>)>>>> : p \in Patterns}

Policy == INSTANCE AccessPolicy WITH
  Star <- 1, Quest <- 2, Slash <- 4, All <- 7,
  Paths <- {<<<<>>, <<>>>>, <<<<5>>, <<>>>>, <<<<5>>, <<5, 6, 5>>>>},
  Policies <- PolicyDocs, Moments <- {0, 1, 2, 4}, Expiries <- 1 .. 4, MaxExpires <- 3,
  Window <- 1,
  q <- v1, pc <- v2, docs <- v3, i <- v4, j <- v5, k <- v6, found <- v7, pat <- v8,
  txt <- v9, pi <- v10, ti <- v11, spi <- v12, sti <- v13, decision <- v14

-----------------------------------------------------------------------------
(* Configuration documents with every element present, absent, empty or wrong. *)
FilterElements == {{}} \union {{[and |-> {}, tag |-> {}, prefix |-> p]} : p \in {{}, {0}, {1}}}
  \union {{[and |-> {}, tag |-> {1}, prefix |-> {}]}}
  \union {{[and |-> {[prefix |-> p, tags |-> t]}, tag |-> {}, prefix |-> {}]} : p \in {{}, {1}}, t \in {{}, {1, 2}}}
LifecycleBlank == [id |-> {}, status |-> "Enabled", filter |-> {}, prefix |-> {}, expiration |-> {}, noncurrent |-> {}, abort |-> {}]
AfterOneDay == {[days |-> {1}, date |-> {}, marker |-> {}]}
LifecycleRules == {[LifecycleBlank EXCEPT !.filter = f, !.expiration = AfterOneDay, !.id = {1}] : f \in FilterElements}
  \union {[LifecycleBlank EXCEPT !.expiration = {e}, !.id = i, !.status = s] :
            e \in {[days |-> {0}, date |-> {}, marker |-> {}], [days |-> {}, date |-> {3}, marker |-> {}],
                   [days |-> {}, date |-> {}, marker |-> {TRUE}], [days |-> {}, date |-> {}, marker |-> {}]},
            i \in {{}, {1}, {2}}, s \in {"Enabled", "Disabled", "Other"}}
  \union {[LifecycleBlank EXCEPT !.noncurrent = {[days |-> d, newer |-> n]}] : d \in {{}, {0}, {1}}, n \in {{}, {2}}}
  \union {[LifecycleBlank EXCEPT !.abort = a] : a \in {{}, {{}}, {{0}}, {{2}}}}
LifecycleSent == {<<>>} \union {<<r>> : r \in LifecycleRules} \union {<<[LifecycleBlank EXCEPT !.abort = {{2}}, !.id = {1}], r>> : r \in LifecycleRules}
ReplicationBlank == [id |-> {}, status |-> "Enabled", priority |-> {}, filter |-> {}, prefix |-> {}, bucket |-> [arn |-> FALSE, name |-> 1],
           endpoint |-> {1}, region |-> {}, credential |-> {1}, markers |-> {}]
ReplicationRules == {[ReplicationBlank EXCEPT !.filter = f, !.prefix = p] : f \in FilterElements, p \in {{}}}
  \union {[ReplicationBlank EXCEPT !.prefix = p] : p \in {{0}, {1}}}
  \union {[ReplicationBlank EXCEPT !.bucket = [arn |-> a, name |-> n], !.endpoint = e, !.credential = c] :
            a \in BOOLEAN, n \in {0, 1}, e \in {{}, {1}}, c \in {{}, {1}}}
  \union {[ReplicationBlank EXCEPT !.status = s, !.markers = m, !.region = g, !.priority = p] :
            s \in {"Enabled", "Disabled", "Other"}, m \in {{}, {"Disabled"}, {"Other"}}, g \in {{}, {"eu"}}, p \in {{}, {2}}}
ReplicationSent == {<<r>> : r \in ReplicationRules} \union {<<[ReplicationBlank EXCEPT !.id = {1}], [r EXCEPT !.id = i]>> : r \in {q \in ReplicationRules : q.filter # {}}, i \in {{1}, {2}}}
TopicBlank == [id |-> {1}, list |-> "Topic", arn |-> {1}, events |-> {<<"Created", "*">>}, filter |-> {}, enabled |-> {}, connector |-> {}]
TopicFilters == {{}, {{}}} \union {{{R}} : R \in {{}, {[name |-> "prefix", value |-> 1], [name |-> "Suffix", value |-> 2]},
                            {[name |-> "infix", value |-> 1]}, {[name |-> "prefix", value |-> 0]}}}
TopicRules == {[TopicBlank EXCEPT !.filter = f, !.enabled = e] : f \in TopicFilters, e \in {{}, {"true"}, {"false"}}}
  \union {[TopicBlank EXCEPT !.events = e, !.connector = c] :
            e \in {{}, {<<"Created", "Put">>}, {<<"Removed", "Delete">>, <<"Created", "Copy">>}, {<<"Created", "Gone">>}}, c \in {{}, {"kafka"}, {"unknown"}}}
  \union {[TopicBlank EXCEPT !.arn = a, !.id = i] : a \in {{}, {0}, {2}}, i \in {{}, {0}, {1}}}
NotificationSent == {<<>>} \union {<<r>> : r \in TopicRules} \union {<<[TopicBlank EXCEPT !.id = i, !.list = "Queue", !.arn = {3}], r>> : r \in TopicRules, i \in {{}, {1}}}
LockSent == {[enabled |-> e, retention |-> {}] : e \in {{}, {"Enabled"}, {"Other"}}}
  \union {[enabled |-> {"Enabled"}, retention |-> {[mode |-> m, days |-> d, years |-> y]}] :
            m \in {{}, {"GOVERNANCE"}, {"OTHER"}}, d \in {{}, {0}, {3}}, y \in {{}, {0}, {1}}}
RetentionSent == {[mode |-> m, until |-> u] : m \in {{}, {"COMPLIANCE"}, {"OTHER"}}, u \in {{}, {0}, {5}}}
HoldSent == {{}, {"ON"}, {"OFF"}, {"on"}}
TagsSent == UNION {[1..n -> {0, 1, 2} \X {1, 2}] : n \in 0..3}
CompressionSent == [algorithm : {{}, {"zstd"}, {"other"}}, level : {{}, {3}}]
AlgorithmSent == {{}, {"AES256"}, {"other"}}
StatusSent == {{}, {"Enabled"}, {"Suspended"}, {"other"}}
SomeObjects == [under : {{}, {1}, {2}, {1, 2}}, tags : {{}, {1}, {1, 2}}]

Configs == INSTANCE S3Config WITH
  Kind <- {"lifecycle", "replication", "notification", "lock", "retention", "hold", "tagging", "compression",
         "encryption", "versioning"},
  LifecycleDocs <- LifecycleSent, ReplicationDocs <- ReplicationSent,
  NotificationDocs <- NotificationSent, LockDocs <- LockSent,
  RetentionDocs <- RetentionSent, HoldDocs <- HoldSent, TagDocs <- TagsSent,
  CompressionDocs <- CompressionSent, AlgorithmDocs <- AlgorithmSent,
  StatusDocs <- StatusSent, EncryptByDefault <- TRUE, Subjects <- SomeObjects,
  kind <- v1, asked <- v2, stored <- v3, view <- v4, viewed <- v5

-----------------------------------------------------------------------------
(* An export of everything there is, imported into an empty or a used instance. *)
BucketEntries ==
  {"versioning", "encryption_algorithm", "lifecycle_rules", "object_lock", "region", "notification_configuration",
   "tags"}
Entries == {"setting", "node_id", "user", "team", "grant", "credential", "bucket"} \union BucketEntries
Instance(there, value, links) ==
  [has |-> [x \in Entries \union {"compression", "replication_configuration"} |->
              IF x \in there THEN value ELSE 0],
   links |-> links]
SourceInstances == {Instance(Entries, 1, {"member", "user_grant", "team_grant"})}
TargetInstances ==
  {Instance({"node_id"} \union S, 2, {}) :
     S \in {{}, {"setting", "user", "bucket", "tags", "versioning", "credential"}}}
Export(sections, secrets, edited) == [sections |-> sections, include_secrets |-> secrets, edited |-> edited]
ExportedDocs ==
  {Export({"settings", "auth", "credentials", "buckets", "bucket_configs"}, s, FALSE) : s \in BOOLEAN}
  \union {Export({"auth", "credentials"}, TRUE, TRUE)}

Transfer == INSTANCE ConfigTransfer WITH
  Sources <- SourceInstances, Targets <- TargetInstances,
  Modes <- {"skip", "overwrite", "dry_run"}, Documents <- ExportedDocs, MaxFaults <- 1,
  MaxOthers <- 1,
  source <- v1, doc <- v2, target <- v3, had <- v4, import <- v5, report <- v6,
  faults <- v7, others <- v8

-----------------------------------------------------------------------------
(* Two administrators and the two keys of root. *)
Keys == INSTANCE Identity WITH
  User <- {"root", "u"}, Root <- "root", Key <- {k0, k1}, RootKey <- {k0, k1}, Team <- {},
  Grant <- {}, Admin <- {1, 2}, Request <- {}, NoKey <- Nil, MaxWrites <- 2,
  Overlap <- FALSE,
  db <- v1, fresh <- v2, cache <- v3, generation <- v4, admin <- v5, req <- v6,
  foreign <- v7, since <- v8

-----------------------------------------------------------------------------
(* Two readers and a writer of one row. *)
Rowcache == INSTANCE MetadataCache WITH
  Reader <- {1, 2}, Writer <- {3}, MaxRow <- 1, Ttl <- 2, ReadTime <- 1,
  row <- v1, entry <- v2, reader <- v3, writer <- v4, staleness <- v5

-----------------------------------------------------------------------------
SidesInit ==
  /\ Init
  /\ \/ Picks("users", 0)
     \/ /\ fresh = {}
        /\ \/ Objects!Init /\ Picks("objects", 11)
           \/ Protected!Init /\ Picks("protected", 11)
           \/ Versions!Init /\ Picks("versions", 11)
           \/ Settings!Init /\ Picks("settings", 9)
           \/ Caches!Init /\ Picks("caches", 9)
           \/ Folders!Init /\ Picks("folders", 6)
           \/ Walks!Init /\ Picks("walks", 6)
           \/ Bodies!Init /\ Picks("bodies", 10)
           \/ Reads!Init /\ Picks("reads", 8)
           \/ Checksums!Init /\ Picks("checksums", 3)
           \/ Batches!Init /\ Picks("batches", 11)
           \/ Policy!Init /\ Picks("policy", 14)
           \/ Configs!Init /\ Picks("configs", 5)
           \/ Transfer!Init /\ Picks("transfer", 8)
           \/ Keys!Init /\ Picks("keys", 8)
           \/ Rowcache!Init /\ Picks("rowcache", 5)

Guest(p, n) == Keeps(p, n) /\ UNCHANGED vars

SidesNext ==
  \/ Keeps("users", 0) /\ Next
  \/ Guest("objects", 11) /\ Objects!Next
  \/ Guest("protected", 11) /\ Protected!Next
  \/ Guest("versions", 11) /\ Versions!Next
  \/ Guest("settings", 9) /\ Settings!Next
  \/ Guest("caches", 9) /\ Caches!Next
  \/ Guest("folders", 6) /\ Folders!Next
  \/ Guest("walks", 6) /\ Walks!Next
  \/ Guest("bodies", 10) /\ Bodies!Next
  \/ Guest("reads", 8) /\ Reads!Next
  \/ Guest("checksums", 3) /\ Checksums!Next
  \/ Guest("batches", 11) /\ Batches!Next
  \/ Guest("policy", 14) /\ Policy!Next
  \/ Guest("configs", 5) /\ Configs!Next
  \/ Guest("transfer", 8) /\ Transfer!Next
  \/ Guest("keys", 8) /\ Keys!Next
  \/ Guest("rowcache", 5) /\ Rowcache!Next

Sides == SidesInit /\ [][SidesNext]_all

-----------------------------------------------------------------------------
\* The type invariant of each component.
TypesOK == 
  /\ part = "users" => TypeOK
  /\ part = "objects" => Objects!TypeOK
  /\ part = "protected" => Protected!TypeOK
  /\ part = "versions" => Versions!TypeOK
  /\ part = "settings" => Settings!TypeOK
  /\ part = "caches" => Caches!TypeOK
  /\ part = "folders" => Folders!TypeOK
  /\ part = "walks" => Walks!TypeOK
  /\ part = "bodies" => Bodies!TypeOK
  /\ part = "reads" => Reads!TypeOK
  /\ part = "checksums" => Checksums!TypeOK
  /\ part = "batches" => Batches!TypeOK
  /\ part = "policy" => Policy!TypeOK
  /\ part = "configs" => Configs!TypeOK
  /\ part = "transfer" => Transfer!TypeOK
  /\ part = "keys" => Keys!TypeOK
  /\ part = "rowcache" => Rowcache!TypeOK

\* Whatever requests overlap and wherever one of them fails, the row of a key names a
\* blob that is on disk, a blob that no row names is on its way to be deleted, a
\* conditional write replaced the row it was conditional on, an object has no tags of
\* the one it replaced, and a cached row is the stored one, or was at most a time to
\* live ago.
ObjectIsSound == 
  /\ part = "objects" => Objects!RowHasBlob /\ Objects!NoBlobForgotten /\ Objects!NoLostUpdate /\ Objects!TagsNotInherited
  /\ part = "protected" => Protected!RowHasBlob /\ Protected!NoBlobForgotten /\ Protected!NoLostUpdate /\ Protected!TagsNotInherited
  /\ part = "versions" => Versions!RowHasBlob /\ Versions!NoBlobForgotten /\ Versions!NoLostUpdate /\ Versions!TagsNotInherited
  /\ part = "rowcache" => Rowcache!StalenessBounded /\ Rowcache!FreshUnlessRaced

\* The rules in force are the ones the stored documents ask for, what an answered call
\* has set is what later requests are served by (but for the time a cached flag may
\* live), a bucket with Object Lock keeps its versioning, and an import that reports no
\* error has brought all that the document carries, and nothing else.
SettingsInForce == 
  /\ part = "settings" => Settings!SettingTakesEffect /\ Settings!LockedIsVersioned
  /\ part = "caches" => Caches!SettingTakesEffect /\ Caches!LockedIsVersioned
  /\ part = "configs" => Configs!WhatWasAsked
  /\ part = "transfer" => Transfer!TransferIsComplete /\ Transfer!NothingMadeUp

\* What is stored is what the client sent, and a body that arrives as it was signed is
\* stored; ranges and parts are the bytes that were asked for, the parts are all listed
\* once and the checksum of an upload is that of its bytes; a batch delete does to each
\* object what the document says and answers each with its own outcome; a walk through
\* all pages of a listing shows every row that was there all the time, and none twice.
RequestsAreExact == 
  /\ part = "bodies" => Bodies!IntactIsStored /\ Bodies!StoredIsSent
  /\ part = "reads" => Reads!RangeIsServed /\ Reads!PartsTile /\ Reads!PartsListedOnce
  /\ part = "checksums" => Checksums!ObjectChecksumIsTrue
  /\ part = "batches" => Batches!DeletesAsListed /\ Batches!OutcomesMatch
  /\ part = "folders" => Folders!WalkIsComplete /\ Folders!ShownOnce
  /\ part = "walks" => Walks!WalkIsComplete /\ Walks!ShownOnce

\* A request is allowed exactly when the policies say so, through every door alike;
\* two administrators who remove keys of root, one after the other, leave it one.
AccessIsRight == 
  /\ part = "keys" => Keys!CacheCoherent /\ Keys!RootReachable
  /\ part = "policy" => Policy!DecisionIsRight /\ Policy!DoorsAgree

\* No delete removes a version that retention or a legal hold protects, but one that
\* was checked before the protection was set; a conditional GET never lets a client
\* keep a copy of another object; a configuration that is read and put back is what it
\* was; an import that skips what exists changes nothing that existed but the tags.
RequestStepsHold == [][
  /\ part = "objects" => Objects!LockBindsDeletesStep
  /\ part = "protected" => Protected!LockBindsDeletesStep
  /\ part = "versions" => Versions!LockBindsDeletesStep
  /\ part = "reads" => Reads!NeverStaleStep
  /\ part = "configs" => Configs!PutBackRestoresStep
  /\ part = "transfer" => Transfer!SkipKeepsStep]_all

=============================================================================
