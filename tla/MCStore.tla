------------------------------ MODULE MCStore -------------------------------
(****************************************************************************)
(* The store of one node: the rows of a bucket with versions on several nodes*)
(* (the module this one extends), the files and the tables underneath, the *)
(* caches above them and the tools that rewrite them.                      *)
(****************************************************************************)
EXTENDS VersionedBucket, SideBySide

CONSTANTS u, Nil, Partial

all == <<vars, sides>>

-----------------------------------------------------------------------------
(* A multipart upload, three requests on it and the garbage collector. *)
Uploads == INSTANCE Multipart WITH
  Request <- 1 .. 3, Upload <- {u}, PartNo <- {1}, Grace <- 1, UploadTime <- 0,
  ScanTime <- 0, ReplaceListed <- FALSE,
  created <- v1, uploads <- v2, parts <- v3, object <- v4, files <- v5, age <- v6,
  sidecars <- v7, composite <- v8, req <- v9, gc <- v10

-----------------------------------------------------------------------------
(* Two blobs, two keys, two crashes of the tool. *)
Rewrites == INSTANCE InplaceRewrite WITH
  Blobs <- {1, 2}, Dek <- {1, 2},
  Command <- {"compress", "encrypt", "decrypt", "decompress"}, None <- Nil,
  Partial <- Partial, Torn <- FALSE, MaxFaults <- 2,
  pair <- v1, ondisk <- v2, row <- v3, marker <- v4, tool <- v5, faults <- v6

-----------------------------------------------------------------------------
(* Bodies around the sizes of a chunk and of a batch of chunks. *)
Codec == INSTANCE BlobCodec WITH
  Sizes <- {0, 3, 9}, Pieces <- {1, 4, 9}, EncChunk <- 2, BatchFactor <- 1,
  PipelineDepth <- 2, CompChunk <- 2, MinSize <- 3, MaxBlobs <- 2, MaxCuts <- 1,
  encrypting <- v1, put <- v2, blobs <- v3, object <- v4, cuts <- v5

-----------------------------------------------------------------------------
(* fsck on a node that is serving requests. *)
Repair == INSTANCE Fsck WITH
  Key <- {1}, MaxBlob <- 2, MaxDamage <- 1, Cluster <- FALSE,
  Server <- {"put", "part", "complete", "delete"},
  rows <- v1, parts <- v2, upload <- v3, file <- v4, side <- v5, next <- v6, req <- v7,
  fsck <- v8, damage <- v9

-----------------------------------------------------------------------------
(* fsck on a node whose blobs may be on a peer. *)
Replica == INSTANCE Fsck WITH
  Key <- {1, 2}, MaxBlob <- 2, MaxDamage <- 1, Cluster <- TRUE,
  Server <- {"put", "part", "recover"},
  rows <- v1, parts <- v2, upload <- v3, file <- v4, side <- v5, next <- v6, req <- v7,
  fsck <- v8, damage <- v9

-----------------------------------------------------------------------------
(* Two jobs after one another, one PUT, no fault. *)
Asked(type, mode, force) == [type |-> type, mode |-> mode, force |-> force]
AskedJobs ==
  {Asked("noop", "live", FALSE), Asked("encrypt", "live", FALSE), Asked("encrypt", "maintenance", FALSE),
   Asked("migrate-db", "maintenance", FALSE), Asked("migrate-db", "maintenance", TRUE)}

Work == INSTANCE MaintenanceJobs WITH
  Tables <- <<{1}, {2}>>, ObjectTable <- 2, Evidence <- {2}, Jobs <- AskedJobs, Items <- 1,
  MaxJobs <- 2, MaxPuts <- 1, MaxFaults <- 0, MaxCrashes <- 0, Overlap <- FALSE,
  job <- v1, drain <- v2, w <- v3, call <- v4, inflight <- v5, src <- v6, dst <- v7,
  file <- v8, acked <- v9, faults <- v10, crashes <- v11

-----------------------------------------------------------------------------
(* One encryption of two objects, paused, resumed and restarted. *)
Pauses == INSTANCE MaintenanceJobs WITH
  Tables <- <<{1, 2}>>, ObjectTable <- 1, Evidence <- {1},
  Jobs <- {Asked("encrypt", "live", FALSE)}, Items <- 1, MaxJobs <- 1, MaxPuts <- 1,
  MaxFaults <- 0, MaxCrashes <- 1, Overlap <- FALSE,
  job <- v1, drain <- v2, w <- v3, call <- v4, inflight <- v5, src <- v6, dst <- v7,
  file <- v8, acked <- v9, faults <- v10, crashes <- v11

-----------------------------------------------------------------------------
(* Three PostgreSQL transactions on one key. *)
OneKey == INSTANCE PgStore WITH
  Tx <- 1 .. 3, Key <- {1}, Hash <- <<1>>, Op <- {"put", "create", "deletever"},
  Versionings <- {"Enabled"}, Modes <- {"cluster"}, Stamp <- {}, Overlap <- FALSE,
  rows <- v1, versioning <- v2, mode <- v3, counter <- v4, local <- v5, clock <- v6,
  lock <- v7, upload <- v8, taken <- v9, tx <- v10, cursor <- v11, got <- v12

-----------------------------------------------------------------------------
(* Two PostgreSQL transactions on two keys, every operation. *)
TwoKeys == INSTANCE PgStore WITH
  Tx <- 1 .. 2, Key <- {1, 2}, Hash <- <<1, 2>>,
  Op <- {"put", "create", "delete", "touch", "apply", "unversion", "batch", "complete", "abort"},
  Versionings <- {"Unversioned", "Suspended"}, Modes <- {"single", "cluster"},
  Stamp <- {1}, Overlap <- FALSE,
  rows <- v1, versioning <- v2, mode <- v3, counter <- v4, local <- v5, clock <- v6,
  lock <- v7, upload <- v8, taken <- v9, tx <- v10, cursor <- v11, got <- v12

-----------------------------------------------------------------------------
(* Two processes on the control-plane tables of one database. *)
StartTables == {{"users", "teams", "grants"} \union R : R \in {{}, {"credentials", "team_members", "user_grants", "team_grants"}}} \union {{}}

Rows == INSTANCE PgControl WITH
  Proc <- {1, 2}, Starts <- StartTables, Peers <- FALSE, MaxWrites <- 3,
  rows <- v1, tx <- v2, clock <- v3, snap <- v4, there <- v5

-----------------------------------------------------------------------------
(* The same tables, written by a peer too. *)
Peer == INSTANCE PgControl WITH
  Proc <- {1}, Starts <- StartTables, Peers <- TRUE, MaxWrites <- 2,
  rows <- v1, tx <- v2, clock <- v3, snap <- v4, there <- v5

-----------------------------------------------------------------------------
SidesInit ==
  /\ Init
  /\ \/ Picks("versions", 0)
     \/ Uploads!Init /\ Picks("uploads", 10)
     \/ Rewrites!Init /\ Picks("rewrites", 6)
     \/ Codec!Init /\ Picks("codec", 5)
     \/ Repair!Init /\ Picks("repair", 9)
     \/ Replica!Init /\ Picks("replica", 9)
     \/ Work!Init /\ Picks("jobs", 11)
     \/ Pauses!Init /\ Picks("pauses", 11)
     \/ OneKey!Init /\ Picks("one", 12)
     \/ TwoKeys!Init /\ Picks("two", 12)
     \/ Rows!Init /\ Picks("rows", 5)
     \/ Peer!Init /\ Picks("peer", 5)

Guest(p, n) == Keeps(p, n) /\ UNCHANGED vars

SidesNext ==
  \/ Next /\ Keeps("versions", 0)
  \/ Guest("uploads", 10) /\ Uploads!Next
  \/ Guest("rewrites", 6) /\ Rewrites!Next
  \/ Guest("codec", 5) /\ Codec!Next
  \/ Guest("repair", 9) /\ Repair!Next
  \/ Guest("replica", 9) /\ Replica!Next
  \/ Guest("jobs", 11) /\ Work!Next
  \/ Guest("pauses", 11) /\ Pauses!Next
  \/ Guest("one", 12) /\ OneKey!Next
  \/ Guest("two", 12) /\ TwoKeys!Next
  \/ Guest("rows", 5) /\ Rows!Next
  \/ Guest("peer", 5) /\ Peer!Next

Sides == SidesInit /\ [][SidesNext]_all

-----------------------------------------------------------------------------
\* The type invariant of each component.
TypesOK == 
  /\ TypeOK
  /\ part = "uploads" => Uploads!TypeOK
  /\ part = "rewrites" => Rewrites!TypeOK
  /\ part = "codec" => Codec!TypeOK
  /\ part = "repair" => Repair!TypeOK
  /\ part = "replica" => Replica!TypeOK
  /\ part = "jobs" => Work!TypeOK
  /\ part = "pauses" => Pauses!TypeOK
  /\ part = "one" => OneKey!TypeOK
  /\ part = "two" => TwoKeys!TypeOK
  /\ part = "rows" => Rows!TypeOK
  /\ part = "peer" => Peer!TypeOK

\* Whatever a row names can be read as it was put: while uploads complete and abort
\* and the collector runs, at any moment at which a rewrite may be interrupted, whole
\* or in part through compression and encryption (a cut file is noticed), and after a
\* repair or a recovery from sidecars.
StoredIsReadable == 
  /\ part = "uploads" => Uploads!RowsReadable /\ Uploads!RowAfterSidecar
  /\ part = "rewrites" => Rewrites!ServedPairsMatch /\ Rewrites!Recoverable
  /\ part = "codec" => Codec!ReadsWhatWasPut /\ Codec!CutIsNoticed
  /\ part = "repair" => Repair!RepairIsComplete
  /\ part = "replica" => Replica!RecoveredIsReadable

\* A job that rewrites objects never brings back what a PUT replaced, at most one is
\* active, and S3 requests are kept out while a maintenance job works on the store.
JobsKeepData == 
  /\ part = "jobs" => Work!ServedIsLastPut /\ Work!OneActive /\ Work!DrainedWhileWorking
  /\ part = "pauses" => Pauses!ServedIsLastPut /\ Pauses!OneActive /\ Pauses!DrainedWhileWorking

\* In PostgreSQL a key has one latest version, a peer that reads the manifest passes
\* no row still in flight, a multipart object is installed by the transaction that took
\* its parts, memberships and grants have both their ends, and rows of one timestamp
\* are the same row.
PgRowsConsistent == 
  /\ part = "one" => OneKey!OneLatest /\ OneKey!CursorSkipsNothing /\ OneKey!CompletedOwnsParts
  /\ part = "two" => TwoKeys!OneLatest /\ TwoKeys!CursorSkipsNothing /\ TwoKeys!CompletedOwnsParts
  /\ part = "rows" => Rows!LinksHaveEnds /\ Rows!SameStampSameValue
  /\ part = "peer" => Peer!LinksHaveEnds /\ Peer!SameStampSameValue

\* No repair step takes away what can be read; a migration or an encryption completes
\* only when nothing is left to copy or to encrypt; a conditional create commits only
\* when the key has no object at that moment; a row that others refer to is deleted
\* together with them.
StepsAreWhole == [][
  /\ part = "repair" => Repair!RepairHarmsNothingStep
  /\ part = "replica" => Replica!RepairHarmsNothingStep
  /\ part = "jobs" => Work!MigratedIsCompleteStep /\ Work!EncryptedIsCompleteStep
  /\ part = "pauses" => Pauses!MigratedIsCompleteStep /\ Pauses!EncryptedIsCompleteStep
  /\ part = "one" => OneKey!CreateHoldsStep
  /\ part = "two" => TwoKeys!CreateHoldsStep
  /\ part = "rows" => Rows!DeleteIsWholeStep
  /\ part = "peer" => Peer!DeleteIsWholeStep]_all

=============================================================================
