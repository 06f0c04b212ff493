----------------------------- MODULE MCRecovery -----------------------------
(****************************************************************************)
(* What has begun comes to an end: the group commit of the metadata store (the*)
(* module this one extends), uploads and their garbage, interrupted rewrites,*)
(* transactions, encoding, fsck, jobs, listings, authorisation.            *)
(****************************************************************************)
EXTENDS GroupCommit, Integers, SideBySide

CONSTANTS Nil, Partial, uA

all == <<vars, sides>>

-----------------------------------------------------------------------------
(* Two requests on an upload, and the garbage collector. *)
Uploads == INSTANCE Multipart WITH
  Request <- {1, 2}, Upload <- {uA}, PartNo <- {1}, Grace <- 2, UploadTime <- 0,
  ScanTime <- 1, ReplaceListed <- FALSE,
  created <- v1, uploads <- v2, parts <- v3, object <- v4, files <- v5, age <- v6,
  sidecars <- v7, composite <- v8, req <- v9, gc <- v10

-----------------------------------------------------------------------------
(* One blob, two crashes. *)
Rewrites == INSTANCE InplaceRewrite WITH
  Blobs <- {1}, Dek <- {1, 2}, Command <- {"compress", "encrypt", "decrypt", "decompress"},
  None <- Nil, Partial <- Partial, Torn <- FALSE, MaxFaults <- 2,
  pair <- v1, ondisk <- v2, row <- v3, marker <- v4, tool <- v5, faults <- v6

-----------------------------------------------------------------------------
(* Two transactions that lock two keys and an upload. *)
Transactions == INSTANCE PgStore WITH
  Tx <- {1, 2}, Key <- {1, 2}, Hash <- <<1, 2>>,
  Op <- {"put", "batch", "complete", "abort"}, Versionings <- {"Unversioned"},
  Modes <- {"single", "cluster"}, Stamp <- {}, Overlap <- FALSE,
  rows <- v1, versioning <- v2, mode <- v3, counter <- v4, local <- v5, clock <- v6,
  lock <- v7, upload <- v8, taken <- v9, tx <- v10, cursor <- v11, got <- v12

-----------------------------------------------------------------------------
(* A body of several batches, in pieces of any size. *)
Codec == INSTANCE BlobCodec WITH
  Sizes <- {0, 9}, Pieces <- {1, 4, 9}, EncChunk <- 2, BatchFactor <- 2,
  PipelineDepth <- 2, CompChunk <- 2, MinSize <- 3, MaxBlobs <- 2, MaxCuts <- 0,
  encrypting <- v1, put <- v2, blobs <- v3, object <- v4, cuts <- v5

-----------------------------------------------------------------------------
(* fsck against a server that keeps writing. *)
Repair == INSTANCE Fsck WITH
  Key <- {1}, MaxBlob <- 2, MaxDamage <- 1, Cluster <- FALSE, Server <- {"put", "part"},
  rows <- v1, parts <- v2, upload <- v3, file <- v4, side <- v5, next <- v6, req <- v7,
  fsck <- v8, damage <- v9

-----------------------------------------------------------------------------
(* One job, one fault, one crash. *)
AskedJobs ==
  {[type |-> "encrypt", mode |-> "live", force |-> FALSE],
   [type |-> "migrate-db", mode |-> "maintenance", force |-> FALSE]}

Jobs == INSTANCE MaintenanceJobs WITH
  Tables <- <<{1}, {2}>>, ObjectTable <- 2, Evidence <- {2}, Jobs <- AskedJobs, Items <- 1,
  MaxJobs <- 1, MaxPuts <- 1, MaxFaults <- 1, MaxCrashes <- 1, Overlap <- FALSE,
  job <- v1, drain <- v2, w <- v3, call <- v4, inflight <- v5, src <- v6, dst <- v7,
  file <- v8, acked <- v9, faults <- v10, crashes <- v11

-----------------------------------------------------------------------------
(* Keys a/, a/a and aa, with a write during the walk. *)
Walks == INSTANCE Listing WITH
  Key <- {<<2, 1>>, <<2, 1, 2>>, <<2, 2>>}, Slash <- 1, MaxChar <- 9, Kind <- {"versions"},
  Prefixes <- {<<>>}, PageSizes <- {1}, Batch <- 2, MaxWrites <- 1,
  rows <- v1, clock <- v2, writes <- v3, walk <- v4, out <- v5, stayed <- v6

-----------------------------------------------------------------------------
(* A policy of two statements, with patterns that need backtracking. *)
PolicyDocs ==
  {<<>>} \union
  {<<<<[effect |-> "Allow", action |-> {<<1, "*">>}, resource |-> <<<<7, 5>>, p>>],
       [effect |-> "Deny", action |-> {<<1, "DeleteObject">>}, resource |-> <<<<7, 1, 6, 1>>>>]>>>> :
     p \in {<<1>>, <<7, 5, 4, 1>>, <<7, 5, 4, 1, 6, 5>>, <<7, 2, 1, 6, 1>>, <<7, 1, 5, 2, 5, 1>>, <<7, 1, 6>>}}

Policy == INSTANCE AccessPolicy WITH
  Star <- 1, Quest <- 2, Slash <- 4, All <- 7, Paths <- {<<<<5>>, <<5, 6, 5>>>>},
  Policies <- PolicyDocs, Moments <- {0, 1, 2, 4}, Expiries <- 1 .. 4, MaxExpires <- 3,
  Window <- 1,
  q <- v1, pc <- v2, docs <- v3, i <- v4, j <- v5, k <- v6, found <- v7, pat <- v8,
  txt <- v9, pi <- v10, ti <- v11, spi <- v12, sti <- v13, decision <- v14

-----------------------------------------------------------------------------
SidesInit ==
  /\ Init
  /\ \/ Picks("commit", 0)
     \/ Uploads!Init /\ Picks("uploads", 10)
     \/ Rewrites!Init /\ Picks("rewrites", 6)
     \/ Transactions!Init /\ Picks("transactions", 12)
     \/ Codec!Init /\ Picks("codec", 5)
     \/ Repair!Init /\ Picks("repair", 9)
     \/ Jobs!Init /\ Picks("jobs", 11)
     \/ Walks!Init /\ Picks("walks", 6)
     \/ Policy!Init /\ Picks("policy", 14)

Guest(p, n) == Keeps(p, n) /\ UNCHANGED vars

SidesNext ==
  \/ Next /\ Keeps("commit", 0)
  \/ Guest("uploads", 10) /\ Uploads!Next
  \/ Guest("rewrites", 6) /\ Rewrites!Next
  \/ Guest("transactions", 12) /\ Transactions!Next
  \/ Guest("codec", 5) /\ Codec!Next
  \/ Guest("repair", 9) /\ Repair!Next
  \/ Guest("jobs", 11) /\ Jobs!Next
  \/ Guest("walks", 6) /\ Walks!Next
  \/ Guest("policy", 14) /\ Policy!Next

(* Whatever has begun is carried on; the tool is run again after a crash. *)
Fair ==
  /\ WF_all(Committer /\ Keeps("commit", 0))
  /\ WF_all(Guest("uploads", 10) /\ Uploads!GcStep) /\ WF_all(Guest("uploads", 10) /\ Uploads!Tick)
  /\ \A r \in {1, 2} : WF_all(Guest("uploads", 10) /\ Uploads!Step(r))
  /\ WF_all(Guest("rewrites", 6) /\ Rewrites!ToolStep) /\ WF_all(Guest("rewrites", 6) /\ Rewrites!Rerun)
  /\ \A p \in {1, 2} : WF_all(Guest("transactions", 12) /\ Transactions!Work(p))
  /\ WF_all(Guest("codec", 5) /\ Codec!Encode)
  /\ WF_all(Guest("repair", 9) /\ Repair!RepairStep)
  /\ WF_all(Guest("jobs", 11) /\ Jobs!Worker) /\ WF_all(Guest("jobs", 11) /\ Jobs!Finishing)
  /\ WF_all(Guest("walks", 6) /\ Walks!ListSteps)
  /\ WF_all(Guest("policy", 14) /\ Policy!Next)

Sides == SidesInit /\ [][SidesNext]_all /\ Fair

-----------------------------------------------------------------------------
\* What is begun ends: a queued write is answered, no transaction waits for ever for
\* the locks of another, the encoding of a body, a repair, a listing that is walked
\* page by page and the matching of a policy come to an end, and a job ends or pauses.
\* So does what an interruption left behind: a blob without a row is deleted or gets
\* one, a rewrite is finished and its marker removed, and S3 is served again once no
\* maintenance job is active.
AllWorkEnds == 
  /\ EventuallyAnswered
  /\ \A p \in {1, 2} :
       (part = "transactions" /\ Transactions!Begun(p)) ~> (part = "transactions" /\ Transactions!Over(p))
  /\ (part = "codec" /\ Codec!Encoding) ~> (part = "codec" /\ Codec!Encoded)
  /\ (part = "repair" /\ Repair!Begun) ~> (part = "repair" /\ Repair!Ended)
  /\ (part = "jobs" /\ Jobs!Waiting(1)) ~> (part = "jobs" /\ Jobs!Rests(1))
  /\ (part = "walks" /\ Walks!OnPage) ~> (part = "walks" /\ Walks!Walked)
  /\ <>(part = "policy" => Policy!Decided)
  /\ \A b \in {1, 2} :
       (part = "uploads" /\ Uploads!Left(b)) ~> (part = "uploads" /\ ~Uploads!Orphan(b))
  /\ (part = "rewrites" /\ Rewrites!Marked) ~> (part = "rewrites" /\ Rewrites!Unmarked)
  /\ (part = "jobs" /\ Jobs!Drained) ~> (part = "jobs" /\ Jobs!Released)

=============================================================================
