----------------------------- MODULE MCConverge -----------------------------
(****************************************************************************)
(* What the nodes of a cluster come to once the faults stop: the same row, one*)
(* leader, an open gate, the same control plane.                           *)
(****************************************************************************)
EXTENDS Integers, SideBySide

CONSTANTS n1, n2, Nil, NoNode

all == sides

-----------------------------------------------------------------------------
(* Two PUTs of the same instant, on two nodes that pull from each other. *)
Row == INSTANCE ObjectReplication WITH
  Node <- {n1, n2}, None <- Nil, Put <- {1, 2}, Recrypt <- {}, Delete <- {}, Lock <- {},
  Quorum <- 2, Overlap <- FALSE, SameInstant <- TRUE, Pulling <- {n1, n2}, MaxRestarts <- 0,
  clock <- v1, row <- v2, seq <- v3, disk <- v4, req <- v5, msgs <- v6, hwm <- v7,
  pull <- v8, restarts <- v9

-----------------------------------------------------------------------------
(* Two members; node 2 may move from endpoint 20 to 21. *)
Members == INSTANCE Membership WITH
  Node <- {1, 2}, NoNode <- NoNode, Endpoint <- {10, 20, 21},
  Kind <- [n \in {1, 2} |-> "member"],
  Address <- [e \in {10, 20, 21} |-> IF e % 10 = 0 THEN e \div 10 ELSE NoNode],
  Quorum <- 2, Size <- 3, DeadAfter <- 2, PruneAfter <- 0, Late <- {},
  Reconciling <- {1, 2}, MaxTime <- 2, MaxFaults <- 1,
  clock <- v1, up <- v2, serving <- v3, addr <- v4, known <- v5, round <- v6, peers <- v7,
  synced <- v8, faults <- v9

-----------------------------------------------------------------------------
(* Two operations on a bucket and its tags. *)
Control == INSTANCE ControlPlane WITH
  Node <- {n1, n2}, Families <- {<<"bucket", "bucket_tags">>},
  Lossy <- {<<"user", "user_grant">>, <<"bucket", "server_config">>}, MaxOps <- 2,
  MaxFaults <- 0, Overlap <- FALSE,
  family <- v1, row <- v2, tomb <- v3, clock <- v4, msgs <- v5, pending <- v6, merge <- v7,
  last <- v8, ops <- v9, faults <- v10

-----------------------------------------------------------------------------
SidesInit ==
  \/ Row!Init /\ Picks("row", 9)
  \/ Members!Init /\ Picks("members", 9)
  \/ Control!Init /\ Picks("control", 10)

SidesNext ==
  \/ Keeps("row", 9) /\ Row!Next
  \/ Keeps("members", 9) /\ Members!Next
  \/ Keeps("control", 10) /\ Control!Next

(* Every node keeps probing, pulling from its peers and working on what it pulled. *)
Fair ==
  /\ \A n \in {n1, n2} :
       /\ \A p \in {n1, n2} \ {n} : WF_all(Keeps("row", 9) /\ Row!FetchManifest(n, p))
       /\ WF_all(Keeps("row", 9) /\ (Row!ApplyManifest(n) \/ Row!RepairBlob(n)))
  /\ \A n \in {1, 2} :
       /\ WF_all(Keeps("members", 9) /\ Members!Serve(n))
       /\ WF_all(Keeps("members", 9) /\ Members!Probe(n))
       /\ WF_all(Keeps("members", 9) /\ Members!Integrate(n))
       /\ \A m \in {1, 2} \ {n} : WF_all(Keeps("members", 9) /\ Members!ReconcileWith(n, m))
  /\ WF_all(Keeps("control", 10) /\ Control!Progress)

Sides == SidesInit /\ [][SidesNext]_all /\ Fair

-----------------------------------------------------------------------------
\* When no more is written, the nodes come to hold the same row, and its blob
\* wherever a node has it (run_pass, repair_missing_blobs), and the same
\* control-plane rows (merge_control_from).
EventuallyConverged == 
  /\ <>[](part = "row" => Row!Converged)
  /\ (part = "control" /\ Control!AllAsked) ~> (part = "control" /\ Control!Settled)

\* When the faults stop, the node with the lowest id among the running members leads,
\* alone (is_worker_leader), a node admits writes exactly when a quorum runs
\* (write_gate), and every running member turns ready (caught_up).
EventuallyInService == 
  <>[](part = "members" => Members!OneLeader /\ Members!Admits /\ Members!AllReady)

=============================================================================
