----------------------------- MODULE MCCluster ------------------------------
(****************************************************************************)
(* The cluster: membership and the write gate (the module this one extends),*)
(* the secret the nodes share, the                                         *)
(* control plane they replicate and the logs they show merged.             *)
(****************************************************************************)
EXTENDS Membership, SideBySide

CONSTANTS n1, n2

all == <<vars, sides>>

-----------------------------------------------------------------------------
(* Two requests between two nodes while the secret is rotated. *)
Secrets == INSTANCE ClusterSecret WITH
  Node <- {n1, n2}, Queries <- {<<>>, <<<<"k", 1>>, <<"k", 2>>>>},
  Extras <- {<<>>, <<<<"nonce", <<0, "v1">>>>, <<"nonce", <<0, "v2">>>>>>}, Window <- 1,
  MaxAge <- 2, MaxSends <- 2,
  file <- v1, conf <- v2, up <- v3, step <- v4, fresh <- v5, req <- v6, reply <- v7,
  result <- v8, sends <- v9

-----------------------------------------------------------------------------
(* Every table beside one that refers to it, two operations, a lost message. *)
Paired ==
  {<<"team", "team_member">>, <<"grant", "team_grant">>,
   <<"credential", "server_config">>, <<"bucket", "bucket_tags">>, <<"upload", "part">>,
   <<"bucket", "server_config">>}

Control == INSTANCE ControlPlane WITH
  Node <- {n1, n2}, Families <- Paired, Lossy <- {<<"bucket", "server_config">>},
  MaxOps <- 2, MaxFaults <- 1, Overlap <- FALSE,
  family <- v1, row <- v2, tomb <- v3, clock <- v4, msgs <- v5, pending <- v6, merge <- v7,
  last <- v8, ops <- v9, faults <- v10

-----------------------------------------------------------------------------
(* A user and what is attached to it, three operations, a lost message. *)
Joins == INSTANCE ControlPlane WITH
  Node <- {n1, n2}, Families <- {<<"user", "user_grant">>},
  Lossy <- {<<"user", "user_grant">>}, MaxOps <- 3, MaxFaults <- 1, Overlap <- FALSE,
  family <- v1, row <- v2, tomb <- v3, clock <- v4, msgs <- v5, pending <- v6, merge <- v7,
  last <- v8, ops <- v9, faults <- v10

-----------------------------------------------------------------------------
(* The logs of two nodes, merged while rows come and go. *)
Views == INSTANCE NodeViews WITH
  Node <- {n1, n2}, Self <- n1, Families <- {"journal", "events"}, Limits <- {1},
  Default <- 2, Cap <- 1, MaxRows <- 2, MaxTouches <- 1, MaxPurges <- 1, MaxFaults <- 1,
  family <- v1, log <- v2, clock <- v3, touches <- v4, purges <- v5, faults <- v6,
  eligible <- v7, query <- v8, answer <- v9, walk <- v10

-----------------------------------------------------------------------------
(* Node n answers at endpoint 10 * n; the last node has a secret of its own. *)
LastIsRogue == [n \in Node |-> IF \A m \in Node : m <= n THEN "rogue" ELSE "member"]
OneAddress == [e \in Endpoint |-> e \div 10]

SidesInit ==
  /\ Init
  /\ \/ Picks("members", 0)
     \/ Secrets!Init /\ Picks("secrets", 9)
     \/ Control!Init /\ Picks("control", 10)
     \/ Joins!Init /\ Picks("joins", 10)
     \/ Views!Init /\ Picks("views", 10)

Guest(p, n) == Keeps(p, n) /\ UNCHANGED vars

SidesNext ==
  \/ Keeps("members", 0) /\ Next
  \/ Guest("secrets", 9) /\ Secrets!Next
  \/ Guest("control", 10) /\ Control!Next
  \/ Guest("joins", 10) /\ Joins!Next
  \/ Guest("views", 10) /\ Views!Next

Sides == SidesInit /\ [][SidesNext]_all

-----------------------------------------------------------------------------
\* The type invariant of each component.
TypesOK == 
  /\ TypeOK
  /\ part = "secrets" => Secrets!TypeOK
  /\ part = "control" => Control!TypeOK
  /\ part = "joins" => Joins!TypeOK
  /\ part = "views" => Views!TypeOK

\* A peer carries out a request only as a holder of the secret sent it; a node that
\* proves its identity knows a secret the asker accepts; while every node knows one of
\* the two secrets, no step of a rotation locks a peer out.
SecretsHold == 
  /\ part = "secrets" => Secrets!CarriedOutAsSent /\ Secrets!RotationKeepsPeers /\ Secrets!AnswerIsProven

\* Nodes that have exchanged everything hold the same control-plane rows, which are
\* what the last call on each said, and no row survives the one it belongs to.
ControlAgrees == 
  /\ part = "control" => Control!NodesAgree /\ Control!LastCallWins /\ Control!NoOrphans
  /\ part = "joins" => Joins!NodesAgree /\ Joins!LastCallWins /\ Joins!NoOrphans

\* The first page of a merged log holds the newest rows of all the nodes that answer;
\* a walk through the log of one node shows every row that was there all along.
ViewsAreComplete == 
  /\ part = "views" => Views!FirstPageIsNewest /\ Views!WalkShowsStanding

\* The guide says of a rotation that replication keeps flowing in both directions.
BothDirections == part = "secrets" => Secrets!BothDirections

=============================================================================
