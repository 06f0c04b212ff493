---------------------------- MODULE MCBackground ----------------------------
(****************************************************************************)
(* The background workers of a node: the anti-entropy worker that pulls the*)
(* manifest of a peer (the module this one extends), the replicator to a   *)
(* remote, the lifecycle worker and the notifier.                          *)
(****************************************************************************)
EXTENDS ManifestSync, SideBySide

CONSTANTS d1, Nil

all == <<vars, sides>>

-----------------------------------------------------------------------------
(* One site mirrors the other: two writes, one fault, one change of the rule. *)
Journal == INSTANCE ReplicationJournal WITH
  Site <- {"a", "b"}, Kind <- {"put", "delete", "tag", "erase"}, Mirror <- {"a"},
  MaxWrites <- 2, MaxAttempts <- 2, MaxFaults <- 1, MaxCrashes <- 0, MaxAdmin <- 1,
  Second <- 1, None <- Nil,
  rows <- v1, emitting <- v2, journal <- v3, batch <- v4, current <- v5, rule <- v6,
  credential <- v7, flag <- v8, clock <- v9, writes <- v10, faults <- v11, crashes <- v12,
  admin <- v13

-----------------------------------------------------------------------------
(* The same with a site that stops and starts again. *)
Crashing == INSTANCE ReplicationJournal WITH
  Site <- {"a", "b"}, Kind <- {"put", "delete"}, Mirror <- {"a"}, MaxWrites <- 2,
  MaxAttempts <- 2, MaxFaults <- 1, MaxCrashes <- 1, MaxAdmin <- 0, Second <- 1,
  None <- Nil,
  rows <- v1, emitting <- v2, journal <- v3, batch <- v4, current <- v5, rule <- v6,
  credential <- v7, flag <- v8, clock <- v9, writes <- v10, faults <- v11, crashes <- v12,
  admin <- v13

-----------------------------------------------------------------------------
(* Four versions of one key and one of another, a page of one. *)
Stored(key, id) == [key |-> key, id |-> id, at |-> 0]
OldVersions == {Stored(1, 0), Stored(1, 1), Stored(1, 2), Stored(1, 3), Stored(2, 4)}

Versions == INSTANCE Lifecycle WITH
  Key <- {1, 2}, Scope <- {1, 2}, Versioned <- TRUE, Days <- 2, NoncurrentDays <- 1,
  AbortDays <- 1, Keep <- 0, PageSize <- 1, Old <- OldVersions, MaxClock <- 3,
  MaxWrites <- 1, Clients <- {"put", "delete", "hold", "upload"},
  versions <- v1, uploads <- v2, clock <- v3, writes <- v4, leader <- v5, nextId <- v6,
  phase <- v7, now <- v8, cursor <- v9, page <- v10, full <- v11, due <- v12

-----------------------------------------------------------------------------
(* A rule for one of two objects. *)
OldObjects == {Stored(1, 0), Stored(2, 1)}

Expiry == INSTANCE Lifecycle WITH
  Key <- {1, 2}, Scope <- {1}, Versioned <- FALSE, Days <- 2, NoncurrentDays <- 1,
  AbortDays <- 1, Keep <- 0, PageSize <- 1, Old <- OldObjects, MaxClock <- 4,
  MaxWrites <- 1, Clients <- {"put", "delete", "upload"},
  versions <- v1, uploads <- v2, clock <- v3, writes <- v4, leader <- v5, nextId <- v6,
  phase <- v7, now <- v8, cursor <- v9, page <- v10, full <- v11, due <- v12

-----------------------------------------------------------------------------
(* Two events for one destination, a full channel, failures and a crash. *)
Events == INSTANCE Notifications WITH
  Destination <- {d1}, MaxEvents <- 2, ChannelSize <- 1, MaxRetries <- 2, Ttl <- 1,
  MaxClock <- 2, MaxFaults <- 2, MaxCrashes <- 1, MaxAdmin <- 1, None <- Nil,
  config <- v1, since <- v2, queue <- v3, cache <- v4, todo <- v5, records <- v6,
  tasks <- v7, received <- v8, events <- v9, clock <- v10, faults <- v11, crashes <- v12,
  admin <- v13

-----------------------------------------------------------------------------
SidesInit ==
  /\ Init
  /\ \/ Picks("manifest", 0)
     \/ Journal!Init /\ Picks("journal", 13)
     \/ Crashing!Init /\ Picks("crashing", 13)
     \/ Versions!Init /\ Picks("versions", 12)
     \/ Expiry!Init /\ Picks("expiry", 12)
     \/ Events!Init /\ Picks("events", 13)

Guest(p, n) == Keeps(p, n) /\ UNCHANGED vars

SidesNext ==
  \/ Next /\ Keeps("manifest", 0)
  \/ Guest("journal", 13) /\ Journal!Next
  \/ Guest("crashing", 13) /\ Crashing!Next
  \/ Guest("versions", 12) /\ Versions!Next
  \/ Guest("expiry", 12) /\ Expiry!Next
  \/ Guest("events", 13) /\ Events!Next

(* The workers of the node keep running, and time passes. *)
Fair ==
  /\ WF_all(Worker /\ Keeps("manifest", 0)) /\ WF_all(Ping /\ Keeps("manifest", 0)) /\ WF_all(Publish /\ Keeps("manifest", 0))
  /\ \A s \in {"a", "b"} :
       /\ WF_all(Guest("journal", 13) /\ Journal!Emit(s)) /\ WF_all(Guest("journal", 13) /\ Journal!Worker(s))
  /\ WF_all(Guest("versions", 12) /\ Versions!Worker) 
  /\ WF_all(Guest("versions", 12) /\ Versions!Tick) /\ WF_all(Guest("versions", 12) /\ Versions!LeaderMoves)
  /\ WF_all(Guest("expiry", 12) /\ Expiry!Worker) 
  /\ WF_all(Guest("expiry", 12) /\ Expiry!Tick) /\ WF_all(Guest("expiry", 12) /\ Expiry!LeaderMoves)
  /\ SF_all((Guest("versions", 12) /\ Versions!StartCycle) \/ (Guest("expiry", 12) /\ Expiry!StartCycle))
  /\ WF_all(Guest("events", 13) /\ Events!Step)

Sides == SidesInit /\ [][SidesNext]_all /\ Fair

-----------------------------------------------------------------------------
\* The type invariant of each component.
TypesOK == 
  /\ TypeOK
  /\ part = "journal" => Journal!TypeOK
  /\ part = "crashing" => Crashing!TypeOK
  /\ part = "versions" => Versions!TypeOK
  /\ part = "expiry" => Expiry!TypeOK
  /\ part = "events" => Events!TypeOK

\* A journal entry is completed only when the remote holds what it is about, or
\* something newer, and what a site received by replication it does not send back; a
\* record says delivered only when the destination received the event.
DeliveryIsHonest == 
  /\ part = "journal" => Journal!NotEchoed /\ Journal!CompletedIsBacked
  /\ part = "crashing" => Crashing!NotEchoed /\ Crashing!CompletedIsBacked
  /\ part = "events" => Events!DeliveredIsReceived

\* A lifecycle cycle leaves an action of the rule only when nothing due is left.
CycleIsComplete == [][
  /\ part = "versions" => Versions!CycleIsCompleteStep
  /\ part = "expiry" => Expiry!CycleIsCompleteStep]_all

\* Once no more is written, and unless the process stopped in between, every entry of
\* a journal is completed, given up or purged and no notification record is pending;
\* an object past its days is not kept for ever, whatever clients do.
BacklogsDrain == 
  <>[](/\ part = "journal" => Journal!AllSettled
       /\ part = "versions" => Versions!NoneServed
       /\ part = "expiry" => Expiry!NoneServed
       /\ part = "events" => Events!NonePending)

=============================================================================
