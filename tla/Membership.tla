----------------------------- MODULE Membership ------------------------------
(***************************************************************************)
(* Cluster membership (crates/arca-server/src/cluster/membership.rs) and   *)
(* what a node derives from it (crates/arca-core/src/cluster.rs): which    *)
(* peers are eligible, the write gate, the worker leader, readiness.       *)
(*                                                                         *)
(* Every member probes the endpoints it knows, round after round.  A round *)
(* has two steps: the probes are answered, and later, when the slowest one *)
(* has ended, all the outcomes are integrated at once.  Between the two a  *)
(* peer may crash, start or change its address.                            *)
(***************************************************************************)
EXTENDS Naturals, FiniteSets

CONSTANTS
  Node,        \* the node ids, ordered like the UUID strings
  NoNode,      \* no node
  Endpoint,    \* the endpoints discovery can return
  Kind,        \* Kind[m]: what a member finds out about m when it probes it
  Address,     \* Address[e]: the node that answers at e when the run starts
  Quorum,      \* write_quorum; 0 is the None of `available` mode
  Size,        \* cluster_size
  DeadAfter,   \* DEAD_AFTER_FAILURES
  PruneAfter,  \* peer_prune_days, in clock ticks
  Late,        \* the nodes that have not been started yet
  Reconciling, \* bound: the members whose anti-entropy worker gets to run
  MaxTime,     \* bound: clock ticks
  MaxFaults    \* bound: lost probes, crashes, starts and address changes

ASSUME IdAssumption ==
  /\ Node \subseteq Nat
  /\ NoNode \notin Node
  /\ IsFiniteSet(Node) /\ IsFiniteSet(Endpoint)

Member == {m \in Node : Kind[m] = "member"}

ASSUME ConfigAssumption ==
  /\ Kind \in [Node -> {"member", "drifted", "rekeyed", "legacy", "rogue"}]
  /\ Address \in [Endpoint -> Node \cup {NoNode}]
  /\ Quorum \in Nat /\ Size \in Nat /\ DeadAfter \in Nat \ {0}
  /\ Late \subseteq Node /\ Reconciling \subseteq Member
  /\ PruneAfter \in Nat /\ MaxTime \in Nat /\ MaxFaults \in Nat

VARIABLES
  clock,    \* wall clock
  up,       \* the nodes whose process runs
  serving,  \* the ones whose HTTP listener is open
  addr,     \* addr[e]: the node that answers at e
  known,    \* known[n][e]: the probe state n keeps for e
  round,    \* round[n]: the outcomes of the probes under way
  peers,    \* peers[n]: the published peer list
  synced,   \* synced[n]: the peers n has completed a full pass with
  faults    \* faults so far

vars == <<clock, up, serving, addr, known, round, peers, synced, faults>>
------------------------------------------------------------------------------
\* ProbeState; its last_live is there when id is, with contact as last_seen.
ProbeState == [seen : BOOLEAN,                \* e is a key of `known`
               id : Node \cup {NoNode},       \* node_id
               fails : 0 .. DeadAfter,        \* consecutive_failures, up to DeadAfter
               contact : Nat,                 \* last_contact; 0 is None
               auth : BOOLEAN, cfg : BOOLEAN] \* last_live

Unseen == [seen |-> FALSE, id |-> NoNode, fails |-> 0, contact |-> 0,
           auth |-> FALSE, cfg |-> FALSE]

PeerNode == [id : Node, endpoint : Endpoint, alive : BOOLEAN,
             auth : BOOLEAN, cfg : BOOLEAN, last : Nat]

NoRound == [e \in {} |-> NoNode]

Init ==
  /\ clock = 1
  /\ up = Node \ Late
  /\ serving = Node \ Late
  /\ addr = Address
  /\ known = [n \in Member |-> [e \in Endpoint |-> Unseen]]
  /\ round = [n \in Member |-> NoRound]
  /\ peers = [n \in Member |-> {}]
  /\ synced = [n \in Member |-> {}]
  /\ faults = 0
------------------------------------------------------------------------------
\* probe_peer, from a member: the challenge is answered with the secret, and
\* contact_config_ok: the configuration fingerprints agree.
Proven(m) == Kind[m] \in {"member", "drifted"}
ConfigOk(m) == Kind[m] \in {"member", "legacy", "rogue"}

\* The probes of n are answered, except the ones in lost.  NoNode is a failed
\* probe, n itself is the 409 of the loop check.
Probe(n) ==
  /\ n \in up /\ round[n] = NoRound
  /\ \E cand \in {{}, Endpoint} :
       LET probed == {e \in Endpoint : known[n][e].seen} \cup cand
           answers(e) == addr[e] \in serving
       IN /\ probed # {}
          /\ \E lost \in SUBSET {e \in probed : answers(e) /\ addr[e] # n} :
               /\ faults + Cardinality(lost) + (IF cand = {} THEN 1 ELSE 0)
                    <= MaxFaults
               /\ faults' = faults + Cardinality(lost) + (IF cand = {} THEN 1 ELSE 0)
               /\ round' = [round EXCEPT ![n] =
                    [e \in probed |-> IF answers(e) /\ e \notin lost THEN addr[e]
                                                                     ELSE NoNode]]
  /\ UNCHANGED <<clock, up, serving, addr, known, peers, synced>>

\* Mutant of Observe: the failure counter does not saturate.
ObserveUncapped(n, ps, m) ==
  CASE m = NoNode -> [ps EXCEPT !.seen = TRUE, !.fails = @ + 1]
    [] m = n -> [Unseen EXCEPT !.seen = TRUE, !.contact = clock]
    [] OTHER -> [seen |-> TRUE, id |-> m, fails |-> 0, contact |-> clock,
                 auth |-> Proven(m), cfg |-> ConfigOk(m)]

\* The probe state of endpoint e after outcome m of a probe by n.
Observe(n, ps, m) ==
  CASE m = NoNode -> [ps EXCEPT !.seen = TRUE,
                                 !.fails = IF @ < DeadAfter THEN @ + 1 ELSE @]
    [] m = n -> [Unseen EXCEPT !.seen = TRUE, !.contact = clock]
    [] OTHER -> [seen |-> TRUE, id |-> m, fails |-> 0, contact |-> clock,
                 auth |-> Proven(m), cfg |-> ConfigOk(m)]

\* Unreachable for longer than the prune window.
Stale(ps) == ps.fails > 0 /\ ps.contact # 0 /\ clock - ps.contact > PruneAfter

\* Mutant of EmitPeer: a dead peer keeps its last live view.
EmitAlive(e, ps) ==
  IF ps.id = NoNode THEN {}
  ELSE {[id |-> ps.id, endpoint |-> e, alive |-> TRUE,
         auth |-> ps.auth, cfg |-> ps.cfg, last |-> ps.contact]}

\* emit_peer: the last live view until the peer counts as dead.
EmitPeer(e, ps) ==
  IF ps.id = NoNode THEN {}
  ELSE IF ps.fails < DeadAfter
    THEN {[id |-> ps.id, endpoint |-> e, alive |-> TRUE,
           auth |-> ps.auth, cfg |-> ps.cfg, last |-> ps.contact]}
    ELSE {[id |-> ps.id, endpoint |-> e, alive |-> FALSE,
           auth |-> FALSE, cfg |-> TRUE, last |-> ps.contact]}

\* The round ends: integrate, prune, publish; set_peers forgets the sync
\* status of the peers that are gone.
Integrate(n) ==
  /\ n \in up /\ round[n] # NoRound
  /\ LET seen == [e \in Endpoint |-> IF e \in DOMAIN round[n]
                                       THEN Observe(n, known[n][e], round[n][e])
                                       ELSE known[n][e]]
         kept == [e \in Endpoint |-> IF Stale(seen[e]) THEN Unseen ELSE seen[e]]
         list == UNION {EmitPeer(e, kept[e]) : e \in Endpoint}
     IN /\ known' = [known EXCEPT ![n] = kept]
        /\ peers' = [peers EXCEPT ![n] = list]
        /\ synced' = [synced EXCEPT ![n] = @ \cap {p.id : p \in list}]
  /\ round' = [round EXCEPT ![n] = NoRound]
  /\ UNCHANGED <<clock, up, serving, addr, faults>>
------------------------------------------------------------------------------
\* Mutant of Eligible: a peer that never proved the secret is eligible too.
EligibleUnproven(p) == p.alive /\ p.cfg

\* PeerNode::eligible
Eligible(p) == p.alive /\ p.auth /\ p.cfg

EligiblePeers(n) == {p \in peers[n] : Eligible(p)}

\* eligible_node_count: one per published entry, and the node itself.
EligibleNodeCount(n) == 1 + Cardinality(EligiblePeers(n))

\* Mutant of WriteGate: the quorum is compared with <= instead of <.
GateOffByOne(n) ==
  IF Quorum = 0 THEN "open"
  ELSE IF EligibleNodeCount(n) > Size THEN "size exceeded"
  ELSE IF EligibleNodeCount(n) + 1 < Quorum THEN "no quorum"
  ELSE "open"

\* write_gate
WriteGate(n) ==
  IF Quorum = 0 THEN "open"
  ELSE IF EligibleNodeCount(n) > Size THEN "size exceeded"
  ELSE IF EligibleNodeCount(n) < Quorum THEN "no quorum"
  ELSE "open"

\* Mutant of IsWorkerLeader: dead and untrusted peers take part.
LeadsKnown(n) == \A p \in peers[n] : p.id > n

\* is_worker_leader
IsWorkerLeader(n) == \A p \in EligiblePeers(n) : p.id > n

\* is_syncing, and the plain health answer of a node that is not draining.
IsSyncing(n) == \E p \in EligiblePeers(n) : p.id \notin synced[n]
Ready(n) == n \in serving /\ ~IsSyncing(n)

\* Mutant of ReconcileWith: only peers with a larger id are pulled from.
ReconcileUpwards(n, m) ==
  /\ n \in up /\ m > n /\ m \in serving
  /\ \E p \in EligiblePeers(n) : p.id = m /\ addr[p.endpoint] = m
  /\ synced' = [synced EXCEPT ![n] = @ \cup {m}]
  /\ UNCHANGED <<clock, up, serving, addr, known, round, peers, faults>>

\* The anti-entropy worker of n completes a full pass with its eligible peer m
\* (record_reconcile_complete).
ReconcileWith(n, m) ==
  /\ n \in up /\ m \in serving
  /\ \E p \in EligiblePeers(n) : p.id = m /\ addr[p.endpoint] = m
  /\ synced' = [synced EXCEPT ![n] = @ \cup {m}]
  /\ UNCHANGED <<clock, up, serving, addr, known, round, peers, faults>>
------------------------------------------------------------------------------
Advance ==
  /\ clock < MaxTime
  /\ clock' = clock + 1
  /\ UNCHANGED <<up, serving, addr, known, round, peers, synced, faults>>

\* A node stops; membership and sync state are in memory.
Crash(m) ==
  /\ m \in up /\ faults < MaxFaults
  /\ up' = up \ {m}
  /\ serving' = serving \ {m}
  /\ faults' = faults + 1
  /\ known' = [n \in Member |-> IF n = m THEN [e \in Endpoint |-> Unseen] ELSE known[n]]
  /\ round' = [n \in Member |-> IF n = m THEN NoRound ELSE round[n]]
  /\ peers' = [n \in Member |-> IF n = m THEN {} ELSE peers[n]]
  /\ synced' = [n \in Member |-> IF n = m THEN {} ELSE synced[n]]
  /\ UNCHANGED <<clock, addr>>

\* The process of m starts its probe loop, and later opens its listener.
Start(m) ==
  /\ m \notin up
  /\ up' = up \cup {m}
  /\ UNCHANGED <<clock, serving, addr, known, round, peers, synced, faults>>

Serve(m) ==
  /\ m \in up \ serving
  /\ serving' = serving \cup {m}
  /\ UNCHANGED <<clock, up, addr, known, round, peers, synced, faults>>

\* A node gets another address: endpoint e, which nobody uses, for f.
Move(f, e) ==
  /\ faults < MaxFaults
  /\ addr[e] = NoNode /\ addr[f] # NoNode
  /\ addr' = [addr EXCEPT ![e] = addr[f], ![f] = NoNode]
  /\ faults' = faults + 1
  /\ UNCHANGED <<clock, up, serving, known, round, peers, synced>>

Next ==
  \/ \E n \in Member : Probe(n) \/ Integrate(n)
  \/ \E n \in Reconciling, m \in Member : ReconcileWith(n, m)
  \/ \E m \in Node : Crash(m) \/ Start(m) \/ Serve(m)
  \/ \E f, e \in Endpoint : Move(f, e)
  \/ Advance

Spec == Init /\ [][Next]_vars

\* Every running member opens its listener and keeps running its probe loop and
\* its anti-entropy loop.
Fairness ==
  /\ \A n \in Member : WF_vars(Serve(n))
  /\ \A n \in Member : WF_vars(Probe(n)) /\ WF_vars(Integrate(n))
  /\ \A n \in Reconciling, m \in Member : SF_vars(ReconcileWith(n, m))

FairSpec == Spec /\ Fairness
------------------------------------------------------------------------------
\* Type invariant; only a running node serves, and failures are counted up to
\* DeadAfter.
TypeOK ==
  /\ clock \in Nat /\ faults \in Nat
  /\ serving \subseteq up /\ up \subseteq Node
  /\ addr \in [Endpoint -> Node \cup {NoNode}]
  /\ known \in [Member -> [Endpoint -> ProbeState]]
  /\ \A n \in Member : /\ DOMAIN round[n] \subseteq Endpoint
                       /\ \A e \in DOMAIN round[n] : round[n][e] \in Node \cup {NoNode}
  /\ peers \in [Member -> SUBSET PeerNode]
  /\ synced \in [Member -> SUBSET Node]

\* The members n counts on, itself included.
Counted(n) == {n} \cup {p.id : p \in EligiblePeers(n)}

\* Decision H12: the write gate opens only on a majority of distinct nodes that
\* have the secret and the configuration (write_gate, guide/ha.md).
OpenGateIsMajority ==
  \A n \in Member : WriteGate(n) = "open" => Cardinality(Counted(n) \cap Member) >= Quorum

\* Decision H6: two nodes that admit writes at the same time count on a common
\* node, whatever either of them has missed.
OpenGatesOverlap ==
  \A n, m \in Member : WriteGate(n) = "open" /\ WriteGate(m) = "open"
                         => Counted(n) \cap Counted(m) # {}

\* Guide, "The moment the health turns `200`, the node's answers are as complete
\* as its peers'": a node that turns ready has completed a pass with every member
\* that is running.  It does not hold in the first probe round after the start.
ReadyHasPulled ==
  [][\A n \in Member : ~Ready(n) /\ Ready(n)' => (serving \cap Member) \ {n} \subseteq synced'[n]]_vars

\* Guide, "exactly one node says true in a stable cluster": when the faults
\* stop, the node with the lowest id among the running members leads, alone.
OneLeader ==
  serving \cap Member # {} =>
    \E n \in serving \cap Member :
      {m \in serving \cap Member : IsWorkerLeader(m)} = {n}
        /\ \A m \in serving \cap Member : n <= m
EventuallyOneLeader == <>[]OneLeader

\* When the faults stop, every running node becomes ready and stays so.
AllReady == \A n \in serving \cap Member : Ready(n)
EventuallyReady == <>[]AllReady

\* When the faults stop, the gate of every running node tells whether the
\* running members are a quorum, and no more than cluster_size.
Admits ==
  \A n \in serving \cap Member :
    (WriteGate(n) = "open") <=>
      \/ Quorum = 0
      \/ Cardinality(serving \cap Member) \in Quorum .. Size
EventuallyAdmits == <>[]Admits
==============================================================================
