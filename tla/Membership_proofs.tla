-------------------------- MODULE Membership_proofs --------------------------
(***************************************************************************)
(* What an open write gate is worth, for every number of nodes, endpoints  *)
(* and faults.                                                             *)
(***************************************************************************)
EXTENDS Membership, FiniteSetTheorems, TLAPS

\* What n has found out about a node that it knows by its id.
FoundOut(n, ps) ==
  ps.id # NoNode => ps.id # n /\ ps.auth = Proven(ps.id) /\ ps.cfg = ConfigOk(ps.id)

\* A published entry that counts for replication is about another member.
Trustworthy(n, p) == Eligible(p) => p.id \in Member /\ p.id # n

\* The inductive invariant: membership only says what probes have found out.
Inv ==
  /\ TypeOK
  /\ DOMAIN round = Member
  /\ \A n \in Member : /\ \A e \in Endpoint : FoundOut(n, known[n][e])
                       /\ \A p \in peers[n] : Trustworthy(n, p)
------------------------------------------------------------------------------
LEMMA MemberIsNode == \A n \in Member : n \in Node /\ n # NoNode /\ Kind[n] = "member"
  BY IdAssumption DEF Member

LEMMA UnseenType == Unseen \in ProbeState /\ \A n : FoundOut(n, Unseen)
  BY ConfigAssumption DEF Unseen, ProbeState, FoundOut

\* A member is whoever proves the secret and has the configuration.
LEMMA ProvenMember ==
  ASSUME NEW m \in Node, Proven(m), ConfigOk(m)
  PROVE  m \in Member
  BY DEF Proven, ConfigOk, Member

LEMMA ObserveType ==
  ASSUME NEW n \in Member, NEW ps \in ProbeState, FoundOut(n, ps), clock \in Nat,
         NEW m \in Node \cup {NoNode}
  PROVE  Observe(n, ps, m) \in ProbeState /\ FoundOut(n, Observe(n, ps, m))
<1>1. CASE m = NoNode
  <2> DEFINE k == IF ps.fails < DeadAfter THEN ps.fails + 1 ELSE ps.fails
  <2>1. Observe(n, ps, m) = [ps EXCEPT !.seen = TRUE, !.fails = k]
    BY <1>1, MemberIsNode DEF Observe
  <2>2. k \in 0 .. DeadAfter
    BY ConfigAssumption DEF ProbeState
  <2> HIDE DEF k
  <2> QED
    BY <2>1, <2>2 DEF ProbeState, FoundOut
<1>2. CASE m = n
  <2>1. Observe(n, ps, m) = [Unseen EXCEPT !.seen = TRUE, !.contact = clock]
    BY <1>2, MemberIsNode DEF Observe
  <2> QED
    BY <2>1, UnseenType DEF ProbeState, FoundOut, Unseen
<1>3. CASE m # NoNode /\ m # n
  <2>1. Observe(n, ps, m) = [seen |-> TRUE, id |-> m, fails |-> 0, contact |-> clock,
                             auth |-> Proven(m), cfg |-> ConfigOk(m)]
    BY <1>3 DEF Observe
  <2>2. Proven(m) \in BOOLEAN /\ ConfigOk(m) \in BOOLEAN
    BY DEF Proven, ConfigOk
  <2> QED
    BY <2>1, <2>2, <1>3, ConfigAssumption DEF ProbeState, FoundOut
<1> QED
  BY <1>1, <1>2, <1>3

LEMMA ObserveId ==
  ASSUME NEW n \in Member, NEW ps \in ProbeState, NEW m \in Node \cup {NoNode}
  PROVE  Observe(n, ps, m).id \in {ps.id, NoNode, m}
<1>1. CASE m = NoNode
  <2> DEFINE k == IF ps.fails < DeadAfter THEN ps.fails + 1 ELSE ps.fails
  <2>1. Observe(n, ps, m) = [ps EXCEPT !.seen = TRUE, !.fails = k]
    BY <1>1, MemberIsNode DEF Observe
  <2> QED
    BY <2>1 DEF ProbeState
<1>2. CASE m = n
  <2>1. Observe(n, ps, m) = [Unseen EXCEPT !.seen = TRUE, !.contact = clock]
    BY <1>2, MemberIsNode DEF Observe
  <2> QED
    BY <2>1 DEF Unseen
<1>3. CASE m # NoNode /\ m # n
  BY <1>3 DEF Observe
<1> QED
  BY <1>1, <1>2, <1>3

LEMMA EmitType ==
  ASSUME NEW n \in Member, NEW e \in Endpoint, NEW ps \in ProbeState, FoundOut(n, ps),
         NEW p \in EmitPeer(e, ps)
  PROVE  /\ p \in PeerNode /\ Trustworthy(n, p)
         /\ p.id = ps.id /\ p.endpoint = e /\ ps.id # NoNode
         /\ EmitPeer(e, ps) = {p}
<1>1. ps.id # NoNode /\ ps.id \in Node
  BY DEF EmitPeer, ProbeState
<1>2. CASE ps.fails < DeadAfter
  <2>1. p = [id |-> ps.id, endpoint |-> e, alive |-> TRUE,
             auth |-> ps.auth, cfg |-> ps.cfg, last |-> ps.contact] /\ EmitPeer(e, ps) = {p}
    BY <1>1, <1>2 DEF EmitPeer
  <2>2. p \in PeerNode /\ p.id = ps.id /\ p.endpoint = e
    BY <1>1, <2>1 DEF PeerNode, ProbeState
  <2>3. Trustworthy(n, p)
    BY <1>1, <2>1, ProvenMember DEF Trustworthy, Eligible, FoundOut
  <2> QED
    BY <1>1, <2>1, <2>2, <2>3
<1>3. CASE ~(ps.fails < DeadAfter)
  <2>1. p = [id |-> ps.id, endpoint |-> e, alive |-> FALSE,
             auth |-> FALSE, cfg |-> TRUE, last |-> ps.contact] /\ EmitPeer(e, ps) = {p}
    BY <1>1, <1>3 DEF EmitPeer
  <2> QED
    BY <1>1, <2>1 DEF PeerNode, ProbeState, Trustworthy, Eligible
<1> QED
  BY <1>2, <1>3
------------------------------------------------------------------------------
LEMMA InvInit == Init => Inv
<1> SUFFICES ASSUME Init PROVE Inv
  OBVIOUS
<1>1. TypeOK
  BY UnseenType, ConfigAssumption DEF Init, TypeOK, NoRound
<1> QED
  BY <1>1, UnseenType DEF Init, Inv

LEMMA ProbeInv ==
  ASSUME Inv, NEW n \in Member, Probe(n)
  PROVE  Inv'
<1> DEFINE Probed(cand) == {f \in Endpoint : known[n][f].seen} \cup cand
<1>0. PICK cand \in {{}, Endpoint} :
        \E lost \in SUBSET {e \in Probed(cand) : addr[e] \in serving /\ addr[e] # n} :
          /\ faults' = faults + Cardinality(lost) + (IF cand = {} THEN 1 ELSE 0)
          /\ round' = [round EXCEPT ![n] =
               [e \in Probed(cand) |-> IF addr[e] \in serving /\ e \notin lost THEN addr[e] ELSE NoNode]]
  BY DEF Probe
<1>1. PICK lost \in SUBSET {e \in Probed(cand) : addr[e] \in serving /\ addr[e] # n} :
        /\ faults' = faults + Cardinality(lost) + (IF cand = {} THEN 1 ELSE 0)
        /\ round' = [round EXCEPT ![n] =
             [e \in Probed(cand) |-> IF addr[e] \in serving /\ e \notin lost THEN addr[e] ELSE NoNode]]
  BY <1>0
<1>2. UNCHANGED <<clock, up, serving, addr, known, peers, synced>>
  BY DEF Probe
<1>3. faults' \in Nat
  <2>1. lost \subseteq Endpoint
    BY <1>1
  <2>2. Cardinality(lost) \in Nat
    BY <2>1, IdAssumption, FS_Subset, FS_CardinalityType
  <2> QED
    BY <1>1, <2>2 DEF Inv, TypeOK
<1>4. DOMAIN round' = Member
  BY <1>1 DEF Inv
<1>5. ASSUME NEW m \in Member
      PROVE  /\ DOMAIN round'[m] \subseteq Endpoint
             /\ \A e \in DOMAIN round'[m] : round'[m][e] \in Node \cup {NoNode}
  BY <1>1 DEF Inv, TypeOK
<1>6. TypeOK'
  BY <1>2, <1>3, <1>5 DEF Inv, TypeOK
<1> QED
  BY <1>2, <1>4, <1>6 DEF Inv

LEMMA IntegrateInv ==
  ASSUME Inv, NEW n \in Member, Integrate(n)
  PROVE  Inv'
<1> DEFINE seen == [e \in Endpoint |-> IF e \in DOMAIN round[n]
                                        THEN Observe(n, known[n][e], round[n][e])
                                        ELSE known[n][e]]
           kept == [e \in Endpoint |-> IF Stale(seen[e]) THEN Unseen ELSE seen[e]]
           list == UNION {EmitPeer(e, kept[e]) : e \in Endpoint}
<1>1. /\ known' = [known EXCEPT ![n] = kept]
      /\ peers' = [peers EXCEPT ![n] = list]
      /\ synced' = [synced EXCEPT ![n] = @ \cap {p.id : p \in list}]
      /\ round' = [round EXCEPT ![n] = NoRound]
      /\ UNCHANGED <<clock, up, serving, addr, faults>>
  BY DEF Integrate
<1>2. ASSUME NEW e \in Endpoint PROVE seen[e] \in ProbeState /\ FoundOut(n, seen[e])
  <2>1. known[n][e] \in ProbeState /\ FoundOut(n, known[n][e]) /\ clock \in Nat
    BY DEF Inv, TypeOK
  <2>2. e \in DOMAIN round[n] => round[n][e] \in Node \cup {NoNode}
    BY DEF Inv, TypeOK
  <2> QED
    BY <2>1, <2>2, ObserveType
<1>3. ASSUME NEW e \in Endpoint PROVE kept[e] \in ProbeState /\ FoundOut(n, kept[e])
  BY <1>2, UnseenType
<1> HIDE DEF seen
<1>4. kept \in [Endpoint -> ProbeState]
  BY <1>3
<1>5. \A p \in list : p \in PeerNode /\ Trustworthy(n, p)
  BY <1>3, EmitType
<1> HIDE DEF kept, list
<1>6. known' \in [Member -> [Endpoint -> ProbeState]]
  BY <1>1, <1>4 DEF Inv, TypeOK
<1>7. peers' \in [Member -> SUBSET PeerNode]
  BY <1>1, <1>5 DEF Inv, TypeOK
<1>8. synced' \in [Member -> SUBSET Node]
  BY <1>1 DEF Inv, TypeOK
<1>9. /\ DOMAIN round' = Member
      /\ \A m \in Member : /\ DOMAIN round'[m] \subseteq Endpoint
                           /\ \A e \in DOMAIN round'[m] : round'[m][e] \in Node \cup {NoNode}
  BY <1>1 DEF Inv, TypeOK, NoRound
<1>10. TypeOK'
  BY <1>1, <1>6, <1>7, <1>8, <1>9 DEF Inv, TypeOK
<1>11. \A m \in Member, e \in Endpoint : FoundOut(m, known'[m][e])
  BY <1>1, <1>3 DEF Inv, TypeOK
<1>12. \A m \in Member : \A p \in peers'[m] : Trustworthy(m, p)
  BY <1>1, <1>5 DEF Inv, TypeOK
<1> QED
  BY <1>9, <1>10, <1>11, <1>12 DEF Inv

LEMMA ReconcileInv ==
  ASSUME Inv, NEW n \in Member, NEW m \in Member, ReconcileWith(n, m)
  PROVE  Inv'
<1>1. /\ synced' = [synced EXCEPT ![n] = @ \cup {m}]
      /\ UNCHANGED <<clock, up, serving, addr, known, round, peers, faults>>
  BY DEF ReconcileWith
<1>2. synced' \in [Member -> SUBSET Node]
  BY <1>1, MemberIsNode DEF Inv, TypeOK
<1> QED
  BY <1>1, <1>2 DEF Inv, TypeOK

LEMMA CrashInv ==
  ASSUME Inv, NEW m \in Node, Crash(m)
  PROVE  Inv'
<1>1. /\ up' = up \ {m} /\ serving' = serving \ {m} /\ faults' = faults + 1
      /\ known' = [n \in Member |-> IF n = m THEN [e \in Endpoint |-> Unseen] ELSE known[n]]
      /\ round' = [n \in Member |-> IF n = m THEN NoRound ELSE round[n]]
      /\ peers' = [n \in Member |-> IF n = m THEN {} ELSE peers[n]]
      /\ synced' = [n \in Member |-> IF n = m THEN {} ELSE synced[n]]
      /\ UNCHANGED <<clock, addr>>
  BY DEF Crash
<1>2. known' \in [Member -> [Endpoint -> ProbeState]]
  BY <1>1, UnseenType DEF Inv, TypeOK
<1>3. \A n \in Member : /\ DOMAIN round'[n] \subseteq Endpoint
                        /\ \A e \in DOMAIN round'[n] : round'[n][e] \in Node \cup {NoNode}
  BY <1>1 DEF Inv, TypeOK, NoRound
<1>4. peers' \in [Member -> SUBSET PeerNode] /\ synced' \in [Member -> SUBSET Node]
  BY <1>1 DEF Inv, TypeOK
<1>5. TypeOK'
  BY <1>1, <1>2, <1>3, <1>4 DEF Inv, TypeOK
<1>6. \A n \in Member, e \in Endpoint : FoundOut(n, known'[n][e])
  BY <1>1, UnseenType DEF Inv
<1>7. \A n \in Member : \A p \in peers'[n] : Trustworthy(n, p)
  BY <1>1 DEF Inv
<1> QED
  BY <1>1, <1>5, <1>6, <1>7 DEF Inv

LEMMA InvNext == Inv /\ [Next]_vars => Inv'
<1> SUFFICES ASSUME Inv, [Next]_vars PROVE Inv'
  OBVIOUS
<1>1. ASSUME NEW n \in Member, Probe(n) \/ Integrate(n) PROVE Inv'
  BY <1>1, ProbeInv, IntegrateInv
<1>2. ASSUME NEW n \in Reconciling, NEW m \in Member, ReconcileWith(n, m) PROVE Inv'
  BY <1>2, ReconcileInv, ConfigAssumption
<1>3. ASSUME NEW m \in Node, Crash(m) PROVE Inv'
  BY <1>3, CrashInv
<1>4. ASSUME NEW m \in Node, Start(m) \/ Serve(m) PROVE Inv'
  BY <1>4 DEF Start, Serve, Inv, TypeOK
<1>5. ASSUME NEW f \in Endpoint, NEW e \in Endpoint, Move(f, e) PROVE Inv'
  <2>1. addr' \in [Endpoint -> Node \cup {NoNode}] /\ faults' \in Nat
    BY <1>5 DEF Move, Inv, TypeOK
  <2> QED
    BY <1>5, <2>1 DEF Move, Inv, TypeOK
<1>6. CASE Advance
  BY <1>6 DEF Advance, Inv, TypeOK
<1>7. CASE UNCHANGED vars
  BY <1>7 DEF vars, Inv, TypeOK
<1> QED
  BY <1>1, <1>2, <1>3, <1>4, <1>5, <1>6, <1>7 DEF Next

\* Membership never claims more than probes have found out: an entry that
\* counts for replication is about another node, which has proved the secret and
\* has the configuration (emit_peer, PeerNode::eligible).
THEOREM MembershipInvariant == Spec => []Inv
  BY InvInit, InvNext, PTL DEF Spec

\* Variables keep their types, and only a running node serves.
THEOREM MembershipTypeCorrect == Spec => []TypeOK
<1>1. Inv => TypeOK
  BY DEF Inv
<1> QED
  BY <1>1, MembershipInvariant, PTL
------------------------------------------------------------------------------
(***************************************************************************)
(* eligible_node_count counts entries, one per endpoint.  Entries are      *)
(* nodes as long as no node is known by two endpoints.                     *)
(***************************************************************************)
OneEntryEach(n) == \A p, q \in EligiblePeers(n) : p.id = q.id => p = q

LEMMA CountedAreMembers ==
  ASSUME Inv, NEW n \in Member
  PROVE  /\ Counted(n) \subseteq Member
         /\ OneEntryEach(n) => Cardinality(Counted(n)) = EligibleNodeCount(n)
<1> DEFINE P == EligiblePeers(n)
           I == {p.id : p \in P}
<1>1. /\ \A p \in P : p.id \in Member /\ p.id # n
      /\ I \subseteq Member /\ n \notin I /\ Counted(n) = I \cup {n}
  BY DEF Inv, Trustworthy, EligiblePeers, Counted
<1>2. IsFiniteSet(Member) /\ IsFiniteSet(I)
  BY <1>1, IdAssumption, FS_Subset DEF Member
<1>3. Cardinality(I \cup {n}) = Cardinality(I) + 1
  BY <1>1, <1>2, FS_AddElement
<1>4. ASSUME OneEntryEach(n) PROVE Cardinality(I) = Cardinality(P)
  <2> DEFINE f == [p \in P |-> p.id]
  <2>1. f \in Injection(P, I)
    BY <1>4 DEF Injection, IsInjective, OneEntryEach
  <2>2. f \in Surjection(P, I)
    BY DEF Surjection
  <2> HIDE DEF f, I, P
  <2> QED
    BY <2>1, <2>2, <1>2, FS_Injection
<1>5. Cardinality(I) \in Nat
  BY <1>2, FS_CardinalityType
<1>6. Counted(n) \subseteq Member /\ Cardinality(Counted(n)) = Cardinality(I) + 1
  BY <1>1, <1>3
<1>7. EligibleNodeCount(n) = 1 + Cardinality(P)
  BY DEF EligibleNodeCount
<1> HIDE DEF I, P
<1> QED
  BY <1>4, <1>5, <1>6, <1>7

\* Where the gate of a quorum cluster is open and no node is counted under two
\* endpoints, the node counts on Quorum members that hold the secret and the
\* configuration (write_gate).
LEMMA OpenGateCounts ==
  ASSUME Inv, NEW n \in Member, WriteGate(n) = "open", OneEntryEach(n)
  PROVE  Cardinality(Counted(n) \cap Member) >= Quorum
<1>1. Counted(n) \cap Member = Counted(n) /\ Cardinality(Counted(n)) = EligibleNodeCount(n)
  BY CountedAreMembers
<1>2. IsFiniteSet(Counted(n))
  BY <1>1, CountedAreMembers, IdAssumption, FS_Subset DEF Member
<1>3. Cardinality(Counted(n)) \in Nat
  BY <1>2, FS_CardinalityType
<1>4. CASE Quorum = 0
  BY <1>1, <1>3, <1>4
<1>5. CASE Quorum # 0
  <2>1. ~(EligibleNodeCount(n) < Quorum)
    BY <1>5 DEF WriteGate
  <2> QED
    BY <2>1, <1>1, <1>3, ConfigAssumption
<1> QED
  BY <1>4, <1>5

\* An open write gate is worth a quorum of distinct members, in every state in
\* which no eligible node is published under two endpoints: whatever probes were
\* lost, whoever crashed, started late or changed its address.
THEOREM OpenGateIsWorthAQuorum ==
  Spec => [](\A n \in Member : WriteGate(n) = "open" /\ OneEntryEach(n)
                                 => Cardinality(Counted(n) \cap Member) >= Quorum)
<1>1. Inv => \A n \in Member : WriteGate(n) = "open" /\ OneEntryEach(n)
                               => Cardinality(Counted(n) \cap Member) >= Quorum
  BY OpenGateCounts
<1> QED
  BY <1>1, MembershipInvariant, PTL
------------------------------------------------------------------------------
(***************************************************************************)
(* With one fixed endpoint per node, which is how a cluster is configured,  *)
(* no node is known by two.                                                *)
(***************************************************************************)
FixedAddresses == \A e, f \in Endpoint : Address[e] # NoNode /\ (Address[e] = Address[f] => e = f)

FixedInv ==
  /\ addr = Address
  /\ \A n \in Member :
       /\ \A e \in DOMAIN round[n] : round[n][e] \in {Address[e], NoNode}
       /\ \A e \in Endpoint : known[n][e].id \in {Address[e], NoNode}
       /\ \A p \in peers[n] : p.endpoint \in Endpoint /\ p.id = Address[p.endpoint]
       /\ \A p, q \in peers[n] : p.endpoint = q.endpoint => p = q

LEMMA FixedInit == Init => FixedInv
  BY DEF Init, FixedInv, NoRound, Unseen

LEMMA FixedProbe ==
  ASSUME Inv, FixedInv, NEW n \in Member, Probe(n)
  PROVE  FixedInv'
<1> DEFINE Probed(cand) == {f \in Endpoint : known[n][f].seen} \cup cand
<1>0. PICK cand \in {{}, Endpoint} :
        \E lost \in SUBSET {e \in Probed(cand) : addr[e] \in serving /\ addr[e] # n} :
          round' = [round EXCEPT ![n] =
            [e \in Probed(cand) |-> IF addr[e] \in serving /\ e \notin lost THEN addr[e] ELSE NoNode]]
  BY DEF Probe
<1>1. PICK lost \in SUBSET {e \in Probed(cand) : addr[e] \in serving /\ addr[e] # n} :
        round' = [round EXCEPT ![n] =
          [e \in Probed(cand) |-> IF addr[e] \in serving /\ e \notin lost THEN addr[e] ELSE NoNode]]
  BY <1>0
<1>2. UNCHANGED <<addr, known, peers>>
  BY DEF Probe
<1>3. \A m \in Member : \A e \in DOMAIN round'[m] : round'[m][e] \in {Address[e], NoNode}
  BY <1>1 DEF Inv, FixedInv
<1> QED
  BY <1>2, <1>3 DEF FixedInv

LEMMA FixedIntegrate ==
  ASSUME Inv, FixedInv, NEW n \in Member, Integrate(n)
  PROVE  FixedInv'
<1> DEFINE seen == [e \in Endpoint |-> IF e \in DOMAIN round[n]
                                        THEN Observe(n, known[n][e], round[n][e])
                                        ELSE known[n][e]]
           kept == [e \in Endpoint |-> IF Stale(seen[e]) THEN Unseen ELSE seen[e]]
           list == UNION {EmitPeer(e, kept[e]) : e \in Endpoint}
<1>1. /\ known' = [known EXCEPT ![n] = kept]
      /\ peers' = [peers EXCEPT ![n] = list]
      /\ round' = [round EXCEPT ![n] = NoRound]
      /\ UNCHANGED addr
  BY DEF Integrate
<1>2. ASSUME NEW e \in Endpoint
      PROVE  seen[e] \in ProbeState /\ FoundOut(n, seen[e]) /\ seen[e].id \in {Address[e], NoNode}
  <2>1. /\ known[n][e] \in ProbeState /\ FoundOut(n, known[n][e]) /\ clock \in Nat
        /\ known[n][e].id \in {Address[e], NoNode}
    BY DEF Inv, TypeOK, FixedInv
  <2>2. CASE e \in DOMAIN round[n]
    <3>1. round[n][e] \in Node \cup {NoNode} /\ round[n][e] \in {Address[e], NoNode}
      BY <2>2 DEF Inv, TypeOK, FixedInv
    <3>2. /\ Observe(n, known[n][e], round[n][e]) \in ProbeState
          /\ FoundOut(n, Observe(n, known[n][e], round[n][e]))
      BY <2>1, <3>1, ObserveType
    <3>3. Observe(n, known[n][e], round[n][e]).id \in {known[n][e].id, NoNode, round[n][e]}
      BY <2>1, <3>1, ObserveId
    <3> QED
      BY <2>1, <2>2, <3>1, <3>2, <3>3
  <2>3. CASE e \notin DOMAIN round[n]
    BY <2>1, <2>3
  <2> QED
    BY <2>2, <2>3
<1>3. ASSUME NEW e \in Endpoint
      PROVE  kept[e] \in ProbeState /\ FoundOut(n, kept[e]) /\ kept[e].id \in {Address[e], NoNode}
  <2>1. Unseen.id = NoNode
    BY DEF Unseen
  <2> QED
    BY <1>2, <2>1, UnseenType
<1> HIDE DEF seen
<1>4. ASSUME NEW p \in list
      PROVE  p.endpoint \in Endpoint /\ p.id = Address[p.endpoint] /\ p \in EmitPeer(p.endpoint, kept[p.endpoint])
  <2>1. PICK e \in Endpoint : p \in EmitPeer(e, kept[e])
    OBVIOUS
  <2>2. p.id = kept[e].id /\ p.endpoint = e /\ kept[e].id # NoNode
    BY <1>3, <2>1, EmitType
  <2> QED
    BY <1>3, <2>1, <2>2
<1>5. ASSUME NEW p \in list, NEW q \in list, p.endpoint = q.endpoint PROVE p = q
  <2> DEFINE e == p.endpoint
  <2>1. e \in Endpoint /\ p \in EmitPeer(e, kept[e]) /\ q \in EmitPeer(e, kept[e])
    BY <1>4, <1>5
  <2>2. EmitPeer(e, kept[e]) = {p}
    BY <1>3, <2>1, EmitType
  <2> QED
    BY <2>1, <2>2
<1>6. \A e \in Endpoint : kept[e].id \in {Address[e], NoNode}
  BY <1>3
<1> HIDE DEF kept, list
<1>7. \A m \in Member, e \in Endpoint : known'[m][e].id \in {Address[e], NoNode}
  BY <1>1, <1>6 DEF Inv, TypeOK, FixedInv
<1>8. \A m \in Member : /\ \A p \in peers'[m] : p.endpoint \in Endpoint /\ p.id = Address[p.endpoint]
                        /\ \A p, q \in peers'[m] : p.endpoint = q.endpoint => p = q
  BY <1>1, <1>4, <1>5 DEF Inv, TypeOK, FixedInv
<1>9. \A m \in Member : \A e \in DOMAIN round'[m] : round'[m][e] \in {Address[e], NoNode}
  BY <1>1 DEF Inv, FixedInv, NoRound
<1> QED
  BY <1>1, <1>7, <1>8, <1>9 DEF FixedInv

LEMMA FixedNext ==
  ASSUME FixedAddresses
  PROVE  Inv /\ FixedInv /\ [Next]_vars => FixedInv'
<1> SUFFICES ASSUME Inv, FixedInv, [Next]_vars PROVE FixedInv'
  OBVIOUS
<1>1. ASSUME NEW n \in Member, Probe(n) \/ Integrate(n) PROVE FixedInv'
  BY <1>1, FixedProbe, FixedIntegrate
<1>2. ASSUME NEW n \in Reconciling, NEW m \in Member, ReconcileWith(n, m) PROVE FixedInv'
  BY <1>2 DEF ReconcileWith, FixedInv
<1>3. ASSUME NEW m \in Node, Crash(m) PROVE FixedInv'
  <2>1. /\ known' = [n \in Member |-> IF n = m THEN [e \in Endpoint |-> Unseen] ELSE known[n]]
        /\ round' = [n \in Member |-> IF n = m THEN NoRound ELSE round[n]]
        /\ peers' = [n \in Member |-> IF n = m THEN {} ELSE peers[n]]
        /\ UNCHANGED addr
    BY <1>3 DEF Crash
  <2>2. Unseen.id = NoNode
    BY DEF Unseen
  <2>3. \A n \in Member, e \in Endpoint : known'[n][e].id \in {Address[e], NoNode}
    BY <2>1, <2>2 DEF FixedInv
  <2>4. \A n \in Member : \A e \in DOMAIN round'[n] : round'[n][e] \in {Address[e], NoNode}
    BY <2>1 DEF FixedInv, NoRound
  <2>5. \A n \in Member : /\ \A p \in peers'[n] : p.endpoint \in Endpoint /\ p.id = Address[p.endpoint]
                          /\ \A p, q \in peers'[n] : p.endpoint = q.endpoint => p = q
    BY <2>1 DEF FixedInv
  <2> QED
    BY <2>1, <2>3, <2>4, <2>5 DEF FixedInv
<1>4. ASSUME NEW m \in Node, Start(m) \/ Serve(m) PROVE FixedInv'
  BY <1>4 DEF Start, Serve, FixedInv
<1>5. ASSUME NEW f \in Endpoint, NEW e \in Endpoint, Move(f, e) PROVE FixedInv'
  <2>1. Address[e] = NoNode
    BY <1>5 DEF Move, FixedInv
  <2> QED
    BY <2>1 DEF FixedAddresses
<1>6. CASE Advance
  BY <1>6 DEF Advance, FixedInv
<1>7. CASE UNCHANGED vars
  BY <1>7 DEF vars, FixedInv
<1> QED
  BY <1>1, <1>2, <1>3, <1>4, <1>5, <1>6, <1>7 DEF Next

LEMMA FixedOneEntry ==
  ASSUME FixedAddresses, FixedInv, NEW n \in Member
  PROVE  OneEntryEach(n)
  BY DEF FixedAddresses, FixedInv, OneEntryEach, EligiblePeers

\* Decision H12: with one endpoint per node, the write gate opens only on a
\* quorum of distinct members, for any number of nodes and faults.
THEOREM GateNeedsMajority ==
  ASSUME FixedAddresses
  PROVE  Spec => []OpenGateIsMajority
<1>1. Inv /\ FixedInv => OpenGateIsMajority
  BY FixedOneEntry, OpenGateCounts DEF OpenGateIsMajority
<1>2. Inv /\ FixedInv /\ [Next]_vars => FixedInv'
  BY FixedNext
<1> QED
  BY <1>1, <1>2, FixedInit, MembershipInvariant, PTL DEF Spec

\* write_quorum is the majority of cluster_size, and no more members run.
MajorityQuorum == 2 * Quorum > Size /\ Cardinality(Member) <= Size

\* Decision H6: two nodes that admit writes at the same time count on a common
\* member, whatever either of them has missed: there is no split brain.
THEOREM NoSplitBrain ==
  ASSUME FixedAddresses, MajorityQuorum
  PROVE  Spec => []OpenGatesOverlap
<1>1. Inv /\ FixedInv => OpenGatesOverlap
  <2> SUFFICES ASSUME Inv, FixedInv, NEW n \in Member, NEW m \in Member,
                      WriteGate(n) = "open", WriteGate(m) = "open",
                      Counted(n) \cap Counted(m) = {}
               PROVE  FALSE
    BY DEF OpenGatesOverlap
  <2>1. /\ Counted(n) \subseteq Member /\ Counted(m) \subseteq Member
        /\ Cardinality(Counted(n) \cap Member) >= Quorum
        /\ Cardinality(Counted(m) \cap Member) >= Quorum
    BY FixedOneEntry, OpenGateCounts, CountedAreMembers
  <2>2. Counted(n) \cap Member = Counted(n) /\ Counted(m) \cap Member = Counted(m)
    BY <2>1
  <2>3. IsFiniteSet(Member)
    BY IdAssumption, FS_Subset DEF Member
  <2>4. IsFiniteSet(Counted(n)) /\ IsFiniteSet(Counted(m))
    BY <2>1, <2>3, FS_Subset
  <2>5. /\ Cardinality(Counted(n)) \in Nat /\ Cardinality(Counted(m)) \in Nat
        /\ Cardinality(Counted(n) \cup Counted(m)) \in Nat /\ Cardinality(Member) \in Nat
    BY <2>3, <2>4, FS_CardinalityType, FS_Union
  <2>6. Cardinality(Counted(n) \cup Counted(m)) = Cardinality(Counted(n)) + Cardinality(Counted(m))
    <3>1. Cardinality({}) = 0
      BY FS_EmptySet
    <3>2. Cardinality(Counted(n) \cup Counted(m))
            = Cardinality(Counted(n)) + Cardinality(Counted(m)) - Cardinality(Counted(n) \cap Counted(m))
      BY <2>4, FS_Union
    <3>3. Counted(n) \cap Counted(m) = {}
      OBVIOUS
    <3>4. Cardinality(Counted(n) \cap Counted(m)) = 0
      BY <3>1, <3>3
    <3> QED
      BY <2>5, <3>2, <3>4
  <2>7. Cardinality(Counted(n) \cup Counted(m)) <= Cardinality(Member)
    <3>1. Counted(n) \cup Counted(m) \subseteq Member
      BY <2>1
    <3> QED
      BY <2>3, <3>1, FS_Subset
  <2>8. Cardinality(Counted(n)) >= Quorum /\ Cardinality(Counted(m)) >= Quorum
    BY <2>1, <2>2
  <2>9. 2 * Quorum > Size /\ Cardinality(Member) <= Size /\ Quorum \in Nat /\ Size \in Nat
    BY MajorityQuorum, ConfigAssumption DEF MajorityQuorum
  <2> QED
    BY <2>5, <2>6, <2>7, <2>8, <2>9
<1>2. Inv /\ FixedInv /\ [Next]_vars => FixedInv'
  BY FixedNext
<1> QED
  BY <1>1, <1>2, FixedInit, MembershipInvariant, PTL DEF Spec
==============================================================================
