-------------------------- MODULE ClusterSecret --------------------------
(* Authentication between the nodes of a cluster, and the rotation of the   *)
(* shared secret: the signature a node puts on a request, what the network  *)
(* and the HTTP layers may do to it, the checks of the receiver with its    *)
(* current and previous secret, the challenge answered in a ping, and the   *)
(* rolling restart by which operators replace the secret.                   *)
EXTENDS Naturals, Sequences, FiniteSets

CONSTANTS Node,
          Queries,   \* query strings: sequences of <<name, value>>
          Extras,    \* sequences of further signed headers <<name, <<spaces, value>>>>
          Window,    \* REPLAY_WINDOW_SECS
          MaxAge,    \* how long a request may be under way
          MaxSends   \* bound on the requests sent

VARIABLES file,    \* [secret, previous] in each node's configuration file
          conf,    \* the same in the running process
          up,      \* the nodes that are running
          step,    \* the step of the runbook the operator is at
          fresh,   \* the nodes restarted since the step began
          req,     \* the request under way
          reply,   \* the answer under way
          result,  \* what the last exchange ended in
          sends

vars == <<file, conf, up, step, fresh, req, reply, result, sends>>

None == [state |-> "none"]
Old == [secret |-> "old", previous |-> "none"]
Both == [secret |-> "new", previous |-> "old"]
New == [secret |-> "new", previous |-> "none"]

---------------------------------------------------------------------------
(* SigV4, with the hash and the MAC as one-to-one functions: a signature is *)
(* the tuple of everything it was computed from                              *)

CLUSTER_ACCESS_KEY == "cluster"

(* uri_encode and the sort: the pairs of the query, each as often as it occurs *)
canonical_query_string(q) ==
    {<<q[i], Cardinality({j \in DOMAIN q : q[j] = q[i]})>> : i \in DOMAIN q}

(* Mutant of trim_header_value: spaces around a value are signed with it. *)
TrimNothing(v) == v
(* trim_header_value: the value without the spaces around it *)
trim_header_value(v) == v[2]

(* canonical_headers: for each signed name the values it has, in their order; *)
(* headers that are not signed are left out                                    *)
canonical_headers(h, names) ==
    [n \in names |-> [i \in DOMAIN SelectSeq(h, LAMBDA e : e[1] = n) |->
                        trim_header_value(SelectSeq(h, LAMBDA e : e[1] = n)[i][2])]]

(* Mutant of canonical_request: the path is not covered. *)
CanonicalWithoutPath(r, names) ==
    <<r.method, "", canonical_query_string(r.query), canonical_headers(r.headers, names), names, "UNSIGNED-PAYLOAD">>
(* canonical_request *)
canonical_request(r, names) ==
    <<r.method, r.path, canonical_query_string(r.query), canonical_headers(r.headers, names), names, "UNSIGNED-PAYLOAD">>

(* signing_key, string_to_sign, compute_signature *)
compute_signature(secret, date, canonical) == <<secret, date, canonical>>

(* sign_outbound_request: every header present is signed *)
sign_outbound_request(r, secret) ==
    LET names == {r.headers[i][1] : i \in DOMAIN r.headers}
    IN [key |-> CLUSTER_ACCESS_KEY, names |-> names,
        signature |-> compute_signature(secret, 0, canonical_request(r, names))]

(* verify_request: the same computation over what arrived *)
verify_request(r, auth, secret) ==
    auth.signature = compute_signature(secret, 0, canonical_request(r, auth.names))

---------------------------------------------------------------------------
(* Requests *)

(* base_signed_headers: the host and the node the request comes from *)
base_signed_headers(a) == <<<<"host", <<0, "peer">>>>, <<"source", <<0, a>>>>>>

Init ==
    /\ file = [n \in Node |-> Old] /\ conf = file /\ up = Node
    /\ step = "edit" /\ fresh = {}
    /\ req = None /\ reply = None /\ result = None /\ sends = 0

(* ClusterClient::sign: the current secret, never the previous one *)
SignedBy(a, r) == sign_outbound_request(r, conf[a].secret)

(* ClusterClient::ping and the other calls: signed with the current secret only *)
Send(a, b, q, x) ==
    /\ req = None /\ reply = None /\ a \in up /\ a # b /\ sends < MaxSends
    /\ LET r == [method |-> "GET", path |-> "ping", query |-> q, headers |-> base_signed_headers(a) \o x]
       IN req' = [state |-> "sent", from |-> a, to |-> b, sent |-> r, now |-> r,
                  auth |-> SignedBy(a, r), secret |-> conf[a].secret, age |-> 0]
    /\ sends' = sends + 1 /\ result' = None
    /\ UNCHANGED <<file, conf, up, step, fresh, reply>>

(* What HTTP leaves open: the order of headers of different names and of the  *)
(* query, spaces around values, headers added on the way.                     *)
Swapped(s, i) == [s EXCEPT ![i] = s[i + 1], ![i + 1] = s[i]]
Rewritten(r) ==
    {[r EXCEPT !.headers = Append(@, <<"via", <<0, "proxy">>>>)]}
    \cup {[r EXCEPT !.headers[i][2][1] = 1] : i \in DOMAIN r.headers}
    \cup {[r EXCEPT !.headers = Swapped(@, i)] :
            i \in {j \in 1..(Len(r.headers) - 1) : r.headers[j][1] # r.headers[j + 1][1]}}
    \cup {[r EXCEPT !.query = Swapped(@, i)] : i \in 1..(Len(r.query) - 1)}

(* A fault on the way that changes what was asked *)
Damaged(r) ==
    {[r EXCEPT !.path = "other"]}
    \cup {[r EXCEPT !.query = Tail(@)] : i \in 1..(IF r.query = <<>> THEN 0 ELSE 1)}
    \cup {[r EXCEPT !.headers[i][2][2] = "damaged"] : i \in DOMAIN r.headers}

Travel ==
    /\ req.state = "sent" /\ reply = None /\ req.now = req.sent
    /\ \E r \in Rewritten(req.sent) \cup Damaged(req.sent) : req' = [req EXCEPT !.now = r]
    /\ UNCHANGED <<file, conf, up, step, fresh, reply, result, sends>>

Delay ==
    /\ req.state = "sent" /\ reply = None /\ req.age < MaxAge
    /\ req' = [req EXCEPT !.age = @ + 1]
    /\ UNCHANGED <<file, conf, up, step, fresh, reply, result, sends>>

(* within_replay_window *)
within_replay_window(age) == age <= Window

Source(r) == LET s == SelectSeq(r.headers, LAMBDA e : e[1] = "source") IN s[1][2][2]

(* Mutant of Candidates: the previous secret alone is tried while there is one. *)
CandidatesPrevious(n) == {IF conf[n].previous # "none" THEN conf[n].previous ELSE conf[n].secret}
(* The secrets tried: the current one, then the previous one *)
Candidates(n) == {conf[n].secret} \cup ({conf[n].previous} \ {"none"})

(* Mutant of MatchedClusterSecret: the answer is always keyed with the current secret. *)
MatchedCurrent(n) == conf[n].secret
(* MatchedClusterSecret: the secret the request verified under *)
MatchedClusterSecret(n) == CHOOSE s \in Candidates(n) : verify_request(req.now, req.auth, s)

Ended(a, outcome) == [state |-> outcome, from |-> req.from, to |-> req.to, sent |-> req.sent, now |-> req.now,
                      secret |-> req.secret, peer |-> conf[req.to], accepted |-> a]

(* cluster_auth_middleware, then the handler (ping: the challenge is MACed) *)
Receive ==
    /\ req.state = "sent" /\ reply = None /\ req.to \in up
    /\ LET n == req.to
           outcome == IF Source(req.now) = n THEN "loop"
                      ELSE IF req.auth.key # CLUSTER_ACCESS_KEY THEN "key"
                      ELSE IF ~within_replay_window(req.age) THEN "stale"
                      ELSE IF \E s \in Candidates(n) : verify_request(req.now, req.auth, s) THEN "ok"
                      ELSE "signature"
       IN IF outcome = "ok"
          THEN reply' = [state |-> "sent", mac |-> MatchedClusterSecret(n)] /\ UNCHANGED <<req, result>>
          ELSE reply' = None /\ result' = Ended(FALSE, outcome) /\ req' = None
    /\ UNCHANGED <<file, conf, up, step, fresh, sends>>

(* probe_peer: the answer proves the peer if its MAC is keyed by either secret *)
Answer ==
    /\ reply.state = "sent"
    /\ result' = Ended(TRUE, IF reply.mac \in {conf[req.from].secret, conf[req.from].previous}
                             THEN "proven" ELSE "bad_mac")
    /\ req' = None /\ reply' = None
    /\ UNCHANGED <<file, conf, up, step, fresh, sends>>

(* A request with no answer ends in the client's time-out *)
TimeOut ==
    /\ req.state = "sent" /\ (req.to \notin up \/ req.age = MaxAge)
    /\ req' = None /\ reply' = None
    /\ UNCHANGED <<file, conf, up, step, fresh, result, sends>>

---------------------------------------------------------------------------
(* The runbook: edit every file, restart the nodes one by one, then drop the *)
(* previous secret and restart again                                          *)

Edit(n) ==
    /\ step \in {"edit", "drop"}
    /\ file' = [file EXCEPT ![n] = IF step = "edit" THEN Both ELSE New]
    /\ file' # file
    /\ UNCHANGED <<conf, up, step, fresh, req, reply, result, sends>>

Roll ==
    /\ step \in {"edit", "drop"} /\ \A n \in Node : file[n] = IF step = "edit" THEN Both ELSE New
    /\ step' = IF step = "edit" THEN "roll" ELSE "reroll"
    /\ fresh' = {}
    /\ UNCHANGED <<file, conf, up, req, reply, result, sends>>

(* A stopping node takes the requests it sent, and those it was answering, with it *)
Stop(n) ==
    /\ step \in {"roll", "reroll"} /\ up = Node /\ n \notin fresh
    /\ up' = up \ {n}
    /\ IF req # None /\ (req.from = n \/ (req.to = n /\ reply # None))
       THEN req' = None /\ reply' = None
       ELSE UNCHANGED <<req, reply>>
    /\ UNCHANGED <<file, conf, step, fresh, result, sends>>

(* ClusterConfig::validate refuses a previous secret equal to the current one *)
Valid(c) == c.previous # c.secret

Start(n) ==
    /\ n \notin up /\ Valid(file[n])
    /\ conf' = [conf EXCEPT ![n] = file[n]]
    /\ up' = up \cup {n} /\ fresh' = fresh \cup {n}
    /\ UNCHANGED <<file, step, req, reply, result, sends>>

NextStep ==
    /\ step \in {"roll", "reroll"} /\ fresh = Node
    /\ step' = IF step = "roll" THEN "drop" ELSE "done"
    /\ UNCHANGED <<file, conf, up, fresh, req, reply, result, sends>>

Next ==
    \/ \E a, b \in Node, q \in Queries, x \in Extras : Send(a, b, q, x)
    \/ Travel \/ Delay \/ Receive \/ Answer \/ TimeOut
    \/ \E n \in Node : Edit(n) \/ Stop(n) \/ Start(n)
    \/ Roll \/ NextStep

Spec == Init /\ [][Next]_vars

---------------------------------------------------------------------------
(* Properties *)

TypeOK ==
    /\ file \in [Node -> {Old, Both, New}] /\ conf \in [Node -> {Old, Both, New}]
    /\ up \subseteq Node /\ fresh \subseteq Node
    /\ step \in {"edit", "roll", "drop", "reroll", "done"}
    /\ req.state \in {"none", "sent"} /\ reply.state \in {"none", "sent"}
    /\ result.state \in {"none", "loop", "key", "stale", "signature", "proven", "bad_mac"}
    /\ reply # None => req # None

Asked(r) == <<r.method, r.path, canonical_query_string(r.query), Source(r)>>

(* A request that is carried out is the one its sender made, whatever became *)
(* of its bytes on the way.                                                    *)
CarriedOutAsSent == result # None /\ result.accepted => Asked(result.now) = Asked(result.sent)

Legal == result.now \in {result.sent} \cup Rewritten(result.sent)

(* At every moment of the rotation, whichever of the two nodes has been       *)
(* restarted: a peer still on the old secret is heard by everyone, and nodes  *)
(* that both have the new secret hear each other, reordered and padded        *)
(* headers notwithstanding.                                                    *)
RotationKeepsPeers ==
    result # None /\ result.state = "signature" /\ Legal
    => result.secret = "new" /\ result.peer = Old

(* Whoever is heard can also check the answer: a ping never ends in a bad MAC *)
(* between nodes of this cluster, on either side of the rotation.              *)
AnswerIsProven == result.state # "bad_mac"

(* The guide's claim for the restart: requests flow in both directions. *)
BothDirections == result # None /\ Legal => result.state # "signature"
===========================================================================
