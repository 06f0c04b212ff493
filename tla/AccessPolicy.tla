--------------------------- MODULE AccessPolicy ---------------------------
(* The decision on a request: authentication at the two front doors (the S3 *)
(* router and the administration router), the effective policies of the     *)
(* user, and the evaluation of their statements with the wildcard matcher,   *)
(* loop by loop as the code runs it.                                         *)
EXTENDS Naturals, Sequences, FiniteSets, TLC

CONSTANTS Star, Quest,  \* the characters '*' and '?'
          Slash, All,   \* '/' and the first character of every resource name
          Paths,        \* <<bucket, key>> sequences of characters, key may be empty
          Policies,     \* sequences of policy documents a user may have
          Moments,      \* how long ago a request was signed
          Expiries,     \* X-Amz-Expires
          MaxExpires,   \* MAX_PRESIGN_EXPIRES
          Window        \* REPLAY_WINDOW_SECS

VARIABLES q,     \* the request
          pc, docs, i, j, k, found,   \* evaluate_grants, evaluate_policy, evaluate_statement
          pat, txt, pi, ti, spi, sti, \* glob_match
          decision

vars == <<q, pc, docs, i, j, k, found, pat, txt, pi, ti, spi, sti, decision>>
globVars == <<pat, txt, pi, ti, spi, sti>>

NoStar == 0

---------------------------------------------------------------------------
(* Requests *)

Via == [via : {"header"}, age : Moments, expires : {0}] \cup [via : {"query"}, age : Moments, expires : Expiries]
       \cup [via : {"none"}, age : {0}, expires : {0}]
Cred == {"active", "inactive", "absent"}
Caller == {"root", "plain", "missing"}

Methods == {"GET", "HEAD", "PUT", "DELETE", "POST"}
Flags == {"none", "encryption", "location", "delete"}
S3 == 1
Arca == 2
Act(ns, name) == <<ns, name>>

(* determine_s3_action_resource *)
Resource(p) == IF p[2] = <<>> THEN <<All>> \o p[1] ELSE <<All>> \o p[1] \o <<Slash>> \o p[2]
determine_s3_action_resource(m, p, f) ==
    CASE p[1] = <<>> -> [action |-> Act(S3, "ListAllMyBuckets"), resource |-> <<Star>>]
      [] p[1] # <<>> /\ p[2] # <<>> ->
            [action |-> Act(S3, CASE m \in {"PUT", "POST"} -> "PutObject"
                                  [] m = "DELETE" -> "DeleteObject"
                                  [] OTHER -> "GetObject"),
             resource |-> Resource(p)]
      [] OTHER ->
            [action |-> Act(S3, CASE m = "PUT" /\ f = "encryption" -> "PutBucketEncryption"
                                  [] m = "PUT" /\ f # "encryption" -> "CreateBucket"
                                  [] m = "DELETE" /\ f = "encryption" -> "DeleteBucketEncryption"
                                  [] m = "DELETE" /\ f # "encryption" -> "DeleteBucket"
                                  [] m = "POST" /\ f = "delete" -> "DeleteObject"
                                  [] m \in {"GET", "HEAD"} /\ f = "encryption" -> "GetBucketEncryption"
                                  [] m \in {"GET", "HEAD"} /\ f = "location" -> "GetBucketLocation"
                                  [] OTHER -> "ListBucket"),
             resource |-> Resource(p)]

Section == {"users", "teams", "grants", "credentials", "info", "presign", "archive", "other"}

(* determine_admin_action *)
determine_admin_action(s) ==
    CASE s = "users" -> Act(Arca, "ManageUsers")
      [] s = "teams" -> Act(Arca, "ManageTeams")
      [] s = "grants" -> Act(Arca, "ManageGrants")
      [] s = "credentials" -> Act(Arca, "ManageCredentials")
      [] s = "info" -> Act(Arca, "ViewServerInfo")
      [] s = "presign" -> Act(Arca, "CreatePresignedUrl")
      [] s = "archive" -> Act(Arca, "CreateArchive")
      [] OTHER -> Act(Arca, "*")

Targets ==
    {[door |-> "s3"] @@ determine_s3_action_resource(m, p, f) : m \in Methods, p \in Paths, f \in Flags}
    \cup {[door |-> "admin", action |-> determine_admin_action(s), resource |-> <<Star>>] : s \in Section}

---------------------------------------------------------------------------
(* Authentication: who the request comes from, or why it is refused *)

(* within_replay_window and the expiry of a presigned URL *)
within_replay_window(age) == age <= Window
Unexpired(v) == v.expires <= MaxExpires /\ v.age <= v.expires

(* Mutant of authenticate_s3: an inactive key is refused on the header path only. *)
AuthenticateS3Inactive(v, c, u) ==
    CASE v.via = "none" -> "AccessDenied"
      [] v.via = "query" /\ ~Unexpired(v) -> "AccessDenied"
      [] c = "absent" \/ (v.via = "header" /\ c # "active") -> "InvalidAccessKeyId"
      [] v.via = "header" /\ ~within_replay_window(v.age) -> "AccessDenied"
      [] u = "missing" -> "AccessDenied"
      [] OTHER -> "ok"
(* auth_middleware: header first, then query string; the key is looked up     *)
(* before the date of a header and after the expiry of a URL; the signature   *)
(* is taken as right; then resolve_identity                                    *)
authenticate_s3(v, c, u) ==
    CASE v.via = "none" -> "AccessDenied"
      [] v.via = "query" /\ ~Unexpired(v) -> "AccessDenied"
      [] c # "active" -> "InvalidAccessKeyId"
      [] v.via = "header" /\ ~within_replay_window(v.age) -> "AccessDenied"
      [] u = "missing" -> "AccessDenied"
      [] OTHER -> "ok"

(* authenticate_request: the administration router's own copy of the same steps *)
authenticate_admin(v, c, u) ==
    CASE v.via = "header" ->
            (CASE c # "active" -> "InvalidAccessKeyId"
               [] ~within_replay_window(v.age) -> "AccessDenied"
               [] u = "missing" -> "AccessDenied"
               [] OTHER -> "ok")
      [] v.via = "query" ->
            (CASE v.expires > MaxExpires -> "AccessDenied"
               [] v.expires <= MaxExpires /\ v.age > v.expires -> "AccessDenied"
               [] v.expires <= MaxExpires /\ v.age <= v.expires /\ c # "active" -> "InvalidAccessKeyId"
               [] v.expires <= MaxExpires /\ v.age <= v.expires /\ c = "active" /\ u = "missing" -> "AccessDenied"
               [] OTHER -> "ok")
      [] OTHER -> "AccessDenied"

Authenticated(r) ==
    IF r.door = "s3" THEN authenticate_s3(r.v, r.cred, r.user) ELSE authenticate_admin(r.v, r.cred, r.user)

---------------------------------------------------------------------------
(* Policy documents *)

ALL_KNOWN == {Act(S3, n) : n \in {"ListAllMyBuckets", "PutObject", "DeleteObject", "GetObject", "CreateBucket",
                                  "DeleteBucket", "PutBucketEncryption", "DeleteBucketEncryption",
                                  "GetBucketEncryption", "GetBucketLocation", "ListBucket"}}
             \cup {determine_admin_action(s) : s \in Section \ {"other"}}

(* is_valid_action, is_valid_resource, validate_policy_document *)
is_valid_action(a) == a \in ALL_KNOWN \cup {<<"*">>, <<S3, "*">>, <<Arca, "*">>}
is_valid_resource(r) == r = <<Star>> \/ (r # <<>> /\ r[1] = All)
validate_policy_document(doc) ==
    /\ doc # <<>>
    /\ \A s \in 1..Len(doc) : /\ doc[s].action # {} /\ doc[s].resource # <<>>
                              /\ \A a \in doc[s].action : is_valid_action(a)
                              /\ \A r \in 1..Len(doc[s].resource) : is_valid_resource(doc[s].resource[r])

(* matches_action: a final '*' stands for any rest *)
matches_action(p, a) ==
    \/ p = <<"*">>
    \/ p = a
    \/ Len(p) = 2 /\ p[2] = "*" /\ p[1] = a[1]

Init ==
    /\ \E t \in Targets, v \in Via, c \in Cred, u \in Caller, d \in Policies :
         /\ u # "plain" => d = <<>>
         /\ v.via # "header" \/ v.age > 0 \/ c # "active" => d = <<>>
         /\ \A n \in 1..Len(d) : validate_policy_document(d[n])
         /\ q = t @@ [v |-> v, cred |-> c, user |-> u]
         /\ docs = d
    /\ pc = "arrived" /\ i = 1 /\ j = 1 /\ k = 1 /\ found = FALSE
    /\ pat = <<>> /\ txt = <<>> /\ pi = 1 /\ ti = 1 /\ spi = NoStar /\ sti = 1
    /\ decision = "none"

Decide(d) == decision' = d /\ pc' = "done" /\ UNCHANGED <<q, docs, i, j, k, found>> /\ UNCHANGED globVars

(* The middleware up to the policies; root needs none *)
Authenticate ==
    /\ pc = "arrived"
    /\ \/ Authenticated(q) # "ok" /\ Decide(Authenticated(q))
       \/ Authenticated(q) = "ok" /\ q.user = "root" /\ Decide("Allow")
       \/ /\ Authenticated(q) = "ok" /\ q.user # "root"
          /\ pc' = "statement" /\ UNCHANGED <<q, docs, i, j, k, found, decision>> /\ UNCHANGED globVars

Statement == docs[i][j]

(* The next statement, document by document *)
NextStatement == IF j < Len(docs[i]) THEN <<i, j + 1>> ELSE <<i + 1, 1>>

Advance ==
    /\ pc' = "statement" /\ i' = NextStatement[1] /\ j' = NextStatement[2] /\ k' = 1
    /\ UNCHANGED <<q, docs, decision>> /\ UNCHANGED globVars

(* The loops are over: an allow was found, or nothing matched *)
EndOfGrants ==
    /\ pc = "statement" /\ i > Len(docs)
    /\ Decide(IF found THEN "Allow" ELSE "AccessDenied")

(* evaluate_statement: actions first, then the resources in turn *)
TryAction ==
    /\ pc = "statement" /\ i <= Len(docs)
    /\ IF \E a \in Statement.action : matches_action(a, q.action)
       THEN pc' = "resource" /\ k' = 1 /\ UNCHANGED <<q, docs, i, j, found, decision>> /\ UNCHANGED globVars
       ELSE Advance /\ UNCHANGED found

(* A statement matches: Deny returns at once, Allow is remembered *)
Matched ==
    IF Statement.effect = "Deny" THEN Decide("AccessDenied")
    ELSE Advance /\ found' = TRUE

(* matches_resource: "*" matches anything, else glob_match starts on the pattern *)
TryResource ==
    /\ pc = "resource"
    /\ IF k > Len(Statement.resource) THEN Advance /\ UNCHANGED found
       ELSE IF Statement.resource[k] = <<Star>> THEN Matched
       ELSE /\ pc' = "glob" /\ pat' = Statement.resource[k] /\ txt' = q.resource
            /\ pi' = 1 /\ ti' = 1 /\ spi' = NoStar /\ sti' = 1
            /\ UNCHANGED <<q, docs, i, j, k, found, decision>>

Unmatched == /\ pc' = "resource" /\ k' = k + 1
             /\ UNCHANGED <<q, docs, i, j, found, decision>> /\ UNCHANGED globVars

Same == UNCHANGED <<q, pc, docs, i, j, k, found, decision, pat, txt>>

(* glob_match: one turn of its loop *)
MatchOne == /\ pi <= Len(pat) /\ (pat[pi] = Quest \/ pat[pi] = txt[ti])
            /\ pi' = pi + 1 /\ ti' = ti + 1 /\ UNCHANGED <<spi, sti>> /\ Same
TakeStar == /\ pi <= Len(pat) /\ pat[pi] # Quest /\ pat[pi] # txt[ti] /\ pat[pi] = Star
            /\ spi' = pi /\ sti' = ti /\ pi' = pi + 1 /\ UNCHANGED ti /\ Same
Stuck == IF pi > Len(pat) THEN TRUE ELSE pat[pi] \notin {Quest, Star, txt[ti]}

(* Mutant of Backtrack: the last star is given up instead of taking one more character. *)
BacktrackOnce == Stuck /\ spi # NoStar /\ pi' = spi + 1 /\ ti' = sti + 1 /\ spi' = NoStar /\ UNCHANGED sti /\ Same
(* Mutant of Backtrack: the text the star took is not one longer than before. *)
BacktrackStill == Stuck /\ spi # NoStar /\ pi' = spi + 1 /\ ti' = sti /\ UNCHANGED <<spi, sti>> /\ Same
(* The last star takes one more character *)
Backtrack == Stuck /\ spi # NoStar /\ pi' = spi + 1 /\ sti' = sti + 1 /\ ti' = sti + 1 /\ UNCHANGED spi /\ Same

(* The rest of the pattern must be stars *)
EndOfText == IF \A n \in pi..Len(pat) : pat[n] = Star THEN Matched ELSE Unmatched

GlobStep ==
    /\ pc = "glob"
    /\ IF ti <= Len(txt)
       THEN MatchOne \/ TakeStar \/ Backtrack \/ (Stuck /\ spi = NoStar /\ Unmatched)
       ELSE EndOfText

Next == Authenticate \/ EndOfGrants \/ TryAction \/ TryResource \/ GlobStep
Spec == Init /\ [][Next]_vars

(* The middleware runs to its end. *)
FairSpec == Spec /\ WF_vars(Next)

---------------------------------------------------------------------------
(* Properties *)

TypeOK ==
    /\ pc \in {"arrived", "statement", "resource", "glob", "done"}
    /\ found \in BOOLEAN
    /\ i \in 1..(Len(docs) + 1)
    /\ pi \in 1..(Len(pat) + 1) /\ ti \in 1..(Len(txt) + 1) /\ sti <= Len(txt) + 1 /\ spi <= Len(pat)
    /\ decision \in {"none", "Allow", "AccessDenied", "InvalidAccessKeyId"}

(* What a pattern means: '*' any run of characters, '?' any one *)
Means(p, t) ==
    LET f[a \in 1..(Len(p) + 1), b \in 1..(Len(t) + 1)] ==
          IF a > Len(p) THEN b > Len(t)
          ELSE IF p[a] = Star THEN \E c \in b..(Len(t) + 1) : f[a + 1, c]
          ELSE b <= Len(t) /\ (p[a] = Quest \/ p[a] = t[b]) /\ f[a + 1, b + 1]
    IN f[1, 1]

Applies(s) == /\ \E a \in s.action : matches_action(a, q.action)
              /\ \E r \in 1..Len(s.resource) : Means(s.resource[r], q.resource)
Statements == UNION {{docs[d][s] : s \in 1..Len(docs[d])} : d \in 1..Len(docs)}

(* Whatever the order of documents, statements and patterns, and however the *)
(* matcher backtracks: a user other than root is let in exactly if some       *)
(* statement allows the request and none denies it.                           *)
DecisionIsRight ==
    pc = "done" /\ q.user = "plain" /\ Authenticated(q) = "ok" =>
      (decision = "Allow") = /\ \E s \in Statements : s.effect = "Allow" /\ Applies(s)
                             /\ \A s \in Statements : s.effect = "Deny" => ~Applies(s)

(* The two copies of the authentication agree on every request. *)
DoorsAgree == authenticate_s3(q.v, q.cred, q.user) = authenticate_admin(q.v, q.cred, q.user)

(* The matcher's loop ends on every pattern and text. *)
Decided == pc = "done"
DecisionIsMade == <>Decided
===========================================================================
