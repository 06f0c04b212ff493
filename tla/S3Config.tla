------------------------------ MODULE S3Config ------------------------------
(* The configuration documents of a bucket: a client PUTs a lifecycle,     *)
(* replication, notification or Object Lock document or a tag set, the     *)
(* server parses, validates and stores it, a GET renders what is stored,   *)
(* and tools PUT back what they GOT.  The server acts on what it stored;   *)
(* the client only knows the document it sent.                             *)
(*                                                                         *)
(* An optional element is a set of at most one value ({}: absent).  Names  *)
(* are numbers; 0 is the empty string.  A document is refused or accepted  *)
(* whole.                                                                  *)
EXTENDS Integers, Sequences, FiniteSets

CONSTANTS
  Kind,            \* the kinds of document under study
  LifecycleDocs, ReplicationDocs, NotificationDocs, LockDocs, RetentionDocs, HoldDocs, TagDocs,
  CompressionDocs, AlgorithmDocs, StatusDocs,
  EncryptByDefault,   \* encryption_enabled of the server
  Subjects         \* objects: [under: prefixes and suffixes of the key, tags]

VARIABLES
  kind,            \* the kind of this behaviour
  asked,           \* the document last accepted
  stored,          \* the configuration in bucket_config
  view,            \* the document of the last GET
  viewed           \* the configuration that GET rendered

vars == <<kind, asked, stored, view, viewed>>

None == {}
The(o) == CHOOSE x \in o : TRUE
OrElse(o, d) == IF o = None THEN d ELSE The(o)

Refused == {}
Accept(c) == {c}

(* Every rule of a document parses, or the document is refused. *)
Collect(rs) == IF \E i \in DOMAIN rs : rs[i] = Refused THEN Refused
               ELSE Accept([i \in DOMAIN rs |-> The(rs[i])])

DistinctIds(rs) == \A i, j \in DOMAIN rs : rs[i].id = rs[j].id /\ rs[i].id # 0 => i = j

----------------------------------------------------------------------------
(* Filters.  A document's filter holds <Prefix>, <Tag> or <And>. *)

Everything == [form |-> "Empty", prefix |-> None, tags |-> {}]

(* Mutant of ParseFilter: an <And> without a prefix loses its tags. *)
ParseFilterAnd(f) ==
  IF f = None THEN Everything
  ELSE LET d == The(f) IN
       IF d.and # None
         THEN [form |-> "And", prefix |-> The(d.and).prefix,
               tags |-> IF The(d.and).prefix = None THEN {} ELSE The(d.and).tags]
       ELSE IF d.tag # None THEN [form |-> "Tag", prefix |-> None, tags |-> d.tag]
       ELSE IF d.prefix \in {None, {0}} THEN Everything
       ELSE [form |-> "Prefix", prefix |-> d.prefix, tags |-> {}]

ParseFilter(f) ==
  IF f = None THEN Everything
  ELSE LET d == The(f) IN
       IF d.and # None
         THEN [form |-> "And", prefix |-> The(d.and).prefix, tags |-> The(d.and).tags]
       ELSE IF d.tag # None THEN [form |-> "Tag", prefix |-> None, tags |-> d.tag]
       ELSE IF d.prefix \in {None, {0}} THEN Everything
       ELSE [form |-> "Prefix", prefix |-> d.prefix, tags |-> {}]

write_filter_xml(f) ==
  {[and    |-> IF f.form = "And" THEN {[prefix |-> f.prefix, tags |-> f.tags]} ELSE None,
    tag    |-> IF f.form = "Tag" THEN f.tags ELSE None,
    prefix |-> IF f.form = "Prefix" THEN f.prefix
               ELSE IF f.form = "Empty" THEN {0} ELSE None]}

(* LifecycleFilter::prefix and tags: what the worker selects by. *)
Selects(f, o) == f.prefix \ {0} \subseteq o.under /\ f.tags \subseteq o.tags

(* Replication also accepts the older <Prefix> directly under the rule. *)
ParseReplicationFilter(f, legacy) ==
  IF f # None \/ legacy \in {None, {0}} THEN ParseFilter(f)
  ELSE [form |-> "Prefix", prefix |-> legacy, tags |-> {}]

WriteReplicationFilter(f) == write_filter_xml(f)

ReplicationFilterMatches(f, o) == Selects(f, o)

----------------------------------------------------------------------------
(* Lifecycle *)

ParseExpiration(x) ==
  IF x.days # None THEN Accept([what |-> "Days", value |-> The(x.days)])
  ELSE IF x.date # None THEN Accept([what |-> "Date", value |-> The(x.date)])
  ELSE IF x.marker # None THEN Accept([what |-> "Marker", value |-> The(x.marker)])
  ELSE Refused

ParseNoncurrent(x) ==
  IF x.days = None /\ x.newer = None THEN Refused
  ELSE Accept([days |-> OrElse(x.days, 0), newer |-> x.newer])

(* An action of a rule: absent, parsed, or a reason to refuse. *)
Optional(x, p) == IF x = None THEN Accept(None) ELSE IF p = Refused THEN Refused ELSE Accept(p)

ParseLifecycleRule(r) ==
  LET exp == Optional(r.expiration, UNION {ParseExpiration(x) : x \in r.expiration})
      nve == Optional(r.noncurrent, UNION {ParseNoncurrent(x) : x \in r.noncurrent})
  IN IF r.status \notin {"Enabled", "Disabled"} \/ exp = Refused \/ nve = Refused \/ r.abort = {None}
     THEN Refused
     ELSE Accept([id |-> OrElse(r.id, 0), status |-> r.status, filter |-> ParseFilter(r.filter),
                  expiration |-> The(exp), noncurrent |-> The(nve), abort |-> UNION r.abort])

LifecycleValid(rs) ==
  /\ rs # <<>>
  /\ \A i \in DOMAIN rs :
       /\ rs[i].expiration \union rs[i].noncurrent # {} \/ rs[i].abort # {}
       /\ \A x \in rs[i].expiration : ~(x.what = "Days" /\ x.value = 0)
       /\ \A x \in rs[i].noncurrent : x.days # 0
       /\ rs[i].abort # {0}
  /\ DistinctIds(rs)

Validated(parsed, Valid(_)) == {c \in parsed : Valid(c)}

parse_lifecycle_configuration_xml(d) ==
  Validated(Collect([i \in DOMAIN d |-> ParseLifecycleRule(d[i])]), LifecycleValid)

lifecycle_configuration_to_xml(c) ==
  [i \in DOMAIN c |->
    [id |-> {c[i].id}, status |-> c[i].status, filter |-> write_filter_xml(c[i].filter),
     prefix |-> None,
     expiration |-> {[days   |-> IF x.what = "Days" THEN {x.value} ELSE None,
                      date   |-> IF x.what = "Date" THEN {x.value} ELSE None,
                      marker |-> IF x.what = "Marker" THEN {x.value} ELSE None] : x \in c[i].expiration},
     noncurrent |-> {[days  |-> IF x.days > 0 THEN {x.days} ELSE None,
                      newer |-> x.newer] : x \in c[i].noncurrent},
     abort |-> IF c[i].abort = {} THEN {} ELSE {c[i].abort}]]

(* What the worker does to an object on a stored rule's account. *)
LifecycleEffect(c, o) ==
  UNION {LET r == c[i] IN
         {<<"expire", x.what, x.value>> : x \in r.expiration}
           \union {<<"noncurrent", x.days, OrElse(x.newer, -1)>> : x \in r.noncurrent}
           \union {<<"abort", n, 0>> : n \in r.abort} :
         i \in {j \in DOMAIN c : c[j].status = "Enabled" /\ Selects(c[j].filter, o)}}

----------------------------------------------------------------------------
(* Replication *)

normalize_bucket(b) == b.name

parse_status(s) == IF s \in {"Enabled", "Disabled"} THEN Accept(s) ELSE Refused

ParseReplicationRule(r) ==
  LET dm == IF r.markers = None THEN Accept("Enabled") ELSE parse_status(The(r.markers)) IN
  IF parse_status(r.status) = Refused \/ dm = Refused THEN Refused
  ELSE Accept([id |-> OrElse(r.id, 0), status |-> r.status, priority |-> OrElse(r.priority, 0),
               filter |-> ParseReplicationFilter(r.filter, r.prefix),
               bucket |-> normalize_bucket(r.bucket), endpoint |-> OrElse(r.endpoint, 0),
               region |-> OrElse(r.region, "us-east-1"), credential |-> OrElse(r.credential, 0),
               markers |-> The(dm)])

ReplicationValid(rs) ==
  /\ rs # <<>>
  /\ \A i \in DOMAIN rs : rs[i].bucket # 0 /\ rs[i].endpoint # 0 /\ rs[i].credential # 0
  /\ DistinctIds(rs)

parse_replication_configuration_xml(d) ==
  Validated(Collect([i \in DOMAIN d |-> ParseReplicationRule(d[i])]), ReplicationValid)

replication_configuration_to_xml(c) ==
  [i \in DOMAIN c |->
    [id |-> {c[i].id}, status |-> c[i].status, priority |-> {c[i].priority},
     filter |-> WriteReplicationFilter(c[i].filter), prefix |-> None,
     bucket |-> [arn |-> FALSE, name |-> c[i].bucket], endpoint |-> {c[i].endpoint} \ {0},
     region |-> {c[i].region}, credential |-> {c[i].credential} \ {0}, markers |-> {c[i].markers}]]

ReplicationEffect(c, o) ==
  {<<c[i].bucket, c[i].endpoint, c[i].region, c[i].priority, c[i].markers>> :
     i \in {j \in DOMAIN c : c[j].status = "Enabled" /\ ReplicationFilterMatches(c[j].filter, o)}}

----------------------------------------------------------------------------
(* Notifications.  An event name is <<class, kind>>, "*" for a whole class. *)

EventNames == {<<"Created", k>> : k \in {"*", "Put", "Copy"}}
                \union {<<"Removed", k>> : k \in {"*", "Delete"}}
is_valid_event_name(e) == e \in EventNames

matches_event(name, pattern) ==
  pattern = name \/ (pattern[2] = "*" /\ pattern[1] = name[1])

(* Rules name "prefix" or "suffix" in any case; all of them must hold. *)
matches_filter(o, f) == \A rs \in f : \A r \in rs : r.value \in o.under \union {0}

(* A destination without an Id is given a fresh one. *)
ConvertConfig(x, i) ==
  LET rules == UNION x.filter
      freshId == 100 + i IN
  IF \/ OrElse(x.arn, 0) = 0
     \/ x.events = {}
     \/ \E e \in x.events : ~is_valid_event_name(e)
     \/ \E rs \in rules : \E r \in rs : r.name \notin {"prefix", "Suffix"}
  THEN Refused
  ELSE Accept([id |-> OrElse(x.id, freshId), list |-> x.list, arn |-> The(x.arn),
               events |-> x.events, filter |-> rules, enabled |-> x.enabled # {"false"},
               connector |-> IF x.connector = {"unknown"} THEN "webhook"
                             ELSE OrElse(x.connector, "webhook")])

validate_notification_configuration(c) == DistinctIds(c)

parse_notification_configuration_xml(d) ==
  Validated(Collect([i \in DOMAIN d |-> ConvertConfig(d[i], i)]), validate_notification_configuration)

(* Mutant of write_destination_config_xml: a disabled destination is
   rendered like an enabled one. *)
WriteDestinationEnabled(x) ==
  [id |-> {x.id}, list |-> x.list, arn |-> {x.arn}, events |-> x.events,
   filter |-> IF x.filter = None THEN None ELSE {x.filter}, enabled |-> None,
   connector |-> IF x.connector = "webhook" THEN None ELSE {x.connector}]

write_destination_config_xml(x) ==
  [id |-> {x.id}, list |-> x.list, arn |-> {x.arn}, events |-> x.events,
   filter |-> IF x.filter = None THEN None ELSE {x.filter},
   enabled |-> IF x.enabled THEN None ELSE {"false"},
   connector |-> IF x.connector = "webhook" THEN None ELSE {x.connector}]

notification_configuration_to_xml(c) == [i \in DOMAIN c |-> write_destination_config_xml(c[i])]

NotificationEffect(c, o) ==
  UNION {{<<c[i].arn, c[i].connector, e>> :
            e \in {n \in EventNames : n[2] # "*" /\ \E p \in c[i].events : matches_event(n, p)}} :
         i \in {j \in DOMAIN c : c[j].enabled /\ matches_filter(o, c[j].filter)}}

----------------------------------------------------------------------------
(* Object Lock and tags *)

validate_retention_mode(m) == m \in {"GOVERNANCE", "COMPLIANCE"}

validate_retention_period(days, years) ==
  (days = None) # (years = None) /\ days \union years # {0}

parse_object_lock_configuration_xml(d) ==
  IF \/ d.enabled \notin {None, {"Enabled"}}
     \/ \E r \in d.retention :
          \/ ~\E m \in r.mode : validate_retention_mode(m)
          \/ ~validate_retention_period(r.days, r.years)
  THEN Refused
  ELSE Accept({[mode |-> The(r.mode), days |-> r.days, years |-> r.years] : r \in d.retention})

object_lock_configuration_to_xml(c) ==
  [enabled |-> {"Enabled"}, retention |-> {[r EXCEPT !.mode = {@}] : r \in c}]

YearDays == 365
compute_retain_until(r, now) ==
  now + (IF r.days # None THEN The(r.days) ELSE YearDays * OrElse(r.years, 0))

(* The lock a new object without lock headers gets. *)
LockEffect(c, o) == {<<r.mode, compute_retain_until(r, 0)>> : r \in c}

(* The retention and the legal hold of one object version; 0 stands for a  *)
(* date RFC 3339 does not read.                                            *)
parse_retention_xml(d) ==
  IF (\E m \in d.mode : validate_retention_mode(m)) /\ d.until \notin {None, {0}}
  THEN Accept([mode |-> The(d.mode), until |-> The(d.until)])
  ELSE Refused
retention_to_xml(c) == [mode |-> {c.mode}, until |-> {c.until}]
RetentionEffect(c, o) == {<<c.mode, c.until>>}

parse_legal_hold_xml(d) == IF d \in {{"ON"}, {"OFF"}} THEN Accept(The(d)) ELSE Refused
legal_hold_to_xml(c) == {c}
HoldEffect(c, o) == IF c = "ON" THEN {<<"held">>} ELSE {}

MaxTags == 2     \* 10 in the code
validate_tags(t) ==
  /\ Len(t) <= MaxTags
  /\ \A i, j \in DOMAIN t : t[i][1] # 0 /\ (t[i][1] = t[j][1] => i = j)

parse_tagging_xml(d) == Validated(Accept(d), validate_tags)
tagging_result(c) == c
TagEffect(c, o) == {c[i] : i \in DOMAIN c}

(* Settings read from one leaf of the body. *)
parse_compression(d) ==
  LET a == OrElse(d.algorithm, "auto") IN
  IF a \notin {"auto", "zstd", "lz4"} THEN Refused ELSE Accept([algorithm |-> a, level |-> d.level])
compression_to_xml(c) == [algorithm |-> {c.algorithm}, level |-> c.level]
CompressionEffect(c, o) == {<<c.algorithm, OrElse(c.level, -1)>>}

parse_sse_algorithm(d) == IF d = {"AES256"} THEN Accept(The(d)) ELSE Refused
encryption_to_xml(c) == {c}

parse_versioning_status(d) == IF d \in {{"Enabled"}, {"Suspended"}} THEN Accept(The(d)) ELSE Refused
versioning_configuration_result(c) == {c}

----------------------------------------------------------------------------
(* The documents of this behaviour's kind, and its operations. *)

Docs == CASE kind = "lifecycle"    -> LifecycleDocs
          [] kind = "replication"  -> ReplicationDocs
          [] kind = "notification" -> NotificationDocs
          [] kind = "lock"         -> LockDocs
          [] kind = "retention"    -> RetentionDocs
          [] kind = "hold"         -> HoldDocs
          [] kind = "compression"  -> CompressionDocs
          [] kind = "encryption"   -> AlgorithmDocs
          [] kind = "versioning"   -> StatusDocs
          [] kind = "tagging"      -> TagDocs

Parse(d) == CASE kind = "lifecycle"    -> parse_lifecycle_configuration_xml(d)
              [] kind = "replication"  -> parse_replication_configuration_xml(d)
              [] kind = "notification" -> parse_notification_configuration_xml(d)
              [] kind = "lock"         -> parse_object_lock_configuration_xml(d)
              [] kind = "retention"    -> parse_retention_xml(d)
              [] kind = "hold"         -> parse_legal_hold_xml(d)
              [] kind = "compression"  -> parse_compression(d)
              [] kind = "encryption"   -> parse_sse_algorithm(d)
              [] kind = "versioning"   -> parse_versioning_status(d)
              [] kind = "tagging"      -> parse_tagging_xml(d)

Render(c) == CASE kind = "lifecycle"    -> lifecycle_configuration_to_xml(c)
               [] kind = "replication"  -> replication_configuration_to_xml(c)
               [] kind = "notification" -> notification_configuration_to_xml(c)
               [] kind = "lock"         -> object_lock_configuration_to_xml(c)
               [] kind = "retention"    -> retention_to_xml(c)
               [] kind = "hold"         -> legal_hold_to_xml(c)
               [] kind = "compression"  -> compression_to_xml(c)
               [] kind = "encryption"   -> encryption_to_xml(c)
               [] kind = "versioning"   -> versioning_configuration_result(c)
               [] kind = "tagging"      -> tagging_result(c)

Effect(c, o) == CASE kind = "lifecycle"    -> LifecycleEffect(c, o)
                  [] kind = "replication"  -> ReplicationEffect(c, o)
                  [] kind = "notification" -> NotificationEffect(c, o)
                  [] kind = "lock"         -> LockEffect(c, o)
                  [] kind = "retention"    -> RetentionEffect(c, o)
                  [] kind = "hold"         -> HoldEffect(c, o)
                  [] kind = "compression"  -> CompressionEffect(c, o)
                  [] kind = "encryption"   -> {<<c>>}
                  [] kind = "versioning"   -> {<<c>>}
                  [] kind = "tagging"      -> TagEffect(c, o)

(* A PUT stores what it parsed; a refused one changes nothing.  An empty   *)
(* notification document or tag set leaves nothing stored.                 *)
Kept(c) == IF kind \in {"notification", "tagging"} THEN c \ {<<>>} ELSE c

Store(d) ==
  LET c == Parse(d) IN
  /\ asked' = IF c = Refused THEN asked ELSE IF Kept(c) = None THEN None ELSE {d}
  /\ stored' = IF c = Refused THEN stored ELSE Kept(c)
  /\ UNCHANGED <<kind, view, viewed>>

Put(d) == Store(d)

PutBack == view # None /\ Store(The(view))

(* Without a stored configuration: an empty notification or versioning     *)
(* document, the server's default encryption, an error for the others.     *)
Unset == CASE kind = "notification" -> {<<>>}
           [] kind = "versioning"   -> {None}
           [] kind = "encryption"   -> IF EncryptByDefault THEN {{"AES256"}} ELSE None
           [] OTHER                 -> None

Shown == IF stored = None THEN Unset ELSE {Render(The(stored))}

Get ==
  /\ Shown # None
  /\ view' = Shown
  /\ viewed' = stored
  /\ UNCHANGED <<kind, asked, stored>>

(* Only some of the documents can be deleted. *)
Delete ==
  /\ kind \in {"lifecycle", "replication", "tagging", "compression", "encryption"}
  /\ stored' = None
  /\ asked' = None
  /\ UNCHANGED <<kind, view, viewed>>

Init ==
  /\ kind \in Kind
  /\ asked = None /\ stored = None /\ view = None /\ viewed = None

Next == (\E d \in Docs : Put(d)) \/ PutBack \/ Get \/ Delete

Spec == Init /\ [][Next]_vars

----------------------------------------------------------------------------
(* What a document says, read without the server: every prefix, tag and     *)
(* rule it holds binds, an element that is absent has S3's default.         *)

Mentioned(f, legacy) ==
  [prefix |-> (legacy \union UNION {d.prefix \union UNION {a.prefix : a \in d.and} : d \in f}) \ {0},
   tags |-> UNION {d.tag \union UNION {a.tags : a \in d.and} : d \in f}]

Covers(r, o) ==
  LET m == Mentioned(r.filter, r.prefix) IN m.prefix \subseteq o.under /\ m.tags \subseteq o.tags

Says(d, o) ==
  CASE kind = "lifecycle" ->
         UNION {UNION {{<<"expire", "Days", n>> : n \in x.days} \union {<<"expire", "Date", n>> : n \in x.date}
                         \union {<<"expire", "Marker", n>> : n \in x.marker} : x \in d[i].expiration}
                  \union {<<"noncurrent", The(x.days), OrElse(x.newer, -1)>> : x \in d[i].noncurrent}
                  \union {<<"abort", n, 0>> : n \in UNION d[i].abort} :
                i \in {j \in DOMAIN d : d[j].status = "Enabled" /\ Covers(d[j], o)}}
    [] kind = "replication" ->
         {<<d[i].bucket.name, The(d[i].endpoint), OrElse(d[i].region, "us-east-1"),
            OrElse(d[i].priority, 0), OrElse(d[i].markers, "Enabled")>> :
            i \in {j \in DOMAIN d : d[j].status = "Enabled" /\ Covers(d[j], o)}}
    [] kind = "notification" ->
         UNION {{<<The(d[i].arn), OrElse(d[i].connector \ {"unknown"}, "webhook"), e>> :
                   e \in {n \in EventNames : n[2] # "*" /\ {n, <<n[1], "*">>} \intersect d[i].events # {}}} :
                i \in {j \in DOMAIN d :
                         /\ d[j].enabled # {"false"}
                         /\ \A r \in UNION UNION d[j].filter : r.value \in o.under \union {0}}}
    [] kind = "lock" ->
         {<<The(r.mode), The({n : n \in r.days} \union {YearDays * n : n \in r.years})>> : r \in d.retention}
    [] kind = "retention" -> {<<The(d.mode), The(d.until)>>}
    [] kind = "hold" -> IF d = {"ON"} THEN {<<"held">>} ELSE {}
    [] kind = "compression" -> {<<OrElse(d.algorithm, "auto"), OrElse(d.level, -1)>>}
    [] kind \in {"encryption", "versioning"} -> {<<The(d)>>}
    [] kind = "tagging" -> {d[i] : i \in DOMAIN d}

TypeOK ==
  /\ kind \in Kind
  /\ Cardinality(stored) <= 1 /\ Cardinality(view) <= 1
  /\ (stored = None) = (asked = None)
  /\ view = None => viewed = None

(* The server acts on what the client asked for: what the stored           *)
(* configuration does to an object is what the accepted document says of   *)
(* that object (an expiry, a remote copy, a notification, a lock), neither *)
(* more objects nor fewer, whichever form its filter was written in.       *)
WhatWasAsked ==
  \A d \in asked, c \in stored, o \in Subjects : Effect(c, o) = Says(d, o)

(* A document that was read can be put back: it is accepted, and leaves    *)
(* the configuration it was rendered from, whatever was stored meanwhile.  *)
PutBackRestoresStep ==
    PutBack /\ (viewed # None \/ kind = "notification") => stored' = viewed

\* The same, as a property of the behaviour: every step is such a step.
PutBackRestores == [][PutBackRestoresStep]_vars
=============================================================================
