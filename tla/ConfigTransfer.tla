--------------------------- MODULE ConfigTransfer ---------------------------
(* Configuration export and import: the document one instance writes, and  *)
(* how another applies it.  The import looks every entry up and then       *)
(* writes it, by the calls any administrator uses and with no transaction  *)
(* around them, so other calls fall in between, a write may fail, and the  *)
(* process may stop halfway and the operator send the document again.      *)
(*                                                                         *)
(* An instance has one thing of each kind: a setting and the node identity *)
(* among the settings, a user, a team, a grant, a credential, a bucket and *)
(* its configuration keys.  A thing is absent (0) or has a value.          *)
EXTENDS Integers, Sequences, FiniteSets

CONSTANTS
  Sources,    \* the instances that are exported
  Targets,    \* the instances that import
  Modes,      \* conflict modes asked for
  Documents,  \* what is asked of the export: [sections, include_secrets, edited]
  MaxFaults,  \* failed writes and stops in a behaviour
  MaxOthers   \* calls of other administrators in a behaviour

VARIABLES
  source,     \* the exported instance
  doc,        \* the document
  target,     \* the importing instance
  had,        \* what it had before, and no other call has touched since
  import,     \* the call: mode, place in the document, what the lookup saw
  report,     \* entries counted as errors
  faults,
  others

vars == <<source, doc, target, had, import, report, faults, others>>

Mask == 9
BucketKeys == {"versioning", "encryption_algorithm", "lifecycle_rules", "object_lock", "region",
               "notification_configuration", "compression", "replication_configuration", "tags"}
Things == {"setting", "node_id", "user", "team", "grant", "credential", "bucket"} \union BucketKeys
Links == {"member", "user_grant", "team_grant"}
Ends == [member |-> {"team", "user"}, user_grant |-> {"user", "grant"}, team_grant |-> {"team", "grant"}]

SectionOf(x) ==
  CASE x \in {"setting", "node_id"}       -> "settings"
    [] x \in {"user", "team", "grant"}    -> "auth"
    [] x = "credential"                   -> "credentials"
    [] x = "bucket"                       -> "buckets"
    [] OTHER                              -> "bucket_configs"

BUCKET_CONFIG_KEYS ==
  {"versioning", "encryption_algorithm", "lifecycle_rules", "notification_configuration",
   "object_lock", "region"}
ALL_SECTIONS == {"settings", "auth", "credentials", "buckets", "bucket_configs"}
is_node_local_server_config_key(x) == x = "node_id"

----------------------------------------------------------------------------
(* What the export writes down, section by section: not the identity of    *)
(* the node, the mask instead of a secret unless secrets are asked for,    *)
(* and of a bucket the configuration keys it knows and the tags.           *)
ExportSettings == [x \in {"setting", "node_id"} |->
                     IF is_node_local_server_config_key(x) THEN 0 ELSE source.has[x]]
ExportAuth == [x \in {"user", "team", "grant"} |-> source.has[x]]
ExportCredentials(include_secrets) ==
  [x \in {"credential"} |-> IF source.has[x] = 0 \/ include_secrets THEN source.has[x] ELSE Mask]
ExportBuckets == [x \in {"bucket"} |-> source.has[x]]
ExportConfigs == [x \in BucketKeys |->
                    IF x \in BUCKET_CONFIG_KEYS \union {"tags"} /\ source.has["bucket"] # 0
                    THEN source.has[x] ELSE 0]

export(q) ==
  LET all == [settings |-> ExportSettings, auth |-> ExportAuth,
              credentials |-> ExportCredentials(q.include_secrets),
              buckets |-> ExportBuckets, bucket_configs |-> ExportConfigs]
  IN [has   |-> [x \in Things |-> IF SectionOf(x) \in q.sections THEN all[SectionOf(x)][x] ELSE 0],
      links |-> IF "auth" \in q.sections THEN source.links ELSE {},
      edited |-> q.edited, secrets |-> q.include_secrets]

(* Mutant of Order: the entries that name others before the ones they name. *)
OrderTeamsFirst ==
  <<"setting", "node_id", "team", "user", "grant", "credential", "bucket">>

(* The order in which the import takes the sections. *)
Order == <<"setting", "node_id", "user", "team", "grant", "credential", "bucket">>

Entries == Order \o
  <<"versioning", "encryption_algorithm", "lifecycle_rules", "notification_configuration",
    "object_lock", "region", "compression", "replication_configuration", "tags">>

Here == Entries[import.at]
Given == doc.has[Here]

----------------------------------------------------------------------------
(* The import *)

Closed == [mode |-> "", at |-> 1, exists |-> FALSE, looked |-> FALSE, whole |-> TRUE]

import_config(mode) ==
  /\ import = Closed
  /\ import' = [Closed EXCEPT !.mode = mode]
  /\ report' = {}
  /\ had' = {x \in Things : target.has[x] # 0}
  /\ UNCHANGED <<source, doc, target, faults, others>>

Working == import.mode # "" /\ import.at <= Len(Entries)
Passed == [import EXCEPT !.at = @ + 1, !.looked = FALSE]

(* Mutant of Unusable: a masked secret is taken for a secret. *)
UnusableEmpty == is_node_local_server_config_key(Here)

(* Entries the import passes over without a lookup. *)
Unusable == is_node_local_server_config_key(Here) \/ (Here = "credential" /\ Given = Mask)

(* Configuration of a bucket that does not exist is an error. *)
Homeless == Here \in BucketKeys /\ target.has["bucket"] = 0

Unknown == Here \in BucketKeys /\ Here \notin BUCKET_CONFIG_KEYS \union {"tags"}

Pass ==
  /\ Working /\ ~import.looked
  /\ Given = 0 \/ Unusable \/ Unknown \/ Homeless
  /\ import' = Passed
  /\ report' = report \union {x \in {Here} : Given # 0 /\ (Homeless \/ Unusable)}
  /\ UNCHANGED <<source, doc, target, had, faults, others>>

(* Tags are put without a lookup. *)
Look ==
  /\ Working /\ ~import.looked
  /\ Given # 0 /\ ~Unusable /\ ~Unknown /\ ~Homeless
  /\ import' = [import EXCEPT !.looked = TRUE, !.exists = Here # "tags" /\ target.has[Here] # 0]
  /\ UNCHANGED <<source, doc, target, had, report, faults, others>>

(* Mutant of Skipped: the mode is asked only when a thing is created. *)
SkippedBuckets == import.exists /\ Here = "bucket"

(* What is there stays there unless overwriting was asked for; a bucket    *)
(* always stays.                                                           *)
Skipped == import.exists /\ (import.mode # "overwrite" \/ Here = "bucket")

Skip ==
  /\ Working /\ import.looked /\ Skipped
  /\ import' = Passed
  /\ UNCHANGED <<source, doc, target, had, report, faults, others>>

Attachable(here, links) ==
  {l \in links : (here = "team" /\ l = "member") \/ (here = "grant" /\ l \in {"user_grant", "team_grant"})}

(* The links are attached one by one after the write, whether or not it    *)
(* succeeded, and one that names something missing is dropped in silence.  *)
WithLinks(has) ==
  [has |-> has,
   links |-> target.links \union {l \in Attachable(Here, doc.links) : \A x \in Ends[l] : has[x] # 0}]

(* An insert fails on a row that is there; an update of a row that is gone *)
(* changes nothing and is counted as done; an upsert does either.          *)
Nothing == [has |-> target.has, error |-> FALSE]
Upsert == [has |-> [target.has EXCEPT ![Here] = Given], error |-> FALSE]
Insert == IF target.has[Here] = 0 THEN Upsert ELSE [Nothing EXCEPT !.error = TRUE]
Update == IF target.has[Here] = 0 THEN Nothing ELSE Upsert

ImportSetting == Upsert
ImportUser == IF import.exists THEN Update ELSE Insert
ImportTeam == IF import.exists THEN Update ELSE Insert
ImportGrant == IF import.exists THEN Update ELSE Insert
ImportCredential == Insert
ImportBucket == Insert
ImportConfig == Upsert

Written ==
  CASE Here = "setting"    -> ImportSetting
    [] Here = "user"       -> ImportUser
    [] Here = "team"       -> ImportTeam
    [] Here = "grant"      -> ImportGrant
    [] Here = "credential" -> ImportCredential
    [] Here = "bucket"     -> ImportBucket
    [] OTHER               -> ImportConfig

BadGrant == Here = "grant" /\ doc.edited

Write ==
  /\ Working /\ import.looked /\ ~Skipped
  /\ import.mode # "dry_run"
  /\ ~BadGrant
  /\ \E ok \in {TRUE, FALSE} :
       /\ ok \/ faults < MaxFaults
       /\ faults' = faults + (IF ok THEN 0 ELSE 1)
       /\ target' = WithLinks(IF ok THEN Written.has ELSE target.has)
       /\ report' = report \union {x \in {Here} : ~ok \/ Written.error}
       /\ import' = [Passed EXCEPT !.whole = @ /\ ok]
  /\ UNCHANGED <<source, doc, had, others>>

DryRun ==
  /\ Working /\ import.looked /\ ~Skipped
  /\ import.mode = "dry_run"
  /\ import' = Passed
  /\ UNCHANGED <<source, doc, target, had, report, faults, others>>

(* A policy that does not parse ends the import with 400; what came before *)
(* stays.                                                                  *)
Refuse ==
  /\ Working /\ import.looked /\ ~Skipped
  /\ import.mode # "dry_run" /\ BadGrant
  /\ import' = Closed
  /\ UNCHANGED <<source, doc, target, had, report, faults, others>>

(* The process stops; the operator may send the document again. *)
Stop ==
  /\ Working /\ faults < MaxFaults
  /\ faults' = faults + 1
  /\ import' = Closed
  /\ UNCHANGED <<source, doc, target, had, report, others>>

(* The answer has been read; another import may follow. *)
Answered == import.mode # "" /\ ~Working
Close ==
  /\ Answered
  /\ import' = Closed
  /\ UNCHANGED <<source, doc, target, had, report, faults, others>>

(* Another administrator creates or deletes something meanwhile. *)
Other(x) ==
  /\ Working /\ others < MaxOthers
  /\ others' = others + 1
  /\ x \in {"setting", "user", "team", "grant", "credential"}
  /\ target' = IF target.has[x] = 0 THEN [target EXCEPT !.has[x] = 3]
               ELSE [has |-> [target.has EXCEPT ![x] = 0], links |-> {l \in target.links : x \notin Ends[l]}]
  /\ had' = had \ {x}
  /\ import' = [import EXCEPT !.whole = FALSE]
  /\ UNCHANGED <<source, doc, report, faults>>

----------------------------------------------------------------------------
Init ==
  /\ source \in Sources
  /\ \E q \in Documents : doc = export(q)
  /\ target \in Targets
  /\ had = {}
  /\ import = Closed
  /\ report = {}
  /\ faults = 0 /\ others = 0

Next ==
  \/ \E mode \in Modes : import_config(mode)
  \/ Pass \/ Look \/ Skip \/ Write \/ DryRun \/ Refuse \/ Stop \/ Close
  \/ \E x \in Things : Other(x)

Spec == Init /\ [][Next]_vars

----------------------------------------------------------------------------
Instances == [has : [Things -> {0, 1, 2, 3, Mask}], links : SUBSET Links]

TypeOK ==
  /\ {source, target} \subseteq Instances
  /\ import.at \in 1..(Len(Entries) + 1)
  /\ report \subseteq Things /\ had \subseteq Things

(* An import that is answered without an error, of a document with every   *)
(* section and the secrets, over an instance nobody else changed, leaves   *)
(* there what the document carries, memberships and attachments too: also  *)
(* when an earlier attempt stopped halfway.  Only a bucket that was there  *)
(* keeps its owner.                                                        *)
Complete == doc.secrets /\ import.mode = "overwrite" /\ Answered /\ import.whole /\ report = {}
TransferIsComplete ==
  Complete =>
    /\ doc.links \subseteq target.links
    /\ \A x \in Things \ {"bucket"} : doc.has[x] # 0 => target.has[x] = doc.has[x]
    /\ doc.has["bucket"] # 0 => target.has["bucket"] # 0

(* Nothing is made up on the way: what an instance holds after an import   *)
(* is what it held, what another call gave it, or what the source held.    *)
NothingMadeUp ==
  \A x \in Things : target.has[x] \in {0, 2, 3, source.has[x]}

(* In the mode that skips, nothing that was there when the import began is *)
(* changed, however its entries interleave with other calls.  The tags of  *)
(* a bucket are the exception: they are replaced in every mode.            *)
SkipKeepsStep ==
    import.mode = "skip" /\ others' = others =>
      \A x \in had \ {"tags"} : target'.has[x] = target.has[x]

\* The same, as a property of the behaviour: every step is such a step.
SkipKeeps == [][SkipKeepsStep]_vars
=============================================================================
