------------------------------- MODULE Listing -------------------------------
(***************************************************************************)
(* The listings of a bucket: ListObjects, ListObjectsV2, ListObjectVersions *)
(* and ListMultipartUploads (handlers/bucket.rs, handlers/delimited.rs) on *)
(* top of the range queries of the store (sqlite/metadata.rs).  A client   *)
(* walks through the pages while others write.  Every query is atomic; a   *)
(* page with a delimiter takes several.                                    *)
(*                                                                         *)
(* Keys are sequences of characters, numbers here, compared like text.     *)
(***************************************************************************)
EXTENDS Naturals, Sequences, FiniteSets

Ext == INSTANCE SequencesExt

CONSTANTS
    Key,        \* the keys that are written
    Slash,      \* the delimiter
    MaxChar,    \* char::MAX
    Kind,       \* subset of {"v1", "v2", "versions", "uploads"}
    Prefixes,   \* prefixes asked for
    PageSizes,  \* max-keys, at least 1
    Batch,      \* LIST_BATCH
    MaxWrites   \* bound on writes during a walk

VARIABLES
    rows,    \* rows of the bucket, or its uploads in progress
    clock,   \* last_modified of the newest row
    writes,  \* writes so far; also numbers the versions
    walk,    \* the walk of the client
    out,     \* what the pages have shown, in order
    stayed   \* history: rows that were there during the whole walk

vars == <<rows, clock, writes, walk, out, stayed>>

Row == [key : Key, at : Nat, vid : Nat, hides : BOOLEAN]

NoMarker == [key |-> <<>>, vid |-> 0, at |-> 0, hasVid |-> FALSE]

-----------------------------------------------------------------------------
(* Text. *)

Less(s, t) ==
    \E i \in 1 .. Len(t) :
        /\ i <= Len(s) + 1
        /\ \A j \in 1 .. i - 1 : s[j] = t[j]
        /\ i > Len(s) \/ s[i] < t[i]

AtMost(s, t) == s = t \/ Less(s, t)

\* prefix_upper_bound: the last character that has a successor, raised; none
\* when there is no such character.
UpperBound(p) ==
    LET raisable == {i \in 1 .. Len(p) : p[i] < MaxChar}
        i == CHOOSE x \in raisable : \A y \in raisable : y <= x
    IN  IF raisable = {} THEN <<>> ELSE Append(SubSeq(p, 1, i - 1), p[i] + 1)

\* push_prefix_filter: a range of keys.
Selected(p, k) == AtMost(p, k) /\ (UpperBound(p) # <<>> => Less(k, UpperBound(p)))

\* common_prefix: up to and with the first delimiter behind the prefix.
CommonPrefix(p, k) ==
    LET slashes == {i \in Len(p) + 1 .. Len(k) : k[i] = Slash}
    IN  IF slashes = {} THEN <<>> ELSE SubSeq(k, 1, CHOOSE i \in slashes : \A j \in slashes : i <= j)

PastPrefix(cp) == Append(cp, MaxChar)

-----------------------------------------------------------------------------
(* The queries of the store. *)

Newer(r, q) == r.at > q.at \/ (r.at = q.at /\ r.vid > q.vid)

\* The current row of its key, and no delete marker.
Visible(r) == ~ r.hides /\ \A q \in rows : q.key = r.key => ~ Newer(q, r)

First(n, s) == SubSeq(s, 1, IF n < Len(s) THEN n ELSE Len(s))

\* list_objects
ListObjects(p, after, n) ==
    First(n, Ext!SetToSortSeq({r \in rows : Visible(r) /\ Selected(p, r.key) /\ Less(after, r.key)},
                          LAMBDA r, q : Less(r.key, q.key)))

\* Mutant of Behind: a page of versions begins with the next key.
BehindKey(m, r) == m.key = <<>> \/ Less(m.key, r.key)

\* The rows behind a marker: later keys and, with a version, the older versions of its key.
Behind(m, r) ==
    \/ m.key = <<>>
    \/ Less(m.key, r.key)
    \/ m.hasVid /\ r.key = m.key /\ Newer(m, r)

\* list_object_versions_from
ListVersionsFrom(p, m, n) ==
    First(n, Ext!SetToSortSeq({r \in rows : Selected(p, r.key) /\ Behind(m, r)},
                          LAMBDA r, q : Less(r.key, q.key) \/ (r.key = q.key /\ Newer(r, q))))

BehindUpload(m, r) ==
    \/ m.key = <<>>
    \/ Less(m.key, r.key)
    \/ m.hasVid /\ r.key = m.key /\ r.vid > m.vid

\* list_multipart_uploads
ListUploads(p, m, n) ==
    First(n, Ext!SetToSortSeq({r \in rows : Selected(p, r.key) /\ BehindUpload(m, r)},
                          LAMBDA r, q : Less(r.key, q.key) \/ (r.key = q.key /\ r.vid < q.vid)))

\* VersionPosition::of
PositionOf(r) == [key |-> r.key, vid |-> r.vid, at |-> r.at, hasVid |-> TRUE]

\* list_object_versions: a marker that is gone stands before all versions of its key.
Resolve(m) ==
    LET found == {r \in rows : r.key = m.key /\ r.vid = m.vid}
    IN  IF ~ m.hasVid THEN m
        ELSE IF found = {} THEN [m EXCEPT !.at = clock + MaxWrites + 1]
        ELSE PositionOf(CHOOSE r \in found : TRUE)

-----------------------------------------------------------------------------
(* Types, and the walk. *)

Item == [group : BOOLEAN, key : Seq(Nat), vid : Nat, at : Nat]
OfRow(r) == [group |-> FALSE, key |-> r.key, vid |-> r.vid, at |-> r.at]
OfGroup(cp) == [group |-> TRUE, key |-> cp, vid |-> 0, at |-> 0]

Walking == {"page", "resume", "batch"}

\* Types of the variables.
TypeOK ==
    /\ rows \subseteq Row
    /\ clock \in Nat /\ writes \in 0 .. MaxWrites
    /\ walk.pc \in Walking \cup {"start", "done"}
    /\ walk.pc # "start" => walk.kind \in Kind /\ walk.prefix \in Prefixes /\ walk.size \in PageSizes
    /\ \A i \in DOMAIN out : out[i] \in Item
    /\ Len(walk.page) <= walk.size
    /\ stayed \subseteq rows

Init ==
    /\ rows \in SUBSET {[key |-> k, at |-> 1, vid |-> v, hides |-> FALSE] : k \in Key, v \in {0}}
    /\ clock = 1 /\ writes = 0
    /\ walk = [pc |-> "start", kind |-> "v1", grouped |-> FALSE, prefix |-> <<>>, size |-> 1,
               marker |-> NoMarker, from |-> NoMarker, page |-> <<>>]
    /\ out = <<>> /\ stayed = {}

\* A client asks for the first page; parameters as given.
Begin(kind, grouped, p, n) ==
    /\ walk.pc = "start"
    /\ kind = "uploads" => ~ grouped
    /\ walk' = [walk EXCEPT !.pc = "page", !.kind = kind, !.grouped = grouped, !.prefix = p, !.size = n]
    /\ stayed' = {r \in rows : kind \in {"v1", "v2"} => Visible(r)}
    /\ UNCHANGED <<rows, clock, writes, out>>

\* The page goes to the client, who asks for the next one if there is one.
Answer(items, truncated, next) ==
    /\ out' = out \o items
    /\ walk' = IF truncated /\ items # <<>>
               THEN [walk EXCEPT !.pc = "page", !.marker = next, !.page = <<>>]
               ELSE [walk EXCEPT !.pc = "done", !.page = <<>>, !.marker = NoMarker, !.from = NoMarker]
    /\ UNCHANGED <<rows, clock, writes, stayed>>

\* The marker of the last item: its key, and its version where there is one.
MarkerOf(item) == [key |-> item.key, vid |-> item.vid, at |-> 0, hasVid |-> ~ item.group]

\* Mutant of FlatPage: a page that is just full counts as the last one.
FlatPageFull(records) ==
    LET more == Len(records) > walk.size + 1
        items == [i \in DOMAIN First(walk.size, records) |-> OfRow(records[i])]
    IN  Answer(items, more, IF more THEN MarkerOf(Ext!Last(items)) ELSE NoMarker)

\* Without a delimiter: one row more than the page holds tells whether it is the last.
FlatPage(records) ==
    LET more == Len(records) > walk.size
        items == [i \in DOMAIN First(walk.size, records) |-> OfRow(records[i])]
    IN  Answer(items, more, IF more THEN MarkerOf(Ext!Last(items)) ELSE NoMarker)

ListObjectsV2 ==
    /\ walk.pc = "page" /\ walk.kind = "v2" /\ ~ walk.grouped
    /\ \E records \in {ListObjects(walk.prefix, walk.marker.key, walk.size + 1)} : FlatPage(records)

ListObjectsV1 ==
    /\ walk.pc = "page" /\ walk.kind = "v1" /\ ~ walk.grouped
    /\ \E records \in {ListObjects(walk.prefix, walk.marker.key, walk.size + 1)} : FlatPage(records)

ListMultipartUploads ==
    /\ walk.pc = "page" /\ walk.kind = "uploads"
    /\ \E records \in {ListUploads(walk.prefix, walk.marker, walk.size + 1)} : FlatPage(records)

\* list_object_versions looks the marker up before it lists.
ListObjectVersions ==
    /\ walk.pc = "page" /\ walk.kind = "versions"
    /\ walk' = [walk EXCEPT !.pc = IF walk.grouped THEN "batch" ELSE "resume", !.from = Resolve(walk.marker)]
    /\ UNCHANGED <<rows, clock, writes, out, stayed>>

ListVersionsFlat ==
    /\ walk.pc = "resume"
    /\ \E records \in {ListVersionsFrom(walk.prefix, walk.from, walk.size + 1)} : FlatPage(records)

\* list_objects_delimited begins at the marker.
ListObjectsDelimited ==
    /\ walk.pc = "page" /\ walk.grouped /\ walk.kind \in {"v1", "v2"}
    /\ walk' = [walk EXCEPT !.pc = "batch", !.from = walk.marker]
    /\ UNCHANGED <<rows, clock, writes, out, stayed>>

\* Mutant of Returned: a group is skipped only if its name is behind the marker.
ReturnedBefore(cp) == walk.marker.key # <<>> /\ Less(cp, walk.marker.key)

\* A group an earlier page has shown.
Returned(cp) == walk.marker.key # <<>> /\ AtMost(cp, walk.marker.key)

\* Mutant of AddRow: the page is full with one item more than was asked for.
AddRowOver(acc, r) ==
    LET cp == CommonPrefix(walk.prefix, r.key)
        current == acc.items # <<>> /\ Ext!Last(acc.items) = OfGroup(cp)
    IN  IF acc.full \/ (cp # <<>> /\ (Returned(cp) \/ current)) THEN acc
        ELSE IF Len(acc.items) > walk.size THEN [acc EXCEPT !.full = TRUE]
        ELSE [acc EXCEPT !.items = Append(@, IF cp # <<>> THEN OfGroup(cp) ELSE OfRow(r))]

\* The body of list_delimited for one row: skip, stop at a full page, or add.
AddRow(acc, r) ==
    LET cp == CommonPrefix(walk.prefix, r.key)
        current == acc.items # <<>> /\ Ext!Last(acc.items) = OfGroup(cp)
    IN  IF acc.full \/ (cp # <<>> /\ (Returned(cp) \/ current)) THEN acc
        ELSE IF Len(acc.items) >= walk.size THEN [acc EXCEPT !.full = TRUE]
        ELSE [acc EXCEPT !.items = Append(@, IF cp # <<>> THEN OfGroup(cp) ELSE OfRow(r))]

\* Mutant of After: behind a group the next query begins at its name.
AfterName(r) ==
    LET cp == CommonPrefix(walk.prefix, r.key)
    IN  IF cp # <<>> THEN [NoMarker EXCEPT !.key = cp] ELSE PositionOf(r)

\* Where the next query of the page begins.
After(r) ==
    LET cp == CommonPrefix(walk.prefix, r.key)
    IN  IF cp # <<>> THEN [NoMarker EXCEPT !.key = PastPrefix(cp)] ELSE PositionOf(r)

\* list_delimited: one query and what it adds to the page.
ListDelimited(records) ==
    \E acc \in {Ext!FoldLeft(AddRow, [items |-> walk.page, full |-> FALSE], records)} :
        IF acc.full \/ Len(records) < Batch
        THEN Answer(acc.items, acc.full, IF acc.full THEN MarkerOf(Ext!Last(acc.items)) ELSE NoMarker)
        ELSE /\ walk' = [walk EXCEPT !.page = acc.items, !.from = After(Ext!Last(records))]
             /\ UNCHANGED <<rows, clock, writes, out, stayed>>

ObjectsBatch ==
    /\ walk.pc = "batch" /\ walk.kind \in {"v1", "v2"}
    /\ \E records \in {ListObjects(walk.prefix, walk.from.key, Batch)} : ListDelimited(records)

\* list_versions_grouped
VersionsBatch ==
    /\ walk.pc = "batch" /\ walk.kind = "versions"
    /\ \E records \in {ListVersionsFrom(walk.prefix, walk.from, Batch)} : ListDelimited(records)

-----------------------------------------------------------------------------
(* Others write during the walk. *)

ClientWrite == walk.pc # "done" /\ writes < MaxWrites /\ writes' = writes + 1 /\ UNCHANGED <<walk, out>>

\* A new version, a delete marker or a new upload; two may carry the same time.
Put(k, at, hides) ==
    /\ ClientWrite
    /\ walk.kind = "uploads" => ~ hides
    /\ rows' = rows \cup {[key |-> k, at |-> at, vid |-> writes + 1, hides |-> hides]}
    /\ clock' = at
    /\ stayed' = {r \in stayed : hides /\ walk.kind \in {"v1", "v2"} => r.key # k}

Remove(r) ==
    /\ ClientWrite
    /\ rows' = rows \ {r}
    /\ stayed' = stayed \ {r}
    /\ UNCHANGED clock

Next ==
    \/ \E kind \in Kind, g \in BOOLEAN, p \in Prefixes, n \in PageSizes : Begin(kind, g, p, n)
    \/ ListObjectsV2 \/ ListObjectsV1 \/ ListMultipartUploads
    \/ ListObjectVersions \/ ListVersionsFlat
    \/ ListObjectsDelimited \/ ObjectsBatch \/ VersionsBatch
    \/ \E k \in Key, at \in {clock, clock + 1}, h \in BOOLEAN : Put(k, at, h)
    \/ \E r \in rows : Remove(r)

Spec == Init /\ [][Next]_vars

ListSteps ==
    \/ ListObjectsV2 \/ ListObjectsV1 \/ ListMultipartUploads
    \/ ListObjectVersions \/ ListVersionsFlat
    \/ ListObjectsDelimited \/ ObjectsBatch \/ VersionsBatch

FairSpec == Spec /\ WF_vars(ListSteps)

-----------------------------------------------------------------------------
(* Properties. *)

HasPrefix(p, k) == Len(p) <= Len(k) /\ SubSeq(k, 1, Len(p)) = p

\* The item a row belongs to in a listing.
ItemOf(r) ==
    LET cp == CommonPrefix(walk.prefix, r.key)
    IN  IF walk.grouped /\ cp # <<>> THEN OfGroup(cp) ELSE OfRow(r)

\* Rows a listing must show: there during the whole walk, and not hidden at its end
\* (an object listing shows one row of a key, whichever is current).
Due == {r \in stayed : HasPrefix(walk.prefix, r.key)
                       /\ (walk.kind \in {"v1", "v2"} => ~ r.hides /\ \A q \in rows : q.key = r.key => q = r)}

\* A walk that has ended has shown every key, version or upload that was there
\* from its first to its last query, by itself or in its group: whatever
\* others wrote or deleted at the page boundary, the marker included.
WalkIsComplete ==
    walk.pc = "done" => \A r \in Due : \E i \in DOMAIN out :
        IF walk.kind \in {"v1", "v2"} THEN out[i].key = ItemOf(r).key ELSE out[i] = ItemOf(r)

\* Objects, uploads and groups are shown once.  A version may be shown again,
\* but only after a deletion (of the version the marker names).
ShownOnce ==
    \A i, j \in DOMAIN out :
        i < j /\ out[i] = out[j] => walk.kind = "versions" /\ ~ out[i].group /\ writes > 0

\* A walk ends: the markers move forward.
OnPage == walk.pc = "page"
Walked == walk.pc = "done"
WalkEnds == OnPage ~> Walked
=============================================================================
