---------------------------- MODULE ObjectReads ----------------------------
(***************************************************************************)
(* What a client is told about an object it reads in pieces or reads       *)
(* again: the conditional headers of GetObject and CopyObject, Range and   *)
(* x-amz-copy-source-range, ?partNumber, and the pages of ListParts and    *)
(* GetObjectAttributes, while the object and the upload change under it.   *)
(*                                                                         *)
(* Clients share nothing but the object, so one of them, of any kind, is   *)
(* enough.  Time is counted in ticks, TicksPerSecond of them in a second:  *)
(* rows keep the tick, an HTTP date only the second.  A byte is its offset.*)
(***************************************************************************)
EXTENDS Integers, Sequences, FiniteSets

Ext == INSTANCE SequencesExt

CONSTANTS
    Sizes,            \* sizes of the objects PutObject writes
    Layouts,          \* part sizes of the objects CompleteMultipartUpload writes
    Ranges,           \* Range headers sent, [first, last], Absent where empty
    PartNumbers,      \* part numbers an upload may use
    PageSizes,        \* max-parts
    TicksPerSecond,
    MaxTime,          \* ticks
    Word              \* 2^64 in the code: u64 arithmetic wraps at it

Absent == -1
None == [etag |-> 0, time |-> 0, size |-> 0, parts |-> <<>>, layout |-> FALSE]

VARIABLES
    client,           \* what this client does: "again", "ranges", "parts", "pages", "attributes"
    now,              \* the clock
    object,           \* the current row of the key
    held,             \* the row whose copy the client holds, None before the first GET
    answer,           \* the last answer
    walk,             \* a read of the object part by part
    upload,           \* the part numbers uploaded so far
    pages             \* a walk over the parts of the upload

vars == <<client, now, object, held, answer, walk, upload, pages>>

-----------------------------------------------------------------------------
(* Conditional headers *)

Conditions == {"if-match", "if-none-match", "if-modified-since", "if-unmodified-since"}

(* An HTTP date loses the fraction of the second. *)
HttpDate(t) == (t \div TicksPerSecond) * TicksPerSecond

etag_matches(given, row) == given.etag = row.etag

ModifiedSince(given, row) == row.time > HttpDate(given.time)

(* Mutant of check_conditionals: times are compared by the second. *)
CheckConditionalsBySecond(conds, given, row) ==
    IF "if-match" \in conds /\ ~etag_matches(given, row) THEN 412
    ELSE IF "if-none-match" \in conds /\ etag_matches(given, row) THEN 304
    ELSE IF "if-modified-since" \in conds /\ HttpDate(row.time) <= HttpDate(given.time) THEN 304
    ELSE IF "if-unmodified-since" \in conds /\ HttpDate(row.time) > HttpDate(given.time) THEN 412
    ELSE 200

check_conditionals(conds, given, row) ==
    IF "if-match" \in conds /\ ~etag_matches(given, row) THEN 412
    ELSE IF "if-none-match" \in conds /\ etag_matches(given, row) THEN 304
    ELSE IF "if-modified-since" \in conds /\ ~ModifiedSince(given, row) THEN 304
    ELSE IF "if-unmodified-since" \in conds /\ ModifiedSince(given, row) THEN 412
    ELSE 200

(* A copy answers 412 where a GET answers 304. *)
check_copy_source_conditionals(conds, given, row) ==
    IF \/ "if-match" \in conds /\ ~etag_matches(given, row)
       \/ "if-none-match" \in conds /\ etag_matches(given, row)
       \/ "if-modified-since" \in conds /\ ~ModifiedSince(given, row)
       \/ "if-unmodified-since" \in conds /\ ModifiedSince(given, row)
    THEN 412 ELSE 200

-----------------------------------------------------------------------------
(* Ranges *)

Wrap(n) == n % Word

Min2(a, b) == IF a < b THEN a ELSE b

Invalid == [start |-> Absent, end |-> Absent]

(* Mutant of parse_range_header: an end past the object is not cut back. *)
ParseRangeUncut(r, size) ==
    IF r.first = Absent
    THEN IF r.last <= 0 \/ size = 0 THEN Invalid
         ELSE [start |-> IF r.last < size THEN size - r.last ELSE 0, end |-> Absent]
    ELSE IF r.first >= size THEN Invalid
    ELSE [start |-> r.first, end |-> r.last]

parse_range_header(r, size) ==
    IF r.first = Absent
    THEN IF r.last <= 0 \/ size = 0 THEN Invalid
         ELSE [start |-> IF r.last < size THEN size - r.last ELSE 0, end |-> Absent]
    ELSE IF r.first >= size THEN Invalid
    ELSE [start |-> r.first,
          end |-> IF r.last = Absent THEN Absent ELSE Min2(r.last, Wrap(size - 1))]

parse_copy_source_range(r, size) ==
    IF r.first = Absent \/ r.last = Absent THEN [status |-> 400, range |-> Invalid]
    ELSE IF r.first > r.last \/ r.last >= size THEN [status |-> 416, range |-> Invalid]
    ELSE [status |-> 200, range |-> [start |-> r.first, end |-> r.last]]

EndOf(range, size) == IF range.end = Absent THEN size - 1 ELSE range.end

(* The length the handler announces, and the offsets the file serves: both  *)
(* take end - start + 1 as a u64.                                           *)
ContentLength(range, size) == Wrap(EndOf(range, size) - range.start + 1)

Served(range, size) ==
    LET take == Wrap(Min2(EndOf(range, size), size - 1) - range.start + 1)
    IN {i \in 0..(size - 1) : range.start <= i /\ i < range.start + take}

-----------------------------------------------------------------------------
(* Parts of a finished multipart object *)

Bytes(parts, n) == Ext!FoldLeft(LAMBDA x, y : x + y, 0, SubSeq(parts, 1, n))

(* Mutant of select_part: the last byte of a part is the first of the next. *)
SelectPartInclusive(row, n) ==
    LET start == Bytes(row.parts, n - 1)
    IN IF n > Len(row.parts) THEN [status |-> 400, range |-> Invalid, count |-> 0]
       ELSE IF row.parts[n] = 0 THEN [status |-> 206, range |-> Invalid, count |-> Len(row.parts)]
       ELSE [status |-> 206, range |-> [start |-> start, end |-> Min2(start + row.parts[n], row.size - 1)],
             count |-> Len(row.parts)]

(* The 0-part of Invalid stands for "no range": an empty part, or a whole   *)
(* object that was not uploaded in parts.                                   *)
select_part(row, n) ==
    IF row.parts # <<>> /\ ~row.layout THEN [status |-> 400, range |-> Invalid, count |-> 0]
    ELSE IF row.parts = <<>>
      THEN [status |-> IF n = 1 THEN 200 ELSE 400, range |-> Invalid, count |-> 0]
    ELSE IF n > Len(row.parts) THEN [status |-> 400, range |-> Invalid, count |-> 0]
    ELSE LET start == Bytes(row.parts, n - 1)
         IN [status |-> 206, count |-> Len(row.parts),
             range |-> IF row.parts[n] = 0 THEN Invalid
                       ELSE [start |-> start, end |-> start + row.parts[n] - 1]]

(* The row's range, the announced length and the bytes of one answer. *)
Answer(kind, status, len, bytes, r, size) ==
    [kind |-> kind, status |-> status, len |-> len, bytes |-> bytes, range |-> r, size |-> size]

NoRange == [first |-> Absent, last |-> Absent]

Refused(kind, status, r, size) == Answer(kind, status, 0, {}, r, size)

-----------------------------------------------------------------------------
NoWalk == [etag |-> 0, next |-> 0, got |-> {}, size |-> 0, count |-> 0, twice |-> FALSE]
NoPages == [at |-> "idle", marker |-> 0, max |-> 0, shown |-> <<>>, since |-> {}, etag |-> 0]

Init ==
    /\ client \in {"again", "ranges", "parts", "pages", "attributes"}
    /\ now = 1
    /\ object = None
    /\ held = None
    /\ answer = Refused("none", 404, NoRange, 0)
    /\ walk = NoWalk
    /\ upload = {}
    /\ pages = NoPages

(* The clock of the row is the clock of the server: a later write is stamped *)
(* later.                                                                    *)
Write(size, parts, layout) ==
    /\ now < MaxTime /\ client # "pages"
    /\ now' = now + 1
    /\ object' = [etag |-> now, time |-> now, size |-> size, parts |-> parts, layout |-> layout]
    /\ UNCHANGED <<client, held, answer, walk, upload, pages>>

PutObject(size) == Write(size, <<>>, TRUE)

CompleteMultipartUpload(parts, layout) ==
    Write(Bytes(parts, Len(parts)), parts, layout)

Exists == object # None

(* GetObject with the validators the client holds. *)
GetObject(conds) ==
    /\ client = "again" /\ Exists
    /\ conds # {} => held # None
    /\ LET status == check_conditionals(conds, held, object)
       IN IF status = 200
          THEN /\ answer' = Answer("get", 200, object.size, 0..(object.size - 1), NoRange, object.size)
               /\ held' = object
          ELSE answer' = Refused("get", status, NoRange, object.size) /\ UNCHANGED held
    /\ UNCHANGED <<client, now, object, walk, upload, pages>>

GetRange(r) ==
    /\ client = "ranges" /\ Exists
    /\ LET range == parse_range_header(r, object.size)
       IN answer' = IF range = Invalid THEN Refused("range", 416, r, object.size)
                    ELSE Answer("range", 206, ContentLength(range, object.size),
                                Served(range, object.size), r, object.size)
    /\ UNCHANGED <<client, now, object, held, walk, upload, pages>>

(* UploadPartCopy: the part gets the bytes of the range, or nothing is made. *)
UploadPartCopy(conds, r) ==
    /\ (IF conds = {} THEN client = "ranges" ELSE client = "again") /\ Exists
    /\ conds # {} => held # None
    /\ LET cond == check_copy_source_conditionals(conds, held, object)
           c == parse_copy_source_range(r, object.size)
       IN answer' = IF cond # 200 THEN Refused("copycond", cond, r, object.size)
                    ELSE IF c.status # 200 THEN Refused("copy", c.status, r, object.size)
                    ELSE Answer("copy", 200, ContentLength(c.range, object.size),
                                Served(c.range, object.size), r, object.size)
    /\ UNCHANGED <<client, now, object, held, walk, upload, pages>>

(* A client that downloads by ?partNumber: part 1 tells it the etag and the  *)
(* number of parts, and the others it asks for with If-Match.                *)
GetPart ==
    /\ client = "parts" /\ Exists
    /\ LET first == walk = NoWalk
           n == IF first THEN 1 ELSE walk.next
           sel == select_part(object, n)
           bytes == IF sel.status = 200 THEN 0..(object.size - 1)
                    ELSE IF sel.range = Invalid THEN {}
                    ELSE Served(sel.range, object.size)
       IN IF (~first /\ check_conditionals({"if-match"}, walk, object) # 200) \/ sel.status = 400
          THEN walk' = NoWalk
          ELSE walk' = [etag |-> object.etag, next |-> n + 1, got |-> walk.got \cup bytes,
                        size |-> object.size, count |-> sel.count,
                        twice |-> walk.twice \/ walk.got \cap bytes # {}]
    /\ walk.next <= walk.count \/ walk = NoWalk
    /\ UNCHANGED <<client, now, object, held, answer, upload, pages>>

WalkDone == walk # NoWalk /\ walk.next > walk.count

NextWalk ==
    /\ WalkDone
    /\ walk' = NoWalk
    /\ UNCHANGED <<client, now, object, held, answer, upload, pages>>

-----------------------------------------------------------------------------
(* ListParts of an upload, and GetObjectAttributes of the finished object:  *)
(* the same page, cut out of the parts above the marker.                    *)

(* Mutant of parts_page: a page that is exactly full is truncated. *)
PartsPageFull(parts, marker, max) ==
    LET rest == Ext!SetToSortSeq({p \in parts : p > marker}, <)
        page == SubSeq(rest, 1, Min2(max, Len(rest)))
    IN [page |-> page, truncated |-> Len(rest) > max,
        next |-> IF Len(rest) > max /\ page # <<>> THEN page[Len(page)] + 1 ELSE 0]

parts_page(parts, marker, max) ==
    LET rest == Ext!SetToSortSeq({p \in parts : p > marker}, <)
        page == SubSeq(rest, 1, Min2(max, Len(rest)))
    IN [page |-> page, truncated |-> Len(rest) > max,
        next |-> IF Len(rest) > max /\ page # <<>> THEN page[Len(page)] ELSE 0]

UploadPart(n) ==
    /\ client = "pages"
    /\ upload' = upload \cup {n}
    /\ UNCHANGED <<client, now, object, held, answer, walk, pages>>

StartListParts(max) ==
    /\ client = "pages"
    /\ pages.at # "walking"
    /\ pages' = [at |-> "walking", marker |-> 0, max |-> max, shown |-> <<>>, since |-> upload,
               etag |-> 0]
    /\ UNCHANGED <<client, now, object, held, answer, walk, upload>>

list_parts_handler ==
    /\ client = "pages" /\ pages.at = "walking"
    /\ LET p == parts_page(upload, pages.marker, pages.max)
       IN pages' = [pages EXCEPT !.shown = @ \o p.page, !.marker = p.next,
                                 !.at = IF p.truncated THEN "walking" ELSE "done"]
    /\ UNCHANGED <<client, now, object, held, answer, walk, upload>>

(* The pages of a finished object are only those of one object as long as  *)
(* nobody overwrites it.                                                    *)
get_object_attributes(max) ==
    /\ client = "attributes" /\ Exists /\ object.parts # <<>> /\ object.layout
    /\ LET fresh == pages.at # "walking"
           all == 1..Len(object.parts)
           p == parts_page(all, IF fresh THEN 0 ELSE pages.marker, max)
       IN pages' = [at |-> IF p.truncated THEN "walking" ELSE "done", marker |-> p.next, max |-> max,
                    shown |-> IF fresh THEN p.page ELSE pages.shown \o p.page,
                    since |-> IF fresh THEN all ELSE IF object.etag = pages.etag THEN pages.since ELSE {},
                    etag |-> object.etag]
    /\ UNCHANGED <<client, now, object, held, answer, walk, upload>>

Next ==
    \/ \E size \in Sizes : PutObject(size)
    \/ \E parts \in Layouts, layout \in BOOLEAN : CompleteMultipartUpload(parts, layout)
    \/ \E conds \in SUBSET Conditions : GetObject(conds)
    \/ \E r \in Ranges : GetRange(r)
    \/ \E conds \in {{c} : c \in Conditions} \cup {{}}, r \in Ranges : UploadPartCopy(conds, r)
    \/ GetPart \/ NextWalk
    \/ \E n \in PartNumbers : UploadPart(n)
    \/ \E max \in PageSizes : StartListParts(max)
    \/ list_parts_handler
    \/ \E max \in PageSizes : get_object_attributes(max)

Spec == Init /\ [][Next]_vars

-----------------------------------------------------------------------------
(* Every variable has its type. *)
TypeOK ==
    /\ now \in 1..MaxTime
    /\ object.etag < now /\ held.etag <= object.etag
    /\ answer.status \in {200, 206, 304, 400, 404, 412, 416}
    /\ answer.len \in 0..(Word - 1)
    /\ walk.got \subseteq Nat /\ upload \subseteq PartNumbers
    /\ pages.at \in {"idle", "walking", "done"}

(* A client that revalidates what it holds, with any mix of the conditional *)
(* headers, is told 304 only while the object is still the one it holds, and *)
(* its If-Match or If-Unmodified-Since only passes then: two writes within a *)
(* second do not look like one, although the dates on the wire do.           *)
NeverStaleStep ==
    \A conds \in SUBSET Conditions :
       GetObject(conds) =>
         /\ answer'.status = 304 => object.etag = held.etag
         /\ (answer'.status = 200 /\ conds \cap {"if-match", "if-unmodified-since"} # {})
               => object.etag = held.etag

\* The same, as a property of the behaviour: every step is such a step.
NeverStale == [][NeverStaleStep]_vars

(* What RFC 9110 makes of a range on an object of this size. *)
RangeBytes(r, size) ==
    IF r.first = Absent THEN {i \in 0..(size - 1) : i >= size - r.last}
    ELSE {i \in 0..(size - 1) : r.first <= i /\ (r.last # Absent => i <= r.last)}

(* A range read announces and serves exactly the bytes of the range that the *)
(* object has, and a range that has none, or ends before it starts, is       *)
(* refused; a copied range lies inside its source.                           *)
RangeIsServed ==
    answer.kind \in {"range", "copy"} =>
        IF answer.status \in {200, 206}
        THEN /\ answer.bytes = RangeBytes(answer.range, answer.size)
             /\ answer.bytes # {} /\ answer.len = Cardinality(answer.bytes)
        ELSE answer.kind = "range" => RangeBytes(answer.range, answer.size) = {}

(* A download part by part ends with every byte of one object, each once:   *)
(* the ranges of the parts neither overlap nor leave a gap, empty parts     *)
(* included, and an overwrite in between ends it rather than mixing two     *)
(* objects.                                                                 *)
PartsTile ==
    WalkDone => walk.got = 0..(walk.size - 1) /\ ~walk.twice

(* A walk over ListParts, or over the parts of GetObjectAttributes, shows   *)
(* every part that was there when it began, once and in order, while more   *)
(* parts arrive.                                                            *)
PartsListedOnce ==
    /\ \A i, j \in 1..Len(pages.shown) : i < j => pages.shown[i] < pages.shown[j]
    /\ pages.at = "done" => pages.since \subseteq {pages.shown[i] : i \in 1..Len(pages.shown)}

=============================================================================
