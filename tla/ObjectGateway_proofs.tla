------------------------ MODULE ObjectGateway_proofs ------------------------
(***************************************************************************)
(* Proofs about ObjectGateway, for any requests, keys and versioning       *)
(* states: type correctness with the unique indexes of table objects, no   *)
(* row or part without its blob, no blob forgotten, conditional writes     *)
(* that are atomic, no tags of a replaced object, and (in a bucket that is *)
(* always versioned) locks that bind deletes.                              *)
(***************************************************************************)
EXTENDS ObjectGateway, FiniteSetTheorems, TLAPS

Lasts == Untils \cup {0}
Modes == {"none", "COMPLIANCE", "GOVERNANCE"}

\* A request under way.
ReqType ==
  [op : {"none", "put", "copy", "partcopy", "get", "head", "delete", "deletever", "batch",
         "tag", "untag", "retain", "hold"},
   pc : {"idle", "body", "stored", "source", "read", "checked", "cleanup", "done"},
   key : Key \cup {0}, src : Key \cup {0}, vid : Vid, pre : Pre, at : Nat, row : RowType,
   tags : Vid, mode : Modes, until : Lasts, old : Vid,
   res : {"none", "ok", "refused", "error"}]

\* No retain-until date without a mode.
Dated(x) == x.mode = "none" => x.until = 0

\* Every request but an UploadPartCopy has its key.
ReqTyped ==
  /\ req \in [Request -> ReqType]
  /\ \A r \in Request : req[r].pc # "idle" /\ req[r].op # "partcopy" => req[r].key \in Key
  /\ \A r \in Request : Dated(req[r])

RowsTyped == rows \in [Key -> SUBSET RowType]

\* Types of all variables.
Typed ==
  /\ versioning \in {"Unversioned", "Enabled", "Suspended"}
  /\ clock \in Nat /\ now \in Nat
  /\ RowsTyped
  /\ tags \in [Key -> [Vid -> Vid]]
  /\ part \in Vid
  /\ disk \subseteq Request /\ doomed \subseteq Request
  /\ ReqTyped

Shape == Indexed /\ Plain /\ VidsPast

Owned == RowsOwn /\ PartOwns /\ ClaimsPast /\ StoredIsThere /\ Accounted /\ ResultAtEnd

-----------------------------------------------------------------------------
(* Rows. *)

\* Row y is row x with another lock, at most.
Alike(x, y) ==
  /\ x.vid = y.vid /\ x.blob = y.blob /\ x.marker = y.marker /\ x.etag = y.etag
  /\ Dated(x) => Dated(y)

\* Alike, under one lock: they may differ in the mark of the latest version.
Same(x, y) == Alike(x, y) /\ x.mode = y.mode /\ x.until = y.until /\ x.hold = y.hold

Mark(x, b) == [x EXCEPT !.latest = b]

\* T has the rows of S, with other marks.
Copies(S, T) ==
  /\ \A y \in T : \E x \in S : Same(x, y)
  /\ \A x \in S : \E y \in T : Same(x, y)

\* A version has one row.
OneEach(S) == \A x, y \in S : x.vid = y.vid => x = y

\* ... and one row is latest.
Index(S) == \A x, y \in S : x.vid = y.vid \/ (x.latest /\ y.latest) => x = y

LEMMA InNat ==
  ASSUME Positive, NEW v \in Request \cup {0}
  PROVE  v \in Nat
  BY DEF Positive

LEMMA NoRowType == NoRow \in RowType
  BY DEF NoRow, RowType, Vid

LEMMA IdleType == Idle \in ReqType
  BY NoRowType DEF Idle, ReqType, Vid, Pre, NoPre, Modes, Lasts

LEMMA RowFields ==
  ASSUME NEW x \in RowType
  PROVE  /\ x.vid \in Request \cup {0} /\ x.blob \in Request \cup {0} /\ x.etag \in Request \cup {0}
         /\ x.at \in Nat /\ x.marker \in BOOLEAN /\ x.latest \in BOOLEAN
         /\ x.mode \in Modes /\ x.until \in Lasts /\ x.hold \in BOOLEAN
  BY DEF RowType, Vid, Modes, Lasts

LEMMA MarkFields ==
  ASSUME NEW x \in RowType, NEW b \in BOOLEAN
  PROVE  Mark(x, b) \in RowType /\ Same(x, Mark(x, b)) /\ Mark(x, b).latest = b
                                /\ Mark(x, b).vid = x.vid
  BY DEF Mark, RowType, Same, Alike, Dated

LEMMA DemotedRows ==
  ASSUME NEW S \in SUBSET RowType
  PROVE  /\ Demoted(S) \subseteq RowType /\ Copies(S, Demoted(S))
         /\ \A y \in Demoted(S) : ~y.latest
  <1>1. Demoted(S) = {Mark(x, FALSE) : x \in S}
    BY DEF Demoted, Mark
  <1>2. \A x \in S : Mark(x, FALSE) \in RowType /\ Same(x, Mark(x, FALSE)) /\ ~Mark(x, FALSE).latest
    BY MarkFields
  <1> QED BY <1>1, <1>2 DEF Copies

LEMMA DemotedOneEach ==
  ASSUME NEW S \in SUBSET RowType, OneEach(S)
  PROVE  OneEach(Demoted(S))
  <1> SUFFICES ASSUME NEW u \in Demoted(S), NEW w \in Demoted(S), u.vid = w.vid
               PROVE  u = w
    BY DEF OneEach
  <1>1. PICK x \in S : u = Mark(x, FALSE)
    BY DEF Demoted, Mark
  <1>2. PICK y \in S : w = Mark(y, FALSE)
    BY DEF Demoted, Mark
  <1>3. u.vid = x.vid /\ w.vid = y.vid
    BY <1>1, <1>2, MarkFields
  <1>4. x = y
    BY <1>3 DEF OneEach
  <1> QED BY <1>1, <1>2, <1>4

\* The rows recompute_is_latest marks.
Tops(S) == {x \in S : \A y \in S : [y EXCEPT !.latest = x.latest] = x \/ Newer(x, y)}

LEMMA RecomputeMarks ==
  ASSUME NEW S \in SUBSET RowType
  PROVE  /\ Recompute(S) = {Mark(x, x \in Tops(S)) : x \in S}
         /\ \A x \in S : /\ Mark(x, x \in Tops(S)) \in RowType
                         /\ Same(x, Mark(x, x \in Tops(S)))
                         /\ Mark(x, x \in Tops(S)).vid = x.vid
                         /\ Mark(x, x \in Tops(S)).latest = (x \in Tops(S))
  <1>1. Recompute(S) = {Mark(x, x \in Tops(S)) : x \in S}
    BY DEF Recompute, Mark, Tops
  <1>2. \A x \in S : (x \in Tops(S)) \in BOOLEAN
    BY DEF Tops
  <1> QED BY <1>1, <1>2, MarkFields

LEMMA RecomputeRows ==
  ASSUME NEW S \in SUBSET RowType
  PROVE  Recompute(S) \subseteq RowType /\ Copies(S, Recompute(S))
  BY RecomputeMarks DEF Copies

\* recompute_is_latest marks one row: the order is total up to the mark.
LEMMA RecomputeIndex ==
  ASSUME Positive, NEW S \in SUBSET RowType, OneEach(S)
  PROVE  Index(Recompute(S))
  <1>1. \A x, y \in Tops(S) : x.vid = y.vid
    <2> SUFFICES ASSUME NEW x \in Tops(S), NEW y \in Tops(S), x.vid # y.vid PROVE FALSE
      OBVIOUS
    <2>1. x \in S /\ y \in S /\ x \in RowType /\ y \in RowType
      BY DEF Tops
    <2>2. x.at \in Nat /\ y.at \in Nat /\ x.vid \in Nat /\ y.vid \in Nat
      BY <2>1, RowFields, InNat
    <2>3. [y EXCEPT !.latest = x.latest].vid = y.vid /\ [x EXCEPT !.latest = y.latest].vid = x.vid
      BY <2>1 DEF RowType
    <2>4. Newer(x, y) /\ Newer(y, x)
      BY <2>1, <2>3 DEF Tops
    <2> QED BY <2>2, <2>4 DEF Newer
  <1>2. \A x \in Tops(S) : x \in S
    BY DEF Tops
  <1> SUFFICES ASSUME NEW u \in Recompute(S), NEW w \in Recompute(S),
                      u.vid = w.vid \/ (u.latest /\ w.latest)
               PROVE  u = w
    BY DEF Index
  <1>5. PICK x \in S : u = Mark(x, x \in Tops(S))
    BY RecomputeMarks
  <1>6. PICK y \in S : w = Mark(y, y \in Tops(S))
    BY RecomputeMarks
  <1>7. x.vid = y.vid \/ (x \in Tops(S) /\ y \in Tops(S))
    <2>1. u.vid = x.vid /\ u.latest = (x \in Tops(S))
      BY <1>5, RecomputeMarks
    <2>2. w.vid = y.vid /\ w.latest = (y \in Tops(S))
      BY <1>6, RecomputeMarks
    <2> QED BY <2>1, <2>2
  <1>8. x.vid = y.vid
    BY <1>1, <1>7
  <1>9. x = y
    BY <1>8 DEF OneEach
  <1> QED BY <1>5, <1>6, <1>9

LEMMA CopiesSelf ==
  ASSUME NEW S
  PROVE  Copies(S, S)
  BY DEF Copies, Same, Alike

LEMMA CopiesTrans ==
  ASSUME NEW S, NEW T, NEW U, Copies(S, T), Copies(T, U)
  PROVE  Copies(S, U)
  <1>1. ASSUME NEW u \in U PROVE \E x \in S : Same(x, u)
    <2>1. PICK y \in T : Same(y, u)
      BY DEF Copies
    <2>2. PICK x \in S : Same(x, y)
      BY DEF Copies
    <2> QED BY <2>1, <2>2 DEF Same, Alike
  <1>2. ASSUME NEW x \in S PROVE \E u \in U : Same(x, u)
    <2>1. PICK y \in T : Same(x, y)
      BY DEF Copies
    <2>2. PICK u \in U : Same(y, u)
      BY DEF Copies
    <2> QED BY <2>1, <2>2 DEF Same, Alike
  <1> QED BY <1>1, <1>2 DEF Copies

LEMMA CopiesUnion ==
  ASSUME NEW S, NEW T, NEW N, Copies(S, T)
  PROVE  Copies(S \cup N, T \cup N)
  <1>1. Copies(N, N)
    BY CopiesSelf
  <1> QED BY <1>1 DEF Copies

\* A row of a new version joins rows of other versions.
LEMMA JoinOneEach ==
  ASSUME NEW S, OneEach(S), NEW x, \A y \in S : y.vid # x.vid
  PROVE  OneEach(S \cup {x})
  BY DEF OneEach

\* Rows marked anew, with one more.
LEMMA DemotedJoin ==
  ASSUME NEW S \in SUBSET RowType, OneEach(S),
         NEW x \in RowType, \A y \in S : y.vid # x.vid
  PROVE  LET T == Demoted(S) \cup {x}
         IN  T \subseteq RowType /\ OneEach(T) /\ Copies(S \cup {x}, T)
  <1>1. Demoted(S) \subseteq RowType /\ Copies(S, Demoted(S))
    BY DemotedRows
  <1>2. OneEach(Demoted(S))
    BY DemotedOneEach
  <1>3. \A y \in Demoted(S) : y.vid # x.vid
    BY <1>1 DEF Copies, Same, Alike
  <1>4. OneEach(Demoted(S) \cup {x})
    BY <1>2, <1>3, JoinOneEach
  <1>5. Copies(S \cup {x}, Demoted(S) \cup {x})
    BY <1>1, CopiesUnion
  <1> QED BY <1>1, <1>4, <1>5

LEMMA DemotedJoinMarked ==
  ASSUME Positive, NEW S \in SUBSET RowType, OneEach(S),
         NEW x \in RowType, \A y \in S : y.vid # x.vid
  PROVE  LET T == Recompute(Demoted(S) \cup {x})
         IN  T \subseteq RowType /\ Index(T) /\ Copies(S \cup {x}, T)
  <1> DEFINE D == Demoted(S) \cup {x}
  <1>1. D \subseteq RowType /\ OneEach(D) /\ Copies(S \cup {x}, D)
    BY DemotedJoin
  <1>2. Recompute(D) \subseteq RowType /\ Copies(D, Recompute(D))
    BY <1>1, RecomputeRows
  <1>3. Index(Recompute(D))
    BY <1>1, RecomputeIndex
  <1>4. Copies(S \cup {x}, Recompute(D))
    BY <1>1, <1>2, CopiesTrans
  <1> QED BY <1>2, <1>3, <1>4

-----------------------------------------------------------------------------
(* The transactions on the rows of a key. *)

\* What an unversioned bucket holds.
PlainRows(S) == \A x \in S : x.vid = 0 /\ x.latest /\ ~x.marker

\* T is a set of rows the table may hold for a key that held S, after the rows
\* of Gone have left and those of N have come.
Turns(S, T, Gone, N) ==
  /\ T \subseteq RowType /\ Index(T)
  /\ versioning = "Unversioned" => PlainRows(T)
  /\ Copies((S \ Gone) \cup N, T)

LEMMA KeyShape ==
  ASSUME Typed, Shape, NEW k \in Key
  PROVE  /\ rows[k] \subseteq RowType /\ Index(rows[k]) /\ OneEach(rows[k])
         /\ versioning = "Unversioned" => PlainRows(rows[k]) /\ Latest(k) = rows[k]
         /\ \A x \in rows[k] : x.vid = 0 \/ Past(x.vid)
  <1>1. rows[k] \subseteq RowType
    BY DEF Typed, RowsTyped
  <1>2. Index(rows[k])
    BY DEF Shape, Indexed, Index
  <1>3. versioning = "Unversioned" => PlainRows(rows[k])
    BY DEF Shape, Plain, PlainRows
  <1> QED BY <1>1, <1>2, <1>3 DEF Shape, VidsPast, Index, OneEach, PlainRows, Latest

\* The row install_object adds.
Added(x) == [x EXCEPT !.vid = VidOf(x.blob)]

LEMMA AddedFields ==
  ASSUME NEW x \in RowType
  PROVE  /\ Added(x) \in RowType /\ Added(x).vid = VidOf(x.blob) /\ Added(x).blob = x.blob
         /\ Added(x).marker = x.marker /\ Added(x).mode = x.mode /\ Added(x).until = x.until
         /\ Added(x).hold = x.hold
  <1>1. VidOf(x.blob) \in Vid
    BY RowFields DEF VidOf, Vid
  <1> QED BY <1>1 DEF Added, RowType

LEMMA InstalledTurns ==
  ASSUME Positive, Typed, Shape, NEW k \in Key,
         NEW x \in RowType, x.blob \in Request, ~Past(x.blob), ~x.marker
  PROVE  Turns(rows[k], Installed(k, x), Displaced(k), {Added(x)})
  <1>0. Added(x) \in RowType /\ Added(x).vid = VidOf(x.blob)
    BY AddedFields
  <1>1. /\ rows[k] \subseteq RowType /\ OneEach(rows[k])
        /\ \A y \in rows[k] : y.vid = 0 \/ Past(y.vid)
        /\ versioning = "Unversioned" => Latest(k) = rows[k]
    BY KeyShape
  <1>2. CASE versioning = "Unversioned"
    <2> DEFINE z == [x EXCEPT !.vid = 0, !.latest = TRUE]
    <2>1. Installed(k, x) = {z} /\ Displaced(k) = rows[k]
      BY <1>1, <1>2 DEF Installed, Displaced
    <2>2. z \in RowType /\ z.vid = 0 /\ z.latest /\ ~z.marker
      BY DEF RowType, Vid
    <2>3. Same(Added(x), z)
      BY <1>2 DEF RowType, Same, Alike, Added, VidOf, Dated
    <2>4. Copies((rows[k] \ rows[k]) \cup {Added(x)}, {z})
      BY <2>3 DEF Copies
    <2>5. Index({z}) /\ PlainRows({z})
      BY <2>2 DEF Index, PlainRows
    <2> QED BY <2>1, <2>2, <2>4, <2>5 DEF Turns
  <1>3. CASE versioning = "Enabled"
    <2>1. Added(x) = [x EXCEPT !.vid = x.blob] /\ Added(x).vid = x.blob
      BY <1>0, <1>3 DEF Added, VidOf
    <2>2. Displaced(k) = {} /\ Installed(k, x) = Recompute(Demoted(rows[k]) \cup {Added(x)})
      BY <2>1, <1>3 DEF Displaced, Installed
    <2>3. \A y \in rows[k] : y.vid # Added(x).vid
      <3>1. x.blob # 0
        BY DEF Positive
      <3> QED BY <1>1, <2>1, <3>1
    <2>4. /\ Installed(k, x) \subseteq RowType /\ Index(Installed(k, x))
          /\ Copies(rows[k] \cup {Added(x)}, Installed(k, x))
      BY <1>0, <1>1, <2>2, <2>3, DemotedJoinMarked
    <2>5. (rows[k] \ Displaced(k)) \cup {Added(x)} = rows[k] \cup {Added(x)}
      BY <2>2
    <2> QED BY <1>3, <2>4, <2>5 DEF Turns
  <1>4. CASE versioning = "Suspended"
    <2> DEFINE S == {y \in rows[k] : y.vid # 0}
    <2>1. Added(x) = [x EXCEPT !.vid = 0] /\ Added(x).vid = 0
      BY <1>0, <1>4 DEF Added, VidOf
    <2>2. Displaced(k) = Version(k, 0) /\ Installed(k, x) = Recompute(Demoted(S) \cup {Added(x)})
      BY <2>1, <1>4 DEF Displaced, Installed
    <2>3. \A y \in S : y.vid # Added(x).vid
      BY <2>1
    <2>4. S \subseteq RowType /\ OneEach(S)
      BY <1>1 DEF OneEach
    <2>5. /\ Installed(k, x) \subseteq RowType /\ Index(Installed(k, x))
          /\ Copies(S \cup {Added(x)}, Installed(k, x))
      BY <1>0, <2>2, <2>3, <2>4, DemotedJoinMarked
    <2>6. rows[k] \ Displaced(k) = S
      BY <2>2 DEF Version
    <2> QED BY <1>4, <2>5, <2>6 DEF Turns
  <1> QED BY <1>2, <1>3, <1>4 DEF Typed

\* The marker delete_latest_in_tx adds, in a bucket that has versions.
MarkerRow(r) ==
  LET m == [NoRow EXCEPT !.at = clock, !.marker = TRUE, !.latest = TRUE]
  IN  IF versioning = "Enabled" THEN [m EXCEPT !.vid = r] ELSE m
Markers(r) == IF versioning = "Unversioned" THEN {} ELSE {MarkerRow(r)}

LEMMA MarkerFields ==
  ASSUME Typed, NEW r \in Request
  PROVE  LET m == MarkerRow(r)
         IN  /\ m \in RowType /\ m.vid = VidOf(r) /\ m.blob = 0 /\ m.marker /\ m.latest
             /\ m.mode = "none" /\ m.until = 0 /\ ~m.hold /\ m.etag = 0
  <1>1. clock \in Nat
    BY DEF Typed
  <1>2. CASE versioning = "Enabled"
    BY <1>1, <1>2 DEF MarkerRow, NoRow, RowType, Vid, VidOf
  <1>3. CASE versioning # "Enabled"
    BY <1>1, <1>3 DEF MarkerRow, NoRow, RowType, Vid, VidOf
  <1> QED BY <1>2, <1>3

LEMMA DeletedLatestTurns ==
  ASSUME Positive, Typed, Shape, NEW k \in Key, NEW r \in Request, ~Past(r)
  PROVE  Turns(rows[k], DeletedLatest(k, r), Displaced(k), Markers(r))
  <1> DEFINE m == MarkerRow(r)
  <1>0. m \in RowType /\ m.vid = VidOf(r) /\ m.latest
    BY MarkerFields
  <1>1. /\ rows[k] \subseteq RowType /\ OneEach(rows[k])
        /\ \A y \in rows[k] : y.vid = 0 \/ Past(y.vid)
        /\ versioning = "Unversioned" => Latest(k) = rows[k]
    BY KeyShape
  <1>2. ASSUME NEW S \in SUBSET RowType, OneEach(S), \A y \in S : y.vid # m.vid
        PROVE  /\ Demoted(S) \cup {m} \subseteq RowType /\ Index(Demoted(S) \cup {m})
               /\ Copies(S \cup {m}, Demoted(S) \cup {m})
    <2>1. /\ Demoted(S) \cup {m} \subseteq RowType /\ OneEach(Demoted(S) \cup {m})
          /\ Copies(S \cup {m}, Demoted(S) \cup {m})
      BY <1>0, <1>2, DemotedJoin
    <2>2. \A y \in Demoted(S) : ~y.latest
      BY DemotedRows
    <2> QED BY <2>1, <2>2 DEF OneEach, Index
  <1>3. CASE versioning = "Unversioned"
    <2>1. DeletedLatest(k, r) = {} /\ Displaced(k) = rows[k] /\ Markers(r) = {}
      BY <1>1, <1>3 DEF DeletedLatest, Displaced, Markers
    <2>2. Turns(rows[k], {}, rows[k], {})
      BY DEF Turns, Index, PlainRows, Copies
    <2> QED BY <2>1, <2>2
  <1>4. CASE versioning = "Enabled"
    <2>1. m = [[NoRow EXCEPT !.at = clock, !.marker = TRUE, !.latest = TRUE] EXCEPT !.vid = r]
      BY <1>4 DEF MarkerRow
    <2>2. DeletedLatest(k, r) = Demoted(rows[k]) \cup {m} /\ Displaced(k) = {} /\ Markers(r) = {m}
      BY <1>4, <2>1 DEF DeletedLatest, Displaced, Markers
    <2>3. \A y \in rows[k] : y.vid # m.vid
      <3>1. m.vid = r /\ r # 0
        BY <1>0, <1>4 DEF VidOf, Positive
      <3> QED BY <1>1, <3>1
    <2>4. (rows[k] \ Displaced(k)) \cup Markers(r) = rows[k] \cup {m}
      BY <2>2
    <2>5. /\ Demoted(rows[k]) \cup {m} \subseteq RowType /\ Index(Demoted(rows[k]) \cup {m})
          /\ Copies(rows[k] \cup {m}, Demoted(rows[k]) \cup {m})
      <3> HIDE DEF m
      <3> QED BY <1>1, <1>2, <2>3
    <2> QED BY <1>4, <2>2, <2>4, <2>5 DEF Turns
  <1>5. CASE versioning = "Suspended"
    <2> DEFINE S == {y \in rows[k] : y.vid # 0}
    <2>1. m = [NoRow EXCEPT !.at = clock, !.marker = TRUE, !.latest = TRUE]
      BY <1>5 DEF MarkerRow
    <2>2. /\ DeletedLatest(k, r) = Demoted(S) \cup {m} /\ Displaced(k) = Version(k, 0)
          /\ Markers(r) = {m}
      BY <1>5, <2>1 DEF DeletedLatest, Displaced, Markers
    <2>3. \A y \in S : y.vid # m.vid
      BY <1>0, <1>5 DEF VidOf
    <2>4. S \subseteq RowType /\ OneEach(S)
      BY <1>1 DEF OneEach
    <2>5. (rows[k] \ Displaced(k)) \cup Markers(r) = S \cup {m}
      BY <2>2 DEF Version
    <2>6. /\ Demoted(S) \cup {m} \subseteq RowType /\ Index(Demoted(S) \cup {m})
          /\ Copies(S \cup {m}, Demoted(S) \cup {m})
      <3> HIDE DEF S, m
      <3> QED BY <1>2, <2>3, <2>4
    <2> QED BY <1>5, <2>2, <2>5, <2>6 DEF Turns
  <1> QED BY <1>3, <1>4, <1>5 DEF Typed

LEMMA StaysTurns ==
  ASSUME Typed, Shape, NEW k \in Key
  PROVE  Turns(rows[k], rows[k], {}, {})
  <1>1. Copies(rows[k], rows[k])
    BY CopiesSelf
  <1>2. (rows[k] \ {}) \cup {} = rows[k]
    OBVIOUS
  <1> QED BY <1>1, <1>2, KeyShape DEF Turns

LEMMA DeletedVersionTurns ==
  ASSUME Positive, Typed, Shape, NEW k \in Key, NEW v \in Vid
  PROVE  Turns(rows[k], DeletedVersion(k, v), Version(k, v), {})
  <1> DEFINE S == rows[k] \ Version(k, v)
  <1>1. /\ rows[k] \subseteq RowType /\ OneEach(rows[k])
        /\ versioning = "Unversioned" => PlainRows(rows[k])
    BY KeyShape
  <1>2. CASE Version(k, v) = {}
    <2>1. DeletedVersion(k, v) = rows[k]
      BY <1>2 DEF DeletedVersion
    <2> QED BY <1>2, <2>1, StaysTurns
  <1>3. CASE Version(k, v) # {}
    <2>1. DeletedVersion(k, v) = Recompute(S)
      BY <1>3 DEF DeletedVersion
    <2>2. S \subseteq RowType /\ OneEach(S)
      BY <1>1 DEF OneEach
    <2>3. Recompute(S) \subseteq RowType /\ Copies(S, Recompute(S)) /\ Index(Recompute(S))
      BY <2>2, RecomputeRows, RecomputeIndex
    <2>4. ASSUME versioning = "Unversioned" PROVE PlainRows(Recompute(S))
      <3>1. S = {}
        BY <1>1, <1>3, <2>4 DEF PlainRows, Version
      <3>2. Recompute(S) = {}
        BY <2>3, <3>1 DEF Copies
      <3> QED BY <3>2 DEF PlainRows
    <2>5. S \cup {} = S
      OBVIOUS
    <2> QED BY <2>1, <2>3, <2>4, <2>5 DEF Turns
  <1> QED BY <1>2, <1>3

-----------------------------------------------------------------------------
(* Kinds of steps. *)

\* The phases of a request that has written nothing.
Open == {"idle", "body", "source", "read", "checked"}

\* Request r takes a step, the others do not.
Moves(r) ==
  /\ \A s \in Request : s # r => req'[s] = req[s]
  /\ req[r].pc # "done"
  /\ req[r].pc = "cleanup" => req'[r].pc = "done"
  /\ req'[r].res # "none" => req'[r].pc = "done"
  /\ req[r].pc # "idle" => req'[r].op = req[r].op

\* A lock check of request q, on what it has seen of key k.
LockChecked(q, k) ==
  /\ q.row = SeenVersion(k, q.vid) /\ q.vid \in ExistingVid(k)
  /\ \A x \in Version(k, q.vid) :
       x.marker \/ (~x.hold /\ (q.op = "batch" => LockAllowsDeleteBatch(x)))

\* A delete of a version goes ahead on a lock check, a tagging request on a
\* version it has seen.
Checks(q) ==
  /\ q.pc = "checked" /\ q.op \in {"deletever", "batch"} => \E k \in Key : LockChecked(q, k)
  /\ q.pc = "checked" /\ q.op \in {"tag", "untag"} => q.vid = 0 \/ Past(q.vid)

\* Up to Alike, T is S without Gone and with N.
Trades(S, T, Gone, N) ==
  /\ \A y \in T : \E x \in (S \ Gone) \cup N : Alike(x, y)
  /\ \A x \in (S \ Gone) \cup N : \E y \in T : Alike(x, y)

RowsStay == \A k \in Key : Trades(rows[k], rows'[k], {}, {})

RowsChange(k, Gone, N) ==
  /\ \A l \in Key : l # k => rows'[l] = rows[l]
  /\ Trades(rows[k], rows'[k], Gone, N)

LEMMA TurnsTrades ==
  ASSUME NEW S, NEW T, NEW Gone, NEW N, Turns(S, T, Gone, N)
  PROVE  Trades(S, T, Gone, N)
  BY DEF Turns, Trades, Copies, Same

LEMMA SameRowsStay ==
  ASSUME rows' = rows
  PROVE  RowsStay
  BY DEF RowsStay, Trades, Alike

LEMMA PastKept ==
  ASSUME NEW r \in Request, Moves(r), NEW b, Past(b)
  PROVE  Past(b)'
  <1>1. CASE b = r
    BY <1>1 DEF Moves, Past
  <1>2. CASE b # r
    BY <1>2 DEF Moves, Past
  <1> QED BY <1>1, <1>2

LEMMA UnclaimedKept ==
  ASSUME NEW r \in Request, Moves(r), NEW b, Unclaimed(b), b \notin doomed',
         req'[r].pc = "cleanup" => req'[r].old # b
  PROVE  Unclaimed(b)'
  <1>1. Past(b)'
    BY PastKept DEF Unclaimed
  <1>2. ASSUME NEW s \in Request, req'[s].pc = "cleanup" PROVE req'[s].old # b
    <2>1. CASE s = r
      BY <1>2, <2>1
    <2>2. CASE s # r
      BY <1>2, <2>2 DEF Unclaimed, Moves
    <2> QED BY <2>1, <2>2
  <1> QED BY <1>1, <1>2 DEF Unclaimed

\* Rows keep their blobs when those that were there do, and a new row, if
\* there is one, brings a blob of its own.
LEMMA RowsOwnStep ==
  ASSUME RowsOwn, NEW n, NEW l, NEW v,
         \A k \in Key : \A y \in rows'[k] :
            \/ \E x \in rows[k] : Alike(x, y) /\ (x.marker \/ (x.blob \in disk' /\ Unclaimed(x.blob)' /\ part' # x.blob))
            \/ y.marker /\ y.blob = 0
            \/ n # 0 /\ k = l /\ y.blob = n /\ y.vid = v /\ ~y.marker,
         n # 0 => /\ n \in disk' /\ Unclaimed(n)' /\ part' # n
                  /\ \A k \in Key : \A x \in rows[k] : x.blob # n
  PROVE  RowsOwn'
  <1>1. ASSUME NEW k \in Key, NEW y \in rows'[k]
        PROVE  IF y.marker THEN y.blob = 0
               ELSE y.blob \in disk' /\ Unclaimed(y.blob)' /\ part' # y.blob
    <2>1. CASE \E x \in rows[k] : Alike(x, y) /\ (x.marker \/ (x.blob \in disk' /\ Unclaimed(x.blob)' /\ part' # x.blob))
      <3>1. PICK x \in rows[k] : Alike(x, y) /\ (x.marker \/ (x.blob \in disk' /\ Unclaimed(x.blob)' /\ part' # x.blob))
        BY <2>1
      <3>2. x.marker => x.blob = 0
        BY DEF RowsOwn
      <3>3. x.blob = y.blob /\ x.marker = y.marker
        BY <3>1 DEF Alike
      <3> QED BY <3>1, <3>2, <3>3
    <2>2. CASE y.marker /\ y.blob = 0
      BY <2>2
    <2>3. CASE n # 0 /\ k = l /\ y.blob = n /\ y.vid = v /\ ~y.marker
      BY <2>3
    <2> QED BY <2>1, <2>2, <2>3
  <1>2. ASSUME NEW k \in Key, NEW m \in Key, NEW y \in rows'[k], NEW z \in rows'[m],
               y.blob = z.blob, y.blob # 0
        PROVE  k = m /\ y.vid = z.vid
    <2>1. \/ \E x \in rows[k] : Alike(x, y)
          \/ n # 0 /\ k = l /\ y.blob = n /\ y.vid = v
      BY <1>2
    <2>2. \/ \E x \in rows[m] : Alike(x, z)
          \/ n # 0 /\ m = l /\ z.blob = n /\ z.vid = v
      BY <1>2
    <2>3. CASE \E x \in rows[k] : Alike(x, y)
      <3>1. PICK x \in rows[k] : Alike(x, y)
        BY <2>3
      <3>2. x.blob = z.blob /\ x.vid = y.vid /\ x.blob # 0
        BY <1>2, <3>1 DEF Alike
      <3>3. PICK w \in rows[m] : Alike(w, z)
        BY <2>2, <3>2
      <3>4. w.blob = x.blob /\ w.vid = z.vid
        BY <3>2, <3>3 DEF Alike
      <3>5. k = m /\ x.vid = w.vid
        BY <3>2, <3>4 DEF RowsOwn
      <3> QED BY <3>2, <3>4, <3>5
    <2>4. CASE n # 0 /\ k = l /\ y.blob = n /\ y.vid = v
      <3>1. ~\E x \in rows[m] : Alike(x, z)
        BY <1>2, <2>4 DEF Alike
      <3> QED BY <2>2, <2>4, <3>1
    <2> QED BY <2>1, <2>3, <2>4
  <1> QED BY <1>1, <1>2 DEF RowsOwn

LEMMA RowsOwnStay ==
  ASSUME RowsOwn,
         \A k \in Key : \A y \in rows'[k] :
            \/ \E x \in rows[k] : Alike(x, y) /\ (x.marker \/ (x.blob \in disk' /\ Unclaimed(x.blob)' /\ part' # x.blob))
            \/ y.marker /\ y.blob = 0
  PROVE  RowsOwn'
  <1> DEFINE n == 0
  <1>1. n # 0 => /\ n \in disk' /\ Unclaimed(n)' /\ part' # n
                 /\ \A k \in Key : \A x \in rows[k] : x.blob # n
    OBVIOUS
  <1>2. \A k \in Key : \A y \in rows'[k] :
            \/ \E x \in rows[k] : Alike(x, y) /\ (x.marker \/ (x.blob \in disk' /\ Unclaimed(x.blob)' /\ part' # x.blob))
            \/ y.marker /\ y.blob = 0
            \/ n # 0 /\ k = 0 /\ y.blob = n /\ y.vid = 0 /\ ~y.marker
    OBVIOUS
  <1> HIDE DEF n
  <1> QED BY <1>1, <1>2, RowsOwnStep

\* The rows stay, and so do their claims and blobs.
LEMMA RowsOwnKept ==
  ASSUME Typed, NEW r \in Request, Moves(r), RowsOwn, RowsStay,
         doomed' \subseteq doomed, req'[r].pc # "cleanup",
         \A b \in disk : Unclaimed(b) => b \in disk',
         part' = part
  PROVE  RowsOwn'
  <1> SUFFICES ASSUME NEW k \in Key, NEW y \in rows'[k]
               PROVE  \E x \in rows[k] :
                        Alike(x, y) /\ (x.marker \/ (x.blob \in disk' /\ Unclaimed(x.blob)' /\ part' # x.blob))
    BY RowsOwnStay
  <1>1. PICK x \in rows[k] : Alike(x, y)
    BY DEF RowsStay, Trades
  <1>2. ASSUME ~x.marker PROVE x.blob \in disk' /\ Unclaimed(x.blob)' /\ part' # x.blob
    <2>1. x.blob \in disk /\ Unclaimed(x.blob) /\ part # x.blob
      BY <1>2 DEF RowsOwn
    <2>2. Unclaimed(x.blob)'
      <3>1. x.blob \notin doomed'
        BY <2>1 DEF Unclaimed
      <3> QED BY <2>1, <3>1, UnclaimedKept
    <2> QED BY <2>1, <2>2
  <1> QED BY <1>1, <1>2

LEMMA PartOwnsKept ==
  ASSUME Typed, NEW r \in Request, Moves(r), PartOwns,
         doomed' \subseteq doomed, req'[r].pc # "cleanup",
         \A b \in disk : Unclaimed(b) => b \in disk',
         part' = part
  PROVE  PartOwns'
  <1>1. ASSUME part # 0 PROVE part \in disk' /\ Unclaimed(part)'
    <2>1. part \in disk /\ Unclaimed(part)
      BY <1>1 DEF PartOwns
    <2>2. Unclaimed(part)'
      <3>1. part \notin doomed'
        BY <2>1 DEF Unclaimed
      <3> DEFINE b == part
      <3>2. Unclaimed(b) /\ b \notin doomed' /\ b' = b
        BY <2>1, <3>1
      <3>3. PICK c : c = b
        OBVIOUS
      <3>4. Unclaimed(c)'
        BY <3>2, <3>3, UnclaimedKept
      <3> QED BY <3>2, <3>3, <3>4 DEF Unclaimed, Past
    <2> QED BY <2>1, <2>2
  <1> QED BY <1>1 DEF PartOwns

LEMMA ClaimsPastKept ==
  ASSUME Typed, NEW r \in Request, Moves(r), ClaimsPast,
         doomed' \subseteq doomed, req'[r].pc # "cleanup"
  PROVE  ClaimsPast'
  <1>1. ASSUME NEW b \in doomed' PROVE Past(b)'
    BY PastKept DEF ClaimsPast
  <1>2. ASSUME NEW s \in Request, req'[s].pc = "cleanup" PROVE (req[s].old = 0 \/ Past(req[s].old))'
    <2>1. req'[s] = req[s]
      BY <1>2 DEF Moves
    <2>2. PICK b : b = req[s].old
      OBVIOUS
    <2>3. b = 0 \/ Past(b)
      BY <1>2, <2>1, <2>2 DEF ClaimsPast
    <2>4. b = 0 \/ Past(b)'
      BY <2>3, PastKept
    <2> QED BY <2>1, <2>2, <2>4 DEF Past
  <1> QED BY <1>1, <1>2 DEF ClaimsPast

LEMMA ResultAtEndKept ==
  ASSUME NEW r \in Request, Moves(r), ResultAtEnd
  PROVE  ResultAtEnd'
  BY DEF Moves, ResultAtEnd

\* A row names blob b.
Held(b) == \E k \in Key : \E x \in rows[k] : x.blob = b

LEMMA HeldKept ==
  ASSUME RowsStay, NEW b, Held(b)
  PROVE  Held(b)'
  <1>1. PICK k \in Key : \E x \in rows[k] : x.blob = b
    BY DEF Held
  <1>2. PICK x \in rows[k] : x.blob = b
    BY <1>1
  <1>3. PICK y \in rows'[k] : Alike(x, y)
    BY DEF RowsStay, Trades
  <1> QED BY <1>2, <1>3 DEF Held, Alike

\* Where a blob on disk is accounted for.
LEMMA AccountedCases ==
  ASSUME Accounted, NEW b \in disk
  PROVE  \/ Held(b) \/ part = b \/ b \in doomed
         \/ \E s \in Request : req[s].pc = "cleanup" /\ req[s].old = b
         \/ req[b].pc = "stored" \/ req[b].res = "error"
  BY DEF Accounted, Held

\* A step that neither writes nor deletes a blob.
Quiet(r) ==
  /\ Moves(r) /\ req[r].pc \in Open /\ req'[r].pc \notin {"cleanup", "stored"}
  /\ Checks(req'[r])
  /\ RowsStay /\ UNCHANGED <<versioning, now, part, disk, doomed>>

\* The blob of r is written.
Stores(r) ==
  /\ Moves(r) /\ req[r].pc \in Open /\ req'[r].pc = "stored"
  /\ RowsStay /\ UNCHANGED <<versioning, now, part, doomed>>
  /\ disk' = disk \cup {r}

\* r ends without a commit; its blob stays, for it may have committed ...
Fails(r) ==
  /\ Moves(r) /\ req[r].pc = "stored" /\ req'[r].pc = "done" /\ req'[r].res = "error"
  /\ RowsStay /\ UNCHANGED <<versioning, now, part, disk, doomed>>

\* ... or goes, for it has not.
Refuses(r) ==
  /\ Moves(r) /\ req[r].pc = "stored" /\ req'[r].pc = "done"
  /\ RowsStay /\ UNCHANGED <<versioning, now, part, doomed>>
  /\ disk' = disk \ {r}

\* The blob r was given is deleted.
Cleans(r) ==
  /\ Moves(r) /\ req[r].pc = "cleanup" /\ req'[r].pc = "done"
  /\ RowsStay /\ UNCHANGED <<versioning, now, part, doomed>>
  /\ disk' = disk \ {req[r].old}

\* What these steps have in common.
LEMMA OwnedKept ==
  ASSUME Typed, NEW r \in Request, Moves(r), Owned, RowsStay, UNCHANGED <<part, doomed>>,
         req'[r].pc # "cleanup",
         \A b \in disk : Unclaimed(b) => b \in disk'
  PROVE  RowsOwn' /\ PartOwns' /\ ClaimsPast' /\ ResultAtEnd'
  <1>1. part' = part /\ doomed' \subseteq doomed
    OBVIOUS
  <1> QED BY <1>1, RowsOwnKept, PartOwnsKept, ClaimsPastKept, ResultAtEndKept DEF Owned

LEMMA QuietOwned ==
  ASSUME Typed, Owned, NEW r \in Request, Quiet(r)
  PROVE  Owned'
  <1> USE DEF Quiet
  <1>1. RowsOwn' /\ PartOwns' /\ ClaimsPast' /\ ResultAtEnd'
    BY OwnedKept
  <1>2. StoredIsThere'
    BY DEF Owned, StoredIsThere, Moves
  <1>3. Accounted'
    <2> SUFFICES ASSUME NEW b \in disk'
                 PROVE  \/ Held(b)' \/ part' = b \/ b \in doomed'
                        \/ \E s \in Request : req'[s].pc = "cleanup" /\ req'[s].old = b
                        \/ req'[b].pc = "stored" \/ req'[b].res = "error"
      BY DEF Accounted, Held
    <2>1. b \in disk /\ b \in Request
      BY DEF Typed
    <2>2. CASE Held(b)
      BY <2>2, HeldKept
    <2>3. CASE \E s \in Request : req[s].pc = "cleanup" /\ req[s].old = b
      BY <2>3 DEF Moves, Open
    <2>4. CASE req[b].pc = "stored" \/ req[b].res = "error"
      BY <2>1, <2>4 DEF Moves, Open, Owned, ResultAtEnd
    <2> QED BY <2>1, <2>2, <2>3, <2>4, AccountedCases DEF Owned
  <1> QED BY <1>1, <1>2, <1>3 DEF Owned

LEMMA StoresOwned ==
  ASSUME Typed, Owned, NEW r \in Request, Stores(r)
  PROVE  Owned'
  <1> USE DEF Stores
  <1>1. RowsOwn' /\ PartOwns' /\ ClaimsPast' /\ ResultAtEnd'
    BY OwnedKept
  <1>2. StoredIsThere'
    BY DEF Owned, StoredIsThere, Moves
  <1>3. Accounted'
    <2> SUFFICES ASSUME NEW b \in disk'
                 PROVE  \/ Held(b)' \/ part' = b \/ b \in doomed'
                        \/ \E s \in Request : req'[s].pc = "cleanup" /\ req'[s].old = b
                        \/ req'[b].pc = "stored" \/ req'[b].res = "error"
      BY DEF Accounted, Held
    <2>0. CASE b = r
      BY <2>0
    <2>1. CASE b # r
      <3>1. b \in disk /\ b \in Request
        BY <2>1 DEF Typed
      <3>2. CASE Held(b)
        BY <3>2, HeldKept
      <3>3. CASE \E s \in Request : req[s].pc = "cleanup" /\ req[s].old = b
        BY <3>3 DEF Moves, Open
      <3>4. CASE req[b].pc = "stored" \/ req[b].res = "error"
        BY <2>1, <3>1, <3>4 DEF Moves
      <3> QED BY <3>1, <3>2, <3>3, <3>4, AccountedCases DEF Owned
    <2> QED BY <2>0, <2>1
  <1> QED BY <1>1, <1>2, <1>3 DEF Owned

LEMMA FailsOwned ==
  ASSUME Typed, Owned, NEW r \in Request, Fails(r)
  PROVE  Owned'
  <1> USE DEF Fails
  <1>1. RowsOwn' /\ PartOwns' /\ ClaimsPast' /\ ResultAtEnd'
    BY OwnedKept
  <1>2. StoredIsThere'
    BY DEF Owned, StoredIsThere, Moves
  <1>3. Accounted'
    <2> SUFFICES ASSUME NEW b \in disk'
                 PROVE  \/ Held(b)' \/ part' = b \/ b \in doomed'
                        \/ \E s \in Request : req'[s].pc = "cleanup" /\ req'[s].old = b
                        \/ req'[b].pc = "stored" \/ req'[b].res = "error"
      BY DEF Accounted, Held
    <2>1. b \in disk /\ b \in Request
      BY DEF Typed
    <2>2. CASE Held(b)
      BY <2>2, HeldKept
    <2>3. CASE \E s \in Request : req[s].pc = "cleanup" /\ req[s].old = b
      BY <2>3 DEF Moves
    <2>4. CASE req[b].pc = "stored" \/ req[b].res = "error"
      BY <2>1, <2>4 DEF Moves
    <2> QED BY <2>1, <2>2, <2>3, <2>4, AccountedCases DEF Owned
  <1> QED BY <1>1, <1>2, <1>3 DEF Owned

LEMMA RefusesOwned ==
  ASSUME Typed, Owned, NEW r \in Request, Refuses(r)
  PROVE  Owned'
  <1> USE DEF Refuses
  <1>0. \A b \in disk : Unclaimed(b) => b \in disk'
    BY DEF Unclaimed, Past
  <1>1. RowsOwn' /\ PartOwns' /\ ClaimsPast' /\ ResultAtEnd'
    BY <1>0, OwnedKept
  <1>2. StoredIsThere'
    BY DEF Owned, StoredIsThere, Moves
  <1>3. Accounted'
    <2> SUFFICES ASSUME NEW b \in disk'
                 PROVE  \/ Held(b)' \/ part' = b \/ b \in doomed'
                        \/ \E s \in Request : req'[s].pc = "cleanup" /\ req'[s].old = b
                        \/ req'[b].pc = "stored" \/ req'[b].res = "error"
      BY DEF Accounted, Held
    <2>1. b \in disk /\ b \in Request /\ b # r
      BY DEF Typed
    <2>2. CASE Held(b)
      BY <2>2, HeldKept
    <2>3. CASE \E s \in Request : req[s].pc = "cleanup" /\ req[s].old = b
      BY <2>3 DEF Moves
    <2>4. CASE req[b].pc = "stored" \/ req[b].res = "error"
      BY <2>1, <2>4 DEF Moves
    <2> QED BY <2>1, <2>2, <2>3, <2>4, AccountedCases DEF Owned
  <1> QED BY <1>1, <1>2, <1>3 DEF Owned

LEMMA CleansOwned ==
  ASSUME Positive, Typed, Owned, NEW r \in Request, Cleans(r)
  PROVE  Owned'
  <1> USE DEF Cleans
  <1>0. \A b \in disk : Unclaimed(b) => b \in disk'
    BY DEF Unclaimed
  <1>1. RowsOwn' /\ PartOwns' /\ ClaimsPast' /\ ResultAtEnd'
    BY <1>0, OwnedKept
  <1>2. StoredIsThere'
    <2> SUFFICES ASSUME NEW s \in Request, req'[s].pc = "stored" PROVE s \in disk'
      BY DEF StoredIsThere
    <2>1. s # r /\ req[s].pc = "stored"
      BY DEF Moves
    <2>2. s \in disk
      BY <2>1 DEF Owned, StoredIsThere
    <2>3. req[r].old = 0 \/ Past(req[r].old)
      BY DEF Owned, ClaimsPast
    <2>4. s # 0
      BY DEF Positive
    <2>5. ~Past(s)
      BY <2>1 DEF Past
    <2> QED BY <2>2, <2>3, <2>4, <2>5
  <1>3. Accounted'
    <2> SUFFICES ASSUME NEW b \in disk'
                 PROVE  \/ Held(b)' \/ part' = b \/ b \in doomed'
                        \/ \E s \in Request : req'[s].pc = "cleanup" /\ req'[s].old = b
                        \/ req'[b].pc = "stored" \/ req'[b].res = "error"
      BY DEF Accounted, Held
    <2>1. b \in disk /\ b \in Request /\ b # req[r].old
      BY DEF Typed
    <2>2. CASE Held(b)
      BY <2>2, HeldKept
    <2>3. CASE \E s \in Request : req[s].pc = "cleanup" /\ req[s].old = b
      BY <2>1, <2>3 DEF Moves
    <2>4. CASE req[b].pc = "stored" \/ req[b].res = "error"
      BY <2>1, <2>4 DEF Moves, Owned, ResultAtEnd
    <2> QED BY <2>1, <2>2, <2>3, <2>4, AccountedCases DEF Owned
  <1> QED BY <1>1, <1>2, <1>3 DEF Owned

\* The spawned task deletes a displaced blob.
LEMMA DisplacedOwned ==
  ASSUME Typed, Owned, DeleteDisplaced
  PROVE  Owned'
  <1>1. PICK b \in doomed :
          /\ doomed' = doomed \ {b} /\ disk' = disk \ {b}
          /\ UNCHANGED <<rows, part, req>>
    BY DEF DeleteDisplaced
  <1>2. Past(b)
    BY DEF Owned, ClaimsPast
  <1>3. \A c : Unclaimed(c) => Unclaimed(c)' /\ c # b
    BY <1>1 DEF Unclaimed, Past
  <1>4. RowsOwn'
    BY <1>1, <1>3 DEF Owned, RowsOwn
  <1>5. PartOwns'
    <2>1. part # 0 => part \in disk /\ Unclaimed(part)
      BY DEF Owned, PartOwns
    <2> QED BY <1>1, <2>1 DEF PartOwns, Unclaimed, Past
  <1>6. ClaimsPast'
    BY <1>1 DEF Owned, ClaimsPast, Past
  <1>7. StoredIsThere'
    BY <1>1, <1>2 DEF Owned, StoredIsThere, Past
  <1>8. Accounted' /\ ResultAtEnd'
    BY <1>1 DEF Owned, Accounted, ResultAtEnd
  <1> QED BY <1>4, <1>5, <1>6, <1>7, <1>8 DEF Owned

\* The blob of a row that leaves is in no other row, and nobody has it yet.
LEMMA GoneBlob ==
  ASSUME Typed, Shape, Owned, NEW k \in Key, NEW g \in rows[k], g.blob # 0
  PROVE  /\ Past(g.blob) /\ part # g.blob
         /\ \A m \in Key : \A w \in rows[m] : w.blob = g.blob => m = k /\ w = g
  <1>1. Past(g.blob) /\ part # g.blob
    BY DEF Owned, RowsOwn, Unclaimed
  <1>2. ASSUME NEW m \in Key, NEW w \in rows[m], w.blob = g.blob PROVE m = k /\ w = g
    <2>1. m = k /\ w.vid = g.vid
      BY <1>2 DEF Owned, RowsOwn
    <2>2. OneEach(rows[k])
      BY KeyShape
    <2> QED BY <2>1, <2>2 DEF OneEach
  <1> QED BY <1>1, <1>2

\* A request that has not committed names its blob alone.
LEMMA FreshBlob ==
  ASSUME Positive, Owned, NEW r \in Request, ~Past(r)
  PROVE  /\ r # 0 /\ part # r /\ r \notin doomed
         /\ \A k \in Key : \A x \in rows[k] : x.blob # r
         /\ \A s \in Request : req[s].pc = "cleanup" => req[s].old # r
  <1>1. r # 0
    BY DEF Positive
  <1>2. part # r
    BY <1>1 DEF Owned, PartOwns, Unclaimed
  <1>3. r \notin doomed
    BY DEF Owned, ClaimsPast
  <1>4. ASSUME NEW k \in Key, NEW x \in rows[k] PROVE x.blob # r
    <2>1. CASE x.marker
      BY <1>1, <2>1 DEF Owned, RowsOwn
    <2>2. CASE ~x.marker
      BY <2>2 DEF Owned, RowsOwn, Unclaimed
    <2> QED BY <2>1, <2>2
  <1>5. \A s \in Request : req[s].pc = "cleanup" => req[s].old # r
    BY <1>1 DEF Owned, ClaimsPast
  <1> QED BY <1>1, <1>2, <1>3, <1>4, <1>5

\* r commits row x; the rows of Gone leave, and a task will delete their blobs.
Installs(r, k, Gone, x) ==
  /\ Moves(r) /\ req[r].pc = "stored" /\ req'[r].pc = "done"
  /\ Gone \subseteq rows[k] /\ RowsChange(k, Gone, {x}) /\ x.blob = r /\ ~x.marker
  /\ req[r].op \in {"put", "copy"} /\ x.vid = VidOf(r) /\ Dated(x)
  /\ doomed' = doomed \cup ({g.blob : g \in Gone} \ {0})
  /\ UNCHANGED <<versioning, now, part, disk>>

LEMMA InstallsOwned ==
  ASSUME Positive, Typed, Shape, Owned, NEW r \in Request, NEW k \in Key, NEW Gone, NEW x,
         Installs(r, k, Gone, x)
  PROVE  Owned'
  <1> USE DEF Installs
  <1>1. /\ r # 0 /\ part # r /\ r \notin doomed
        /\ \A l \in Key : \A w \in rows[l] : w.blob # r
        /\ \A s \in Request : req[s].pc = "cleanup" => req[s].old # r
    BY FreshBlob DEF Past
  <1>2. ASSUME NEW m \in Key, NEW w \in rows[m], ~w.marker, m = k => w \notin Gone
        PROVE  w.blob \in disk' /\ Unclaimed(w.blob)' /\ part' # w.blob
    <2>1. w.blob \in disk /\ Unclaimed(w.blob) /\ part # w.blob
      BY <1>2 DEF Owned, RowsOwn
    <2>2. ASSUME NEW g \in Gone, g.blob # 0, g.blob = w.blob PROVE FALSE
      <3>1. m = k /\ w = g
        BY <2>2, GoneBlob
      <3> QED BY <1>2, <3>1
    <2>3. w.blob \notin doomed'
      BY <2>1, <2>2 DEF Unclaimed
    <2>4. Unclaimed(w.blob)'
      BY <2>1, <2>3, UnclaimedKept
    <2> QED BY <2>1, <2>4
  <1>3. r \notin doomed'
    <2>1. \A g \in Gone : g.blob # r
      BY <1>1
    <2> QED BY <1>1, <2>1
  <1>4. r \in disk' /\ Unclaimed(r)' /\ part' # r
    <2>1. r \in disk
      BY DEF Owned, StoredIsThere
    <2>2. Past(r)'
      BY DEF Past
    <2>3. \A s \in Request : req'[s].pc = "cleanup" => req'[s].old # r
      BY <1>1 DEF Moves
    <2> QED BY <1>1, <1>3, <2>1, <2>2, <2>3 DEF Unclaimed
  <1>5. RowsOwn'
    <2>1. ASSUME NEW m \in Key, NEW y \in rows'[m]
          PROVE  \/ \E w \in rows[m] : Alike(w, y) /\ (w.marker \/ (w.blob \in disk' /\ Unclaimed(w.blob)' /\ part' # w.blob))
                 \/ y.marker /\ y.blob = 0
                 \/ r # 0 /\ m = k /\ y.blob = r /\ y.vid = x.vid /\ ~y.marker
      <3>1. CASE m # k
        <4>1. y \in rows[m] /\ Alike(y, y)
          BY <3>1 DEF RowsChange, Alike
        <4> QED BY <1>2, <3>1, <4>1
      <3>2. CASE m = k
        <4>1. PICK w \in (rows[k] \ Gone) \cup {x} : Alike(w, y)
          BY <3>2 DEF RowsChange, Trades
        <4>2. CASE w = x
          BY <1>1, <3>2, <4>1, <4>2 DEF Alike
        <4>3. CASE w \in rows[k] \ Gone
          BY <1>2, <3>2, <4>1, <4>3
        <4> QED BY <4>1, <4>2, <4>3
      <3> QED BY <3>1, <3>2
    <2>2. r # 0 => /\ r \in disk' /\ Unclaimed(r)' /\ part' # r
                   /\ \A l \in Key : \A w \in rows[l] : w.blob # r
      BY <1>1, <1>4
    <2>3. RowsOwn
      BY DEF Owned
    <2> QED BY <2>1, <2>2, <2>3, RowsOwnStep
  <1>6. PartOwns'
    <2>1. ASSUME part # 0 PROVE part \in disk' /\ Unclaimed(part)'
      <3>1. part \in disk /\ Unclaimed(part)
        BY <2>1 DEF Owned, PartOwns
      <3>2. \A g \in Gone : g.blob # 0 => part # g.blob
        BY GoneBlob
      <3>3. part \notin doomed'
        BY <2>1, <3>1, <3>2 DEF Unclaimed
      <3>4. PICK c : c = part
        OBVIOUS
      <3>5. Unclaimed(c)'
        BY <3>1, <3>3, <3>4, UnclaimedKept
      <3> QED BY <3>1, <3>4, <3>5 DEF Unclaimed, Past
    <2> QED BY <2>1 DEF PartOwns
  <1>7. ClaimsPast'
    <2>1. ASSUME NEW b \in doomed' PROVE Past(b)'
      <3>1. Past(b)
        BY GoneBlob DEF Owned, ClaimsPast
      <3> QED BY <3>1, PastKept
    <2>2. ASSUME NEW s \in Request, req'[s].pc = "cleanup" PROVE (req[s].old = 0 \/ Past(req[s].old))'
      <3>1. req'[s] = req[s]
        BY <2>2 DEF Moves
      <3>2. PICK b : b = req[s].old
        OBVIOUS
      <3>3. b = 0 \/ Past(b)
        BY <2>2, <3>1, <3>2 DEF Owned, ClaimsPast
      <3>4. b = 0 \/ Past(b)'
        BY <3>3, PastKept
      <3> QED BY <3>1, <3>2, <3>4 DEF Past
    <2> QED BY <2>1, <2>2 DEF ClaimsPast
  <1>8. StoredIsThere' /\ ResultAtEnd'
    BY ResultAtEndKept DEF Owned, StoredIsThere, Moves
  <1>9. Accounted'
    <2> SUFFICES ASSUME NEW b \in disk'
                 PROVE  \/ Held(b)' \/ part' = b \/ b \in doomed'
                        \/ \E s \in Request : req'[s].pc = "cleanup" /\ req'[s].old = b
                        \/ req'[b].pc = "stored" \/ req'[b].res = "error"
      BY DEF Accounted, Held
    <2>1. b \in disk /\ b \in Request /\ b # 0
      BY DEF Typed, Positive
    <2>2. CASE Held(b)
      <3>1. PICK m \in Key : \E w \in rows[m] : w.blob = b
        BY <2>2 DEF Held
      <3>2. PICK w \in rows[m] : w.blob = b
        BY <3>1
      <3>3. CASE m = k /\ w \in Gone
        BY <2>1, <3>2, <3>3
      <3>4. CASE m = k /\ w \notin Gone
        <4>1. PICK y \in rows'[k] : Alike(w, y)
          BY <3>4 DEF RowsChange, Trades
        <4> QED BY <3>2, <4>1 DEF Held, Alike
      <3>5. CASE m # k
        BY <3>2, <3>5 DEF Held, RowsChange
      <3> QED BY <3>3, <3>4, <3>5
    <2>3. CASE \E s \in Request : req[s].pc = "cleanup" /\ req[s].old = b
      BY <2>3 DEF Moves
    <2>4. CASE b = r
      <3>1. PICK y \in rows'[k] : Alike(x, y)
        BY DEF RowsChange, Trades
      <3> QED BY <2>4, <3>1 DEF Held, Alike
    <2>5. CASE b # r /\ (req[b].pc = "stored" \/ req[b].res = "error")
      BY <2>1, <2>5 DEF Moves
    <2> QED BY <2>1, <2>2, <2>3, <2>4, <2>5, AccountedCases DEF Owned
  <1> QED BY <1>5, <1>6, <1>7, <1>8, <1>9 DEF Owned

\* r takes the rows of Gone away, is to delete their blob o, and may leave a
\* marker.
Drops(r, k, Gone, N, o) ==
  /\ Moves(r) /\ req[r].pc \in Open /\ req'[r].pc = "cleanup" /\ req'[r].old = o
  /\ Gone \subseteq rows[k] /\ RowsChange(k, Gone, N)
  /\ \A x \in N : x.marker /\ x.blob = 0 /\ x.vid = VidOf(r) /\ Dated(x)
  /\ \A g \in Gone : g.blob \in {0, o}
  /\ o = 0 \/ \E g \in Gone : g.blob = o
  /\ UNCHANGED <<versioning, now, part, disk, doomed>>

LEMMA DropsOwned ==
  ASSUME Positive, Typed, Shape, Owned, NEW r \in Request, NEW k \in Key, NEW Gone, NEW N, NEW o,
         Drops(r, k, Gone, N, o)
  PROVE  Owned'
  <1> USE DEF Drops
  <1>1. ASSUME o # 0
        PROVE  /\ Past(o) /\ part # o
               /\ \A m \in Key : \A w \in rows[m] : w.blob = o => m = k /\ w \in Gone
    <2>1. PICK g \in Gone : g.blob = o
      BY <1>1
    <2> QED BY <1>1, <2>1, GoneBlob
  <1>2. ASSUME NEW m \in Key, NEW w \in rows[m], ~w.marker, m = k => w \notin Gone
        PROVE  w.blob \in disk' /\ Unclaimed(w.blob)' /\ part' # w.blob
    <2>1. w.blob \in disk /\ Unclaimed(w.blob) /\ part # w.blob
      BY <1>2 DEF Owned, RowsOwn
    <2>2. w.blob # 0
      BY <2>1 DEF Typed, Positive
    <2>3. w.blob # o
      BY <1>1, <1>2, <2>2
    <2>4. w.blob \notin doomed'
      BY <2>1 DEF Unclaimed
    <2>5. Unclaimed(w.blob)'
      BY <2>1, <2>3, <2>4, UnclaimedKept
    <2> QED BY <2>1, <2>5
  <1>3. RowsOwn'
    <2>1. ASSUME NEW m \in Key, NEW y \in rows'[m]
          PROVE  \/ \E w \in rows[m] : Alike(w, y) /\ (w.marker \/ (w.blob \in disk' /\ Unclaimed(w.blob)' /\ part' # w.blob))
                 \/ y.marker /\ y.blob = 0
      <3>1. CASE m # k
        <4>1. y \in rows[m] /\ Alike(y, y)
          BY <3>1 DEF RowsChange, Alike
        <4> QED BY <1>2, <3>1, <4>1
      <3>2. CASE m = k
        <4>1. PICK w \in (rows[k] \ Gone) \cup N : Alike(w, y)
          BY <3>2 DEF RowsChange, Trades
        <4>2. CASE w \in N
          BY <4>1, <4>2 DEF Alike
        <4>3. CASE w \in rows[k] \ Gone
          BY <1>2, <3>2, <4>1, <4>3
        <4> QED BY <4>1, <4>2, <4>3
      <3> QED BY <3>1, <3>2
    <2>2. RowsOwn
      BY DEF Owned
    <2> QED BY <2>1, <2>2, RowsOwnStay
  <1>4. PartOwns'
    <2>1. ASSUME part # 0 PROVE part \in disk' /\ Unclaimed(part)'
      <3>1. part \in disk /\ Unclaimed(part)
        BY <2>1 DEF Owned, PartOwns
      <3>2. part # o /\ part \notin doomed'
        BY <1>1, <2>1, <3>1 DEF Unclaimed
      <3>3. PICK c : c = part
        OBVIOUS
      <3>4. Unclaimed(c)'
        BY <3>1, <3>2, <3>3, UnclaimedKept
      <3> QED BY <3>1, <3>3, <3>4 DEF Unclaimed, Past
    <2> QED BY <2>1 DEF PartOwns
  <1>5. ClaimsPast'
    <2>1. ASSUME NEW b \in doomed' PROVE Past(b)'
      BY PastKept DEF Owned, ClaimsPast
    <2>2. ASSUME NEW s \in Request, req'[s].pc = "cleanup" PROVE (req[s].old = 0 \/ Past(req[s].old))'
      <3>1. CASE s = r
        <4>1. o = 0 \/ Past(o)'
          BY <1>1, PastKept
        <4> QED BY <3>1, <4>1 DEF Past
      <3>2. CASE s # r
        <4>1. req'[s] = req[s]
          BY <3>2 DEF Moves
        <4>2. PICK b : b = req[s].old
          OBVIOUS
        <4>3. b = 0 \/ Past(b)
          BY <2>2, <4>1, <4>2 DEF Owned, ClaimsPast
        <4>4. b = 0 \/ Past(b)'
          BY <4>3, PastKept
        <4> QED BY <4>1, <4>2, <4>4 DEF Past
      <3> QED BY <3>1, <3>2
    <2> QED BY <2>1, <2>2 DEF ClaimsPast
  <1>6. StoredIsThere' /\ ResultAtEnd'
    BY ResultAtEndKept DEF Owned, StoredIsThere, Moves
  <1>7. Accounted'
    <2> SUFFICES ASSUME NEW b \in disk'
                 PROVE  \/ Held(b)' \/ part' = b \/ b \in doomed'
                        \/ \E s \in Request : req'[s].pc = "cleanup" /\ req'[s].old = b
                        \/ req'[b].pc = "stored" \/ req'[b].res = "error"
      BY DEF Accounted, Held
    <2>1. b \in disk /\ b \in Request /\ b # 0
      BY DEF Typed, Positive
    <2>2. CASE Held(b)
      <3>1. PICK m \in Key : \E w \in rows[m] : w.blob = b
        BY <2>2 DEF Held
      <3>2. PICK w \in rows[m] : w.blob = b
        BY <3>1
      <3>3. CASE m = k /\ w \in Gone
        <4>1. b = o
          BY <2>1, <3>2, <3>3
        <4> QED BY <4>1
      <3>4. CASE m = k /\ w \notin Gone
        <4>1. PICK y \in rows'[k] : Alike(w, y)
          BY <3>4 DEF RowsChange, Trades
        <4> QED BY <3>2, <4>1 DEF Held, Alike
      <3>5. CASE m # k
        BY <3>2, <3>5 DEF Held, RowsChange
      <3> QED BY <3>3, <3>4, <3>5
    <2>3. CASE \E s \in Request : req[s].pc = "cleanup" /\ req[s].old = b
      BY <2>3 DEF Moves, Open
    <2>4. CASE req[b].pc = "stored" \/ req[b].res = "error"
      BY <2>1, <2>4 DEF Moves, Open, Owned, ResultAtEnd
    <2> QED BY <2>1, <2>2, <2>3, <2>4, AccountedCases DEF Owned
  <1> QED BY <1>3, <1>4, <1>5, <1>6, <1>7 DEF Owned

\* The blob of r becomes the part, and r is to delete the one it replaces.
PartCommits(r) ==
  /\ Moves(r) /\ req[r].pc = "stored" /\ req'[r].pc = "cleanup" /\ req'[r].old = part
  /\ part' = r
  /\ UNCHANGED <<versioning, now, rows, disk, doomed>>

LEMMA PartCommitsOwned ==
  ASSUME Positive, Typed, Owned, NEW r \in Request, PartCommits(r)
  PROVE  Owned'
  <1> USE DEF PartCommits
  <1>1. /\ r # 0 /\ part # r /\ r \notin doomed
        /\ \A l \in Key : \A w \in rows[l] : w.blob # r
        /\ \A s \in Request : req[s].pc = "cleanup" => req[s].old # r
    BY FreshBlob DEF Past
  <1>2. RowsOwn'
    <2>1. ASSUME NEW m \in Key, NEW w \in rows[m], ~w.marker
          PROVE  w.blob \in disk' /\ Unclaimed(w.blob)' /\ part' # w.blob
      <3>1. w.blob \in disk /\ Unclaimed(w.blob) /\ part # w.blob
        BY <2>1 DEF Owned, RowsOwn
      <3>2. w.blob \notin doomed'
        BY <3>1 DEF Unclaimed
      <3>3. Unclaimed(w.blob)'
        BY <3>1, <3>2, UnclaimedKept
      <3> QED BY <1>1, <3>1, <3>3
    <2> QED BY <2>1 DEF Owned, RowsOwn
  <1>3. PartOwns'
    <2>1. r \in disk'
      BY DEF Owned, StoredIsThere
    <2>2. \A s \in Request : req'[s].pc = "cleanup" => req'[s].old # r
      BY <1>1 DEF Moves
    <2>3. Unclaimed(r)'
      BY <1>1, <2>2 DEF Unclaimed, Past
    <2> QED BY <2>1, <2>3 DEF PartOwns, Unclaimed, Past
  <1>4. ClaimsPast'
    <2>1. ASSUME NEW b \in doomed' PROVE Past(b)'
      BY PastKept DEF Owned, ClaimsPast
    <2>2. ASSUME NEW s \in Request, req'[s].pc = "cleanup" PROVE (req[s].old = 0 \/ Past(req[s].old))'
      <3>1. PICK b : b = req'[s].old
        OBVIOUS
      <3>2. b = 0 \/ Past(b)
        BY <2>2, <3>1 DEF Owned, ClaimsPast, PartOwns, Unclaimed, Moves
      <3>3. b = 0 \/ Past(b)'
        BY <3>2, PastKept
      <3> QED BY <3>1, <3>3 DEF Past
    <2> QED BY <2>1, <2>2 DEF ClaimsPast
  <1>5. StoredIsThere' /\ ResultAtEnd'
    BY ResultAtEndKept DEF Owned, StoredIsThere, Moves
  <1>6. Accounted'
    <2> SUFFICES ASSUME NEW b \in disk'
                 PROVE  \/ Held(b)' \/ part' = b \/ b \in doomed'
                        \/ \E s \in Request : req'[s].pc = "cleanup" /\ req'[s].old = b
                        \/ req'[b].pc = "stored" \/ req'[b].res = "error"
      BY DEF Accounted, Held
    <2>1. b \in disk /\ b \in Request
      BY DEF Typed
    <2>2. CASE Held(b)
      BY <2>2 DEF Held
    <2>3. CASE \E s \in Request : req[s].pc = "cleanup" /\ req[s].old = b
      BY <2>3 DEF Moves
    <2>4. CASE b # r /\ (req[b].pc = "stored" \/ req[b].res = "error")
      BY <2>1, <2>4 DEF Moves
    <2> QED BY <2>1, <2>2, <2>3, <2>4, AccountedCases DEF Owned
  <1> QED BY <1>2, <1>3, <1>4, <1>5, <1>6 DEF Owned

-----------------------------------------------------------------------------
(* The actions: types, shape of the table, kind of step. *)

LEMMA ShapeKept ==
  ASSUME Shape, NEW r \in Request, Moves(r), UNCHANGED <<rows, versioning>>
  PROVE  Shape'
  <1>1. Indexed' /\ Plain'
    BY DEF Shape, Indexed, Plain
  <1>2. VidsPast'
    <2> SUFFICES ASSUME NEW k \in Key, NEW x \in rows[k], x.vid # 0 PROVE Past(x.vid)'
      BY DEF VidsPast, Past
    <2>1. Past(x.vid)
      BY DEF Shape, VidsPast
    <2> QED BY <2>1, PastKept
  <1> QED BY <1>1, <1>2 DEF Shape

LEMMA ShapeTurns ==
  ASSUME Typed, Shape, NEW r \in Request, Moves(r), versioning' = versioning,
         NEW k \in Key, NEW T, NEW Gone, NEW N, Turns(rows[k], T, Gone, N),
         rows' = [rows EXCEPT ![k] = T],
         \A x \in N : x.vid = 0 \/ Past(x.vid)'
  PROVE  RowsTyped' /\ Shape' /\ RowsChange(k, Gone, N)
  <1>1. /\ rows'[k] = T /\ \A l \in Key : l # k => rows'[l] = rows[l]
        /\ DOMAIN rows' = Key
    BY DEF Typed, RowsTyped
  <1>2. RowsTyped'
    BY DEF Typed, RowsTyped, Turns
  <1>3. RowsChange(k, Gone, N)
    BY <1>1, TurnsTrades DEF RowsChange
  <1>4. Indexed'
    <2> SUFFICES ASSUME NEW l \in Key PROVE Index(rows'[l])
      BY DEF Indexed, Index
    <2>1. CASE l = k
      BY <1>1, <2>1 DEF Turns
    <2>2. CASE l # k
      BY <1>1, <2>2, KeyShape
    <2> QED BY <2>1, <2>2
  <1>5. Plain'
    <2> SUFFICES ASSUME NEW l \in Key, versioning = "Unversioned" PROVE PlainRows(rows'[l])
      BY DEF Plain, PlainRows
    <2>1. CASE l = k
      BY <1>1, <2>1 DEF Turns
    <2>2. CASE l # k
      BY <1>1, <2>2, KeyShape
    <2> QED BY <2>1, <2>2
  <1>6. VidsPast'
    <2> SUFFICES ASSUME NEW l \in Key, NEW y \in rows'[l] PROVE y.vid = 0 \/ Past(y.vid)'
      BY DEF VidsPast, Past
    <2>0. \A x \in rows[l] : x.vid = 0 \/ Past(x.vid)'
      BY KeyShape, PastKept
    <2>1. CASE l = k
      <3>1. PICK x \in (rows[k] \ Gone) \cup N : Alike(x, y)
        BY <1>3, <2>1 DEF RowsChange, Trades
      <3>2. x.vid = y.vid
        BY <3>1 DEF Alike
      <3>3. x.vid = 0 \/ Past(x.vid)'
        BY <2>0, <2>1, <3>1
      <3> QED BY <3>2, <3>3
    <2>2. CASE l # k
      BY <1>1, <2>0, <2>2
    <2> QED BY <2>1, <2>2
  <1> QED BY <1>2, <1>3, <1>4, <1>5, <1>6 DEF Shape

\* A request q that a handler starts with.
Opening(q) ==
  /\ q \in ReqType /\ q.pc \in {"body", "source", "read", "checked", "done"}
  /\ q.res # "none" => q.pc = "done"
  /\ q.op # "partcopy" => q.key \in Key
  /\ Dated(q) /\ Checks(q)

LEMMA StartStep ==
  ASSUME Typed, NEW r \in Request, NEW q, Opening(q), Start(r, q)
  PROVE  /\ ReqTyped' /\ req'[r] = q
         /\ Moves(r) /\ req[r].pc \in Open /\ req'[r].pc \notin {"cleanup", "stored"}
         /\ Checks(req'[r])
  <1>1. req' = [req EXCEPT ![r] = q] /\ req[r].pc = "idle"
    BY DEF Start
  <1>2. req \in [Request -> ReqType]
    BY DEF Typed, ReqTyped
  <1>3. /\ req' \in [Request -> ReqType] /\ req'[r] = q
        /\ \A s \in Request : s # r => req'[s] = req[s]
    BY <1>1, <1>2 DEF Opening
  <1>4. ReqTyped'
    BY <1>3 DEF Typed, ReqTyped, Opening
  <1> QED BY <1>1, <1>3, <1>4 DEF Opening, Moves, Open

Rest == <<versioning, clock, now, rows, tags, part, disk, doomed>>

LEMMA BeginStep ==
  ASSUME Typed, Shape, NEW r \in Request, NEW q, Opening(q), Start(r, q), UNCHANGED Rest
  PROVE  Typed' /\ Shape' /\ Quiet(r)
  <1> USE DEF Rest
  <1>1. /\ ReqTyped' /\ Moves(r) /\ req[r].pc \in Open
        /\ req'[r].pc \notin {"cleanup", "stored"} /\ Checks(req'[r])
    BY StartStep
  <1>2. Typed'
    BY <1>1 DEF Typed, RowsTyped
  <1>3. Shape'
    BY <1>1, ShapeKept
  <1>4. RowsStay
    BY SameRowsStay
  <1> QED BY <1>1, <1>2, <1>3, <1>4 DEF Quiet

LEMMA ChosenIn ==
  ASSUME NEW S, S # {}
  PROVE  (CHOOSE x \in S : TRUE) \in S
  OBVIOUS

LEMMA PutCheckStep ==
  ASSUME Typed, Shape, NEW r \in Request, PutCheck(r)
  PROVE  Typed' /\ Shape' /\ Quiet(r)
  <1>1. PICK k \in Key, pre \in Pre :
          LET q == [Idle EXCEPT !.op = "put", !.key = k, !.pre = pre]
          IN  /\ Start(r, IF WriteAllowed(Current(k), pre)
                          THEN [q EXCEPT !.pc = "body"]
                          ELSE [q EXCEPT !.pc = "done", !.res = "refused"])
              /\ UNCHANGED Rest
    BY DEF PutCheck, Rest
  <1> DEFINE q == [Idle EXCEPT !.op = "put", !.key = k, !.pre = pre]
  <1>2. Opening([q EXCEPT !.pc = "body"]) /\ Opening([q EXCEPT !.pc = "done", !.res = "refused"])
    BY IdleType DEF Opening, ReqType, Idle, Dated, Checks
  <1> HIDE DEF q
  <1>3. CASE WriteAllowed(Current(k), pre)
    BY <1>1, <1>2, <1>3, BeginStep DEF q
  <1>4. CASE ~WriteAllowed(Current(k), pre)
    BY <1>1, <1>2, <1>4, BeginStep DEF q
  <1> QED BY <1>3, <1>4

LEMMA CurrentRow ==
  ASSUME Typed, NEW k \in Key, Current(k) # {}
  PROVE  (CHOOSE x \in Current(k) : TRUE) \in RowType
  <1>1. (CHOOSE x \in Current(k) : TRUE) \in Current(k)
    BY ChosenIn
  <1>2. Current(k) \subseteq RowType
    BY DEF Current, Typed, RowsTyped
  <1> QED BY <1>1, <1>2

LEMMA SourceStep ==
  ASSUME Typed, Shape, NEW r \in Request, NEW q, NEW t \in Vid, q.src \in Key,
         Opening([q EXCEPT !.pc = "done", !.res = "refused"]),
         \A x \in RowType : Opening([q EXCEPT !.pc = "source", !.row = x, !.tags = t]),
         ReadSource(r, q, t), UNCHANGED Rest
  PROVE  Typed' /\ Shape' /\ Quiet(r)
  <1>1. CASE Current(q.src) = {}
    BY <1>1, BeginStep DEF ReadSource
  <1>2. CASE Current(q.src) # {}
    <2> DEFINE x == CHOOSE x \in Current(q.src) : TRUE
    <2>1. x \in RowType
      BY <1>2, CurrentRow
    <2>2. Start(r, [q EXCEPT !.pc = "source", !.row = x, !.tags = t])
      BY <1>2 DEF ReadSource
    <2> HIDE DEF x
    <2> QED BY <2>1, <2>2, BeginStep
  <1> QED BY <1>1, <1>2

LEMMA CopyReadStep ==
  ASSUME Typed, Shape, NEW r \in Request, CopyRead(r)
  PROVE  Typed' /\ Shape' /\ Quiet(r)
  <1>1. PICK k \in Key, s \in Key :
          LET seen == Current(s)
              t    == IF seen = {} THEN 0 ELSE tags[s][(CHOOSE x \in seen : TRUE).vid]
          IN  /\ ReadSource(r, [Idle EXCEPT !.op = "copy", !.key = k, !.src = s], t)
              /\ UNCHANGED Rest
    BY DEF CopyRead, Rest
  <1> DEFINE q == [Idle EXCEPT !.op = "copy", !.key = k, !.src = s]
             t == IF Current(s) = {} THEN 0 ELSE tags[s][(CHOOSE x \in Current(s) : TRUE).vid]
  <1>2. t \in Vid
    <2>1. CASE Current(s) = {}
      BY <2>1 DEF Vid
    <2>2. CASE Current(s) # {}
      <3>1. (CHOOSE x \in Current(s) : TRUE).vid \in Vid
        BY <2>2, CurrentRow, RowFields DEF Vid
      <3>2. tags \in [Key -> [Vid -> Vid]]
        BY DEF Typed
      <3> QED BY <2>2, <3>1, <3>2
    <2> QED BY <2>1, <2>2
  <1> HIDE DEF t
  <1>3. Opening([q EXCEPT !.pc = "done", !.res = "refused"]) /\ q.src = s
    BY IdleType DEF Opening, ReqType, Idle, Dated, Checks
  <1>4. \A x \in RowType : Opening([q EXCEPT !.pc = "source", !.row = x, !.tags = t])
    BY <1>2, IdleType DEF Opening, ReqType, Idle, Dated, Checks
  <1>5. ReadSource(r, q, t) /\ UNCHANGED Rest
    BY <1>1 DEF t
  <1> HIDE DEF q
  <1> QED BY <1>2, <1>3, <1>4, <1>5, SourceStep

LEMMA PartCopyReadStep ==
  ASSUME Typed, Shape, NEW r \in Request, PartCopyRead(r)
  PROVE  Typed' /\ Shape' /\ Quiet(r)
  <1>1. PICK s \in Key : ReadSource(r, [Idle EXCEPT !.op = "partcopy", !.src = s], 0) /\ UNCHANGED Rest
    BY DEF PartCopyRead, Rest
  <1> DEFINE q == [Idle EXCEPT !.op = "partcopy", !.src = s]
  <1>2. 0 \in Vid
    BY DEF Vid
  <1>3. Opening([q EXCEPT !.pc = "done", !.res = "refused"]) /\ q.src = s
    BY IdleType DEF Opening, ReqType, Idle, Dated, Checks
  <1>4. \A x \in RowType : Opening([q EXCEPT !.pc = "source", !.row = x, !.tags = 0])
    BY <1>2, IdleType DEF Opening, ReqType, Idle, Dated, Checks
  <1> HIDE DEF q
  <1> QED BY <1>1, <1>2, <1>3, <1>4, SourceStep DEF q

LEMMA GetRowStep ==
  ASSUME Typed, Shape, NEW r \in Request, GetRow(r)
  PROVE  Typed' /\ Shape' /\ Quiet(r)
  <1>1. PICK k \in Key :
          LET q == [Idle EXCEPT !.op = "get", !.key = k]
          IN  /\ Start(r, IF Current(k) = {} THEN [q EXCEPT !.pc = "done", !.res = "refused"]
                          ELSE [q EXCEPT !.pc = "read", !.row = CHOOSE x \in Current(k) : TRUE])
              /\ UNCHANGED Rest
    BY DEF GetRow, Rest
  <1> DEFINE q == [Idle EXCEPT !.op = "get", !.key = k]
             x == CHOOSE x \in Current(k) : TRUE
  <1> HIDE DEF x
  <1>2. CASE Current(k) = {}
    <2>1. Opening([q EXCEPT !.pc = "done", !.res = "refused"])
      BY IdleType DEF Opening, ReqType, Idle, Dated, Checks
    <2> QED BY <1>1, <1>2, <2>1, BeginStep
  <1>3. CASE Current(k) # {}
    <2>1. x \in RowType
      BY <1>3, CurrentRow DEF x
    <2>2. Opening([q EXCEPT !.pc = "read", !.row = x])
      BY <2>1, IdleType DEF Opening, ReqType, Idle, Dated, Checks
    <2>3. Start(r, [q EXCEPT !.pc = "read", !.row = x])
      BY <1>1, <1>3 DEF x
    <2> HIDE DEF q
    <2> QED BY <1>1, <2>2, <2>3, BeginStep
  <1> QED BY <1>2, <1>3

LEMMA HeadRowStep ==
  ASSUME Typed, Shape, NEW r \in Request, HeadRow(r)
  PROVE  Typed' /\ Shape' /\ Quiet(r)
  <1>1. PICK k \in Key :
          /\ Start(r, [Idle EXCEPT !.op = "head", !.key = k, !.pc = "done",
                                   !.res = IF Current(k) = {} THEN "refused" ELSE "ok"])
          /\ UNCHANGED Rest
    BY DEF HeadRow, Rest
  <1> DEFINE q == [Idle EXCEPT !.op = "head", !.key = k, !.pc = "done",
                               !.res = IF Current(k) = {} THEN "refused" ELSE "ok"]
  <1>2. Opening(q)
    BY IdleType DEF Opening, ReqType, Idle, Dated, Checks
  <1> HIDE DEF q
  <1> QED BY <1>1, <1>2, BeginStep DEF q

LEMMA DeleteCheckStep ==
  ASSUME Typed, Shape, NEW r \in Request, DeleteCheck(r)
  PROVE  Typed' /\ Shape' /\ Quiet(r)
  <1>1. PICK k \in Key, pre \in Pre :
          LET q == [Idle EXCEPT !.op = "delete", !.key = k, !.pre = pre]
          IN  /\ Start(r, IF DeleteAllowed(Latest(k), pre) THEN [q EXCEPT !.pc = "checked"]
                          ELSE [q EXCEPT !.pc = "done", !.res = "refused"])
              /\ UNCHANGED Rest
    BY DEF DeleteCheck, Rest
  <1> DEFINE q == [Idle EXCEPT !.op = "delete", !.key = k, !.pre = pre]
  <1>2. Opening([q EXCEPT !.pc = "checked"]) /\ Opening([q EXCEPT !.pc = "done", !.res = "refused"])
    BY IdleType DEF Opening, ReqType, Idle, Dated, Checks
  <1> HIDE DEF q
  <1>3. CASE DeleteAllowed(Latest(k), pre)
    BY <1>1, <1>2, <1>3, BeginStep DEF q
  <1>4. CASE ~DeleteAllowed(Latest(k), pre)
    BY <1>1, <1>2, <1>4, BeginStep DEF q
  <1> QED BY <1>3, <1>4

LEMMA SeenRow ==
  ASSUME Typed, NEW k \in Key, NEW v
  PROVE  /\ SeenVersion(k, v) \in RowType
         /\ Version(k, v) # {} => SeenVersion(k, v) \in Version(k, v)
  <1>1. CASE Version(k, v) = {}
    BY <1>1, NoRowType DEF SeenVersion
  <1>2. CASE Version(k, v) # {}
    <2>1. SeenVersion(k, v) = CHOOSE x \in Version(k, v) : TRUE
      BY <1>2 DEF SeenVersion
    <2>2. SeenVersion(k, v) \in Version(k, v)
      BY <1>2, <2>1, ChosenIn
    <2>3. Version(k, v) \subseteq RowType
      BY DEF Version, Typed, RowsTyped
    <2> QED BY <2>2, <2>3
  <1> QED BY <1>1, <1>2

LEMMA ExistingVidType ==
  ASSUME Typed, NEW k \in Key
  PROVE  ExistingVid(k) \subseteq Vid
  <1>1. \A x \in rows[k] : x.vid \in Vid
    BY RowFields DEF Typed, RowsTyped, Vid
  <1> QED BY <1>1 DEF ExistingVid, Vid

LEMMA VersionDeleteCheckStep ==
  ASSUME Typed, Shape, NEW r \in Request, VersionDeleteCheck(r)
  PROVE  Typed' /\ Shape' /\ Quiet(r)
  <1>1. PICK k \in Key, bypass \in BOOLEAN : \E v \in ExistingVid(k) :
          LET q  == [Idle EXCEPT !.op = "deletever", !.key = k, !.vid = v]
              ok == \A x \in Version(k, v) : x.marker \/ LockAllowsDelete(x, bypass)
          IN  /\ Start(r, IF ok THEN [q EXCEPT !.pc = "checked", !.row = SeenVersion(k, v)]
                          ELSE [q EXCEPT !.pc = "done", !.res = "refused"])
              /\ UNCHANGED Rest
    BY DEF VersionDeleteCheck, Rest
  <1>2. PICK v \in ExistingVid(k) :
          LET q  == [Idle EXCEPT !.op = "deletever", !.key = k, !.vid = v]
              ok == \A x \in Version(k, v) : x.marker \/ LockAllowsDelete(x, bypass)
          IN  /\ Start(r, IF ok THEN [q EXCEPT !.pc = "checked", !.row = SeenVersion(k, v)]
                          ELSE [q EXCEPT !.pc = "done", !.res = "refused"])
              /\ UNCHANGED Rest
    BY <1>1
  <1> DEFINE q  == [Idle EXCEPT !.op = "deletever", !.key = k, !.vid = v]
             ok == \A x \in Version(k, v) : x.marker \/ LockAllowsDelete(x, bypass)
  <1>3. v \in Vid /\ SeenVersion(k, v) \in RowType
    BY ExistingVidType, SeenRow
  <1>4. Opening([q EXCEPT !.pc = "done", !.res = "refused"])
    BY <1>3, IdleType DEF Opening, ReqType, Idle, Dated, Checks
  <1> DEFINE p == [q EXCEPT !.pc = "checked", !.row = SeenVersion(k, v)]
  <1>5. CASE ok
    <2>1. /\ p \in ReqType /\ p.pc = "checked" /\ p.op = "deletever" /\ p.vid = v /\ p.key = k
          /\ p.row = SeenVersion(k, v) /\ p.res = "none" /\ p.mode = "none" /\ p.until = 0
      BY <1>3, IdleType DEF ReqType, Idle
    <2>2. Start(r, p) /\ UNCHANGED Rest
      BY <1>2, <1>5
    <2> HIDE DEF p, q
    <2>3. LockChecked(p, k)
      BY <1>5, <2>1 DEF LockChecked, LockAllowsDelete
    <2>4. Opening(p)
      BY <2>1, <2>3 DEF Opening, Dated, Checks
    <2> QED BY <2>2, <2>4, BeginStep
  <1> HIDE DEF q, ok
  <1>6. CASE ~ok
    BY <1>2, <1>4, <1>6, BeginStep DEF q, ok
  <1> QED BY <1>5, <1>6

LEMMA BatchCheckStep ==
  ASSUME Typed, Shape, NEW r \in Request, BatchCheck(r)
  PROVE  Typed' /\ Shape' /\ Quiet(r)
  <1>1. PICK k \in Key : \E v \in ExistingVid(k) :
          LET q  == [Idle EXCEPT !.op = "batch", !.key = k, !.vid = v]
              ok == \A x \in Version(k, v) : x.marker \/ LockAllowsDeleteBatch(x)
          IN  /\ Start(r, IF ok THEN [q EXCEPT !.pc = "checked", !.row = SeenVersion(k, v)]
                          ELSE [q EXCEPT !.pc = "done", !.res = "refused"])
              /\ UNCHANGED Rest
    BY DEF BatchCheck, Rest
  <1>2. PICK v \in ExistingVid(k) :
          LET q  == [Idle EXCEPT !.op = "batch", !.key = k, !.vid = v]
              ok == \A x \in Version(k, v) : x.marker \/ LockAllowsDeleteBatch(x)
          IN  /\ Start(r, IF ok THEN [q EXCEPT !.pc = "checked", !.row = SeenVersion(k, v)]
                          ELSE [q EXCEPT !.pc = "done", !.res = "refused"])
              /\ UNCHANGED Rest
    BY <1>1
  <1> DEFINE q  == [Idle EXCEPT !.op = "batch", !.key = k, !.vid = v]
             ok == \A x \in Version(k, v) : x.marker \/ LockAllowsDeleteBatch(x)
  <1>3. v \in Vid /\ SeenVersion(k, v) \in RowType
    BY ExistingVidType, SeenRow
  <1>4. Opening([q EXCEPT !.pc = "done", !.res = "refused"])
    BY <1>3, IdleType DEF Opening, ReqType, Idle, Dated, Checks
  <1> DEFINE p == [q EXCEPT !.pc = "checked", !.row = SeenVersion(k, v)]
  <1>5. CASE ok
    <2>1. /\ p \in ReqType /\ p.pc = "checked" /\ p.op = "batch" /\ p.vid = v /\ p.key = k
          /\ p.row = SeenVersion(k, v) /\ p.res = "none" /\ p.mode = "none" /\ p.until = 0
      BY <1>3, IdleType DEF ReqType, Idle
    <2>2. Start(r, p) /\ UNCHANGED Rest
      BY <1>2, <1>5
    <2> HIDE DEF p, q
    <2>3. LockChecked(p, k)
      BY <1>5, <2>1 DEF LockChecked, LockAllowsDeleteBatch
    <2>4. Opening(p)
      BY <2>1, <2>3 DEF Opening, Dated, Checks
    <2> QED BY <2>2, <2>4, BeginStep
  <1> HIDE DEF q, ok
  <1>6. CASE ~ok
    BY <1>2, <1>4, <1>6, BeginStep DEF q, ok
  <1> QED BY <1>5, <1>6

LEMMA TagResolveStep ==
  ASSUME Typed, Shape, NEW r \in Request, TagResolve(r)
  PROVE  Typed' /\ Shape' /\ Quiet(r)
  <1>1. PICK k \in Key, op \in {"tag", "untag"} :
          LET q == [Idle EXCEPT !.op = op, !.key = k]
          IN  /\ Start(r, IF Current(k) = {} THEN [q EXCEPT !.pc = "done", !.res = "refused"]
                          ELSE [q EXCEPT !.pc = "checked", !.vid = (CHOOSE x \in Current(k) : TRUE).vid])
              /\ UNCHANGED Rest
    BY DEF TagResolve, Rest
  <1> DEFINE q == [Idle EXCEPT !.op = op, !.key = k]
             v == (CHOOSE x \in Current(k) : TRUE).vid
  <1> HIDE DEF v
  <1>2. CASE Current(k) = {}
    <2>1. Opening([q EXCEPT !.pc = "done", !.res = "refused"])
      BY IdleType DEF Opening, ReqType, Idle, Dated, Checks
    <2> QED BY <1>1, <1>2, <2>1, BeginStep
  <1>3. CASE Current(k) # {}
    <2>1. v \in Vid /\ (v = 0 \/ Past(v))
      <3>1. (CHOOSE x \in Current(k) : TRUE) \in rows[k]
        BY <1>3, ChosenIn DEF Current
      <3> QED BY <1>3, <3>1, CurrentRow, RowFields, KeyShape DEF v, Vid
    <2>2. Opening([q EXCEPT !.pc = "checked", !.vid = v])
      BY <2>1, IdleType DEF Opening, ReqType, Idle, Dated, Checks
    <2>3. Start(r, [q EXCEPT !.pc = "checked", !.vid = v])
      BY <1>1, <1>3 DEF v
    <2> HIDE DEF q
    <2> QED BY <1>1, <2>2, <2>3, BeginStep
  <1> QED BY <1>2, <1>3

LEMMA RetentionCheckStep ==
  ASSUME Typed, Shape, NEW r \in Request, RetentionCheck(r)
  PROVE  Typed' /\ Shape' /\ Quiet(r)
  <1>1. PICK k \in Key, v \in Request, mode \in {"COMPLIANCE", "GOVERNANCE"}, until \in Untils,
             bypass \in BOOLEAN :
          LET q  == [Idle EXCEPT !.op = "retain", !.key = k, !.vid = v, !.mode = mode, !.until = until]
              ok == \A x \in Version(k, v) : RetentionAllowed(x, mode, until, bypass)
          IN  /\ Start(r, IF Version(k, v) # {} /\ ok THEN [q EXCEPT !.pc = "checked"]
                          ELSE [q EXCEPT !.pc = "done", !.res = "refused"])
              /\ UNCHANGED <<versioning, clock, now, rows, tags, part, disk, doomed, log, faults>>
    BY DEF RetentionCheck
  <1>0. UNCHANGED Rest
    BY <1>1 DEF Rest
  <1> DEFINE q  == [Idle EXCEPT !.op = "retain", !.key = k, !.vid = v, !.mode = mode, !.until = until]
             ok == Version(k, v) # {} /\ \A x \in Version(k, v) : RetentionAllowed(x, mode, until, bypass)
  <1>2. Opening([q EXCEPT !.pc = "checked"]) /\ Opening([q EXCEPT !.pc = "done", !.res = "refused"])
    BY IdleType DEF Opening, ReqType, Idle, Dated, Checks, Vid, Modes, Lasts
  <1> HIDE DEF q, ok
  <1>3. CASE ok
    BY <1>0, <1>1, <1>2, <1>3, BeginStep DEF q, ok
  <1>4. CASE ~ok
    BY <1>0, <1>1, <1>2, <1>4, BeginStep DEF q, ok
  <1> QED BY <1>3, <1>4

LEMMA FinishStep ==
  ASSUME Typed, NEW r \in Request, NEW res \in {"ok", "refused", "error"}, Finish(r, res),
         req[r].pc \notin {"idle", "done"}
  PROVE  /\ ReqTyped' /\ Moves(r) /\ req'[r].pc = "done" /\ req'[r].res = res
         /\ req'[r].op = req[r].op /\ req'[r].mode = req[r].mode /\ req'[r].until = req[r].until
  <1>1. req \in [Request -> ReqType] /\ req' = [req EXCEPT ![r].pc = "done", ![r].res = res]
    BY DEF Typed, ReqTyped, Finish
  <1>2. /\ req' \in [Request -> ReqType] /\ req'[r].pc = "done" /\ req'[r].res = res
        /\ req'[r].op = req[r].op /\ req'[r].key = req[r].key
        /\ req'[r].mode = req[r].mode /\ req'[r].until = req[r].until
        /\ \A s \in Request : s # r => req'[s] = req[s]
    <2> DEFINE q == [req[r] EXCEPT !.pc = "done", !.res = res]
    <2>1. req' = [req EXCEPT ![r] = q]
      BY <1>1
    <2>2. /\ q \in ReqType /\ q.pc = "done" /\ q.res = res /\ q.op = req[r].op /\ q.key = req[r].key
          /\ q.mode = req[r].mode /\ q.until = req[r].until
      <3>1. req[r] \in ReqType
        BY <1>1
      <3> QED BY <3>1 DEF ReqType
    <2> HIDE DEF q
    <2> QED BY <1>1, <2>1, <2>2
  <1>3. ReqTyped'
    BY <1>2 DEF Typed, ReqTyped, Dated
  <1> QED BY <1>2, <1>3 DEF Moves

LEMMA BlobFailsStep ==
  ASSUME Typed, Shape, NEW r \in Request, BlobFails(r)
  PROVE  Typed' /\ Shape' /\ Quiet(r)
  <1> USE DEF BlobFails
  <1>1. ReqTyped' /\ Moves(r) /\ req'[r].pc = "done"
    BY FinishStep
  <1>2. Typed'
    BY <1>1 DEF Typed, RowsTyped
  <1> QED BY <1>1, <1>2, ShapeKept, SameRowsStay DEF Quiet, Open, Checks

LEMMA GetBlobStep ==
  ASSUME Typed, Shape, NEW r \in Request, GetBlob(r)
  PROVE  Typed' /\ Shape' /\ Quiet(r)
  <1> USE DEF GetBlob
  <1>1. ReqTyped' /\ Moves(r) /\ req'[r].pc = "done"
    BY FinishStep
  <1>2. Typed'
    BY <1>1 DEF Typed, RowsTyped
  <1> QED BY <1>1, <1>2, ShapeKept, SameRowsStay DEF Quiet, Open, Checks

LEMMA PutRefusedStep ==
  ASSUME Typed, Shape, NEW r \in Request, PutRefused(r)
  PROVE  Typed' /\ Shape' /\ Refuses(r)
  <1> USE DEF PutRefused
  <1>1. ReqTyped' /\ Moves(r) /\ req'[r].pc = "done"
    BY FinishStep
  <1>2. Typed'
    BY <1>1 DEF Typed, RowsTyped
  <1> QED BY <1>1, <1>2, ShapeKept, SameRowsStay DEF Refuses

LEMMA DeleteOldBlobStep ==
  ASSUME Typed, Shape, NEW r \in Request, DeleteOldBlob(r)
  PROVE  Typed' /\ Shape' /\ Cleans(r)
  <1> USE DEF DeleteOldBlob
  <1>1. ReqTyped' /\ Moves(r) /\ req'[r].pc = "done"
    BY FinishStep
  <1>2. Typed'
    BY <1>1 DEF Typed, RowsTyped
  <1> QED BY <1>1, <1>2, ShapeKept, SameRowsStay DEF Cleans

LEMMA TagWriteStep ==
  ASSUME Typed, Shape, NEW r \in Request, TagWrite(r)
  PROVE  Typed' /\ Shape' /\ Quiet(r)
  <1> USE DEF TagWrite
  <1>1. ReqTyped' /\ Moves(r) /\ req'[r].pc = "done"
    BY FinishStep
  <1>2. tags' \in [Key -> [Vid -> Vid]]
    <2>1. tags \in [Key -> [Vid -> Vid]] /\ r \in Vid /\ 0 \in Vid
      BY DEF Typed, Vid
    <2> QED BY <2>1
  <1>3. Typed'
    BY <1>1, <1>2 DEF Typed, RowsTyped
  <1> QED BY <1>1, <1>3, ShapeKept, SameRowsStay DEF Quiet, Open, Checks

LEMMA PutBlobStep ==
  ASSUME Typed, Shape, Owned, NEW r \in Request, PutBlob(r)
  PROVE  Typed' /\ Shape' /\ Stores(r)
  <1> USE DEF PutBlob
  <1>1. PICK lock \in {<<"none", 0>>} \cup ({"COMPLIANCE"} \X Untils) :
          req' = [req EXCEPT ![r].pc = "stored", ![r].at = clock,
                             ![r].mode = lock[1], ![r].until = lock[2]]
    OBVIOUS
  <1>2. lock[1] \in Modes /\ lock[2] \in Lasts /\ (lock[1] = "none" => lock[2] = 0)
    BY DEF Modes, Lasts
  <1>3. req \in [Request -> ReqType] /\ clock \in Nat
    BY DEF Typed, ReqTyped
  <1>4. /\ req' \in [Request -> ReqType] /\ req'[r].pc = "stored"
        /\ req'[r].op = req[r].op /\ req'[r].key = req[r].key /\ req'[r].res = req[r].res
        /\ Dated(req'[r])
        /\ \A s \in Request : s # r => req'[s] = req[s]
    <2> DEFINE q == [req[r] EXCEPT !.pc = "stored", !.at = clock, !.mode = lock[1], !.until = lock[2]]
    <2>1. req' = [req EXCEPT ![r] = q]
      BY <1>1
    <2>2. /\ q \in ReqType /\ q.pc = "stored" /\ q.op = req[r].op /\ q.key = req[r].key
          /\ q.res = req[r].res /\ Dated(q)
      <3>1. req[r] \in ReqType
        BY <1>3
      <3> QED BY <1>2, <1>3, <3>1 DEF ReqType, Dated
    <2> HIDE DEF q
    <2> QED BY <1>3, <2>1, <2>2
  <1>5. ReqTyped'
    BY <1>4 DEF Typed, ReqTyped
  <1>6. Typed'
    BY <1>3, <1>5 DEF Typed, RowsTyped
  <1>7. req[r].res = "none"
    BY DEF Owned, ResultAtEnd
  <1>8. Moves(r)
    BY <1>4, <1>7 DEF Moves
  <1> QED BY <1>4, <1>6, <1>8, ShapeKept, SameRowsStay DEF Stores, Open

LEMMA CopySourceStep ==
  ASSUME Typed, Shape, Owned, NEW r \in Request, req[r].pc = "source", CopySource(r),
         UNCHANGED <<versioning, now, rows, tags, part, doomed>>
  PROVE  Typed' /\ Shape' /\ (Stores(r) \/ Quiet(r))
  <1>1. CASE req[r].row.blob \in disk
    <2>1. /\ disk' = disk \cup {r} /\ clock' = clock + 1
          /\ req' = [req EXCEPT ![r].pc = "stored", ![r].at = clock]
      BY <1>1 DEF CopySource
    <2>2. req \in [Request -> ReqType] /\ clock \in Nat /\ req[r].res = "none"
      BY DEF Typed, ReqTyped, Owned, ResultAtEnd
    <2>3. /\ req' \in [Request -> ReqType] /\ req'[r].pc = "stored"
          /\ req'[r].op = req[r].op /\ req'[r].key = req[r].key /\ req'[r].res = req[r].res
          /\ req'[r].mode = req[r].mode /\ req'[r].until = req[r].until
          /\ \A s \in Request : s # r => req'[s] = req[s]
      <3> DEFINE q == [req[r] EXCEPT !.pc = "stored", !.at = clock]
      <3>1. req' = [req EXCEPT ![r] = q]
        BY <2>1
      <3>2. /\ q \in ReqType /\ q.pc = "stored" /\ q.op = req[r].op /\ q.key = req[r].key
            /\ q.res = req[r].res /\ q.mode = req[r].mode /\ q.until = req[r].until
        <4>1. req[r] \in ReqType
          BY <2>2
        <4> QED BY <2>2, <4>1 DEF ReqType
      <3> HIDE DEF q
      <3> QED BY <2>2, <3>1, <3>2
    <2>4. ReqTyped' /\ Moves(r)
      BY <2>2, <2>3 DEF Typed, ReqTyped, Moves, Dated
    <2>5. Typed'
      BY <2>1, <2>2, <2>4 DEF Typed, RowsTyped
    <2> QED BY <2>1, <2>3, <2>4, <2>5, ShapeKept, SameRowsStay DEF Stores, Open
  <1>2. CASE req[r].row.blob \notin disk
    <2>1. Finish(r, "error") /\ UNCHANGED <<disk, clock>>
      BY <1>2 DEF CopySource
    <2>2. ReqTyped' /\ Moves(r) /\ req'[r].pc = "done"
      BY <2>1, FinishStep
    <2>3. Typed'
      BY <2>1, <2>2 DEF Typed, RowsTyped
    <2> QED BY <2>1, <2>2, <2>3, ShapeKept, SameRowsStay DEF Quiet, Open, Checks
  <1> QED BY <1>1, <1>2

LEMMA PartCopyCommitStep ==
  ASSUME Typed, Shape, Owned, NEW r \in Request, PartCopyCommit(r)
  PROVE  Typed' /\ Shape' /\ PartCommits(r)
  <1> USE DEF PartCopyCommit
  <1>1. req \in [Request -> ReqType] /\ part \in Vid /\ req[r].res = "none"
    BY DEF Typed, ReqTyped, Owned, ResultAtEnd
  <1>2. /\ req' \in [Request -> ReqType] /\ req'[r].pc = "cleanup" /\ req'[r].old = part
        /\ req'[r].op = req[r].op /\ req'[r].key = req[r].key /\ req'[r].res = req[r].res
        /\ req'[r].mode = req[r].mode /\ req'[r].until = req[r].until
        /\ \A s \in Request : s # r => req'[s] = req[s]
    <2> DEFINE q == [req[r] EXCEPT !.pc = "cleanup", !.old = part]
    <2>1. req' = [req EXCEPT ![r] = q]
      OBVIOUS
    <2>2. /\ q \in ReqType /\ q.pc = "cleanup" /\ q.old = part /\ q.op = req[r].op
          /\ q.key = req[r].key /\ q.res = req[r].res
          /\ q.mode = req[r].mode /\ q.until = req[r].until
      <3>1. req[r] \in ReqType
        BY <1>1
      <3> QED BY <1>1, <3>1 DEF ReqType
    <2> HIDE DEF q
    <2> QED BY <1>1, <2>1, <2>2
  <1>3. ReqTyped' /\ Moves(r)
    BY <1>1, <1>2 DEF Typed, ReqTyped, Moves, Dated
  <1>4. Typed'
    BY <1>3 DEF Typed, RowsTyped, Vid
  <1> QED BY <1>2, <1>3, <1>4, ShapeKept DEF PartCommits

LEMMA NewRowType ==
  ASSUME Typed, NEW r \in Request
  PROVE  /\ NewRow(r) \in RowType /\ NewRow(r).blob = r /\ ~NewRow(r).marker
         /\ NewRow(r).mode = req[r].mode /\ NewRow(r).until = req[r].until
  <1>1. req[r] \in ReqType
    BY DEF Typed, ReqTyped
  <1>2. /\ req[r].at \in Nat /\ req[r].mode \in Modes /\ req[r].until \in Lasts
        /\ req[r].row \in RowType
    BY <1>1 DEF ReqType
  <1>3. req[r].row.etag \in Request \cup {0}
    BY <1>2, RowFields
  <1> DEFINE e == IF req[r].op = "copy" THEN req[r].row.etag ELSE r
  <1>4. e \in Request \cup {0}
    BY <1>3
  <1>5. NewRow(r) = [NoRow EXCEPT !.blob = r, !.at = req[r].at, !.mode = req[r].mode,
                                  !.until = req[r].until, !.etag = e]
    BY DEF NewRow
  <1> HIDE DEF e
  <1> QED BY <1>2, <1>4, <1>5, NoRowType DEF NoRow, RowType, Modes, Lasts, Vid

LEMMA DisplacedRows ==
  ASSUME Typed, NEW k \in Key
  PROVE  Displaced(k) \subseteq rows[k]
  BY DEF Typed, Displaced, Latest, Version

LEMMA BlobsOfRows ==
  ASSUME Typed, NEW k \in Key, NEW Gone \in SUBSET rows[k]
  PROVE  {x.blob : x \in Gone} \ {0} \subseteq Request
  <1>1. \A x \in Gone : x.blob \in Request \cup {0}
    BY RowFields DEF Typed, RowsTyped
  <1> QED BY <1>1

LEMMA InstallStep ==
  ASSUME Positive, Typed, Shape, Owned, NEW r \in Request, NEW pre, NEW t \in Vid,
         NEW res \in {"ok", "refused", "error"},
         req[r].pc = "stored", req[r].op \in {"put", "copy"},
         Install(r, pre, t), Finish(r, res), UNCHANGED <<versioning, clock, now, part, disk>>
  PROVE  /\ Typed' /\ Shape' /\ req[r].key \in Key
         /\ Installs(r, req[r].key, Displaced(req[r].key), Added(NewRow(r)))
  <1> DEFINE k == req[r].key  x == NewRow(r)
  <1>1. k \in Key
    BY DEF Typed, ReqTyped
  <1>2. ReqTyped' /\ Moves(r) /\ req'[r].pc = "done"
    BY FinishStep
  <1>3. x \in RowType /\ x.blob = r /\ ~x.marker
    BY NewRowType
  <1>4. Added(x).vid = VidOf(r) /\ Added(x).blob = r /\ ~Added(x).marker /\ Dated(Added(x))
    BY <1>3, AddedFields, NewRowType DEF Typed, ReqTyped, Dated
  <1>5. /\ rows' = [rows EXCEPT ![k] = Installed(k, x)]
        /\ tags' = TagsInstalled(k, VidOf(r), t)
        /\ doomed' = doomed \cup ({y.blob : y \in Displaced(k)} \ {0})
    BY DEF Install
  <1> HIDE DEF k, x
  <1>6. Turns(rows[k], Installed(k, x), Displaced(k), {Added(x)})
    BY <1>1, <1>3, InstalledTurns DEF Past
  <1>7. \A y \in {Added(x)} : y.vid = 0 \/ Past(y.vid)'
    <2>1. Past(r)'
      BY <1>2 DEF Past
    <2> QED BY <1>4, <2>1 DEF VidOf
  <1>8. RowsTyped' /\ Shape' /\ RowsChange(k, Displaced(k), {Added(x)})
    BY <1>1, <1>2, <1>5, <1>6, <1>7, ShapeTurns
  <1>9. tags' \in [Key -> [Vid -> Vid]]
    <2>1. tags \in [Key -> [Vid -> Vid]] /\ VidOf(r) \in Vid /\ 0 \in Vid
      BY DEF Typed, Vid, VidOf
    <2> QED BY <1>1, <1>5, <2>1 DEF TagsInstalled
  <1>10. Displaced(k) \subseteq rows[k]
    BY <1>1, DisplacedRows
  <1>11. doomed' \subseteq Request
    BY <1>1, <1>5, <1>10, BlobsOfRows DEF Typed
  <1>12. Typed'
    BY <1>2, <1>8, <1>9, <1>11 DEF Typed
  <1>13. Installs(r, k, Displaced(k), Added(x))
    BY <1>2, <1>4, <1>5, <1>8, <1>10 DEF Installs
  <1> QED BY <1>1, <1>8, <1>12, <1>13 DEF k, x

\* The transaction of a delete hands its request the blob to delete.
LEMMA HandedStep ==
  ASSUME Typed, Owned, NEW r \in Request, req[r].pc = "checked", NEW o \in Vid,
         req' = [req EXCEPT ![r].pc = "cleanup", ![r].old = o]
  PROVE  /\ ReqTyped' /\ Moves(r) /\ req'[r].pc = "cleanup" /\ req'[r].old = o
         /\ req'[r].op = req[r].op /\ req'[r].mode = req[r].mode /\ req'[r].until = req[r].until
  <1>1. req \in [Request -> ReqType] /\ req[r].res = "none"
    BY DEF Typed, ReqTyped, Owned, ResultAtEnd
  <1>2. /\ req' \in [Request -> ReqType] /\ req'[r].pc = "cleanup" /\ req'[r].old = o
        /\ req'[r].op = req[r].op /\ req'[r].key = req[r].key /\ req'[r].res = req[r].res
        /\ req'[r].mode = req[r].mode /\ req'[r].until = req[r].until
        /\ \A s \in Request : s # r => req'[s] = req[s]
    <2> DEFINE q == [req[r] EXCEPT !.pc = "cleanup", !.old = o]
    <2>1. req' = [req EXCEPT ![r] = q]
      OBVIOUS
    <2>2. /\ q \in ReqType /\ q.pc = "cleanup" /\ q.old = o /\ q.op = req[r].op
          /\ q.key = req[r].key /\ q.res = req[r].res
          /\ q.mode = req[r].mode /\ q.until = req[r].until
      <3>1. req[r] \in ReqType
        BY <1>1
      <3> QED BY <3>1 DEF ReqType
    <2> HIDE DEF q
    <2> QED BY <1>1, <2>1, <2>2
  <1>3. ReqTyped' /\ Moves(r)
    BY <1>1, <1>2 DEF Typed, ReqTyped, Moves, Dated
  <1> QED BY <1>2, <1>3

LEMMA DropVersionStep ==
  ASSUME Positive, Typed, Shape, Owned, NEW r \in Request, req[r].pc = "checked",
         req[r].op # "partcopy",
         DropVersion(r, req[r].key, req[r].vid),
         UNCHANGED <<versioning, clock, now, part, disk, doomed>>
  PROVE  LET k == req[r].key  v == req[r].vid
         IN  /\ Typed' /\ Shape' /\ k \in Key
             /\ Drops(r, k, Version(k, v), {}, SeenVersion(k, v).blob)
  <1> DEFINE k == req[r].key  v == req[r].vid  o == SeenVersion(k, v).blob
  <1>1. k \in Key /\ v \in Vid
    <2>1. req[r] \in ReqType
      BY DEF Typed, ReqTyped
    <2> QED BY <2>1 DEF Typed, ReqTyped, ReqType
  <1>2. /\ rows' = [rows EXCEPT ![k] = DeletedVersion(k, v)]
        /\ tags' = IF Version(k, v) = {} THEN tags ELSE [tags EXCEPT ![k][v] = 0]
        /\ req' = [req EXCEPT ![r].pc = "cleanup", ![r].old = o]
    BY DEF DropVersion
  <1> HIDE DEF k, v
  <1>3. SeenVersion(k, v) \in RowType
    BY <1>1, SeenRow
  <1>4. o \in Vid
    BY <1>3, RowFields DEF Vid
  <1> HIDE DEF o
  <1>5. ReqTyped' /\ Moves(r) /\ req'[r].pc = "cleanup" /\ req'[r].old = o
    BY <1>2, <1>4, HandedStep
  <1>6. Turns(rows[k], DeletedVersion(k, v), Version(k, v), {})
    BY <1>1, DeletedVersionTurns
  <1>7. RowsTyped' /\ Shape' /\ RowsChange(k, Version(k, v), {})
    BY <1>1, <1>2, <1>5, <1>6, ShapeTurns
  <1>8. tags' \in [Key -> [Vid -> Vid]]
    <2>1. tags \in [Key -> [Vid -> Vid]] /\ 0 \in Vid
      BY DEF Typed, Vid
    <2> QED BY <1>1, <1>2, <2>1
  <1>9. Typed'
    BY <1>5, <1>7, <1>8 DEF Typed
  <1>10. Version(k, v) \subseteq rows[k]
    BY DEF Version
  <1>11. \A g \in Version(k, v) : g.blob = o
    <2> SUFFICES ASSUME NEW g \in Version(k, v) PROVE g = SeenVersion(k, v)
      BY DEF o
    <2>1. SeenVersion(k, v) \in Version(k, v)
      BY <1>1, SeenRow
    <2> QED BY <1>1, <2>1, KeyShape DEF Version, OneEach
  <1>12. o = 0 \/ \E g \in Version(k, v) : g.blob = o
    <2>1. CASE Version(k, v) = {}
      <3>1. o = NoRow.blob
        BY <2>1 DEF o, SeenVersion
      <3> QED BY <3>1 DEF NoRow
    <2>2. CASE Version(k, v) # {}
      BY <1>11, <2>2
    <2> QED BY <2>1, <2>2
  <1>13. Drops(r, k, Version(k, v), {}, o)
    BY <1>5, <1>7, <1>10, <1>11, <1>12 DEF Drops, Open
  <1> QED BY <1>1, <1>7, <1>9, <1>13 DEF k, v, o

\* The blob delete_latest_in_tx hands over.
OldBlob(k) == LET gone == {x \in Displaced(k) : ~x.marker}
              IN  IF gone = {} THEN 0 ELSE (CHOOSE x \in gone : TRUE).blob

LEMMA DisplacedOnce ==
  ASSUME Typed, Shape, NEW k \in Key
  PROVE  \A x, y \in Displaced(k) : x = y
  BY KeyShape DEF Displaced, Latest, Version, Index, Typed

LEMMA OldBlobIs ==
  ASSUME Typed, Shape, Owned, NEW k \in Key
  PROVE  /\ OldBlob(k) \in Vid
         /\ \A g \in Displaced(k) : g.blob \in {0, OldBlob(k)}
         /\ OldBlob(k) = 0 \/ \E g \in Displaced(k) : g.blob = OldBlob(k)
  <1> DEFINE gone == {x \in Displaced(k) : ~x.marker}
  <1>1. \A g \in Displaced(k) : g.marker => g.blob = 0
    BY DisplacedRows DEF Owned, RowsOwn
  <1>2. CASE gone = {}
    <2>1. OldBlob(k) = 0
      BY <1>2 DEF OldBlob
    <2> QED BY <1>1, <1>2, <2>1 DEF Vid
  <1>3. CASE gone # {}
    <2> DEFINE x == CHOOSE x \in gone : TRUE
    <2>1. x \in gone
      BY <1>3, ChosenIn
    <2>2. OldBlob(k) = x.blob
      BY <1>3 DEF OldBlob
    <2> HIDE DEF x
    <2>3. \A g \in Displaced(k) : g = x
      BY <2>1, DisplacedOnce
    <2>4. x \in RowType
      BY <2>1, DisplacedRows DEF Typed, RowsTyped
    <2>5. x.blob \in Vid
      BY <2>4, RowFields DEF Vid
    <2> QED BY <2>1, <2>2, <2>3, <2>5
  <1> QED BY <1>2, <1>3

LEMMA DeleteCommitStep ==
  ASSUME Positive, Typed, Shape, Owned, NEW r \in Request, DeleteCommit(r)
  PROVE  LET k == req[r].key
         IN  /\ Typed' /\ Shape' /\ k \in Key
             /\ \/ Quiet(r) /\ rows' = rows
                \/ Drops(r, k, Displaced(k), Markers(r), OldBlob(k))
  <1> DEFINE k == req[r].key
  <1>0. /\ req[r].op = "delete" /\ req[r].pc = "checked"
        /\ UNCHANGED <<versioning, now, part, disk, doomed>>
    BY DEF DeleteCommit
  <1>1. k \in Key
    BY <1>0 DEF Typed, ReqTyped
  <1>2. CASE DeleteAllowed(Latest(k), req[r].pre)
    <2>1. /\ rows' = [rows EXCEPT ![k] = DeletedLatest(k, r)]
          /\ tags' = TagsDeletedLatest(k)
          /\ clock' = clock + 1
          /\ req' = [req EXCEPT ![r].pc = "cleanup", ![r].old = OldBlob(k)]
      BY <1>2 DEF DeleteCommit, OldBlob
    <2> HIDE DEF k
    <2>2. /\ OldBlob(k) \in Vid
          /\ \A g \in Displaced(k) : g.blob \in {0, OldBlob(k)}
          /\ OldBlob(k) = 0 \/ \E g \in Displaced(k) : g.blob = OldBlob(k)
      BY <1>1, OldBlobIs
    <2>3. ReqTyped' /\ Moves(r) /\ req'[r].pc = "cleanup" /\ req'[r].old = OldBlob(k)
      BY <1>0, <2>1, <2>2, HandedStep
    <2>4. Turns(rows[k], DeletedLatest(k, r), Displaced(k), Markers(r))
      BY <1>0, <1>1, DeletedLatestTurns DEF Past
    <2>5. \A x \in Markers(r) : x.marker /\ x.blob = 0 /\ x.vid = VidOf(r) /\ Dated(x)
      BY MarkerFields DEF Markers, Dated
    <2>6. \A x \in Markers(r) : x.vid = 0 \/ Past(x.vid)'
      <3>1. Past(r)'
        BY <2>3 DEF Past
      <3> QED BY <2>5, <3>1 DEF VidOf
    <2>7. RowsTyped' /\ Shape' /\ RowsChange(k, Displaced(k), Markers(r))
      BY <1>0, <1>1, <2>1, <2>3, <2>4, <2>6, ShapeTurns
    <2>8. tags' \in [Key -> [Vid -> Vid]]
      <3>1. tags \in [Key -> [Vid -> Vid]] /\ 0 \in Vid
        BY DEF Typed, Vid
      <3> QED BY <1>1, <2>1, <3>1 DEF TagsDeletedLatest
    <2>9. Typed'
      BY <1>0, <2>1, <2>3, <2>7, <2>8 DEF Typed
    <2>10. Displaced(k) \subseteq rows[k]
      BY <1>1, DisplacedRows
    <2>11. Drops(r, k, Displaced(k), Markers(r), OldBlob(k))
      BY <1>0, <2>2, <2>3, <2>5, <2>7, <2>10 DEF Drops, Open
    <2> QED BY <1>1, <2>7, <2>9, <2>11 DEF k
  <1>3. CASE ~DeleteAllowed(Latest(k), req[r].pre)
    <2>1. Finish(r, "refused") /\ UNCHANGED <<rows, tags, clock>>
      BY <1>3 DEF DeleteCommit
    <2>2. ReqTyped' /\ Moves(r) /\ req'[r].pc = "done"
      BY <1>0, <2>1, FinishStep
    <2>3. Typed'
      BY <1>0, <2>1, <2>2 DEF Typed, RowsTyped
    <2>4. Shape' /\ Quiet(r)
      BY <1>0, <2>1, <2>2, ShapeKept, SameRowsStay DEF Quiet, Open, Checks
    <2> QED BY <1>1, <2>1, <2>3, <2>4
  <1> QED BY <1>2, <1>3

\* What clients see of a key is the etag of its current row.
LEMMA EtagInIs ==
  ASSUME NEW S, Index(S), NEW x \in S, x.latest, ~x.marker
  PROVE  EtagIn(S) = x.etag
  <1> DEFINE seen == {y \in S : y.latest /\ ~y.marker}
  <1>1. seen = {x}
    BY DEF Index
  <1>2. (CHOOSE y \in seen : TRUE) = x
    BY <1>1
  <1> QED BY <1>1, <1>2 DEF EtagIn

LEMMA EtagInNone ==
  ASSUME NEW S, \A x \in S : ~(x.latest /\ ~x.marker)
  PROVE  EtagIn(S) = 0
  <1>1. {y \in S : y.latest /\ ~y.marker} = {}
    OBVIOUS
  <1> QED BY <1>1 DEF EtagIn

EtagsStay == \A k \in Key : EtagIn(rows'[k]) = EtagIn(rows[k])

LEMMA EditEtag ==
  ASSUME NEW S, NEW T, Index(S), Index(T),
         \A y \in T : \E x \in S : Alike(x, y) /\ x.latest = y.latest,
         \A x \in S : \E y \in T : Alike(x, y) /\ x.latest = y.latest
  PROVE  EtagIn(T) = EtagIn(S)
  <1>1. CASE \E x \in S : x.latest /\ ~x.marker
    <2>1. PICK x \in S : x.latest /\ ~x.marker
      BY <1>1
    <2>2. PICK y \in T : Alike(x, y) /\ x.latest = y.latest
      OBVIOUS
    <2>3. y.latest /\ ~y.marker /\ y.etag = x.etag
      BY <2>1, <2>2 DEF Alike
    <2> QED BY <2>1, <2>3, EtagInIs
  <1>2. CASE \A x \in S : ~(x.latest /\ ~x.marker)
    <2>1. \A y \in T : ~(y.latest /\ ~y.marker)
      BY <1>2 DEF Alike
    <2> QED BY <1>2, <2>1, EtagInNone
  <1> QED BY <1>1, <1>2

\* The lock of the rows of one version is written.
LEMMA EditStep ==
  ASSUME Typed, Shape, NEW r \in Request, Moves(r), versioning' = versioning,
         NEW k \in Key, NEW T, rows' = [rows EXCEPT ![k] = T], OneEach(T),
         \A y \in T : y \in RowType /\ \E x \in rows[k] : Alike(x, y) /\ x.latest = y.latest,
         \A x \in rows[k] : \E y \in T : Alike(x, y) /\ x.latest = y.latest
  PROVE  RowsTyped' /\ Shape' /\ RowsStay /\ EtagsStay
  <1>1. /\ rows'[k] = T /\ \A l \in Key : l # k => rows'[l] = rows[l]
    BY DEF Typed, RowsTyped
  <1>2. RowsTyped'
    BY DEF Typed, RowsTyped
  <1>3. RowsStay
    <2> SUFFICES ASSUME NEW l \in Key PROVE Trades(rows[l], rows'[l], {}, {})
      BY DEF RowsStay
    <2>1. CASE l = k
      BY <1>1, <2>1 DEF Trades
    <2>2. CASE l # k
      BY <1>1, <2>2 DEF Trades, Alike
    <2> QED BY <2>1, <2>2
  <1>4. Index(T)
    <2> SUFFICES ASSUME NEW y \in T, NEW z \in T, y.latest /\ z.latest PROVE y.vid = z.vid
      BY DEF Index, OneEach
    <2>1. PICK x \in rows[k] : Alike(x, y) /\ x.latest = y.latest
      OBVIOUS
    <2>2. PICK w \in rows[k] : Alike(w, z) /\ w.latest = z.latest
      OBVIOUS
    <2>3. x = w
      BY <2>1, <2>2, KeyShape DEF Index
    <2> QED BY <2>1, <2>2, <2>3 DEF Alike
  <1>5. ASSUME versioning = "Unversioned" PROVE PlainRows(T)
    BY <1>5, KeyShape DEF PlainRows, Alike
  <1>6. Indexed'
    <2> SUFFICES ASSUME NEW l \in Key PROVE Index(rows'[l])
      BY DEF Indexed, Index
    <2>1. CASE l = k
      BY <1>1, <1>4, <2>1
    <2>2. CASE l # k
      BY <1>1, <2>2, KeyShape
    <2> QED BY <2>1, <2>2
  <1>7. Plain'
    <2> SUFFICES ASSUME NEW l \in Key, versioning = "Unversioned" PROVE PlainRows(rows'[l])
      BY DEF Plain, PlainRows
    <2>1. CASE l = k
      BY <1>1, <1>5, <2>1
    <2>2. CASE l # k
      BY <1>1, <2>2, KeyShape
    <2> QED BY <2>1, <2>2
  <1>8. VidsPast'
    <2> SUFFICES ASSUME NEW l \in Key, NEW y \in rows'[l] PROVE y.vid = 0 \/ Past(y.vid)'
      BY DEF VidsPast, Past
    <2>1. PICK x \in rows[l] : Alike(x, y)
      BY <1>3 DEF RowsStay, Trades
    <2>2. x.vid = 0 \/ Past(x.vid)'
      BY KeyShape, PastKept
    <2> QED BY <2>1, <2>2 DEF Alike
  <1>9. EtagsStay
    <2> SUFFICES ASSUME NEW l \in Key PROVE EtagIn(rows'[l]) = EtagIn(rows[l])
      BY DEF EtagsStay
    <2>1. CASE l = k
      <3>1. Index(rows[k])
        BY KeyShape
      <3>2. EtagIn(T) = EtagIn(rows[k])
        BY <1>4, <3>1, EditEtag
      <3> QED BY <1>1, <2>1, <3>2
    <2>2. CASE l # k
      BY <1>1, <2>2
    <2> QED BY <2>1, <2>2
  <1> QED BY <1>2, <1>3, <1>6, <1>7, <1>8, <1>9 DEF Shape

\* set_object_retention and set_object_legal_hold on one row.
Retain(x, v, mode, until) ==
  IF x.vid = v THEN [x EXCEPT !.mode = mode, !.until = until] ELSE x
Hold(x, v, on) == IF x.vid = v THEN [x EXCEPT !.hold = on] ELSE x

LEMMA RetainFields ==
  ASSUME NEW x \in RowType, NEW v, NEW mode \in Modes, NEW until \in Lasts,
         mode = "none" => until = 0
  PROVE  LET y == Retain(x, v, mode, until)
         IN  /\ y \in RowType /\ Alike(x, y) /\ x.latest = y.latest
  <1>1. CASE x.vid = v
    BY <1>1 DEF Retain, RowType, Alike, Modes, Lasts, Dated
  <1>2. CASE x.vid # v
    BY <1>2 DEF Retain, Alike
  <1> QED BY <1>1, <1>2

LEMMA HoldFields ==
  ASSUME NEW x \in RowType, NEW v, NEW on \in BOOLEAN
  PROVE  LET y == Hold(x, v, on)
         IN  /\ y \in RowType /\ Alike(x, y) /\ x.latest = y.latest
  <1>1. CASE x.vid = v
    BY <1>1 DEF Hold, RowType, Alike, Dated
  <1>2. CASE x.vid # v
    BY <1>2 DEF Hold, Alike
  <1> QED BY <1>1, <1>2

LEMMA RetentionWriteStep ==
  ASSUME Typed, Shape, NEW r \in Request, RetentionWrite(r)
  PROVE  Typed' /\ Shape' /\ Quiet(r) /\ EtagsStay
  <1> DEFINE k == req[r].key  v == req[r].vid  m == req[r].mode  u == req[r].until
             T == {Retain(x, v, m, u) : x \in rows[k]}
  <1>1. /\ req[r].op = "retain" /\ req[r].pc = "checked"
        /\ rows' = [rows EXCEPT ![k] = T]
        /\ Finish(r, IF Version(k, v) = {} THEN "refused" ELSE "ok")
        /\ UNCHANGED <<versioning, clock, now, tags, part, disk, doomed>>
    BY DEF RetentionWrite, Retain
  <1>2. k \in Key /\ m \in Modes /\ u \in Lasts /\ (m = "none" => u = 0)
    <2>1. req[r] \in ReqType
      BY DEF Typed, ReqTyped
    <2> QED BY <1>1, <2>1 DEF Typed, ReqTyped, ReqType, Dated
  <1>3. ReqTyped' /\ Moves(r) /\ req'[r].pc = "done"
    BY <1>1, FinishStep
  <1> HIDE DEF k, v, m, u
  <1>4. rows[k] \subseteq RowType /\ OneEach(rows[k])
    BY <1>2, KeyShape
  <1>5. \A x \in rows[k] : Retain(x, v, m, u) \in RowType /\ Alike(x, Retain(x, v, m, u))
                           /\ x.latest = Retain(x, v, m, u).latest
    BY <1>2, <1>4, RetainFields
  <1>6. OneEach(T)
    <2> SUFFICES ASSUME NEW y \in T, NEW z \in T, y.vid = z.vid PROVE y = z
      BY DEF OneEach
    <2>1. PICK x \in rows[k] : y = Retain(x, v, m, u)
      OBVIOUS
    <2>2. PICK w \in rows[k] : z = Retain(w, v, m, u)
      OBVIOUS
    <2>3. x.vid = w.vid
      BY <1>5, <2>1, <2>2 DEF Alike
    <2>4. x = w
      BY <1>4, <2>3 DEF OneEach
    <2> QED BY <2>1, <2>2, <2>4
  <1>7. RowsTyped' /\ Shape' /\ RowsStay /\ EtagsStay
    <2>1. \A y \in T : y \in RowType /\ \E x \in rows[k] : Alike(x, y) /\ x.latest = y.latest
      BY <1>5
    <2>2. \A x \in rows[k] : \E y \in T : Alike(x, y) /\ x.latest = y.latest
      BY <1>5
    <2> HIDE DEF T
    <2> QED BY <1>1, <1>2, <1>3, <1>6, <2>1, <2>2, EditStep
  <1>8. Typed'
    BY <1>1, <1>3, <1>7 DEF Typed
  <1>9. Quiet(r)
    BY <1>1, <1>3, <1>7 DEF Quiet, Open, Checks
  <1> QED BY <1>1, <1>2, <1>7, <1>8, <1>9 DEF k, v, m, u

LEMMA LegalHoldStep ==
  ASSUME Typed, Shape, NEW r \in Request, LegalHold(r)
  PROVE  Typed' /\ Shape' /\ Quiet(r) /\ EtagsStay
  <1>1. PICK k \in Key, v \in Request, on \in BOOLEAN :
          /\ Start(r, [Idle EXCEPT !.op = "hold", !.key = k, !.vid = v, !.pc = "done", !.res = "ok"])
          /\ rows' = [rows EXCEPT ![k] = {Hold(x, v, on) : x \in rows[k]}]
          /\ UNCHANGED <<versioning, clock, now, tags, part, disk, doomed>>
    BY DEF LegalHold, Hold
  <1> DEFINE q == [Idle EXCEPT !.op = "hold", !.key = k, !.vid = v, !.pc = "done", !.res = "ok"]
             T == {Hold(x, v, on) : x \in rows[k]}
  <1>2. Opening(q)
    BY IdleType DEF Opening, ReqType, Idle, Dated, Checks, Vid
  <1> HIDE DEF q
  <1>3. /\ ReqTyped' /\ Moves(r) /\ req[r].pc \in Open
        /\ req'[r].pc \notin {"cleanup", "stored"} /\ Checks(req'[r])
    BY <1>1, <1>2, StartStep DEF q
  <1>4. rows[k] \subseteq RowType /\ OneEach(rows[k])
    BY KeyShape
  <1>5. \A x \in rows[k] : Hold(x, v, on) \in RowType /\ Alike(x, Hold(x, v, on))
                           /\ x.latest = Hold(x, v, on).latest
    BY <1>4, HoldFields
  <1>6. OneEach(T)
    <2> SUFFICES ASSUME NEW y \in T, NEW z \in T, y.vid = z.vid PROVE y = z
      BY DEF OneEach
    <2>1. PICK x \in rows[k] : y = Hold(x, v, on)
      OBVIOUS
    <2>2. PICK w \in rows[k] : z = Hold(w, v, on)
      OBVIOUS
    <2>3. x.vid = w.vid
      BY <1>5, <2>1, <2>2 DEF Alike
    <2>4. x = w
      BY <1>4, <2>3 DEF OneEach
    <2> QED BY <2>1, <2>2, <2>4
  <1>7. RowsTyped' /\ Shape' /\ RowsStay /\ EtagsStay
    <2>1. \A y \in T : y \in RowType /\ \E x \in rows[k] : Alike(x, y) /\ x.latest = y.latest
      BY <1>5
    <2>2. \A x \in rows[k] : \E y \in T : Alike(x, y) /\ x.latest = y.latest
      BY <1>5
    <2>3. rows' = [rows EXCEPT ![k] = T]
      BY <1>1
    <2> HIDE DEF T
    <2> QED BY <1>1, <1>3, <1>6, <2>1, <2>2, <2>3, EditStep
  <1>8. Typed'
    BY <1>1, <1>3, <1>7 DEF Typed
  <1>9. Quiet(r)
    BY <1>1, <1>3, <1>7 DEF Quiet
  <1> QED BY <1>1, <1>7, <1>8, <1>9

-----------------------------------------------------------------------------
(* The inductive invariant. *)

Inv == Typed /\ Shape /\ Owned

Known == Versionings \subseteq {"Unversioned", "Enabled", "Suspended"}

LEMMA InitInv ==
  ASSUME Positive, Known, Init
  PROVE  Inv
  <1> USE DEF Init
  <1>1. Typed
    <2>1. req \in [Request -> ReqType] /\ \A r \in Request : req[r] = Idle
      BY IdleType
    <2>2. ReqTyped
      BY <2>1 DEF ReqTyped, Idle, Dated
    <2> QED BY <2>2 DEF Known, Typed, RowsTyped, Vid
  <1>2. Shape
    BY DEF Shape, Indexed, Plain, VidsPast
  <1>3. Owned
    BY DEF Owned, RowsOwn, PartOwns, ClaimsPast, StoredIsThere, Accounted, ResultAtEnd, Idle
  <1> QED BY <1>1, <1>2, <1>3 DEF Inv

\* A put or copy commits; a delete commits; a delete of a version commits.
Commits(r) == \E k \in Key : Installs(r, k, Displaced(k), Added(NewRow(r)))
Deletes(r) == /\ req[r].op = "delete" /\ req[r].pc = "checked"
              /\ \E k \in Key : Drops(r, k, Displaced(k), Markers(r), OldBlob(k))
DropsOne(r) ==
  LET k == req[r].key  v == req[r].vid
  IN  /\ req[r].pc = "checked" /\ req[r].op \in {"deletever", "batch"} /\ k \in Key
      /\ Drops(r, k, Version(k, v), {}, SeenVersion(k, v).blob)

\* The kinds of steps a handler takes.
Kind(r) ==
  \/ Quiet(r) \/ Stores(r) \/ Fails(r) \/ Refuses(r) \/ Cleans(r) \/ PartCommits(r)
  \/ Commits(r) \/ Deletes(r) \/ DropsOne(r)

LEMMA CommitErrorKind ==
  ASSUME Positive, Inv, NEW r \in Request, CommitError(r)
  PROVE  Typed' /\ Shape' /\ Kind(r)
  <1>0. Typed /\ Shape /\ Owned
    BY DEF Inv
  <1>1. /\ req[r].op \in {"put", "copy"} /\ req[r].pc = "stored"
        /\ Finish(r, "error") /\ UNCHANGED <<versioning, clock, now, part, disk>>
        /\ Install(r, req[r].pre, 0) \/ UNCHANGED <<rows, tags, doomed, log>>
    BY DEF CommitError
  <1>2. CASE Install(r, req[r].pre, 0)
    <2>1. 0 \in Vid
      BY DEF Vid
    <2> QED BY <1>0, <1>1, <1>2, <2>1, InstallStep DEF Kind, Commits
  <1>3. CASE UNCHANGED <<rows, tags, doomed, log>>
    <2>1. ReqTyped' /\ Moves(r) /\ req'[r].pc = "done" /\ req'[r].res = "error"
      BY <1>0, <1>1, FinishStep
    <2>2. Typed'
      BY <1>0, <1>1, <1>3, <2>1 DEF Typed, RowsTyped
    <2>3. Shape'
      BY <1>0, <1>1, <1>3, <2>1, ShapeKept
    <2>4. Fails(r)
      BY <1>1, <1>3, <2>1, SameRowsStay DEF Fails
    <2> QED BY <2>2, <2>3, <2>4 DEF Kind
  <1> QED BY <1>1, <1>2, <1>3

LEMMA HandlerKind ==
  ASSUME Positive, Inv, NEW r \in Request, Handler(r)
  PROVE  Typed' /\ Shape' /\ Kind(r)
  <1>0. Typed /\ Shape /\ Owned
    BY DEF Inv
  <1>1. CASE PutCheck(r)
    BY <1>0, <1>1, PutCheckStep DEF Kind
  <1>2. CASE PutBlob(r)
    BY <1>0, <1>2, PutBlobStep DEF Kind
  <1>3. CASE BlobFails(r)
    BY <1>0, <1>3, BlobFailsStep DEF Kind
  <1>4. CASE PutCommit(r)
    <2>1. 0 \in Vid
      BY DEF Vid
    <2> QED BY <1>0, <1>4, <2>1, InstallStep DEF PutCommit, Kind, Commits
  <1>5. CASE PutRefused(r)
    BY <1>0, <1>5, PutRefusedStep DEF Kind
  <1>6. CASE CommitError(r)
    BY <1>6, CommitErrorKind
  <1>7. CASE CopyRead(r)
    BY <1>0, <1>7, CopyReadStep DEF Kind
  <1>8. CASE CopyBlob(r) \/ PartCopyBlob(r)
    BY <1>0, <1>8, CopySourceStep DEF CopyBlob, PartCopyBlob, Kind
  <1>9. CASE CopyCommit(r)
    <2>1. (IF req[r].tags = 0 THEN 0 ELSE r) \in Vid
      BY DEF Vid
    <2> QED BY <1>0, <1>9, <2>1, InstallStep DEF CopyCommit, Kind, Commits
  <1>10. CASE PartCopyRead(r)
    BY <1>0, <1>10, PartCopyReadStep DEF Kind
  <1>11. CASE PartCopyCommit(r)
    BY <1>0, <1>11, PartCopyCommitStep DEF Kind
  <1>12. CASE GetRow(r) \/ GetBlob(r) \/ HeadRow(r)
    BY <1>0, <1>12, GetRowStep, GetBlobStep, HeadRowStep DEF Kind
  <1>13. CASE DeleteCheck(r) \/ VersionDeleteCheck(r) \/ BatchCheck(r)
    BY <1>0, <1>13, DeleteCheckStep, VersionDeleteCheckStep, BatchCheckStep DEF Kind
  <1>14. CASE DeleteCommit(r)
    <2>1. req[r].op = "delete" /\ req[r].pc = "checked"
      BY <1>14 DEF DeleteCommit
    <2> QED BY <1>0, <1>14, <2>1, DeleteCommitStep DEF Kind, Deletes
  <1>15. CASE VersionDeleteCommit(r) \/ BatchCommit(r)
    <2>1. /\ req[r].op \in {"deletever", "batch"} /\ req[r].pc = "checked"
          /\ DropVersion(r, req[r].key, req[r].vid)
          /\ UNCHANGED <<versioning, clock, now, part, disk, doomed>>
      BY <1>15 DEF VersionDeleteCommit, BatchCommit
    <2> QED BY <1>0, <2>1, DropVersionStep DEF Kind, DropsOne
  <1>16. CASE DeleteOldBlob(r)
    BY <1>0, <1>16, DeleteOldBlobStep DEF Kind
  <1>17. CASE TagResolve(r) \/ TagWrite(r)
    BY <1>0, <1>17, TagResolveStep, TagWriteStep DEF Kind
  <1>18. CASE RetentionCheck(r) \/ RetentionWrite(r) \/ LegalHold(r)
    BY <1>0, <1>18, RetentionCheckStep, RetentionWriteStep, LegalHoldStep DEF Kind
  <1> QED BY <1>1, <1>2, <1>3, <1>4, <1>5, <1>6, <1>7, <1>8, <1>9, <1>10, <1>11, <1>12, <1>13, <1>14,
             <1>15, <1>16, <1>17, <1>18 DEF Handler

LEMMA HandlerInv ==
  ASSUME Positive, Inv, NEW r \in Request, Handler(r)
  PROVE  Inv'
  <1>1. Typed /\ Shape /\ Owned /\ Typed' /\ Shape' /\ Kind(r)
    BY HandlerKind DEF Inv
  <1>2. Owned'
    <2>1. CASE Quiet(r) \/ Stores(r) \/ Fails(r)
      BY <1>1, <2>1, QuietOwned, StoresOwned, FailsOwned
    <2>2. CASE Refuses(r) \/ Cleans(r) \/ PartCommits(r)
      BY <1>1, <2>2, RefusesOwned, CleansOwned, PartCommitsOwned
    <2>3. CASE Commits(r)
      BY <1>1, <2>3, InstallsOwned DEF Commits
    <2>4. CASE Deletes(r) \/ DropsOne(r)
      BY <1>1, <2>4, DropsOwned DEF Deletes, DropsOne
    <2> QED BY <1>1, <2>1, <2>2, <2>3, <2>4 DEF Kind
  <1> QED BY <1>1, <1>2 DEF Inv

LEMMA SameOwned ==
  ASSUME Owned, UNCHANGED <<rows, part, disk, doomed, req>>
  PROVE  Owned'
  BY DEF Owned, RowsOwn, PartOwns, ClaimsPast, StoredIsThere, Accounted, ResultAtEnd, Unclaimed, Past

LEMMA StepInv ==
  ASSUME Positive, Known, Inv, [Next]_vars
  PROVE  Inv'
  <1>1. CASE DeleteDisplaced
    <2>1. Typed'
      BY <1>1 DEF DeleteDisplaced, Inv, Typed, RowsTyped, ReqTyped
    <2>2. Shape'
      BY <1>1 DEF DeleteDisplaced, Inv, Shape, Indexed, Plain, VidsPast, Past
    <2> QED BY <1>1, <2>1, <2>2, DisplacedOwned DEF Inv
  <1>2. CASE SetVersioning
    <2>1. PICK s \in Versionings \ {versioning, "Unversioned"} :
            versioning' = s /\ UNCHANGED <<clock, now, rows, tags, part, disk, doomed, req>>
      BY <1>2 DEF SetVersioning
    <2>2. Typed'
      BY <2>1 DEF Known, Inv, Typed, RowsTyped, ReqTyped
    <2>3. Shape'
      BY <2>1 DEF Inv, Shape, Indexed, Plain, VidsPast, Past
    <2>4. Owned'
      BY <2>1, SameOwned DEF Inv
    <2> QED BY <2>2, <2>3, <2>4 DEF Inv
  <1>3. CASE Tick
    <2>1. Typed'
      BY <1>3 DEF Tick, Inv, Typed, RowsTyped, ReqTyped
    <2>2. Shape'
      BY <1>3 DEF Tick, Inv, Shape, Indexed, Plain, VidsPast, Past
    <2>3. Owned'
      BY <1>3, SameOwned DEF Tick, Inv
    <2> QED BY <2>1, <2>2, <2>3 DEF Inv
  <1>4. CASE \E r \in Request : Handler(r)
    BY <1>4, HandlerInv
  <1>5. CASE UNCHANGED vars
    <2>1. Typed'
      BY <1>5 DEF vars, Inv, Typed, RowsTyped, ReqTyped
    <2>2. Shape'
      BY <1>5 DEF vars, Inv, Shape, Indexed, Plain, VidsPast, Past
    <2>3. Owned'
      BY <1>5, SameOwned DEF vars, Inv
    <2> QED BY <2>1, <2>2, <2>3 DEF Inv
  <1> QED BY <1>1, <1>2, <1>3, <1>4, <1>5 DEF Next

LEMMA InvHolds ==
  ASSUME Positive, Known
  PROVE  Spec => []Inv
  BY InitInv, StepInv, PTL DEF Spec

LEMMA AtMostOne ==
  ASSUME NEW S, \A x, y \in S : x = y
  PROVE  Cardinality(S) <= 1
  <1>1. CASE S = {}
    BY <1>1, FS_EmptySet
  <1>2. CASE S # {}
    <2>1. PICK x \in S : TRUE
      BY <1>2
    <2>2. S = {x}
      BY <2>1
    <2> QED BY <2>2, FS_Singleton
  <1> QED BY <1>1, <1>2

\* The table of objects keeps its unique indexes under every interleaving of
\* the handlers: one row per version and one latest row per key.
THEOREM TypesHold ==
  ASSUME Positive, Known
  PROVE  Spec => []TypeOK
  <1>1. ASSUME Inv PROVE TypeOK
    <2>1. ASSUME NEW k \in Key
          PROVE  /\ rows[k] \subseteq RowType
                 /\ Cardinality(Latest(k)) <= 1
                 /\ \A v \in Vid : Cardinality(Version(k, v)) <= 1
      <3>1. rows[k] \subseteq RowType /\ Index(rows[k])
        BY <1>1, KeyShape DEF Inv
      <3>2. Cardinality(Latest(k)) <= 1
        BY <3>1, AtMostOne DEF Latest, Index
      <3>3. \A v \in Vid : Cardinality(Version(k, v)) <= 1
        BY <3>1, AtMostOne DEF Version, Index
      <3> QED BY <3>1, <3>2, <3>3
    <2> QED BY <1>1, <2>1 DEF Inv, Typed, TypeOK, Vid
  <1> QED BY <1>1, InvHolds, PTL

\* No cleanup of a handler takes a blob that a row or the part names.
THEOREM BlobsStay ==
  ASSUME Positive, Known
  PROVE  Spec => []RowHasBlob
  <1>1. ASSUME Inv PROVE RowHasBlob
    BY <1>1 DEF Inv, Owned, RowsOwn, PartOwns, RowHasBlob
  <1> QED BY <1>1, InvHolds, PTL

\* No path of the handlers forgets a blob.
THEOREM NothingForgotten ==
  ASSUME Positive, Known
  PROVE  Spec => []NoBlobForgotten
  <1>1. ASSUME Inv PROVE NoBlobForgotten
    <2> SUFFICES ASSUME doomed = {}, \A r \in Request : req[r].pc \in {"idle", "done"}, NEW b \in disk
                 PROVE  \/ \E k \in Key : \E x \in rows[k] : x.blob = b
                        \/ part = b
                        \/ req[b].res = "error"
      BY DEF NoBlobForgotten
    <2>1. b \in Request
      BY <1>1 DEF Inv, Typed
    <2> QED BY <1>1, <2>1, AccountedCases DEF Inv, Owned, Held
  <1> QED BY <1>1, InvHolds, PTL

-----------------------------------------------------------------------------
(* Locks bind deletes, in a bucket that is always versioned. *)

AlwaysEnabled == Versionings = {"Enabled"}

\* Retain-until dates are points of the clock.
Dates == Untils \subseteq Nat

LEMMA DateNat ==
  ASSUME Dates, NEW u \in Untils \cup {0}
  PROVE  u \in Nat
  BY DEF Dates

Named == versioning = "Enabled" /\ RowsAreNamed /\ CheckedIsNamed

LEMMA PastOp ==
  ASSUME NEW r \in Request, Moves(r), NEW b, Past(b)
  PROVE  req'[b].op = req[b].op
  <1>1. CASE b = r
    BY <1>1 DEF Moves, Past
  <1>2. CASE b # r
    BY <1>2 DEF Moves, Past
  <1> QED BY <1>1, <1>2

\* Row y is the version request r has made.
NamedAfter(r, y) ==
  /\ y.vid = r /\ r # 0 /\ Dated(y)
  /\ IF y.marker THEN req'[r].op = "delete" ELSE y.blob = r /\ req'[r].op \in {"put", "copy"}

LEMMA RowsNamedStep ==
  ASSUME Shape, RowsAreNamed, NEW r \in Request, Moves(r),
         \A k \in Key : \A y \in rows'[k] : (\E x \in rows[k] : Alike(x, y)) \/ NamedAfter(r, y)
  PROVE  RowsAreNamed'
  <1> SUFFICES ASSUME NEW k \in Key, NEW y \in rows'[k]
               PROVE  /\ y.vid # 0 /\ Dated(y)
                      /\ IF y.marker THEN req'[y.vid].op = "delete"
                         ELSE y.vid = y.blob /\ req'[y.vid].op \in {"put", "copy"}
    BY DEF RowsAreNamed, Dated
  <1>1. CASE \E x \in rows[k] : Alike(x, y)
    <2>1. PICK x \in rows[k] : Alike(x, y)
      BY <1>1
    <2>2. /\ x.vid # 0 /\ Dated(x)
          /\ IF x.marker THEN req[x.vid].op = "delete"
             ELSE x.vid = x.blob /\ req[x.vid].op \in {"put", "copy"}
      BY DEF RowsAreNamed, Dated
    <2>3. Past(x.vid)
      BY <2>2 DEF Shape, VidsPast
    <2>4. req'[x.vid].op = req[x.vid].op
      BY <2>3, PastOp
    <2>5. x.vid = y.vid /\ x.blob = y.blob /\ x.marker = y.marker /\ Dated(y)
      BY <2>1, <2>2 DEF Alike
    <2> QED BY <2>2, <2>4, <2>5
  <1>2. CASE NamedAfter(r, y)
    BY <1>2 DEF NamedAfter
  <1> QED BY <1>1, <1>2

\* A lock check has seen a version that keeps its name.
LEMMA LockCheckedNamed ==
  ASSUME Dates, Typed, Shape, RowsAreNamed, NEW q, NEW k \in Key, LockChecked(q, k), q.vid # 0
  PROVE  LET x == q.row IN
           /\ x.vid = q.vid /\ Past(x.vid)
           /\ IF x.marker THEN req[x.vid].op = "delete"
              ELSE /\ x.vid = x.blob /\ ~x.hold
                   /\ q.op = "batch" => x.until <= now
  <1> DEFINE x == q.row
  <1>1. Version(k, q.vid) # {}
    BY DEF LockChecked, ExistingVid, Version
  <1>2. x \in Version(k, q.vid) /\ x \in RowType
    BY <1>1, SeenRow DEF LockChecked
  <1>3. x \in rows[k] /\ x.vid = q.vid
    BY <1>2 DEF Version
  <1> HIDE DEF x
  <1>4. Past(x.vid)
    BY <1>3 DEF Shape, VidsPast
  <1>5. /\ Dated(x) /\ IF x.marker THEN req[x.vid].op = "delete" ELSE x.vid = x.blob
    BY <1>3 DEF RowsAreNamed, Dated
  <1>6. ASSUME ~x.marker
        PROVE  ~x.hold /\ (q.op = "batch" => x.until <= now)
    <2>1. ~x.hold /\ (q.op = "batch" => LockAllowsDeleteBatch(x))
      BY <1>2, <1>6 DEF LockChecked
    <2>2. ASSUME q.op = "batch" PROVE x.until <= now
      <3>1. ~(x.mode # "none" /\ now < x.until)
        BY <2>1, <2>2 DEF LockAllowsDeleteBatch, Retained
      <3>2. x.until \in Lasts /\ now \in Nat
        BY <1>2, RowFields DEF Typed
      <3>3. PICK u : u = x.until
        OBVIOUS
      <3>4. u \in Untils \cup {0}
        BY <3>2, <3>3 DEF Lasts
      <3>5. u \in Nat
        BY <3>4, DateNat
      <3>6. u = 0 \/ ~(now < u)
        BY <1>5, <3>1, <3>3 DEF Dated
      <3>7. u <= now
        BY <3>2, <3>5, <3>6
      <3> QED BY <3>3, <3>7
    <2> QED BY <2>1, <2>2
  <1> QED BY <1>3, <1>4, <1>5, <1>6 DEF x

LEMMA CheckedNamedStep ==
  ASSUME Dates, Typed, Shape, RowsAreNamed, CheckedIsNamed, NEW r \in Request, Moves(r),
         now' = now, Checks(req'[r])
  PROVE  CheckedIsNamed'
  <1> SUFFICES ASSUME NEW s \in Request, req'[s].pc = "checked", req'[s].op \in {"deletever", "batch"},
                      req'[s].vid # 0
               PROVE  (LET x == req[s].row IN
                        /\ x.vid = req[s].vid /\ Past(x.vid)
                        /\ IF x.marker THEN req[x.vid].op = "delete"
                           ELSE /\ x.vid = x.blob /\ ~x.hold
                                /\ req[s].op = "batch" => x.until <= now)'
    BY DEF CheckedIsNamed
  <1>1. PICK q : q = req'[s]
    OBVIOUS
  <1>2. PICK x : x = q.row
    OBVIOUS
  <1>3. /\ x.vid = q.vid /\ Past(x.vid)
        /\ IF x.marker THEN req[x.vid].op = "delete"
           ELSE /\ x.vid = x.blob /\ ~x.hold
                /\ q.op = "batch" => x.until <= now
    <2>1. CASE s = r
      <3>1. PICK k \in Key : LockChecked(q, k)
        BY <1>1, <2>1 DEF Checks
      <3> QED BY <1>1, <1>2, <3>1, LockCheckedNamed
    <2>2. CASE s # r
      <3>1. q = req[s]
        BY <1>1, <2>2 DEF Moves
      <3> QED BY <1>1, <1>2, <3>1 DEF CheckedIsNamed
    <2> QED BY <2>1, <2>2
  <1>4. Past(x.vid)' /\ req'[x.vid].op = req[x.vid].op
    BY <1>3, PastKept, PastOp
  <1> QED BY <1>1, <1>2, <1>3, <1>4 DEF Past

LEMMA HandlerNamed ==
  ASSUME Positive, Dates, Inv, Named, NEW r \in Request, Handler(r)
  PROVE  Named'
  <1>0. Typed /\ Shape /\ Owned /\ versioning = "Enabled" /\ RowsAreNamed /\ CheckedIsNamed
    BY DEF Inv, Named
  <1>1. Kind(r)
    BY HandlerKind
  <1>2. r # 0 /\ VidOf(r) = r
    BY <1>0 DEF Positive, VidOf
  <1>3. CASE Quiet(r) \/ Stores(r) \/ Fails(r) \/ Refuses(r) \/ Cleans(r) \/ PartCommits(r)
    <2>1. Moves(r) /\ Checks(req'[r]) /\ UNCHANGED <<versioning, now>>
      BY <1>3 DEF Quiet, Stores, Fails, Refuses, Cleans, PartCommits, Checks
    <2>2. RowsStay
      BY <1>3, SameRowsStay DEF Quiet, Stores, Fails, Refuses, Cleans, PartCommits
    <2>3. \A k \in Key : \A y \in rows'[k] : \E x \in rows[k] : Alike(x, y)
      BY <2>2 DEF RowsStay, Trades
    <2>4. RowsAreNamed'
      BY <1>0, <2>1, <2>3, RowsNamedStep
    <2>5. CheckedIsNamed'
      BY <1>0, <2>1, CheckedNamedStep
    <2> QED BY <1>0, <2>1, <2>4, <2>5 DEF Named
  <1>4. ASSUME NEW k \in Key, NEW Gone, NEW N, RowsChange(k, Gone, N), Moves(r), req'[r].pc # "checked",
               UNCHANGED <<versioning, now>>,
               \A x \in N : NamedAfter(r, x)
        PROVE  Named'
    <2>1. ASSUME NEW l \in Key, NEW y \in rows'[l]
          PROVE  (\E x \in rows[l] : Alike(x, y)) \/ NamedAfter(r, y)
      <3>1. CASE l # k
        BY <1>4, <3>1 DEF RowsChange, Alike
      <3>2. CASE l = k
        <4>1. PICK x \in (rows[k] \ Gone) \cup N : Alike(x, y)
          BY <1>4, <3>2 DEF RowsChange, Trades
        <4>2. CASE x \in N
          BY <1>4, <4>1, <4>2 DEF NamedAfter, Alike
        <4> QED BY <3>2, <4>1, <4>2
      <3> QED BY <3>1, <3>2
    <2>2. RowsAreNamed'
      BY <1>0, <1>4, <2>1, RowsNamedStep
    <2>3. CheckedIsNamed'
      BY <1>0, <1>4, CheckedNamedStep DEF Checks
    <2> QED BY <1>0, <1>4, <2>2, <2>3 DEF Named
  <1>5. CASE Commits(r)
    <2>1. PICK k \in Key : Installs(r, k, Displaced(k), Added(NewRow(r)))
      BY <1>5 DEF Commits
    <2>2. NamedAfter(r, Added(NewRow(r)))
      BY <1>2, <2>1 DEF Installs, NamedAfter, Moves
    <2> QED BY <1>4, <2>1, <2>2 DEF Installs
  <1>6. CASE Deletes(r)
    <2>1. PICK k \in Key : Drops(r, k, Displaced(k), Markers(r), OldBlob(k))
      BY <1>6 DEF Deletes
    <2>2. req'[r].op = "delete"
      BY <1>6, <2>1 DEF Deletes, Drops, Moves
    <2>3. \A x \in Markers(r) : NamedAfter(r, x)
      BY <1>2, <2>1, <2>2 DEF Drops, NamedAfter
    <2> QED BY <1>4, <2>1, <2>3 DEF Drops
  <1>7. CASE DropsOne(r)
    <2> DEFINE k == req[r].key  v == req[r].vid
    <2>1. k \in Key /\ Drops(r, k, Version(k, v), {}, SeenVersion(k, v).blob)
      BY <1>7 DEF DropsOne
    <2> HIDE DEF k, v
    <2> QED BY <1>4, <2>1 DEF Drops
  <1> QED BY <1>1, <1>3, <1>5, <1>6, <1>7 DEF Kind

LEMMA StepNamed ==
  ASSUME Positive, Dates, AlwaysEnabled, Inv, Named, [Next]_vars
  PROVE  Named'
  <1>1. CASE \E r \in Request : Handler(r)
    BY <1>1, HandlerNamed
  <1>2. CASE SetVersioning
    BY <1>2 DEF SetVersioning, AlwaysEnabled, Named
  <1>3. CASE DeleteDisplaced
    BY <1>3 DEF DeleteDisplaced, Named, RowsAreNamed, CheckedIsNamed, Past
  <1>4. CASE UNCHANGED vars
    BY <1>4 DEF vars, Named, RowsAreNamed, CheckedIsNamed, Past
  <1>5. CASE Tick
    <2>1. now' = now + 1 /\ UNCHANGED <<versioning, rows, req>> /\ now \in Nat
      BY <1>5 DEF Tick, Inv, Typed
    <2>2. RowsAreNamed'
      BY <2>1 DEF Named, RowsAreNamed
    <2>3. CheckedIsNamed'
      <3> SUFFICES ASSUME NEW s \in Request, req[s].pc = "checked", req[s].op \in {"deletever", "batch"},
                          req[s].vid # 0
                   PROVE  LET x == req[s].row IN
                            /\ x.vid = req[s].vid /\ Past(x.vid)
                            /\ IF x.marker THEN req[x.vid].op = "delete"
                               ELSE /\ x.vid = x.blob /\ ~x.hold
                                    /\ req[s].op = "batch" => x.until <= now'
        BY <2>1 DEF CheckedIsNamed, Past
      <3>1. PICK x : x = req[s].row
        OBVIOUS
      <3>2. /\ x.vid = req[s].vid /\ Past(x.vid)
            /\ IF x.marker THEN req[x.vid].op = "delete"
               ELSE /\ x.vid = x.blob /\ ~x.hold
                    /\ req[s].op = "batch" => x.until <= now
        BY <3>1 DEF Named, CheckedIsNamed
      <3>3. x.until <= now => x.until <= now'
        <4>1. PICK u : u = x.until
          OBVIOUS
        <4>2. u \in Nat
          <5>1. req[s] \in ReqType
            BY DEF Inv, Typed, ReqTyped
          <5>2. x \in RowType
            BY <3>1, <5>1 DEF ReqType
          <5>3. u \in Untils \cup {0}
            BY <4>1, <5>2, RowFields DEF Lasts
          <5> QED BY <5>3, DateNat
        <4>3. u <= now => u <= now'
          BY <2>1, <4>2
        <4> QED BY <4>1, <4>3
      <3> QED BY <3>1, <3>2, <3>3
    <2> QED BY <2>1, <2>2, <2>3 DEF Named
  <1> QED BY <1>1, <1>2, <1>3, <1>4, <1>5 DEF Next

LEMMA InitNamed ==
  ASSUME AlwaysEnabled, Init
  PROVE  Named
  <1>1. \A r \in Request : req[r].pc = "idle"
    BY DEF Init, Idle
  <1> QED BY <1>1 DEF AlwaysEnabled, Init, Named, RowsAreNamed, CheckedIsNamed

\* A version leaves its key only by a delete of that version.
LEMMA HandlerLock ==
  ASSUME Positive, Inv, Named, NEW r \in Request, Handler(r),
         NEW k \in Key, NEW x \in rows[k], ~x.marker, \A y \in rows'[k] : y.vid # x.vid
  PROVE  /\ req[r].pc = "checked" /\ req[r].vid = x.vid /\ req[r].row.blob = x.blob
         /\ \/ req[r].op = "batch" /\ ~req[r].row.hold /\ req[r].row.until <= now
            \/ req[r].op = "deletever" /\ ~req[r].row.hold
  <1>0. Typed /\ Shape /\ versioning = "Enabled" /\ RowsAreNamed /\ CheckedIsNamed
    BY DEF Inv, Named
  <1>1. ASSUME NEW l \in Key, NEW Gone, NEW N, RowsChange(l, Gone, N)
        PROVE  l = k /\ x \in Gone
    <2>1. CASE l # k
      BY <1>1, <2>1 DEF RowsChange
    <2>2. CASE l = k /\ x \notin Gone
      BY <1>1, <2>2 DEF RowsChange, Trades, Alike
    <2> QED BY <2>1, <2>2
  <1>2. Displaced(k) = {}
    BY <1>0 DEF Displaced
  <1>3. ~(Quiet(r) \/ Stores(r) \/ Fails(r) \/ Refuses(r) \/ Cleans(r) \/ PartCommits(r))
    <2> SUFFICES ASSUME Quiet(r) \/ Stores(r) \/ Fails(r) \/ Refuses(r) \/ Cleans(r) \/ PartCommits(r)
                 PROVE  FALSE
      OBVIOUS
    <2>1. RowsStay
      BY SameRowsStay DEF Quiet, Stores, Fails, Refuses, Cleans, PartCommits
    <2>2. PICK y \in rows'[k] : Alike(x, y)
      BY <2>1 DEF RowsStay, Trades
    <2> QED BY <2>2 DEF Alike
  <1>4. ~Commits(r)
    <2> SUFFICES ASSUME NEW l \in Key, Installs(r, l, Displaced(l), Added(NewRow(r))) PROVE FALSE
      BY DEF Commits
    <2>1. l = k /\ x \in Displaced(l)
      BY <1>1 DEF Installs
    <2> QED BY <1>2, <2>1
  <1>5. ~Deletes(r)
    <2> SUFFICES ASSUME NEW l \in Key, Drops(r, l, Displaced(l), Markers(r), OldBlob(l)) PROVE FALSE
      BY DEF Deletes
    <2>1. l = k /\ x \in Displaced(l)
      BY <1>1 DEF Drops
    <2> QED BY <1>2, <2>1
  <1>6. DropsOne(r)
    BY <1>3, <1>4, <1>5, HandlerKind DEF Kind
  <1> DEFINE l == req[r].key  v == req[r].vid  w == req[r].row
  <1>7. /\ req[r].pc = "checked" /\ req[r].op \in {"deletever", "batch"} /\ l \in Key
        /\ RowsChange(l, Version(l, v), {})
    BY <1>6 DEF DropsOne, Drops
  <1> HIDE DEF l, v, w
  <1>8. x \in Version(k, v)
    BY <1>1, <1>7
  <1>9. /\ x.vid = v /\ x.vid # 0 /\ x.vid = x.blob /\ req[x.vid].op \in {"put", "copy"}
    BY <1>0, <1>8 DEF Version, RowsAreNamed
  <1>10. /\ w.vid = v
         /\ IF w.marker THEN req[w.vid].op = "delete"
            ELSE /\ w.vid = w.blob /\ ~w.hold
                 /\ req[r].op = "batch" => w.until <= now
    BY <1>0, <1>7, <1>9 DEF CheckedIsNamed, w, v
  <1>11. ~w.marker
    BY <1>9, <1>10
  <1> QED BY <1>7, <1>9, <1>10, <1>11 DEF w, v

\* A version under a legal hold or a retention leaves a bucket that is always
\* versioned only by a delete of that version whose own lock check found it free.
THEOREM LocksBind ==
  ASSUME Positive, Dates, AlwaysEnabled
  PROVE  Spec => LockBindsDeletes
  <1>0. Known
    BY DEF AlwaysEnabled, Known
  <1>1. ASSUME Inv, Named, [Next]_vars PROVE [LockBindsDeletesStep]_vars
    <2> SUFFICES ASSUME ~UNCHANGED vars PROVE LockBindsDeletesStep
      OBVIOUS
    <2> SUFFICES ASSUME NEW k \in Key, NEW x \in rows[k], ~x.marker, \A y \in rows'[k] : y.vid # x.vid
                 PROVE  \E r \in Request :
                          /\ req[r].pc = "checked" /\ req[r].vid = x.vid
                          /\ req[r].row.blob = x.blob
                          /\ \/ req[r].op = "batch" /\ ~req[r].row.hold /\ req[r].row.until <= now
                             \/ req[r].op = "deletever" /\ ~req[r].row.hold
      BY DEF LockBindsDeletesStep
    <2>1. rows' # rows
      OBVIOUS
    <2>2. PICK r \in Request : Handler(r)
      BY <1>1, <2>1 DEF Next, DeleteDisplaced, SetVersioning, Tick
    <2> QED BY <1>1, <2>2, HandlerLock
  <1>2. Spec => []Inv
    BY <1>0, InvHolds
  <1>3. Spec => [](Inv /\ Named)
    BY <1>2, InitNamed, StepNamed, PTL DEF Spec
  <1> QED BY <1>1, <1>3, PTL DEF Spec, LockBindsDeletes

-----------------------------------------------------------------------------
(* Conditional writes are atomic. *)

\* Where the rows after a step of request r come from: they were there, or are
\* the new row of a commit of r, or a new delete marker.
LEMMA RowsFrom ==
  ASSUME Positive, Inv, NEW r \in Request, Handler(r), NEW k \in Key, NEW y \in rows'[k]
  PROVE  \/ \E x \in rows[k] : Alike(x, y)
         \/ ~y.marker /\ y.blob = r /\ y.vid = VidOf(r) /\ Commits(r)
         \/ y.marker /\ y.etag = 0
  <1>0. Typed /\ Shape /\ Owned
    BY DEF Inv
  <1>1. Kind(r)
    BY HandlerKind
  <1>2. CASE Quiet(r) \/ Stores(r) \/ Fails(r) \/ Refuses(r) \/ Cleans(r) \/ PartCommits(r)
    <2>1. RowsStay
      BY <1>2, SameRowsStay DEF Quiet, Stores, Fails, Refuses, Cleans, PartCommits
    <2> QED BY <2>1 DEF RowsStay, Trades
  <1>3. ASSUME NEW l \in Key, NEW Gone, NEW N, RowsChange(l, Gone, N)
        PROVE  (\E x \in rows[k] : Alike(x, y)) \/ \E x \in N : Alike(x, y)
    <2>1. CASE l # k
      BY <1>3, <2>1 DEF RowsChange, Alike
    <2>2. CASE l = k
      BY <1>3, <2>2 DEF RowsChange, Trades
    <2> QED BY <2>1, <2>2
  <1>4. CASE Commits(r)
    <2>1. PICK l \in Key : Installs(r, l, Displaced(l), Added(NewRow(r)))
      BY <1>4 DEF Commits
    <2>2. /\ RowsChange(l, Displaced(l), {Added(NewRow(r))})
          /\ Added(NewRow(r)).vid = VidOf(r) /\ Added(NewRow(r)).blob = r /\ ~Added(NewRow(r)).marker
      BY <2>1 DEF Installs
    <2> QED BY <1>3, <1>4, <2>2 DEF Alike
  <1>5. CASE Deletes(r)
    <2>1. PICK l \in Key : Drops(r, l, Displaced(l), Markers(r), OldBlob(l))
      BY <1>5 DEF Deletes
    <2>2. RowsChange(l, Displaced(l), Markers(r))
      BY <2>1 DEF Drops
    <2>3. \A x \in Markers(r) : x.marker /\ x.etag = 0
      BY <1>0, MarkerFields DEF Markers
    <2> QED BY <1>3, <2>2, <2>3 DEF Alike
  <1>6. CASE DropsOne(r)
    <2> DEFINE l == req[r].key  v == req[r].vid
    <2>1. l \in Key /\ RowsChange(l, Version(l, v), {})
      BY <1>6 DEF DropsOne, Drops
    <2> HIDE DEF l, v
    <2> QED BY <1>3, <2>1
  <1> QED BY <1>1, <1>2, <1>4, <1>5, <1>6 DEF Kind

LEMMA EtagInType ==
  ASSUME NEW S \in SUBSET RowType
  PROVE  EtagIn(S) \in Vid
  <1> DEFINE seen == {x \in S : x.latest /\ ~x.marker}
  <1>1. CASE seen = {}
    BY <1>1 DEF EtagIn, Vid
  <1>2. CASE seen # {}
    <2>1. (CHOOSE x \in seen : TRUE) \in seen
      BY <1>2, ChosenIn
    <2>2. PICK x : x = (CHOOSE y \in seen : TRUE)
      OBVIOUS
    <2>3. x \in RowType
      BY <2>1, <2>2
    <2>4. x.etag \in Vid
      BY <2>3, RowFields DEF Vid
    <2>5. EtagIn(S) = x.etag
      BY <1>2, <2>2 DEF EtagIn
    <2> QED BY <2>4, <2>5
  <1> QED BY <1>1, <1>2

\* A transaction of r on k with a precondition; it held if the transaction
\* decided what clients see.
Writes(r, k, pre, top) ==
  /\ k \in Key /\ pre \in Pre /\ top \in BOOLEAN
  /\ Logged(r, k, pre, top)
  /\ \A l \in Key : l # k => rows'[l] = rows[l]
  /\ pre \in Request /\ top => EtagIn(rows[k]) = pre

WritesSome(r) == \E k, pre, top : Writes(r, k, pre, top)

LEMMA InstallWrites ==
  ASSUME Typed, Shape, NEW r \in Request, NEW pre \in Pre, NEW t, req[r].key \in Key, Install(r, pre, t)
  PROVE  WritesSome(r)
  <1> DEFINE k == req[r].key  top == \E x \in rows'[k] : x.latest /\ x.blob = r
  <1>1. /\ WriteAllowed(Current(k), pre)
        /\ rows' = [rows EXCEPT ![k] = Installed(k, NewRow(r))]
        /\ Logged(r, k, pre, top)
    BY DEF Install
  <1>2. top \in BOOLEAN
    OBVIOUS
  <1> HIDE DEF k, top
  <1>3. k \in Key
    BY DEF k
  <1>4. \A l \in Key : l # k => rows'[l] = rows[l]
    BY <1>1 DEF Typed, RowsTyped
  <1>5. ASSUME pre \in Request PROVE EtagIn(rows[k]) = pre
    <2>1. PICK x \in Current(k) : x.etag = pre
      BY <1>1, <1>5 DEF WriteAllowed
    <2>2. x \in rows[k] /\ x.latest /\ ~x.marker /\ Index(rows[k])
      BY <1>3, KeyShape DEF Current
    <2> QED BY <2>1, <2>2, EtagInIs
  <1> QED BY <1>1, <1>2, <1>3, <1>4, <1>5 DEF Writes, WritesSome

LEMMA DropWrites ==
  ASSUME Typed, NEW r \in Request, NEW k \in Key, NEW v, DropVersion(r, k, v)
  PROVE  WritesSome(r)
  <1>1. Writes(r, k, NoPre, FALSE)
    BY DEF DropVersion, Writes, Typed, RowsTyped, Pre
  <1> QED BY <1>1 DEF WritesSome

LEMMA DeleteWrites ==
  ASSUME Positive, Typed, Shape, MarkersBare, NEW r \in Request, DeleteCommit(r)
  PROVE  WritesSome(r) \/ UNCHANGED <<rows, tags, log>>
  <1> DEFINE k == req[r].key  pre == req[r].pre  top == Latest(k) # {}
  <1>1. k \in Key /\ pre \in Pre
    <2>1. req[r] \in ReqType
      BY DEF Typed, ReqTyped
    <2> QED BY <2>1 DEF DeleteCommit, Typed, ReqTyped, ReqType
  <1>2. CASE DeleteAllowed(Latest(k), pre)
    <2>1. rows' = [rows EXCEPT ![k] = DeletedLatest(k, r)] /\ Logged(r, k, pre, top)
      BY <1>2 DEF DeleteCommit
    <2>2. top \in BOOLEAN
      OBVIOUS
    <2>3. top => \E x \in rows[k] : x.latest
      BY DEF Latest
    <2> HIDE DEF k, pre, top
    <2>4. \A l \in Key : l # k => rows'[l] = rows[l]
      BY <2>1 DEF Typed, RowsTyped
    <2>5. ASSUME pre \in Request, top PROVE EtagIn(rows[k]) = pre
      <3>1. PICK x \in rows[k] : x.latest
        BY <2>3, <2>5
      <3>2. x.etag = pre
        BY <1>2, <2>5, <3>1 DEF DeleteAllowed, Latest
      <3>3. pre # 0
        BY <2>5 DEF Positive
      <3>4. ~x.marker
        BY <1>1, <3>2, <3>3 DEF MarkersBare
      <3>5. Index(rows[k])
        BY <1>1, KeyShape
      <3> QED BY <3>1, <3>2, <3>4, <3>5, EtagInIs
    <2>6. Writes(r, k, pre, top)
      BY <1>1, <2>1, <2>2, <2>4, <2>5 DEF Writes
    <2> QED BY <2>6 DEF WritesSome
  <1>3. CASE ~DeleteAllowed(Latest(k), pre)
    BY <1>3 DEF DeleteCommit
  <1> QED BY <1>2, <1>3

LEMMA TagWrites ==
  ASSUME Typed, NEW r \in Request, TagWrite(r)
  PROVE  WritesSome(r)
  <1>1. req[r].key \in Key
    BY DEF TagWrite, Typed, ReqTyped
  <1>2. Writes(r, req[r].key, NoPre, FALSE)
    <2>1. rows' = rows /\ Logged(r, req[r].key, NoPre, FALSE) /\ NoPre \in Pre
      BY DEF TagWrite, Pre
    <2> QED BY <1>1, <2>1 DEF Writes
  <1> QED BY <1>2 DEF WritesSome

LEMMA HandlerLog ==
  ASSUME Positive, Inv, MarkersBare, NEW r \in Request, Handler(r)
  PROVE  WritesSome(r) \/ (log' = log /\ EtagsStay)
  <1>0. Typed /\ Shape /\ Owned
    BY DEF Inv
  <1>1. ASSUME rows' = rows PROVE EtagsStay
    BY <1>1 DEF EtagsStay
  <1>2. NoPre \in Pre /\ req[r].pre \in Pre
    <2>1. req[r] \in ReqType
      BY <1>0 DEF Typed, ReqTyped
    <2> QED BY <2>1 DEF ReqType, Pre
  <1>3. CASE PutCheck(r) \/ PutBlob(r) \/ BlobFails(r) \/ PutRefused(r)
    BY <1>1, <1>3 DEF PutCheck, PutBlob, BlobFails, PutRefused
  <1>4. CASE PutCommit(r) \/ CopyCommit(r) \/ CommitError(r)
    <2>1. req[r].key \in Key
      BY <1>0, <1>4 DEF PutCommit, CopyCommit, CommitError, Typed, ReqTyped
    <2>2. CASE PutCommit(r)
      BY <1>0, <1>2, <2>1, <2>2, InstallWrites DEF PutCommit
    <2>3. CASE CopyCommit(r)
      BY <1>0, <1>2, <2>1, <2>3, InstallWrites DEF CopyCommit
    <2>4. CASE CommitError(r)
      <3>1. Install(r, req[r].pre, 0) \/ UNCHANGED <<rows, log>>
        BY <2>4 DEF CommitError
      <3> QED BY <1>0, <1>1, <1>2, <2>1, <3>1, InstallWrites
    <2> QED BY <1>4, <2>2, <2>3, <2>4
  <1>5. CASE CopyRead(r) \/ PartCopyRead(r) \/ PartCopyCommit(r)
    BY <1>1, <1>5 DEF CopyRead, PartCopyRead, PartCopyCommit
  <1>6. CASE CopyBlob(r) \/ PartCopyBlob(r)
    BY <1>1, <1>6 DEF CopyBlob, PartCopyBlob
  <1>7. CASE GetRow(r) \/ GetBlob(r) \/ HeadRow(r)
    BY <1>1, <1>7 DEF GetRow, GetBlob, HeadRow
  <1>8. CASE DeleteCheck(r) \/ VersionDeleteCheck(r) \/ BatchCheck(r)
    BY <1>1, <1>8 DEF DeleteCheck, VersionDeleteCheck, BatchCheck
  <1>9. CASE DeleteCommit(r)
    BY <1>0, <1>1, <1>9, DeleteWrites
  <1>10. CASE VersionDeleteCommit(r) \/ BatchCommit(r)
    <2>1. DropVersion(r, req[r].key, req[r].vid) /\ req[r].key \in Key
      BY <1>0, <1>10 DEF VersionDeleteCommit, BatchCommit, Typed, ReqTyped
    <2> QED BY <1>0, <2>1, DropWrites
  <1>11. CASE DeleteOldBlob(r) \/ TagResolve(r) \/ RetentionCheck(r)
    BY <1>1, <1>11 DEF DeleteOldBlob, TagResolve, RetentionCheck
  <1>12. CASE TagWrite(r)
    BY <1>0, <1>12, TagWrites
  <1>13. CASE RetentionWrite(r)
    <2>1. log' = log
      BY <1>13 DEF RetentionWrite
    <2> QED BY <1>0, <1>13, <2>1, RetentionWriteStep
  <1>14. CASE LegalHold(r)
    <2>1. log' = log
      BY <1>14 DEF LegalHold
    <2> QED BY <1>0, <1>14, <2>1, LegalHoldStep
  <1> QED BY <1>3, <1>4, <1>5, <1>6, <1>7, <1>8, <1>9, <1>10, <1>11, <1>12, <1>13, <1>14 DEF Handler

LogType == [by : Request, key : Key, pre : Pre, top : BOOLEAN, etag : Vid]

\* The log is right and tells what clients see now.
Story == log \in Seq(LogType) /\ MarkersBare /\ LogIsCurrent /\ NoLostUpdate

LEMMA MarkersBareStep ==
  ASSUME Positive, Inv, MarkersBare, NEW r \in Request, Handler(r)
  PROVE  MarkersBare'
  <1> SUFFICES ASSUME NEW k \in Key, NEW y \in rows'[k], y.marker PROVE y.etag = 0
    BY DEF MarkersBare
  <1>1. \/ \E x \in rows[k] : Alike(x, y)
        \/ y.marker /\ y.etag = 0
    BY RowsFrom
  <1> QED BY <1>1 DEF MarkersBare, Alike

LEMMA Appended ==
  ASSUME NEW E, log \in Seq(E), NEW e \in E, log' = Append(log, e)
  PROVE  /\ log' \in Seq(E) /\ Len(log) \in Nat /\ Len(log') = Len(log) + 1
         /\ DOMAIN log = 1..Len(log) /\ DOMAIN log' = 1..(Len(log) + 1)
         /\ log'[Len(log) + 1] = e
         /\ \A i \in DOMAIN log : i \in DOMAIN log' /\ log'[i] = log[i]
         /\ \A i \in DOMAIN log' : i \in DOMAIN log \/ i = Len(log) + 1
  OBVIOUS

LEMMA WritesStory ==
  ASSUME Typed', Story, NEW r \in Request, NEW k, NEW pre, NEW top, Writes(r, k, pre, top)
  PROVE  log' \in Seq(LogType) /\ LogIsCurrent' /\ NoLostUpdate'
  <1> DEFINE n == Len(log) + 1
             e == [by |-> r, key |-> k, pre |-> pre, top |-> top, etag |-> EtagIn(rows'[k])]
  <1>1. /\ k \in Key /\ pre \in Pre /\ top \in BOOLEAN /\ log' = Append(log, e)
        /\ \A l \in Key : l # k => rows'[l] = rows[l]
        /\ pre \in Request /\ top => EtagIn(rows[k]) = pre
    BY DEF Writes, Logged
  <1>2. EtagIn(rows'[k]) \in Vid
    <2>1. rows'[k] \subseteq RowType
      BY <1>1 DEF Typed, RowsTyped
    <2> QED BY <2>1, EtagInType
  <1>3. /\ e \in LogType /\ e.key = k /\ e.pre = pre /\ e.top = top /\ e.etag = EtagIn(rows'[k])
    BY <1>1, <1>2 DEF LogType
  <1> HIDE DEF e
  <1>4. log \in Seq(LogType)
    BY DEF Story
  <1>5. /\ log' \in Seq(LogType) /\ Len(log) \in Nat /\ Len(log') = n
        /\ DOMAIN log = 1..Len(log) /\ DOMAIN log' = 1..n
        /\ log'[n] = e
        /\ \A i \in DOMAIN log : i \in DOMAIN log' /\ log'[i] = log[i]
        /\ \A i \in DOMAIN log' : i \in DOMAIN log \/ i = n
    BY <1>1, <1>3, <1>4, Appended
  <1>6. \A i \in DOMAIN log : log[i].key \in Key
    <2>1. \A i \in DOMAIN log : log[i] \in LogType
      BY <1>4
    <2> QED BY <2>1 DEF LogType
  <1>7. LogIsCurrent'
    <2> SUFFICES ASSUME NEW i \in DOMAIN log'
                 PROVE  \E m \in i..Len(log') :
                          log'[m].key = log'[i].key /\ log'[m].etag = EtagIn(rows'[log'[i].key])
      BY DEF LogIsCurrent
    <2>1. CASE log'[i].key = k
      BY <1>3, <1>5, <2>1
    <2>2. CASE log'[i].key # k
      <3>1. i \in DOMAIN log /\ log'[i] = log[i] /\ log[i].key # k /\ log[i].key \in Key
        BY <1>3, <1>5, <1>6, <2>2
      <3>2. PICK m \in i..Len(log) : log[m].key = log[i].key /\ log[m].etag = EtagIn(rows[log[i].key])
        BY <3>1 DEF Story, LogIsCurrent
      <3>3. m \in DOMAIN log /\ m \in i..Len(log')
        BY <1>5, <3>1, <3>2
      <3>4. log'[m] = log[m] /\ rows'[log[i].key] = rows[log[i].key]
        BY <1>1, <1>5, <3>1, <3>3
      <3> QED BY <3>1, <3>2, <3>3, <3>4
    <2> QED BY <2>1, <2>2
  <1>8. NoLostUpdate'
    <2> SUFFICES ASSUME NEW i \in DOMAIN log', NEW j \in DOMAIN log',
                        i < j, log'[i].key = log'[j].key, log'[i].pre \in Request,
                        log'[j].pre = log'[i].pre, log'[i].top, log'[j].top
                 PROVE  \E m \in i..(j-1) : log'[m].key = log'[j].key /\ log'[m].etag = log'[j].pre
      BY DEF NoLostUpdate
    <2>1. i \in DOMAIN log /\ log'[i] = log[i] /\ i \in Nat /\ j \in Nat
      BY <1>5
    <2>2. CASE j \in DOMAIN log
      <3>1. log'[j] = log[j]
        BY <1>5, <2>2
      <3>2. PICK m \in i..(j-1) : log[m].key = log[j].key /\ log[m].etag = log[j].pre
        BY <2>1, <2>2, <3>1 DEF Story, NoLostUpdate
      <3>3. m \in DOMAIN log
        BY <1>5, <2>1, <2>2, <3>2
      <3> QED BY <1>5, <3>1, <3>2, <3>3
    <2>3. CASE j = n
      <3>1. log'[j] = e
        BY <1>5, <2>3
      <3>2. EtagIn(rows[k]) = pre /\ log[i].key = k
        BY <1>1, <1>3, <2>1, <3>1
      <3>3. PICK m \in i..Len(log) : log[m].key = log[i].key /\ log[m].etag = EtagIn(rows[log[i].key])
        BY <2>1 DEF Story, LogIsCurrent
      <3>4. m \in DOMAIN log /\ m \in i..(j-1)
        BY <1>5, <2>1, <2>3, <3>3
      <3>5. log'[m] = log[m]
        BY <1>5, <3>4
      <3> QED BY <1>3, <3>1, <3>2, <3>3, <3>4, <3>5
    <2> QED BY <1>5, <2>2, <2>3
  <1> QED BY <1>5, <1>7, <1>8

LEMMA SilentStory ==
  ASSUME Story, log' = log, EtagsStay
  PROVE  log' \in Seq(LogType) /\ LogIsCurrent' /\ NoLostUpdate'
  <1>1. \A i \in DOMAIN log : log[i].key \in Key
    <2>1. \A i \in DOMAIN log : log[i] \in LogType
      BY DEF Story
    <2> QED BY <2>1 DEF LogType
  <1>2. LogIsCurrent'
    <2> SUFFICES ASSUME NEW i \in DOMAIN log
                 PROVE  \E m \in i..Len(log) :
                          log[m].key = log[i].key /\ log[m].etag = EtagIn(rows'[log[i].key])
      BY DEF LogIsCurrent
    <2>1. EtagIn(rows'[log[i].key]) = EtagIn(rows[log[i].key])
      BY <1>1 DEF EtagsStay
    <2> QED BY <2>1 DEF Story, LogIsCurrent
  <1> QED BY <1>2 DEF Story, NoLostUpdate

LEMMA StepStory ==
  ASSUME Positive, Known, Inv, Story, [Next]_vars
  PROVE  Story'
  <1>1. CASE \E r \in Request : Handler(r)
    <2>1. PICK r \in Request : Handler(r)
      BY <1>1
    <2>2. MarkersBare /\ MarkersBare'
      BY <2>1, MarkersBareStep DEF Story
    <2>3. Typed'
      BY <2>1, HandlerKind
    <2>4. CASE WritesSome(r)
      BY <2>2, <2>3, <2>4, WritesStory DEF WritesSome, Story
    <2>5. CASE log' = log /\ EtagsStay
      BY <2>2, <2>5, SilentStory DEF Story
    <2> QED BY <2>1, <2>2, <2>4, <2>5, HandlerLog
  <1>2. CASE UNCHANGED <<rows, log>>
    BY <1>2 DEF Story, MarkersBare, LogIsCurrent, NoLostUpdate
  <1> QED BY <1>1, <1>2 DEF Next, DeleteDisplaced, SetVersioning, Tick, vars

\* Conditional writes and deletes are atomic: of two on one key with one etag,
\* the second follows a transaction that made the etag current again.
THEOREM NoUpdateLost ==
  ASSUME Positive, Known
  PROVE  Spec => []NoLostUpdate
  <1>1. ASSUME Init PROVE Story
    BY <1>1 DEF Init, Story, MarkersBare, LogIsCurrent, NoLostUpdate
  <1>2. Spec => [](Inv /\ Story)
    BY <1>1, InvHolds, StepStory, PTL DEF Spec
  <1>3. Story => NoLostUpdate
    BY DEF Story
  <1> QED BY <1>2, <1>3, PTL

-----------------------------------------------------------------------------
(* A new object has no tags of the object it replaced. *)

\* The invariant of the tags, in terms of the log.
Tagged == LoggedOnce /\ RowsLogged /\ TagsLogged /\ TagsNotInherited

LEMMA PlaceIs ==
  ASSUME LoggedOnce, NEW i \in DOMAIN log
  PROVE  Place(log[i].by) = i
  <1>1. \A j \in DOMAIN log : log[j].by = log[i].by <=> j = i
    BY DEF LoggedOnce
  <1> QED BY <1>1 DEF Place

\* No object of rows' is new but one of request r, and that one has no tags
\* but those r gave it.
Fresh(r) ==
  \A k \in Key : \A y \in rows'[k] :
    ~y.marker => (\E x \in rows[k] : Alike(x, y)) \/ (y.blob = r /\ tags'[k][y.vid] \in {0, r})

\* No tags are new but those of request r.
TagsFrom(r) ==
  \A k \in Key : \A v \in Vid :
    \/ tags'[k][v] \in {0, tags[k][v]}
    \/ tags'[k][v] = r /\ (v = 0 \/ Past(v)')

\* No object of rows' is new.
OldOnly == \A k \in Key : \A y \in rows'[k] : ~y.marker => \E x \in rows[k] : Alike(x, y)

LEMMA OldRows ==
  ASSUME Positive, Inv, NEW r \in Request, Handler(r), req[r].pc # "stored"
  PROVE  OldOnly /\ Fresh(r)
  <1>1. ~Commits(r)
    BY DEF Commits, Installs
  <1>2. OldOnly
    BY <1>1, RowsFrom DEF OldOnly
  <1> QED BY <1>2 DEF OldOnly, Fresh

LEMMA InstallTags ==
  ASSUME Positive, Inv, TagsLogged, NEW r \in Request, Handler(r), req[r].key \in Key,
         NEW pre, NEW t \in {0, r}, Install(r, pre, t), ~Past(r), Past(r)'
  PROVE  Fresh(r) /\ TagsFrom(r)
  <1> DEFINE k == req[r].key
  <1>0. Typed /\ Shape
    BY DEF Inv
  <1>1. /\ rows' = [rows EXCEPT ![k] = Installed(k, NewRow(r))]
        /\ tags' = TagsInstalled(k, VidOf(r), t)
    BY DEF Install
  <1>2. k \in Key
    OBVIOUS
  <1> HIDE DEF k
  <1>3. tags \in [Key -> [Vid -> Vid]] /\ VidOf(r) \in Vid /\ 0 \in Vid /\ r \in Vid /\ r # 0
    BY <1>0 DEF Typed, Vid, VidOf, Positive
  <1>4. tags[k][r] = 0
    BY <1>2, <1>3 DEF TagsLogged
  <1>5. \A l \in Key : l # k => rows'[l] = rows[l] /\ tags'[l] = tags[l]
    BY <1>0, <1>1, <1>2, <1>3 DEF Typed, RowsTyped, TagsInstalled
  <1>6. /\ tags'[k][VidOf(r)] \in {0, r}
        /\ \A v \in Vid : v # VidOf(r) => tags'[k][v] \in {0, tags[k][v]}
    <2>1. CASE versioning = "Unversioned"
      <3>1. tags'[k] = [u \in Vid |-> IF u = VidOf(r) THEN t ELSE 0]
        BY <1>1, <1>2, <1>3, <2>1 DEF TagsInstalled
      <3> QED BY <1>3, <3>1
    <2>2. CASE versioning = "Enabled" /\ t = 0
      <3>1. tags' = tags /\ VidOf(r) = r
        BY <1>1, <2>2 DEF TagsInstalled, VidOf
      <3> QED BY <1>4, <3>1
    <2>3. CASE versioning # "Unversioned" /\ ~(versioning = "Enabled" /\ t = 0)
      <3>1. tags' = [tags EXCEPT ![k][VidOf(r)] = t]
        BY <1>1, <2>3 DEF TagsInstalled
      <3> QED BY <1>2, <1>3, <3>1
    <2> QED BY <2>1, <2>2, <2>3
  <1>7. Fresh(r)
    <2> SUFFICES ASSUME NEW l \in Key, NEW y \in rows'[l], ~y.marker
                 PROVE  (\E x \in rows[l] : Alike(x, y)) \/ (y.blob = r /\ tags'[l][y.vid] \in {0, r})
      BY DEF Fresh
    <2>1. CASE l # k
      <3>1. y \in rows[l]
        BY <1>5, <2>1
      <3> QED BY <3>1 DEF Alike
    <2>2. CASE l = k
      <3>1. (\E x \in rows[l] : Alike(x, y)) \/ (y.blob = r /\ y.vid = VidOf(r))
        BY RowsFrom
      <3> QED BY <1>6, <2>2, <3>1
    <2> QED BY <2>1, <2>2
  <1>8. TagsFrom(r)
    <2> SUFFICES ASSUME NEW l \in Key, NEW v \in Vid
                 PROVE  \/ tags'[l][v] \in {0, tags[l][v]}
                        \/ tags'[l][v] = r /\ (v = 0 \/ Past(v)')
      BY DEF TagsFrom
    <2>1. CASE l # k
      BY <1>5, <2>1
    <2>2. CASE l = k /\ v # VidOf(r)
      BY <1>6, <2>2
    <2>3. CASE l = k /\ v = VidOf(r)
      <3>1. v = 0 \/ v = r
        BY <2>3 DEF VidOf
      <3> QED BY <1>6, <2>3, <3>1
    <2> QED BY <2>1, <2>2, <2>3
  <1> QED BY <1>7, <1>8

\* A transaction of r and what it does to the tags.
TagsMove(r) == Fresh(r) /\ TagsFrom(r) /\ WritesSome(r) /\ ~Past(r) /\ Past(r)'

LEMMA CommitTags ==
  ASSUME Positive, Inv, TagsLogged, NEW r \in Request, Handler(r),
         NEW pre \in Pre, NEW t \in {0, r}, Install(r, pre, t),
         req[r].pc = "stored", req[r].op \in {"put", "copy"}, NEW res \in {"ok", "refused", "error"}, Finish(r, res)
  PROVE  TagsMove(r)
  <1>1. Typed /\ Shape /\ Owned
    BY DEF Inv
  <1>2. req[r].key \in Key
    BY <1>1 DEF Typed, ReqTyped
  <1>3. ~Past(r) /\ Past(r)'
    <2>1. req'[r].pc = "done"
      BY <1>1, FinishStep
    <2> QED BY <2>1 DEF Past
  <1>4. WritesSome(r)
    BY <1>1, <1>2, InstallWrites
  <1> QED BY <1>2, <1>3, <1>4, InstallTags DEF TagsMove

LEMMA DeleteEnds ==
  ASSUME Typed, Shape, Owned, NEW r \in Request, DeleteCommit(r)
  PROVE  req'[r].pc \in {"cleanup", "done"}
  <1> DEFINE k == req[r].key
  <1>1. req[r].pc = "checked" /\ req[r].op = "delete"
    BY DEF DeleteCommit
  <1>2. k \in Key
    BY <1>1 DEF Typed, ReqTyped
  <1>3. \/ req' = [req EXCEPT ![r].pc = "cleanup", ![r].old = OldBlob(k)]
        \/ Finish(r, "refused")
    BY DEF DeleteCommit, OldBlob
  <1>4. OldBlob(k) \in Vid
    BY <1>2, OldBlobIs
  <1> HIDE DEF k
  <1> QED BY <1>1, <1>3, <1>4, HandedStep, FinishStep

LEMMA HandlerTags ==
  ASSUME Positive, Inv, MarkersBare, TagsLogged, NEW r \in Request, Handler(r)
  PROVE  TagsMove(r) \/ (OldOnly /\ UNCHANGED <<tags, log>>)
  <1>0. Typed /\ Shape /\ Owned
    BY DEF Inv
  <1>1. /\ NoPre \in Pre /\ req[r].pre \in Pre
        /\ tags \in [Key -> [Vid -> Vid]] /\ 0 \in Vid /\ req[r].vid \in Vid
    <2>1. req[r] \in ReqType
      BY <1>0 DEF Typed, ReqTyped
    <2> QED BY <1>0, <2>1 DEF ReqType, Pre, Typed, Vid
  <1>2. ASSUME req[r].pc = "checked", req'[r].pc \in {"cleanup", "done"} PROVE ~Past(r) /\ Past(r)'
    BY <1>2 DEF Past
  <1>3. ASSUME rows' = rows PROVE OldOnly
    BY <1>3 DEF OldOnly, Alike
  <1>4. CASE PutCommit(r)
    <2>1. Install(r, req[r].pre, 0) /\ Finish(r, "ok") /\ req[r].op = "put" /\ req[r].pc = "stored"
      BY <1>4 DEF PutCommit
    <2> QED BY <1>1, <2>1, CommitTags
  <1>5. CASE CopyCommit(r)
    <2> DEFINE t == IF req[r].tags = 0 THEN 0 ELSE r
    <2>1. Install(r, NoPre, t) /\ Finish(r, "ok") /\ req[r].op = "copy" /\ req[r].pc = "stored"
      BY <1>5 DEF CopyCommit
    <2>2. t \in {0, r}
      OBVIOUS
    <2> HIDE DEF t
    <2> QED BY <1>1, <2>1, <2>2, CommitTags
  <1>6. CASE CommitError(r)
    <2>1. /\ Finish(r, "error") /\ req[r].op \in {"put", "copy"} /\ req[r].pc = "stored"
          /\ Install(r, req[r].pre, 0) \/ UNCHANGED <<rows, tags, log>>
      BY <1>6 DEF CommitError
    <2>2. CASE Install(r, req[r].pre, 0)
      BY <1>1, <2>1, <2>2, CommitTags
    <2> QED BY <1>3, <2>1, <2>2
  <1>7. CASE DeleteCommit(r)
    <2> DEFINE k == req[r].key
    <2>1. req[r].pc = "checked" /\ k \in Key
      BY <1>0, <1>7 DEF DeleteCommit, Typed, ReqTyped
    <2>2. Fresh(r)
      BY <2>1, OldRows
    <2>3. tags' = TagsDeletedLatest(k) \/ tags' = tags
      BY <1>7 DEF DeleteCommit
    <2>4. ~Past(r) /\ Past(r)'
      BY <1>0, <1>2, <1>7, <2>1, DeleteEnds
    <2> HIDE DEF k
    <2>5. TagsFrom(r)
      BY <1>1, <2>1, <2>3 DEF TagsFrom, TagsDeletedLatest
    <2>6. WritesSome(r) \/ UNCHANGED <<rows, tags, log>>
      BY <1>0, <1>7, DeleteWrites
    <2> QED BY <1>3, <2>2, <2>4, <2>5, <2>6 DEF TagsMove
  <1>8. CASE VersionDeleteCommit(r) \/ BatchCommit(r)
    <2> DEFINE k == req[r].key  v == req[r].vid
    <2>1. /\ DropVersion(r, k, v) /\ k \in Key /\ v \in Vid /\ req[r].pc = "checked"
          /\ req[r].op # "partcopy" /\ UNCHANGED <<versioning, clock, now, part, disk, doomed>>
      BY <1>0, <1>1, <1>8 DEF VersionDeleteCommit, BatchCommit, Typed, ReqTyped
    <2>2. Fresh(r)
      BY <2>1, OldRows
    <2>3. tags' = IF Version(k, v) = {} THEN tags ELSE [tags EXCEPT ![k][v] = 0]
      BY <2>1 DEF DropVersion
    <2>4. req'[r].pc = "cleanup"
      BY <1>0, <2>1, DropVersionStep DEF Drops
    <2> HIDE DEF k, v
    <2>5. TagsFrom(r)
      BY <1>1, <2>1, <2>3 DEF TagsFrom
    <2>6. WritesSome(r)
      BY <1>0, <2>1, DropWrites
    <2> QED BY <1>2, <2>1, <2>2, <2>4, <2>5, <2>6 DEF TagsMove
  <1>9. CASE TagWrite(r)
    <2> DEFINE k == req[r].key  t == IF req[r].op = "tag" THEN r ELSE 0
    <2>0. PICK v : v = req[r].vid
      OBVIOUS
    <2>1. /\ req[r].pc = "checked" /\ k \in Key /\ tags' = [tags EXCEPT ![k][v] = t]
          /\ Finish(r, "ok") /\ t \in {0, r} /\ (v = 0 \/ Past(v))
      BY <1>0, <1>9, <2>0 DEF TagWrite, Typed, ReqTyped, TagsLogged
    <2>2. Fresh(r)
      BY <2>1, OldRows
    <2>3. Moves(r) /\ req'[r].pc = "done"
      BY <1>0, <2>1, FinishStep
    <2>4. v \in Vid
      BY <1>1, <2>0
    <2> HIDE DEF k, t
    <2>5. v = 0 \/ Past(v)'
      BY <2>1, <2>3, PastKept
    <2>6. TagsFrom(r)
      BY <1>1, <2>1, <2>4, <2>5 DEF TagsFrom
    <2>7. WritesSome(r)
      BY <1>0, <1>9, TagWrites
    <2> QED BY <1>2, <2>1, <2>2, <2>3, <2>6, <2>7 DEF TagsMove
  <1>10. CASE PutCheck(r) \/ PutBlob(r) \/ BlobFails(r) \/ PutRefused(r)
    BY <1>3, <1>10 DEF PutCheck, PutBlob, BlobFails, PutRefused
  <1>11. CASE CopyRead(r) \/ PartCopyRead(r) \/ PartCopyCommit(r) \/ CopyBlob(r) \/ PartCopyBlob(r)
    BY <1>3, <1>11 DEF CopyRead, PartCopyRead, PartCopyCommit, CopyBlob, PartCopyBlob
  <1>12. CASE GetRow(r) \/ GetBlob(r) \/ HeadRow(r)
    BY <1>3, <1>12 DEF GetRow, GetBlob, HeadRow
  <1>13. CASE DeleteCheck(r) \/ VersionDeleteCheck(r) \/ BatchCheck(r)
    BY <1>3, <1>13 DEF DeleteCheck, VersionDeleteCheck, BatchCheck
  <1>14. CASE DeleteOldBlob(r) \/ TagResolve(r) \/ RetentionCheck(r)
    BY <1>3, <1>14 DEF DeleteOldBlob, TagResolve, RetentionCheck
  <1>15. CASE RetentionWrite(r)
    <2>1. UNCHANGED <<tags, log>> /\ req[r].pc = "checked"
      BY <1>15 DEF RetentionWrite
    <2> QED BY <2>1, OldRows
  <1>16. CASE LegalHold(r)
    <2>1. UNCHANGED <<tags, log>> /\ req[r].pc = "idle"
      BY <1>16 DEF LegalHold, Start
    <2> QED BY <2>1, OldRows
  <1> QED BY <1>4, <1>5, <1>6, <1>7, <1>8, <1>9, <1>10, <1>11, <1>12, <1>13, <1>14, <1>15, <1>16
      DEF Handler

LEMMA InLogKept ==
  ASSUME NEW b, InLog(b), NEW e, log \in Seq(LogType), e \in LogType, log' = Append(log, e)
  PROVE  InLog(b)'
  <1>1. PICK i \in DOMAIN log : log[i].by = b
    BY DEF InLog
  <1>2. i \in DOMAIN log' /\ log'[i] = log[i]
    BY Appended
  <1> QED BY <1>1, <1>2 DEF InLog

\* After a transaction of r, requests keep their places and r has the last one.
LEMMA LoggedPlaces ==
  ASSUME Typed', Tagged, log \in Seq(LogType), NEW r \in Request, Moves(r), WritesSome(r), ~Past(r), Past(r)'
  PROVE  /\ LoggedOnce' /\ InLog(r)' /\ Place(r)' \in Nat
         /\ \A b : InLog(b) => InLog(b)' /\ Place(b)' = Place(b)
         /\ \A b : InLog(b) => Place(b)' \in Nat /\ Place(r)' >= Place(b)'
  <1>1. PICK e \in LogType : log' = Append(log, e) /\ e.by = r
    <2>1. PICK k, pre, top : Writes(r, k, pre, top)
      BY DEF WritesSome
    <2> DEFINE e == [by |-> r, key |-> k, pre |-> pre, top |-> top, etag |-> EtagIn(rows'[k])]
    <2>2. k \in Key /\ pre \in Pre /\ top \in BOOLEAN /\ log' = Append(log, e)
      BY <2>1 DEF Writes, Logged
    <2>3. EtagIn(rows'[k]) \in Vid
      <3>1. rows'[k] \subseteq RowType
        BY <2>2 DEF Typed, RowsTyped
      <3> QED BY <3>1, EtagInType
    <2>4. e \in LogType /\ e.by = r
      BY <2>2, <2>3 DEF LogType
    <2> HIDE DEF e
    <2> QED BY <2>2, <2>4
  <1> DEFINE n == Len(log) + 1
  <1>2. /\ Len(log) \in Nat
        /\ DOMAIN log = 1..Len(log) /\ DOMAIN log' = 1..n
        /\ log'[n] = e
        /\ \A i \in DOMAIN log : i \in DOMAIN log' /\ log'[i] = log[i]
        /\ \A i \in DOMAIN log' : i \in DOMAIN log \/ i = n
    BY <1>1, Appended
  <1>3. \A i \in DOMAIN log : Past(log[i].by) /\ log[i].by # r
    BY DEF Tagged, LoggedOnce
  <1>4. LoggedOnce'
    <2>1. ASSUME NEW i \in DOMAIN log' PROVE (Past(log[i].by))'
      <3>1. CASE i = n
        BY <1>1, <1>2, <3>1
      <3>2. CASE i \in DOMAIN log
        <4>1. PICK b : b = log[i].by
          OBVIOUS
        <4>2. Past(b)'
          BY <1>3, <3>2, <4>1, PastKept
        <4> QED BY <1>2, <3>2, <4>1, <4>2
      <3> QED BY <1>2, <3>1, <3>2
    <2>2. ASSUME NEW i \in DOMAIN log', NEW j \in DOMAIN log', log'[i].by = log'[j].by PROVE i = j
      <3>1. CASE i \in DOMAIN log /\ j \in DOMAIN log
        BY <1>2, <2>2, <3>1 DEF Tagged, LoggedOnce
      <3>2. CASE i = n /\ j \in DOMAIN log
        BY <1>1, <1>2, <1>3, <2>2, <3>2
      <3>3. CASE i \in DOMAIN log /\ j = n
        BY <1>1, <1>2, <1>3, <2>2, <3>3
      <3> QED BY <1>2, <3>1, <3>2, <3>3
    <2> QED BY <2>1, <2>2 DEF LoggedOnce
  <1>5. InLog(r)' /\ Place(r)' = n
    <2>1. n \in DOMAIN log' /\ log'[n].by = r
      BY <1>1, <1>2
    <2>2. \A j \in DOMAIN log' : log'[j].by = r <=> j = n
      BY <1>4, <2>1 DEF LoggedOnce
    <2> QED BY <2>1, <2>2 DEF InLog, Place
  <1>6. ASSUME NEW b, InLog(b)
        PROVE  InLog(b)' /\ Place(b)' = Place(b) /\ Place(b)' \in Nat /\ Place(r)' >= Place(b)'
    <2>1. PICK i \in DOMAIN log : log[i].by = b
      BY <1>6 DEF InLog
    <2>2. Place(b) = i
      BY <2>1, PlaceIs DEF Tagged
    <2>3. i \in DOMAIN log' /\ log'[i].by = b
      BY <1>2, <2>1
    <2>4. \A j \in DOMAIN log' : log'[j].by = b <=> j = i
      BY <1>4, <2>3 DEF LoggedOnce
    <2>5. Place(b)' = i /\ InLog(b)'
      BY <2>3, <2>4 DEF Place, InLog
    <2> QED BY <1>2, <1>5, <2>2, <2>5
  <1> QED BY <1>2, <1>4, <1>5, <1>6

\* A tagging request is about a version that exists or has existed.
LEMMA ResolvedStep ==
  ASSUME Positive, Inv, TagsLogged, NEW r \in Request, Handler(r)
  PROVE  /\ Moves(r)
         /\ \A s \in Request : req'[s].pc = "checked" /\ req'[s].op \in {"tag", "untag"} =>
              req'[s].vid = 0 \/ (Past(req[s].vid))'
  <1>1. Moves(r) /\ Checks(req'[r])
    BY HandlerKind DEF Kind, Quiet, Stores, Fails, Refuses, Cleans, PartCommits, Commits, Deletes,
                       DropsOne, Installs, Drops, Checks
  <1>2. ASSUME NEW s \in Request, req'[s].pc = "checked", req'[s].op \in {"tag", "untag"}
        PROVE  req'[s].vid = 0 \/ (Past(req[s].vid))'
    <2>1. PICK v : v = req'[s].vid
      OBVIOUS
    <2>2. v = 0 \/ Past(v)
      <3>1. CASE s = r
        BY <1>1, <1>2, <2>1, <3>1 DEF Checks
      <3>2. CASE s # r
        BY <1>1, <1>2, <2>1, <3>2 DEF Moves, TagsLogged
      <3> QED BY <3>1, <3>2
    <2>3. v = 0 \/ Past(v)'
      BY <1>1, <2>2, PastKept
    <2> QED BY <2>1, <2>3
  <1> QED BY <1>1, <1>2

LEMMA MoveTagged ==
  ASSUME Positive, Inv, Inv', Tagged, log \in Seq(LogType), NEW r \in Request, Handler(r), TagsMove(r)
  PROVE  Tagged'
  <1>0. Typed /\ Typed' /\ Moves(r)
    BY ResolvedStep DEF Inv, Tagged
  <1>1. /\ LoggedOnce' /\ InLog(r)' /\ Place(r)' \in Nat
        /\ \A b : InLog(b) => InLog(b)' /\ Place(b)' = Place(b)
        /\ \A b : InLog(b) => Place(b)' \in Nat /\ Place(r)' >= Place(b)'
    BY <1>0, LoggedPlaces DEF TagsMove
  <1>2. Fresh(r) /\ TagsFrom(r)
    BY DEF TagsMove
  <1>3. RowsLogged'
    <2> SUFFICES ASSUME NEW k \in Key, NEW y \in rows'[k], ~y.marker PROVE InLog(y.blob)'
      BY DEF RowsLogged, InLog
    <2>1. CASE y.blob = r
      BY <1>1, <2>1 DEF InLog
    <2>2. CASE y.blob # r
      <3>1. PICK x \in rows[k] : Alike(x, y)
        BY <1>2, <2>2 DEF Fresh
      <3>2. PICK b : b = y.blob
        OBVIOUS
      <3>3. InLog(b)
        BY <3>1, <3>2 DEF Alike, Tagged, RowsLogged
      <3>4. InLog(b)'
        BY <1>1, <3>3
      <3> QED BY <3>2, <3>4 DEF InLog
    <2> QED BY <2>1, <2>2
  <1>4. ASSUME NEW k \in Key, NEW v \in Vid, NEW t, t = tags'[k][v], t # 0
        PROVE  InLog(t)' /\ (v = 0 \/ Past(v)')
    <2>1. CASE t = r /\ (v = 0 \/ Past(v)')
      BY <1>1, <2>1
    <2>2. CASE t = tags[k][v]
      <3>1. InLog(t) /\ (v = 0 \/ Past(v))
        BY <1>4, <2>2 DEF Tagged, TagsLogged
      <3>2. v = 0 \/ Past(v)'
        BY <1>0, <3>1, PastKept
      <3> QED BY <1>1, <3>1, <3>2
    <2> QED BY <1>2, <1>4, <2>1, <2>2 DEF TagsFrom
  <1>5. TagsLogged'
    <2>1. \A k \in Key : \A v \in Vid : tags'[k][v] # 0 => (InLog(tags[k][v]))' /\ (v = 0 \/ Past(v)')
      <3> SUFFICES ASSUME NEW k \in Key, NEW v \in Vid, tags'[k][v] # 0
                   PROVE  (InLog(tags[k][v]))' /\ (v = 0 \/ Past(v)')
        OBVIOUS
      <3>1. PICK t : t = tags'[k][v]
        OBVIOUS
      <3>2. InLog(t)' /\ (v = 0 \/ Past(v)')
        BY <1>4, <3>1
      <3> QED BY <3>1, <3>2 DEF InLog
    <2>2. \A s \in Request : req'[s].pc = "checked" /\ req'[s].op \in {"tag", "untag"} =>
            req'[s].vid = 0 \/ (Past(req[s].vid))'
      BY ResolvedStep DEF Tagged
    <2> QED BY <2>1, <2>2 DEF TagsLogged
  <1>6. TagsNotInherited'
    <2> SUFFICES ASSUME NEW k \in Key, NEW y \in rows'[k], ~y.marker, NEW t, t = tags'[k][y.vid], t # 0
                 PROVE  Place(t)' >= Place(y.blob)'
      BY DEF TagsNotInherited, Place
    <2>1. PICK v : v = y.vid
      OBVIOUS
    <2>2. v \in Vid
      <3>1. y \in RowType
        BY <1>0 DEF Typed, RowsTyped
      <3> QED BY <2>1, <3>1, RowFields DEF Vid
    <2>3. CASE y.blob = r /\ t = r
      BY <1>1, <2>3
    <2>4. CASE \E x \in rows[k] : Alike(x, y)
      <3>1. PICK x \in rows[k] : Alike(x, y)
        BY <2>4
      <3>2. PICK b : b = y.blob
        OBVIOUS
      <3>3. InLog(b) /\ x.vid = v /\ x.blob = b /\ ~x.marker
        BY <2>1, <3>1, <3>2 DEF Alike, Tagged, RowsLogged
      <3>4. CASE t = r
        BY <1>1, <3>2, <3>3, <3>4
      <3>5. CASE t = tags[k][v]
        <4>1. InLog(t)
          BY <2>2, <3>5 DEF Tagged, TagsLogged
        <4>2. Place(t) >= Place(b)
          BY <3>3, <3>5 DEF Tagged, TagsNotInherited
        <4>3. Place(t)' = Place(t) /\ Place(b)' = Place(b)
          BY <1>1, <3>3, <4>1
        <4> QED BY <3>2, <4>2, <4>3
      <3> QED BY <1>2, <2>1, <2>2, <3>4, <3>5 DEF TagsFrom
    <2> QED BY <1>2, <2>3, <2>4 DEF Fresh
  <1> QED BY <1>1, <1>3, <1>5, <1>6 DEF Tagged

\* A step that writes no object and no tags.
LEMMA StillTagged ==
  ASSUME Tagged, NEW r \in Request, Moves(r), OldOnly, UNCHANGED <<tags, log>>,
         \A s \in Request : req'[s].pc = "checked" /\ req'[s].op \in {"tag", "untag"} =>
           req'[s].vid = 0 \/ (Past(req[s].vid))'
  PROVE  Tagged'
  <1>1. \A b : Past(b) => Past(b)'
    BY PastKept
  <1>2. \A b : (InLog(b) => InLog(b)') /\ Place(b)' = Place(b)
    BY DEF InLog, Place
  <1>3. LoggedOnce'
    <2>1. \A i \in DOMAIN log : (Past(log[i].by))'
      <3> SUFFICES ASSUME NEW i \in DOMAIN log PROVE (Past(log[i].by))'
        OBVIOUS
      <3>1. PICK b : b = log[i].by
        OBVIOUS
      <3>2. Past(b)'
        BY <1>1, <3>1 DEF Tagged, LoggedOnce
      <3> QED BY <3>1, <3>2
    <2> QED BY <2>1 DEF Tagged, LoggedOnce
  <1>4. RowsLogged' /\ TagsNotInherited'
    <2>1. ASSUME NEW k \in Key, NEW y \in rows'[k], ~y.marker
          PROVE  InLog(y.blob) /\ (tags[k][y.vid] # 0 => Place(tags[k][y.vid]) >= Place(y.blob))
      <3>1. PICK x \in rows[k] : Alike(x, y)
        BY <2>1 DEF OldOnly
      <3>2. x.blob = y.blob /\ x.vid = y.vid /\ ~x.marker
        BY <2>1, <3>1 DEF Alike
      <3> QED BY <3>2 DEF Tagged, RowsLogged, TagsNotInherited
    <2> QED BY <2>1 DEF RowsLogged, TagsNotInherited, InLog, Place
  <1>5. TagsLogged'
    <2>1. \A k \in Key : \A v \in Vid : tags[k][v] # 0 => InLog(tags[k][v]) /\ (v = 0 \/ Past(v)')
      BY <1>1 DEF Tagged, TagsLogged
    <2> QED BY <2>1 DEF TagsLogged, InLog
  <1> QED BY <1>3, <1>4, <1>5 DEF Tagged

LEMMA StepTagged ==
  ASSUME Positive, Known, Inv, Story, Tagged, [Next]_vars
  PROVE  Tagged'
  <1>1. CASE \E r \in Request : Handler(r)
    <2>1. PICK r \in Request : Handler(r)
      BY <1>1
    <2>2. TagsMove(r) \/ (OldOnly /\ UNCHANGED <<tags, log>>)
      BY <2>1, HandlerTags DEF Story, Tagged
    <2>3. /\ Moves(r)
          /\ \A s \in Request : req'[s].pc = "checked" /\ req'[s].op \in {"tag", "untag"} =>
               req'[s].vid = 0 \/ (Past(req[s].vid))'
      BY <2>1, ResolvedStep DEF Tagged
    <2>4. Inv'
      BY <2>1, HandlerInv
    <2> QED BY <2>1, <2>2, <2>3, <2>4, MoveTagged, StillTagged DEF Story
  <1>2. CASE UNCHANGED <<rows, tags, req, log>>
    BY <1>2 DEF Tagged, LoggedOnce, RowsLogged, TagsLogged, TagsNotInherited, InLog, Place, Past
  <1> QED BY <1>1, <1>2 DEF Next, DeleteDisplaced, SetVersioning, Tick, vars

\* A new object never shows the tags of the object it replaced, whatever
\* tagging request was under way.
THEOREM NoTagsInherited ==
  ASSUME Positive, Known
  PROVE  Spec => []TagsNotInherited
  <1>1. ASSUME Init PROVE Story /\ Tagged
    <2>1. \A r \in Request : req[r].pc = "idle"
      BY <1>1 DEF Init, Idle
    <2>2. Story
      BY <1>1 DEF Init, Story, MarkersBare, LogIsCurrent, NoLostUpdate
    <2>3. Tagged
      BY <1>1, <2>1 DEF Init, Tagged, LoggedOnce, RowsLogged, TagsLogged, TagsNotInherited
    <2> QED BY <2>2, <2>3
  <1>2. Spec => [](Inv /\ Story /\ Tagged)
    BY <1>1, InvHolds, StepStory, StepTagged, PTL DEF Spec
  <1>3. Tagged => TagsNotInherited
    BY DEF Tagged
  <1> QED BY <1>2, <1>3, PTL
=============================================================================
