--------------------------- MODULE Multipart_proofs ---------------------------
(***************************************************************************)
(* Proofs about Multipart, for any requests, uploads and part numbers: as  *)
(* long as an upload and the scan of a garbage collection pass together    *)
(* take less than the grace period, and no client replaces a part that a   *)
(* Complete has listed, what the rows name can be read.                    *)
(***************************************************************************)
EXTENDS Multipart, TLAPS

\* Requests are positive naturals; a blob's row is written, and a pass reads
\* what it keeps, before the file is past the grace period.
InTime ==
    /\ Request \subseteq Nat \ {0}
    /\ Grace \in Nat /\ UploadTime \in Nat /\ ScanTime \in Nat
    /\ UploadTime + ScanTime < Grace

ReqType ==
    [pc : {"new", "over", "concat", "sidecar", "commit", "cleanup"},
     kind : Kind, upload : Upload \cup {NoUpload}, part : PartNo \cup {0},
     blobs : SUBSET Request, fast : BOOLEAN, cond : BOOLEAN, todo : SUBSET Request]

GcType == [pc : {"idle", "rows", "sidecars", "delete"}, live : SUBSET Request,
           plan : SUBSET Request, time : 0 .. ScanTime]

-----------------------------------------------------------------------------
(* The parts of the inductive invariant. *)

\* Request b writes no blob any more.
Done(b) == req[b].pc \in {"over", "cleanup"}

\* The blob of request r is being made durable, or its row written.
Pending(r) == req[r].pc \in {"sidecar", "commit"}

PartBlobs == {p.blob : p \in parts}

\* The blobs that the rows are made of.
Needed == PartBlobs \cup (IF object = 0 THEN {} ELSE {object} \cup composite[object])

\* A blob is in one row, or one composite, only.
OneOwner ==
    /\ \A p, q \in parts : p.blob = q.blob => p = q
    /\ object \notin PartBlobs
    /\ object # 0 => composite[object] \cap (PartBlobs \cup {object}) = {}

\* Parts are no composites; a composite has a sidecar and finished parts.
Composites ==
    /\ \A b \in PartBlobs : composite[b] = {}
    /\ \A b \in Request : composite[b] # {} => b \in sidecars
    /\ \A b \in Request : \A c \in composite[b] : Done(c)

\* Files and rows are those of requests that are far enough.
Placed ==
    /\ \A b \in files : Done(b) \/ Pending(b)
    /\ \A b \in sidecars : Done(b) \/ req[b].pc = "commit"
    /\ \A b \in Referenced : Done(b)

Writes == {"put", "part", "complete"}

\* What request r brings to its commit: a file of its own, or a composite.
Brings(r) ==
    /\ req[r].todo # {} => Done(r)
    /\ req[r].pc = "concat" => req[r].kind = "complete" /\ ~req[r].fast
    /\ req[r].pc = "sidecar" => req[r].kind \in Writes
    /\ req[r].fast => req[r].kind = "complete"
    /\ req[r].kind = "complete" => req[r].blobs # {}
    /\ req[r].kind = "part" => req[r].upload \in Upload /\ req[r].part \in PartNo
    /\ req[r].kind \in Writes /\ Pending(r) => req[r].fast \/ r \in files
    /\ req[r].kind \in Writes /\ req[r].pc = "commit" =>
         r \in sidecars /\ composite[r] = (IF req[r].fast THEN req[r].blobs ELSE {})

Written == \A r \in Request : Brings(r)

\* The parts that Complete r has listed stay as long as its upload.
Lists(r) ==
    req[r].kind = "complete" =>
      /\ req[r].upload \in created
      /\ \A b \in req[r].blobs : Done(b)
      /\ req[r].upload \in uploads => req[r].blobs \subseteq {p.blob : p \in Parts(req[r].upload)}

ListedStay == \A r \in Request : Lists(r)

\* What a cleanup will delete is not needed, nor will it be.
Cleared ==
    \A r \in Request : \A b \in req[r].todo :
      Done(b) /\ ({b} \cup composite[b]) \cap Needed = {}

\* What the collector will delete is not needed, nor will it be.
Planned == \A b \in gc.plan : Done(b) /\ b \notin Needed

\* A row under way has a young blob.
Fresh == \A r \in Request : Pending(r) /\ r \in files => age[r] <= UploadTime

\* Blob b was written shortly before the pass began, or since.
Young(b) == age[b] <= UploadTime + gc.time

\* What is needed and not young has been seen by the pass, or will be when it
\* reads the sidecars.
Seen ==
    /\ gc.pc = "rows" =>
         \A b \in Needed \cap files :
           b \in gc.live \/ Young(b) \/ (object \in gc.live /\ b \in composite[object])
    /\ gc.pc = "sidecars" => \A b \in Needed \cap files : b \in gc.live \/ Young(b)

Inv ==
    /\ TypeOK /\ RowsReadable /\ RowAfterSidecar
    /\ OneOwner /\ Composites /\ Placed /\ Written /\ ListedStay
    /\ Cleared /\ Planned /\ Fresh /\ Seen

-----------------------------------------------------------------------------
(* Types. *)

LEMMA Types ==
  ASSUME TypeOK
  PROVE  /\ req \in [Request -> ReqType]
         /\ gc \in GcType
         /\ composite \in [Request -> SUBSET Request]
         /\ age \in [Request -> 0 .. Grace]
  BY DEF TypeOK, ReqType, GcType

LEMMA ReqFields ==
  ASSUME NEW q \in ReqType
  PROVE  /\ q.pc \in {"new", "over", "concat", "sidecar", "commit", "cleanup"}
         /\ q.kind \in Kind
         /\ q.upload \in Upload \cup {NoUpload}
         /\ q.part \in PartNo \cup {0}
         /\ q.blobs \subseteq Request
         /\ q.fast \in BOOLEAN
         /\ q.cond \in BOOLEAN
         /\ q.todo \subseteq Request
  BY DEF ReqType

LEMMA OverType ==
  /\ Over \in ReqType /\ New \in ReqType
  /\ Over.pc = "over" /\ Over.kind = "none" /\ Over.todo = {} /\ ~Over.fast
  /\ New.pc = "new" /\ New.kind = "none" /\ New.todo = {} /\ ~New.fast
  BY DEF Over, New, ReqType, Kind

\* A request that a cleanup follows.
LEMMA CleanUpType ==
  ASSUME NEW bs \in SUBSET Request,
         NEW q, q = IF bs = {} THEN Over ELSE [Over EXCEPT !.pc = "cleanup", !.todo = bs]
  PROVE  /\ q \in ReqType
         /\ q.pc \in {"over", "cleanup"} /\ q.kind = "none" /\ ~q.fast
         /\ q.todo = bs
  <1>1. CASE bs = {}
    BY <1>1, OverType
  <1>2. CASE bs # {}
    BY <1>2 DEF Over, ReqType, Kind
  <1> QED
    BY <1>1, <1>2

LEMMA GcFields ==
  ASSUME NEW g \in GcType
  PROVE  /\ g.pc \in {"idle", "rows", "sidecars", "delete"}
         /\ g.live \subseteq Request
         /\ g.plan \subseteq Request
         /\ g.time \in 0 .. ScanTime
  BY DEF GcType

LEMMA PartFields ==
  ASSUME TypeOK, NEW p \in parts
  PROVE  p.upload \in Upload /\ p.part \in PartNo /\ p.blob \in Request
  BY DEF TypeOK, PartRow

\* What the rows are made of was written by requests that are over.
LEMMA NeededDone ==
  ASSUME Inv, NEW b \in Needed
  PROVE  b \in Request /\ Done(b)
  <1>1. CASE b \in PartBlobs
    <2>1. PICK p \in parts : b = p.blob
      BY <1>1 DEF PartBlobs
    <2>2. b \in Referenced
      BY <2>1 DEF Referenced
    <2> QED
      BY <2>1, <2>2, PartFields DEF Inv, Placed
  <1>2. CASE object # 0 /\ b = object
    <2>1. b \in Referenced
      BY <1>2 DEF Referenced
    <2> QED
      BY <1>2, <2>1 DEF Inv, Placed, TypeOK
  <1>3. CASE object # 0 /\ b \in composite[object]
    <2>1. object \in Request
      BY <1>3 DEF Inv, TypeOK
    <2> QED
      BY <1>3, <2>1 DEF Inv, TypeOK, Composites
  <1> QED
    BY <1>1, <1>2, <1>3 DEF Needed

\* The blobs of the rows are needed.
LEMMA ReferencedNeeded ==
  Referenced \subseteq Needed
  BY DEF Referenced, Needed, PartBlobs

LEMMA CompositeDone ==
  ASSUME Inv, NEW b \in Request, NEW c \in composite[b]
  PROVE  c \in Request /\ Done(c)
  BY DEF Inv, TypeOK, Composites

-----------------------------------------------------------------------------
(* Steps that only take away: files that are not needed, requests that end, *)
(* the rest of a pass.                                                      *)

\* The pass goes on as it was with a smaller plan, or is not reading any more.
GcShrinks ==
  /\ gc' \in GcType
  /\ gc'.plan \subseteq gc.plan
  /\ gc'.pc \in {"rows", "sidecars"} =>
       gc'.pc = gc.pc /\ gc'.live = gc.live /\ gc'.time = gc.time

\* Requests stay as they are, or end with no more to clean up than before.
ReqsEnd ==
  /\ req' \in [Request -> ReqType]
  /\ \A s \in Request :
       \/ req'[s] = req[s]
       \/ /\ req'[s].pc \in {"over", "cleanup"} /\ req'[s].kind = "none" /\ ~req'[s].fast
          /\ req'[s].todo \subseteq req[s].todo

LEMMA Removal ==
  ASSUME InTime, Inv, NEW bs \in SUBSET Request,
         bs \cap Needed = {},
         \A b \in bs : Done(b)',
         RemoveFiles(bs), UNCHANGED store, ReqsEnd, GcShrinks
  PROVE  Inv'
  <1> USE DEF store
  <1>0. /\ created' = created /\ uploads' = uploads /\ parts' = parts /\ object' = object
        /\ age' = age /\ files' = files \ bs /\ sidecars' = sidecars \ bs
        /\ composite' = [b \in Request |-> IF b \in bs THEN {} ELSE composite[b]]
    BY DEF RemoveFiles
  <1>1. /\ \A b \in Request : composite'[b] \subseteq composite[b]
        /\ \A b \in Request : b \notin bs => composite'[b] = composite[b]
        /\ \A b \in bs : composite'[b] = {}
    BY <1>0, Types DEF Inv
  <1>2. \A s \in Request : Done(s) => Done(s)'
    BY DEF ReqsEnd, Done
  <1>3. \A s \in Request : ~Done(s)' => req'[s] = req[s] /\ s \notin bs
    BY DEF ReqsEnd, Done
  <1>4. object # 0 => object \in Request /\ object \notin bs /\ composite'[object] = composite[object]
                      /\ composite[object] \cap bs = {}
    <2> SUFFICES ASSUME object # 0
                 PROVE  object \in Request /\ object \notin bs /\ composite'[object] = composite[object]
                        /\ composite[object] \cap bs = {}
      OBVIOUS
    <2>1. object \in Request
      BY DEF Inv, TypeOK
    <2>2. object \in Needed /\ composite[object] \subseteq Needed
      BY DEF Needed
    <2> QED
      BY <2>1, <2>2, <1>1
  <1>5. /\ PartBlobs' = PartBlobs /\ Referenced' = Referenced
        /\ PartBlobs \subseteq Request /\ PartBlobs \cap bs = {}
    <2>1. PartBlobs' = PartBlobs /\ Referenced' = Referenced
      BY <1>0 DEF PartBlobs, Referenced
    <2>2. PartBlobs \subseteq Needed
      BY DEF Needed
    <2>3. PartBlobs \subseteq Request
      BY PartFields DEF PartBlobs, Inv
    <2> QED
      BY <2>1, <2>2, <2>3
  <1>6. Needed' = Needed
    BY <1>0, <1>4, <1>5 DEF Needed
  <1>7. TypeOK'
    <2>1. composite' \in [Request -> SUBSET Request]
      BY <1>0, Types DEF Inv
    <2>2. req' \in [Request -> ReqType] /\ gc' \in GcType
      BY DEF ReqsEnd, GcShrinks
    <2> QED
      BY <1>0, <2>1, <2>2 DEF Inv, TypeOK, ReqType, GcType
  <1>8. RowsReadable'
    <2>1. ASSUME object' # 0
          PROVE  Readable(object)'
      BY <2>1, <1>0, <1>4 DEF Inv, RowsReadable, Readable
    <2>2. ASSUME NEW p \in parts'
          PROVE  p.blob \in files'
      BY <1>0, <1>5 DEF Inv, RowsReadable, PartBlobs
    <2> QED
      BY <2>1, <2>2, <1>0 DEF RowsReadable
  <1>9. RowAfterSidecar'
    BY <1>0, <1>5, ReferencedNeeded DEF Inv, RowAfterSidecar
  <1>10. OneOwner'
    BY <1>0, <1>4, <1>5 DEF Inv, OneOwner
  <1>11. Composites'
    <2>1. \A b \in PartBlobs' : composite'[b] = {}
      BY <1>5, <1>1 DEF Inv, Composites
    <2>2. \A b \in Request : composite'[b] # {} => b \in sidecars'
      BY <1>0, <1>1 DEF Inv, Composites
    <2>3. \A b \in Request : \A c \in composite'[b] : Done(c)'
      BY <1>1, <1>2, CompositeDone
    <2> QED
      BY <2>1, <2>2, <2>3 DEF Composites
  <1>12. Placed'
    <2>1. \A b \in files' : Done(b)' \/ Pending(b)'
      <3> SUFFICES ASSUME NEW b \in files', ~Done(b)'
                   PROVE  Pending(b)'
        OBVIOUS
      <3>1. b \in files /\ b \in Request
        BY <1>0 DEF Inv, TypeOK
      <3>2. req'[b] = req[b] /\ ~Done(b)
        BY <3>1, <1>2, <1>3
      <3> QED
        BY <3>1, <3>2 DEF Inv, Placed, Pending
    <2>2. \A b \in sidecars' : Done(b)' \/ req'[b].pc = "commit"
      <3> SUFFICES ASSUME NEW b \in sidecars', ~Done(b)'
                   PROVE  req'[b].pc = "commit"
        OBVIOUS
      <3>1. b \in sidecars /\ b \in Request
        BY <1>0 DEF Inv, TypeOK
      <3>2. req'[b] = req[b] /\ ~Done(b)
        BY <3>1, <1>2, <1>3
      <3> QED
        BY <3>1, <3>2 DEF Inv, Placed
    <2>3. \A b \in Referenced' : Done(b)'
      BY <1>5, <1>2, NeededDone, ReferencedNeeded
    <2> QED
      BY <2>1, <2>2, <2>3 DEF Placed
  <1>13. Written'
    <2> SUFFICES ASSUME NEW r \in Request
                 PROVE  Brings(r)'
      BY DEF Written
    <2>1. CASE Done(r)' /\ req'[r] # req[r]
      BY <2>1 DEF ReqsEnd, Brings, Done, Pending, Writes
    <2>2. CASE Done(r)' /\ req'[r] = req[r]
      BY <2>2 DEF Inv, Written, Brings, Done, Pending, Writes
    <2>3. CASE ~Done(r)'
      <3>1. req'[r] = req[r] /\ r \notin bs
        BY <2>3, <1>3
      <3>2. (r \in files' <=> r \in files) /\ (r \in sidecars' <=> r \in sidecars) /\ composite'[r] = composite[r]
        BY <3>1, <1>0, <1>1
      <3>3. Brings(r)
        BY DEF Inv, Written
      <3> QED
        BY <3>1, <3>2, <3>3 DEF Brings, Done, Pending
    <2> QED
      BY <2>1, <2>2, <2>3
  <1>14. ListedStay'
    <2> SUFFICES ASSUME NEW r \in Request, req'[r].kind = "complete"
                 PROVE  Lists(r)'
      BY DEF ListedStay, Lists
    <2>1. req'[r] = req[r]
      BY DEF ReqsEnd
    <2>2. Lists(r)
      BY DEF Inv, ListedStay
    <2>3. req[r].blobs \subseteq Request
      BY Types, ReqFields DEF Inv
    <2> QED
      BY <2>1, <2>2, <2>3, <1>0, <1>2 DEF Lists, Parts
  <1>15. Cleared'
    <2> SUFFICES ASSUME NEW r \in Request, NEW b \in req'[r].todo
                 PROVE  Done(b)' /\ ({b} \cup composite'[b]) \cap Needed' = {}
      BY DEF Cleared
    <2>1. b \in req[r].todo
      BY DEF ReqsEnd
    <2>2. b \in Request
      BY <2>1, Types, ReqFields DEF Inv
    <2>3. Done(b) /\ ({b} \cup composite[b]) \cap Needed = {}
      BY <2>1 DEF Inv, Cleared
    <2> QED
      BY <2>2, <2>3, <1>1, <1>2, <1>6
  <1>16. Planned'
    <2> SUFFICES ASSUME NEW b \in gc'.plan
                 PROVE  Done(b)' /\ b \notin Needed'
      BY DEF Planned
    <2>1. b \in gc.plan
      BY DEF GcShrinks
    <2>2. b \in Request
      BY <2>1, Types, GcFields DEF Inv
    <2> QED
      BY <2>1, <2>2, <1>2, <1>6 DEF Inv, Planned
  <1>17. Fresh'
    <2> SUFFICES ASSUME NEW r \in Request, Pending(r)', r \in files'
                 PROVE  age'[r] <= UploadTime
      BY DEF Fresh
    <2>1. ~Done(r)'
      BY DEF Pending, Done
    <2>2. req'[r] = req[r] /\ r \in files
      BY <2>1, <1>3, <1>0
    <2> QED
      BY <2>2, <1>0 DEF Inv, Fresh, Pending
  <1>18. Seen'
    <2>1. ASSUME gc'.pc = "rows", NEW b \in Needed' \cap files'
          PROVE  b \in gc'.live \/ Young(b)' \/ (object' \in gc'.live /\ b \in composite'[object'])
      <3>1. gc.pc = "rows" /\ gc'.live = gc.live /\ gc'.time = gc.time
        BY <2>1 DEF GcShrinks
      <3>2. b \in Needed \cap files
        BY <1>0, <1>6
      <3>3. b \in gc.live \/ Young(b) \/ (object \in gc.live /\ b \in composite[object])
        BY <3>1, <3>2 DEF Inv, Seen
      <3>4. object \in gc.live => object # 0
        BY Types, GcFields DEF Inv, InTime
      <3> QED
        BY <3>1, <3>3, <3>4, <1>0, <1>4 DEF Young
    <2>2. ASSUME gc'.pc = "sidecars", NEW b \in Needed' \cap files'
          PROVE  b \in gc'.live \/ Young(b)'
      <3>1. gc.pc = "sidecars" /\ gc'.live = gc.live /\ gc'.time = gc.time
        BY <2>2 DEF GcShrinks
      <3>2. b \in Needed \cap files
        BY <1>0, <1>6
      <3> QED
        BY <3>1, <3>2, <1>0 DEF Inv, Seen, Young
    <2> QED
      BY <2>1, <2>2 DEF Seen
  <1> QED
    BY <1>7, <1>8, <1>9, <1>10, <1>11, <1>12, <1>13, <1>14, <1>15, <1>16, <1>17, <1>18 DEF Inv

-----------------------------------------------------------------------------
(* Steps of a request before its commit: it writes its own files only. *)

Becomes(r, q) == q \in ReqType /\ req' = [req EXCEPT ![r] = q]

LEMMA BecomesOne ==
  ASSUME TypeOK, NEW r \in Request, NEW q, Becomes(r, q)
  PROVE  /\ req' \in [Request -> ReqType]
         /\ req'[r] = q
         /\ \A s \in Request : s # r => req'[s] = req[s]
  BY Types DEF Becomes

\* Only the files of r change.
OwnFiles(r) ==
  /\ files \subseteq files' /\ files' \subseteq files \cup {r}
  /\ sidecars \subseteq sidecars' /\ sidecars' \subseteq sidecars \cup {r}
  /\ age' \in [Request -> 0 .. Grace]
  /\ \A b \in Request : b # r => age'[b] = age[b]
  /\ composite' \in [Request -> SUBSET Request]
  /\ \A b \in Request : b # r => composite'[b] = composite[b]

\* What request r, now q, has on disk.
OnDisk(r, q) ==
  /\ r \in files' => q.pc \in {"sidecar", "commit"} /\ age'[r] <= UploadTime
  /\ r \in sidecars' => q.pc = "commit"
  /\ composite'[r] # {} => r \in sidecars'
  /\ \A c \in composite'[r] : Done(c)

LEMMA Advance ==
  ASSUME InTime, Inv, NEW r \in Request, NEW q, Becomes(r, q),
         ~Done(r), q.pc \in {"concat", "sidecar", "commit"}, q.todo = {},
         OwnFiles(r), OnDisk(r, q), Brings(r)',
         q.kind = "complete" =>
           /\ q.upload \in created
           /\ \A b \in q.blobs : Done(b)
           /\ q.upload \in uploads => q.blobs \subseteq {p.blob : p \in Parts(q.upload)},
         UNCHANGED store, UNCHANGED gc
  PROVE  Inv'
  <1>0. /\ created' = created /\ uploads' = uploads /\ parts' = parts /\ object' = object /\ gc' = gc
    BY DEF store
  <1>1. /\ req' \in [Request -> ReqType]
        /\ req'[r] = q
        /\ \A s \in Request : s # r => req'[s] = req[s]
    BY BecomesOne DEF Inv
  <1>2. \A s \in Request : Done(s) => Done(s)' /\ s # r
    BY <1>1 DEF Done
  <1>3. r \notin Needed
    BY NeededDone
  <1>4. object # 0 => object \in Request /\ object # r /\ composite'[object] = composite[object]
    BY <1>3 DEF Needed, Inv, TypeOK, OwnFiles
  <1>5. /\ PartBlobs' = PartBlobs /\ Referenced' = Referenced /\ Needed' = Needed
        /\ PartBlobs \subseteq Needed /\ Referenced \subseteq Needed
    <2>1. PartBlobs' = PartBlobs /\ Referenced' = Referenced
      BY <1>0 DEF PartBlobs, Referenced
    <2> QED
      BY <2>1, <1>0, <1>4, ReferencedNeeded DEF Needed
  <1>6. \A b \in Needed : b \in Request /\ b # r /\ Done(b)
    BY NeededDone
  <1>7. TypeOK'
    <2>1. files' \subseteq Request /\ sidecars' \subseteq Request
      BY DEF OwnFiles, Inv, TypeOK
    <2>2. /\ created' \subseteq Upload /\ uploads' \subseteq created' /\ parts' \subseteq PartRow
          /\ object' \in Request \cup {0} /\ gc' \in GcType
      BY <1>0, Types DEF Inv, TypeOK
    <2> QED
      BY <2>1, <2>2, <1>1 DEF TypeOK, OwnFiles, ReqType, GcType
  <1>8. RowsReadable'
    <2>1. ASSUME object' # 0
          PROVE  Readable(object)'
      <3>1. object \in sidecars' <=> object \in sidecars
        BY <2>1, <1>0, <1>4 DEF OwnFiles
      <3> QED
        BY <2>1, <3>1, <1>0, <1>4 DEF Inv, RowsReadable, Readable, OwnFiles
    <2>2. ASSUME NEW p \in parts'
          PROVE  p.blob \in files'
      BY <1>0 DEF Inv, RowsReadable, OwnFiles
    <2> QED
      BY <2>1, <2>2, <1>0 DEF RowsReadable
  <1>9. RowAfterSidecar'
    BY <1>5 DEF Inv, RowAfterSidecar, OwnFiles
  <1>10. OneOwner'
    BY <1>0, <1>4, <1>5 DEF Inv, OneOwner
  <1>11. Composites'
    <2>1. \A b \in PartBlobs' : composite'[b] = {}
      BY <1>5, <1>6 DEF Inv, Composites, OwnFiles
    <2>2. \A b \in Request : composite'[b] # {} => b \in sidecars'
      BY DEF Inv, Composites, OwnFiles, OnDisk
    <2>3. ASSUME NEW b \in Request, NEW c \in composite'[b]
          PROVE  Done(c)'
      <3>1. c \in Request
        BY DEF OwnFiles
      <3>2. Done(c)
        BY CompositeDone DEF OwnFiles, OnDisk
      <3> QED
        BY <3>1, <3>2, <1>2
    <2> QED
      BY <2>1, <2>2, <2>3 DEF Composites
  <1>12. Placed'
    <2>1. ASSUME NEW b \in files'
          PROVE  Done(b)' \/ Pending(b)'
      <3>1. CASE b = r
        BY <3>1, <1>1 DEF OnDisk, Pending
      <3>2. CASE b # r
        <4>1. b \in files /\ b \in Request
          BY <3>2 DEF OwnFiles, Inv, TypeOK
        <4> QED
          BY <4>1, <3>2, <1>1 DEF Inv, Placed, Done, Pending
      <3> QED
        BY <3>1, <3>2
    <2>2. ASSUME NEW b \in sidecars'
          PROVE  Done(b)' \/ req'[b].pc = "commit"
      <3>1. CASE b = r
        BY <3>1, <1>1 DEF OnDisk
      <3>2. CASE b # r
        <4>1. b \in sidecars /\ b \in Request
          BY <3>2 DEF OwnFiles, Inv, TypeOK
        <4> QED
          BY <4>1, <3>2, <1>1 DEF Inv, Placed, Done
      <3> QED
        BY <3>1, <3>2
    <2>3. \A b \in Referenced' : Done(b)'
      BY <1>5, <1>6, <1>2
    <2> QED
      BY <2>1, <2>2, <2>3 DEF Placed
  <1>13. Written'
    <2> SUFFICES ASSUME NEW s \in Request, s # r
                 PROVE  Brings(s)'
      BY DEF Written
    <2>1. req'[s] = req[s] /\ composite'[s] = composite[s]
      BY <1>1 DEF OwnFiles
    <2>2. (s \in files' <=> s \in files) /\ (s \in sidecars' <=> s \in sidecars)
      BY DEF OwnFiles
    <2>3. Brings(s)
      BY DEF Inv, Written
    <2> QED
      BY <2>1, <2>2, <2>3 DEF Brings, Done, Pending
  <1>14. ListedStay'
    <2> SUFFICES ASSUME NEW s \in Request
                 PROVE  Lists(s)'
      BY DEF ListedStay
    <2>1. CASE s = r
      <3>1. q.blobs \subseteq Request
        BY ReqFields DEF Becomes
      <3> QED
        BY <2>1, <3>1, <1>0, <1>1, <1>2 DEF Lists, Parts
    <2>2. CASE s # r
      <3>1. req'[s] = req[s]
        BY <2>2, <1>1
      <3>2. req[s].blobs \subseteq Request
        BY Types, ReqFields DEF Inv
      <3>3. Lists(s)
        BY DEF Inv, ListedStay
      <3> QED
        BY <3>1, <3>2, <3>3, <1>0, <1>2 DEF Lists, Parts
    <2> QED
      BY <2>1, <2>2
  <1>15. Cleared'
    <2> SUFFICES ASSUME NEW s \in Request, NEW b \in req'[s].todo
                 PROVE  Done(b)' /\ ({b} \cup composite'[b]) \cap Needed' = {}
      BY DEF Cleared
    <2>1. s # r /\ b \in req[s].todo
      BY <1>1
    <2>2. b \in Request
      BY <2>1, Types, ReqFields DEF Inv
    <2>3. Done(b) /\ ({b} \cup composite[b]) \cap Needed = {}
      BY <2>1 DEF Inv, Cleared
    <2>4. composite'[b] = composite[b]
      BY <2>2, <2>3, <1>2 DEF OwnFiles
    <2> QED
      BY <2>2, <2>3, <2>4, <1>2, <1>5
  <1>16. Planned'
    <2> SUFFICES ASSUME NEW b \in gc'.plan
                 PROVE  Done(b)' /\ b \notin Needed'
      BY DEF Planned
    <2>1. b \in Request
      BY <1>0, Types, GcFields DEF Inv
    <2> QED
      BY <2>1, <1>0, <1>2, <1>5 DEF Inv, Planned
  <1>17. Fresh'
    <2> SUFFICES ASSUME NEW s \in Request, Pending(s)', s \in files'
                 PROVE  age'[s] <= UploadTime
      BY DEF Fresh
    <2>1. CASE s = r
      BY <2>1 DEF OnDisk
    <2>2. CASE s # r
      <3>1. s \in files /\ req'[s] = req[s] /\ age'[s] = age[s]
        BY <2>2, <1>1 DEF OwnFiles
      <3> QED
        BY <3>1 DEF Inv, Fresh, Pending
    <2> QED
      BY <2>1, <2>2
  <1>18. Seen'
    <2>0. ASSUME NEW b \in Needed' \cap files'
          PROVE  b \in Needed \cap files /\ age'[b] = age[b]
      BY <1>5, <1>6 DEF OwnFiles
    <2>1. ASSUME gc'.pc = "rows", NEW b \in Needed' \cap files'
          PROVE  b \in gc'.live \/ Young(b)' \/ (object' \in gc'.live /\ b \in composite'[object'])
      <3>1. b \in gc.live \/ Young(b) \/ (object \in gc.live /\ b \in composite[object])
        BY <2>0, <2>1, <1>0 DEF Inv, Seen
      <3>2. object \in gc.live => object # 0
        BY Types, GcFields DEF Inv, InTime
      <3> QED
        BY <3>1, <3>2, <2>0, <1>0, <1>4 DEF Young
    <2>2. ASSUME gc'.pc = "sidecars", NEW b \in Needed' \cap files'
          PROVE  b \in gc'.live \/ Young(b)'
      BY <2>0, <2>2, <1>0 DEF Inv, Seen, Young
    <2> QED
      BY <2>1, <2>2 DEF Seen
  <1> QED
    BY <1>7, <1>8, <1>9, <1>10, <1>11, <1>12, <1>13, <1>14, <1>15, <1>16, <1>17, <1>18 DEF Inv

-----------------------------------------------------------------------------
(* Commits: the rows change, the files do not. *)

\* The rows are made of what they were made of and the blob of r; what stays
\* of a composite stays with its object.
RowsOf(r) ==
  \A b \in Needed' :
    b = r \/ (b \in Needed /\ (object \in Request /\ b \in composite[object] => object' = object))

\* The parts that other Completes have listed stay with their upload.
ListsKept(r) ==
  \A s \in Request :
    s # r /\ req[s].kind = "complete" /\ req[s].upload \in uploads' =>
      req[s].blobs \subseteq {p.blob : p \in {x \in parts' : x.upload = req[s].upload}}

\* The rows are in order after the commit.
RowsInOrder ==
  /\ uploads' \subseteq uploads /\ created' = created
  /\ parts' \subseteq PartRow /\ object' \in Request \cup {0}
  /\ OneOwner' /\ RowsReadable' /\ RowAfterSidecar'
  /\ \A b \in PartBlobs' : composite[b] = {}

LEMMA Commit ==
  ASSUME InTime, Inv, NEW r \in Request, NEW q, Becomes(r, q),
         req[r].pc = "commit",
         q.pc \in {"over", "cleanup"}, q.kind = "none", ~q.fast,
         RowsInOrder, RowsOf(r), ListsKept(r),
         \A b \in q.todo : Done(b) /\ ({b} \cup composite[b]) \cap Needed' = {},
         UNCHANGED disk, UNCHANGED gc
  PROVE  Inv'
  <1>0. files' = files /\ age' = age /\ sidecars' = sidecars /\ composite' = composite /\ gc' = gc
    BY DEF disk
  <1>1. /\ req' \in [Request -> ReqType]
        /\ req'[r] = q
        /\ \A s \in Request : s # r => req'[s] = req[s]
    BY BecomesOne DEF Inv
  <1>2. ~Done(r)
    BY DEF Done
  <1>3. \A s \in Request : Done(s) => Done(s)'
    BY <1>1 DEF Done
  <1>4. \A b \in Needed' : b \in Request /\ Done(b)'
    BY NeededDone, <1>1, <1>3 DEF RowsOf, Done
  <1>5. Referenced' \subseteq Needed'
    BY DEF Referenced, Needed, PartBlobs
  <1>6. \A b \in Request : Done(b) => b # r
    BY <1>2
  <1>7. TypeOK'
    <2>1. /\ files' \subseteq Request /\ sidecars' \subseteq Request
          /\ age' \in [Request -> 0 .. Grace] /\ composite' \in [Request -> SUBSET Request]
          /\ gc' \in GcType
      BY <1>0, Types DEF Inv, TypeOK
    <2>2. created' \subseteq Upload /\ uploads' \subseteq created'
      BY DEF RowsInOrder, Inv, TypeOK
    <2> QED
      BY <2>1, <2>2, <1>1 DEF TypeOK, RowsInOrder, ReqType, GcType
  <1>8. RowsReadable' /\ RowAfterSidecar' /\ OneOwner'
    BY DEF RowsInOrder
  <1>11. Composites'
    <2>1. \A b \in PartBlobs' : composite'[b] = {}
      BY <1>0 DEF RowsInOrder
    <2>2. \A b \in Request : composite'[b] # {} => b \in sidecars'
      BY <1>0 DEF Inv, Composites
    <2>3. \A b \in Request : \A c \in composite'[b] : Done(c)'
      BY <1>0, <1>3, CompositeDone
    <2> QED
      BY <2>1, <2>2, <2>3 DEF Composites
  <1>12. Placed'
    <2>1. ASSUME NEW b \in files'
          PROVE  Done(b)' \/ Pending(b)'
      <3>1. b \in files /\ b \in Request
        BY <1>0 DEF Inv, TypeOK
      <3> QED
        BY <3>1, <1>1 DEF Inv, Placed, Done, Pending
    <2>2. ASSUME NEW b \in sidecars'
          PROVE  Done(b)' \/ req'[b].pc = "commit"
      <3>1. b \in sidecars /\ b \in Request
        BY <1>0 DEF Inv, TypeOK
      <3> QED
        BY <3>1, <1>1 DEF Inv, Placed, Done
    <2>3. \A b \in Referenced' : Done(b)'
      BY <1>4, <1>5
    <2> QED
      BY <2>1, <2>2, <2>3 DEF Placed
  <1>13. Written'
    <2> SUFFICES ASSUME NEW s \in Request
                 PROVE  Brings(s)'
      BY DEF Written
    <2>1. CASE s = r
      BY <2>1, <1>1 DEF Brings, Done, Pending, Writes
    <2>2. CASE s # r
      <3>1. req'[s] = req[s]
        BY <2>2, <1>1
      <3>2. Brings(s)
        BY DEF Inv, Written
      <3> QED
        BY <3>1, <3>2, <1>0 DEF Brings, Done, Pending
    <2> QED
      BY <2>1, <2>2
  <1>14. ListedStay'
    <2> SUFFICES ASSUME NEW s \in Request, req'[s].kind = "complete"
                 PROVE  Lists(s)'
      BY DEF ListedStay, Lists
    <2>1. s # r /\ req'[s] = req[s]
      BY <1>1
    <2>2. req[s].blobs \subseteq Request
      BY Types, ReqFields DEF Inv
    <2>3. Lists(s)
      BY DEF Inv, ListedStay
    <2>4. req'[s].upload \in created' /\ \A b \in req'[s].blobs : Done(b)'
      BY <2>1, <2>2, <2>3, <1>3 DEF Lists, RowsInOrder
    <2>5. req'[s].upload \in uploads' =>
            req'[s].blobs \subseteq {p.blob : p \in {x \in parts' : x.upload = req'[s].upload}}
      BY <2>1 DEF ListsKept
    <2> QED
      BY <2>4, <2>5 DEF Lists, Parts
  <1>15. Cleared'
    <2> SUFFICES ASSUME NEW s \in Request, NEW b \in req'[s].todo
                 PROVE  Done(b)' /\ ({b} \cup composite'[b]) \cap Needed' = {}
      BY DEF Cleared
    <2>1. CASE s = r
      <3>1. b \in Request
        BY <2>1, <1>1, ReqFields
      <3> QED
        BY <2>1, <3>1, <1>0, <1>1, <1>3
    <2>2. CASE s # r
      <3>1. b \in req[s].todo
        BY <2>2, <1>1
      <3>2. b \in Request
        BY <3>1, Types, ReqFields DEF Inv
      <3>3. Done(b) /\ ({b} \cup composite[b]) \cap Needed = {}
        BY <3>1 DEF Inv, Cleared
      <3>4. r \notin {b} \cup composite[b]
        BY <3>2, <3>3, <1>2, CompositeDone
      <3> QED
        BY <3>2, <3>3, <3>4, <1>0, <1>3 DEF RowsOf
    <2> QED
      BY <2>1, <2>2
  <1>16. Planned'
    <2> SUFFICES ASSUME NEW b \in gc'.plan
                 PROVE  Done(b)' /\ b \notin Needed'
      BY DEF Planned
    <2>1. b \in Request
      BY <1>0, Types, GcFields DEF Inv
    <2>2. Done(b) /\ b \notin Needed
      BY <1>0 DEF Inv, Planned
    <2> QED
      BY <2>1, <2>2, <1>2, <1>3 DEF RowsOf
  <1>17. Fresh'
    <2> SUFFICES ASSUME NEW s \in Request, Pending(s)', s \in files'
                 PROVE  age'[s] <= UploadTime
      BY DEF Fresh
    <2>1. s # r
      BY <1>1 DEF Pending
    <2> QED
      BY <2>1, <1>0, <1>1 DEF Inv, Fresh, Pending
  <1>18. Seen'
    <2>0. r \in files => Young(r)
      <3> SUFFICES ASSUME r \in files
                   PROVE  Young(r)
        OBVIOUS
      <3>1. age[r] <= UploadTime
        BY DEF Inv, Fresh, Pending
      <3>2. age[r] \in Nat /\ gc.time \in Nat
        BY Types, GcFields DEF Inv
      <3> QED
        BY <3>1, <3>2 DEF Young, InTime
    <2>1. ASSUME gc'.pc = "rows", NEW b \in Needed' \cap files'
          PROVE  b \in gc'.live \/ Young(b)' \/ (object' \in gc'.live /\ b \in composite'[object'])
      <3>1. CASE b = r
        BY <3>1, <2>0, <1>0 DEF Young
      <3>2. CASE b # r
        <4>1. b \in Needed \cap files /\ (object \in Request /\ b \in composite[object] => object' = object)
          BY <3>2, <1>0 DEF RowsOf
        <4>2. b \in gc.live \/ Young(b) \/ (object \in gc.live /\ b \in composite[object])
          BY <4>1, <2>1, <1>0 DEF Inv, Seen
        <4>3. object \in gc.live => object \in Request
          BY Types, GcFields DEF Inv
        <4> QED
          BY <4>1, <4>2, <4>3, <1>0 DEF Young
      <3> QED
        BY <3>1, <3>2
    <2>2. ASSUME gc'.pc = "sidecars", NEW b \in Needed' \cap files'
          PROVE  b \in gc'.live \/ Young(b)'
      <3>1. CASE b = r
        BY <3>1, <2>0, <1>0 DEF Young
      <3>2. CASE b # r
        BY <3>2, <2>2, <1>0 DEF RowsOf, Inv, Seen, Young
      <3> QED
        BY <3>1, <3>2
    <2> QED
      BY <2>1, <2>2 DEF Seen
  <1> QED
    BY <1>7, <1>8, <1>11, <1>12, <1>13, <1>14, <1>15, <1>16, <1>17, <1>18 DEF Inv

-----------------------------------------------------------------------------
(* The actions that only take away. *)

LEMMA NothingRemoved ==
  ASSUME TypeOK, UNCHANGED disk
  PROVE  RemoveFiles({})
  BY Types DEF disk, RemoveFiles

LEMMA GcStays ==
  ASSUME TypeOK, UNCHANGED gc
  PROVE  GcShrinks
  BY Types DEF GcShrinks

\* A request that ends.
LEMMA EndsOne ==
  ASSUME TypeOK, NEW r \in Request, End(r)
  PROVE  ReqsEnd /\ Done(r)'
  <1>1. Becomes(r, Over)
    BY OverType DEF Becomes, End
  <1>2. req' \in [Request -> ReqType] /\ req'[r] = Over /\ \A s \in Request : s # r => req'[s] = req[s]
    BY <1>1, BecomesOne
  <1> QED
    BY <1>2, OverType DEF ReqsEnd, Done

LEMMA ConcatFailsKeeps ==
  ASSUME InTime, Inv, NEW r \in Request, ConcatFails(r)
  PROVE  Inv'
  <1>1. TypeOK /\ End(r) /\ UNCHANGED store /\ UNCHANGED disk /\ UNCHANGED gc
    BY DEF Inv, ConcatFails, store, disk
  <1> QED
    BY <1>1, EndsOne, NothingRemoved, GcStays, Removal

\* A request that has not written its row removes its own blob.
LEMMA OwnRemoval ==
  ASSUME InTime, Inv, NEW r \in Request, ~Done(r),
         RemoveFiles({r}), End(r), UNCHANGED store, UNCHANGED gc
  PROVE  Inv'
  <1>1. TypeOK
    BY DEF Inv
  <1>2. {r} \cap Needed = {}
    BY NeededDone
  <1>3. \A b \in {r} : Done(b)'
    BY <1>1, EndsOne
  <1> QED
    BY <1>1, <1>2, <1>3, EndsOne, GcStays, Removal

LEMMA DiscardKeeps ==
  ASSUME InTime, Inv, NEW r \in Request, Discard(r)
  PROVE  Inv'
  <1>1. ~Done(r) /\ RemoveFiles({r}) /\ End(r) /\ UNCHANGED store /\ UNCHANGED gc
    BY DEF Discard, Done, store
  <1> QED
    BY <1>1, OwnRemoval

LEMMA RefuseCompleteKeeps ==
  ASSUME InTime, Inv, NEW r \in Request, RefuseComplete(r)
  PROVE  Inv'
  <1>1. ~Done(r) /\ RemoveFiles({r}) /\ End(r) /\ UNCHANGED store /\ UNCHANGED gc
    BY DEF RefuseComplete, Unassemble, Done, store
  <1> QED
    BY <1>1, OwnRemoval

LEMMA DeleteBlobKeeps ==
  ASSUME InTime, Inv, NEW r \in Request, NEW b \in Request, DeleteBlob(r, b)
  PROVE  Inv'
  <1> DEFINE left == req[r].todo \ {b}
  <1> DEFINE q == IF left = {} THEN Over ELSE [Over EXCEPT !.pc = "cleanup", !.todo = left]
  <1>0. TypeOK /\ req[r].pc = "cleanup" /\ b \in req[r].todo /\ UNCHANGED store /\ UNCHANGED gc
    BY DEF Inv, DeleteBlob, store
  <1>1. left \in SUBSET Request
    BY <1>0, Types, ReqFields
  <1>2. /\ q \in ReqType
        /\ q.pc \in {"over", "cleanup"} /\ q.kind = "none" /\ ~q.fast
        /\ q.todo = left
    BY <1>1, CleanUpType
  <1>3. req' = [req EXCEPT ![r] = q]
    BY DEF DeleteBlob, CleanUp
  <1> HIDE DEF q
  <1>4. Becomes(r, q)
    BY <1>2, <1>3 DEF Becomes
  <1>5. req' \in [Request -> ReqType] /\ req'[r] = q /\ \A s \in Request : s # r => req'[s] = req[s]
    BY <1>0, <1>4, BecomesOne
  <1>6. ReqsEnd
    BY <1>2, <1>5 DEF ReqsEnd
  <1>7. \A s \in Request : Done(s) => Done(s)'
    BY <1>6 DEF ReqsEnd, Done
  <1>8. CASE RemoveFiles(Cascade(b))
    <2>1. Done(b) /\ ({b} \cup composite[b]) \cap Needed = {}
      BY <1>0 DEF Inv, Cleared
    <2>2. Cascade(b) \in SUBSET Request /\ Cascade(b) \subseteq {b} \cup composite[b]
      BY <1>0, Types DEF Cascade
    <2>3. \A c \in Cascade(b) : Done(c)'
      BY <2>1, <2>2, <1>7, CompositeDone
    <2>4. Cascade(b) \cap Needed = {}
      BY <2>1, <2>2
    <2> HIDE DEF Cascade
    <2> QED
      BY <1>8, <2>2, <2>3, <2>4, <1>0, <1>6, GcStays, Removal
  <1>9. CASE UNCHANGED disk
    BY <1>9, <1>0, <1>6, GcStays, NothingRemoved, Removal
  <1> QED
    BY <1>8, <1>9 DEF DeleteBlob

LEMMA ReqsStay ==
  ASSUME TypeOK, UNCHANGED req
  PROVE  ReqsEnd
  BY Types DEF ReqsEnd

LEMMA GcDeleteKeeps ==
  ASSUME InTime, Inv, NEW b \in Request, GcDelete(b)
  PROVE  Inv'
  <1>0. /\ TypeOK /\ gc.pc = "delete" /\ b \in gc.plan /\ gc' = [gc EXCEPT !.plan = gc.plan \ {b}]
        /\ RemoveFiles({b}) /\ UNCHANGED store /\ UNCHANGED req
    BY DEF Inv, GcDelete, store
  <1>1. Done(b) /\ b \notin Needed
    BY <1>0 DEF Inv, Planned
  <1>2. \A c \in {b} : Done(c)'
    BY <1>0, <1>1 DEF Done
  <1>3. GcShrinks
    <2>1. gc \in GcType
      BY <1>0, Types
    <2>2. gc' \in GcType /\ gc'.plan = gc.plan \ {b} /\ gc'.pc = "delete"
      BY <2>1, <1>0 DEF GcType
    <2> QED
      BY <2>2 DEF GcShrinks
  <1> QED
    BY <1>0, <1>1, <1>2, <1>3, ReqsStay, Removal

LEMMA IdleShrinks ==
  ASSUME InTime, TypeOK, gc' = GcIdle
  PROVE  GcShrinks
  BY DEF GcShrinks, GcIdle, GcType, InTime

LEMMA GcEndKeeps ==
  ASSUME InTime, Inv, GcEnd
  PROVE  Inv'
  <1>0. TypeOK /\ gc' = GcIdle /\ UNCHANGED store /\ UNCHANGED disk /\ UNCHANGED req
    BY DEF Inv, GcEnd, store, disk
  <1> QED
    BY <1>0, IdleShrinks, ReqsStay, NothingRemoved, Removal

LEMMA CrashKeeps ==
  ASSUME InTime, Inv, Crash
  PROVE  Inv'
  <1>0. /\ TypeOK /\ gc' = GcIdle /\ UNCHANGED store /\ UNCHANGED disk
        /\ req' = [r \in Request |-> IF req[r] = New THEN New ELSE Over]
    BY DEF Inv, Crash, store, disk
  <1>1. ReqsEnd
    <2>1. req' \in [Request -> ReqType]
      BY <1>0, OverType
    <2>2. \A s \in Request : req'[s] = req[s] \/ req'[s] = Over
      BY <1>0
    <2> QED
      BY <2>1, <2>2, OverType DEF ReqsEnd
  <1> QED
    BY <1>0, <1>1, IdleShrinks, NothingRemoved, Removal

-----------------------------------------------------------------------------
(* The actions before a commit. *)

\* A request that has not begun has left nothing on disk.
LEMMA Fresh0 ==
  ASSUME Inv, NEW r \in Request, req[r].pc \in {"new", "concat"}
  PROVE  ~Done(r) /\ r \notin files /\ r \notin sidecars /\ composite[r] = {}
  BY DEF Inv, Placed, Composites, Done, Pending

LEMMA FilesStay ==
  ASSUME TypeOK, UNCHANGED disk, NEW r \in Request
  PROVE  OwnFiles(r)
  BY Types DEF OwnFiles, disk

LEMMA PublishOwn ==
  ASSUME InTime, TypeOK, NEW r \in Request, Publish(r), UNCHANGED <<sidecars, composite>>
  PROVE  OwnFiles(r) /\ r \in files' /\ age'[r] = 0
  <1>1. age' = [age EXCEPT ![r] = 0] /\ age \in [Request -> 0 .. Grace] /\ 0 \in 0 .. Grace
    BY Types DEF Publish, InTime
  <1>2. age' \in [Request -> 0 .. Grace] /\ age'[r] = 0 /\ \A b \in Request : b # r => age'[b] = age[b]
    BY <1>1
  <1> QED
    BY <1>2, Types DEF OwnFiles, Publish

\* PutObject and UploadPart: the file is there, its sidecar is not.
LEMMA PutKeeps ==
  ASSUME InTime, Inv, NEW r \in Request, NEW q0, NEW q, q = [q0 EXCEPT !.pc = "sidecar"],
         q \in ReqType, q.pc = "sidecar", q.kind \in {"put", "part"}, ~q.fast, q.todo = {},
         q.kind = "part" => q.upload \in Upload /\ q.part \in PartNo,
         Put(r, q0)
  PROVE  Inv'
  <1>0. /\ TypeOK /\ req[r] = New /\ req' = [req EXCEPT ![r] = q] /\ Publish(r)
        /\ UNCHANGED store /\ UNCHANGED <<sidecars, composite>> /\ UNCHANGED gc
    BY DEF Inv, Put, Start, store
  <1>1. ~Done(r) /\ r \notin files /\ r \notin sidecars /\ composite[r] = {}
    BY <1>0, OverType, Fresh0
  <1>2. Becomes(r, q)
    BY <1>0 DEF Becomes
  <1>3. req'[r] = q
    BY <1>0, <1>2, BecomesOne
  <1>4. OwnFiles(r) /\ r \in files' /\ age'[r] = 0
    BY <1>0, PublishOwn
  <1>5. OnDisk(r, q)
    BY <1>0, <1>1, <1>4 DEF OnDisk, InTime
  <1>6. Brings(r)'
    BY <1>3, <1>4 DEF Brings, Done, Pending, Writes
  <1> QED
    BY <1>0, <1>1, <1>2, <1>4, <1>5, <1>6, Advance

LEMMA PutObjectKeeps ==
  ASSUME InTime, Inv, NEW r \in Request, PutObject(r)
  PROVE  Inv'
  <1> DEFINE q0 == [Over EXCEPT !.kind = "put"]
  <1> DEFINE q == [q0 EXCEPT !.pc = "sidecar"]
  <1>1. /\ q \in ReqType /\ q.pc = "sidecar" /\ q.kind = "put" /\ ~q.fast /\ q.todo = {}
    BY DEF Over, ReqType, Kind
  <1>2. Put(r, q0)
    BY DEF PutObject
  <1> HIDE DEF q0
  <1> QED
    BY <1>1, <1>2, PutKeeps

LEMMA UploadPartKeeps ==
  ASSUME InTime, Inv, NEW r \in Request, NEW u \in Upload, NEW n \in PartNo, UploadPart(r, u, n)
  PROVE  Inv'
  <1> DEFINE q0 == [Over EXCEPT !.kind = "part", !.upload = u, !.part = n]
  <1> DEFINE q == [q0 EXCEPT !.pc = "sidecar"]
  <1>1. /\ q \in ReqType /\ q.pc = "sidecar" /\ q.kind = "part" /\ ~q.fast /\ q.todo = {}
        /\ q.upload = u /\ q.part = n
    BY DEF Over, ReqType, Kind
  <1>2. Put(r, q0)
    BY DEF UploadPart
  <1> HIDE DEF q0
  <1> QED
    BY <1>1, <1>2, PutKeeps

LEMMA CompleteKeeps ==
  ASSUME InTime, Inv, NEW r \in Request, NEW u \in Upload, NEW bs \in SUBSET Request,
         NEW cond \in BOOLEAN, CompleteMultipartUpload(r, u, bs, cond)
  PROVE  Inv'
  <1> DEFINE q == [Over EXCEPT !.pc = "concat", !.kind = "complete", !.upload = u,
                               !.blobs = bs, !.cond = cond]
  <1>1. /\ q \in ReqType /\ q.pc = "concat" /\ q.kind = "complete" /\ ~q.fast /\ q.todo = {}
        /\ q.upload = u /\ q.blobs = bs
    BY DEF Over, ReqType, Kind
  <1>2. /\ TypeOK /\ u \in uploads /\ bs # {} /\ bs \subseteq {p.blob : p \in Parts(u)}
        /\ req[r] = New /\ req' = [req EXCEPT ![r] = q]
        /\ UNCHANGED store /\ UNCHANGED disk /\ UNCHANGED gc
    BY DEF CompleteMultipartUpload, Start, Inv, store, disk, Parts
  <1> HIDE DEF q
  <1>3. ~Done(r) /\ r \notin files /\ r \notin sidecars /\ composite[r] = {}
    BY <1>2, OverType, Fresh0
  <1>4. Becomes(r, q)
    BY <1>1, <1>2 DEF Becomes
  <1>5. req'[r] = q
    BY <1>2, <1>4, BecomesOne
  <1>6. OwnFiles(r)
    BY <1>2, FilesStay
  <1>7. OnDisk(r, q)
    BY <1>2, <1>3 DEF OnDisk, disk
  <1>8. Brings(r)'
    BY <1>1, <1>2, <1>5 DEF Brings, Done, Pending, Writes
  <1>9. bs \subseteq PartBlobs /\ PartBlobs \subseteq Needed
    BY <1>2 DEF PartBlobs, Parts, Needed
  <1>10. u \in created
    BY <1>2 DEF TypeOK
  <1> QED
    BY <1>1, <1>2, <1>3, <1>4, <1>6, <1>7, <1>8, <1>9, <1>10, NeededDone, Advance

\* Abort and DeleteObject have no blob.
LEMMA BareCommit ==
  ASSUME InTime, Inv, NEW r \in Request, NEW q \in ReqType,
         q.pc = "commit", q.kind \in {"abort", "delete"}, ~q.fast, q.todo = {},
         Start(r, q), UNCHANGED store, UNCHANGED disk, UNCHANGED gc
  PROVE  Inv'
  <1>2. /\ TypeOK /\ req[r] = New /\ req' = [req EXCEPT ![r] = q]
    BY DEF Start, Inv
  <1>3. ~Done(r) /\ r \notin files /\ r \notin sidecars /\ composite[r] = {}
    BY <1>2, OverType, Fresh0
  <1>4. Becomes(r, q)
    BY <1>2 DEF Becomes
  <1>5. req'[r] = q
    BY <1>2, <1>4, BecomesOne
  <1>6. OwnFiles(r)
    BY <1>2, FilesStay
  <1>7. OnDisk(r, q)
    BY <1>2, <1>3 DEF OnDisk, disk
  <1>8. Brings(r)'
    BY <1>5 DEF Brings, Done, Pending, Writes
  <1> QED
    BY <1>2, <1>3, <1>4, <1>6, <1>7, <1>8, Advance

LEMMA AbortKeeps ==
  ASSUME InTime, Inv, NEW r \in Request, NEW u \in Upload, AbortMultipartUpload(r, u)
  PROVE  Inv'
  <1> DEFINE q == [Over EXCEPT !.pc = "commit", !.kind = "abort", !.upload = u]
  <1>1. q \in ReqType /\ q.pc = "commit" /\ q.kind = "abort" /\ ~q.fast /\ q.todo = {}
    BY DEF Over, ReqType, Kind
  <1>2. Start(r, q) /\ UNCHANGED store /\ UNCHANGED disk /\ UNCHANGED gc
    BY DEF AbortMultipartUpload, store, disk
  <1> HIDE DEF q
  <1> QED
    BY <1>1, <1>2, BareCommit

LEMMA DeleteObjectKeeps ==
  ASSUME InTime, Inv, NEW r \in Request, DeleteObject(r)
  PROVE  Inv'
  <1> DEFINE q == [Over EXCEPT !.pc = "commit", !.kind = "delete"]
  <1>1. q \in ReqType /\ q.pc = "commit" /\ q.kind = "delete" /\ ~q.fast /\ q.todo = {}
    BY DEF Over, ReqType, Kind
  <1>2. Start(r, q) /\ UNCHANGED store /\ UNCHANGED disk /\ UNCHANGED gc
    BY DEF DeleteObject, store, disk
  <1> HIDE DEF q
  <1> QED
    BY <1>1, <1>2, BareCommit

LEMMA ConcatFastKeeps ==
  ASSUME InTime, Inv, NEW r \in Request, ConcatFast(r)
  PROVE  Inv'
  <1> DEFINE q == [req[r] EXCEPT !.pc = "sidecar", !.fast = TRUE]
  <1>0. TypeOK /\ req \in [Request -> ReqType]
    BY Types DEF Inv
  <1>1. /\ req[r].pc = "concat" /\ UNCHANGED store /\ UNCHANGED disk /\ UNCHANGED gc
    BY DEF ConcatFast, store, disk
  <1>2. req' = [req EXCEPT ![r] = q]
    BY <1>0 DEF ConcatFast
  <1>3. req[r] \in ReqType
    BY <1>0
  <1>4. /\ q \in ReqType /\ q.pc = "sidecar" /\ q.fast /\ q.kind = req[r].kind /\ q.todo = req[r].todo
        /\ q.upload = req[r].upload /\ q.blobs = req[r].blobs /\ q.part = req[r].part
    BY <1>3 DEF ReqType
  <1> HIDE DEF q
  <1>5. ~Done(r) /\ r \notin files /\ r \notin sidecars /\ composite[r] = {}
    BY <1>1, Fresh0
  <1>6. req[r].kind = "complete" /\ req[r].blobs # {} /\ req[r].todo = {}
    BY <1>1 DEF Inv, Written, Brings, Done
  <1>7. Becomes(r, q)
    BY <1>2, <1>4 DEF Becomes
  <1>8. req'[r] = q
    BY <1>0, <1>7, BecomesOne
  <1>9. OwnFiles(r)
    BY <1>0, <1>1, FilesStay
  <1>10. OnDisk(r, q)
    BY <1>1, <1>5 DEF OnDisk, disk
  <1>11. Brings(r)'
    BY <1>4, <1>6, <1>8 DEF Brings, Done, Pending, Writes
  <1>12. Lists(r)
    BY DEF Inv, ListedStay
  <1> QED
    BY <1>1, <1>4, <1>5, <1>6, <1>7, <1>9, <1>10, <1>11, <1>12, Advance DEF Lists

LEMMA ConcatCopyKeeps ==
  ASSUME InTime, Inv, NEW r \in Request, ConcatCopy(r)
  PROVE  Inv'
  <1> DEFINE q == [req[r] EXCEPT !.pc = "sidecar"]
  <1>0. TypeOK /\ req \in [Request -> ReqType]
    BY Types DEF Inv
  <1>1. /\ req[r].pc = "concat" /\ Publish(r)
        /\ UNCHANGED store /\ UNCHANGED <<sidecars, composite>> /\ UNCHANGED gc
    BY DEF ConcatCopy, store
  <1>2. req' = [req EXCEPT ![r] = q]
    BY <1>0 DEF ConcatCopy, Go
  <1>3. req[r] \in ReqType
    BY <1>0
  <1>4. /\ q \in ReqType /\ q.pc = "sidecar" /\ q.kind = req[r].kind /\ q.todo = req[r].todo
        /\ q.upload = req[r].upload /\ q.blobs = req[r].blobs /\ q.part = req[r].part
        /\ q.fast = req[r].fast
    BY <1>3 DEF ReqType
  <1> HIDE DEF q
  <1>5. ~Done(r) /\ r \notin files /\ r \notin sidecars /\ composite[r] = {}
    BY <1>1, Fresh0
  <1>6. req[r].kind = "complete" /\ req[r].blobs # {} /\ req[r].todo = {} /\ ~req[r].fast
    BY <1>1 DEF Inv, Written, Brings, Done
  <1>7. Becomes(r, q)
    BY <1>2, <1>4 DEF Becomes
  <1>8. req'[r] = q
    BY <1>0, <1>7, BecomesOne
  <1>9. OwnFiles(r) /\ r \in files' /\ age'[r] = 0
    BY <1>0, <1>1, PublishOwn
  <1>10. OnDisk(r, q)
    BY <1>1, <1>4, <1>5, <1>9 DEF OnDisk, InTime
  <1>11. Brings(r)'
    BY <1>4, <1>6, <1>8, <1>9 DEF Brings, Done, Pending, Writes
  <1>12. Lists(r)
    BY DEF Inv, ListedStay
  <1> QED
    BY <1>1, <1>4, <1>5, <1>6, <1>7, <1>9, <1>10, <1>11, <1>12, Advance DEF Lists

LEMMA WriteSidecarKeeps ==
  ASSUME InTime, Inv, NEW r \in Request, WriteSidecar(r)
  PROVE  Inv'
  <1> DEFINE q == [req[r] EXCEPT !.pc = "commit"]
  <1>0. TypeOK /\ req \in [Request -> ReqType]
    BY Types DEF Inv
  <1>1. /\ req[r].pc = "sidecar" /\ UNCHANGED store /\ files' = files /\ age' = age /\ UNCHANGED gc
        /\ sidecars' = sidecars \cup {r}
        /\ composite' = [composite EXCEPT ![r] = IF req[r].fast THEN req[r].blobs ELSE {}]
    BY DEF WriteSidecar, store
  <1>2. req' = [req EXCEPT ![r] = q]
    BY <1>0 DEF WriteSidecar, Go
  <1>3. req[r] \in ReqType
    BY <1>0
  <1>4. /\ q \in ReqType /\ q.pc = "commit" /\ q.kind = req[r].kind /\ q.todo = req[r].todo
        /\ q.upload = req[r].upload /\ q.blobs = req[r].blobs /\ q.part = req[r].part
        /\ q.fast = req[r].fast
    BY <1>3 DEF ReqType
  <1> HIDE DEF q
  <1>5. ~Done(r)
    BY <1>1 DEF Done
  <1>6. Brings(r) /\ Lists(r) /\ req[r].todo = {}
    BY <1>1 DEF Inv, Written, ListedStay, Brings, Done
  <1>7. Becomes(r, q)
    BY <1>2, <1>4 DEF Becomes
  <1>8. req'[r] = q
    BY <1>0, <1>7, BecomesOne
  <1>9. /\ composite' \in [Request -> SUBSET Request]
        /\ \A b \in Request : b # r => composite'[b] = composite[b]
        /\ composite'[r] = IF req[r].fast THEN req[r].blobs ELSE {}
    BY <1>0, <1>1, <1>3, Types, ReqFields
  <1>10. OwnFiles(r)
    BY <1>0, <1>1, <1>9, Types DEF OwnFiles
  <1>11. OnDisk(r, q)
    <2>1. r \in files' => age'[r] <= UploadTime
      BY <1>1 DEF Inv, Fresh, Pending
    <2>2. \A c \in composite'[r] : Done(c)
      BY <1>6, <1>9 DEF Brings, Lists
    <2> QED
      BY <1>1, <1>4, <2>1, <2>2 DEF OnDisk
  <1>12. Brings(r)'
    BY <1>1, <1>4, <1>6, <1>8, <1>9 DEF Brings, Done, Pending, Writes
  <1> QED
    BY <1>1, <1>4, <1>5, <1>6, <1>7, <1>10, <1>11, <1>12, Advance DEF Lists

-----------------------------------------------------------------------------
(* The commits. *)

LEMMA AtCommit ==
  ASSUME Inv, NEW r \in Request, req[r].pc = "commit"
  PROVE  ~Done(r) /\ r \notin Needed /\ r \notin PartBlobs /\ Brings(r) /\ Lists(r)
  <1>1. ~Done(r)
    BY DEF Done
  <1>2. r \notin Needed
    BY <1>1, NeededDone
  <1> QED
    BY <1>1, <1>2 DEF Needed, Inv, Written, ListedStay

\* What an object is made of is none of the parts, nor a blob not yet in a row.
LEMMA OldObject ==
  ASSUME Inv, NEW r \in Request, ~Done(r), NEW b \in {object} \ {0}
  PROVE  b \in Request /\ Done(b) /\ ({b} \cup composite[b]) \cap (PartBlobs \cup {r}) = {}
  <1>1. object # 0 /\ b = object /\ object \in Request /\ object \in Needed
    BY DEF Inv, TypeOK, Needed
  <1>2. Done(b) /\ \A c \in composite[b] : Done(c)
    BY <1>1, NeededDone, CompositeDone
  <1>3. r \notin {b} \cup composite[b]
    BY <1>2
  <1> QED
    BY <1>1, <1>2, <1>3 DEF Inv, OneOwner

\* The blob of a part is in no other row.
LEMMA OldPart ==
  ASSUME Inv, NEW PS \in SUBSET parts, NEW b \in {p.blob : p \in PS}
  PROVE  /\ b \in Request /\ Done(b) /\ composite[b] = {}
         /\ b \notin {p.blob : p \in parts \ PS}
         /\ b # object
         /\ object # 0 => b \notin composite[object]
  <1>1. b \in PartBlobs
    BY DEF PartBlobs
  <1>2. b \in Needed
    BY <1>1 DEF Needed
  <1>3. b \notin {p.blob : p \in parts \ PS}
    BY DEF Inv, OneOwner
  <1> QED
    BY <1>1, <1>2, <1>3, NeededDone DEF Inv, OneOwner, Composites

LEMMA CommitPutKeeps ==
  ASSUME InTime, Inv, NEW r \in Request, CommitPut(r)
  PROVE  Inv'
  <1> DEFINE bs == {object} \ {0}
  <1> DEFINE q == IF bs = {} THEN Over ELSE [Over EXCEPT !.pc = "cleanup", !.todo = bs]
  <1>0. /\ TypeOK /\ req[r].pc = "commit" /\ req[r].kind = "put" /\ object' = r
        /\ created' = created /\ uploads' = uploads /\ parts' = parts
        /\ UNCHANGED disk /\ UNCHANGED gc
    BY DEF CommitPut, Inv, disk
  <1>1. bs \in SUBSET Request
    BY <1>0 DEF TypeOK
  <1>2. q \in ReqType /\ q.pc \in {"over", "cleanup"} /\ q.kind = "none" /\ ~q.fast /\ q.todo = bs
    BY <1>1, CleanUpType
  <1>3. req' = [req EXCEPT ![r] = q]
    BY DEF CommitPut, CleanUp
  <1> HIDE DEF q
  <1>4. Becomes(r, q)
    BY <1>2, <1>3 DEF Becomes
  <1>5. ~Done(r) /\ r \notin Needed /\ r \notin PartBlobs /\ Brings(r)
    BY <1>0, AtCommit
  <1>6. r \in files /\ r \in sidecars /\ composite[r] = {} /\ r # 0
    BY <1>0, <1>5 DEF Brings, Pending, Writes, InTime
  <1>7. files' = files /\ sidecars' = sidecars /\ composite' = composite
    BY <1>0 DEF disk
  <1>8. PartBlobs' = PartBlobs
    BY <1>0 DEF PartBlobs
  <1>9. Needed' = PartBlobs \cup {r}
    BY <1>0, <1>6, <1>7, <1>8 DEF Needed
  <1>10. RowsInOrder
    <2>1. OneOwner'
      BY <1>0, <1>5, <1>6, <1>7, <1>8 DEF OneOwner, Inv
    <2>2. RowsReadable'
      BY <1>0, <1>6, <1>7 DEF RowsReadable, Readable, Inv
    <2>3. Referenced' \subseteq Referenced \cup {r}
      BY <1>0 DEF Referenced
    <2>4. RowAfterSidecar'
      BY <2>3, <1>6, <1>7 DEF RowAfterSidecar, Inv
    <2> QED
      BY <1>0, <1>8, <2>1, <2>2, <2>4 DEF RowsInOrder, TypeOK, Inv, Composites
  <1>11. RowsOf(r)
    BY <1>9 DEF RowsOf, Needed, Inv, OneOwner, InTime
  <1>12. ListsKept(r)
    BY <1>0 DEF ListsKept, Inv, ListedStay, Lists, Parts
  <1>13. \A b \in q.todo : Done(b) /\ ({b} \cup composite[b]) \cap Needed' = {}
    BY <1>2, <1>5, <1>9, OldObject
  <1> QED
    BY <1>0, <1>2, <1>4, <1>10, <1>11, <1>12, <1>13, Commit

LEMMA CommitDeleteKeeps ==
  ASSUME InTime, Inv, NEW r \in Request, CommitDelete(r)
  PROVE  Inv'
  <1> DEFINE bs == {object} \ {0}
  <1> DEFINE q == IF bs = {} THEN Over ELSE [Over EXCEPT !.pc = "cleanup", !.todo = bs]
  <1>0. /\ TypeOK /\ req[r].pc = "commit" /\ object' = 0
        /\ created' = created /\ uploads' = uploads /\ parts' = parts
        /\ UNCHANGED disk /\ UNCHANGED gc
    BY DEF CommitDelete, Inv, disk
  <1>1. bs \in SUBSET Request
    BY <1>0 DEF TypeOK
  <1>2. q \in ReqType /\ q.pc \in {"over", "cleanup"} /\ q.kind = "none" /\ ~q.fast /\ q.todo = bs
    BY <1>1, CleanUpType
  <1>3. req' = [req EXCEPT ![r] = q]
    BY DEF CommitDelete, CleanUp
  <1> HIDE DEF q
  <1>4. Becomes(r, q)
    BY <1>2, <1>3 DEF Becomes
  <1>5. ~Done(r)
    BY <1>0, AtCommit
  <1>7. files' = files /\ sidecars' = sidecars /\ composite' = composite
    BY <1>0 DEF disk
  <1>8. PartBlobs' = PartBlobs /\ PartBlobs \subseteq Request
    BY <1>0, PartFields DEF PartBlobs
  <1>9. Needed' = PartBlobs
    BY <1>0, <1>8 DEF Needed
  <1>10. RowsInOrder
    <2>1. OneOwner'
      BY <1>0, <1>8 DEF OneOwner, Inv, InTime
    <2>2. RowsReadable'
      BY <1>0, <1>7 DEF RowsReadable, Inv
    <2>3. Referenced' \subseteq Referenced
      BY <1>0 DEF Referenced
    <2>4. RowAfterSidecar'
      BY <2>3, <1>7 DEF RowAfterSidecar, Inv
    <2> QED
      BY <1>0, <1>8, <2>1, <2>2, <2>4 DEF RowsInOrder, TypeOK, Inv, Composites
  <1>11. RowsOf(r)
    BY <1>9 DEF RowsOf, Needed, Inv, OneOwner, InTime
  <1>12. ListsKept(r)
    BY <1>0 DEF ListsKept, Inv, ListedStay, Lists, Parts
  <1>13. \A b \in q.todo : Done(b) /\ ({b} \cup composite[b]) \cap Needed' = {}
    BY <1>2, <1>5, <1>9, OldObject
  <1> QED
    BY <1>0, <1>2, <1>4, <1>10, <1>11, <1>12, <1>13, Commit

LEMMA PutPartKeeps ==
  ASSUME InTime, ~ReplaceListed, Inv, NEW r \in Request, PutPart(r)
  PROVE  Inv'
  <1> DEFINE old == {p \in parts : p.upload = req[r].upload /\ p.part = req[r].part}
  <1> DEFINE bs == {p.blob : p \in old}
  <1> DEFINE row == [upload |-> req[r].upload, part |-> req[r].part, blob |-> r]
  <1> DEFINE q == IF bs = {} THEN Over ELSE [Over EXCEPT !.pc = "cleanup", !.todo = bs]
  <1>0. /\ TypeOK /\ req[r].pc = "commit" /\ req[r].kind = "part" /\ object' = object
        /\ created' = created /\ uploads' = uploads
        /\ \A p \in old : ~Listed(p.blob)
        /\ parts' = (parts \ old) \cup {row}
        /\ UNCHANGED disk /\ UNCHANGED gc
    BY DEF PutPart, Inv, disk
  <1>1. old \in SUBSET parts /\ bs \in SUBSET Request
    BY <1>0, PartFields
  <1>2. q \in ReqType /\ q.pc \in {"over", "cleanup"} /\ q.kind = "none" /\ ~q.fast /\ q.todo = bs
    BY <1>1, CleanUpType
  <1>3. req' = [req EXCEPT ![r] = q]
    BY DEF PutPart, CleanUp
  <1>4. Becomes(r, q)
    BY <1>2, <1>3 DEF Becomes
  <1>5. ~Done(r) /\ r \notin Needed /\ r \notin PartBlobs /\ Brings(r)
    BY <1>0, AtCommit
  <1>6. /\ r \in files /\ r \in sidecars /\ composite[r] = {} /\ r # 0
        /\ req[r].upload \in Upload /\ req[r].part \in PartNo
    BY <1>0, <1>5 DEF Brings, Pending, Writes, InTime
  <1>7. files' = files /\ sidecars' = sidecars /\ composite' = composite
    BY <1>0 DEF disk
  <1>8. row \in PartRow /\ row.blob = r /\ row.upload = req[r].upload
    BY <1>6 DEF PartRow
  <1> HIDE DEF q, row
  <1>9. PartBlobs' = {p.blob : p \in parts \ old} \cup {r}
    BY <1>0, <1>8 DEF PartBlobs
  <1>10. {p.blob : p \in parts \ old} \subseteq PartBlobs
    BY DEF PartBlobs
  <1> DEFINE rest == {p.blob : p \in parts \ old}
  <1>11. Needed' = rest \cup {r} \cup (IF object = 0 THEN {} ELSE {object} \cup composite[object])
    BY <1>0, <1>7, <1>9 DEF Needed
  <1>12. object # r /\ (object # 0 => r \notin composite[object])
    BY <1>5, <1>6 DEF Needed
  <1>13. RowsInOrder
    <2>1. OneOwner'
      <3>1. ASSUME NEW p \in parts', NEW s \in parts', p.blob = s.blob
            PROVE  p = s
        <4>1. \A t \in parts : t.blob # r
          BY <1>5 DEF PartBlobs
        <4> QED
          BY <3>1, <4>1, <1>0, <1>8 DEF Inv, OneOwner
      <3>2. object' \notin PartBlobs'
        BY <1>0, <1>9, <1>10, <1>12 DEF Inv, OneOwner
      <3>3. object' # 0 => composite'[object'] \cap (PartBlobs' \cup {object'}) = {}
        BY <1>0, <1>7, <1>9, <1>10, <1>12 DEF Inv, OneOwner
      <3> QED
        BY <3>1, <3>2, <3>3 DEF OneOwner
    <2>2. RowsReadable'
      <3>1. \A p \in parts' : p.blob \in files'
        BY <1>0, <1>6, <1>7, <1>8 DEF RowsReadable, Inv
      <3>2. object' # 0 => Readable(object)'
        BY <1>0, <1>7 DEF RowsReadable, Readable, Inv
      <3> QED
        BY <3>1, <3>2 DEF RowsReadable
    <2>3. Referenced' \subseteq Referenced \cup {r}
      BY <1>0, <1>8 DEF Referenced
    <2>4. RowAfterSidecar'
      BY <2>3, <1>6, <1>7 DEF RowAfterSidecar, Inv
    <2>5. parts' \subseteq PartRow
      BY <1>0, <1>8 DEF TypeOK
    <2>6. \A b \in PartBlobs' : composite[b] = {}
      BY <1>6, <1>9, <1>10 DEF Inv, Composites
    <2> QED
      BY <1>0, <2>1, <2>2, <2>4, <2>5, <2>6 DEF RowsInOrder, TypeOK
  <1>14. RowsOf(r)
    BY <1>0, <1>10, <1>11 DEF RowsOf, Needed
  <1>15. ListsKept(r)
    <2> SUFFICES ASSUME NEW s \in Request, req[s].kind = "complete", req[s].upload \in uploads,
                        NEW b \in req[s].blobs
                 PROVE  b \in {p.blob : p \in {x \in parts' : x.upload = req[s].upload}}
      BY <1>0 DEF ListsKept
    <2>1. PICK p \in Parts(req[s].upload) : b = p.blob
      BY DEF Inv, ListedStay, Lists
    <2>2. Listed(b)
      BY DEF Listed
    <2>3. p \in parts /\ p \notin old /\ p.upload = req[s].upload
      BY <2>1, <2>2, <1>0 DEF Parts
    <2> QED
      BY <2>1, <2>3, <1>0
  <1>16. ASSUME NEW b \in q.todo
         PROVE  Done(b) /\ ({b} \cup composite[b]) \cap Needed' = {}
    <2>1. b \in bs
      BY <1>2
    <2>2. /\ b \in Request /\ Done(b) /\ composite[b] = {} /\ b \notin rest
          /\ b # object /\ (object # 0 => b \notin composite[object])
      BY <2>1, <1>1, OldPart
    <2> HIDE DEF rest
    <2> QED
      BY <2>2, <1>5, <1>11
  <1> QED
    BY <1>0, <1>2, <1>4, <1>13, <1>14, <1>15, <1>16, Commit

\* What take_upload leaves of the rows.
LEMMA Taken ==
  ASSUME Inv, NEW u, TakeUpload(u)
  PROVE  /\ parts' = parts \ Parts(u) /\ created' = created
         /\ uploads' \subseteq uploads /\ u \notin uploads'
         /\ Parts(u) \in SUBSET parts
         /\ PartBlobs' = {p.blob : p \in parts \ Parts(u)}
         /\ PartBlobs' \subseteq PartBlobs
         /\ parts' \subseteq PartRow
         /\ \A b \in PartBlobs' : composite[b] = {}
  BY DEF TakeUpload, Parts, PartBlobs, Inv, TypeOK, Composites

LEMMA TakenLists ==
  ASSUME Inv, NEW u, TakeUpload(u), NEW r \in Request
  PROVE  ListsKept(r)
  <1> SUFFICES ASSUME NEW s \in Request, req[s].kind = "complete", req[s].upload \in uploads',
                      NEW b \in req[s].blobs
               PROVE  b \in {p.blob : p \in {x \in parts' : x.upload = req[s].upload}}
    BY DEF ListsKept
  <1>1. req[s].upload \in uploads /\ req[s].upload # u
    BY DEF TakeUpload
  <1>2. PICK p \in Parts(req[s].upload) : b = p.blob
    BY <1>1 DEF Inv, ListedStay, Lists
  <1>3. p \in parts' /\ p.upload = req[s].upload
    BY <1>1, <1>2 DEF TakeUpload, Parts
  <1> QED
    BY <1>2, <1>3

LEMMA CommitAbortKeeps ==
  ASSUME InTime, Inv, NEW r \in Request, CommitAbort(r)
  PROVE  Inv'
  <1> DEFINE u == req[r].upload
  <1> DEFINE bs == {p.blob : p \in Parts(u)}
  <1> DEFINE q == IF bs = {} THEN Over ELSE [Over EXCEPT !.pc = "cleanup", !.todo = bs]
  <1>0. /\ TypeOK /\ req[r].pc = "commit" /\ object' = object /\ TakeUpload(u)
        /\ UNCHANGED disk /\ UNCHANGED gc
    BY DEF CommitAbort, Inv, disk
  <1>1. /\ parts' = parts \ Parts(u) /\ created' = created
        /\ uploads' \subseteq uploads /\ u \notin uploads'
        /\ Parts(u) \in SUBSET parts
        /\ PartBlobs' = {p.blob : p \in parts \ Parts(u)}
        /\ PartBlobs' \subseteq PartBlobs
        /\ parts' \subseteq PartRow
        /\ \A b \in PartBlobs' : composite[b] = {}
    BY <1>0, Taken
  <1>2. bs \in SUBSET Request
    BY <1>0, PartFields DEF Parts
  <1>3. q \in ReqType /\ q.pc \in {"over", "cleanup"} /\ q.kind = "none" /\ ~q.fast /\ q.todo = bs
    BY <1>2, CleanUpType
  <1>4. req' = [req EXCEPT ![r] = q]
    BY DEF CommitAbort, CleanUp
  <1> HIDE DEF q
  <1>5. Becomes(r, q)
    BY <1>3, <1>4 DEF Becomes
  <1>6. files' = files /\ sidecars' = sidecars /\ composite' = composite
    BY <1>0 DEF disk
  <1>7. Needed' = PartBlobs' \cup (IF object = 0 THEN {} ELSE {object} \cup composite[object])
    BY <1>0, <1>6 DEF Needed
  <1>8. RowsInOrder
    <2>1. OneOwner'
      BY <1>0, <1>1, <1>6 DEF OneOwner, Inv
    <2>2. RowsReadable'
      BY <1>0, <1>1, <1>6 DEF RowsReadable, Readable, Inv
    <2>3. Referenced' \subseteq Referenced
      BY <1>0, <1>1 DEF Referenced
    <2>4. RowAfterSidecar'
      BY <2>3, <1>6 DEF RowAfterSidecar, Inv
    <2> QED
      BY <1>0, <1>1, <2>1, <2>2, <2>4 DEF RowsInOrder, TypeOK
  <1>9. RowsOf(r)
    BY <1>0, <1>1, <1>7 DEF RowsOf, Needed
  <1>10. ListsKept(r)
    BY <1>0, TakenLists
  <1>11. ASSUME NEW b \in q.todo
         PROVE  Done(b) /\ ({b} \cup composite[b]) \cap Needed' = {}
    <2>1. b \in bs
      BY <1>3
    <2>2. /\ b \in Request /\ Done(b) /\ composite[b] = {} /\ b \notin PartBlobs'
          /\ b # object /\ (object # 0 => b \notin composite[object])
      BY <2>1, <1>1, OldPart
    <2> QED
      BY <2>2, <1>7
  <1> QED
    BY <1>0, <1>3, <1>5, <1>8, <1>9, <1>10, <1>11, Commit

\* A Complete in time: a fast one takes its parts over, another one leaves
\* them to the cleanup.
LEMMA CommitCompleteKeeps ==
  ASSUME InTime, Inv, NEW r \in Request, CommitComplete(r)
  PROVE  Inv'
  <1> DEFINE u == req[r].upload
  <1> DEFINE dropped == IF req[r].fast THEN {} ELSE {p.blob : p \in Parts(u)}
  <1> DEFINE bs == ({object} \ {0}) \cup dropped
  <1> DEFINE q == IF bs = {} THEN Over ELSE [Over EXCEPT !.pc = "cleanup", !.todo = bs]
  <1>0. /\ TypeOK /\ req[r].pc = "commit" /\ req[r].kind = "complete" /\ object' = r
        /\ u \in uploads /\ TakeUpload(u)
        /\ UNCHANGED disk /\ UNCHANGED gc
    BY DEF CommitComplete, CompleteAllowed, Inv, disk
  <1>1. /\ parts' = parts \ Parts(u) /\ created' = created
        /\ uploads' \subseteq uploads /\ u \notin uploads'
        /\ Parts(u) \in SUBSET parts
        /\ PartBlobs' = {p.blob : p \in parts \ Parts(u)}
        /\ PartBlobs' \subseteq PartBlobs
        /\ parts' \subseteq PartRow
        /\ \A b \in PartBlobs' : composite[b] = {}
    BY <1>0, Taken
  <1>2. bs \in SUBSET Request
    <2>1. {p.blob : p \in Parts(u)} \subseteq Request
      BY <1>0, PartFields DEF Parts
    <2> QED
      BY <2>1, <1>0 DEF TypeOK
  <1> HIDE DEF bs
  <1>3. q \in ReqType /\ q.pc \in {"over", "cleanup"} /\ q.kind = "none" /\ ~q.fast /\ q.todo = bs
    BY <1>2, CleanUpType
  <1>4. req' = [req EXCEPT ![r] = q]
    BY DEF CommitComplete, CleanUp, bs
  <1> HIDE DEF q
  <1>5. Becomes(r, q)
    BY <1>3, <1>4 DEF Becomes
  <1>6. files' = files /\ sidecars' = sidecars /\ composite' = composite
    BY <1>0 DEF disk
  <1>7. ~Done(r) /\ r \notin Needed /\ r \notin PartBlobs /\ Brings(r) /\ Lists(r) /\ r # 0
    BY <1>0, AtCommit DEF InTime
  <1>8. /\ r \in sidecars /\ (req[r].fast \/ r \in files)
        /\ composite[r] = IF req[r].fast THEN req[r].blobs ELSE {}
    BY <1>0, <1>7 DEF Brings, Pending, Writes
  <1>9. req[r].blobs \subseteq {p.blob : p \in Parts(u)} /\ req[r].blobs # {}
    BY <1>0, <1>7 DEF Lists, Brings
  <1>10. \A b \in {p.blob : p \in Parts(u)} :
           /\ b \in Request /\ Done(b) /\ composite[b] = {} /\ b \notin PartBlobs' /\ b \in PartBlobs
           /\ b # object /\ (object # 0 => b \notin composite[object])
    <2>1. {p.blob : p \in Parts(u)} \subseteq PartBlobs
      BY <1>1 DEF PartBlobs
    <2> QED
      BY <2>1, <1>1, OldPart
  <1> DEFINE taken == {p.blob : p \in Parts(u)}
  <1>11. composite[r] \subseteq taken /\ composite[r] \cap dropped = {}
    BY <1>8, <1>9
  <1>12. taken \subseteq PartBlobs /\ taken \cap PartBlobs' = {} /\ r \notin taken
    BY <1>7, <1>10
  <1>13. dropped \subseteq taken
    OBVIOUS
  <1>14. \A b \in taken : Done(b) /\ composite[b] = {}
    BY <1>10
  <1>15. req[r].fast => composite[r] # {} /\ composite[r] \subseteq taken
    BY <1>8, <1>9
  <1> HIDE DEF dropped, taken
  <1>16. Needed' = PartBlobs' \cup {r} \cup composite[r]
    BY <1>0, <1>6, <1>7 DEF Needed
  <1>17. RowsInOrder
    <2>1. OneOwner'
      <3>1. \A p, s \in parts' : p.blob = s.blob => p = s
        BY <1>1 DEF OneOwner, Inv
      <3>2. object' \notin PartBlobs'
        BY <1>0, <1>1, <1>7
      <3>3. composite'[object'] \cap (PartBlobs' \cup {object'}) = {}
        BY <1>0, <1>6, <1>11, <1>12
      <3> QED
        BY <3>1, <3>2, <3>3 DEF OneOwner
    <2>2. RowsReadable'
      <3>1. \A p \in parts' : p.blob \in files'
        BY <1>1, <1>6 DEF RowsReadable, Inv
      <3>2. PartBlobs \subseteq files
        BY DEF RowsReadable, Inv, PartBlobs
      <3>3. composite[r] # {} => composite[r] \subseteq files
        BY <3>2, <1>11, <1>12
      <3>4. composite[r] = {} => r \in files
        BY <1>8, <1>15
      <3>5. Readable(object)'
        BY <3>3, <3>4, <1>0, <1>6, <1>8 DEF Readable
      <3> QED
        BY <3>1, <3>5 DEF RowsReadable
    <2>3. Referenced' \subseteq Referenced \cup {r}
      BY <1>0, <1>1 DEF Referenced
    <2>4. RowAfterSidecar'
      BY <2>3, <1>6, <1>8 DEF RowAfterSidecar, Inv
    <2> QED
      BY <1>0, <1>1, <2>1, <2>2, <2>4 DEF RowsInOrder, TypeOK
  <1>18. RowsOf(r)
    <2> SUFFICES ASSUME NEW b \in Needed', b # r
                 PROVE  b \in Needed /\ (object \in Request => b \notin composite[object])
      BY DEF RowsOf
    <2>1. b \in PartBlobs
      BY <1>1, <1>11, <1>12, <1>16
    <2> QED
      BY <2>1 DEF Needed, Inv, OneOwner, InTime
  <1>19. ListsKept(r)
    BY <1>0, TakenLists
  <1>20. ASSUME NEW b \in q.todo
         PROVE  Done(b) /\ ({b} \cup composite[b]) \cap Needed' = {}
    <2>1. Needed' \subseteq PartBlobs \cup {r}
      BY <1>1, <1>11, <1>12, <1>16
    <2>2. CASE b \in {object} \ {0}
      BY <2>1, <2>2, <1>7, OldObject
    <2>3. CASE b \in dropped
      BY <2>3, <1>11, <1>12, <1>13, <1>14, <1>16
    <2> QED
      BY <2>2, <2>3, <1>3 DEF bs
  <1> QED
    BY <1>0, <1>3, <1>5, <1>17, <1>18, <1>19, <1>20, Commit

-----------------------------------------------------------------------------
(* The collector's reads, time, and new uploads. *)

\* Neither rows, nor files, nor requests change.
LEMMA GcReads ==
  ASSUME Inv, UNCHANGED store, UNCHANGED disk, UNCHANGED req,
         gc' \in GcType, Planned', Seen'
  PROVE  Inv'
  <1>0. /\ created' = created /\ uploads' = uploads /\ parts' = parts /\ object' = object
        /\ files' = files /\ age' = age /\ sidecars' = sidecars /\ composite' = composite
        /\ req' = req
    BY DEF store, disk
  <1>1. TypeOK'
    BY <1>0 DEF Inv, TypeOK, GcType
  <1>2. RowsReadable' /\ RowAfterSidecar' /\ OneOwner'
    BY <1>0 DEF Inv, RowsReadable, Readable, RowAfterSidecar, Referenced, OneOwner, PartBlobs
  <1>3. Composites' /\ Placed'
    BY <1>0 DEF Inv, Composites, Placed, PartBlobs, Referenced, Done, Pending
  <1>4. Written' /\ ListedStay'
    BY <1>0 DEF Inv, Written, Brings, ListedStay, Lists, Parts, Done, Pending
  <1>5. Cleared' /\ Fresh'
    BY <1>0 DEF Inv, Cleared, Fresh, Needed, PartBlobs, Done, Pending
  <1> QED
    BY <1>1, <1>2, <1>3, <1>4, <1>5 DEF Inv

LEMMA NeededStays ==
  ASSUME UNCHANGED store, UNCHANGED disk, UNCHANGED req
  PROVE  Needed' = Needed /\ files' = files /\ \A b : Done(b)' = Done(b)
  BY DEF store, disk, Needed, PartBlobs, Done

LEMMA GcRowsKeeps ==
  ASSUME InTime, Inv, GcRows
  PROVE  Inv'
  <1> DEFINE g == [GcIdle EXCEPT !.pc = "rows", !.live = Referenced]
  <1>0. TypeOK /\ gc' = g /\ UNCHANGED store /\ UNCHANGED disk /\ UNCHANGED req
    BY DEF Inv, GcRows, store, disk
  <1>1. Referenced \subseteq Request /\ 0 \in 0 .. ScanTime
    BY ReferencedNeeded, NeededDone DEF InTime
  <1>2. g \in GcType /\ g.pc = "rows" /\ g.live = Referenced /\ g.plan = {}
    BY <1>1 DEF GcIdle, GcType
  <1> HIDE DEF g
  <1>3. Planned'
    BY <1>0, <1>2 DEF Planned
  <1>4. Seen'
    <2>1. ASSUME NEW b \in Needed'
          PROVE  b \in gc'.live \/ (object' \in gc'.live /\ b \in composite'[object'])
      BY <1>0, <1>2 DEF Needed, PartBlobs, Referenced, store, disk
    <2> QED
      BY <2>1, <1>0, <1>2 DEF Seen
  <1> QED
    BY <1>0, <1>2, <1>3, <1>4, GcReads

LEMMA GcSidecarsKeeps ==
  ASSUME InTime, Inv, GcSidecars
  PROVE  Inv'
  <1> DEFINE g == [gc EXCEPT !.pc = "sidecars", !.live = WithParts(gc.live)]
  <1>0. TypeOK /\ gc.pc = "rows" /\ gc' = g /\ UNCHANGED store /\ UNCHANGED disk /\ UNCHANGED req
    BY DEF Inv, GcSidecars, store, disk
  <1>1. gc \in GcType /\ gc.live \subseteq Request
    BY <1>0, Types, GcFields
  <1>2. WithParts(gc.live) \subseteq Request
    BY <1>0, <1>1, Types DEF WithParts
  <1>3. g \in GcType /\ g.pc = "sidecars" /\ g.live = WithParts(gc.live) /\ g.plan = gc.plan /\ g.time = gc.time
    BY <1>1, <1>2 DEF GcType
  <1> HIDE DEF g
  <1>4. Needed' = Needed /\ files' = files /\ age' = age /\ \A b : Done(b)' = Done(b)
    BY <1>0, NeededStays DEF disk
  <1>5. Planned'
    BY <1>0, <1>3, <1>4 DEF Planned, Inv
  <1>6. Seen'
    <2> SUFFICES ASSUME NEW b \in Needed' \cap files'
                 PROVE  b \in gc'.live \/ Young(b)'
      BY <1>0, <1>3 DEF Seen
    <2>1. b \in gc.live \/ Young(b) \/ (object \in gc.live /\ b \in composite[object])
      BY <1>0, <1>4 DEF Inv, Seen
    <2>2. CASE object \in gc.live /\ b \in composite[object]
      <3>1. object # 0
        BY <2>2, <1>1 DEF InTime
      <3>2. object \in sidecars
        BY <3>1 DEF Inv, RowAfterSidecar, Referenced
      <3> QED
        BY <2>2, <3>2, <1>0, <1>3 DEF WithParts
    <2>3. CASE b \in gc.live
      BY <2>3, <1>0, <1>3 DEF WithParts
    <2>4. CASE Young(b)
      BY <2>4, <1>0, <1>3, <1>4 DEF Young
    <2> QED
      BY <2>1, <2>2, <2>3, <2>4
  <1> QED
    BY <1>0, <1>3, <1>5, <1>6, GcReads

LEMMA GcPlanKeeps ==
  ASSUME InTime, Inv, GcPlan
  PROVE  Inv'
  <1> DEFINE plan == {b \in files : b \notin gc.live /\ age[b] >= Grace}
  <1> DEFINE g == [gc EXCEPT !.pc = "delete", !.time = 0, !.plan = plan]
  <1>0. TypeOK /\ gc.pc = "sidecars" /\ gc' = g /\ UNCHANGED store /\ UNCHANGED disk /\ UNCHANGED req
    BY DEF Inv, GcPlan, store, disk
  <1>1. gc \in GcType /\ gc.time \in 0 .. ScanTime /\ plan \subseteq Request /\ 0 \in 0 .. ScanTime
    BY <1>0, Types, GcFields DEF TypeOK, InTime
  <1>2. g \in GcType /\ g.pc = "delete" /\ g.plan = plan
    BY <1>1 DEF GcType
  <1> HIDE DEF g
  <1>3. Needed' = Needed /\ \A b : Done(b)' = Done(b)
    BY <1>0, NeededStays
  <1>4. ASSUME NEW b \in plan
        PROVE  Done(b) /\ b \notin Needed
    <2>1. b \in files /\ b \in Request /\ age[b] \in Nat /\ age[b] >= Grace /\ b \notin gc.live
      BY <1>0, <1>1, Types
    <2>2. ~Pending(b)
      BY <2>1 DEF Inv, Fresh, InTime
    <2>3. ~Young(b)
      BY <2>1, <1>1 DEF Young, InTime
    <2> QED
      BY <2>1, <2>2, <2>3, <1>0 DEF Inv, Placed, Seen
  <1>5. Planned'
    BY <1>0, <1>2, <1>3, <1>4 DEF Planned
  <1>6. Seen'
    BY <1>0, <1>2 DEF Seen
  <1> QED
    BY <1>0, <1>2, <1>5, <1>6, GcReads

LEMMA TickKeeps ==
  ASSUME InTime, Inv, Tick
  PROVE  Inv'
  <1> DEFINE reads == gc.pc \in {"rows", "sidecars"}
  <1>0. /\ TypeOK
        /\ \A r \in Request : Pending(r) /\ r \in files => age[r] < UploadTime
        /\ reads => gc.time < ScanTime
        /\ age' = [b \in Request |-> IF b \in files /\ age[b] < Grace THEN age[b] + 1 ELSE age[b]]
        /\ gc' = [gc EXCEPT !.time = IF reads THEN gc.time + 1 ELSE 0]
        /\ created' = created /\ uploads' = uploads /\ parts' = parts /\ object' = object
        /\ files' = files /\ sidecars' = sidecars /\ composite' = composite /\ req' = req
    BY DEF Tick, Inv, store, Pending
  <1>1. gc \in GcType /\ gc.time \in 0 .. ScanTime
    BY <1>0, Types, GcFields
  <1>2. PICK t \in 0 .. ScanTime : t = (IF reads THEN gc.time + 1 ELSE 0)
    BY <1>0, <1>1 DEF InTime
  <1>3. gc' = [gc EXCEPT !.time = t]
    BY <1>0, <1>2
  <1>4. gc' \in GcType /\ gc'.pc = gc.pc /\ gc'.live = gc.live /\ gc'.plan = gc.plan /\ gc'.time = t
    BY <1>1, <1>3 DEF GcType
  <1>5. ASSUME NEW b \in Request
        PROVE  age[b] \in 0 .. Grace /\ age'[b] \in 0 .. Grace /\ age'[b] <= age[b] + 1
    <2>1. age[b] \in 0 .. Grace
      BY <1>0, Types
    <2>2. age'[b] = IF b \in files /\ age[b] < Grace THEN age[b] + 1 ELSE age[b]
      BY <1>0
    <2> QED
      BY <2>1, <2>2 DEF InTime
  <1>6. age' \in [Request -> 0 .. Grace]
    <2>1. age' = [b \in Request |-> age'[b]]
      BY <1>0
    <2> QED
      BY <2>1, <1>5
  <1>7. TypeOK'
    BY <1>0, <1>4, <1>6 DEF TypeOK, GcType
  <1>8. RowsReadable' /\ RowAfterSidecar' /\ OneOwner'
    BY <1>0 DEF Inv, RowsReadable, Readable, RowAfterSidecar, Referenced, OneOwner, PartBlobs
  <1>9. Composites' /\ Placed'
    BY <1>0 DEF Inv, Composites, Placed, PartBlobs, Referenced, Done, Pending
  <1>10. Written' /\ ListedStay'
    BY <1>0 DEF Inv, Written, Brings, ListedStay, Lists, Parts, Done, Pending
  <1>11. Needed' = Needed
    BY <1>0 DEF Needed, PartBlobs
  <1>12. Cleared' /\ Planned'
    BY <1>0, <1>4, <1>11 DEF Inv, Cleared, Planned, Done
  <1>13. Fresh'
    <2> SUFFICES ASSUME NEW r \in Request, Pending(r)', r \in files'
                 PROVE  age'[r] <= UploadTime
      BY DEF Fresh
    <2>1. age[r] < UploadTime
      BY <1>0 DEF Pending
    <2> QED
      BY <2>1, <1>5 DEF InTime
  <1>14. ASSUME reads, NEW b \in Needed, Young(b)
         PROVE  Young(b)'
    <2>1. b \in Request
      BY NeededDone
    <2>2. age[b] <= UploadTime + gc.time /\ t = gc.time + 1
      BY <1>14, <1>2 DEF Young
    <2>3. age'[b] <= UploadTime + t
      BY <2>1, <2>2, <1>1, <1>5 DEF InTime
    <2> QED
      BY <2>3, <1>4 DEF Young
  <1>15. Seen'
    BY <1>0, <1>4, <1>11, <1>14 DEF Inv, Seen
  <1> QED
    BY <1>7, <1>8, <1>9, <1>10, <1>12, <1>13, <1>15 DEF Inv

LEMMA CreateKeeps ==
  ASSUME Inv, NEW u \in Upload, CreateMultipartUpload(u)
  PROVE  Inv'
  <1>0. /\ u \notin created /\ created' = created \cup {u} /\ uploads' = uploads \cup {u}
        /\ parts' = parts /\ object' = object
        /\ files' = files /\ age' = age /\ sidecars' = sidecars /\ composite' = composite
        /\ req' = req /\ gc' = gc
    BY DEF CreateMultipartUpload
  <1>1. TypeOK'
    BY <1>0 DEF Inv, TypeOK
  <1>2. RowsReadable' /\ RowAfterSidecar' /\ OneOwner'
    BY <1>0 DEF Inv, RowsReadable, Readable, RowAfterSidecar, Referenced, OneOwner, PartBlobs
  <1>3. Composites' /\ Placed' /\ Written'
    BY <1>0 DEF Inv, Composites, Placed, Written, Brings, PartBlobs, Referenced, Done, Pending
  <1>4. ListedStay'
    BY <1>0 DEF Inv, ListedStay, Lists, Parts, Done
  <1>5. Needed' = Needed
    BY <1>0 DEF Needed, PartBlobs
  <1>6. Cleared' /\ Planned' /\ Fresh' /\ Seen'
    BY <1>0, <1>5 DEF Inv, Cleared, Planned, Fresh, Seen, Young, Done, Pending
  <1> QED
    BY <1>1, <1>2, <1>3, <1>4, <1>6 DEF Inv

-----------------------------------------------------------------------------
(* The invariant. *)

LEMMA InitInv ==
  ASSUME InTime, Init
  PROVE  Inv
  <1>0. /\ created = {} /\ uploads = {} /\ parts = {} /\ object = 0
        /\ files = {} /\ age = [b \in Request |-> 0]
        /\ sidecars = {} /\ composite = [b \in Request |-> {}]
        /\ req = [r \in Request |-> New] /\ gc = GcIdle
    BY DEF Init
  <1>1. req \in [Request -> ReqType] /\ \A r \in Request : req[r] = New
    BY <1>0, OverType
  <1>2. 0 \in 0 .. Grace /\ 0 \in 0 .. ScanTime
    BY DEF InTime
  <1>3. gc \in GcType /\ gc.pc = "idle" /\ gc.plan = {}
    BY <1>0, <1>2 DEF GcIdle, GcType
  <1>4. TypeOK
    BY <1>0, <1>1, <1>2, <1>3 DEF TypeOK, ReqType, GcType
  <1>5. PartBlobs = {} /\ Referenced = {} /\ Needed = {}
    BY <1>0 DEF PartBlobs, Referenced, Needed
  <1>6. RowsReadable /\ RowAfterSidecar /\ OneOwner /\ Composites /\ Placed
    BY <1>0, <1>5 DEF RowsReadable, RowAfterSidecar, OneOwner, Composites, Placed
  <1>7. Written /\ ListedStay /\ Cleared
    BY <1>1, OverType DEF Written, Brings, ListedStay, Lists, Cleared, Pending, Writes
  <1>8. Planned /\ Fresh /\ Seen
    BY <1>0, <1>3 DEF Planned, Fresh, Seen
  <1> QED
    BY <1>4, <1>6, <1>7, <1>8 DEF Inv

LEMMA Stutter ==
  ASSUME Inv, UNCHANGED vars
  PROVE  Inv'
  <1>0. UNCHANGED store /\ UNCHANGED disk /\ UNCHANGED req /\ gc' = gc
    BY DEF vars, store, disk
  <1>1. Needed' = Needed /\ files' = files /\ \A b : Done(b)' = Done(b)
    BY <1>0, NeededStays
  <1>2. gc' \in GcType /\ Planned'
    BY <1>0, <1>1, Types DEF Planned, Inv
  <1>3. Seen'
    BY <1>0, <1>1 DEF Seen, Young, Inv, store, disk
  <1> QED
    BY <1>0, <1>2, <1>3, GcReads

LEMMA NextInv ==
  ASSUME InTime, ~ReplaceListed, Inv, Next
  PROVE  Inv'
  <1>1. ASSUME NEW u \in Upload, CreateMultipartUpload(u)
        PROVE  Inv'
    BY <1>1, CreateKeeps
  <1>2. ASSUME NEW r \in Request, Request_(r)
        PROVE  Inv'
    BY <1>2, PutObjectKeeps, DeleteObjectKeeps, UploadPartKeeps, CompleteKeeps, AbortKeeps DEF Request_
  <1>3. ASSUME NEW r \in Request, Step(r)
        PROVE  Inv'
    <2>1. CASE ConcatFast(r) \/ ConcatCopy(r) \/ ConcatFails(r)
      BY <2>1, ConcatFastKeeps, ConcatCopyKeeps, ConcatFailsKeeps
    <2>2. CASE WriteSidecar(r) \/ Discard(r)
      BY <2>2, WriteSidecarKeeps, DiscardKeeps
    <2>3. CASE CommitPut(r) \/ CommitDelete(r) \/ PutPart(r)
      BY <2>3, CommitPutKeeps, CommitDeleteKeeps, PutPartKeeps
    <2>4. CASE CommitComplete(r) \/ RefuseComplete(r) \/ CommitAbort(r)
      BY <2>4, CommitCompleteKeeps, RefuseCompleteKeeps, CommitAbortKeeps
    <2>5. CASE \E b \in Request : DeleteBlob(r, b)
      BY <2>5, DeleteBlobKeeps
    <2> QED
      BY <1>3, <2>1, <2>2, <2>3, <2>4, <2>5 DEF Step
  <1>4. CASE GcStep
    BY <1>4, GcRowsKeeps, GcSidecarsKeeps, GcPlanKeeps, GcEndKeeps, GcDeleteKeeps DEF GcStep
  <1>5. CASE Crash
    BY <1>5, CrashKeeps
  <1>6. CASE Tick
    BY <1>6, TickKeeps
  <1> QED
    BY <1>1, <1>2, <1>3, <1>4, <1>5, <1>6 DEF Next

LEMMA InvHolds ==
  ASSUME InTime, ~ReplaceListed
  PROVE  Spec => []Inv
  <1>1. Init => Inv
    BY InitInv
  <1>2. Inv /\ [Next]_vars => Inv'
    BY NextInv, Stutter
  <1> QED
    BY <1>1, <1>2, PTL DEF Spec

\* Types of the variables, in every behaviour.
THEOREM TypesHold ==
  ASSUME InTime, ~ReplaceListed
  PROVE  Spec => []TypeOK
  <1>1. Inv => TypeOK
    BY DEF Inv
  <1> QED
    BY <1>1, InvHolds, PTL

\* Whatever requests overlap on the key, crash or are collected around, the
\* object and the parts that the rows name can be read: no cleanup after a
\* commit, no refused Complete and no garbage collection pass deletes a file
\* they are made of (handlers/multipart.rs, fs/blob.rs, blob_gc.rs).
THEOREM RowsStayReadable ==
  ASSUME InTime, ~ReplaceListed
  PROVE  Spec => []RowsReadable
  <1>1. Inv => RowsReadable
    BY DEF Inv
  <1> QED
    BY <1>1, InvHolds, PTL

\* No row names a blob whose sidecar was not written first, by
\* write_sidecar_or_discard.
THEOREM SidecarsFirst ==
  ASSUME InTime, ~ReplaceListed
  PROVE  Spec => []RowAfterSidecar
  <1>1. Inv => RowAfterSidecar
    BY DEF Inv
  <1> QED
    BY <1>1, InvHolds, PTL
=============================================================================
