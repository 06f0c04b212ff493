------------------------- MODULE MultipartChecksum -------------------------
(***************************************************************************)
(* The checksum of an object uploaded in parts: which algorithm and type   *)
(* an upload gets, what each part contributes, and how the checksum of the *)
(* whole is computed from those of the parts, by hashing them (COMPOSITE)  *)
(* or by combining CRCs without reading a byte (FULL_OBJECT).              *)
(*                                                                         *)
(* A CRC register, like a byte, is the set of its bits that are 1, so that *)
(* exclusive or is symmetric difference.  The width and the polynomial are *)
(* parameters; SHA-256 is the identity.                                    *)
(***************************************************************************)
EXTENDS Integers, Sequences, FiniteSets

Ext == INSTANCE SequencesExt

CONSTANTS
    Width,        \* bits of the register: 32 and 64 in the code
    Poly,         \* the reflected polynomial, a set of bits
    Datas,        \* bodies of parts: sequences of bytes, a byte a subset of 0..7
    Algorithm,    \* subset of {"CRC32", "CRC64NVME", "SHA256"}
    PartNumbers

NoAlg == "none"
Composite == "COMPOSITE"
FullObject == "FULL_OBJECT"

VARIABLES
    upload,       \* [state, alg, kind] of the upload
    parts,        \* per part number: [data, sum], data NoData when absent
    object        \* the object completed: [done, alg, kind, value, parts, data, claim]

vars == <<upload, parts, object>>

-----------------------------------------------------------------------------
(* The crc crate: reflected, register and result complemented. *)

Xor(a, b) == (a \ b) \cup (b \ a)

Bits == 0..(Width - 1)

ShiftRight(v) == {i - 1 : i \in v \ {0}}

CrcBit(crc, bit) ==
    LET out == (0 \in crc) # bit
    IN IF out THEN Xor(ShiftRight(crc), Poly) ELSE ShiftRight(crc)

CrcByte(crc, byte) == Ext!FoldLeft(CrcBit, crc, [i \in 1..8 |-> (i - 1) \in byte])

Crc(data) == Xor(Ext!FoldLeft(CrcByte, Bits, data), Bits)

-----------------------------------------------------------------------------
(* combine_raw: what len zero bytes do to a register is a matrix over GF(2), *)
(* a row per bit, and squaring it doubles len.                               *)

times(matrix, vector) ==
    {b \in Bits : Cardinality({row \in vector : b \in matrix[row]}) % 2 = 1}

square(matrix) == [n \in Bits |-> times(matrix, matrix[n])]

OneZeroBit == [n \in Bits |-> IF n = 0 THEN Poly ELSE {n - 1}]

OneZeroByte == square(square(square(OneZeroBit)))

BitsOf(n) ==
    [i \in 1..(CHOOSE k \in 0..n : 2^k > n /\ (k > 0 => 2^(k - 1) <= n)) |-> (n \div 2^(i - 1)) % 2 = 1]

(* Mutant of combine_raw: the operator starts at a bit, not at a byte. *)
CombineRawBits(crc1, crc2, len2) ==
    LET step(acc, bit) == [op |-> square(acc.op), crc |-> IF bit THEN times(acc.op, acc.crc) ELSE acc.crc]
    IN IF len2 = 0 THEN crc1
       ELSE Xor(Ext!FoldLeft(step, [op |-> OneZeroBit, crc |-> crc1], BitsOf(len2)).crc, crc2)

combine_raw(crc1, crc2, len2) ==
    LET step(acc, bit) == [op |-> square(acc.op), crc |-> IF bit THEN times(acc.op, acc.crc) ELSE acc.crc]
    IN IF len2 = 0 THEN crc1
       ELSE Xor(Ext!FoldLeft(step, [op |-> OneZeroByte, crc |-> crc1], BitsOf(len2)).crc, crc2)

-----------------------------------------------------------------------------
(* Types and algorithms *)

default_for(alg) == IF alg = "CRC64NVME" THEN FullObject ELSE Composite

allows(kind, alg) ==
    ~(kind = Composite /\ alg = "CRC64NVME") /\ ~(kind = FullObject /\ alg = "SHA256")

(* select_for_upload: refused when the type stands alone or does not fit. *)
select_for_upload(alg, kind) ==
    IF alg = NoAlg THEN [ok |-> kind = "none", alg |-> NoAlg, kind |-> "none"]
    ELSE IF kind = "none" THEN [ok |-> TRUE, alg |-> alg, kind |-> default_for(alg)]
    ELSE [ok |-> allows(kind, alg), alg |-> alg, kind |-> kind]

Checksum(alg, data) == IF alg = "SHA256" THEN <<"sha", data>> ELSE <<"crc", Crc(data)>>

NoSum == <<"none", {}>>

(* combine_with, over the parts in order. *)
crc_combine(acc, part) ==
    [crc |-> combine_raw(acc.crc, part.sum[2], Len(part.data))]

(* The object checksum is absent as soon as one part has none; <<>> is none. *)
object_checksum(alg, kind, ps) ==
    IF ps = <<>> \/ ~allows(kind, alg) \/ \E i \in 1..Len(ps) : ps[i].sum = NoSum THEN <<>>
    ELSE IF kind = Composite
      THEN <<"composite", [i \in 1..Len(ps) |-> ps[i].sum], Len(ps)>>
    ELSE <<"full", Ext!FoldLeft(crc_combine, [crc |-> ps[1].sum[2]], SubSeq(ps, 2, Len(ps))).crc, 0>>

-----------------------------------------------------------------------------
NoPart == [data |-> <<>>, sum |-> NoSum, there |-> FALSE]
NoObject == [done |-> FALSE, alg |-> NoAlg, kind |-> "none", value |-> <<>>, parts |-> <<>>,
             claim |-> "none"]

Init ==
    /\ upload = [state |-> "none", alg |-> NoAlg, kind |-> "none"]
    /\ parts = [n \in PartNumbers |-> NoPart]
    /\ object = NoObject

CreateMultipartUpload(alg, kind) ==
    /\ upload.state = "none"
    /\ LET sel == select_for_upload(alg, kind)
       IN upload' = IF sel.ok THEN [state |-> "open", alg |-> sel.alg, kind |-> sel.kind]
                    ELSE [upload EXCEPT !.state = "refused"]
    /\ UNCHANGED <<parts, object>>

(* UploadPart: require_checksum makes every part of an upload with an       *)
(* algorithm carry it; a part of another upload may declare its own.        *)
UploadPart(n, data, declared) ==
    /\ upload.state = "open"
    /\ declared = NoAlg \/ upload.alg = NoAlg \/ declared = upload.alg
    /\ LET alg == IF upload.alg # NoAlg THEN upload.alg ELSE declared
       IN parts' = [parts EXCEPT ![n] =
             [data |-> data, there |-> TRUE,
              sum |-> IF alg = NoAlg THEN NoSum ELSE Checksum(alg, data)]]
    /\ UNCHANGED <<upload, object>>

(* UploadPartCopy stores a part without a checksum. *)
UploadPartCopy(n, data) ==
    /\ upload.state = "open"
    /\ parts' = [parts EXCEPT ![n] = [data |-> data, sum |-> NoSum, there |-> TRUE]]
    /\ UNCHANGED <<upload, object>>

Uploaded == {n \in PartNumbers : parts[n].there}

Stored == LET order == Ext!SetToSortSeq(Uploaded, <)
          IN [i \in 1..Len(order) |-> parts[order[i]]]

Joined(ps) == Ext!FlattenSeq([i \in 1..Len(ps) |-> ps[i].data])

(* plan_complete: "right" and "wrong" are the whole-object checksum a client *)
(* may declare of its own data; a checksum of another algorithm or an object *)
(* of another size is refused before this.                                   *)
plan_complete(claim, ps) ==
    LET computed == IF upload.alg = NoAlg THEN <<>> ELSE object_checksum(upload.alg, upload.kind, ps)
    IN [refused |-> claim = "wrong" /\ computed # <<>>, value |-> computed]

CompleteMultipartUpload(claim) ==
    /\ upload.state = "open" /\ Uploaded # {}
    /\ LET plan == plan_complete(claim, Stored)
       IN IF plan.refused THEN UNCHANGED <<upload, object>>
          ELSE /\ upload' = [upload EXCEPT !.state = "done"]
               /\ object' = [done |-> TRUE, alg |-> upload.alg, kind |-> upload.kind,
                             value |-> plan.value, parts |-> Stored, claim |-> claim]
    /\ UNCHANGED parts

(* CopyObject keeps a checksum of the bytes, and drops one of the parts. *)
copied_checksum(o) ==
    IF o.value # <<>> /\ o.value[1] = "full" THEN o ELSE [o EXCEPT !.value = <<>>, !.alg = NoAlg]

CopyObject ==
    /\ object.done
    /\ object' = [copied_checksum(object) EXCEPT
                    !.parts = <<[data |-> Joined(object.parts), sum |-> NoSum, there |-> TRUE]>>]
    /\ UNCHANGED <<upload, parts>>

Next ==
    \/ \E alg \in Algorithm \cup {NoAlg}, kind \in {"none", Composite, FullObject} :
          CreateMultipartUpload(alg, kind)
    \/ \E n \in PartNumbers, data \in Datas, declared \in Algorithm \cup {NoAlg} :
          UploadPart(n, data, declared)
    \/ \E n \in PartNumbers, data \in Datas : UploadPartCopy(n, data)
    \/ \E claim \in {"none", "right", "wrong"} : CompleteMultipartUpload(claim)
    \/ CopyObject

Spec == Init /\ [][Next]_vars

-----------------------------------------------------------------------------
(* Every variable has its type. *)
TypeOK ==
    /\ upload.state \in {"none", "open", "refused", "done"}
    /\ upload.alg # NoAlg => allows(upload.kind, upload.alg)
    /\ \A n \in PartNumbers : parts[n].there => parts[n].data \in Datas
    /\ object.done \in BOOLEAN

(* The checksum an object carries is the checksum of its bytes: combining    *)
(* the CRCs of the parts, empty parts and replaced parts included, gives the *)
(* CRC of their concatenation, a copy never keeps a checksum of parts it no  *)
(* longer has, and a whole-object checksum the client declared wrongly is    *)
(* never kept, even when a copied part keeps the server from computing it.   *)
ObjectChecksumIsTrue ==
    object.value # <<>> =>
        /\ object.claim # "wrong"
        /\ IF object.value[1] = "full"
           THEN object.value[2] = Crc(Joined(object.parts))
           ELSE /\ object.value[3] = Len(object.parts)
                /\ \A i \in 1..Len(object.parts) :
                      object.value[2][i] = Checksum(object.alg, object.parts[i].data)

=============================================================================
