---------------------------- MODULE RequestBody ----------------------------
(***************************************************************************)
(* The body of one PutObject or UploadPart on its way from the connection  *)
(* to the blob store: AwsChunkedDecoder (with the chain of chunk           *)
(* signatures), LimitedByteStream, HashingStream, and the verdict of       *)
(* IntegrityCheck once the blob is written.                                *)
(*                                                                         *)
(* A body is a sequence of cells: a byte, a chunk header without its CRLF, *)
(* or a trailing header without its CRLF.  The connection hands it over in *)
(* pieces of any size, and may lose, alter or cut a part of it.  A digest  *)
(* is what was digested, and a signature everything it signs, so that two  *)
(* are equal exactly when their inputs are.                                *)
(***************************************************************************)
EXTENDS Integers, Sequences

Ext == INSTANCE SequencesExt

CONSTANTS
    Mode,         \* subset of {"plain", "unsigned", "signed", "signedTrailer"}
    Bodies,       \* what clients send: sequences of chunks of bytes
    Headers,      \* sets of integrity headers a request may carry
    Algorithm,    \* subset of {"CRC32", "SHA256"}: of the checksum, if any
    Required,     \* subset of {"none"} \cup Algorithm: what the upload asks of a part
    Limits,       \* values of max_body_size
    MaxPiece      \* the longest piece the connection hands over

VARIABLES
    req,          \* the request: its mode, chunks, headers and the limit
    wire,         \* the cells the connection has still to hand over
    broken,       \* the connection fails, rather than ends, after them
    intact,       \* the wire carries what the client sent
    buf,          \* buf of the decoder
    state,        \* DecoderState, with remaining or to_skip
    signed,       \* SignedChunks
    trailers,     \* the trailing headers recorded
    out,          \* the bytes the blob store and the hashers got
    result        \* the answer, "reading" until there is one

vars == <<req, wire, broken, intact, buf, state, signed, trailers, out, result>>

-----------------------------------------------------------------------------
(* What a client sends *)

Byte(v) == <<"byte", v, 0>>
CR == Byte(13)
LF == Byte(10)
CRLF == <<CR, LF>>

NoSignature == <<>>
ChunkHeader(size, sig) == <<"head", size, sig>>
Line(name, value) == <<"line", name, value>>

(* ChecksumHasher, MD5 and SHA-256: equal exactly for equal data. *)
Digest(data) == data

Payload(chunks) == Ext!FlattenSeq(chunks)

Seed == <<<<"seed", <<>>>>>>

expected_chunk_signature(prev, hash) == Append(prev, <<"chunk", hash>>)

expected_trailer_signature(prev, lines) == Append(prev, <<"trailer", lines>>)

Signature(r, n) ==
    IF r.mode = "unsigned" THEN NoSignature
    ELSE Ext!FoldLeft(expected_chunk_signature, Seed, SubSeq(Append(r.chunks, <<>>), 1, n))

TrailerLines(r) ==
    IF "trailer" \in r.headers THEN <<<<"checksum", Digest(Payload(r.chunks))>>>> ELSE <<>>

Encode(r) ==
    LET n == Len(r.chunks)
        chunk(i) == <<ChunkHeader(Len(r.chunks[i]), Signature(r, i))>> \o CRLF \o r.chunks[i] \o CRLF
        lines == [i \in 1..Len(TrailerLines(r)) |->
                    <<Line(TrailerLines(r)[i][1], TrailerLines(r)[i][2])>> \o CRLF]
        sig == IF r.mode # "signedTrailer" THEN <<>>
               ELSE <<Line("signature",
                           expected_trailer_signature(Signature(r, n + 1), TrailerLines(r)))>> \o CRLF
    IN IF r.mode = "plain" THEN Payload(r.chunks)
       ELSE Ext!FlattenSeq([i \in 1..n |-> chunk(i)]) \o <<ChunkHeader(0, Signature(r, n + 1))>> \o CRLF
            \o (IF r.mode = "signed" THEN <<>> ELSE Ext!FlattenSeq(lines)) \o sig \o CRLF

(* What the connection may make of it: a run of cells lost or *)
(* repeated, or one byte altered.                                           *)
Damaged(cells) ==
    {SubSeq(cells, 1, i) \o SubSeq(cells, j, Len(cells)) :
        i \in 0..Len(cells), j \in 1..(Len(cells) + 1)}
    \cup {Ext!ReplaceAt(cells, i, Byte(9)) : i \in {k \in 1..Len(cells) : cells[k][1] = "byte"}}

signed_streaming_mode(r) == r.mode \in {"signed", "signedTrailer"}

Requests ==
    {r \in [mode : Mode, chunks : Bodies, headers : Headers, alg : Algorithm,
            required : Required, limit : Limits, verifier : BOOLEAN] :
        /\ "sha256" \in r.headers => r.mode = "plain"
        /\ "trailer" \in r.headers => r.mode \in {"unsigned", "signedTrailer"}
        /\ ~r.verifier => signed_streaming_mode(r)
        /\ {"header", "trailer"} \cap r.headers = {} => r.alg = CHOOSE a \in Algorithm : TRUE}

-----------------------------------------------------------------------------
(* Before the body is read *)

(* BodyIntegrity::from_headers takes one declared checksum at most. *)
Declared(r) == {"header", "trailer"} \cap r.headers

from_headers(r) == {"header", "trailer"} \subseteq r.headers

require_checksum(r) ==
    /\ r.required # "none"
    /\ Declared(r) # {}
    /\ r.alg # r.required

Source(r) ==
    IF Declared(r) # {} THEN CHOOSE s \in Declared(r) : TRUE
    ELSE IF r.required # "none" THEN "computed" ELSE "none"

ChecksumAlgorithm(r) == IF Declared(r) # {} THEN r.alg ELSE r.required

Open(r) ==
    IF from_headers(r) \/ require_checksum(r) THEN "InvalidRequest"
    ELSE IF signed_streaming_mode(r) /\ ~r.verifier THEN "SignatureDoesNotMatch"
    ELSE "reading"

AtHeader == [at |-> "header", n |-> 0]
AtData(n) == [at |-> "data", n |-> n]
AtTrailer(n) == [at |-> "trailer", n |-> n]
AtTrailingHeaders == [at |-> "trailing", n |-> 0]
Done == [at |-> "done", n |-> 0]

SignedChunks == [prev |-> Seed, hash |-> <<>>, sig |-> NoSignature, lines |-> <<>>,
                 tsig |-> NoSignature]

Init ==
    /\ req \in Requests
    /\ \E w \in {Encode(req)} \cup Damaged(Encode(req)) :
          wire = w /\ intact = (w = Encode(req))
    /\ broken \in IF intact THEN {FALSE} ELSE BOOLEAN
    /\ buf = <<>>
    /\ state = IF req.mode = "plain" THEN AtData(0) ELSE AtHeader
    /\ signed = SignedChunks
    /\ trailers = <<>>
    /\ out = <<>>
    /\ result = Open(req)

-----------------------------------------------------------------------------
(* The decoder *)

Reading(at) == result = "reading" /\ req.mode # "plain" /\ state.at = at

(* find_crlf: the 0-based position of the first CRLF, or -1. *)
find_crlf(b) ==
    LET at == {i \in 1..(Len(b) - 1) : b[i] = CR /\ b[i + 1] = LF}
    IN IF at = {} THEN -1 ELSE (CHOOSE i \in at : \A j \in at : i <= j) - 1

(* parse_chunk_header: a size line, or a run of bytes that are digits; -1   *)
(* when it does not parse.                                                  *)
parse_chunk_header(line) ==
    IF Len(line) = 1 /\ line[1][1] = "head" THEN [size |-> line[1][2], sig |-> line[1][3]]
    ELSE IF Len(line) > 0 /\ \A i \in 1..Len(line) : line[i][1] = "byte" /\ line[i][2] \in 0..9
      THEN [size |-> Ext!FoldLeft(LAMBDA n, cell : 16 * n + cell[2], 0, line), sig |-> NoSignature]
    ELSE [size |-> -1, sig |-> NoSignature]

finish_chunk(s, hash) == s.sig = expected_chunk_signature(s.prev, hash)

Advance(s) == [s EXCEPT !.prev = s.sig, !.hash = <<>>]

Fail(code) == result' = code /\ UNCHANGED <<out, trailers>>

(* The decoder needs more than the buffer holds: it polls the connection. *)
Wants ==
    \/ Reading("header") /\ find_crlf(buf) = -1
    \/ Reading("data") /\ buf = <<>>
    \/ Reading("trailing") /\ find_crlf(buf) = -1
    \/ Reading("trailer") /\ Len(buf) < state.n

Pull ==
    /\ Wants /\ wire # <<>>
    /\ \E n \in 1..MaxPiece :
          /\ n <= Len(wire)
          /\ buf' = buf \o SubSeq(wire, 1, n)
          /\ wire' = SubSeq(wire, n + 1, Len(wire))
    /\ UNCHANGED <<req, broken, intact, state, signed, trailers, out, result>>

ReadHeader ==
    /\ Reading("header") /\ find_crlf(buf) >= 0
    /\ LET pos == find_crlf(buf)
           h == parse_chunk_header(SubSeq(buf, 1, pos))
           s == [signed EXCEPT !.sig = h.sig]
       IN IF h.size = -1
          THEN Fail("InternalError") /\ UNCHANGED <<buf, state, signed>>
          ELSE /\ buf' = SubSeq(buf, pos + 3, Len(buf))
               /\ CASE signed_streaming_mode(req) /\ h.sig = NoSignature ->
                         state' = Done /\ Fail("SignatureDoesNotMatch") /\ UNCHANGED signed
                    [] h.size > 0 /\ (signed_streaming_mode(req) => h.sig # NoSignature) ->
                         state' = AtData(h.size) /\ signed' = s /\ UNCHANGED <<result, out, trailers>>
                    [] h.size = 0 /\ signed_streaming_mode(req) /\ h.sig # NoSignature ->
                         IF finish_chunk(s, <<>>)
                         THEN /\ state' = AtTrailingHeaders /\ signed' = Advance(s)
                              /\ UNCHANGED <<result, out, trailers>>
                         ELSE state' = Done /\ signed' = s /\ Fail("SignatureDoesNotMatch")
                    [] h.size = 0 /\ ~signed_streaming_mode(req) ->
                         state' = AtTrailingHeaders /\ signed' = s /\ UNCHANGED <<result, out, trailers>>
    /\ UNCHANGED <<req, wire, broken, intact>>

(* HashingStream: the hashers see what the blob store gets. *)
Hashed(data) == out' = out \o data

(* Mutant of Emit: a body of exactly max_body_size is too large. *)
EmitAtLimit(data) ==
    IF req.limit > 0 /\ Len(out) + Len(data) >= req.limit
    THEN result' = "EntityTooLarge" /\ UNCHANGED out
    ELSE out' = out \o data /\ UNCHANGED result

(* LimitedByteStream, then HashingStream and the blob store. *)
Emit(data) ==
    IF req.limit > 0 /\ Len(out) + Len(data) > req.limit
    THEN result' = "EntityTooLarge" /\ UNCHANGED out
    ELSE Hashed(data) /\ UNCHANGED result

ReadData ==
    /\ Reading("data") /\ buf # <<>>
    /\ LET take == IF state.n < Len(buf) THEN state.n ELSE Len(buf)
           data == SubSeq(buf, 1, take)
           hash == signed.hash \o data
           last == take = state.n
       IN /\ buf' = SubSeq(buf, take + 1, Len(buf))
          /\ IF signed_streaming_mode(req) /\ last /\ ~finish_chunk(signed, hash)
             THEN state' = Done /\ Fail("SignatureDoesNotMatch") /\ UNCHANGED signed
             ELSE /\ state' = IF last THEN AtTrailer(2) ELSE AtData(state.n - take)
                  /\ signed' = IF ~signed_streaming_mode(req) THEN signed
                               ELSE IF last THEN Advance(signed) ELSE [signed EXCEPT !.hash = hash]
                  /\ Emit(data) /\ UNCHANGED trailers
    /\ UNCHANGED <<req, wire, broken, intact>>

SkipTrailer ==
    /\ Reading("trailer") /\ Len(buf) >= state.n
    /\ buf' = SubSeq(buf, state.n + 1, Len(buf))
    /\ state' = AtHeader
    /\ UNCHANGED <<req, wire, broken, intact, signed, trailers, out, result>>

(* A line with a colon is a name and a value; what was glued to it by a lost *)
(* CRLF makes the value no digest.                                           *)
HasColon(line) == line # <<>> /\ line[1][1] = "line"
NameOf(line) == line[1][2]
ValueOf(line) == IF Len(line) = 1 THEN line[1][3] ELSE <<<<"junk", 0, 0>>>>

record_trailer(line) ==
    trailers' = IF HasColon(line) THEN Append(trailers, <<NameOf(line), ValueOf(line)>>) ELSE trailers

add_trailer_line(s, line) ==
    IF NameOf(line) = "signature" THEN [s EXCEPT !.tsig = ValueOf(line)]
    ELSE [s EXCEPT !.lines = Append(@, <<NameOf(line), ValueOf(line)>>)]

finish_trailer(s) ==
    IF req.mode = "signedTrailer"
    THEN s.tsig # NoSignature /\ s.tsig = expected_trailer_signature(s.prev, s.lines)
    ELSE s.lines = <<>> /\ s.tsig = NoSignature

-----------------------------------------------------------------------------
(* IntegrityCheck::verify, once the stream ended and the blob is written *)

verify(r, data, t) ==
    LET sent == Digest(Payload(r.chunks))
        values == {i \in 1..Len(t) : t[i][1] = "checksum"}
    IN CASE "md5" \in r.headers /\ Digest(data) # sent -> "BadDigest"
         [] "sha256" \in r.headers /\ Digest(data) # sent -> "XAmzContentSHA256Mismatch"
         [] Source(r) = "header" /\ Digest(data) # sent -> "BadDigest"
         [] Source(r) = "trailer" /\ values = {} -> "InvalidRequest"
         [] Source(r) = "trailer" /\ values # {}
              /\ t[CHOOSE i \in values : \A j \in values : i <= j][2] # Digest(data) ->
              "BadDigest"
         [] OTHER -> "stored"

Finish(t) == result' = verify(req, out, t) /\ trailers' = t /\ UNCHANGED out

ReadTrailingHeader ==
    /\ Reading("trailing") /\ find_crlf(buf) >= 0
    /\ LET pos == find_crlf(buf)
           line == SubSeq(buf, 1, pos)
       IN /\ buf' = SubSeq(buf, pos + 3, Len(buf))
          /\ IF pos = 0
             THEN /\ state' = Done /\ UNCHANGED signed
                  /\ IF signed_streaming_mode(req) /\ ~finish_trailer(signed)
                     THEN Fail("SignatureDoesNotMatch")
                     ELSE Finish(trailers)
             ELSE IF signed_streaming_mode(req) /\ ~HasColon(line)
             THEN state' = Done /\ Fail("SignatureDoesNotMatch") /\ UNCHANGED signed
             ELSE /\ signed' = IF signed_streaming_mode(req) THEN add_trailer_line(signed, line)
                               ELSE signed
                  /\ record_trailer(line)
                  /\ UNCHANGED <<state, out, result>>
    /\ UNCHANGED <<req, wire, broken, intact>>

(* The connection has no more: what that means depends on where the decoder *)
(* is; a signed body is only ever complete after its trailing headers.      *)
Incomplete == Fail("InternalError") /\ UNCHANGED <<buf, state>>

Unsigned == state' = Done /\ Fail("SignatureDoesNotMatch") /\ UNCHANGED buf

EndInHeader ==
    IF signed_streaming_mode(req) THEN Unsigned
    ELSE IF buf = <<>> THEN state' = Done /\ Finish(trailers) /\ UNCHANGED buf
    ELSE Incomplete

EndInData == IF signed_streaming_mode(req) THEN Unsigned ELSE Incomplete

EndInTrailingHeaders ==
    IF signed_streaming_mode(req) THEN Unsigned
    ELSE /\ state' = Done /\ buf' = <<>>
         /\ Finish(IF HasColon(buf) THEN Append(trailers, <<NameOf(buf), ValueOf(buf)>>) ELSE trailers)

(* Mutant of EndInTrailer: a body that stops after a chunk is complete. *)
EndInTrailerAnyway == state' = Done /\ Finish(trailers) /\ UNCHANGED buf

EndInTrailer ==
    IF signed_streaming_mode(req) THEN Unsigned
    ELSE state' = Done /\ Finish(trailers) /\ UNCHANGED buf

EndOfBody ==
    /\ Wants /\ wire = <<>>
    /\ UNCHANGED <<req, wire, broken, intact, signed>>
    /\ IF broken THEN Incomplete
       ELSE \/ state.at = "header" /\ EndInHeader
            \/ state.at = "data" /\ EndInData
            \/ state.at = "trailing" /\ EndInTrailingHeaders
            \/ state.at = "trailer" /\ EndInTrailer

(* A body that is not chunked goes through as it comes. *)
PlainPiece ==
    /\ result = "reading" /\ req.mode = "plain" /\ wire # <<>>
    /\ \E n \in 1..MaxPiece :
          /\ n <= Len(wire)
          /\ wire' = SubSeq(wire, n + 1, Len(wire))
          /\ Emit(SubSeq(wire, 1, n))
    /\ UNCHANGED <<req, broken, intact, buf, state, signed, trailers>>

PlainEnd ==
    /\ result = "reading" /\ req.mode = "plain" /\ wire = <<>>
    /\ IF broken THEN Fail("InternalError") ELSE Finish(<<>>)
    /\ UNCHANGED <<req, wire, broken, intact, buf, state, signed>>

Next ==
    \/ Pull \/ ReadHeader \/ ReadData \/ SkipTrailer \/ ReadTrailingHeader \/ EndOfBody
    \/ PlainPiece \/ PlainEnd

Spec == Init /\ [][Next]_vars

-----------------------------------------------------------------------------
Refusals == {"InvalidRequest", "SignatureDoesNotMatch", "EntityTooLarge", "BadDigest",
             "XAmzContentSHA256Mismatch", "InternalError"}

(* Every variable has its type. *)
TypeOK ==
    /\ req \in Requests
    /\ broken \in BOOLEAN /\ intact \in BOOLEAN
    /\ state.at \in {"header", "data", "trailer", "trailing", "done"} /\ state.n \in Nat
    /\ \A i \in 1..Len(out) : out[i][1] \in {"byte", "head", "line"}
    /\ result \in {"reading", "stored"} \cup Refusals

(* A body that arrives as the client sent it is never refused, in whatever  *)
(* pieces it comes and whatever its bytes look like (a CRLF or a digit in   *)
(* the data is data): it is stored to the last byte, up to and including    *)
(* max_body_size, and a refusal means a limit exceeded or headers that      *)
(* contradict each other.                                                   *)
IntactIsStored ==
    intact /\ Open(req) = "reading" =>
        /\ result \in {"reading", "stored"} \/ (req.limit > 0 /\ Len(Payload(req.chunks)) > req.limit)
        /\ Ext!IsPrefix(out, Payload(req.chunks))
        /\ result = "stored" => out = Payload(req.chunks)

(* A body that is signed chunk by chunk, or that came with a Content-MD5, a *)
(* payload hash or a checksum, in a header or a trailer, is stored only if  *)
(* it is what the client sent: lost, cut, altered or reordered bytes never  *)
(* pass, wherever the damage falls.                                         *)
StoredIsSent ==
    /\ result = "stored"
    /\ signed_streaming_mode(req) \/ ({"md5", "sha256", "header", "trailer"} \cap req.headers) # {}
    => out = Payload(req.chunks)

=============================================================================
