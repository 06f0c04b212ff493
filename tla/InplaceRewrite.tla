---------------------------- MODULE InplaceRewrite ----------------------------
(***************************************************************************)
(* The offline tools compress-existing, decompress-existing,               *)
(* encrypt-existing and decrypt-existing: each rewrites a blob and its     *)
(* sidecar in place with a journal (inplace.rs), behind a marker that      *)
(* keeps the server from starting (rewrite_marker.rs).                     *)
(*                                                                         *)
(* The bytes of a file are abstracted to how they are stored: compressed   *)
(* or not, and the data key they are encrypted with (0: none).  A sidecar  *)
(* describes bytes of one such form.  `ondisk` holds what a directory may  *)
(* look like after a power loss: its state at the last directory fsync, or *)
(* after some of the operations since then; only renames overtake others.  *)
(***************************************************************************)
EXTENDS Naturals

CONSTANTS
    Blobs,       \* blobs with a sidecar
    Dek,        \* data keys, positive naturals: build_encryptor makes a new one
    Command,    \* the commands an operator runs
    None,       \* no file
    Partial,    \* a file whose writer stopped
    Torn,       \* can a crash or an fsync error leave the journal behind
                \* after its temp blob was removed?
    MaxFaults   \* bound on crashes, power losses and errors

VARIABLES
    pair,       \* files of a blob: blob, meta, tmp, journal
    ondisk,     \* what a power loss may leave of them
    row,        \* encryption column of the object row
    marker,     \* command in the marker file
    tool,       \* the running command
    faults

vars == <<pair, ondisk, row, marker, tool, faults>>

Form == [z : BOOLEAN, dek : Dek \cup {0}]
Files == [blob : Form, meta : Form, tmp : Form \cup {None, Partial},
          journal : Form \cup {None}]

Recrypts(c) == c \in {"encrypt", "decrypt"}

Idle == [pc |-> "idle", todo |-> {}, scope |-> {}, errors |-> FALSE]

\* Types of the variables.
TypeOK ==
    /\ pair \in [Blobs -> Files]
    /\ \A b \in Blobs : ondisk[b] \subseteq Files
    /\ row \in [Blobs -> BOOLEAN]
    /\ marker \in Command \cup {None}
    /\ tool.pc \in {"idle", "next", "resolve", "drop", "row", "look", "write", "prepared",
                    "journal", "renamed", "synced", "swapped", "committed"}
    /\ tool.todo \subseteq Blobs /\ tool.scope \subseteq Blobs
    /\ faults \in 0 .. MaxFaults

Init ==
    /\ \E z \in [Blobs -> BOOLEAN] :
          pair = [b \in Blobs |-> LET f == [z |-> z[b], dek |-> 0]
                                 IN  [blob |-> f, meta |-> f, tmp |-> None, journal |-> None]]
    /\ ondisk = [b \in Blobs |-> {pair[b]}]
    /\ row = [b \in Blobs |-> FALSE]
    /\ marker = None /\ tool = Idle /\ faults = 0

-----------------------------------------------------------------------------
(* Directory operations. *)

\* A file is created or removed; a power loss may undo it and what came after.
Change(b, Op(_)) ==
    /\ pair' = [pair EXCEPT ![b] = Op(@)]
    /\ ondisk' = [ondisk EXCEPT ![b] = @ \cup {pair'[b]}]

\* A rename that is not yet durable may survive when an earlier operation does not.
Rename(b, Op(_)) ==
    /\ pair' = [pair EXCEPT ![b] = Op(@)]
    /\ ondisk' = [ondisk EXCEPT ![b] = @ \cup {Op(fs) : fs \in @}]

\* An operation followed by sync_dir: rename_durable, write_file_atomic.
ChangeDurably(b, Op(_)) ==
    /\ pair' = [pair EXCEPT ![b] = Op(@)]
    /\ ondisk' = [ondisk EXCEPT ![b] = {pair'[b]}]

RemoveTmp(fs) == [fs EXCEPT !.tmp = None]
RemoveJournal(fs) == [fs EXCEPT !.journal = None]

Goto(pc) == tool' = [tool EXCEPT !.pc = pc]

Fault ==
    /\ faults < MaxFaults
    /\ faults' = faults + 1

-----------------------------------------------------------------------------
(* The run of a command. *)

\* Mutant of Begin: any marker is taken for an unfinished run of another command.
BeginFresh(c, scope) ==
    /\ tool.pc = "idle"
    /\ marker = None
    /\ marker' = c
    /\ tool' = [pc |-> "next", todo |-> Blobs, scope |-> scope, errors |-> FALSE]
    /\ UNCHANGED <<pair, ondisk, row, faults>>

\* rewrite_marker::begin: refused while another command is unfinished.
Begin(c, scope) ==
    /\ tool.pc = "idle"
    /\ marker \in {None, c}
    /\ marker' = c
    /\ tool' = [pc |-> "next", todo |-> Blobs, scope |-> scope, errors |-> FALSE]
    /\ UNCHANGED <<pair, ondisk, row, faults>>

\* The walk takes the sidecars in any order; `b` stays in todo until it is done.
Current == CHOOSE b \in tool.todo : \A c \in tool.todo : b <= c

Take ==
    /\ tool.pc = "next" /\ tool.todo # {}
    /\ Goto("resolve")
    /\ UNCHANGED <<pair, ondisk, row, marker, faults>>

Done(pc) == tool' = [tool EXCEPT !.pc = pc, !.todo = @ \ {Current}]

\* Mutant of Finish: the marker goes although an object failed.
FinishAnyway ==
    /\ tool.pc = "next" /\ tool.todo = {}
    /\ marker' = None /\ ondisk' = [b \in Blobs |-> {pair[b]}]
    /\ tool' = Idle
    /\ UNCHANGED <<pair, row, faults>>

\* rewrite_marker::finish after a run without errors; otherwise the marker stays.
\* Its fsync is taken to commit the operations before it, in all directories: a
\* rename whose own fsync failed is found done by the next run and not synced again.
Finish ==
    /\ tool.pc = "next" /\ tool.todo = {}
    /\ IF tool.errors
       THEN UNCHANGED <<marker, ondisk>>
       ELSE marker' = None /\ ondisk' = [b \in Blobs |-> {pair[b]}]
    /\ tool' = Idle
    /\ UNCHANGED <<pair, row, faults>>

\* An error: the recrypt tools note it and go on, the compress tools stop.
Fail ==
    tool' = IF Recrypts(marker)
            THEN [tool EXCEPT !.pc = "next", !.todo = @ \ {Current}, !.errors = TRUE]
            ELSE Idle

-----------------------------------------------------------------------------
(* resolve_pending. *)

\* No journal: a temp blob is a partial write.
ResolveNoJournal(b) ==
    /\ pair[b].journal = None
    /\ IF pair[b].tmp = None THEN UNCHANGED <<pair, ondisk>> ELSE Change(b, RemoveTmp)
    /\ Goto("look")

\* Journal and temp blob: the blob was not replaced, both are removed.
ResolveDiscard(b) ==
    /\ pair[b].journal # None /\ pair[b].tmp # None
    /\ pair' = [pair EXCEPT ![b] = RemoveTmp(@)]
    /\ ondisk' = [ondisk EXCEPT ![b] = @ \cup (IF Torn THEN {pair'[b]} ELSE {})]
    /\ Goto("drop")

\* Journal only: the blob was replaced, the journal becomes the sidecar.
ResolveForward(b) ==
    /\ pair[b].journal # None /\ pair[b].tmp = None
    /\ ChangeDurably(b, LAMBDA fs : [fs EXCEPT !.meta = pair[b].journal, !.journal = None])
    /\ Goto(IF Recrypts(marker) THEN "row" ELSE "look")

ResolvePending(b) == ResolveNoJournal(b) \/ ResolveDiscard(b) \/ ResolveForward(b)

Resolve ==
    /\ tool.pc = "resolve"
    /\ ResolvePending(Current)
    /\ UNCHANGED <<row, marker, faults>>

DropJournal ==
    /\ tool.pc = "drop"
    /\ Change(Current, RemoveJournal)
    /\ Goto("look")
    /\ UNCHANGED <<row, marker, faults>>

\* sync_row: the row follows the sidecar, after a roll forward and after a commit.
SyncRow ==
    /\ tool.pc \in {"row", "committed"}
    /\ \/ /\ row' = [row EXCEPT ![Current] = pair[Current].meta.dek # 0]
          /\ IF tool.pc = "row" THEN Goto("look") ELSE Done("next")
          /\ UNCHANGED faults
       \/ /\ Fault
          /\ tool' = IF tool.pc = "row" THEN [tool EXCEPT !.pc = "look", !.errors = TRUE]
                     ELSE [tool EXCEPT !.pc = "next", !.todo = @ \ {Current}, !.errors = TRUE]
          /\ UNCHANGED row
    /\ UNCHANGED <<pair, ondisk, marker>>

-----------------------------------------------------------------------------
(* Rewriting one blob. *)

\* Does the sidecar leave anything to do?  (skip_reason, classify_skip.)
Wanted(m) ==
    CASE marker = "compress"   -> ~ m.z /\ m.dek = 0
      [] marker = "decompress" -> m.z /\ m.dek = 0
      [] marker = "encrypt"    -> m.dek = 0
      [] marker = "decrypt"    -> m.dek # 0

\* Is the file itself already in the target state?  (is_encrypted_file.)
AlreadyThere(f) ==
    \/ marker = "encrypt" /\ f.dek # 0
    \/ marker = "decrypt" /\ f.dek = 0

Look ==
    LET b == Current
        skip == b \notin tool.scope \/ ~ Wanted(pair[b].meta) \/ AlreadyThere(pair[b].blob)
    IN  /\ tool.pc = "look"
        /\ IF skip THEN Done("next") ELSE Goto("write")
        /\ UNCHANGED <<pair, ondisk, row, marker, faults>>

\* The new temp file while it is written; it may stay behind incomplete.
WriteTmp ==
    /\ tool.pc = "write"
    /\ Change(Current, LAMBDA fs : [fs EXCEPT !.tmp = Partial])
    /\ Goto("prepared")
    /\ UNCHANGED <<row, marker, faults>>

Fresh(b) == CHOOSE k \in Dek : \A fs \in ondisk[b] : \A f \in {fs.blob, fs.meta, fs.tmp, fs.journal} :
               f \in Form => f.dek # k

\* What the command turns form f into.
Rewritten(f, k) ==
    CASE marker = "compress"   -> [f EXCEPT !.z = TRUE]
      [] marker = "decompress" -> [f EXCEPT !.z = FALSE]
      [] marker = "encrypt"    -> [f EXCEPT !.dek = k]
      [] marker = "decrypt"    -> [f EXCEPT !.dek = 0]

\* The fsynced temp blob, then the journal, durable before the blob is touched.
\* The key of an encryption is only in memory until the journal is written.
Prepare ==
    LET b == Current
        k == Fresh(b)
        blob == Rewritten(pair[b].blob, k)
        meta == Rewritten(pair[b].meta, k)
    IN  /\ tool.pc = "prepared"
        /\ \/ /\ ChangeDurably(b, LAMBDA fs : [fs EXCEPT !.tmp = blob, !.journal = meta])
              /\ Goto("journal")
              /\ UNCHANGED faults
           \/ /\ Fault /\ Fail   \* before the rename of the journal, or in its sync_dir
              /\ \E journal \in {None} \cup (IF Torn THEN {meta} ELSE {}) :
                    Change(b, LAMBDA fs : [fs EXCEPT !.tmp = None, !.journal = journal])
        /\ UNCHANGED <<row, marker>>

RenameBlob ==
    LET b == Current
        tmp == pair[b].tmp
    IN  /\ tool.pc = "journal"
        /\ \/ /\ Rename(b, LAMBDA fs : [fs EXCEPT !.blob = tmp, !.tmp = None])
              /\ Goto("renamed")
              /\ UNCHANGED faults
           \/ /\ Fault /\ Fail   \* both files are removed, the temp blob first
              /\ \E journal \in {None} \cup (IF Torn THEN {pair[b].journal} ELSE {}) :
                    Change(b, LAMBDA fs : [fs EXCEPT !.tmp = None, !.journal = journal])
        /\ UNCHANGED <<row, marker>>

\* Mutant of SyncBlob: the directory is not synced before the sidecar is replaced.
SyncBlobSkipped ==
    /\ tool.pc = "renamed"
    /\ Goto("synced")
    /\ UNCHANGED <<pair, ondisk, row, marker, faults>>

\* The directory fsync before the journal may replace the sidecar.
SyncBlob ==
    /\ tool.pc = "renamed"
    /\ \/ ChangeDurably(Current, LAMBDA fs : fs) /\ Goto("synced") /\ UNCHANGED faults
       \/ Fault /\ Fail /\ UNCHANGED <<pair, ondisk>>
    /\ UNCHANGED <<row, marker>>

CommitSidecar ==
    LET journal == pair[Current].journal
    IN  /\ tool.pc = "synced"
        /\ Rename(Current, LAMBDA fs : [fs EXCEPT !.meta = journal, !.journal = None])
        /\ Goto("swapped")
        /\ UNCHANGED <<row, marker, faults>>

SyncSidecar ==
    /\ tool.pc = "swapped"
    /\ \/ /\ ChangeDurably(Current, LAMBDA fs : fs)
          /\ IF Recrypts(marker) THEN Goto("committed") ELSE Done("next")
          /\ UNCHANGED faults
       \/ Fault /\ Fail /\ UNCHANGED <<pair, ondisk>>
    /\ UNCHANGED <<row, marker>>

-----------------------------------------------------------------------------
(* The process is killed, or the machine loses power. *)
Kill ==
    /\ tool.pc # "idle" /\ (tool.pc = "drop" => Torn) /\ Fault
    /\ tool' = Idle
    /\ UNCHANGED <<pair, ondisk, row, marker>>

PowerLoss ==
    /\ tool.pc = "drop" => Torn
    /\ Fault
    /\ pair' \in [Blobs -> UNION {ondisk[b] : b \in Blobs}]
    /\ \A b \in Blobs : pair'[b] \in ondisk[b]
    /\ ondisk' = [b \in Blobs |-> {pair'[b]}]
    /\ tool' = Idle
    /\ UNCHANGED <<row, marker>>

ToolStep ==
    \/ Take \/ Resolve \/ DropJournal \/ SyncRow \/ Look
    \/ WriteTmp \/ Prepare \/ RenameBlob \/ SyncBlob \/ CommitSidecar \/ SyncSidecar \/ Finish

Operator == \E c \in Command, scope \in SUBSET Blobs : Begin(c, scope)

\* The operator runs the interrupted command again.
Rerun == marker # None /\ \E scope \in SUBSET Blobs : Begin(marker, scope)

Next == Operator \/ ToolStep \/ Kill \/ PowerLoss

Spec == Init /\ [][Next]_vars

FairSpec == Spec /\ WF_vars(ToolStep) /\ WF_vars(Rerun)

-----------------------------------------------------------------------------
(* Properties. *)

\* When the server may start (ensure_none finds no marker), every sidecar
\* describes the bytes of its blob.
ServedPairsMatch == marker = None => \A b \in Blobs : pair[b].blob = pair[b].meta

\* Whatever a power loss leaves of a directory, the sidecar or the journal
\* describes the blob: the only copy of a data key is never lost, and the
\* journal is only left alone when it is the one that does.
Recoverable ==
    \A b \in Blobs : \A fs \in ondisk[b] :
        IF fs.journal # None /\ fs.tmp = None THEN fs.blob = fs.journal ELSE fs.blob = fs.meta

\* An interrupted command that is run again comes to an end without marker.
Marked == marker # None
Unmarked == marker = None
EventuallyServable == Marked ~> Unmarked
=============================================================================
