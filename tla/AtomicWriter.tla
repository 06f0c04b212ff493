---------------------------- MODULE AtomicWriter -----------------------------
(***************************************************************************)
(* What a caller of the SQLite writer relies on, without transactions,     *)
(* savepoints or groups: the writes happen one after another, each of them *)
(* wholly or not at all; a write answered "ok" has happened and one        *)
(* answered with an error never does.                                      *)
(***************************************************************************)
EXTENDS Naturals, Sequences

CONSTANT Write   \* the writes

VARIABLES
  log,     \* the writes that have happened, in their order
  saw,     \* saw[w]: the writes that w saw when it happened
  answer   \* answer[w]: "new", "waiting", "gone", "ok", "error" or "lost"

vars == <<log, saw, answer>>

Happened == {log[i] : i \in 1 .. Len(log)}

Init ==
  /\ log = << >>
  /\ saw = [w \in Write |-> << >>]
  /\ answer = [w \in Write |-> "new"]

Submit(w) ==
  /\ answer[w] = "new"
  /\ answer' = [answer EXCEPT ![w] = "waiting"]
  /\ UNCHANGED <<log, saw>>

\* The caller goes away; the write may still happen.
Cancel(w) ==
  /\ answer[w] = "waiting"
  /\ answer' = [answer EXCEPT ![w] = "gone"]
  /\ UNCHANGED <<log, saw>>

\* Some writes happen, one after another.
Happen ==
  /\ log' \in Seq(Write) /\ Len(log) <= Len(log')
  /\ \A i \in 1 .. Len(log) : log'[i] = log[i]
  /\ \A i \in Len(log) + 1 .. Len(log') :
       /\ answer[log'[i]] \in {"waiting", "gone"}
       /\ \A j \in 1 .. i - 1 : log'[j] # log'[i]
       /\ saw'[log'[i]] = SubSeq(log', 1, i - 1)
  /\ saw' \in [Write -> Seq(Write)]
  /\ \A w \in Write : (\A i \in Len(log) + 1 .. Len(log') : log'[i] # w) => saw'[w] = saw[w]
  /\ UNCHANGED answer

\* A write that its caller makes alone happens and is answered in one step.
Direct(w) ==
  /\ answer[w] = "new"
  /\ log' = Append(log, w)
  /\ saw' = [saw EXCEPT ![w] = log]
  /\ answer' = [answer EXCEPT ![w] = "ok"]

Reply(w) ==
  /\ answer[w] = "waiting"
  /\ answer' = [answer EXCEPT ![w] = IF w \in Happened THEN "ok" ELSE "error"]
  /\ UNCHANGED <<log, saw>>

\* The process stops: the callers get no answer, what happened stays.
Stop ==
  /\ answer' = [w \in Write |-> IF answer[w] \in {"waiting", "gone"} THEN "lost"
                                                                     ELSE answer[w]]
  /\ UNCHANGED <<log, saw>>

Next ==
  \/ \E w \in Write : Submit(w) \/ Cancel(w) \/ Direct(w) \/ Reply(w)
  \/ Happen
  \/ Stop

Spec == Init /\ [][Next]_vars
==============================================================================
