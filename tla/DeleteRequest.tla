--------------------------- MODULE DeleteRequest ---------------------------
(* A multi-object delete: the body is parsed event by event, every listed  *)
(* object is checked, the ones that pass go to the store in one batch, and *)
(* the store's results are dealt back to the objects they belong to.       *)
(*                                                                         *)
(* An object of the document is a sequence of its elements; the text of an *)
(* element arrives in pieces (text, character and entity references).      *)
EXTENDS Integers, Sequences

CONSTANTS
  Documents,   \* sequences of objects
  Unreadable,  \* values of <Size> that do not parse (<LastModifiedTime> is like it)
  MaxObjects,  \* 1000 in the code
  Locked       \* <<key, version>> pairs under Object Lock

VARIABLES doc, events, inside, text, current, objects, phase, outcomes, batch, results, answer

parsing == <<events, inside, text, current, objects>>
vars == <<doc, events, inside, text, current, objects, phase, outcomes, batch, results, answer>>

Fields == {"Key", "VersionId", "ETag", "Size"}
Absent == <<>>
NoFields == [f \in Fields |-> Absent]

----------------------------------------------------------------------------
(* The body as the reader's events. *)

Concat(ss) == LET f[i \in 0..Len(ss)] == IF i = 0 THEN <<>> ELSE f[i-1] \o ss[i] IN f[Len(ss)]

ElementEvents(e) ==
  IF e.closed THEN <<[at |-> "Empty", name |-> e.name]>>
  ELSE <<[at |-> "Start", name |-> e.name]>>
         \o [i \in DOMAIN e.text |-> [at |-> "Text", piece |-> e.text[i]]]
         \o <<[at |-> "End", name |-> e.name]>>

ObjectEvents(o) ==
  <<[at |-> "Start", name |-> "Object"]>>
    \o Concat([i \in DOMAIN o |-> ElementEvents(o[i])])
    \o <<[at |-> "End", name |-> "Object"]>>

(* post_bucket hands POST /{bucket}?delete to delete_objects. *)
post_bucket(d) == Concat([i \in DOMAIN d |-> ObjectEvents(d[i])])

Init ==
  /\ doc \in Documents
  /\ events = post_bucket(doc)
  /\ inside = "" /\ text = <<>> /\ current = NoFields /\ objects = <<>>
  /\ phase = "parse" /\ outcomes = <<>> /\ batch = <<>> /\ results = <<>> /\ answer = <<>>

Upcoming == Head(events)
Reading(at) == phase = "parse" /\ events # <<>> /\ Upcoming.at = at /\ events' = Tail(events)

Start ==
  /\ Reading("Start")
  /\ inside' = Upcoming.name
  /\ text' = <<>>
  /\ UNCHANGED <<doc, current, objects, phase, outcomes, batch, results, answer>>

Text ==
  /\ Reading("Text")
  /\ text' = IF inside # "" THEN Append(text, Upcoming.piece) ELSE text
  /\ UNCHANGED <<doc, inside, current, objects, phase, outcomes, batch, results, answer>>

(* A self-closing element is no Start and no End: it is not seen at all. *)
Empty ==
  /\ Reading("Empty")
  /\ UNCHANGED <<doc, inside, text, current, objects, phase, outcomes, batch, results, answer>>

(* The end of the element the text belongs to sets the field of its name. *)
Taken(name) == IF inside = name /\ name \in Fields THEN [current EXCEPT ![name] = <<text>>] ELSE current

(* Mutant of EndObject: the fields of an object are copied, not taken. *)
EndObjectKeeping(c) == [pushed |-> <<c>>, left |-> [c EXCEPT !["Key"] = Absent]]

(* The end of an object takes its fields, when there is a key among them. *)
EndObject(c) ==
  IF c["Key"] # Absent THEN [pushed |-> <<c>>, left |-> NoFields]
  ELSE [pushed |-> <<>>, left |-> c]

End ==
  /\ Reading("End")
  /\ LET c == Taken(Upcoming.name)
         e == IF Upcoming.name = "Object" THEN EndObject(c) ELSE [pushed |-> <<>>, left |-> c]
     IN objects' = objects \o e.pushed /\ current' = e.left
  /\ inside' = ""
  /\ text' = <<>>
  /\ UNCHANGED <<doc, phase, outcomes, batch, results, answer>>

----------------------------------------------------------------------------
(* The handler. *)

build_batch_delete_precondition(o) == o["Size"] = Absent \/ o["Size"][1] \notin Unreadable

Batchable(o) ==
  /\ build_batch_delete_precondition(o)
  /\ o["VersionId"] # Absent => <<o["Key"][1], o["VersionId"][1]>> \notin Locked

Check ==
  /\ phase = "parse" /\ events = <<>> /\ Len(objects) <= MaxObjects
  /\ phase' = "store"
  /\ outcomes' = [i \in DOMAIN objects |-> IF Batchable(objects[i]) THEN "batched" ELSE "failed"]
  /\ batch' = SelectSeq(objects, Batchable)
  /\ UNCHANGED <<doc, results, answer>> /\ UNCHANGED parsing

TooMany ==
  /\ phase = "parse" /\ events = <<>> /\ Len(objects) > MaxObjects
  /\ phase' = "refused"
  /\ UNCHANGED <<doc, outcomes, batch, results, answer>> /\ UNCHANGED parsing

(* The store answers each entry of the batch on its own. *)
delete_objects_if ==
  /\ phase = "store"
  /\ phase' = "answer"
  /\ \E r \in [DOMAIN batch -> {"deleted", "error"}] :
       results' = [i \in DOMAIN batch |-> <<batch[i], r[i]>>]
  /\ UNCHANGED <<doc, outcomes, batch, answer>> /\ UNCHANGED parsing

(* Mutant of Dealt: a failed object uses up a result. *)
DealtInStep(i) == i

(* How many results the objects before i have used. *)
Dealt(i) == Len(SelectSeq(SubSeq(outcomes, 1, i), LAMBDA o : o = "batched"))

delete_objects_result ==
  /\ phase = "answer"
  /\ phase' = "done"
  /\ answer' = [i \in DOMAIN objects |->
       IF outcomes[i] = "failed" THEN <<objects[i], "error">>
       ELSE IF Dealt(i) \in DOMAIN results THEN <<objects[i], results[Dealt(i)][2]>>
       ELSE <<objects[i], "no result">>]
  /\ UNCHANGED <<doc, outcomes, batch, results>> /\ UNCHANGED parsing

Next == Start \/ Text \/ Empty \/ End \/ Check \/ TooMany \/ delete_objects_if \/ delete_objects_result

Spec == Init /\ [][Next]_vars

----------------------------------------------------------------------------
TypeOK ==
  /\ phase \in {"parse", "store", "answer", "done", "refused"}
  /\ inside \in Fields \union {"", "Object", "Other"}
  /\ DOMAIN current = Fields
  /\ Len(objects) <= Len(doc)

(* What an object of the document says, by itself. *)
Listed(o) ==
  [f \in Fields |->
     LET hits == {i \in DOMAIN o : o[i].name = f /\ ~o[i].closed} IN
     IF hits = {} THEN Absent ELSE <<o[CHOOSE i \in hits : \A j \in hits : j <= i].text>>]

(* The batch deletes what the document lists: each object with its own key, *)
(* version and conditions, whatever the objects before it named and however *)
(* their text was split.                                                    *)
DeletesAsListed ==
  phase # "parse" => objects = [i \in DOMAIN doc |-> Listed(doc[i])]

(* The answer tells each object its own outcome: an object reported deleted *)
(* was deleted by the store, one that passed its checks is reported as the  *)
(* store answered it.                                                       *)
OutcomesMatch ==
  phase = "done" =>
    \A i \in DOMAIN answer :
      IF Batchable(objects[i])
      THEN \E j \in DOMAIN results :
             /\ results[j] = <<objects[i], answer[i][2]>>
             /\ j = Len(SelectSeq(SubSeq(objects, 1, i), Batchable))
      ELSE answer[i][2] = "error"
=============================================================================
