--------------------------- MODULE Notifications ---------------------------
(***************************************************************************)
(* Event notifications of one bucket.  Handlers put an event on a bounded  *)
(* channel and never wait; one worker takes the events in order, looks the *)
(* configuration up in a cache of its own, stores one record per matching  *)
(* destination and spawns a task that delivers it with retries.  The       *)
(* administrator changes the configuration and clears the records at any   *)
(* time; the process may stop.                                             *)
(*                                                                         *)
(* An event is the number of the operation that made it.  A configuration  *)
(* is the set of destinations that are enabled and match the event.        *)
(***************************************************************************)
EXTENDS Naturals, Sequences, FiniteSets

CONSTANTS
    Destination,   \* destinations a configuration may name
    MaxEvents,     \* operations
    ChannelSize,   \* channel_size
    MaxRetries,    \* max_retries
    Ttl,           \* the configuration cache's time to live, in ticks
    MaxClock, MaxFaults, MaxCrashes, MaxAdmin,
    None

VARIABLES
    config,    \* bucket_config: the destinations, {} when there is no configuration
    since,     \* destination -> when it was last removed from it (history)
    queue,     \* the channel
    cache,     \* the worker's cached configuration: None or [config, at]
    todo,      \* destinations the worker still has to serve for the event at the head
    records,   \* table notification_events: set of records
    tasks,     \* delivery tasks: set of [event, dest, attempts, due]
    received,  \* destination -> number of times it got each event
    events, clock, faults, crashes, admin

vars == <<config, since, queue, cache, todo, records, tasks, received, events, clock, faults, crashes, admin>>

Init ==
    /\ config = Destination /\ since = [d \in Destination |-> 0]
    /\ queue = <<>> /\ cache = None /\ todo = None
    /\ records = {} /\ tasks = {}
    /\ received = [d \in Destination |-> [e \in 1..MaxEvents |-> 0]]
    /\ events = 0 /\ clock = 0 /\ faults = 0 /\ crashes = 0 /\ admin = 0

-----------------------------------------------------------------------------
\* Mutant of EmitEvent: the channel has no limit.
EmitEventUnbounded ==
    /\ events < MaxEvents
    /\ events' = events + 1
    /\ queue' = Append(queue, events')
    /\ UNCHANGED <<config, since, cache, todo, records, tasks, received, clock, faults, crashes, admin>>

\* emit_event: try_send, the event is dropped when the channel is full.
EmitEvent ==
    /\ events < MaxEvents
    /\ events' = events + 1
    /\ queue' = IF Len(queue) < ChannelSize THEN Append(queue, events') ELSE queue
    /\ UNCHANGED <<config, since, cache, todo, records, tasks, received, clock, faults, crashes, admin>>

\* Mutant of Live: a cached configuration is kept for ever.
LiveAlways(c) == c # None

\* A cached configuration is used for the time to live.
Live(c) == c # None /\ clock - c.at < Ttl

\* recv, then the configuration from the cache or from the store.
Receive ==
    /\ todo = None /\ queue # <<>>
    /\ cache' = IF Live(cache) THEN cache ELSE [config |-> config, at |-> clock]
    /\ todo' = cache'.config
    /\ UNCHANGED <<config, since, queue, records, tasks, received, events, clock, faults, crashes, admin>>

\* The record of one destination, then its delivery task.  A record that cannot
\* be stored is not delivered.
Persist == todo # None /\ \E d \in todo :
    /\ todo' = todo \ {d}
    /\ \/ /\ records' = records \cup {[event |-> Head(queue), dest |-> d, status |-> "pending"]}
          /\ tasks' = tasks \cup {[event |-> Head(queue), dest |-> d, attempts |-> 0, due |-> TRUE]}
          /\ UNCHANGED faults
       \/ /\ faults < MaxFaults /\ faults' = faults + 1
          /\ UNCHANGED <<records, tasks>>
    /\ UNCHANGED <<config, since, queue, cache, received, events, clock, crashes, admin>>

\* The worker is done with the event at the head.
NextEvent ==
    /\ todo = {}
    /\ todo' = None /\ queue' = Tail(queue)
    /\ UNCHANGED <<config, since, cache, records, tasks, received, events, clock, faults, crashes, admin>>

\* update_notification_event_status: a record that was cleared is not there to update.
Updated(t, status) ==
    {IF r.event = t.event /\ r.dest = t.dest THEN [r EXCEPT !.status = status] ELSE r : r \in records}

Got(t) == [received EXCEPT ![t.dest][t.event] = @ + 1]

\* A delivery that succeeds ends the task.
Delivered(t) ==
    /\ received' = Got(t)
    /\ records' = Updated(t, "delivered")
    /\ tasks' = tasks \ {t}
    /\ UNCHANGED faults

\* Mutant of NotDelivered: the last failure ends the task and leaves its record.
NotDeliveredSilent(t) ==
    /\ faults < MaxFaults /\ faults' = faults + 1
    /\ received' \in {received, Got(t)}
    /\ UNCHANGED records
    /\ tasks' = (tasks \ {t}) \cup
          (IF t.attempts + 1 >= MaxRetries THEN {} ELSE {[t EXCEPT !.attempts = @ + 1, !.due = FALSE]})

\* Mutant of NotDelivered: the last attempt is recorded as delivered.
NotDeliveredClaimed(t) ==
    /\ faults < MaxFaults /\ faults' = faults + 1
    /\ received' \in {received, Got(t)}
    /\ IF t.attempts + 1 >= MaxRetries
       THEN records' = Updated(t, "delivered") /\ tasks' = tasks \ {t}
       ELSE UNCHANGED records /\ tasks' = (tasks \ {t}) \cup {[t EXCEPT !.attempts = @ + 1, !.due = FALSE]}

\* A delivery that fails, or succeeds without an answer: another attempt after a
\* back-off, or the end of the task.
NotDelivered(t) ==
    /\ faults < MaxFaults /\ faults' = faults + 1
    /\ received' \in {received, Got(t)}
    /\ IF t.attempts + 1 >= MaxRetries
       THEN records' = Updated(t, "failed") /\ tasks' = tasks \ {t}
       ELSE UNCHANGED records /\ tasks' = (tasks \ {t}) \cup {[t EXCEPT !.attempts = @ + 1, !.due = FALSE]}

\* deliver_with_retry: one attempt.
Attempt == \E t \in tasks :
    /\ t.due
    /\ Delivered(t) \/ NotDelivered(t)
    /\ UNCHANGED <<config, since, queue, cache, todo, events, clock, crashes, admin>>

\* The back-off passes.
Wake == \E t \in tasks :
    /\ ~t.due
    /\ tasks' = (tasks \ {t}) \cup {[t EXCEPT !.due = TRUE]}
    /\ UNCHANGED <<config, since, queue, cache, todo, records, received, events, clock, faults, crashes, admin>>

-----------------------------------------------------------------------------
Tick ==
    /\ clock < MaxClock
    /\ clock' = clock + 1
    /\ UNCHANGED <<config, since, queue, cache, todo, records, tasks, received, events, faults, crashes, admin>>

\* put_bucket_notification, an empty one included.
PutConfig(c) ==
    /\ config # c
    /\ config' = c /\ since' = [d \in Destination |-> IF d \in config \ c THEN clock ELSE since[d]]
    /\ UNCHANGED records

\* clear_notification_events and the retention worker: rows older than a bound.
Purge ==
    /\ records' = {}
    /\ UNCHANGED <<config, since>>

Admin ==
    /\ admin < MaxAdmin
    /\ admin' = admin + 1
    /\ (\E c \in SUBSET Destination : PutConfig(c)) \/ Purge
    /\ UNCHANGED <<queue, cache, todo, tasks, received, events, clock, faults, crashes>>

\* The process stops and starts: channel, cache and tasks are gone.
Crash ==
    /\ crashes < MaxCrashes
    /\ crashes' = crashes + 1
    /\ queue' = <<>> /\ cache' = None /\ todo' = None /\ tasks' = {}
    /\ UNCHANGED <<config, since, records, received, events, clock, faults, admin>>

Step == Receive \/ Persist \/ NextEvent \/ Attempt \/ Wake

Next == EmitEvent \/ Step \/ Tick \/ Admin \/ Crash

\* The worker and the tasks are never blocked: connectors have timeouts.
Fairness == WF_vars(Step)

Spec == Init /\ [][Next]_vars /\ Fairness

-----------------------------------------------------------------------------
\* Types; the worker only holds destinations while an event is at the head.
TypeOK ==
    /\ config \subseteq Destination /\ since \in [Destination -> 0..clock]
    /\ queue \in Seq(1..MaxEvents) /\ Len(queue) <= ChannelSize
    /\ todo # None => todo \subseteq Destination /\ queue # <<>>
    /\ \A r \in records : r \in [event : 1..MaxEvents, dest : Destination, status : {"pending", "delivered", "failed"}]
    /\ \A t \in tasks : t \in [event : 1..MaxEvents, dest : Destination, attempts : 0..MaxRetries, due : BOOLEAN]

\* The worker takes up no event for a destination that was removed longer ago
\* than the configuration cache lives, however the configuration changed.
RemovedIsForgottenStep ==
    (todo = None /\ todo' # None) =>
      \A d \in todo' \ config : clock < since[d] + Ttl

\* The same, as a property of the behaviour: every step is such a step.
RemovedIsForgotten == [][RemovedIsForgottenStep]_vars

\* A record says delivered only of an event its destination got, and a
\* destination gets an event at most once more than the faults there were.
DeliveredIsReceived ==
    /\ \A r \in records : r.status = "delivered" => received[r.dest][r.event] > 0
    /\ \A d \in Destination : \A e \in 1..MaxEvents : received[d][e] <= 1 + faults

\* A record never stays pending, unless the process stops: its task delivers it or
\* gives up, and a record that was cleared does not come back.
Pending(d, e) == \E r \in records : r.dest = d /\ r.event = e /\ r.status = "pending"
NonePending == crashes > 0 \/ \A d \in Destination, e \in 1..MaxEvents : ~Pending(d, e)
RecordSettles == <>[]NonePending
=============================================================================
