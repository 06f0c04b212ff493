------------------------------ MODULE NodeViews ------------------------------
(* The views of what only one node knows: the replication journal and the  *)
(* notification event log.  Any node may be asked for its own page, for    *)
(* the page of a peer, or for all of them merged; rows are added, updated  *)
(* and purged while the pages are gathered, and peers come, go and fail to *)
(* answer.  A console walks the pages by offset.                           *)
(*                                                                         *)
(* A row is known by its created_at, which is unique.                      *)
EXTENDS Naturals, Sequences, FiniteSets

LOCAL INSTANCE SequencesExt

CONSTANTS
  Node, Self,   \* the members, and the one that is asked
  Families,     \* which of the two tables is asked for
  Limits,       \* page sizes asked for
  Default,      \* the page size of the tables when none is given
  Cap,          \* the largest page of the event log
  MaxRows,      \* rows added in a behaviour
  MaxTouches,   \* rows updated in a behaviour
  MaxPurges,
  MaxFaults     \* peers that drop out or do not answer

VARIABLES
  family,
  log,          \* [Node -> set of rows]
  clock, touches, purges, faults,
  eligible,     \* the peers that are alive, authenticated and aligned
  query,        \* the request being served
  answer,       \* the last answer
  walk          \* the console: {} or one walk

vars == <<family, log, clock, touches, purges, faults, eligible, query, answer, walk>>
counters == <<touches, purges, faults>>

Least(a, b) == IF a < b THEN a ELSE b
Ids(n) == {r.id : r \in log[n]}

----------------------------------------------------------------------------
(* The tables *)

insert_journal_entry(n) ==
  /\ clock < MaxRows
  /\ clock' = clock + 1
  /\ log' = [log EXCEPT ![n] = @ \union {[id |-> clock + 1, updated_at |-> 0]}]
  /\ UNCHANGED <<family, counters, eligible, query, answer, walk>>

update_status(n, r) ==
  /\ touches < MaxTouches
  /\ touches' = touches + 1
  /\ log' = [log EXCEPT ![n] = (@ \ {r}) \union {[r EXCEPT !.updated_at = touches + 1]}]
  /\ UNCHANGED <<family, clock, purges, faults, eligible, query, answer, walk>>

(* What was updated before some moment goes; events go by their creation. *)
Purgeable(n, before) ==
  {r \in log[n] : IF family = "journal" THEN r.updated_at < before ELSE r.id < before}

purge_completed(n, before) ==
  /\ purges < MaxPurges
  /\ purges' = purges + 1
  /\ Purgeable(n, before) # {}
  /\ log' = [log EXCEPT ![n] = @ \ Purgeable(n, before)]
  /\ walk' = {[w EXCEPT !.purged = TRUE] : w \in walk}
  /\ UNCHANGED <<family, clock, touches, faults, eligible, query, answer>>

(* Mutant of Window: the offset is taken for the place of the first row of  *)
(* the page, counted from one.                                             *)
WindowFromOne(ids, offset, limit) ==
  LET from == IF offset = 0 THEN 1 ELSE offset + 2 IN SubSeq(ids, from, Least(from + limit - 1, Len(ids)))

Window(ids, offset, limit) == SubSeq(ids, offset + 1, Least(offset + limit, Len(ids)))

(* ORDER BY created_at DESC LIMIT .. OFFSET .. *)
list_journal(n, q) ==
  LET ids == SetToSortSeq(Ids(n), LAMBDA a, b : a > b)
  IN Window(ids, q.offset, IF q.limit = 0 THEN Default ELSE q.limit)

list_notification_events(n, q) ==
  LET ids == SetToSortSeq(Ids(n), LAMBDA a, b : a > b) IN Window(ids, q.offset, q.limit)

count_journal(n) == Cardinality(log[n])

----------------------------------------------------------------------------
(* One request *)

NoQuery == [sel |-> "", offset |-> 0, limit |-> 0, sources |-> {}, listed |-> <<>>, pages |-> <<>>,
            standing |-> <<>>, asked |-> {}]
Serving == query.sources # {}

(* The limit the merge is bounded by, and the one the tables are asked with. *)
Bound(limit) == IF family = "events" THEN Least(limit, Cap) ELSE limit

(* Which nodes a ?node= value stands for; none when it cannot be honoured. *)
select_node(sel) ==
  CASE sel = "self"  -> {Self}
    [] sel = "all"   -> {Self} \union eligible
    [] sel \in Node  -> {sel} \intersect ({Self} \union eligible)

Selections == {"self", "all"} \union (Node \ {Self})

dispatch(sel, offset, limit) ==
  /\ ~Serving
  /\ select_node(sel) # {}
  /\ query' = [sel |-> sel, offset |-> offset, limit |-> Bound(limit), sources |-> select_node(sel),
               listed |-> <<>>, pages |-> <<>>,
               standing |-> [n \in Node |-> Ids(n)], asked |-> {Self} \union eligible]
  /\ UNCHANGED <<family, log, clock, counters, eligible, answer>>

With(f, n, v) == [x \in DOMAIN f \union {n} |-> IF x = n THEN v ELSE f[x]]

(* Each source lists its rows and then counts them. *)
journal_page(n) ==
  /\ Serving /\ n \in query.sources \ DOMAIN query.pages
  /\ IF n \notin DOMAIN query.listed
     THEN query' = [query EXCEPT !.listed = With(@, n,
                      IF family = "journal" THEN list_journal(n, query) ELSE list_notification_events(n, query))]
     ELSE query' = [query EXCEPT !.pages = With(@, n,
                      [rows |-> query.listed[n], total |-> count_journal(n), error |-> FALSE])]
  /\ UNCHANGED <<family, log, clock, counters, eligible, answer, walk>>

(* Mutant of map_peer_error: a peer nobody asked counts as one that failed. *)
map_any_error(n) ==
  /\ Serving /\ n \in Node \ (DOMAIN query.pages \union {Self})
  /\ faults < MaxFaults
  /\ faults' = faults + 1
  /\ query' = [query EXCEPT !.pages = With(@, n, [rows |-> <<>>, total |-> 0, error |-> TRUE])]
  /\ UNCHANGED <<family, log, clock, touches, purges, eligible, answer, walk>>

(* A peer that does not answer is a page with an error. *)
map_peer_error(n) ==
  /\ Serving /\ n \in query.sources \ (DOMAIN query.pages \union {Self})
  /\ faults < MaxFaults
  /\ faults' = faults + 1
  /\ query' = [query EXCEPT !.pages = With(@, n, [rows |-> <<>>, total |-> 0, error |-> TRUE])]
  /\ UNCHANGED <<family, log, clock, touches, purges, eligible, answer, walk>>

(* The rows of all pages with their nodes, newest first, cut at the limit. *)
Labelled(pages) ==
  UNION {{[node |-> n, id |-> pages[n].rows[i]] : i \in DOMAIN pages[n].rows} : n \in DOMAIN pages}

(* Mutant of merge_node_pages: every page is cut to its share first. *)
MergeShares(pages, limit) ==
  LET share == limit \div Cardinality(DOMAIN pages)
      cut == [n \in DOMAIN pages |-> [pages[n] EXCEPT !.rows = SubSeq(@, 1, Least(share, Len(@)))]]
  IN SetToSortSeq(Labelled(cut), LAMBDA a, b : a.id > b.id)

merge_node_pages(pages, limit) ==
  LET rows == SetToSortSeq(Labelled(pages), LAMBDA a, b : a.id > b.id)
  IN SubSeq(rows, 1, Least(limit, Len(rows)))

proxy_to_peer(n, page) == [i \in DOMAIN page.rows |-> [node |-> n, id |-> page.rows[i]]]

Rows == IF query.sel = "all" THEN merge_node_pages(query.pages, query.limit)
        ELSE LET n == CHOOSE x \in query.sources : TRUE IN proxy_to_peer(n, query.pages[n])

(* What a walk has seen, and what stood all along it. *)
Seen(w) ==
  [w EXCEPT !.shown = @ \union {Rows[i].id : i \in DOMAIN Rows},
            !.done = Len(Rows) < query.limit,
            !.failed = @ \/ \E n \in DOMAIN query.pages : query.pages[n].error]

Reply ==
  /\ Serving /\ DOMAIN query.pages = query.sources
  /\ answer' = {[query |-> query, rows |-> Rows,
                 errors |-> {n \in DOMAIN query.pages : query.pages[n].error},
                 total |-> [n \in DOMAIN query.pages |-> query.pages[n].total]]}
  /\ walk' = {Seen(w) : w \in walk}
  /\ query' = NoQuery
  /\ UNCHANGED <<family, log, clock, counters, eligible>>

----------------------------------------------------------------------------
(* The console *)

Start(sel, limit) ==
  /\ walk = {} /\ answer = {}
  /\ limit > 0
  /\ dispatch(sel, 0, limit)
  /\ walk' = {[sel |-> sel, limit |-> limit, offset |-> 0, shown |-> {}, done |-> FALSE,
               failed |-> FALSE, purged |-> FALSE, standing |-> [n \in Node |-> Ids(n)]]}

Continue ==
  /\ \E w \in walk :
       /\ answer # {} /\ ~w.done /\ ~w.failed
       /\ dispatch(w.sel, w.offset + Bound(w.limit), w.limit)
       /\ walk' = {[w EXCEPT !.offset = @ + Bound(w.limit)]}

(* A peer drops out of the cluster, or comes back. *)
Change(n) ==
  /\ n # Self /\ faults < MaxFaults
  /\ faults' = faults + 1
  /\ eligible' = IF n \in eligible THEN eligible \ {n} ELSE eligible \union {n}
  /\ UNCHANGED <<family, log, clock, touches, purges, query, answer, walk>>

Init ==
  /\ family \in Families
  /\ log = [n \in Node |-> {}]
  /\ clock = 0 /\ touches = 0 /\ purges = 0 /\ faults = 0
  /\ eligible = Node \ {Self}
  /\ query = NoQuery /\ answer = {} /\ walk = {}

Next ==
  \/ \E n \in Node : insert_journal_entry(n) \/ (\E r \in log[n] : update_status(n, r))
                     \/ (\E before \in 1..MaxRows : purge_completed(n, before))
                     \/ journal_page(n) \/ map_peer_error(n) \/ Change(n)
  \/ \E sel \in Selections, limit \in Limits : Start(sel, limit)
  \/ Continue \/ Reply

Spec == Init /\ [][Next]_vars

----------------------------------------------------------------------------
TypeOK ==
  /\ \A n \in Node : Ids(n) \subseteq 1..clock
  /\ eligible \subseteq Node \ {Self}
  /\ DOMAIN query.pages \subseteq query.sources /\ query.sources \subseteq Node
  /\ Cardinality(answer) <= 1 /\ Cardinality(walk) <= 1

(* The first page of all nodes is the newest of them all, and says whom it *)
(* could not ask.  A row that stood from the request to the answer and is  *)
(* not on the page is older than everything there, and the page is full,   *)
(* unless its node is named as failing.                                    *)
FirstPageIsNewest ==
  \A a \in answer :
    a.query.sel = "all" /\ a.query.offset = 0 =>
      \A n \in a.query.asked \ a.errors : \A id \in a.query.standing[n] \intersect Ids(n) :
        \/ \E i \in DOMAIN a.rows : a.rows[i] = [node |-> n, id |-> id]
        \/ Len(a.rows) = a.query.limit /\ \A i \in DOMAIN a.rows : a.rows[i].id > id

(* A walk over the pages of one node, with rows added and updated under    *)
(* it, shows every row that stood all along.  Only a purge may shift rows  *)
(* past it, and a walk over all nodes is an approximation.                 *)
WalkShowsStanding ==
  \A w \in walk :
    w.done /\ ~w.failed /\ ~w.purged /\ w.sel # "all" =>
      \A id \in w.standing[IF w.sel = "self" THEN Self ELSE w.sel] : id \in w.shown
=============================================================================
