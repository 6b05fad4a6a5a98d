----------------------------- MODULE Registries -----------------------------
(***************************************************************************)
(* The lists that splinterd and gameroomd serve a page at a time, and the  *)
(* node registry, a YAML file with a copy of it in memory, whose writers   *)
(* are requests on the threads of the REST API.  A request that changes    *)
(* the registry copies the nodes under the lock, releases it, changes its  *)
(* copy and takes the lock again to write it, first to the file and then   *)
(* to memory.  A client walks a list by following the "next" links until   *)
(* one leads to the page it is on.                                         *)
(***************************************************************************)
EXTENDS Integers, Sequences, FiniteSets, SequencesExt

CONSTANTS
    Identities,     \* identities of nodes that requests name
    Keys,           \* the keys that a node's metadata may have
    Values,         \* the values of metadata, numbers
    Threads,        \* the threads that serve requests to change the registry
    MaxWrites,      \* bound on requests to change the registry
    MAX_LIMIT, DEFAULT_LIMIT,
    Limits,         \* limits that clients ask for
    Registry,       \* the nodes that the operator may have put into the file
    Filters,        \* filters on nodes that clients ask for: sets of [key, op, value]
    Tables,         \* the contents of the other lists: sequences of [id, match], match when the
                    \* row has what the list filters on
    None

VARIABLES
    cached_nodes,   \* the nodes in memory: a sequence of [identity, metadata]
    file,           \* the nodes in the file, or None when it cannot be parsed
    request,        \* what each thread is doing
    writes,         \* requests made to change the registry
    up,             \* splinterd runs
    table,          \* the rows of the list that this behaviour is about; None for the node
                    \* registry
    walk            \* the walk of a client

vars == <<cached_nodes, file, request, writes, up, table, walk>>

idle == [op |-> "none"]
NoWalk == [list |-> "none"]

Metadata == [Keys -> Values \cup {None}]
Ids(s) == [i \in DOMAIN s |-> s[i].identity]
Has(s, n) == \E i \in DOMAIN s : s[i].identity = n
Index(s, n) == CHOOSE i \in DOMAIN s : s[i].identity = n /\ \A j \in 1..(i - 1) : s[j].identity # n

\* Iterator::skip and Iterator::take.
Page(s, limit, offset) == SubSeq(s, offset + 1, IF offset + limit < Len(s) THEN offset + limit ELSE Len(s))

-----------------------------------------------------------------------------
(* The node registry.                                                      *)

\* The nodes that an operation makes of the copy it read; None is an error, and nothing is written.
add_node(nodes, r) ==
    IF Has(nodes, r.identity) THEN None
    ELSE Append(nodes, [identity |-> r.identity, metadata |-> r.updates])

update_node(nodes, r) ==
    IF ~Has(nodes, r.identity) THEN None
    ELSE [nodes EXCEPT ![Index(nodes, r.identity)].metadata =
             [k \in Keys |-> IF r.updates[k] # None THEN r.updates[k] ELSE @[k]]]

delete_node(nodes, r) ==
    IF ~Has(nodes, r.identity) THEN None ELSE RemoveAt(nodes, Index(nodes, r.identity))

Result(nodes, r) ==
    CASE r.op = "add" -> add_node(nodes, r)
      [] r.op = "update" -> update_node(nodes, r)
      [] r.op = "delete" -> delete_node(nodes, r)

\* The operators of a filter.
Compare(a, op, b) ==
    CASE op = "=" -> a = b
      [] op = ">" -> a > b
      [] op = "<" -> a < b
      [] op = "<=" -> a <= b
      [] op = ">=" -> a >= b
      [] op = "!=" -> a # b

\* list_nodes folds over a HashMap of filters, here in the order given, and skips and takes after
\* each.  No filters, and None for a limit or an offset, are the code's None.
list_nodes(nodes, filters, limit, offset) ==
    LET keep(s, f) == SelectSeq(s, LAMBDA n : /\ n.metadata[f.key] # None
                                              /\ Compare(n.metadata[f.key], f.op, f.value))
        cut(s) == Page(s, IF limit = None THEN Len(nodes) ELSE limit, IF offset = None THEN 0 ELSE offset)
    IN  IF filters = <<>> THEN cut(nodes)
        ELSE FoldLeft(LAMBDA s, f : cut(keep(s, f)), nodes, filters)

Matching(nodes, filters) == Ids(list_nodes(nodes, SetToSeq(filters), None, None))

\* What a walk of the node registry must still show: nodes that were there all along.  The list
\* has grown when it has only got longer at its end.
Steady(w, nodes) ==
    IF w.list # "nodes" THEN w
    ELSE [w EXCEPT !.steady = @ \cap ToSet(Matching(nodes, w.filters)),
                   !.grew = @ /\ IsPrefix(Matching(cached_nodes, w.filters), Matching(nodes, w.filters))]

\* A route reads the request (the body is parsed before) and get_cached_nodes copies the nodes.
get_cached_nodes(t, r) ==
    /\ table = None
    /\ up
    /\ request[t] = idle
    /\ writes < MaxWrites
    /\ writes' = writes + 1
    /\ LET data == Result(cached_nodes, r) IN
         request' = IF data = None THEN request
                    ELSE [request EXCEPT ![t] = [op |-> r.op, data |-> data]]
    /\ UNCHANGED <<cached_nodes, file, up, table, walk>>

\* write_nodes: the file is truncated and written, then the copy in memory replaced.
write_nodes(t) ==
    /\ request[t].op # "none"
    /\ file' = request[t].data
    /\ cached_nodes' = request[t].data
    /\ request' = [request EXCEPT ![t] = idle]
    /\ walk' = Steady(walk, request[t].data)
    /\ UNCHANGED <<writes, up, table>>

\* std::fs::write fails or the process ends after the file was truncated: what was written is a
\* prefix, which may be no YAML.  The copy in memory stays as it was.
write_fails(t) ==
    /\ request[t].op # "none"
    /\ file' \in {None} \cup {SubSeq(request[t].data, 1, k) : k \in 0..(Len(request[t].data) - 1)}
    /\ request' = [request EXCEPT ![t] = idle]
    /\ UNCHANGED <<cached_nodes, writes, up, table, walk>>

Stop ==
    /\ table = None
    /\ up
    /\ up' = FALSE
    /\ request' = [t \in Threads |-> idle]
    /\ walk' = NoWalk
    /\ UNCHANGED <<cached_nodes, file, writes, table>>

\* YamlNodeRegistry::new reads the file, or the daemon does not start.
new ==
    /\ ~up
    /\ file # None
    /\ cached_nodes' = file
    /\ up' = TRUE
    /\ UNCHANGED <<file, request, writes, table, walk>>

-----------------------------------------------------------------------------
(* Pages.                                                                  *)

\* Mutant of get_response_paging_info: the offset of the last page is rounded down, so that a
\* last page that is not full is left out.
DropsPartialPage(limit, offset, query_count) ==
    LET last == IF query_count > limit THEN (query_count \div limit - 1) * limit ELSE 0
    IN  [next |-> IF offset + limit > last THEN last ELSE offset + limit, last |-> last, limit |-> limit]

\* get_response_paging_info of splinterd.
get_response_paging_info(limit, offset, query_count) ==
    LET last == IF query_count > 0 THEN ((query_count - 1) \div limit) * limit ELSE 0
    IN  [next |-> IF offset + limit > last THEN last ELSE offset + limit, last |-> last, limit |-> limit]

validate_limit(limit) == IF limit > MAX_LIMIT THEN DEFAULT_LIMIT ELSE limit

\* gameroomd has its own, which puts the validated limit into the links.
gameroom_paging_info(limit, offset, query_count) ==
    get_response_paging_info(validate_limit(limit), offset, query_count)

\* What a list answers: the page, its links, and whether they keep the client's filter.
Answer(page, paging, keeps) == [page |-> page, paging |-> paging, keeps |-> keeps]

\* A row that matches is a key that try_into can parse; the iterator skips the others, and count
\* counts them all.
KeyRegistryIter(rows) == SelectSeq(rows, LAMBDA r : r.match)
list_keys(w) ==
    Answer(Page(KeyRegistryIter(table), w.limit, w.offset), get_response_paging_info(w.limit, w.offset, Len(table)), TRUE)

query_list_circuits(w) ==
    LET kept == IF w.filtered THEN SelectSeq(table, LAMBDA r : r.match) ELSE table
        data == Page(kept, w.limit, w.offset)
    IN  Answer(data, get_response_paging_info(w.limit, w.offset, Len(data)), TRUE)

\* A page of a table of gameroomd's database: the rows that match, but the count of which rows.
FromDb(w, rows, count, keeps) ==
    Answer(Page(rows, validate_limit(w.limit), w.offset), gameroom_paging_info(w.limit, w.offset, count), keeps)

list_proposals_from_db(w) == FromDb(w, table, Len(table), TRUE)

\* The links lead to "api/gamerooms?", without the status asked for, and the count is of all.
list_gamerooms_from_db(w) ==
    FromDb(w, IF w.filtered THEN SelectSeq(table, LAMBDA r : r.match) ELSE table, Len(table), FALSE)

list_unread_notifications_from_db(w) ==
    LET unread == SelectSeq(table, LAMBDA r : r.match) IN FromDb(w, unread, Len(unread), TRUE)

\* The games of one circuit; the count is of the games of all circuits.
list_xo_games_from_db(w) == FromDb(w, SelectSeq(table, LAMBDA r : r.match), Len(table), TRUE)

update_gameroom_notification(i) == table' = [table EXCEPT ![i].match = FALSE]

\* A notification is read, and is no longer on the list.
read_notification(i) ==
    /\ walk.list = "notifications" /\ table[i].match
    /\ update_gameroom_notification(i)
    /\ walk' = [walk EXCEPT !.grew = FALSE]
    /\ UNCHANGED <<cached_nodes, file, request, writes, up>>

-----------------------------------------------------------------------------
(* A client's walk.                                                        *)

StartNodes ==
    /\ up /\ table = None /\ walk.list = "none"
    /\ \E l \in Limits, f \in Filters :
         walk' = [list |-> "nodes", limit |-> l, filters |-> f, offset |-> 0, total |-> None, seen |-> <<>>,
                  steady |-> ToSet(Matching(cached_nodes, f)), grew |-> TRUE, done |-> FALSE]
    /\ UNCHANGED <<cached_nodes, file, request, writes, up, table>>

StartTable ==
    /\ table # None /\ walk.list = "none"
    /\ \E e \in {"keys", "circuits", "proposals", "gamerooms", "notifications", "games"}, l \in Limits,
          filtered \in BOOLEAN :
         /\ filtered => e \in {"circuits", "gamerooms"}
         /\ walk' = [list |-> e, limit |-> l, asked |-> filtered, filtered |-> filtered,
                      offset |-> 0, seen |-> <<>>, grew |-> TRUE, done |-> FALSE]
    /\ UNCHANGED <<cached_nodes, file, request, writes, up, table>>

\* Follow the next link, unless it leads to the page the client is on.
Follow(w, page, paging) ==
    [w EXCEPT !.seen = @ \o page, !.offset = paging.next, !.limit = paging.limit, !.done = paging.next = w.offset]

\* query_list_nodes counts the nodes, then lists the page: two closures on the blocking pool.
\* The map that a request's filters are read into has any order.
query_list_nodes ==
    /\ up /\ walk.list = "nodes" /\ ~walk.done
    /\ \E filters \in SetToSeqs(walk.filters) :
         walk' = IF walk.total = None
                 THEN [walk EXCEPT !.total = Len(list_nodes(cached_nodes, filters, None, None))]
                 ELSE [Follow(walk, Ids(list_nodes(cached_nodes, filters, walk.limit, walk.offset)),
                              get_response_paging_info(walk.limit, walk.offset, walk.total)) EXCEPT !.total = None]
    /\ UNCHANGED <<cached_nodes, file, request, writes, up, table>>

ListTable ==
    /\ walk.list \notin {"none", "nodes"} /\ ~walk.done
    /\ LET a == CASE walk.list = "keys" -> list_keys(walk)
                  [] walk.list = "circuits" -> query_list_circuits(walk)
                  [] walk.list = "proposals" -> list_proposals_from_db(walk)
                  [] walk.list = "gamerooms" -> list_gamerooms_from_db(walk)
                  [] walk.list = "notifications" -> list_unread_notifications_from_db(walk)
                  [] walk.list = "games" -> list_xo_games_from_db(walk)
       IN  walk' = [Follow(walk, [i \in DOMAIN a.page |-> a.page[i].id], a.paging)
                       EXCEPT !.filtered = @ /\ a.keeps]
    /\ UNCHANGED <<cached_nodes, file, request, writes, up, table>>

EndWalk ==
    /\ walk.list # "none" /\ walk.done
    /\ walk' = NoWalk
    /\ UNCHANGED <<cached_nodes, file, request, writes, up, table>>

Requests ==
    [op : {"add", "update"}, identity : Identities, updates : Metadata]
        \cup [op : {"delete"}, identity : Identities, updates : {[k \in Keys |-> None]}]

Init ==
    /\ file \in Registry
    /\ cached_nodes = file
    /\ request = [t \in Threads |-> idle]
    /\ writes = 0
    /\ up = TRUE
    /\ table \in Tables \cup {None}
    /\ walk = NoWalk

Next ==
    \/ \E t \in Threads, r \in Requests : get_cached_nodes(t, r)
    \/ \E t \in Threads : write_nodes(t) \/ write_fails(t)
    \/ Stop \/ new
    \/ table # None /\ \E i \in DOMAIN table : read_notification(i)
    \/ StartNodes \/ StartTable \/ query_list_nodes \/ ListTable \/ EndWalk

Spec == Init /\ [][Next]_vars

-----------------------------------------------------------------------------
(* Properties.                                                             *)

Count(s, x) == Cardinality({i \in DOMAIN s : s[i] = x})

\* The rows that a walk of a table is to show.
Expected ==
    {table[i].id : i \in {j \in DOMAIN table :
        walk.list \in {"keys", "games", "notifications"} => table[j].match}}

\* A client that follows the next links (get_response_paging_info of either daemon) from the first
\* page until one leads nowhere new has been shown each item once.
\*   - Of the node registry, with at most one filter: each node that matched all along, though
\*     nodes are added and updated between the count, the page and the next page.  Not when the
\*     list of those that match did other than grow at its end: a node was removed, or an update
\*     made one before the end match or no longer match.  With two filters the offset is applied
\*     twice (list_nodes), and nodes are left out.
\*   - Of a table: each row, provided none was taken off the list (read_notification).  Filters on
\*     circuits and gamerooms are left out, and so are circuits (query_list_circuits counts the
\*     page) and an unaligned offset.
WalkShowsEachOnce ==
    walk.list \notin {"none", "circuits"} /\ walk.done =>
      IF walk.list = "nodes"
      THEN walk.grew /\ Cardinality(walk.filters) <= 1 => \A n \in walk.steady : Count(walk.seen, n) = 1
      ELSE walk.asked \/ ~walk.grew \/ \A x \in Expected : Count(walk.seen, x) = 1
=============================================================================
