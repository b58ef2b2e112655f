------------------------------- MODULE Listing -------------------------------
(***************************************************************************)
(* GET /users and GET /scounts: from the query parameters through Find,    *)
(* the iteration over its result and the links to the answer, while users  *)
(* register.                                                               *)
(*                                                                         *)
(* A listing is one transaction of two statements.  At READ COMMITTED each *)
(* of them sees what is committed when it starts: the count may be of      *)
(* other rows than the page.  The rows of the page are fixed when its      *)
(* statement runs and are then fetched one by one; any of the steps may    *)
(* fail.  Authware, which runs first, is part of Api.                      *)
(***************************************************************************)
EXTENDS Tables, Paging, SequencesExt

CONSTANTS
    Readers,     \* the listings the server handles at a time
    Queries,     \* the query parameters clients send
    Likes,       \* the names and the patterns they are ILIKE
    Faults       \* do connections fail?

VARIABLES
    pc,          \* where the handler of a listing is
    query,       \* its query parameters
    total,       \* `total` of the Iterable
    consumed,    \* `consumed` of the Iterable
    cursor,      \* the rows of the page that are still to be fetched
    list,        \* the response collection
    status,      \* the status it answers with
    links,       \* the links it answers with
    before,      \* history: the users there were when the request came
    moments,     \* history: the users of each moment until its page was selected
    walk         \* history: the pages the client has read in a row

(* A connection that net/http closes without an answer. *)
Aborted == 0

local == <<pc, query, total, consumed, cursor, list, status, links, before>>
vars == <<users, scounts, members, local, moments, walk>>

-----------------------------------------------------------------------------
(* Query parameters.  `form` is whether the query string can be decoded;   *)
(* `sort` is the list of names in the parameter sort.                      *)

SortNames == {"id", "email", "name", "~id", "~email", "~name"}
SomeNames == SortNames \cup {"unknown"}

Query == [op : {"ListUsers", "ListScounts"}, form : BOOLEAN,
          id : Uids \cup {None}, email : Emails \cup {None}, name : Names \cup {None},
          sort : Seq(SomeNames), params : Params]

NoQuery == [op |-> "none"]

ASSUME ListingConstants ==
    /\ Queries \subseteq Query
    /\ Uids \subseteq Nat          \* texts are ordered
    /\ Likes \subseteq Names \X Names /\ Faults \in BOOLEAN

(* ParseUserQuery fails for these; ParseScountQuery never does, and looks  *)
(* at nothing.                                                             *)
BadUserQuery(q) ==
    q.op = "ListUsers" /\ (~Parses(q.params) \/ ~(Range(q.sort) \subseteq SortNames))

Refused(q) == ~q.form \/ BadUserQuery(q)

PagingOf(q) ==
    IF q.op = "ListUsers" THEN ParsePaginator(q.params) ELSE [page |-> 0, size |-> 0]

(* PagingLinks parses the parameters again, for scounts for the first time *)
LinkPaging(q) == ParsePaginator(IF Parses(q.params) THEN q.params
                                ELSE [page |-> Absent, size |-> Absent])

(* The WHERE clause of a listing of users. *)
Matches(rows, q) ==
    {u \in rows : /\ q.id \in {None, u.uid}
                  /\ q.email \in {None, u.email}
                  /\ q.name = None \/ <<u.username, q.name>> \in Likes}

(* Faulty variant: no ORDER BY. *)
OrdersAny(rows) == SetToSeqs(rows)

(* The orders in which the rows may come.  The template "sort" is invoked  *)
(* without data, so that join falls back to uid, whatever was asked for.   *)
Orders(rows) ==
    {s \in SetToSeqs(rows) : \A i, j \in DOMAIN s : i < j => s[i].uid < s[j].uid}

(* LIMIT and OFFSET. *)
Page(rows, w) ==
    LET end == w.offset + w.limit
    IN  SubSeq(rows, w.offset + 1, IF end < Len(rows) THEN end ELSE Len(rows))

(* The count is grouped by uid: one row per user, each of them 1, of which *)
(* the first is read; reading none is an error.                            *)
Counts(rows) == {1 : u \in rows}

(* The response has no password. *)
Entry(u) == [id |-> u.uid, email |-> u.email, name |-> u.username]

-----------------------------------------------------------------------------
NoWalk == [of |-> NoQuery, next |-> 0, start |-> {}, seen |-> {}, done |-> FALSE]

Refuse(p, q) ==
    /\ pc[p] = "idle" /\ Refused(q)
    /\ pc' = [pc EXCEPT ![p] = "reply"]
    /\ query' = [query EXCEPT ![p] = q]
    /\ status' = [status EXCEPT ![p] = 400]
    /\ UNCHANGED <<users, scounts, members, total, consumed, cursor, list, links, before, moments, walk>>

(* The handler runs up to the iteration: Find only builds the statements.  *)
Arrive(p, q) ==
    /\ pc[p] = "idle" /\ ~Refused(q)
    /\ pc' = [pc EXCEPT ![p] = "count"]
    /\ query' = [query EXCEPT ![p] = q]
    /\ before' = [before EXCEPT ![p] = users]
    /\ moments' = [moments EXCEPT ![p] = {users}]
    /\ UNCHANGED <<users, scounts, members, total, consumed, cursor, list, status, links, walk>>

(* The iteration ends in an error; Tx rolls back and returns zero values.  *)
Error(p) ==
    /\ pc' = [pc EXCEPT ![p] = "failed"]
    /\ total' = [total EXCEPT ![p] = 0]
    /\ cursor' = [cursor EXCEPT ![p] = <<>>]

Answer(p, s, ls) ==
    /\ pc' = [pc EXCEPT ![p] = "reply"]
    /\ status' = [status EXCEPT ![p] = s]
    /\ links' = [links EXCEPT ![p] = ls]

(* Iterator is for a single use: it panics when the list is consumed, and  *)
(* else marks it and lets the statements run.                              *)
Iterator(p, run) ==
    IF consumed[p]
    THEN Answer(p, Aborted, {}) /\ UNCHANGED <<total, consumed, cursor>>
    ELSE /\ consumed' = [consumed EXCEPT ![p] = TRUE]
         /\ run
         /\ UNCHANGED <<status, links>>

(* The transaction begins and the count runs. *)
Count(p) ==
    /\ pc[p] = "count" /\ query[p].op = "ListUsers"
    /\ LET counts == Counts(Matches(users, query[p])) IN
       Iterator(p, IF counts # {}
                   THEN /\ \E n \in counts : total' = [total EXCEPT ![p] = n]
                        /\ pc' = [pc EXCEPT ![p] = "find"]
                        /\ UNCHANGED cursor
                   ELSE Error(p))
    /\ UNCHANGED <<users, scounts, members, query, list, before, moments, walk>>

(* The statements on scounts are not SQL: a count that orders by columns,  *)
(* and a list of columns with a comma at its end.                          *)
CountScounts(p) ==
    /\ pc[p] = "count" /\ query[p].op = "ListScounts"
    /\ Iterator(p, Error(p))
    /\ UNCHANGED <<users, scounts, members, query, list, before, moments, walk>>

(* The statement of the page, with what is committed when it starts;       *)
(* PostgreSQL refuses a negative LIMIT or OFFSET.                          *)
SelectPage(p) ==
    /\ pc[p] = "find"
    /\ LET w == Window(PagingOf(query[p])) IN
       IF w.limit < 0 \/ w.offset < 0
       THEN Error(p)
       ELSE /\ \E found \in Orders(Matches(users, query[p])) :
                  cursor' = [cursor EXCEPT ![p] = Page(found, w)]
            /\ pc' = [pc EXCEPT ![p] = "fetch"]
            /\ UNCHANGED total
    /\ UNCHANGED <<users, scounts, members, query, consumed, list, status, links, before, moments, walk>>

(* rows.Next, scanOne and yield, for one row. *)
Fetch(p) ==
    /\ pc[p] = "fetch" /\ cursor[p] # <<>>
    /\ list' = [list EXCEPT ![p] = Append(@, Entry(Head(cursor[p])))]
    /\ cursor' = [cursor EXCEPT ![p] = Tail(@)]
    /\ UNCHANGED <<users, scounts, members, pc, query, total, consumed, status, links, before, moments, walk>>

(* There are no more rows, and the transaction commits. *)
Commit(p) ==
    /\ pc[p] = "fetch" /\ cursor[p] = <<>>
    /\ pc' = [pc EXCEPT ![p] = "done"]
    /\ UNCHANGED <<users, scounts, members, query, total, consumed, cursor, list, status, links, before, moments, walk>>

(* The connection fails at any point of the transaction. *)
Break(p) ==
    /\ Faults
    /\ pc[p] \in {"count", "find", "fetch"}
    /\ Error(p)
    /\ consumed' = [consumed EXCEPT ![p] = TRUE]
    /\ UNCHANGED <<users, scounts, members, query, list, status, links, before, moments, walk>>

(* Faulty variant: Err is not asked for. *)
RespondRegardless(p) ==
    /\ pc[p] \in {"done", "failed"}
    /\ Answer(p, 200, {})
    /\ UNCHANGED <<users, scounts, members, query, total, consumed, cursor, list, before, moments, walk>>

(* Err and Total of an Iterable panic before the iteration. *)
TooEarly(p) == ~consumed[p]

Respond(p) ==
    /\ pc[p] \in {"done", "failed"}
    /\ LET paging == LinkPaging(query[p]) IN
       CASE TooEarly(p) -> Answer(p, Aborted, {})
         [] ~TooEarly(p) /\ pc[p] = "failed" -> Answer(p, 500, {})
         [] ~TooEarly(p) /\ pc[p] = "done" /\ Panics(paging, total[p]) -> Answer(p, Aborted, {})
         [] OTHER -> Answer(p, 200, PagingLinks(paging, total[p]))
    /\ UNCHANGED <<users, scounts, members, query, total, consumed, cursor, list, before, moments, walk>>

(* What the client has read page by page, each page of the same listing    *)
(* after the one before, from page 0 to a page without entries.            *)
SameListing(q) == [q EXCEPT !.params.page = 0]

Walked(p) ==
    LET q == query[p]
        page == PagingOf(q).page
        ids == {list[p][i].id : i \in DOMAIN list[p]}
        first == page = 0
        w == IF first THEN [NoWalk EXCEPT !.of = SameListing(q), !.start = before[p]]
                      ELSE walk[p]
    IN  IF first \/ (w.of = SameListing(q) /\ w.next = page)
        THEN [w EXCEPT !.next = page + 1, !.seen = @ \cup ids, !.done = list[p] = <<>>]
        ELSE NoWalk

(* The client has its answer; a failed request is no end of its walk.      *)
Reply(p) ==
    /\ pc[p] = "reply"
    /\ walk' = IF status[p] = 200 THEN [walk EXCEPT ![p] = Walked(p)] ELSE walk
    /\ pc' = [pc EXCEPT ![p] = "idle"]
    /\ query' = [query EXCEPT ![p] = NoQuery]
    /\ total' = [total EXCEPT ![p] = 0]
    /\ consumed' = [consumed EXCEPT ![p] = FALSE]
    /\ list' = [list EXCEPT ![p] = <<>>]
    /\ status' = [status EXCEPT ![p] = Aborted]
    /\ links' = [links EXCEPT ![p] = {}]
    /\ before' = [before EXCEPT ![p] = {}]
    /\ moments' = [moments EXCEPT ![p] = {}]
    /\ UNCHANGED <<users, scounts, members, cursor>>

(* Meanwhile users register.  No request removes or renames one. *)
Register(u) ==
    /\ UserInsert(u, Nil)
    /\ moments' = [p \in Readers |->
                     IF pc[p] \in {"count", "find"} THEN moments[p] \cup {users'} ELSE moments[p]]
    /\ UNCHANGED <<local, walk>>

-----------------------------------------------------------------------------
Init ==
    /\ TablesInit
    /\ pc = [p \in Readers |-> "idle"]
    /\ query = [p \in Readers |-> NoQuery]
    /\ total = [p \in Readers |-> 0]
    /\ consumed = [p \in Readers |-> FALSE]
    /\ cursor = [p \in Readers |-> <<>>]
    /\ list = [p \in Readers |-> <<>>]
    /\ status = [p \in Readers |-> Aborted]
    /\ links = [p \in Readers |-> {}]
    /\ before = [p \in Readers |-> {}]
    /\ moments = [p \in Readers |-> {}]
    /\ walk = [p \in Readers |-> NoWalk]

Handler(p) ==
    Count(p) \/ CountScounts(p) \/ SelectPage(p) \/ Fetch(p) \/ Commit(p) \/ Respond(p)

Next ==
    \/ \E p \in Readers :
          \/ \E q \in Queries : Refuse(p, q) \/ Arrive(p, q)
          \/ Handler(p) \/ Break(p) \/ Reply(p)
    \/ \E u \in User : Register(u)

Spec == Init /\ [][Next]_vars

-----------------------------------------------------------------------------
(* Answered(p, s): p has decided to answer a listing of users with s. *)
Answered(p, s) == pc[p] = "reply" /\ query[p].op = "ListUsers" /\ status[p] = s

Product(q) == PagingOf(q).size * PagingOf(q).page

(* How many of some rows come before row u. *)
Rank(rows, u) == Cardinality({v \in rows : v.uid < u.uid})

(* Entries that are the page q asks for of the rows that match it: its     *)
(* i-th entry is the row with i - 1 of them more before it than the        *)
(* earlier pages hold, and it is only short where the rows end.            *)
IsPage(entries, rows, q) ==
    LET found == Matches(rows, q)
    IN  /\ \A i \in DOMAIN entries :
              \E u \in found : /\ Rank(found, u) = Product(q) + i - 1
                               /\ entries[i] = Entry(u)
        /\ Len(entries) <= PagingOf(q).size
        /\ Len(entries) < PagingOf(q).size
              => Product(q) + Len(entries) >= Cardinality(found)

(* The orders that the code gives, whatever is asked for: by uid.          *)
AsksForUidOrder(q) == q.sort = <<>> \/ Head(q.sort) = "id"

(* An answer of 200 is one page, in order and complete, of the users that  *)
(* were there at one moment between the request and the statement of its   *)
(* page: never rows of two moments, a page cut short by a failure          *)
(* (users.go:241) or a page beside the one of its parameters.  What the    *)
(* code does not meet is left to SortedAsAsked and PageIsAsAsked: another  *)
(* order, and a page whose offset is no int.                               *)
ListIsOnePage ==
    \A p \in Readers :
        /\ Answered(p, 200) /\ AsksForUidOrder(query[p])
        /\ Product(query[p]) \in Int64
        => \E rows \in moments[p] : IsPage(list[p], rows, query[p])

(* A client that reads page after page until one is empty has seen every   *)
(* user who matched when it began, however many register meanwhile: a new  *)
(* row only pushes others to a later page (users.go:223, ORDER BY uid).    *)
WalkMissesNobody ==
    \A p \in Readers : walk[p].done =>
        \A u \in Matches(walk[p].start, walk[p].of) : u.uid \in walk[p].seen

-----------------------------------------------------------------------------
(* Statements of the repository's documents that the code does not meet.   *)

(* db/store.go:81: "Total returns the total number of elements in the      *)
(* list": of all who match, on whatever page, at least when nobody         *)
(* registers before the page is selected.                                  *)
TotalCountsList ==
    \A p \in Readers :
        pc[p] = "done" /\ moments[p] = {before[p]}
            => total[p] = Cardinality(Matches(before[p], query[p]))

(* openapi.json:248: "*sort* defines the fields on which entries are       *)
(* sorted": the entries of an answer come in the order of the first one.   *)
ValueOf(e, name) ==
    CASE name \in {"id", "~id"} -> e.id
      [] name \in {"email", "~email"} -> e.email
      [] name \in {"name", "~name"} -> e.name

SortedAsAsked ==
    \A p \in Readers : Answered(p, 200) /\ query[p].sort # <<>> =>
        LET name == Head(query[p].sort)
            v == [i \in DOMAIN list[p] |-> ValueOf(list[p][i], name)]
        IN  \A i, j \in DOMAIN v : i < j =>
                IF name \in {"~id", "~email", "~name"} THEN v[i] >= v[j] ELSE v[i] <= v[j]

(* openapi.json:807: "*page* is used for requesting a specific page": an   *)
(* answer with entries is for a page that some of the users are on.        *)
PageIsAsAsked ==
    \A p \in Readers :
        Answered(p, 200) /\ list[p] # <<>> => Product(query[p]) < Cardinality(users)

=============================================================================
