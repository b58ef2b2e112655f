------------------------------- MODULE Paging -------------------------------
(***************************************************************************)
(* The page of a listing: its parameters (api/api.go, ParsePaginator), the *)
(* window of rows it asks the database for, and the links to other pages   *)
(* (PagingLinks).  Go's int has a width, and its division truncates.       *)
(***************************************************************************)
EXTENDS Integers

CONSTANTS
    Width,       \* bits of a Go int
    PageSize,    \* the size of a page when none is given
    Absent,      \* a parameter that is not given, or empty
    Junk         \* a parameter that is no number, or one that is no Go int

Int64 == -(2 ^ (Width - 1)) .. 2 ^ (Width - 1) - 1

ASSUME PagingConstants ==
    /\ Width \in Nat \ {0} /\ PageSize \in Int64
    /\ Absent \notin Int64 /\ Junk \notin Int64 /\ Absent # Junk

Wrap(n) == ((n + 2 ^ (Width - 1)) % (2 ^ Width)) - 2 ^ (Width - 1)

(* Go's division of a by b # 0. *)
Quotient(a, b) ==
    LET abs(n) == IF n < 0 THEN -n ELSE n
        q == abs(a) \div abs(b)
    IN  Wrap(IF (a < 0) = (b < 0) THEN q ELSE -q)

(* internal.ParseInt; Junk is also its error. *)
ParseInt(given, default) == IF given = Absent THEN default ELSE given

Params == [page : Int64 \cup {Absent, Junk}, size : Int64 \cup {Absent, Junk}]
Paginator == [page : Int64, size : Int64]

(* ParsePaginator is defined for these parameters, and fails for others.   *)
Parses(params) == params.page # Junk /\ params.size # Junk

ParsePaginator(params) ==
    [page |-> ParseInt(params.page, 0), size |-> ParseInt(params.size, PageSize)]

(* The db.Paging that a listing asks for. *)
Window(paging) ==
    [limit |-> paging.size, offset |-> Wrap(paging.size * paging.page)]

(* Faulty variant: pages are numbered from 1. *)
LastPageLong(paging, total) == Quotient(total, paging.size) + 1

LastPage(paging, total) == Quotient(total, paging.size)

(* The page each link names, by its `rel`; there are none when nothing was *)
(* counted.  For size 0 the division panics.                               *)
Panics(paging, total) == total > 0 /\ paging.size = 0

PagingLinks(paging, total) ==
    LET last == LastPage(paging, total)
        link(rel, page) == [rel |-> rel, page |-> page]
    IN  IF total <= 0 THEN {}
        ELSE {link("first", 0), link("last", last)}
             \cup (IF paging.page > 0 THEN {link("prev", paging.page - 1)} ELSE {})
             \cup (IF paging.page < last THEN {link("next", paging.page + 1)} ELSE {})

=============================================================================
