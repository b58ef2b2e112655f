------------------------------- MODULE Browsing -------------------------------
(***************************************************************************)
(* A client that starts at page 0 of a listing and goes on by the links of *)
(* the answers (PagingLinks, in api/api.go).                               *)
(*                                                                         *)
(* The links are computed from what Total says.  For users that is always  *)
(* 1 (see Listing); here it is any number, and only never shrinks, as no   *)
(* request removes a user, so that what is shown does not rest on that 1.  *)
(***************************************************************************)
EXTENDS Paging

CONSTANTS MaxTotal, MaxSize     \* bounds: what Total says, the size asked for

(* Totals and sizes are Go ints. *)
ASSUME BrowsingBounds == MaxTotal \in Nat \cap Int64 /\ MaxSize \in Nat \cap Int64

VARIABLES
    paging,     \* the page that is shown
    counted,    \* what Total said for its answer
    links       \* the links of its answer

vars == <<paging, counted, links>>

(* The answer for page pg. *)
Show(pg) ==
    /\ counted' \in counted .. MaxTotal
    /\ paging' = pg
    /\ links' = PagingLinks(pg, counted')

Follow(l) == Show([paging EXCEPT !.page = l.page])

Init ==
    /\ counted \in 1 .. MaxTotal
    /\ paging \in [page : {0}, size : 1 .. MaxSize]
    /\ links = PagingLinks(paging, counted)

Next == \E l \in links : Follow(l)

Spec == Init /\ [][Next]_vars

-----------------------------------------------------------------------------
(* No link leads more than one page behind the last row that was counted,  *)
(* or before the first one: neither from the page that is shown nor by     *)
(* `last`, which names the last page or the empty one after it             *)
(* (PagingLinks, api/api.go:107).                                          *)
LinksLeadToRows ==
    \A l \in links : 0 <= l.page /\ (l.page - 1) * paging.size < counted

=============================================================================
