---------------------------- MODULE BrowsingProofs ----------------------------
(***************************************************************************)
(* The properties of Browsing, for every total, every size of a page and   *)
(* every width of an int that holds them.                                  *)
(***************************************************************************)
EXTENDS Browsing, PagingProofs

TypeInv ==
    /\ counted \in 1 .. MaxTotal
    /\ paging \in [page : Nat, size : 1 .. MaxSize]
    /\ links = PagingLinks(paging, counted)

(* The page that is shown starts no later than one behind the rows that    *)
(* were counted for it.                                                    *)
IInv == TypeInv /\ paging.page * paging.size <= counted

-----------------------------------------------------------------------------
(* The last page, by the division of PagingLinks: the one on which the     *)
(* last row counted is, or the empty one after it.                         *)
LEMMA LastIs ==
    ASSUME NEW n \in 1 .. MaxTotal, NEW pg \in [page : Nat, size : 1 .. MaxSize]
    PROVE  /\ LastPage(pg, n) \in Nat
           /\ LastPage(pg, n) * pg.size <= n
           /\ n < LastPage(pg, n) * pg.size + pg.size
<1>1. n \in Int64 /\ pg.size \in Int64 /\ n \in Nat /\ pg.size \in Nat \ {0}
  BY BrowsingBounds, IntRange
<1>2. LastPage(pg, n) = n \div pg.size
  BY <1>1, QuotientIs DEF LastPage
<1> QED BY <1>1, <1>2, Division

LEMMA LinksAre ==
    ASSUME NEW n \in 1 .. MaxTotal, NEW pg \in [page : Nat, size : 1 .. MaxSize],
           NEW l \in PagingLinks(pg, n)
    PROVE  \/ l.rel = "first" /\ l.page = 0
           \/ l.rel = "last" /\ l.page = LastPage(pg, n)
           \/ l.rel = "prev" /\ l.page = pg.page - 1 /\ pg.page > 0
           \/ l.rel = "next" /\ l.page = pg.page + 1 /\ pg.page < LastPage(pg, n)
BY DEF PagingLinks

(* Pages and sizes: the order of pages is the order of their first rows. *)
LEMMA PagesOrdered ==
    ASSUME NEW a \in Nat, NEW b \in Nat, NEW s \in Nat \ {0}
    PROVE  /\ a < b => a * s + s <= b * s
           /\ a <= b => a * s <= b * s
           /\ (a + 1) * s = a * s + s /\ (a - 1) * s = a * s - s
           /\ a * s \in Nat
<1>1. /\ (a + 1) * s = a * s + s /\ (a - 1) * s = a * s - s /\ a * s \in Nat
  OBVIOUS
<1>2. ASSUME a <= b PROVE a * s <= b * s
  BY <1>2
<1>3. ASSUME a < b PROVE a * s + s <= b * s
  <2>1. \A x, y \in Nat : x <= y => x * s <= y * s
    OBVIOUS
  <2>2. (a + 1) * s <= b * s
    BY <1>3, <2>1
  <2> QED BY <1>1, <2>2
<1> QED BY <1>1, <1>2, <1>3

-----------------------------------------------------------------------------
LEMMA InitEstablishes == Init => IInv
<1> SUFFICES ASSUME Init PROVE IInv
  OBVIOUS
<1>1. TypeInv /\ paging.page = 0 /\ paging.size \in Nat
  BY BrowsingBounds DEF Init, TypeInv
<1>2. paging.page * paging.size = 0
  BY <1>1
<1> QED BY <1>1, <1>2 DEF TypeInv, IInv

(* Every link leads to a page that starts no later than that. *)
LEMMA LinksStart ==
    ASSUME IInv, NEW l \in links
    PROVE  /\ l.page \in Nat /\ l.page * paging.size <= counted
           /\ (l.page - 1) * paging.size < counted
<1> DEFINE p == paging.page
           s == paging.size
           last == LastPage(paging, counted)
<1>1. /\ p \in Nat /\ s \in Nat \ {0} /\ counted \in 1 .. MaxTotal /\ p * s <= counted
      /\ paging \in [page : Nat, size : 1 .. MaxSize] /\ counted \in Nat \ {0}
  BY BrowsingBounds DEF IInv, TypeInv
<1>2. last \in Nat /\ last * s <= counted
  BY <1>1, LastIs
<1>3. l.page \in Nat /\ l.page * s <= counted
  <2>1. CASE l.page = 0
    BY <1>1, <2>1
  <2>2. CASE l.page = last
    BY <1>2, <2>2
  <2>3. CASE l.page = p - 1 /\ p > 0
    <3>1. (p - 1) * s = p * s - s /\ p * s \in Nat
      BY <1>1, PagesOrdered
    <3> QED BY <1>1, <2>3, <3>1
  <2>4. CASE l.page = p + 1 /\ p < last
    <3>1. (p + 1) * s = p * s + s /\ p * s + s <= last * s /\ p * s \in Nat
          /\ last * s \in Nat
      BY <1>1, <1>2, <2>4, PagesOrdered
    <3> QED BY <1>1, <1>2, <2>4, <3>1
  <2> QED BY <1>1, <2>1, <2>2, <2>3, <2>4, LinksAre DEF IInv, TypeInv
<1>4. (l.page - 1) * s = l.page * s - s /\ l.page * s \in Nat
  BY <1>1, <1>3, PagesOrdered
<1> QED BY <1>1, <1>3, <1>4

LEMMA NextKeeps == IInv /\ [Next]_vars => IInv'
<1> SUFFICES ASSUME IInv, [Next]_vars PROVE IInv'
  OBVIOUS
<1>1. ASSUME NEW l \in links, Follow(l) PROVE IInv'
  <2>1. l.page \in Nat /\ l.page * paging.size <= counted
    BY LinksStart
  <2>2. /\ paging' = [page |-> l.page, size |-> paging.size]
        /\ counted' \in 1 .. MaxTotal /\ counted <= counted' /\ counted \in Nat
        /\ links' = PagingLinks(paging', counted')
    BY <1>1 DEF Follow, Show, IInv, TypeInv
  <2>3. TypeInv'
    BY <2>1, <2>2 DEF IInv, TypeInv
  <2>4. paging'.page * paging'.size = l.page * paging.size /\ l.page * paging.size \in Int
    BY <2>1, <2>2, BrowsingBounds DEF IInv, TypeInv
  <2> QED BY <2>1, <2>2, <2>3, <2>4 DEF IInv
<1>2. CASE UNCHANGED vars
  BY <1>2 DEF vars, IInv, TypeInv
<1> QED BY <1>1, <1>2 DEF Next

(* The inductive invariant of a client that follows links (PagingLinks in  *)
(* api/api.go).                                                            *)
THEOREM InvariantHolds == Spec => []IInv
BY InitEstablishes, NextKeeps, PTL DEF Spec

(* No link leads further than the page after the last row. *)
THEOREM LinksHold == Spec => []LinksLeadToRows
<1>1. IInv => LinksLeadToRows
  <2> SUFFICES ASSUME IInv, NEW l \in links
               PROVE  0 <= l.page /\ (l.page - 1) * paging.size < counted
    BY DEF LinksLeadToRows
  <2> QED BY LinksStart
<1> QED BY <1>1, InvariantHolds, PTL

=============================================================================
