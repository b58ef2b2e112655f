------------------------------ MODULE MCListing ------------------------------
(***************************************************************************)
(* Instances of Listing for TLC.  Identifiers are numbers, as their order  *)
(* matters.                                                                *)
(***************************************************************************)
EXTENDS Listing

TwoUids == 1 .. 2
ThreeUids == 1 .. 3
SameNames == {<<n, n>> : n \in Names}

(* A query for one page of all users, or of those with one name. *)
Q(name, sort, size, page) ==
    [op |-> "ListUsers", form |-> TRUE, id |-> None, email |-> None, name |-> name,
     sort |-> sort, params |-> [page |-> page, size |-> size]]

AllUsers == {Q(None, <<>>, 2, 0)}
ByEmail == {Q(None, <<"email">>, 2, 0)}

(* With 5 bits, 8 times 4 is 0: the page no int can number in rows. *)
FarPage == {Q(None, <<>>, 4, page) : page \in {0, 8}}

(* Pages of several sizes, with and without filter, defaults included.     *)
PageQueries ==
    {Q(name, <<>>, size, page) : name \in {None, CHOOSE n \in Names : TRUE},
                                 size \in 1 .. 2, page \in 0 .. 3}
    \cup {Q(None, <<>>, Absent, page) : page \in {Absent, 1}}

(* Parameters at the edges of what is allowed, and beyond. *)
EdgeQueries ==
    {Q(None, <<"email", "~id">>, size, page) : size \in {-1, 0, 2, Junk},
                                               page \in {-1, 1, 15, Junk}}
    \cup {Q(None, <<"unknown">>, 1, 0)}
    \cup {[Q(None, <<>>, 1, 0) EXCEPT !.form = FALSE]}
    \cup {[Q(None, <<>>, 1, 0) EXCEPT !.op = "ListScounts"]}
    \cup {[Q(None, <<>>, 1, 0) EXCEPT !.id = u] : u \in Uids}
    \cup {[Q(None, <<>>, 1, 0) EXCEPT !.email = e] : e \in Emails}

ManyQueries == PageQueries \cup EdgeQueries

(* Emails are only compared. *)
Symmetry == Permutations(Emails)

=============================================================================
