---------------------------- MODULE ListingProofs ----------------------------
(***************************************************************************)
(* The properties of Listing, for every number of listings, users and      *)
(* queries, and every width of an int.                                     *)
(***************************************************************************)
EXTENDS Listing, PagingProofs, TablesProofs, SequenceTheorems

-----------------------------------------------------------------------------
(* The inductive invariant.                                                *)

States == {"idle", "count", "find", "fetch", "done", "failed", "reply"}

TablesInv == TablesTypeOK /\ Integrity /\ IsFiniteSet(users)

Entries == {Entry(u) : u \in User}

TypeInv ==
    /\ pc \in [Readers -> States]
    /\ query \in [Readers -> Queries \cup {NoQuery}]
    /\ total \in [Readers -> {0, 1}]
    /\ consumed \in [Readers -> BOOLEAN]
    /\ cursor \in [Readers -> Seq(User)]
    /\ list \in [Readers -> Seq(Entries)]
    /\ status \in [Readers -> {Aborted, 200, 400, 500}]
    /\ before \in [Readers -> SUBSET User]

(* The handler's own state, step by step. *)
HandlerInv ==
    \A p \in Readers :
        /\ pc[p] # "idle" => query[p] \in Queries
        /\ pc[p] \notin {"idle", "reply"} => ~Refused(query[p])
        /\ pc[p] \in {"find", "fetch", "done"} =>
              query[p].op = "ListUsers" /\ total[p] = 1
        /\ pc[p] \in {"find", "fetch", "done", "failed"} => consumed[p]
        /\ pc[p] \in {"idle", "count"} => ~consumed[p]
        /\ pc[p] \in {"idle", "count", "find"} => list[p] = <<>>
        /\ pc[p] # "fetch" => cursor[p] = <<>>

(* What an answer was given for. *)
AnswerInv ==
    \A p \in Readers : pc[p] = "reply" =>
        /\ status[p] = 200 => /\ ~Refused(query[p]) /\ query[p].op = "ListUsers"
                              /\ PagingOf(query[p]).size # 0
        /\ status[p] = 400 \/ ~Refused(query[p])

(* The users that the next page of p's client cannot be without: the ones  *)
(* there were when its request came, or are there before it comes.         *)
Base(p) ==
    IF pc[p] = "idle" \/ (pc[p] = "reply" /\ status[p] = 400) THEN users ELSE before[p]

(* Of some rows, the one with r others before it has entry e. *)
IsAt(rows, e, r) == \E u \in rows : e = Entry(u) /\ Rank(rows, u) = r

(* The entries so far and the rows still to come are, together, the window *)
(* of the rows that match query q.                                         *)
IsWindow(entries, rest, rows, q) ==
    LET w == Window(PagingOf(q))
        found == Matches(rows, q)
    IN  /\ w.limit \in Nat /\ w.offset \in Nat
        /\ \A i \in DOMAIN entries : IsAt(found, entries[i], w.offset + i - 1)
        /\ \A i \in DOMAIN rest :
              IsAt(found, Entry(rest[i]), w.offset + Len(entries) + i - 1)
        /\ Len(entries) + Len(rest) <= w.limit
        /\ Len(entries) + Len(rest) < w.limit =>
              w.offset + Len(entries) + Len(rest) >= Cardinality(found)

(* The moments of a request come after it, and now is one of them until    *)
(* its page is selected.                                                   *)
MomentsInv ==
    /\ moments \in [Readers -> SUBSET SUBSET User]
    /\ \A p \in Readers :
          /\ \A rows \in moments[p] : before[p] \subseteq rows /\ rows \subseteq users
          /\ pc[p] \in {"count", "find"} => users \in moments[p]

(* A page is one of the users of one of the moments. *)
HasPage(p) ==
    \E rows \in moments[p] : IsWindow(list[p], cursor[p], rows, query[p])

PageInv ==
    \A p \in Readers :
        /\ Base(p) \subseteq users
        /\ pc[p] \in {"fetch", "done"} \/ (pc[p] = "reply" /\ status[p] = 200) => HasPage(p)

(* Who is on the pages read so far, or else on the next one or a later one *)
(* whatever users register before that one is read.                        *)
IsWalk(w, base) ==
    LET size == PagingOf(w.of).size IN
    /\ w.of \in Query /\ w.of.op = "ListUsers"
    /\ size \in Int64 /\ size > 0
    /\ w.next \in Nat \ {0} /\ (w.next - 1) * size \in Int64
    /\ w.start \subseteq base
    /\ \A u \in Matches(w.start, w.of) :
          \/ u.uid \in w.seen
          \/ ~w.done /\ Rank(Matches(base, w.of), u) >= w.next * size

Walks == [of : {NoQuery} \cup Query, next : Nat, start : SUBSET User,
          seen : SUBSET Uids, done : BOOLEAN]

WalkInv ==
    /\ walk \in [Readers -> Walks]
    /\ \A p \in Readers : walk[p] = NoWalk \/ IsWalk(walk[p], Base(p))

IInv == TablesInv /\ TypeInv /\ HandlerInv /\ AnswerInv /\ MomentsInv /\ PageInv /\ WalkInv

-----------------------------------------------------------------------------
(* Users in order.                                                         *)

(* No two of some rows have the same uid. *)
UidsDiffer(rows) == \A u, v \in rows : u.uid = v.uid => u = v

LEMMA UidsAreNumbers == \A u \in User : u.uid \in Nat
<1>1. Uids \subseteq Nat
  BY ListingConstants, Zenon
<1> QED BY <1>1 DEF User

LEMMA RankType ==
    ASSUME NEW rows, IsFiniteSet(rows), NEW u
    PROVE  Rank(rows, u) \in Nat /\ Cardinality(rows) \in Nat
<1>1. IsFiniteSet({v \in rows : v.uid < u.uid})
  BY FS_Subset
<1> QED BY <1>1, FS_CardinalityType DEF Rank

(* A row is not before itself. *)
LEMMA RankBound ==
    ASSUME NEW rows \in SUBSET User, IsFiniteSet(rows), NEW u \in rows
    PROVE  Rank(rows, u) < Cardinality(rows)
<1> DEFINE Below == {v \in rows : v.uid < u.uid}
<1>1. Below \in SUBSET rows /\ u \in rows \ Below
  BY UidsAreNumbers
<1>2. IsFiniteSet(Below) /\ Cardinality(Below) <= Cardinality(rows) /\ Below # rows
  BY <1>1, FS_Subset
<1>3. Cardinality(rows) # Cardinality(Below)
  BY <1>1, <1>2, FS_Subset
<1> QED BY <1>2, <1>3, RankType DEF Rank

(* New rows only push a row back. *)
LEMMA RankGrows ==
    ASSUME NEW rows, NEW more, IsFiniteSet(more), rows \subseteq more, NEW u
    PROVE  Rank(rows, u) <= Rank(more, u)
<1>1. IsFiniteSet({v \in more : v.uid < u.uid})
  BY FS_Subset
<1>2. {v \in rows : v.uid < u.uid} \in SUBSET {v \in more : v.uid < u.uid}
  OBVIOUS
<1> QED BY <1>1, <1>2, FS_Subset DEF Rank

(* No two rows have the same place. *)
LEMMA RankOrders ==
    ASSUME NEW rows \in SUBSET User, IsFiniteSet(rows),
           NEW u \in rows, NEW v \in rows, u.uid < v.uid
    PROVE  Rank(rows, u) < Rank(rows, v)
<1> DEFINE Below(w) == {x \in rows : x.uid < w.uid}
<1>1. Below(u) \in SUBSET Below(v) /\ u \in Below(v) /\ u \notin Below(u)
  BY UidsAreNumbers
<1>2. IsFiniteSet(Below(v))
  BY FS_Subset
<1>3. /\ Cardinality(Below(u)) <= Cardinality(Below(v))
      /\ Cardinality(Below(u)) # Cardinality(Below(v))
  BY <1>1, <1>2, FS_Subset
<1> QED BY <1>3, RankType DEF Rank

LEMMA RankDiffers ==
    ASSUME NEW rows \in SUBSET User, IsFiniteSet(rows), UidsDiffer(rows),
           NEW u \in rows, NEW v \in rows, Rank(rows, u) = Rank(rows, v)
    PROVE  u = v
<1>1. u.uid \in Nat /\ v.uid \in Nat
  BY UidsAreNumbers
<1>2. ~(u.uid < v.uid) /\ ~(v.uid < u.uid)
  BY RankOrders, RankType
<1> QED BY <1>1, <1>2 DEF UidsDiffer

(* In a list ordered by uid the place of a row is its rank. *)
LEMMA OrderedByRank ==
    ASSUME NEW rows \in SUBSET User, IsFiniteSet(rows), NEW s \in Orders(rows)
    PROVE  /\ Cardinality(rows) \in Nat
           /\ s \in [1 .. Cardinality(rows) -> rows]
           /\ \A i \in 1 .. Cardinality(rows) : Rank(rows, s[i]) = i - 1
<1> DEFINE n == Cardinality(rows)
<1>1. n \in Nat
  BY FS_CardinalityType
<1>2. /\ s \in [1 .. n -> rows]
      /\ \A i, j \in 1 .. n : i # j => s[i] # s[j]
      /\ \A i, j \in 1 .. n : i < j => s[i].uid < s[j].uid
  BY DEF Orders, SetToSeqs
<1> HIDE DEF n
<1>3. s \in Surjection(1 .. n, rows)
  <2>1. s \in Injection(1 .. n, rows)
    BY <1>2 DEF Injection, IsInjective
  <2>2. IsFiniteSet(1 .. n) /\ Cardinality(1 .. n) = n
    BY <1>1, FS_Interval
  <2> QED BY <2>1, <2>2, FS_Injection DEF n
<1>4. ASSUME NEW i \in 1 .. n PROVE Rank(rows, s[i]) = i - 1
  <2> DEFINE Below == {v \in rows : v.uid < s[i].uid}
             f == [j \in 1 .. i - 1 |-> s[j]]
  <2>1. \A j \in 1 .. n : s[j].uid \in Nat
    BY <1>2, UidsAreNumbers
  <2>2. \A j \in 1 .. i - 1 : f[j] = s[j] /\ j \in 1 .. n /\ f[j] \in Below
    BY <1>1, <1>2
  <2>3. \A v \in Below : \E j \in 1 .. i - 1 : f[j] = v
    <3>1. SUFFICES ASSUME NEW v \in Below PROVE \E j \in 1 .. i - 1 : f[j] = v
      OBVIOUS
    <3>2. PICK j \in 1 .. n : s[j] = v
      BY <1>3 DEF Surjection
    <3>3. ~(i < j) /\ i # j
      BY <1>2, <2>1, <3>2
    <3>4. j \in 1 .. i - 1
      BY <1>1, <3>3
    <3> QED BY <3>2, <3>4
  <2>4. f \in [1 .. i - 1 -> Below]
    BY <2>2
  <2>5. \A j, k \in 1 .. i - 1 : f[j] = f[k] => j = k
    BY <1>2, <2>2
  <2>6. f \in Bijection(1 .. i - 1, Below)
    <3> HIDE DEF f, Below
    <3> QED BY <2>3, <2>4, <2>5 DEF Bijection, Injection, Surjection, IsInjective
  <2>7. IsFiniteSet(1 .. i - 1) /\ Cardinality(1 .. i - 1) = i - 1
    BY <1>1, FS_Interval
  <2> HIDE DEF f, Below
  <2>8. ExistsBijection(1 .. i - 1, Below)
    BY <2>6 DEF ExistsBijection
  <2>9. Cardinality(Below) = i - 1
    BY <2>7, <2>8, FS_Bijection
  <2> QED BY <2>9 DEF Rank, Below
<1> QED BY <1>1, <1>2, <1>4 DEF n

-----------------------------------------------------------------------------
(* Queries and their windows.                                              *)

LEMMA PagingOfQuery ==
    ASSUME NEW q \in Query, ~Refused(q), q.op = "ListUsers"
    PROVE  PagingOf(q) \in Paginator /\ LinkPaging(q) = PagingOf(q)
<1>1. Parses(q.params) /\ q.params \in Params
  BY DEF Refused, BadUserQuery, Query
<1>2. 0 \in Int64 /\ PageSize \in Int64
  BY IntRange, PagingConstants
<1>3. ParsePaginator(q.params) \in Paginator
  BY <1>1, <1>2 DEF Parses, Params, ParsePaginator, ParseInt, Paginator
<1> QED BY <1>1, <1>3 DEF PagingOf, LinkPaging

LEMMA QueriesAreQueries ==
    ASSUME NEW q \in Queries
    PROVE  q \in Query /\ q # NoQuery /\ q.op \in {"ListUsers", "ListScounts"}
<1>1. q \in Query
  BY ListingConstants, Zenon
<1> QED BY <1>1 DEF Query, NoQuery

LEMMA FiniteMatches ==
    ASSUME NEW rows, IsFiniteSet(rows), NEW q
    PROVE  IsFiniteSet(Matches(rows, q))
BY FS_Subset DEF Matches

LEMMA MatchesGrow ==
    ASSUME NEW rows, NEW q
    PROVE  /\ Matches(rows, q) \subseteq rows
           /\ \A more : rows \subseteq more =>
                 Matches(rows, q) \subseteq Matches(more, q)
           /\ \A more : rows \subseteq more =>
                 rows \cap Matches(more, q) = Matches(rows, q)
BY DEF Matches

(* The matches among the users, or among some of them. *)
LEMMA MatchesFinite ==
    ASSUME TablesInv, NEW rows \in SUBSET users, NEW q
    PROVE  /\ IsFiniteSet(rows) /\ IsFiniteSet(Matches(rows, q))
           /\ Matches(rows, q) \in SUBSET User /\ UidsDiffer(Matches(rows, q))
           /\ Cardinality(Matches(rows, q)) \in Nat
<1>1. IsFiniteSet(rows)
  BY FS_Subset DEF TablesInv
<1>2. Matches(rows, q) \subseteq rows /\ users \subseteq User
  BY MatchesGrow DEF TablesInv, TablesTypeOK
<1>3. IsFiniteSet(Matches(rows, q)) /\ Cardinality(Matches(rows, q)) \in Nat
  BY <1>1, <1>2, FS_Subset, FS_CardinalityType
<1>4. UidsDiffer(Matches(rows, q))
  BY <1>2 DEF TablesInv, Integrity, Keys, UidsDiffer
<1> QED BY <1>1, <1>2, <1>3, <1>4

(* LIMIT and OFFSET cut a window out of an ordered list. *)
LEMMA PageIsWindow ==
    ASSUME NEW rows \in SUBSET User, IsFiniteSet(rows), NEW s \in Orders(rows),
           NEW limit \in Nat, NEW offset \in Nat,
           NEW c, c = Page(s, [limit |-> limit, offset |-> offset])
    PROVE  /\ c \in Seq(User) /\ Len(c) <= limit
           /\ Len(c) < limit => offset + Len(c) >= Cardinality(rows)
           /\ \A i \in DOMAIN c : c[i] \in rows /\ Rank(rows, c[i]) = offset + i - 1
<1> DEFINE n == Cardinality(rows)
           end == offset + limit
           last == IF end < n THEN end ELSE n
<1>1. /\ n \in Nat /\ s \in [1 .. n -> rows]
      /\ \A i \in 1 .. n : Rank(rows, s[i]) = i - 1
  BY OrderedByRank
<1>2. Len(s) = n
  BY <1>1
<1> DEFINE m == offset + 1
<1>3. c = SubSeq(s, m, last)
  BY <1>2 DEF Page
<1> HIDE DEF n
<1>4. last \in Int /\ last <= n /\ last <= end
  BY <1>1
<1>5. last = end \/ last = n
  OBVIOUS
<1> HIDE DEF last
<1>6. \A i \in m .. last : i \in 1 .. n /\ s[i] \in User
  BY <1>1, <1>4
<1>7. m \in Int
  OBVIOUS
<1> HIDE DEF m
<1>8. /\ c \in Seq(User)
      /\ Len(c) = IF m <= last THEN last - m + 1 ELSE 0
      /\ \A i \in 1 .. last - m + 1 : c[i] = s[m + i - 1]
  <2>1. \A i \in m .. last : s[i] \in User
    BY <1>6
  <2>2. SubSeq(s, m, last) \in Seq(User)
    BY ONLY <1>4, <1>7, <2>1, SubSeqProperties
  <2>3. Len(SubSeq(s, m, last)) = IF m <= last THEN last - m + 1 ELSE 0
    BY ONLY <1>4, <1>7, <2>1, SubSeqProperties
  <2>4. \A i \in 1 .. last - m + 1 : SubSeq(s, m, last)[i] = s[m + i - 1]
    BY ONLY <1>4, <1>7, <2>1, SubSeqProperties
  <2> QED BY <1>3, <2>2, <2>3, <2>4, Zenon
<1>9. Len(c) \in Nat /\ DOMAIN c = 1 .. Len(c)
  BY <1>8
<1>10. Len(c) <= limit /\ (Len(c) < limit => offset + Len(c) >= n)
  BY <1>1, <1>4, <1>5, <1>8 DEF m
<1>11. ASSUME NEW i \in 1 .. Len(c)
       PROVE  c[i] \in rows /\ Rank(rows, c[i]) = offset + i - 1
  <2>1. i \in 1 .. last - m + 1
    BY <1>4, <1>7, <1>8, <1>9
  <2>2. m + i - 1 = offset + i /\ c[i] = s[m + i - 1]
    BY <1>8, <2>1 DEF m
  <2>3. offset + i \in 1 .. n
    BY <1>1, <1>4, <2>1 DEF m
  <2> QED BY <1>1, <2>2, <2>3
<1> QED BY <1>8, <1>9, <1>10, <1>11 DEF n

(* The window after one that an int can number either starts at a row that *)
(* an int can number, or has a negative offset, which is refused.          *)
LEMMA NextOffset ==
    ASSUME NEW size \in Int64, size > 0, NEW n \in Nat \ {0},
           (n - 1) * size \in Int64, Wrap(size * n) >= 0
    PROVE  Wrap(size * n) = n * size /\ n * size \in Int64
<1>1. size \in Nat \ {0} /\ size < Half /\ Half \in Nat
  BY IntRange
<1>2. size * n = n * size /\ n * size = (n - 1) * size + size /\ (n - 1) * size \in Nat
  BY <1>1
<1>3. (n - 1) * size < Half
  BY IntRange
<1> DEFINE k == n * size
<1>4. k \in 0 .. 2 * Half - 1
  BY <1>1, <1>2, <1>3
<1> HIDE DEF k
<1>5. CASE k < Half
  <2>1. k \in Int64
    BY <1>1, <1>4, <1>5, IntRange
  <2> QED BY <1>2, <2>1, WrapKeeps DEF k
<1>6. CASE k >= Half
  <2>1. Wrap(k) < 0
    BY <1>1, <1>4, <1>6, WrapNegates
  <2> QED BY <1>1, <1>2, <2>1, IntRange DEF k, Wrap, Half
<1> QED BY <1>1, <1>4, <1>5, <1>6

-----------------------------------------------------------------------------
(* Steps keep the invariant: first the tables and the types.               *)

LEMMA TablesKept ==
    ASSUME TablesInv, [Next]_vars
    PROVE  /\ TablesInv' /\ users \subseteq users'
           /\ \/ UNCHANGED <<users, scounts, members>>
              \/ UNCHANGED <<local, walk>>
<1>1. ASSUME UNCHANGED <<users, scounts, members>> PROVE TablesInv'
  BY <1>1 DEF TablesInv, TablesTypeOK, Integrity, Keys, References, UidsOf, SidsOf
<1>2. ASSUME NEW u \in User, Register(u) PROVE TablesInv' /\ users \subseteq users'
  <2>1. TablesTypeOK' /\ Integrity'
    BY <1>2, UserInsertKeeps DEF Register, TablesInv
  <2>2. users' = users \cup {u} \/ users' = users
    BY <1>2 DEF Register, UserInsert, Rejected, tables
  <2>3. IsFiniteSet(users')
    BY <2>2, FS_AddElement DEF TablesInv
  <2> QED BY <2>1, <2>2, <2>3 DEF TablesInv
<1>3. ASSUME NEW p \in Readers, NEW q \in Queries,
             Refuse(p, q) \/ Arrive(p, q) \/ Handler(p) \/ Break(p) \/ Reply(p)
      PROVE  UNCHANGED <<users, scounts, members>>
  BY <1>3 DEF Refuse, Arrive, Handler, Count, CountScounts, SelectPage, Fetch,
              Commit, Respond, Break, Reply
<1>4. ASSUME NEW p \in Readers, Handler(p) \/ Break(p) \/ Reply(p)
      PROVE  UNCHANGED <<users, scounts, members>>
  BY <1>4 DEF Handler, Count, CountScounts, SelectPage, Fetch,
              Commit, Respond, Break, Reply
<1>5. CASE \E u \in User : Register(u)
  BY <1>2, <1>5 DEF Register
<1>6. CASE UNCHANGED vars
  BY <1>1, <1>6 DEF vars
<1> QED BY <1>1, <1>3, <1>4, <1>5, <1>6 DEF Next

(* The iterator, used once: it ends in an error, or the count of a group,  *)
(* which is 1, is read.                                                    *)
LEMMA CountSteps ==
    ASSUME IInv, NEW p \in Readers, Count(p) \/ CountScounts(p)
    PROVE  /\ pc[p] = "count" /\ consumed' = [consumed EXCEPT ![p] = TRUE]
           /\ UNCHANGED <<users, query, list, status, before, moments>>
           /\ \/ Error(p)
              \/ /\ query[p].op = "ListUsers" /\ pc' = [pc EXCEPT ![p] = "find"]
                 /\ total' = [total EXCEPT ![p] = 1] /\ cursor' = cursor
<1>1. pc[p] = "count" /\ ~consumed[p]
  BY DEF Count, CountScounts, IInv, HandlerInv
<1>2. CASE Count(p)
  BY <1>1, <1>2 DEF Count, Iterator, Counts
<1>3. CASE CountScounts(p)
  BY <1>1, <1>3 DEF CountScounts, Iterator
<1> QED BY <1>1, <1>2, <1>3

(* The page's statement, in the words of IsWindow. *)
LEMMA SelectSteps ==
    ASSUME IInv, NEW p \in Readers, SelectPage(p)
    PROVE  \/ Error(p)
           \/ /\ pc' = [pc EXCEPT ![p] = "fetch"] /\ total' = total
              /\ \E c \in Seq(User) :
                    /\ cursor' = [cursor EXCEPT ![p] = c]
                    /\ IsWindow(<<>>, c, users, query[p])
<1> DEFINE q == query[p]
           w == Window(PagingOf(q))
           found == Matches(users, q)
<1>1. q \in Query /\ ~Refused(q) /\ q.op = "ListUsers"
  BY QueriesAreQueries DEF SelectPage, IInv, HandlerInv
<1>2. w.limit \in Int /\ w.offset \in Int /\ w = [limit |-> w.limit, offset |-> w.offset]
  <2>1. PagingOf(q).size \in Int /\ PagingOf(q).page \in Int
    BY <1>1, PagingOfQuery, IntRange DEF Paginator
  <2>2. Wrap(PagingOf(q).size * PagingOf(q).page) \in Int
    BY <2>1, IntRange DEF Wrap, Half
  <2> QED BY <2>1, <2>2 DEF Window
<1>3. CASE w.limit < 0 \/ w.offset < 0
  BY <1>3 DEF SelectPage
<1>4. CASE ~(w.limit < 0 \/ w.offset < 0)
  <2>1. PICK s \in Orders(found) : cursor' = [cursor EXCEPT ![p] = Page(s, w)]
    BY <1>4 DEF SelectPage
  <2> DEFINE c == Page(s, w)
  <2>2. IsFiniteSet(found) /\ found \in SUBSET User
    BY MatchesFinite DEF IInv
  <2>3. w.limit \in Nat /\ w.offset \in Nat
    BY <1>2, <1>4
  <2> HIDE DEF w, found
  <2>4. /\ c \in Seq(User) /\ Len(c) <= w.limit
        /\ Len(c) < w.limit => w.offset + Len(c) >= Cardinality(found)
        /\ \A i \in DOMAIN c : c[i] \in found /\ Rank(found, c[i]) = w.offset + i - 1
    BY <1>2, <2>2, <2>3, PageIsWindow
  <2> HIDE DEF c
  <2>5. IsWindow(<<>>, c, users, q)
    <3>1. Len(<<>>) = 0 /\ DOMAIN <<>> = {} /\ Len(c) \in Nat
      BY <2>4
    <3>2. \A i \in DOMAIN c : IsAt(found, Entry(c[i]), w.offset + 0 + i - 1)
      BY <2>3, <2>4 DEF IsAt
    <3> QED BY <2>3, <2>4, <3>1, <3>2 DEF IsWindow, w, found
  <2> QED BY <1>4, <2>1, <2>4, <2>5 DEF SelectPage, c, w
<1> QED BY <1>3, <1>4

(* The answer of a listing. *)
LEMMA RespondSteps ==
    ASSUME IInv, NEW p \in Readers, Respond(p)
    PROVE  /\ pc' = [pc EXCEPT ![p] = "reply"]
           /\ \E s \in {Aborted, 200, 500} :
                 /\ status' = [status EXCEPT ![p] = s]
                 /\ s = 200 => pc[p] = "done" /\ PagingOf(query[p]).size # 0
<1>1. ~TooEarly(p) /\ pc[p] \in {"done", "failed"}
  BY DEF Respond, TooEarly, IInv, HandlerInv
<1>2. CASE pc[p] = "failed"
  <2>1. Answer(p, 500, {})
    BY <1>1, <1>2 DEF Respond
  <2> QED BY <2>1 DEF Answer, Aborted
<1>3. CASE pc[p] = "done"
  <2> DEFINE paging == PagingOf(query[p])
  <2>1. LinkPaging(query[p]) = paging
    BY <1>3, PagingOfQuery, QueriesAreQueries DEF IInv, HandlerInv
  <2>2. total[p] = 1
    BY <1>3 DEF IInv, HandlerInv
  <2>3. CASE Panics(paging, total[p])
    <3>1. Answer(p, Aborted, {})
      BY <1>1, <1>3, <2>1, <2>3 DEF Respond
    <3> QED BY <3>1 DEF Answer, Aborted
  <2>4. CASE ~Panics(paging, total[p])
    <3>1. Answer(p, 200, PagingLinks(paging, total[p]))
      BY <1>1, <1>3, <2>1, <2>4 DEF Respond
    <3>2. paging.size # 0
      BY <2>2, <2>4 DEF Panics
    <3> QED BY <1>3, <3>1, <3>2 DEF Answer, Aborted
  <2> QED BY <2>3, <2>4
<1> QED BY <1>1, <1>2, <1>3

LEMMA ErrorTypes ==
    ASSUME TypeInv, NEW p \in Readers, Error(p),
           consumed' = [consumed EXCEPT ![p] = TRUE] \/ consumed' = consumed,
           UNCHANGED <<query, list, status, before>>
    PROVE  TypeInv'
<1> DEFINE none == <<>>
<1>1. none \in Seq(User) /\ cursor' = [cursor EXCEPT ![p] = none]
  BY DEF Error
<1> HIDE DEF none
<1>2. cursor' \in [Readers -> Seq(User)]
  BY <1>1 DEF TypeInv
<1>3. pc' \in [Readers -> States] /\ total' \in [Readers -> {0, 1}]
  BY DEF Error, TypeInv, States
<1>4. consumed' \in [Readers -> BOOLEAN]
  <2>1. consumed \in [Readers -> BOOLEAN]
    BY DEF TypeInv
  <2>2. CASE consumed' = [consumed EXCEPT ![p] = TRUE]
    BY <2>1, <2>2
  <2>3. CASE consumed' = consumed
    BY <2>1, <2>3
  <2> QED BY <2>2, <2>3
<1> QED BY <1>2, <1>3, <1>4 DEF TypeInv

LEMMA TypeKept == IInv /\ [Next]_vars => TypeInv'
<1> SUFFICES ASSUME IInv, [Next]_vars PROVE TypeInv'
  OBVIOUS
<1> USE DEF IInv
<1>1. ASSUME NEW p \in Readers, NEW q \in Queries, Refuse(p, q) PROVE TypeInv'
  BY <1>1 DEF Refuse, TypeInv, States
<1>2. ASSUME NEW p \in Readers, NEW q \in Queries, Arrive(p, q) PROVE TypeInv'
  BY <1>2 DEF Arrive, TypeInv, States, TablesInv, TablesTypeOK
<1>3. ASSUME NEW p \in Readers, Count(p) \/ CountScounts(p) PROVE TypeInv'
  <2>1. /\ consumed' = [consumed EXCEPT ![p] = TRUE]
        /\ UNCHANGED <<query, list, status, before>>
    BY <1>3, CountSteps
  <2>2. CASE Error(p)
    BY <2>1, <2>2, ErrorTypes
  <2>3. CASE ~Error(p)
    <3>1. consumed' \in [Readers -> BOOLEAN]
      BY <2>1 DEF TypeInv
    <3>2. /\ pc' = [pc EXCEPT ![p] = "find"] /\ total' = [total EXCEPT ![p] = 1]
          /\ cursor' = cursor
      BY <1>3, <2>3, CountSteps
    <3>3. pc' \in [Readers -> States] /\ total' \in [Readers -> {0, 1}]
      BY <3>2 DEF TypeInv, States
    <3> QED BY <2>1, <3>1, <3>2, <3>3 DEF TypeInv
  <2> QED BY <2>2, <2>3
<1>5. ASSUME NEW p \in Readers, SelectPage(p) PROVE TypeInv'
  <2>1. UNCHANGED <<query, consumed, list, status, before>>
    BY <1>5 DEF SelectPage
  <2>2. CASE Error(p)
    BY <2>1, <2>2, ErrorTypes
  <2>3. CASE ~Error(p)
    <3>1. PICK c \in Seq(User) : cursor' = [cursor EXCEPT ![p] = c]
      BY <1>5, <2>3, SelectSteps
    <3>2. pc' = [pc EXCEPT ![p] = "fetch"] /\ total' = total
      BY <1>5, <2>3, SelectSteps
    <3> QED BY <2>1, <3>1, <3>2 DEF TypeInv, States
  <2> QED BY <2>2, <2>3
<1>6. ASSUME NEW p \in Readers, Fetch(p) PROVE TypeInv'
  <2> DEFINE c == cursor[p]
             e == Entry(Head(c))
  <2>1. c \in Seq(User) /\ c # <<>> /\ list[p] \in Seq(Entries)
    BY <1>6 DEF Fetch, TypeInv
  <2>2. Head(c) \in User /\ Tail(c) \in Seq(User)
    BY <2>1
  <2>3. e \in Entries
    BY <2>2 DEF Entries
  <2>4. Append(list[p], e) \in Seq(Entries)
    <3> HIDE DEF e
    <3> QED BY <2>1, <2>3
  <2>5. /\ cursor' = [cursor EXCEPT ![p] = Tail(c)]
        /\ list' = [list EXCEPT ![p] = Append(list[p], e)]
        /\ UNCHANGED <<pc, query, total, consumed, status, before>>
    BY <1>6 DEF Fetch
  <2> HIDE DEF c, e
  <2> QED BY <2>2, <2>4, <2>5 DEF TypeInv
<1>7. ASSUME NEW p \in Readers, Commit(p) PROVE TypeInv'
  BY <1>7 DEF Commit, TypeInv, States
<1>8. ASSUME NEW p \in Readers, Respond(p) PROVE TypeInv'
  <2>1. UNCHANGED <<query, total, consumed, cursor, list, before>>
    BY <1>8 DEF Respond
  <2>2. PICK s \in {Aborted, 200, 500} :
            pc' = [pc EXCEPT ![p] = "reply"] /\ status' = [status EXCEPT ![p] = s]
    BY <1>8, RespondSteps
  <2> QED BY <2>1, <2>2 DEF TypeInv, States
<1>9. ASSUME NEW p \in Readers, Break(p) PROVE TypeInv'
  BY <1>9, ErrorTypes DEF Break
<1>10. ASSUME NEW p \in Readers, Reply(p) PROVE TypeInv'
  <2> DEFINE none == <<>>
  <2>1. none \in Seq(Entries) /\ list' = [list EXCEPT ![p] = none]
    BY <1>10 DEF Reply
  <2> HIDE DEF none
  <2>2. list' \in [Readers -> Seq(Entries)]
    BY <2>1 DEF TypeInv
  <2>3. /\ pc' \in [Readers -> States] /\ query' \in [Readers -> Queries \cup {NoQuery}]
        /\ total' \in [Readers -> {0, 1}] /\ consumed' \in [Readers -> BOOLEAN]
        /\ cursor' = cursor /\ before' \in [Readers -> SUBSET User]
    BY <1>10 DEF Reply, TypeInv, States
  <2>4. status' \in [Readers -> {Aborted, 200, 400, 500}]
    BY <1>10 DEF Reply, TypeInv
  <2> QED BY <2>2, <2>3, <2>4 DEF TypeInv
<1>11. CASE UNCHANGED local
  BY <1>11 DEF local, TypeInv
<1> QED BY <1>1, <1>2, <1>3, <1>5, <1>6, <1>7, <1>8, <1>9, <1>10, <1>11
        DEF Next, Handler, Register, vars

LEMMA ErrorKeepsHandler ==
    ASSUME TypeInv, HandlerInv, NEW p \in Readers, Error(p), UNCHANGED <<query, list>>,
           pc[p] \notin {"idle", "reply"},
           consumed'[p], \A r \in Readers \ {p} : consumed'[r] = consumed[r]
    PROVE  HandlerInv'
<1>1. pc'[p] = "failed" /\ cursor'[p] = <<>>
  BY DEF Error, TypeInv
<1>2. ASSUME NEW r \in Readers \ {p}
      PROVE  pc'[r] = pc[r] /\ total'[r] = total[r] /\ cursor'[r] = cursor[r]
  BY DEF Error, TypeInv
<1> QED BY <1>1, <1>2 DEF HandlerInv

LEMMA HandlerKept == IInv /\ [Next]_vars => HandlerInv'
<1> SUFFICES ASSUME IInv, [Next]_vars PROVE HandlerInv'
  OBVIOUS
<1> USE DEF IInv
<1>marks. ASSUME NEW p \in Readers, consumed' = [consumed EXCEPT ![p] = TRUE]
       PROVE  consumed'[p] /\ \A r \in Readers \ {p} : consumed'[r] = consumed[r]
  BY <1>marks DEF TypeInv
<1>1. ASSUME NEW p \in Readers, NEW q \in Queries, Refuse(p, q) PROVE HandlerInv'
  BY <1>1 DEF Refuse, TypeInv, HandlerInv
<1>2. ASSUME NEW p \in Readers, NEW q \in Queries, Arrive(p, q) PROVE HandlerInv'
  BY <1>2 DEF Arrive, TypeInv, HandlerInv
<1>3. ASSUME NEW p \in Readers, Count(p) \/ CountScounts(p) PROVE HandlerInv'
  <2>1. /\ consumed' = [consumed EXCEPT ![p] = TRUE] /\ pc[p] = "count"
        /\ UNCHANGED <<query, list>>
    BY <1>3, CountSteps
  <2>2. CASE Error(p)
    BY <1>marks, <2>1, <2>2, ErrorKeepsHandler
  <2>3. CASE ~Error(p)
    <3>1. /\ pc' = [pc EXCEPT ![p] = "find"] /\ total' = [total EXCEPT ![p] = 1]
          /\ cursor' = cursor /\ query[p].op = "ListUsers"
      BY <1>3, <2>3, CountSteps
    <3>2. consumed'[p] /\ \A r \in Readers \ {p} : consumed'[r] = consumed[r]
      BY <1>marks, <2>1
    <3>3. /\ pc'[p] = "find" /\ total'[p] = 1
          /\ \A r \in Readers \ {p} : pc'[r] = pc[r] /\ total'[r] = total[r]
      BY <3>1 DEF TypeInv
    <3> QED BY <2>1, <3>1, <3>2, <3>3 DEF HandlerInv
  <2> QED BY <2>2, <2>3
<1>5. ASSUME NEW p \in Readers, SelectPage(p) PROVE HandlerInv'
  <2>1. UNCHANGED <<query, consumed, list>> /\ pc[p] = "find"
    BY <1>5 DEF SelectPage
  <2>2. CASE Error(p)
    <3>1. consumed[p]
      BY <2>1 DEF HandlerInv
    <3> QED BY <2>1, <2>2, <3>1, ErrorKeepsHandler
  <2>3. CASE ~Error(p)
    <3>1. PICK c \in Seq(User) : cursor' = [cursor EXCEPT ![p] = c]
      BY <1>5, <2>3, SelectSteps
    <3>2. pc' = [pc EXCEPT ![p] = "fetch"] /\ total' = total
      BY <1>5, <2>3, SelectSteps
    <3> QED BY <2>1, <3>1, <3>2 DEF TypeInv, HandlerInv
  <2> QED BY <2>2, <2>3
<1>6. ASSUME NEW p \in Readers, Fetch(p) PROVE HandlerInv'
  <2>1. /\ pc[p] = "fetch" /\ UNCHANGED <<pc, query, total, consumed>>
        /\ \A r \in Readers \ {p} : list'[r] = list[r] /\ cursor'[r] = cursor[r]
    BY <1>6 DEF Fetch, TypeInv
  <2> QED BY <2>1 DEF HandlerInv
<1>7. ASSUME NEW p \in Readers, Commit(p) PROVE HandlerInv'
  BY <1>7 DEF Commit, TypeInv, HandlerInv
<1>8. ASSUME NEW p \in Readers, Respond(p) PROVE HandlerInv'
  <2>1. UNCHANGED <<query, total, consumed, cursor, list>> /\ pc[p] \in {"done", "failed"}
    BY <1>8 DEF Respond
  <2>2. pc' = [pc EXCEPT ![p] = "reply"]
    BY <1>8, RespondSteps
  <2> QED BY <2>1, <2>2 DEF TypeInv, HandlerInv
<1>9. ASSUME NEW p \in Readers, Break(p) PROVE HandlerInv'
  BY <1>9, <1>marks, ErrorKeepsHandler DEF Break
<1>10. ASSUME NEW p \in Readers, Reply(p) PROVE HandlerInv'
  BY <1>10 DEF Reply, TypeInv, HandlerInv
<1>11. CASE UNCHANGED local
  BY <1>11 DEF local, HandlerInv
<1> QED BY <1>1, <1>2, <1>3, <1>5, <1>6, <1>7, <1>8, <1>9, <1>10, <1>11
        DEF Next, Handler, Register, vars

LEMMA AnswerKept == IInv /\ [Next]_vars => AnswerInv'
<1> SUFFICES ASSUME IInv, [Next]_vars PROVE AnswerInv'
  OBVIOUS
<1> USE DEF IInv
(* Only Refuse and Respond give an answer. *)
<1>1. ASSUME NEW p \in Readers, NEW s, s # "reply", pc' = [pc EXCEPT ![p] = s],
             UNCHANGED <<status, query>> \/ Reply(p)
      PROVE  AnswerInv'
  <2>1. /\ pc'[p] # "reply"
        /\ \A r \in Readers \ {p} :
              pc'[r] = pc[r] /\ status'[r] = status[r] /\ query'[r] = query[r]
    BY <1>1 DEF TypeInv, Reply
  <2> QED BY <2>1 DEF AnswerInv
<1>2. ASSUME NEW p \in Readers, NEW q \in Queries, Refuse(p, q) PROVE AnswerInv'
  BY <1>2 DEF Refuse, TypeInv, AnswerInv, Aborted
<1>3. ASSUME NEW p \in Readers, NEW q \in Queries, Arrive(p, q) PROVE AnswerInv'
  <2>1. /\ pc'[p] # "reply"
        /\ \A r \in Readers \ {p} :
              pc'[r] = pc[r] /\ status'[r] = status[r] /\ query'[r] = query[r]
    BY <1>3 DEF TypeInv, Arrive
  <2> QED BY <2>1 DEF AnswerInv
<1>4. ASSUME NEW p \in Readers, Count(p) \/ CountScounts(p) \/ Break(p) PROVE AnswerInv'
  <2>1. \/ pc' = [pc EXCEPT ![p] = "find"]
        \/ pc' = [pc EXCEPT ![p] = "failed"]
    BY <1>4, CountSteps DEF Break, Error
  <2>2. UNCHANGED <<status, query>>
    BY <1>4, CountSteps DEF Break
  <2> QED BY <1>1, <2>1, <2>2
<1>5. ASSUME NEW p \in Readers, SelectPage(p) PROVE AnswerInv'
  <2>1. \/ pc' = [pc EXCEPT ![p] = "fetch"]
        \/ pc' = [pc EXCEPT ![p] = "failed"]
    BY <1>5 DEF SelectPage, Error
  <2>2. UNCHANGED <<status, query>>
    BY <1>5 DEF SelectPage
  <2> QED BY <1>1, <2>1, <2>2
<1>6. ASSUME NEW p \in Readers, Fetch(p) PROVE AnswerInv'
  BY <1>6 DEF Fetch, AnswerInv
<1>7. ASSUME NEW p \in Readers, Commit(p) PROVE AnswerInv'
  BY <1>1, <1>7 DEF Commit
<1>8. ASSUME NEW p \in Readers, Respond(p) PROVE AnswerInv'
  <2>1. UNCHANGED query /\ pc[p] \in {"done", "failed"}
    BY <1>8 DEF Respond
  <2>2. PICK s \in {Aborted, 200, 500} :
           /\ pc' = [pc EXCEPT ![p] = "reply"] /\ status' = [status EXCEPT ![p] = s]
           /\ s = 200 => pc[p] = "done" /\ PagingOf(query[p]).size # 0
    BY <1>8, RespondSteps
  <2>3. /\ ~Refused(query[p]) /\ s # 400
        /\ pc[p] = "done" => query[p].op = "ListUsers"
    BY <2>1 DEF HandlerInv, Aborted
  <2>4. ASSUME NEW r \in Readers \ {p}
        PROVE  pc'[r] = pc[r] /\ status'[r] = status[r] /\ query'[r] = query[r]
    BY <2>1, <2>2 DEF TypeInv
  <2>5. status'[p] = s /\ query'[p] = query[p]
    BY <2>1, <2>2 DEF TypeInv
  <2> QED BY <2>2, <2>3, <2>4, <2>5 DEF AnswerInv
<1>9. ASSUME NEW p \in Readers, Reply(p) PROVE AnswerInv'
  BY <1>1, <1>9 DEF Reply
<1>10. CASE UNCHANGED local
  BY <1>10 DEF local, AnswerInv
<1> QED BY <1>2, <1>3, <1>4, <1>5, <1>6, <1>7, <1>8, <1>9, <1>10
        DEF Next, Handler, Register, vars

-----------------------------------------------------------------------------
(* Steps keep the invariant: moments.                                      *)

LEMMA MomentsKept == IInv /\ [Next]_vars => MomentsInv'
<1> SUFFICES ASSUME IInv, [Next]_vars PROVE MomentsInv'
  OBVIOUS
<1> USE DEF IInv
<1>1. users \in SUBSET User /\ users' \in SUBSET User /\ users \subseteq users'
  BY TablesKept DEF TablesInv, TablesTypeOK
(* Only Arrive begins to wait for a page. *)
<1>2. ASSUME UNCHANGED <<users, before, moments>>,
             \A r \in Readers : pc'[r] \in {"count", "find"} => pc[r] \in {"count", "find"}
      PROVE  MomentsInv'
  BY <1>2 DEF MomentsInv
<1>3. ASSUME NEW p \in Readers, NEW q \in Queries, Refuse(p, q) PROVE MomentsInv'
  BY <1>2, <1>3 DEF Refuse, TypeInv
<1>4. ASSUME NEW p \in Readers, NEW q \in Queries, Arrive(p, q) PROVE MomentsInv'
  <2>1. /\ users' = users /\ pc' = [pc EXCEPT ![p] = "count"]
        /\ before' = [before EXCEPT ![p] = users]
        /\ moments' = [moments EXCEPT ![p] = {users}]
    BY <1>4 DEF Arrive
  <2>2. moments' \in [Readers -> SUBSET SUBSET User]
    BY <1>1, <2>1 DEF MomentsInv
  <2>3. before'[p] = users /\ moments'[p] = {users}
    BY <2>1 DEF TypeInv, MomentsInv
  <2>4. ASSUME NEW r \in Readers \ {p}
        PROVE  pc'[r] = pc[r] /\ before'[r] = before[r] /\ moments'[r] = moments[r]
    BY <2>1 DEF TypeInv, MomentsInv
  <2> QED BY <2>1, <2>2, <2>3, <2>4 DEF MomentsInv
<1>5. ASSUME NEW p \in Readers, Count(p) \/ CountScounts(p) \/ Break(p) PROVE MomentsInv'
  <2>1. /\ pc[p] \in {"count", "find", "fetch"}
        /\ pc' = [pc EXCEPT ![p] = "failed"] \/ (pc[p] = "count" /\ pc' = [pc EXCEPT ![p] = "find"])
        /\ UNCHANGED <<users, before, moments>>
    BY <1>5, CountSteps DEF Break, Error
  <2> QED BY <1>2, <2>1 DEF TypeInv
<1>6. ASSUME NEW p \in Readers, SelectPage(p) PROVE MomentsInv'
  <2>1. /\ pc' = [pc EXCEPT ![p] = "failed"] \/ pc' = [pc EXCEPT ![p] = "fetch"]
        /\ UNCHANGED <<users, before, moments>>
    BY <1>6 DEF SelectPage, Error
  <2> QED BY <1>2, <2>1 DEF TypeInv
<1>7. ASSUME NEW p \in Readers, Fetch(p) \/ Commit(p) PROVE MomentsInv'
  BY <1>2, <1>7 DEF Fetch, Commit, TypeInv
<1>8. ASSUME NEW p \in Readers, Respond(p) PROVE MomentsInv'
  <2>1. pc' = [pc EXCEPT ![p] = "reply"] /\ UNCHANGED <<users, before, moments>>
    BY <1>8, RespondSteps DEF Respond
  <2> QED BY <1>2, <2>1 DEF TypeInv
<1>9. ASSUME NEW p \in Readers, Reply(p) PROVE MomentsInv'
  <2>1. /\ users' = users /\ pc' = [pc EXCEPT ![p] = "idle"]
        /\ before' = [before EXCEPT ![p] = {}] /\ moments' = [moments EXCEPT ![p] = {}]
    BY <1>9 DEF Reply
  <2>2. moments' \in [Readers -> SUBSET SUBSET User]
    BY <2>1 DEF MomentsInv
  <2>3. pc'[p] = "idle" /\ moments'[p] = {}
    BY <2>1 DEF TypeInv, MomentsInv
  <2>4. ASSUME NEW r \in Readers \ {p}
        PROVE  pc'[r] = pc[r] /\ before'[r] = before[r] /\ moments'[r] = moments[r]
    BY <2>1 DEF TypeInv, MomentsInv
  <2> QED BY <2>1, <2>2, <2>3, <2>4 DEF MomentsInv
<1>10. ASSUME NEW u \in User, Register(u) PROVE MomentsInv'
  <2>1. /\ UNCHANGED <<pc, before>>
        /\ moments' = [p \in Readers |-> IF pc[p] \in {"count", "find"}
                                         THEN moments[p] \cup {users'} ELSE moments[p]]
    BY <1>10 DEF Register, local
  <2>2. moments' \in [Readers -> SUBSET SUBSET User]
    BY <1>1, <2>1 DEF MomentsInv
  <2>3. ASSUME NEW p \in Readers
        PROVE  /\ \A rows \in moments'[p] : before[p] \subseteq rows /\ rows \subseteq users'
               /\ pc[p] \in {"count", "find"} => users' \in moments'[p]
    BY <1>1, <2>1 DEF MomentsInv
  <2> QED BY <2>1, <2>2, <2>3 DEF MomentsInv
<1>11. CASE UNCHANGED vars
  BY <1>2, <1>11 DEF vars, local
<1> QED BY <1>3, <1>4, <1>5, <1>6, <1>7, <1>8, <1>9, <1>10, <1>11 DEF Next, Handler

-----------------------------------------------------------------------------
(* Steps keep the invariant: the users a page cannot be without.           *)

LEMMA BaseKept ==
    ASSUME IInv, [Next]_vars, NEW p \in Readers
    PROVE  Base(p) \subseteq Base(p)' /\ Base(p)' \subseteq users'
<1> USE DEF IInv
<1>1. Base(p) \subseteq users /\ users \subseteq users'
  BY TablesKept DEF PageInv
<1>2. ASSUME NEW r \in Readers, NEW q \in Queries, Refuse(r, q)
      PROVE  Base(p)' = Base(p)
  BY <1>2 DEF Refuse, Base, TypeInv
<1>3. ASSUME NEW r \in Readers, NEW q \in Queries, Arrive(r, q)
      PROVE  Base(p)' = Base(p)
  BY <1>3 DEF Arrive, Base, TypeInv
<1>4. ASSUME NEW r \in Readers, NEW s \in States \ {"idle", "reply"},
             pc[r] \notin {"idle", "reply"}, pc' = [pc EXCEPT ![r] = s],
             UNCHANGED <<users, status, before>>
      PROVE  Base(p)' = Base(p)
  BY <1>4 DEF Base, TypeInv
<1>5. ASSUME NEW r \in Readers, Count(r) \/ CountScounts(r) \/ Break(r)
      PROVE  Base(p)' = Base(p)
  <2>1. \/ pc' = [pc EXCEPT ![r] = "find"]
        \/ pc' = [pc EXCEPT ![r] = "failed"]
    BY <1>5, CountSteps DEF Break, Error
  <2>2. UNCHANGED <<users, status, before>> /\ pc[r] \notin {"idle", "reply"}
    BY <1>5, CountSteps DEF Break
  <2> QED BY <1>4, <2>1, <2>2 DEF States
<1>6. ASSUME NEW r \in Readers, SelectPage(r) PROVE Base(p)' = Base(p)
  <2>1. \/ pc' = [pc EXCEPT ![r] = "fetch"]
        \/ pc' = [pc EXCEPT ![r] = "failed"]
    BY <1>6 DEF SelectPage, Error
  <2>2. UNCHANGED <<users, status, before>> /\ pc[r] = "find"
    BY <1>6 DEF SelectPage
  <2> QED BY <1>4, <2>1, <2>2 DEF States
<1>7. ASSUME NEW r \in Readers, Fetch(r) PROVE Base(p)' = Base(p)
  BY <1>7 DEF Fetch, Base
<1>8. ASSUME NEW r \in Readers, Commit(r) PROVE Base(p)' = Base(p)
  BY <1>4, <1>8 DEF Commit, States
<1>9. ASSUME NEW r \in Readers, Respond(r) PROVE Base(p)' = Base(p)
  <2>1. PICK s \in {Aborted, 200, 500} :
            pc' = [pc EXCEPT ![r] = "reply"] /\ status' = [status EXCEPT ![r] = s]
    BY <1>9, RespondSteps
  <2>2. UNCHANGED <<users, before>> /\ pc[r] \in {"done", "failed"}
    BY <1>9 DEF Respond
  <2> QED BY <2>1, <2>2 DEF Base, TypeInv, Aborted
<1>10. ASSUME NEW r \in Readers, Reply(r)
       PROVE  Base(p) \subseteq Base(p)' /\ Base(p)' \subseteq users'
  <2>1. /\ pc' = [pc EXCEPT ![r] = "idle"] /\ users' = users
        /\ r # p => status'[p] = status[p] /\ before'[p] = before[p]
    BY <1>10 DEF Reply, TypeInv
  <2>2. CASE r = p
    BY <1>1, <2>1, <2>2 DEF Base, TypeInv
  <2>3. CASE r # p
    BY <1>1, <2>1, <2>3 DEF Base, TypeInv
  <2> QED BY <2>2, <2>3
<1>11. CASE UNCHANGED local
  BY <1>1, <1>11 DEF local, Base
<1>12. ASSUME Base(p)' = Base(p)
       PROVE  Base(p) \subseteq Base(p)' /\ Base(p)' \subseteq users'
  BY <1>1, <1>12
<1> QED BY <1>2, <1>3, <1>5, <1>6, <1>7, <1>8, <1>9, <1>10, <1>11, <1>12
        DEF Next, Handler, Register, vars

-----------------------------------------------------------------------------
(* Steps keep the invariant: pages.                                        *)

(* A row that is fetched becomes an entry. *)
LEMMA FetchWindow ==
    ASSUME NEW entries \in Seq(Entries), NEW rest \in Seq(User), rest # <<>>,
           NEW rows, NEW q, IsWindow(entries, rest, rows, q),
           Cardinality(Matches(rows, q)) \in Nat
    PROVE  IsWindow(Append(entries, Entry(Head(rest))), Tail(rest), rows, q)
<1> DEFINE w == Window(PagingOf(q))
           found == Matches(rows, q)
           e == Entry(Head(rest))
           more == Append(entries, e)
           left == Tail(rest)
           k == Len(entries)
           m == Len(rest)
<1>1. k \in Nat /\ m \in Nat \ {0} /\ DOMAIN entries = 1 .. k /\ DOMAIN rest = 1 .. m
  OBVIOUS
<1>2. /\ Len(more) = k + 1 /\ DOMAIN more = 1 .. k + 1
      /\ \A i \in 1 .. k : more[i] = entries[i]
      /\ more[k + 1] = e
  <2>1. e \in Entries
    BY <1>1 DEF Entries
  <2> HIDE DEF e
  <2>2. more \in Seq(Entries) /\ entries \in Seq(Entries)
    BY <2>1
  <2> QED BY <1>1, <2>1, <2>2, AppendProperties
<1>3. /\ Len(left) = m - 1 /\ DOMAIN left = 1 .. m - 1
      /\ \A i \in 1 .. m - 1 : left[i] = rest[i + 1]
      /\ Head(rest) = rest[1]
  BY <1>1, HeadTailProperties
<1>4. /\ w.limit \in Nat /\ w.offset \in Nat
      /\ \A i \in 1 .. k : IsAt(found, entries[i], w.offset + i - 1)
      /\ \A i \in 1 .. m : IsAt(found, Entry(rest[i]), w.offset + k + i - 1)
      /\ k + m <= w.limit
      /\ k + m < w.limit => w.offset + k + m >= Cardinality(found)
  BY <1>1 DEF IsWindow
<1> HIDE DEF w, found, e, more, left, k, m
<1>offset. w.offset \in Int
  BY <1>4
<1>5. ASSUME NEW i \in 1 .. k + 1 PROVE IsAt(found, more[i], w.offset + i - 1)
  <2>1. CASE i \in 1 .. k
    BY <1>2, <1>4, <2>1
  <2>2. CASE i = k + 1
    <3>1. IsAt(found, Entry(rest[1]), w.offset + k + 1 - 1)
      BY <1>1, <1>4
    <3>2. w.offset + k + 1 - 1 = w.offset + (k + 1) - 1
      BY <1>1, <1>4
    <3> QED BY <1>2, <1>3, <2>2, <3>1, <3>2 DEF e
  <2> QED BY <1>1, <2>1, <2>2
<1>6. ASSUME NEW i \in 1 .. m - 1
      PROVE  IsAt(found, Entry(left[i]), w.offset + (k + 1) + i - 1)
  <2>1. i + 1 \in 1 .. m
    BY <1>1
  <2>3. w.offset + k + (i + 1) - 1 = w.offset + (k + 1) + i - 1
    BY <1>1, <1>offset
  <2>2. IsAt(found, Entry(rest[i + 1]), w.offset + k + (i + 1) - 1)
    BY <1>4, <2>1
  <2> QED BY <1>3, <2>2, <2>3
<1>7. /\ (k + 1) + (m - 1) = k + m
      /\ w.offset + (k + 1) + (m - 1) = w.offset + k + m
  <2>1. k \in Int /\ m \in Int
    BY <1>1
  <2>2. \A a, b, o \in Int : (a + 1) + (b - 1) = a + b /\ o + (a + 1) + (b - 1) = o + a + b
    OBVIOUS
  <2> QED BY <2>1, <2>2, <1>offset
<1>8. /\ Len(more) + Len(left) <= w.limit
      /\ Len(more) + Len(left) < w.limit =>
            w.offset + Len(more) + Len(left) >= Cardinality(found)
  BY <1>2, <1>3, <1>4, <1>7
<1>9. /\ \A i \in DOMAIN more : IsAt(found, more[i], w.offset + i - 1)
      /\ \A i \in DOMAIN left :
            IsAt(found, Entry(left[i]), w.offset + Len(more) + i - 1)
  BY <1>2, <1>3, <1>5, <1>6
<1>10. IsWindow(more, left, rows, q)
  BY <1>4, <1>8, <1>9 DEF IsWindow, w, found
<1> QED BY <1>10 DEF more, left, e

LEMMA PageStays ==
    ASSUME NEW p \in Readers, HasPage(p), moments[p] \subseteq moments'[p],
           query'[p] = query[p], list'[p] = list[p], cursor'[p] = cursor[p]
    PROVE  HasPage(p)'
BY DEF HasPage

LEMMA PageKept == IInv /\ [Next]_vars => PageInv'
<1> SUFFICES ASSUME IInv, [Next]_vars PROVE PageInv'
  OBVIOUS
<1> USE DEF IInv
<1> DEFINE Paged(p) ==
               pc[p] \in {"fetch", "done"} \/ (pc[p] = "reply" /\ status[p] = 200)
           Quiet(p) == /\ pc'[p] = pc[p] /\ status'[p] = status[p] /\ query'[p] = query[p]
                       /\ moments[p] \subseteq moments'[p] /\ list'[p] = list[p]
                       /\ cursor'[p] = cursor[p]
           Holds(p) == Paged(p)' => HasPage(p)'
(* A listing that has no page yet. *)
<1>2. ASSUME NEW p \in Readers, ~Paged(p)' PROVE Holds(p)
  BY <1>2
(* A listing whose state stays. *)
<1>3. ASSUME NEW p \in Readers, Quiet(p) PROVE Holds(p)
  BY <1>3, PageStays DEF PageInv
<1>4. ASSUME NEW p \in Readers, NEW q \in Queries, NEW r \in Readers,
             Refuse(p, q) \/ Arrive(p, q)
      PROVE  Holds(r)
  <2>1. CASE r = p
    <3>1. pc'[p] = "count" \/ (pc'[p] = "reply" /\ status'[p] = 400)
      BY <1>4 DEF Refuse, Arrive, TypeInv
    <3> QED BY <1>2, <2>1, <3>1
  <2>2. CASE r # p
    BY <1>3, <1>4, <2>2 DEF Refuse, Arrive, TypeInv, MomentsInv
  <2> QED BY <2>1, <2>2
<1>5. ASSUME NEW p \in Readers, NEW r \in Readers,
             Count(p) \/ CountScounts(p) \/ Break(p)
      PROVE  Holds(r)
  <2>1. /\ UNCHANGED <<query, list, status, moments>>
        /\ \/ Error(p)
           \/ pc' = [pc EXCEPT ![p] = "find"] /\ cursor' = cursor
    BY <1>5, CountSteps DEF Break
  <2>2. CASE r = p
    BY <1>2, <2>1, <2>2 DEF Error, TypeInv
  <2>3. CASE r # p
    BY <1>3, <2>1, <2>3 DEF Error, TypeInv
  <2> QED BY <2>2, <2>3
<1>7. ASSUME NEW p \in Readers, NEW r \in Readers, SelectPage(p) PROVE Holds(r)
  <2>1. UNCHANGED <<users, query, list, status, moments>> /\ pc[p] = "find"
    BY <1>7 DEF SelectPage
  <2>2. CASE Error(p)
    <3>1. CASE r = p
      BY <1>2, <2>2, <3>1 DEF Error, TypeInv
    <3>2. CASE r # p
      BY <1>3, <2>1, <2>2, <3>2 DEF Error, TypeInv
    <3> QED BY <3>1, <3>2
  <2>3. CASE ~Error(p)
    <3>1. PICK c \in Seq(User) : /\ cursor' = [cursor EXCEPT ![p] = c]
                                 /\ IsWindow(<<>>, c, users, query[p])
      BY <1>7, <2>3, SelectSteps
    <3>2. pc' = [pc EXCEPT ![p] = "fetch"]
      BY <1>7, <2>3, SelectSteps
    <3>3. CASE r = p
      <4>1. list[p] = <<>> /\ users \in moments'[p]
        BY <2>1 DEF HandlerInv, MomentsInv
      <4>2. IsWindow(list'[p], cursor'[p], users, query'[p])
        BY <2>1, <3>1, <4>1 DEF TypeInv
      <4>3. HasPage(p)'
        BY <4>1, <4>2 DEF HasPage
      <4>4. pc'[p] = "fetch"
        BY <3>2 DEF TypeInv
      <4> QED BY <3>3, <4>3, <4>4
    <3>4. CASE r # p
      BY <1>3, <2>1, <3>1, <3>2, <3>4 DEF TypeInv
    <3> QED BY <3>3, <3>4
  <2> QED BY <2>2, <2>3
<1>8. ASSUME NEW p \in Readers, NEW r \in Readers, Fetch(p) PROVE Holds(r)
  <2>1. /\ UNCHANGED <<pc, query, status, moments>>
        /\ pc[p] = "fetch" /\ cursor[p] # <<>>
        /\ list' = [list EXCEPT ![p] = Append(list[p], Entry(Head(cursor[p])))]
        /\ cursor' = [cursor EXCEPT ![p] = Tail(cursor[p])]
    BY <1>8 DEF Fetch
  <2>2. CASE r = p
    <3>1. PICK rows \in moments[p] : IsWindow(list[p], cursor[p], rows, query[p])
      BY <2>1 DEF PageInv, HasPage
    <3>2. Cardinality(Matches(rows, query[p])) \in Nat
      BY MatchesFinite DEF MomentsInv
    <3>3. list[p] \in Seq(Entries) /\ cursor[p] \in Seq(User)
      BY DEF TypeInv
    <3>4. IsWindow(Append(list[p], Entry(Head(cursor[p]))), Tail(cursor[p]), rows, query[p])
      BY <2>1, <3>1, <3>2, <3>3, FetchWindow
    <3>5. rows \in moments'[p] /\ IsWindow(list'[p], cursor'[p], rows, query'[p])
      BY <2>1, <3>1, <3>4 DEF TypeInv
    <3>6. HasPage(p)'
      BY <3>5 DEF HasPage
    <3> QED BY <2>1, <2>2, <3>6
  <2>3. CASE r # p
    BY <1>3, <2>1, <2>3 DEF TypeInv
  <2> QED BY <2>2, <2>3
(* A page that is kept. *)
<1>9. ASSUME NEW p \in Readers, NEW r \in Readers,
             UNCHANGED <<query, list, cursor, moments>>,
             r # p => pc'[r] = pc[r] /\ status'[r] = status[r],
             Paged(p)' => Paged(p)
      PROVE  Holds(r)
  <2>1. CASE r = p
    <3>1. HasPage(p) => HasPage(p)'
      BY <1>9, PageStays
    <3>2. Paged(p) => HasPage(p)
      BY DEF PageInv
    <3> QED BY <1>9, <2>1, <3>1, <3>2
  <2>2. CASE r # p
    BY <1>3, <1>9, <2>2
  <2> QED BY <2>1, <2>2
<1>10. ASSUME NEW p \in Readers, NEW r \in Readers, Commit(p) PROVE Holds(r)
  <2>1. /\ pc'[p] = "done" /\ pc[p] = "fetch"
        /\ r # p => pc'[r] = pc[r] /\ status'[r] = status[r]
        /\ UNCHANGED <<query, list, cursor, moments>>
    BY <1>10 DEF Commit, TypeInv
  <2> QED BY <1>9, <2>1
<1>11. ASSUME NEW p \in Readers, NEW r \in Readers, Respond(p) PROVE Holds(r)
  <2>1. PICK s \in {Aborted, 200, 500} :
           /\ pc' = [pc EXCEPT ![p] = "reply"] /\ status' = [status EXCEPT ![p] = s]
           /\ s = 200 => pc[p] = "done"
    BY <1>11, RespondSteps
  <2>2. /\ pc'[p] = "reply" /\ status'[p] = s
        /\ r # p => pc'[r] = pc[r] /\ status'[r] = status[r]
    BY <2>1 DEF TypeInv
  <2>3. UNCHANGED <<query, list, cursor, moments>>
    BY <1>11 DEF Respond
  <2>4. Paged(p)' => Paged(p)
    BY <2>1, <2>2
  <2> HIDE DEF Paged, Holds
  <2> QED BY <1>9, <2>2, <2>3, <2>4
<1>12. ASSUME NEW p \in Readers, NEW r \in Readers, Reply(p) PROVE Holds(r)
  <2>1. CASE r = p
    BY <1>2, <1>12, <2>1 DEF Reply, TypeInv
  <2>2. CASE r # p
    BY <1>3, <1>12, <2>2 DEF Reply, TypeInv, MomentsInv
  <2> QED BY <2>1, <2>2
<1>13. ASSUME NEW r \in Readers, UNCHANGED local, moments[r] \subseteq moments'[r]
       PROVE  Holds(r)
  BY <1>3, <1>13 DEF local
<1> HIDE DEF Holds
<1>14. ASSUME NEW r \in Readers PROVE Holds(r)
  <2>1. ASSUME NEW u \in User, Register(u) PROVE Holds(r)
    BY <1>13, <2>1 DEF Register
  <2>2. CASE UNCHANGED vars
    BY <1>13, <2>2 DEF vars
  <2> QED BY <1>4, <1>5, <1>7, <1>8, <1>10, <1>11, <1>12, <2>1, <2>2 DEF Next, Handler
<1>15. ASSUME NEW r \in Readers PROVE Base(r)' \subseteq users'
  BY BaseKept
<1> QED BY <1>14, <1>15 DEF PageInv, Holds

-----------------------------------------------------------------------------
(* Steps keep the invariant: walks.                                        *)

(* A walk goes on while users register. *)
LEMMA WalkStays ==
    ASSUME NEW w, NEW base, NEW more, base \subseteq more, IsFiniteSet(more),
           IsWalk(w, base)
    PROVE  IsWalk(w, more)
<1> DEFINE size == PagingOf(w.of).size
           n == w.next * size
<1>1. size \in Int /\ w.next \in Nat /\ n \in Int
  BY IntRange DEF IsWalk
<1>2. IsFiniteSet(base)
  BY FS_Subset
<1>3. /\ IsFiniteSet(Matches(base, w.of)) /\ IsFiniteSet(Matches(more, w.of))
      /\ Matches(base, w.of) \subseteq Matches(more, w.of)
  BY <1>2, FiniteMatches, MatchesGrow
<1>4. ASSUME NEW u, Rank(Matches(base, w.of), u) >= n
      PROVE  Rank(Matches(more, w.of), u) >= n
  <2>1. /\ Rank(Matches(base, w.of), u) \in Nat /\ Rank(Matches(more, w.of), u) \in Nat
        /\ Rank(Matches(base, w.of), u) <= Rank(Matches(more, w.of), u)
    BY <1>3, RankType, RankGrows
  <2> HIDE DEF n
  <2> QED BY <1>1, <1>4, <2>1
<1> QED BY <1>4 DEF IsWalk

(* A row that matches and is not before a page is on it or behind it. *)
LEMMA PageCovers ==
    ASSUME NEW rows, NEW q, NEW entries \in Seq(Entries), IsWindow(entries, <<>>, rows, q),
           Matches(rows, q) \in SUBSET User, IsFiniteSet(Matches(rows, q)),
           UidsDiffer(Matches(rows, q)), Window(PagingOf(q)).limit # 0,
           NEW u \in Matches(rows, q),
           Rank(Matches(rows, q), u) >= Window(PagingOf(q)).offset
    PROVE  \/ \E i \in DOMAIN entries : entries[i].id = u.uid
           \/ /\ entries # <<>>
              /\ Rank(Matches(rows, q), u)
                    >= Window(PagingOf(q)).offset + Window(PagingOf(q)).limit
<1> DEFINE found == Matches(rows, q)
           limit == Window(PagingOf(q)).limit
           offset == Window(PagingOf(q)).offset
           r == Rank(found, u)
           k == Len(entries)
           none == <<>>
<1>1. /\ limit \in Nat \ {0} /\ offset \in Nat /\ k <= limit
      /\ \A i \in 1 .. k : IsAt(found, entries[i], offset + i - 1)
      /\ k < limit => offset + k >= Cardinality(found)
  <2>1. Len(none) = 0 /\ k \in Nat
    OBVIOUS
  <2>2. k + 0 = k
    BY <2>1
  <2>3. /\ limit \in Nat /\ offset \in Nat /\ k + Len(none) <= limit
        /\ \A i \in 1 .. k : IsAt(found, entries[i], offset + i - 1)
        /\ k + Len(none) < limit => offset + k + Len(none) >= Cardinality(found)
    BY DEF IsWindow
  <2>4. offset + k + 0 = offset + k
    BY <2>1, <2>3
  <2> HIDE DEF none, limit, offset, found, k
  <2> QED BY <2>1, <2>2, <2>3, <2>4 DEF limit
<1>2. r \in Nat /\ Cardinality(found) \in Nat /\ r < Cardinality(found) /\ r >= offset
  BY RankType, RankBound
<1>3. k \in Nat /\ (k = 0 => entries = <<>>) /\ (entries = <<>> => k = 0)
      /\ DOMAIN entries = 1 .. k
  OBVIOUS
<1> HIDE DEF limit, offset, r, k, found
<1>4. CASE r >= offset + limit
  <2>1. entries # <<>>
    BY <1>1, <1>2, <1>3, <1>4
  <2> QED BY <1>4, <2>1 DEF r, offset, limit, found
<1>5. CASE r < offset + limit
  <2> DEFINE i == r - offset + 1
  <2>1. i \in 1 .. k /\ offset + i - 1 = r
    BY <1>1, <1>2, <1>3, <1>5
  <2>2. IsAt(found, entries[i], r)
    BY <1>1, <2>1
  <2>3. PICK v \in found : entries[i] = Entry(v) /\ Rank(found, v) = r
    BY <2>2 DEF IsAt
  <2>4. v = u
    BY <2>3, RankDiffers DEF found, r
  <2>5. entries[i].id = u.uid
    BY <2>3, <2>4 DEF Entry
  <2> QED BY <1>3, <2>1, <2>5
<1> QED BY <1>1, <1>2, <1>4, <1>5

LEMMA SameListingIs ==
    ASSUME NEW q \in Query
    PROVE  /\ SameListing(q) \in Query /\ SameListing(q) # NoQuery
           /\ SameListing(q).op = q.op
           /\ PagingOf(SameListing(q)).size = PagingOf(q).size
           /\ \A rows : Matches(rows, SameListing(q)) = Matches(rows, q)
<1> DEFINE ps == [q.params EXCEPT !.page = 0]
           same == SameListing(q)
<1>1. same = [q EXCEPT !.params = ps]
  BY DEF SameListing
<1>2. ps \in Params /\ ps.size = q.params.size
  BY IntRange DEF Query, Params
<1> HIDE DEF ps
<1>3. /\ same \in Query /\ same.op = q.op /\ same.id = q.id /\ same.email = q.email
      /\ same.name = q.name /\ same.params = ps
  BY <1>1, <1>2 DEF Query
<1> HIDE DEF same
<1>4. same # NoQuery
  BY <1>3 DEF Query, NoQuery
<1>5. PagingOf(same).size = PagingOf(q).size
  BY <1>2, <1>3 DEF PagingOf, ParsePaginator
<1>6. \A rows : Matches(rows, same) = Matches(rows, q)
  BY <1>3 DEF Matches
<1> QED BY <1>3, <1>4, <1>5, <1>6 DEF same

(* The client of a walk reads one more page. *)
Followed(w, entries, page) ==
    [w EXCEPT !.next = page + 1,
              !.seen = w.seen \cup {entries[i].id : i \in DOMAIN entries},
              !.done = (entries = <<>>)]

(* A walk and a page of the rows that follow what it has read. *)
LEMMA WalkGoesOn ==
    ASSUME NEW w, NEW q \in Query, NEW rows, NEW entries \in Seq(Entries), NEW page \in Nat,
           IsFiniteSet(rows), rows \subseteq User, UidsDiffer(rows),
           IsWindow(entries, <<>>, rows, q), q.op = "ListUsers",
           PagingOf(q).size \in Int64, PagingOf(q).size > 0,
           page * PagingOf(q).size \in Int64,
           Window(PagingOf(q)).offset = page * PagingOf(q).size,
           w \in Walks,
           w.of = SameListing(q), w.start \subseteq rows,
           \A u \in Matches(w.start, q) :
              \/ u.uid \in w.seen
              \/ Rank(Matches(rows, q), u) >= page * PagingOf(q).size
    PROVE  /\ Followed(w, entries, page) \in Walks
           /\ IsWalk(Followed(w, entries, page), rows)
<1> DEFINE size == PagingOf(q).size
           found == Matches(rows, q)
           ids == {entries[i].id : i \in DOMAIN entries}
           seen == w.seen \cup ids
           done == entries = <<>>
           v == [w EXCEPT !.next = page + 1, !.seen = seen, !.done = done]
<1>0. v = Followed(w, entries, page)
  BY DEF Followed
<1>1. seen \subseteq Uids
  <2>1. \A i \in DOMAIN entries : entries[i] \in Entries
    OBVIOUS
  <2>2. \A e \in Entries : e.id \in Uids
    BY DEF Entries, Entry, User
  <2>3. w.seen \subseteq Uids
    BY DEF Walks
  <2> QED BY <2>1, <2>2, <2>3
<1>2. /\ v.of = w.of /\ v.next = page + 1 /\ v.start = w.start /\ v.seen = seen
      /\ v.done = done /\ v \in Walks
  <2>1. page + 1 \in Nat /\ done \in BOOLEAN /\ seen \in SUBSET Uids
    BY <1>1 DEF Walks
  <2> HIDE DEF seen, done
  <2> QED BY <2>1 DEF Walks
<1>3. v.seen = w.seen \cup ids /\ (v.done => entries = <<>>)
  BY <1>2
<1> HIDE DEF v
<1>4. /\ v.of \in Query /\ v.of.op = "ListUsers" /\ PagingOf(v.of).size = size
      /\ \A R : Matches(R, v.of) = Matches(R, q)
  BY <1>2, SameListingIs
<1>5. v.next \in Nat \ {0} /\ v.next - 1 = page
  BY <1>2
<1>6. /\ found \in SUBSET User /\ IsFiniteSet(found) /\ UidsDiffer(found)
      /\ Matches(w.start, q) \subseteq found
  <2>1. found \subseteq rows /\ Matches(w.start, q) \subseteq found
    BY MatchesGrow
  <2> QED BY <2>1, FiniteMatches DEF UidsDiffer
<1>7. Window(PagingOf(q)).limit = size
  BY DEF Window
<1>8. size \in Nat \ {0}
  BY IntRange
<1>9. v.next * size = page * size + size
  <2> HIDE DEF size
  <2> QED BY <1>2, <1>8
<1>10. ASSUME NEW u \in Matches(v.start, v.of)
       PROVE  \/ u.uid \in v.seen
              \/ ~v.done /\ Rank(Matches(rows, v.of), u) >= v.next * size
  <2>1. u \in Matches(w.start, q) /\ Matches(rows, v.of) = found
    BY <1>2, <1>4
  <2>2. CASE u.uid \in w.seen
    BY <1>3, <2>2
  <2>3. CASE u.uid \notin w.seen
    <3>1. Rank(found, u) >= Window(PagingOf(q)).offset /\ u \in found
      BY <1>6, <2>1, <2>3
    <3>2. \/ \E i \in DOMAIN entries : entries[i].id = u.uid
          \/ /\ entries # <<>>
             /\ Rank(found, u) >= Window(PagingOf(q)).offset + Window(PagingOf(q)).limit
      BY <1>6, <1>7, <1>8, <3>1, PageCovers
    <3>3. CASE \E i \in DOMAIN entries : entries[i].id = u.uid
      BY <1>3, <3>3
    <3>4. CASE entries # <<>> /\ Rank(found, u) >= page * size + size
      BY <1>3, <1>9, <2>1, <3>4
    <3> QED BY <1>7, <3>2, <3>3, <3>4
  <2> QED BY <2>2, <2>3
<1>11. (v.next - 1) * size \in Int64
  BY <1>5
<1>12. IsWalk(v, rows)
  BY <1>2, <1>4, <1>5, <1>10, <1>11 DEF IsWalk
<1> QED BY <1>0, <1>2, <1>12

(* What the answer to a listing makes of the walk it is part of. *)
LEMMA WalkedIs ==
    ASSUME IInv, NEW p \in Readers, pc[p] = "reply", status[p] = 200
    PROVE  /\ Walked(p) \in Walks
           /\ Walked(p) = NoWalk \/ IsWalk(Walked(p), users)
<1> USE DEF IInv
<1> DEFINE q == query[p]
           page == PagingOf(q).page
           size == PagingOf(q).size
           same == SameListing(q)
           w == IF page = 0 THEN [NoWalk EXCEPT !.of = same, !.start = before[p]]
                ELSE walk[p]
           v == Followed(w, list[p], page)
<1>1. /\ q \in Query /\ ~Refused(q) /\ q.op = "ListUsers" /\ size # 0
      /\ list[p] \in Seq(Entries) /\ cursor[p] = <<>> /\ before[p] \subseteq User
  <2>1. q \in Queries /\ cursor[p] = <<>>
    BY DEF HandlerInv
  <2>2. ~Refused(q) /\ q.op = "ListUsers" /\ size # 0
    BY DEF AnswerInv
  <2>3. list[p] \in Seq(Entries) /\ before[p] \subseteq User
    BY DEF TypeInv
  <2> QED BY <2>1, <2>2, <2>3, QueriesAreQueries
<1>2. page \in Int64 /\ size \in Int64
  BY <1>1, PagingOfQuery DEF Paginator
<1>3. PICK rows \in SUBSET users :
        before[p] \subseteq rows /\ IsWindow(list[p], <<>>, rows, q)
  BY <1>1 DEF PageInv, HasPage, MomentsInv
<1>4. IsFiniteSet(users) /\ IsFiniteSet(rows) /\ rows \subseteq User /\ UidsDiffer(rows)
  BY FS_Subset DEF TablesInv, TablesTypeOK, Integrity, Keys, UidsDiffer
<1>5. size > 0 /\ Wrap(size * page) >= 0 /\ Window(PagingOf(q)).offset = Wrap(size * page)
  BY <1>1, <1>2, <1>3, IntRange DEF IsWindow, Window
<1>6. NoWalk \in Walks
  BY DEF NoWalk, Walks
<1>7. Walked(p) = IF page = 0 \/ (w.of = same /\ w.next = page) THEN v ELSE NoWalk
  BY DEF Walked, Followed
<1>8. CASE page = 0
  <2>1. /\ w \in Walks /\ w.of = same /\ w.start = before[p]
    BY <1>1, <1>8, SameListingIs DEF NoWalk, Walks
  <2>2. page \in Nat /\ page * size = 0 /\ size * page = 0 /\ 0 \in Int64 /\ size \in Int
    BY <1>2, <1>8, IntRange
  <2>3. Window(PagingOf(q)).offset = page * size
    BY <1>5, <2>2, WrapKeeps
  <2>4. ASSUME NEW u \in Matches(w.start, q)
        PROVE  Rank(Matches(rows, q), u) >= page * size
    BY <1>4, <2>2, FiniteMatches, RankType
  <2> HIDE DEF w
  <2>5. v \in Walks /\ IsWalk(v, rows)
    BY <1>1, <1>2, <1>3, <1>4, <1>5, <2>1, <2>2, <2>3, <2>4, WalkGoesOn
  <2>6. IsWalk(v, users)
    BY <1>4, <2>5, WalkStays
  <2>7. Walked(p) = v
    BY <1>7, <1>8
  <2> QED BY <2>5, <2>6, <2>7
<1>9. CASE page # 0 /\ w.of = same /\ w.next = page
  <2>1. w = walk[p] /\ w \in Walks /\ w # NoWalk
    BY <1>1, <1>9, SameListingIs DEF WalkInv, NoWalk
  <2>2. IsWalk(w, before[p])
    BY <1>9, <2>1 DEF WalkInv, Base
  <2>3. /\ page \in Nat \ {0} /\ (page - 1) * size \in Int64 /\ w.start \subseteq before[p]
        /\ \A u \in Matches(w.start, q) :
              u.uid \in w.seen \/ Rank(Matches(before[p], q), u) >= page * size
    BY <1>1, <1>9, <2>2, SameListingIs DEF IsWalk
  <2>4. Window(PagingOf(q)).offset = page * size /\ page * size \in Int64
    BY <1>2, <1>5, <2>3, NextOffset
  <2>5. ASSUME NEW u \in Matches(w.start, q), u.uid \notin w.seen
        PROVE  Rank(Matches(rows, q), u) >= page * size
    <3>1. /\ IsFiniteSet(Matches(rows, q)) /\ IsFiniteSet(before[p])
          /\ Matches(before[p], q) \subseteq Matches(rows, q)
      BY <1>3, <1>4, FS_Subset, FiniteMatches, MatchesGrow
    <3>2. /\ Rank(Matches(before[p], q), u) <= Rank(Matches(rows, q), u)
          /\ Rank(Matches(before[p], q), u) \in Nat /\ Rank(Matches(rows, q), u) \in Nat
      BY <3>1, FiniteMatches, RankGrows, RankType
    <3>3. Rank(Matches(before[p], q), u) >= page * size /\ page * size \in Int
      BY <2>3, <2>4, <2>5, IntRange
    <3> HIDE DEF page, size, q
    <3> QED BY <3>2, <3>3
  <2> HIDE DEF w
  <2>6. v \in Walks /\ IsWalk(v, rows)
    BY <1>1, <1>2, <1>3, <1>4, <1>5, <1>9, <2>1, <2>3, <2>4, <2>5, WalkGoesOn
  <2>7. IsWalk(v, users)
    BY <1>4, <2>6, WalkStays
  <2>8. Walked(p) = v
    BY <1>7, <1>9
  <2> QED BY <2>6, <2>7, <2>8
<1>10. CASE page # 0 /\ ~(w.of = same /\ w.next = page)
  <2> HIDE DEF w, v
  <2>1. Walked(p) = NoWalk
    BY <1>7, <1>10
  <2> QED BY <1>6, <2>1
<1> QED BY <1>8, <1>9, <1>10

LEMMA WalkKept == IInv /\ [Next]_vars => WalkInv'
<1> SUFFICES ASSUME IInv, [Next]_vars PROVE WalkInv'
  OBVIOUS
<1> USE DEF IInv
<1>1. ASSUME NEW p \in Readers, walk'[p] = walk[p]
      PROVE  walk'[p] \in Walks /\ (walk'[p] = NoWalk \/ IsWalk(walk'[p], Base(p)'))
  <2>1. walk[p] \in Walks /\ (walk[p] = NoWalk \/ IsWalk(walk[p], Base(p)))
    BY DEF WalkInv
  <2>2. Base(p) \subseteq Base(p)' /\ IsFiniteSet(Base(p)')
    <3>1. IsFiniteSet(users') /\ Base(p) \subseteq Base(p)' /\ Base(p)' \subseteq users'
      BY BaseKept, TablesKept DEF TablesInv
    <3> QED BY <3>1, FS_Subset
  <2> QED BY <1>1, <2>1, <2>2, WalkStays
<1>2. CASE UNCHANGED walk
  BY <1>1, <1>2 DEF WalkInv
<1>3. ASSUME NEW p \in Readers, Reply(p) PROVE WalkInv'
  <2>1. /\ users' = users /\ pc[p] = "reply" /\ Base(p)' = users'
        /\ walk' = IF status[p] = 200 THEN [walk EXCEPT ![p] = Walked(p)] ELSE walk
    BY <1>3 DEF Reply, Base, TypeInv
  <2>2. CASE status[p] # 200
    BY <1>2, <2>1, <2>2
  <2>3. CASE status[p] = 200
    <3>1. walk' = [walk EXCEPT ![p] = Walked(p)]
      BY <2>1, <2>3
    <3>2. /\ Walked(p) \in Walks
          /\ Walked(p) = NoWalk \/ IsWalk(Walked(p), users)
      BY <2>1, <2>3, WalkedIs
    <3>3. walk \in [Readers -> Walks]
      BY DEF WalkInv
    <3>4. /\ walk' \in [Readers -> Walks] /\ walk'[p] = Walked(p)
          /\ \A r \in Readers \ {p} : walk'[r] = walk[r]
      BY <3>1, <3>2, <3>3
    <3>5. walk'[p] = NoWalk \/ IsWalk(walk'[p], Base(p)')
      BY <2>1, <3>2, <3>4
    <3> QED BY <1>1, <3>4, <3>5 DEF WalkInv
  <2> QED BY <2>2, <2>3
<1>4. ASSUME ~\E p \in Readers : Reply(p) PROVE UNCHANGED walk
  <2>1. ASSUME NEW p \in Readers, NEW q \in Queries, Refuse(p, q) \/ Arrive(p, q)
        PROVE  UNCHANGED walk
    BY <2>1 DEF Refuse, Arrive
  <2>2. ASSUME NEW p \in Readers, Handler(p) \/ Break(p) PROVE UNCHANGED walk
    BY <2>2 DEF Handler, Count, CountScounts, SelectPage, Fetch, Commit, Respond, Break
  <2>3. ASSUME NEW u \in User, Register(u) PROVE UNCHANGED walk
    BY <2>3 DEF Register
  <2>4. CASE UNCHANGED vars
    BY <2>4 DEF vars
  <2> QED BY <1>4, <2>1, <2>2, <2>3, <2>4 DEF Next
<1> QED BY <1>2, <1>3, <1>4

-----------------------------------------------------------------------------
(* The properties.                                                         *)

LEMMA InitEstablishes == Init => IInv
<1> SUFFICES ASSUME Init PROVE IInv
  OBVIOUS
<1> DEFINE none == <<>>
<1>1. TablesInv
  BY FS_EmptySet
     DEF Init, TablesInit, TablesInv, TablesTypeOK, Integrity, Keys, References
<1>2. none \in Seq(User) /\ none \in Seq(Entries)
  OBVIOUS
<1>3. /\ cursor = [p \in Readers |-> none] /\ list = [p \in Readers |-> none]
  BY DEF Init
<1> HIDE DEF none
<1>4. TypeInv
  BY <1>2, <1>3 DEF Init, TypeInv, States
<1>5. HandlerInv /\ AnswerInv /\ MomentsInv /\ PageInv
  BY DEF Init, HandlerInv, AnswerInv, MomentsInv, PageInv, Base
<1>6. WalkInv
  BY DEF Init, WalkInv, Walks, NoWalk
<1> QED BY <1>1, <1>4, <1>5, <1>6 DEF IInv

(* The inductive invariant of listings (api/users.go:214, ListUsers, down  *)
(* to db/postgres/store.go:141, iterator).                                 *)
THEOREM ListingInvariantHolds == Spec => []IInv
<1>1. IInv /\ [Next]_vars => IInv'
  BY TablesKept, TypeKept, HandlerKept, AnswerKept, MomentsKept, PageKept, WalkKept DEF IInv
<1> QED BY <1>1, InitEstablishes, PTL DEF Spec

(* An answer is one page of the users of one moment of its request. *)
THEOREM ListIsOnePageHolds == Spec => []ListIsOnePage
<1>1. IInv => ListIsOnePage
  <2> SUFFICES ASSUME IInv, NEW p \in Readers, Answered(p, 200),
                      Product(query[p]) \in Int64
               PROVE  \E rows \in moments[p] : IsPage(list[p], rows, query[p])
    BY DEF ListIsOnePage
  <2> USE DEF IInv
  <2> DEFINE q == query[p]
  <2>1. PICK rows \in moments[p] : IsWindow(list[p], cursor[p], rows, q)
    BY DEF Answered, PageInv, HasPage
  <2>3. list[p] \in Seq(Entries) /\ cursor[p] = <<>>
    BY DEF TypeInv, HandlerInv, Answered
  <2>4. /\ Window(PagingOf(q)).offset = Product(q)
        /\ Window(PagingOf(q)).limit = PagingOf(q).size
    BY WrapKeeps DEF Window, Product
  <2>5. IsPage(list[p], rows, q)
    <3> DEFINE from == Product(q)
               size == PagingOf(q).size
               found == Matches(rows, q)
               k == Len(list[p])
               none == <<>>
    <3>1. k \in Nat /\ Len(none) = 0
      BY <2>3
    <3>2. /\ size \in Nat /\ from \in Nat /\ k + Len(none) <= size
          /\ \A i \in DOMAIN list[p] : IsAt(found, list[p][i], from + i - 1)
          /\ k + Len(none) < size => from + k + Len(none) >= Cardinality(found)
      BY <2>1, <2>3, <2>4 DEF IsWindow
    <3> HIDE DEF from, size, found, k, none
    <3>3. k + 0 = k /\ from + k + 0 = from + k
      BY <3>1, <3>2
    <3>4. k <= size /\ (k < size => from + k >= Cardinality(found))
      BY <3>1, <3>2, <3>3
    <3> QED BY <3>2, <3>4 DEF IsPage, IsAt, from, size, found, k
  <2> QED BY <2>5
<1> QED BY <1>1, ListingInvariantHolds, PTL

(* A walk that is done has seen everybody. *)
THEOREM WalkMissesNobodyHolds == Spec => []WalkMissesNobody
<1>1. IInv => WalkMissesNobody
  <2> SUFFICES ASSUME IInv, NEW p \in Readers, walk[p].done,
                      NEW u \in Matches(walk[p].start, walk[p].of)
               PROVE  u.uid \in walk[p].seen
    BY DEF WalkMissesNobody
  <2>1. walk[p] # NoWalk
    BY DEF NoWalk
  <2>2. IsWalk(walk[p], Base(p))
    BY <2>1 DEF IInv, WalkInv
  <2> QED BY <2>2 DEF IsWalk
<1> QED BY <1>1, ListingInvariantHolds, PTL

=============================================================================
