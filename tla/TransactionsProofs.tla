-------------------------- MODULE TransactionsProofs --------------------------
(***************************************************************************)
(* The tables stay consistent under concurrent calls of package db, and    *)
(* each call is atomic: Transactions implements Collections.               *)
(***************************************************************************)
EXTENDS Transactions, TablesProofs

(* The keys of the first n rows of c, and the rows. *)
KeysUpTo(c, n) == UNION {RowKeys(c.op, c.rows[i]) : i \in 1 .. n}
RowsUpTo(c, n) == {c.rows[i] : i \in 1 .. n}

IsTx(tx) == tx = [keys |-> tx.keys, rows |-> tx.rows, next |-> tx.next, half |-> tx.half]

(* A session is somewhere in the Insert c: it has written the rows before  *)
(* the one it is at, and holds their keys and, perhaps, one more.          *)
AtRowOf(c, tx) ==
    /\ IsTx(tx)
    /\ tx.next \in 1 .. Len(c.rows) + 1
    /\ tx.half \in BOOLEAN
    /\ tx.half => /\ tx.next <= Len(c.rows)
                  /\ FirstKey(c.op, c.rows[tx.next]) \notin KeysUpTo(c, tx.next - 1)
    /\ tx.rows = RowsUpTo(c, tx.next - 1)
    /\ tx.keys = KeysUpTo(c, tx.next - 1) \cup
                   (IF tx.half THEN {FirstKey(c.op, c.rows[tx.next])} ELSE {})
    /\ \A i, j \in 1 .. tx.next - 1 :
          i # j => RowKeys(c.op, c.rows[i]) \cap RowKeys(c.op, c.rows[j]) = {}

(* What it has written fits into the tables. *)
Fits(c, tx) ==
    /\ tx.keys \cap TableKeys = {}
    /\ \A row \in tx.rows : Referent(c.op, row)

TypeInv ==
    /\ TablesTypeOK
    /\ call \in [Callers -> Workload \cup {NoCall}]
    /\ answer \in [Callers -> Answers \cup {Pending}]
    /\ sess = [p \in Callers |-> sess[p]]

SessionInv ==
    \A p \in Callers :
        IF InTx(p) THEN AtRowOf(call[p], sess[p]) /\ Fits(call[p], sess[p])
                   ELSE sess[p] = NewTx

OrphanOK(o) ==
    /\ o = [slot |-> o.slot, call |-> o.call, tx |-> o.tx, sent |-> o.sent]
    /\ o.slot \in Slots /\ o.call \in Workload /\ o.sent \in BOOLEAN
    /\ \/ /\ IsInsert(o.call) /\ o.call.rows # <<>>
          /\ AtRowOf(o.call, o.tx) /\ Fits(o.call, o.tx)
          /\ o.sent => o.tx.next = Len(o.call.rows) + 1
       \/ IsStatement(o.call) /\ o.sent /\ o.tx = NewTx

(* No key is held by two sessions, and no slot by two failed calls. *)
KeysApart ==
    /\ \A p, q \in Callers : p # q => sess[p].keys \cap sess[q].keys = {}
    /\ \A p \in Callers, o \in orphans : sess[p].keys \cap o.tx.keys = {}
    /\ \A o1, o2 \in orphans :
          o1 # o2 => o1.tx.keys \cap o2.tx.keys = {} /\ o1.slot # o2.slot

IInv ==
    /\ TypeInv
    /\ Integrity
    /\ SessionInv
    /\ \A o \in orphans : OrphanOK(o)
    /\ KeysApart

-----------------------------------------------------------------------------
(* Calls and rows. *)

(* The rows of an Insert have the type of its table. *)
LEMMA InsertRows ==
    ASSUME NEW c \in Workload, IsInsert(c)
    PROVE  /\ c.op \in {"InsertUsers", "InsertScounts", "InsertMembers"}
           /\ c.rows \in Seq(RowsOf[c.op])
           /\ c.op # "none" /\ ~IsStatement(c) /\ c \notin Others
<1>1. c.op \in {"InsertUsers", "InsertScounts", "InsertMembers"}
  BY DEF IsInsert, RowsOf
<1>2. c \notin Statements \cup Lookups \cup Others
  BY <1>1 DEF Statements, Lookups, Others
<1> QED BY <1>1, <1>2, WorkloadOfCalls DEF IsStatement

LEMMA PendingIsNoAnswer == Pending \notin Answers
  BY DEF Pending, Answers, Errors, ErrRejected, Nil, ErrNoRows, ErrConflict, ErrInvalidData,
         ErrSyntaxPrivilege, ErrNil, ErrUnsupported, ErrOther

(* A key of a row is its first one or one of the others. *)
LEMMA FirstKeyIsKey ==
    ASSUME NEW op \in {"InsertUsers", "InsertScounts", "InsertMembers"}, NEW row
    PROVE  FirstKey(op, row) \in RowKeys(op, row)
BY DEF FirstKey, RowKeys, UserKeys, ScountKeys

-----------------------------------------------------------------------------
(* Adding rows to the tables. *)

(* Rows fit: none takes a key that is in use, each refers to rows there.   *)
Fitting(op, rows) ==
    /\ rows \subseteq RowsOf[op]
    /\ \A r \in rows : RowKeys(op, r) \cap TableKeys = {} /\ Referent(op, r)
    /\ \A r, t \in rows : r # t => RowKeys(op, r) \cap RowKeys(op, t) = {}

Grown(keys) ==
    /\ TablesTypeOK' /\ Integrity'
    /\ TableKeys' = TableKeys \cup keys
    /\ UidsOf(users) \subseteq UidsOf(users')
    /\ SidsOf(scounts) \subseteq SidsOf(scounts')

LEMMA AddUsers ==
    ASSUME NEW rows, Fitting("InsertUsers", rows), AddRows("InsertUsers", rows),
           TablesTypeOK, Integrity
    PROVE  Grown(UNION {RowKeys("InsertUsers", r) : r \in rows})
<1>1. users' = users \cup rows /\ UNCHANGED <<scounts, members>>
  BY DEF AddRows
<1>2. TablesTypeOK'
  BY <1>1 DEF TablesTypeOK, Fitting, RowsOf
<1>3. TableKeys' = TableKeys \cup UNION {RowKeys("InsertUsers", r) : r \in rows}
  BY <1>1 DEF TableKeys, RowKeys
<1>4. Keys'
  <2>1. \A u \in users, v \in rows : u.uid # v.uid /\ u.email # v.email
    <3> SUFFICES ASSUME NEW u \in users, NEW v \in rows
                 PROVE  u.uid # v.uid /\ u.email # v.email
      OBVIOUS
    <3>1. UserKeys(u) \subseteq TableKeys
      BY DEF TableKeys
    <3>2. UserKeys(v) \cap TableKeys = {}
      BY DEF Fitting, RowKeys
    <3> QED BY <3>1, <3>2 DEF UserKeys
  <2>2. \A u, v \in rows : u # v => u.uid # v.uid /\ u.email # v.email
    BY DEF Fitting, RowKeys, UserKeys
  <2> QED BY <1>1, <2>1, <2>2 DEF Integrity, Keys
<1>5. UidsOf(users) \subseteq UidsOf(users') /\ SidsOf(scounts) \subseteq SidsOf(scounts')
  BY <1>1 DEF UidsOf, SidsOf
<1>6. References'
  BY <1>1, <1>5 DEF Integrity, References, SidsOf
<1> QED BY <1>2, <1>3, <1>4, <1>5, <1>6 DEF Grown, Integrity

LEMMA AddScounts ==
    ASSUME NEW rows, Fitting("InsertScounts", rows), AddRows("InsertScounts", rows),
           TablesTypeOK, Integrity
    PROVE  Grown(UNION {RowKeys("InsertScounts", r) : r \in rows})
<1>1. /\ users' = users /\ scounts' = scounts \cup rows
      /\ members' = members \cup {OwnerAsMember(s) : s \in rows}
  BY DEF AddRows
<1>0. rows \subseteq Scount
  BY DEF Fitting, RowsOf
<1>2. TablesTypeOK'
  BY <1>0, <1>1 DEF TablesTypeOK, OwnerAsMember, Scount, Member
<1>3. TableKeys' = TableKeys \cup UNION {RowKeys("InsertScounts", r) : r \in rows}
  <2>1. UNION {RowKeys("InsertScounts", r) : r \in rows}
          = {<<"sid", s.sid>> : s \in rows} \cup {MemberKey(OwnerAsMember(s)) : s \in rows}
    BY DEF RowKeys, ScountKeys
  <2>2. {<<"sid", s.sid>> : s \in scounts'} =
          {<<"sid", s.sid>> : s \in scounts} \cup {<<"sid", s.sid>> : s \in rows}
    BY <1>1
  <2>3. {MemberKey(m) : m \in members'} =
          {MemberKey(m) : m \in members} \cup {MemberKey(OwnerAsMember(s)) : s \in rows}
    BY <1>1
  <2> QED BY <1>1, <2>1, <2>2, <2>3 DEF TableKeys, MemberKey
<1>4. Keys'
  <2>1. \A s \in scounts, t \in rows : s.sid # t.sid
    BY DEF Fitting, RowKeys, ScountKeys, TableKeys
  <2>2. \A s, t \in rows : s # t => s.sid # t.sid
    BY DEF Fitting, RowKeys, ScountKeys
  <2> QED BY <1>1, <2>1, <2>2 DEF Integrity, Keys
<1>5. UidsOf(users) \subseteq UidsOf(users') /\ SidsOf(scounts) \subseteq SidsOf(scounts')
  BY <1>1 DEF UidsOf, SidsOf
<1>6. References'
  <2>1. \A s \in rows : s.owner \in UidsOf(users)
    BY DEF Fitting, Referent
  <2>2. \A s \in scounts' : s.owner \in UidsOf(users')
    BY <1>1, <2>1 DEF Integrity, References
  <2>3. \A s \in rows : OwnerAsMember(s).sid = s.sid /\ OwnerAsMember(s).uid = s.owner
    BY DEF OwnerAsMember
  <2>4. \A m \in members' : m.sid \in SidsOf(scounts') /\ m.uid \in UidsOf(users')
    BY <1>1, <2>1, <2>3 DEF Integrity, References, SidsOf
  <2> QED BY <2>2, <2>4 DEF References
<1> QED BY <1>2, <1>3, <1>4, <1>5, <1>6 DEF Grown, Integrity

LEMMA AddMembers ==
    ASSUME NEW rows, Fitting("InsertMembers", rows), AddRows("InsertMembers", rows),
           TablesTypeOK, Integrity
    PROVE  Grown(UNION {RowKeys("InsertMembers", r) : r \in rows})
<1>1. UNCHANGED <<users, scounts>> /\ members' = members \cup rows
  BY DEF AddRows
<1>2. TablesTypeOK'
  BY <1>1 DEF TablesTypeOK, Fitting, RowsOf
<1>3. TableKeys' = TableKeys \cup UNION {RowKeys("InsertMembers", r) : r \in rows}
  BY <1>1 DEF TableKeys, RowKeys
<1>4. Keys'
  BY <1>1 DEF Integrity, Keys
<1>5. References'
  BY <1>1 DEF Integrity, References, Fitting, Referent
<1> QED BY <1>1, <1>2, <1>3, <1>4, <1>5 DEF Grown, Integrity

(* What commits is added without breaking anything. *)
LEMMA CommitGrows ==
    ASSUME NEW c \in Workload, IsInsert(c), NEW tx, AtRowOf(c, tx), Fits(c, tx),
           tx.next = Len(c.rows) + 1, AddRows(c.op, tx.rows),
           TablesTypeOK, Integrity
    PROVE  /\ Grown(tx.keys)
           /\ Insertable(c) /\ tx.rows = RowSet(c)
<1>1. /\ c.op \in {"InsertUsers", "InsertScounts", "InsertMembers"}
      /\ c.rows \in Seq(RowsOf[c.op])
  BY InsertRows
<1>2. Len(c.rows) \in Nat /\ DOMAIN c.rows = 1 .. Len(c.rows) /\ tx.next - 1 = Len(c.rows)
  BY <1>1
<1>3. tx.half = FALSE
  BY <1>2 DEF AtRowOf
<1>4. /\ tx.rows = {c.rows[i] : i \in 1 .. Len(c.rows)}
      /\ tx.keys = UNION {RowKeys(c.op, c.rows[i]) : i \in 1 .. Len(c.rows)}
  BY <1>2, <1>3 DEF AtRowOf, RowsUpTo, KeysUpTo
<1>5. \A i, j \in 1 .. Len(c.rows) :
         i # j => RowKeys(c.op, c.rows[i]) \cap RowKeys(c.op, c.rows[j]) = {}
  BY <1>2 DEF AtRowOf
<1>6. \A i \in 1 .. Len(c.rows) :
         RowKeys(c.op, c.rows[i]) \cap TableKeys = {} /\ Referent(c.op, c.rows[i])
  BY <1>4 DEF Fits
<1>7. Insertable(c) /\ tx.rows = RowSet(c)
  BY <1>2, <1>4, <1>5, <1>6 DEF Insertable, RowSet
<1>8. Fitting(c.op, tx.rows)
  <2>1. tx.rows \subseteq RowsOf[c.op]
    BY <1>1, <1>2, <1>4
  <2> QED BY <2>1, <1>4, <1>5, <1>6 DEF Fitting
<1>9. tx.keys = UNION {RowKeys(c.op, r) : r \in tx.rows}
  BY <1>4
<1> QED
  <2>1. CASE c.op = "InsertUsers"
    BY <2>1, <1>7, <1>8, <1>9, AddUsers
  <2>2. CASE c.op = "InsertScounts"
    BY <2>2, <1>7, <1>8, <1>9, AddScounts
  <2>3. CASE c.op = "InsertMembers"
    BY <2>3, <1>7, <1>8, <1>9, AddMembers
  <2> QED BY <1>1, <2>1, <2>2, <2>3

-----------------------------------------------------------------------------
(* What a step of others leaves of a session. *)

(* The tables have grown by keys that the session does not hold. *)
LEMMA StillFits ==
    ASSUME NEW c \in Workload, IsInsert(c), NEW tx, Fits(c, tx),
           NEW keys, Grown(keys), tx.keys \cap keys = {}
    PROVE  Fits(c, tx)'
<1>1. tx.keys \cap TableKeys' = {}
  BY DEF Fits, Grown
<1>2. \A row \in tx.rows : Referent(c.op, row)'
  BY InsertRows DEF Fits, Grown, Referent
<1> QED BY <1>1, <1>2 DEF Fits

(* A statement adds no key, and what is referred to stays unless it is the *)
(* row the statement deletes.                                              *)
Shrunk(c) ==
    /\ TablesTypeOK' /\ Integrity'
    /\ TableKeys' \subseteq TableKeys
    /\ UidsOf(users) \ (IF c.op = "DeleteUser" THEN {c.uid} ELSE {}) \subseteq UidsOf(users')
    /\ SidsOf(scounts) \ (IF c.op = "DeleteScount" THEN {c.sid} ELSE {})
          \subseteq SidsOf(scounts')

LEMMA KeysShrink ==
    ASSUME \A v \in users' : \E u \in users : u.uid = v.uid /\ u.email = v.email,
           SidsOf(scounts') \subseteq SidsOf(scounts),
           members' \subseteq members
    PROVE  TableKeys' \subseteq TableKeys
<1>1. \A v \in users' : \E u \in users : UserKeys(v) = UserKeys(u)
  BY DEF UserKeys
<1>2. \A t \in scounts' : \E s \in scounts : s.sid = t.sid
  BY DEF SidsOf
<1> QED BY <1>1, <1>2 DEF TableKeys

LEMMA StatementArguments ==
    ASSUME NEW c \in Workload, IsStatement(c)
    PROVE  /\ c \in Statements
           /\ c.op = "UpdateUser" => c.name \in Names \cup {None}
           /\ c.op = "UpdatePassword" => c.new \in Hash
           /\ c.op = "UpdateScount" => /\ c.owner \in Uids \cup {None}
                                       /\ c.title \in Titles \cup {None}
<1>1. c \in Statements
  BY WorkloadOfCalls DEF IsStatement, RowsOf, Lookups, Others
<1> QED BY <1>1 DEF Statements

LEMMA StatementShrinks ==
    ASSUME NEW c \in Workload, NEW err, Statement(c, err), TablesTypeOK, Integrity
    PROVE  Shrunk(c)
<1>0. IsStatement(c)
  BY DEF Statement, IsStatement
<1>a. UNCHANGED scounts => SidsOf(scounts') = SidsOf(scounts)
  BY DEF SidsOf
<1>b. UNCHANGED users =>
         /\ \A v \in users' : \E u \in users : u.uid = v.uid /\ u.email = v.email
         /\ UidsOf(users') = UidsOf(users)
  BY DEF UidsOf
<1>1. CASE c.op = "DeleteUser" /\ UserDelete(c.uid, err)
  <2>1. /\ TablesTypeOK' /\ Integrity'
        /\ UNCHANGED <<scounts, members>>
        /\ users' \subseteq users
        /\ UidsOf(users) \ {c.uid} \subseteq UidsOf(users')
    BY <1>1, UserDeleteKeeps
  <2>2. TableKeys' \subseteq TableKeys
    BY <1>a, <2>1, KeysShrink
  <2> QED BY <1>1, <1>a, <2>1, <2>2 DEF Shrunk
<1>2. CASE c.op = "UpdateUser" /\ UserUpdate(c.uid, c.name, err)
  <2>1. /\ TablesTypeOK' /\ Integrity' /\ UsersStay
        /\ UNCHANGED <<scounts, members>>
        /\ \A v \in users' : \E u \in users : u.uid = v.uid /\ u.email = v.email
    BY <1>0, <1>2, StatementArguments, UserUpdateKeeps
  <2>2. TableKeys' \subseteq TableKeys
    BY <1>a, <2>1, KeysShrink
  <2> QED BY <1>2, <1>a, <2>1, <2>2, UsersStayUids DEF Shrunk
<1>3. CASE c.op = "UpdatePassword" /\ UserUpdatePassword(c.uid, c.old, c.new, err)
  <2>1. /\ TablesTypeOK' /\ Integrity' /\ UsersStay
        /\ UNCHANGED <<scounts, members>>
        /\ \A v \in users' : \E u \in users : u.uid = v.uid /\ u.email = v.email
    BY <1>0, <1>3, StatementArguments, UserUpdatePasswordKeeps
  <2>2. TableKeys' \subseteq TableKeys
    BY <1>a, <2>1, KeysShrink
  <2> QED BY <1>3, <1>a, <2>1, <2>2, UsersStayUids DEF Shrunk
<1>4. CASE c.op = "DeleteScount" /\ ScountDelete(c.sid, err)
  <2>1. /\ TablesTypeOK' /\ Integrity'
        /\ UNCHANGED <<users, members>>
        /\ scounts' \subseteq scounts
    BY <1>4, ScountDeleteKeeps
  <2>2. SidsOf(scounts) \ {c.sid} \subseteq SidsOf(scounts')
    BY <1>4 DEF ScountDelete, Rejected, tables, SidsOf
  <2>3. SidsOf(scounts') \subseteq SidsOf(scounts)
    BY <2>1 DEF SidsOf
  <2>4. TableKeys' \subseteq TableKeys
    BY <1>b, <2>1, <2>3, KeysShrink
  <2> QED BY <1>4, <1>b, <2>1, <2>2, <2>4 DEF Shrunk
<1>5. CASE c.op = "UpdateScount" /\ ScountUpdate(c.sid, c.owner, c.title, err)
  <2>1. /\ TablesTypeOK' /\ Integrity'
        /\ UNCHANGED <<users, members>>
        /\ SidsOf(scounts') = SidsOf(scounts)
    BY <1>0, <1>5, StatementArguments, ScountUpdateKeeps
  <2>2. TableKeys' \subseteq TableKeys
    BY <1>b, <2>1, KeysShrink
  <2> QED BY <1>5, <1>b, <2>1, <2>2 DEF Shrunk
<1>6. CASE c.op = "DeleteMember" /\ MemberDelete(c.member, err)
  <2>1. /\ TablesTypeOK' /\ Integrity'
        /\ UNCHANGED <<users, scounts>>
        /\ members' \subseteq members
    BY <1>6, MemberDeleteKeeps
  <2>2. TableKeys' \subseteq TableKeys
    BY <1>a, <1>b, <2>1, KeysShrink
  <2> QED BY <1>6, <1>a, <1>b, <2>1, <2>2 DEF Shrunk
<1> QED BY <1>1, <1>2, <1>3, <1>4, <1>5, <1>6 DEF Statement

(* A session fits after a statement that does not delete what it refers to *)
LEMMA FitsAfterStatement ==
    ASSUME NEW d \in Workload, IsInsert(d), NEW tx, Fits(d, tx),
           NEW c, Shrunk(c), ~Refers(d.op, tx.rows, c)
    PROVE  Fits(d, tx)'
<1>1. tx.keys \cap TableKeys' = {}
  BY DEF Fits, Shrunk
<1>2. \A row \in tx.rows : Referent(d.op, row)'
  <2> SUFFICES ASSUME NEW row \in tx.rows PROVE Referent(d.op, row)'
    OBVIOUS
  <2>1. Referent(d.op, row)
    BY DEF Fits
  <2>2. CASE d.op = "InsertUsers"
    BY <2>2 DEF Referent
  <2>3. CASE d.op = "InsertScounts"
    BY <2>1, <2>3 DEF Referent, Refers, Shrunk
  <2>4. CASE d.op = "InsertMembers"
    BY <2>1, <2>4 DEF Referent, Refers, Shrunk
  <2> QED BY <2>2, <2>3, <2>4, InsertRows
<1> QED BY <1>1, <1>2 DEF Fits

-----------------------------------------------------------------------------
(* A session's own steps. *)

(* At its start a transaction has nothing to fit. *)
LEMMA NewTxFits ==
    ASSUME NEW c \in Workload, IsInsert(c)
    PROVE  AtRowOf(c, NewTx) /\ Fits(c, NewTx)
<1>1. Len(c.rows) \in Nat
  BY InsertRows
<1>2. KeysUpTo(c, 0) = {} /\ RowsUpTo(c, 0) = {}
  BY DEF KeysUpTo, RowsUpTo
<1> QED BY <1>1, <1>2 DEF AtRowOf, IsTx, Fits, NewTx

(* The keys and the rows of one row more. *)
LEMMA OneMore ==
    ASSUME NEW c, NEW n \in Nat \ {0}
    PROVE  /\ KeysUpTo(c, n) = KeysUpTo(c, n - 1) \cup RowKeys(c.op, c.rows[n])
           /\ RowsUpTo(c, n) = RowsUpTo(c, n - 1) \cup {c.rows[n]}
           /\ \A i \in 1 .. n - 1 : RowKeys(c.op, c.rows[i]) \subseteq KeysUpTo(c, n - 1)
<1>1. 1 .. n = (1 .. n - 1) \cup {n}
  OBVIOUS
<1> QED BY <1>1 DEF KeysUpTo, RowsUpTo

(* A statement that takes its row's first key. *)
LEMMA RowStarts ==
    ASSUME NEW c \in Workload, IsInsert(c), NEW tx, AtRowOf(c, tx),
           ~tx.half, tx.next <= Len(c.rows),
           FirstKey(c.op, c.rows[tx.next]) \notin tx.keys
    PROVE  AtRowOf(c, [keys |-> tx.keys \cup {FirstKey(c.op, c.rows[tx.next])},
                       rows |-> tx.rows, next |-> tx.next, half |-> TRUE])
<1> DEFINE new == [keys |-> tx.keys \cup {FirstKey(c.op, c.rows[tx.next])},
                   rows |-> tx.rows, next |-> tx.next, half |-> TRUE]
<1>1. /\ new.keys = tx.keys \cup {FirstKey(c.op, c.rows[tx.next])}
      /\ new.rows = tx.rows /\ new.next = tx.next /\ new.half = TRUE
  OBVIOUS
<1>2. IsTx(new)
  BY DEF IsTx
<1> HIDE DEF new
<1>3. tx.keys = KeysUpTo(c, tx.next - 1)
  BY DEF AtRowOf
<1>4. AtRowOf(c, new)
  BY <1>1, <1>2, <1>3 DEF AtRowOf
<1> QED BY <1>4 DEF new

(* A statement that takes the rest of its row's keys. *)
LEMMA RowFinishes ==
    ASSUME NEW c \in Workload, IsInsert(c), NEW tx, AtRowOf(c, tx), tx.half,
           NEW rest, rest = RowKeys(c.op, c.rows[tx.next]) \ {FirstKey(c.op, c.rows[tx.next])},
           rest \cap tx.keys = {}
    PROVE  AtRowOf(c, [keys |-> tx.keys \cup rest, rows |-> tx.rows \cup {c.rows[tx.next]},
                       next |-> tx.next + 1, half |-> FALSE])
<1> DEFINE n == tx.next
<1>1. Len(c.rows) \in Nat /\ n \in Nat \ {0} /\ n <= Len(c.rows)
  BY InsertRows DEF AtRowOf
<1>2. FirstKey(c.op, c.rows[n]) \in RowKeys(c.op, c.rows[n])
  BY InsertRows, FirstKeyIsKey
<1>3. tx.keys = KeysUpTo(c, n - 1) \cup {FirstKey(c.op, c.rows[n])}
  BY DEF AtRowOf
<1>4. tx.keys \cup rest = KeysUpTo(c, n)
  BY <1>1, <1>2, <1>3, OneMore
<1>5. tx.rows \cup {c.rows[n]} = RowsUpTo(c, n)
  BY <1>1, OneMore DEF AtRowOf
<1>6. RowKeys(c.op, c.rows[n]) \cap KeysUpTo(c, n - 1) = {}
  BY <1>2, <1>3 DEF AtRowOf
<1>7. \A i \in 1 .. n - 1 : RowKeys(c.op, c.rows[i]) \cap RowKeys(c.op, c.rows[n]) = {}
  BY <1>1, <1>6, OneMore
<1>0. n = tx.next
  OBVIOUS
<1> HIDE DEF n
<1>8. \A i, j \in 1 .. n :
         i # j => RowKeys(c.op, c.rows[i]) \cap RowKeys(c.op, c.rows[j]) = {}
  <2> SUFFICES ASSUME NEW i \in 1 .. n, NEW j \in 1 .. n, i # j
               PROVE  RowKeys(c.op, c.rows[i]) \cap RowKeys(c.op, c.rows[j]) = {}
    OBVIOUS
  <2>0. \A k \in 1 .. n : k # n => k \in 1 .. n - 1
    BY <1>1
  <2>1. CASE i = n
    BY <1>7, <2>0, <2>1
  <2>2. CASE j = n
    BY <1>7, <2>0, <2>2
  <2>3. CASE i # n /\ j # n
    BY <1>0, <2>0, <2>3 DEF AtRowOf
  <2> QED BY <2>1, <2>2, <2>3
<1> DEFINE new == [keys |-> tx.keys \cup rest, rows |-> tx.rows \cup {c.rows[tx.next]},
                   next |-> tx.next + 1, half |-> FALSE]
<1>9. /\ new.keys = KeysUpTo(c, n) /\ new.rows = RowsUpTo(c, n)
      /\ new.next = n + 1 /\ new.half = FALSE /\ n + 1 - 1 = n
  BY <1>0, <1>1, <1>4, <1>5
<1>b. IsTx(new)
  BY DEF IsTx
<1> HIDE DEF new
<1>a. AtRowOf(c, new)
  <2>1. new.next - 1 = n /\ new.next \in 1 .. Len(c.rows) + 1
    BY <1>1, <1>9
  <2>2. \A i, j \in 1 .. new.next - 1 :
           i # j => RowKeys(c.op, c.rows[i]) \cap RowKeys(c.op, c.rows[j]) = {}
    BY <1>8, <2>1
  <2> QED BY <1>9, <1>b, <2>1, <2>2 DEF AtRowOf
<1> QED BY <1>a DEF new

-----------------------------------------------------------------------------
(* Steps and the invariant. *)

(* The call of p is answered; its transaction is gone, or left behind.     *)
LEMMA AnswerKeeps ==
    ASSUME IInv, NEW p \in Callers, NEW err \in Answers, Answer(p, err),
           TablesTypeOK', Integrity',
           \A q \in Callers \ {p} : InTx(q) => Fits(call[q], sess[q])',
           \A o \in orphans' : OrphanOK(o)',
           \/ orphans' = orphans
           \/ \E o : /\ orphans' = orphans \cup {o} /\ o.tx = sess[p]
                     /\ \A x \in orphans : x.slot # o.slot
    PROVE  IInv'
<1>1. /\ call' = call
      /\ answer' = [answer EXCEPT ![p] = err] /\ sess' = [sess EXCEPT ![p] = NewTx]
  BY DEF Answer
<1>2. answer' \in [Callers -> Answers \cup {Pending}] /\ sess' = [q \in Callers |-> sess'[q]]
  BY <1>1 DEF IInv, TypeInv
<1>3. TypeInv'
  BY <1>1, <1>2 DEF IInv, TypeInv
<1>4. sess'[p] = NewTx /\ ~InTx(p)'
  BY <1>1, PendingIsNoAnswer DEF IInv, TypeInv, InTx, Underway
<1>5. \A q \in Callers \ {p} : sess'[q] = sess[q] /\ (InTx(q)' <=> InTx(q))
  BY <1>1 DEF IInv, TypeInv, InTx, Underway
<1>6. SessionInv'
  <2> SUFFICES ASSUME NEW q \in Callers
               PROVE  IF InTx(q)' THEN AtRowOf(call'[q], sess'[q]) /\ Fits(call[q], sess[q])'
                                  ELSE sess'[q] = NewTx
    BY DEF SessionInv, AtRowOf, IsTx, KeysUpTo, RowsUpTo
  <2>1. CASE q = p
    BY <1>4, <2>1
  <2>2. CASE q # p
    BY <1>1, <1>5, <2>2 DEF IInv, SessionInv
  <2> QED BY <2>1, <2>2
<1>7. NewTx.keys = {}
  BY DEF NewTx
<1>8. KeysApart'
  <2>1. \A q, r \in Callers : q # r => sess'[q].keys \cap sess'[r].keys = {}
    BY <1>4, <1>5, <1>7 DEF IInv, KeysApart
  <2>2. \A q \in Callers, o \in orphans' : sess'[q].keys \cap o.tx.keys = {}
    BY <1>4, <1>5, <1>7 DEF IInv, KeysApart
  <2>3. \A o1, o2 \in orphans' :
           o1 # o2 => o1.tx.keys \cap o2.tx.keys = {} /\ o1.slot # o2.slot
    BY DEF IInv, KeysApart
  <2> QED BY <2>1, <2>2, <2>3 DEF KeysApart
<1> QED BY <1>3, <1>6, <1>8 DEF IInv

(* The transaction of p gets on with its Insert. *)
LEMMA AdvanceKeeps ==
    ASSUME IInv, NEW p \in Callers, InTx(p), Free(p),
           UNCHANGED <<users, scounts, members, call, answer, orphans>>,
           NEW tx, sess' = [sess EXCEPT ![p] = tx],
           AtRowOf(call[p], tx), Fits(call[p], tx),
           tx.keys \subseteq sess[p].keys \cup Wants(p)
    PROVE  IInv'
<1>1. sess'[p] = tx /\ \A q \in Callers \ {p} : sess'[q] = sess[q]
  BY DEF IInv, TypeInv
<1>2. TypeInv' /\ Integrity'
  BY DEF IInv, TypeInv, TablesTypeOK, Integrity, Keys, References, UidsOf, SidsOf
<1>3. TableKeys' = TableKeys /\ \A op, row : Referent(op, row)' <=> Referent(op, row)
  BY DEF TableKeys, Referent, UidsOf, SidsOf
<1>4. SessionInv'
  <2>1. \A q \in Callers : InTx(q)' <=> InTx(q)
    BY DEF InTx, Underway
  <2>2. \A q \in Callers : Fits(call[q], sess'[q]) => Fits(call[q], sess[q])'
    BY <1>3 DEF Fits
  <2>3. \A q \in Callers :
           IF InTx(q) THEN AtRowOf(call[q], sess'[q]) /\ Fits(call[q], sess'[q])
                      ELSE sess'[q] = NewTx
    BY <1>1 DEF IInv, SessionInv
  <2> SUFFICES ASSUME NEW q \in Callers
               PROVE  IF InTx(q)' THEN AtRowOf(call'[q], sess'[q]) /\ Fits(call[q], sess[q])'
                                  ELSE sess'[q] = NewTx
    BY DEF SessionInv, AtRowOf, IsTx, KeysUpTo, RowsUpTo
  <2> QED BY <2>1, <2>2, <2>3
<1>5. \A o \in orphans' : OrphanOK(o)'
  BY <1>3 DEF IInv, OrphanOK, Fits
<1>6. Wants(p) \cap KeysOfOthers(p) = {}
  BY DEF Free
<1>7. KeysApart'
  <2>1. \A q \in Callers \ {p} : tx.keys \cap sess[q].keys = {}
    BY <1>6 DEF KeysOfOthers, IInv, KeysApart
  <2>2. \A o \in orphans : tx.keys \cap o.tx.keys = {}
    BY <1>6 DEF KeysOfOthers, OrphanKeys, IInv, KeysApart
  <2> QED BY <1>1, <2>1, <2>2 DEF IInv, KeysApart
<1> QED BY <1>2, <1>4, <1>5, <1>7 DEF IInv

(* No table has changed, so what fitted still fits. *)
LEMMA SameTables ==
    ASSUME UNCHANGED tables
    PROVE  /\ TablesTypeOK => TablesTypeOK'
           /\ Integrity => Integrity'
           /\ \A c, tx : Fits(c, tx) => Fits(c, tx)'
           /\ \A o : OrphanOK(o) => OrphanOK(o)'
<1>1. UNCHANGED <<users, scounts, members>>
  BY DEF tables
<1>2. TableKeys' = TableKeys /\ \A op, row : Referent(op, row)' <=> Referent(op, row)
  BY <1>1 DEF TableKeys, Referent, UidsOf, SidsOf
<1>3. \A c, tx : Fits(c, tx) => Fits(c, tx)'
  BY <1>2 DEF Fits
<1>4. \A o : OrphanOK(o) => OrphanOK(o)'
  BY <1>3 DEF OrphanOK
<1> QED BY <1>1, <1>3, <1>4 DEF TablesTypeOK, Integrity, Keys, References, UidsOf, SidsOf

(* An answer that changes no table. *)
LEMMA PlainAnswerKeeps ==
    ASSUME IInv, NEW p \in Callers, NEW err \in Answers, Answer(p, err),
           UNCHANGED tables, UNCHANGED orphans
    PROVE  IInv'
<1>1. /\ TablesTypeOK' /\ Integrity'
      /\ \A c, tx : Fits(c, tx) => Fits(c, tx)'
      /\ \A o \in orphans' : OrphanOK(o)'
  BY SameTables DEF IInv, TypeInv
<1>2. \A q \in Callers \ {p} : InTx(q) => Fits(call[q], sess[q])'
  <2> SUFFICES ASSUME NEW q \in Callers \ {p}, InTx(q) PROVE Fits(call[q], sess[q])'
    OBVIOUS
  <2>1. call'[q] = call[q] /\ sess'[q] = sess[q]
    BY DEF Answer, IInv, TypeInv
  <2>2. Fits(call[q], sess[q])
    BY DEF IInv, SessionInv
  <2>3. TableKeys' = TableKeys /\ \A op, row : Referent(op, row)' <=> Referent(op, row)
    BY DEF tables, TableKeys, Referent, UidsOf, SidsOf
  <2> QED BY <2>1, <2>2, <2>3 DEF Fits
<1> QED BY <1>1, <1>2, AnswerKeeps

LEMMA ErrorsAreAnswers == Errors \subseteq Answers /\ ErrOther \in Answers
  BY DEF Answers

(* A call of p, or a call that was left behind, changes what it changes    *)
(* with one statement; what others have written fits as before.            *)
LEMMA StatementKeepsFits ==
    ASSUME IInv, NEW c \in Workload, NEW err, Statement(c, err), ~Blocked(c)
    PROVE  /\ TablesTypeOK' /\ Integrity'
           /\ \A q \in Callers : \A d, tx :
                 InTx(q) /\ d = call[q] /\ tx = sess[q] => Fits(d, tx)'
           /\ \A o \in orphans : OrphanOK(o)'
<1>1. Shrunk(c)
  BY StatementShrinks DEF IInv, TypeInv
<1>2. ASSUME NEW q \in Callers, InTx(q), NEW tx, tx = sess[q], NEW d, d = call[q]
      PROVE  Fits(d, tx)'
  <2>1. Fits(d, tx) /\ ~Refers(d.op, tx.rows, c) /\ IsInsert(d) /\ d \in Workload
    BY <1>2 DEF IInv, TypeInv, SessionInv, Blocked, InTx, Underway
  <2> QED BY <1>1, <2>1, FitsAfterStatement
<1>3. ASSUME NEW o \in orphans PROVE OrphanOK(o)'
  <2>1. CASE IsStatement(o.call) /\ o.sent /\ o.tx = NewTx
    BY <2>1 DEF IInv, OrphanOK
  <2>2. CASE ~(IsStatement(o.call) /\ o.sent /\ o.tx = NewTx)
    <3>1. /\ o.call \in Workload /\ IsInsert(o.call) /\ Fits(o.call, o.tx)
          /\ ~Refers(o.call.op, o.tx.rows, c)
      BY <2>2 DEF IInv, OrphanOK, Blocked
    <3>2. Fits(o.call, o.tx)'
      BY <1>1, <3>1, FitsAfterStatement
    <3> QED BY <2>2, <3>2 DEF IInv, OrphanOK
  <2> QED BY <2>1, <2>2
<1> QED BY <1>1, <1>2, <1>3 DEF Shrunk

-----------------------------------------------------------------------------
(* The actions keep the invariant. *)

LEMMA BeginKeeps ==
    ASSUME IInv, NEW p \in Callers, Begin(p)
    PROVE  IInv'
<1>1. PICK c \in Workload : call' = [call EXCEPT ![p] = c]
  BY DEF Begin
<1>2. UNCHANGED tables /\ UNCHANGED <<answer, sess, orphans>> /\ call[p] = NoCall
  BY DEF Begin, tables
<1>3. TypeInv' /\ Integrity' /\ \A o \in orphans' : OrphanOK(o)'
  BY <1>1, <1>2, SameTables DEF IInv, TypeInv
<1>4. ~InTx(p) /\ sess[p] = NewTx
  BY <1>2 DEF IInv, SessionInv, InTx, Underway
<1>5. SessionInv'
  <2> SUFFICES ASSUME NEW q \in Callers
               PROVE  IF InTx(q)' THEN AtRowOf(call'[q], sess[q]) /\ Fits(call[q], sess[q])'
                                  ELSE sess[q] = NewTx
    BY <1>2 DEF SessionInv, AtRowOf, IsTx, KeysUpTo, RowsUpTo
  <2>1. CASE q = p
    <3>1. call'[q] = c
      BY <1>1, <2>1 DEF IInv, TypeInv
    <3>2. IsInsert(c) => AtRowOf(c, NewTx) /\ Fits(c, NewTx)
      BY NewTxFits
    <3>3. IsInsert(c) => Fits(c, NewTx)'
      BY <1>2, <3>2, SameTables
    <3>4. InTx(q)' => IsInsert(c)
      BY <3>1 DEF InTx
    <3>5. Fits(c, NewTx)' => Fits(call[q], sess[q])'
      BY <1>2, <1>4, <2>1, <3>1 DEF Fits
    <3> QED BY <1>4, <2>1, <3>1, <3>2, <3>3, <3>4, <3>5
  <2>2. CASE q # p
    <3>1. call'[q] = call[q] /\ (InTx(q)' <=> InTx(q))
      BY <1>1, <1>2, <2>2 DEF IInv, TypeInv, InTx, Underway
    <3>2. InTx(q) => Fits(call[q], sess[q])'
      <4>1. TableKeys' = TableKeys /\ \A op, row : Referent(op, row)' <=> Referent(op, row)
        BY <1>2 DEF tables, TableKeys, Referent, UidsOf, SidsOf
      <4> QED BY <1>2, <3>1, <4>1 DEF IInv, SessionInv, Fits
    <3> QED BY <3>1, <3>2 DEF IInv, SessionInv
  <2> QED BY <2>1, <2>2
<1>6. KeysApart'
  BY <1>2 DEF IInv, KeysApart
<1> QED BY <1>3, <1>5, <1>6 DEF IInv

LEMMA ReturnKeeps ==
    ASSUME IInv, NEW p \in Callers, Return(p)
    PROVE  IInv'
<1>1. /\ call' = [call EXCEPT ![p] = NoCall] /\ answer' = [answer EXCEPT ![p] = Pending]
      /\ UNCHANGED tables /\ UNCHANGED <<sess, orphans>>
      /\ answer[p] # Pending
  BY DEF Return, tables
<1>2. TypeInv' /\ Integrity' /\ \A o \in orphans' : OrphanOK(o)'
  BY <1>1, SameTables DEF IInv, TypeInv
<1>3. sess[p] = NewTx
  BY <1>1 DEF IInv, SessionInv, InTx, Underway
<1>4. SessionInv'
  <2> SUFFICES ASSUME NEW q \in Callers
               PROVE  IF InTx(q)' THEN AtRowOf(call'[q], sess[q]) /\ Fits(call[q], sess[q])'
                                  ELSE sess[q] = NewTx
    BY <1>1 DEF SessionInv, AtRowOf, IsTx, KeysUpTo, RowsUpTo
  <2>1. CASE q = p
    BY <1>1, <1>3, <2>1 DEF IInv, TypeInv, InTx, Underway
  <2>2. CASE q # p
    <3>1. call'[q] = call[q] /\ (InTx(q)' <=> InTx(q))
      BY <1>1, <2>2 DEF IInv, TypeInv, InTx, Underway
    <3>2. InTx(q) => Fits(call[q], sess[q])'
      <4>1. TableKeys' = TableKeys /\ \A op, row : Referent(op, row)' <=> Referent(op, row)
        BY <1>1 DEF tables, TableKeys, Referent, UidsOf, SidsOf
      <4> QED BY <1>1, <3>1, <4>1 DEF IInv, SessionInv, Fits
    <3> QED BY <3>1, <3>2 DEF IInv, SessionInv
  <2> QED BY <2>1, <2>2
<1>5. KeysApart'
  BY <1>1 DEF IInv, KeysApart
<1> QED BY <1>2, <1>4, <1>5 DEF IInv

LEMMA ExecuteKeeps ==
    ASSUME IInv, NEW p \in Callers, Execute(p)
    PROVE  IInv'
<1>1. PICK err \in Answers :
         /\ Statement(call[p], err) \/ Lookup(call[p], err) \/ Early(call[p], err)
         /\ Answer(p, err)
  BY DEF Execute
<1>2. UNCHANGED orphans /\ ~Blocked(call[p]) /\ call[p] \in Workload
  BY DEF Execute, Underway, IInv, TypeInv
<1>3. CASE Statement(call[p], err)
  <2>1. /\ TablesTypeOK' /\ Integrity'
        /\ \A q \in Callers : \A d, tx :
              InTx(q) /\ d = call[q] /\ tx = sess[q] => Fits(d, tx)'
        /\ \A o \in orphans : OrphanOK(o)'
    BY <1>2, <1>3, StatementKeepsFits
  <2>2. \A q \in Callers \ {p} : InTx(q) => Fits(call[q], sess[q])'
    <3>1. \A q \in Callers \ {p} : call'[q] = call[q] /\ sess'[q] = sess[q]
      BY <1>1 DEF Answer, IInv, TypeInv
    <3> QED BY <2>1, <3>1 DEF Fits
  <2> QED BY <1>1, <1>2, <2>1, <2>2, AnswerKeeps
<1>4. CASE Lookup(call[p], err) \/ Early(call[p], err)
  BY <1>1, <1>2, <1>4, PlainAnswerKeeps DEF Lookup, Early
<1> QED BY <1>1, <1>3, <1>4

LEMMA StartRowKeeps ==
    ASSUME IInv, NEW p \in Callers, StartRow(p)
    PROVE  IInv'
<1> DEFINE c == call[p]
           key == FirstKey(c.op, c.rows[sess[p].next])
           tx == [keys |-> sess[p].keys \cup {key}, rows |-> sess[p].rows,
                  next |-> sess[p].next, half |-> TRUE]
<1>1. /\ InTx(p) /\ ~sess[p].half /\ sess[p].next <= Len(c.rows) /\ Free(p)
      /\ Wants(p) = {key}
  BY DEF StartRow, AtRow, Wants, Row
<1>2. /\ sess' = [sess EXCEPT ![p] = tx]
      /\ UNCHANGED <<users, scounts, members, call, answer, orphans>>
  BY <1>1 DEF StartRow
<1>3. c \in Workload /\ IsInsert(c) /\ AtRowOf(c, sess[p]) /\ Fits(c, sess[p])
  BY <1>1 DEF InTx, Underway, IInv, TypeInv, SessionInv
<1>4. key \notin TableKeys /\ key \notin sess[p].keys
  BY <1>1 DEF Free
<1>5. AtRowOf(c, tx)
  BY <1>1, <1>3, <1>4, RowStarts
<1>6. Fits(c, tx)
  BY <1>3, <1>4 DEF Fits
<1> HIDE DEF tx
<1>7. tx.keys = sess[p].keys \cup Wants(p)
  BY <1>1 DEF tx
<1> QED BY <1>1, <1>2, <1>5, <1>6, <1>7, AdvanceKeeps

LEMMA FinishRowKeeps ==
    ASSUME IInv, NEW p \in Callers, FinishRow(p)
    PROVE  IInv'
<1> DEFINE c == call[p]
           rest == RowKeys(c.op, Row(p)) \ {FirstKey(c.op, Row(p))}
           tx == [keys |-> sess[p].keys \cup rest, rows |-> sess[p].rows \cup {Row(p)},
                  next |-> sess[p].next + 1, half |-> FALSE]
<1>1. /\ InTx(p) /\ sess[p].half /\ Free(p) /\ Referent(c.op, Row(p))
      /\ Wants(p) = rest
  BY DEF FinishRow, AtRow, Wants
<1>2. /\ sess' = [sess EXCEPT ![p] = tx]
      /\ UNCHANGED <<users, scounts, members, call, answer, orphans>>
  BY <1>1 DEF FinishRow, RowWritten, tables
<1>3. c \in Workload /\ IsInsert(c) /\ AtRowOf(c, sess[p]) /\ Fits(c, sess[p])
  BY <1>1 DEF InTx, Underway, IInv, TypeInv, SessionInv
<1>4. rest \cap TableKeys = {} /\ rest \cap sess[p].keys = {}
  BY <1>1 DEF Free
<1>5. AtRowOf(c, tx)
  BY <1>1, <1>3, <1>4, RowFinishes DEF Row
<1>6. Fits(c, tx)
  BY <1>1, <1>3, <1>4 DEF Fits
<1> HIDE DEF tx
<1>7. tx.keys = sess[p].keys \cup Wants(p)
  BY <1>1 DEF tx
<1> QED BY <1>1, <1>2, <1>5, <1>6, <1>7, AdvanceKeeps

LEMMA CommitKeeps ==
    ASSUME IInv, NEW p \in Callers, Commit(p)
    PROVE  IInv'
<1>1. /\ InTx(p) /\ sess[p].next > Len(call[p].rows)
      /\ AddRows(call[p].op, sess[p].rows) /\ Answer(p, Nil) /\ UNCHANGED orphans
  BY DEF Commit, AllWritten
<1>2. /\ call[p] \in Workload /\ IsInsert(call[p])
      /\ AtRowOf(call[p], sess[p]) /\ Fits(call[p], sess[p])
  BY <1>1 DEF InTx, Underway, IInv, TypeInv, SessionInv
<1>3. sess[p].next = Len(call[p].rows) + 1
  BY <1>1, <1>2, InsertRows DEF AtRowOf
<1>4. Grown(sess[p].keys)
  BY <1>1, <1>2, <1>3, CommitGrows DEF IInv, TypeInv
<1>5. \A q \in Callers \ {p} : InTx(q) => Fits(call[q], sess[q])'
  <2> SUFFICES ASSUME NEW q \in Callers \ {p}, InTx(q) PROVE Fits(call[q], sess[q])'
    OBVIOUS
  <2>1. /\ call[q] \in Workload /\ IsInsert(call[q]) /\ Fits(call[q], sess[q])
        /\ sess[q].keys \cap sess[p].keys = {}
    BY DEF InTx, Underway, IInv, TypeInv, SessionInv, KeysApart
  <2>2. \A d, tx : d = call[q] /\ tx = sess[q] => Fits(d, tx)'
    BY <1>4, <2>1, StillFits
  <2>3. call'[q] = call[q] /\ sess'[q] = sess[q]
    BY <1>1 DEF Answer, IInv, TypeInv
  <2> QED BY <2>2, <2>3 DEF Fits
<1>6. \A o \in orphans' : OrphanOK(o)'
  <2> SUFFICES ASSUME NEW o \in orphans PROVE OrphanOK(o)'
    BY <1>1
  <2>1. CASE IsStatement(o.call) /\ o.sent /\ o.tx = NewTx
    BY <2>1 DEF IInv, OrphanOK
  <2>2. CASE ~(IsStatement(o.call) /\ o.sent /\ o.tx = NewTx)
    <3>1. /\ o.call \in Workload /\ IsInsert(o.call) /\ Fits(o.call, o.tx)
          /\ o.tx.keys \cap sess[p].keys = {}
      BY <2>2 DEF IInv, OrphanOK, KeysApart
    <3>2. Fits(o.call, o.tx)'
      BY <1>4, <3>1, StillFits
    <3> QED BY <2>2, <3>2 DEF IInv, OrphanOK
  <2> QED BY <2>1, <2>2
<1>7. TablesTypeOK' /\ Integrity' /\ Nil \in Answers
  BY <1>4, ErrorsAreAnswers DEF Grown, Errors
<1> QED BY <1>1, <1>5, <1>6, <1>7, AnswerKeeps

(* What a failed call leaves behind is in order. *)
LEMMA LeftOK ==
    ASSUME IInv, NEW p \in Callers, Underway(p), NEW o \in Left(p)
    PROVE  /\ OrphanOK(o) /\ o.tx = sess[p] /\ o.call = call[p]
           /\ \A x \in orphans : x.slot # o.slot
<1>1. PICK i \in Slots \ {x.slot : x \in orphans}, s \in BOOLEAN :
         /\ o = [slot |-> i, call |-> call[p], tx |-> sess[p], sent |-> s]
         /\ IF s THEN AllWritten(p) \/ IsStatement(call[p]) ELSE sess[p].keys # {}
  BY DEF Left
<1>2. /\ o.call = call[p] /\ o.tx = sess[p] /\ o.sent = s
      /\ o = [slot |-> o.slot, call |-> o.call, tx |-> o.tx, sent |-> o.sent]
      /\ o.slot \in Slots /\ \A x \in orphans : x.slot # o.slot
  BY <1>1
<1>3. call[p] \in Workload
  BY DEF Underway, IInv, TypeInv
<1>4. CASE InTx(p)
  <2>1. AtRowOf(call[p], sess[p]) /\ Fits(call[p], sess[p])
    BY <1>4 DEF IInv, SessionInv
  <2>2. IsInsert(call[p]) /\ call[p].rows # <<>> /\ ~IsStatement(call[p])
    BY <1>3, <1>4, InsertRows DEF InTx
  <2>3. s => sess[p].next = Len(call[p].rows) + 1
    BY <1>1, <1>3, <2>1, <2>2, InsertRows DEF AllWritten, AtRowOf
  <2> QED BY <1>2, <1>3, <2>1, <2>2, <2>3 DEF OrphanOK
<1>5. CASE ~InTx(p)
  <2>1. sess[p] = NewTx /\ sess[p].keys = {}
    BY <1>5 DEF IInv, SessionInv, NewTx
  <2>2. s /\ IsStatement(call[p])
    BY <1>1, <1>5, <2>1 DEF AllWritten
  <2> QED BY <1>2, <1>3, <2>1, <2>2 DEF OrphanOK
<1> QED BY <1>4, <1>5

LEMMA FailKeeps ==
    ASSUME IInv, NEW p \in Callers, Fail(p)
    PROVE  IInv'
<1>1. /\ Underway(p) /\ Answer(p, ErrOther) /\ ErrOther \in Answers /\ UNCHANGED tables
      /\ orphans' = orphans \/ \E o \in Left(p) : orphans' = orphans \cup {o}
  BY ErrorsAreAnswers DEF Fail, InTx
<1>2. CASE orphans' = orphans
  BY <1>1, <1>2, PlainAnswerKeeps
<1>3. ASSUME NEW o \in Left(p), orphans' = orphans \cup {o}
      PROVE  IInv'
  <2>1. OrphanOK(o) /\ o.tx = sess[p] /\ \A x \in orphans : x.slot # o.slot
    BY <1>1, LeftOK
  <2>2. /\ TablesTypeOK' /\ Integrity'
        /\ \A x \in orphans' : OrphanOK(x)'
    BY <1>1, <1>3, <2>1, SameTables DEF IInv, TypeInv
  <2>3. \A q \in Callers \ {p} : InTx(q) => Fits(call[q], sess[q])'
    <3> SUFFICES ASSUME NEW q \in Callers \ {p}, InTx(q) PROVE Fits(call[q], sess[q])'
      OBVIOUS
    <3>1. call'[q] = call[q] /\ sess'[q] = sess[q]
      BY <1>1 DEF Answer, IInv, TypeInv
    <3>2. \A d, tx : d = call[q] /\ tx = sess[q] => Fits(d, tx)'
      BY <1>1, SameTables DEF IInv, SessionInv
    <3> QED BY <3>1, <3>2 DEF Fits
  <2> QED BY <1>1, <1>3, <2>1, <2>2, <2>3, AnswerKeeps
<1> QED BY <1>1, <1>2, <1>3

(* No call does anything, and what they have written still fits. *)
LEMMA IdleSessions ==
    ASSUME IInv, UNCHANGED <<call, answer, sess>>,
           \A q \in Callers : \A d, tx : InTx(q) /\ d = call[q] /\ tx = sess[q] => Fits(d, tx)'
    PROVE  SessionInv'
<1>1. \A q \in Callers : (InTx(q)' <=> InTx(q))
  BY DEF InTx, Underway
<1>2. \A q \in Callers : InTx(q) => Fits(call[q], sess[q])'
  BY DEF Fits
<1> SUFFICES ASSUME NEW q \in Callers
             PROVE  IF InTx(q)' THEN AtRowOf(call[q], sess[q]) /\ Fits(call[q], sess[q])'
                                ELSE sess[q] = NewTx
  BY DEF SessionInv, AtRowOf, IsTx, KeysUpTo, RowsUpTo
<1> QED BY <1>1, <1>2 DEF IInv, SessionInv

LEMMA OrphanAbortsKeeps ==
    ASSUME IInv, NEW o \in orphans, OrphanAborts(o)
    PROVE  IInv'
<1>1. /\ orphans' = orphans \ {o} /\ UNCHANGED tables
      /\ UNCHANGED <<users, scounts, members, call, answer, sess>>
  BY DEF OrphanAborts, tables
<1>2. TypeInv' /\ Integrity' /\ \A x \in orphans' : OrphanOK(x)'
  BY <1>1, SameTables DEF IInv, TypeInv
<1>3. SessionInv'
  BY <1>1, SameTables, IdleSessions DEF IInv, SessionInv
<1>4. KeysApart'
  BY <1>1 DEF IInv, KeysApart
<1> QED BY <1>2, <1>3, <1>4 DEF IInv

LEMMA OrphanRunsKeeps ==
    ASSUME IInv, NEW o \in orphans, OrphanRuns(o)
    PROVE  IInv'
<1>1. /\ o.sent /\ orphans' = orphans \ {o} /\ UNCHANGED <<call, answer, sess>>
      /\ OrphanOK(o)
  BY DEF OrphanRuns, IInv
<1>2. /\ TablesTypeOK' /\ Integrity'
      /\ \A q \in Callers : \A d, tx : InTx(q) /\ d = call[q] /\ tx = sess[q] => Fits(d, tx)'
      /\ \A x \in orphans' : OrphanOK(x)'
  <2>1. CASE IsInsert(o.call)
    <3>1. /\ o.call \in Workload /\ ~IsStatement(o.call)
          /\ AtRowOf(o.call, o.tx) /\ Fits(o.call, o.tx)
          /\ o.tx.next = Len(o.call.rows) + 1
      BY <1>1, <2>1, InsertRows DEF OrphanOK
    <3>2. AddRows(o.call.op, o.tx.rows)
      BY <2>1 DEF OrphanRuns
    <3>3. Grown(o.tx.keys)
      BY <2>1, <3>1, <3>2, CommitGrows DEF IInv, TypeInv
    <3>4. ASSUME NEW q \in Callers, NEW d, NEW tx, InTx(q), d = call[q], tx = sess[q]
          PROVE  Fits(d, tx)'
      <4>1. d \in Workload /\ IsInsert(d) /\ Fits(d, tx) /\ tx.keys \cap o.tx.keys = {}
        BY <3>4 DEF InTx, Underway, IInv, TypeInv, SessionInv, KeysApart
      <4> QED BY <3>3, <4>1, StillFits
    <3>5. ASSUME NEW x \in orphans' PROVE OrphanOK(x)'
      <4>1. x \in orphans /\ x # o /\ OrphanOK(x)
        BY <1>1 DEF IInv
      <4>2. CASE IsStatement(x.call) /\ x.sent /\ x.tx = NewTx
        BY <4>1, <4>2 DEF OrphanOK
      <4>3. CASE ~(IsStatement(x.call) /\ x.sent /\ x.tx = NewTx)
        <5>1. /\ x.call \in Workload /\ IsInsert(x.call) /\ Fits(x.call, x.tx)
              /\ x.tx.keys \cap o.tx.keys = {}
          BY <4>1, <4>3 DEF IInv, OrphanOK, KeysApart
        <5>2. Fits(x.call, x.tx)'
          BY <3>3, <5>1, StillFits
        <5> QED BY <4>1, <4>3, <5>2 DEF OrphanOK
      <4> QED BY <4>2, <4>3
    <3> QED BY <3>3, <3>4, <3>5 DEF Grown
  <2>2. CASE ~IsInsert(o.call)
    <3>1. PICK err \in Answers : Statement(o.call, err) /\ ~Blocked(o.call)
      BY <2>2 DEF OrphanRuns
    <3>2. o.call \in Workload
      BY <1>1 DEF OrphanOK
    <3> QED BY <1>1, <3>1, <3>2, StatementKeepsFits
  <2> QED BY <2>1, <2>2
<1>3. SessionInv'
  BY <1>1, <1>2, IdleSessions
<1>4. TypeInv' /\ KeysApart'
  BY <1>1, <1>2 DEF IInv, TypeInv, KeysApart
<1> QED BY <1>1, <1>2, <1>3, <1>4 DEF IInv

-----------------------------------------------------------------------------
LEMMA InitEstablishes == Init => IInv
<1> SUFFICES ASSUME Init PROVE IInv
  OBVIOUS
<1>1. TypeInv /\ Integrity
  BY DEF Init, TablesInit, TypeInv, TablesTypeOK, Integrity, Keys, References
<1>2. SessionInv
  BY DEF Init, SessionInv, InTx, Underway
<1>3. KeysApart /\ \A o \in orphans : OrphanOK(o)
  BY DEF Init, KeysApart, NewTx
<1> QED BY <1>1, <1>2, <1>3 DEF IInv

LEMMA NextKeeps == IInv /\ [Next]_vars => IInv'
<1> SUFFICES ASSUME IInv, [Next]_vars PROVE IInv'
  OBVIOUS
<1>1. CASE UNCHANGED vars
  <2>1. UNCHANGED tables /\ UNCHANGED <<call, answer, sess, orphans>>
    BY <1>1 DEF vars, tables
  <2>2. TypeInv' /\ Integrity' /\ \A o \in orphans' : OrphanOK(o)'
    BY <2>1, SameTables DEF IInv, TypeInv
  <2>3. SessionInv'
    BY <2>1, SameTables, IdleSessions DEF IInv, SessionInv
  <2>4. KeysApart'
    BY <2>1 DEF IInv, KeysApart
  <2> QED BY <2>2, <2>3, <2>4 DEF IInv
<1>2. ASSUME NEW p \in Callers, Begin(p) \/ Work(p) \/ Fail(p) \/ Return(p)
      PROVE  IInv'
  <2>1. CASE Begin(p)
    BY <2>1, BeginKeeps
  <2>2. CASE Fail(p)
    BY <2>2, FailKeeps
  <2>3. CASE Return(p)
    BY <2>3, ReturnKeeps
  <2>4. CASE Execute(p)
    BY <2>4, ExecuteKeeps
  <2>5. CASE StartRow(p)
    BY <2>5, StartRowKeeps
  <2>6. CASE FinishRow(p)
    BY <2>6, FinishRowKeeps
  <2>7. CASE Violation(p)
    BY <2>7, PlainAnswerKeeps, ErrorsAreAnswers DEF Violation, tables, Errors
  <2>8. CASE RejectRow(p)
    <3>1. PICK err \in Rejections : Answer(p, err)
      BY <2>8 DEF RejectRow
    <3>2. err \in Answers
      BY RejectionsAreErrors, ErrorsAreAnswers DEF Errors
    <3> QED BY <2>8, <3>1, <3>2, PlainAnswerKeeps DEF RejectRow, tables
  <2>9. CASE Deadlock(p)
    BY <2>9, PlainAnswerKeeps, ErrorsAreAnswers DEF Deadlock, tables
  <2>10. CASE Commit(p)
    BY <2>10, CommitKeeps
  <2> QED BY <1>2, <2>1, <2>2, <2>3, <2>4, <2>5, <2>6, <2>7, <2>8, <2>9, <2>10 DEF Work
<1>3. ASSUME NEW o \in orphans, OrphanAborts(o) \/ OrphanRuns(o)
      PROVE  IInv'
  BY <1>3, OrphanAbortsKeeps, OrphanRunsKeeps
<1> QED BY <1>1, <1>2, <1>3 DEF Next

(* Whatever calls of package db run at the same time, fail or linger, the  *)
(* inductive invariant holds: sessions hold what they have written, no key *)
(* twice, and what they have written fits into the tables.                 *)
THEOREM InvariantHolds == Spec => []IInv
  BY InitEstablishes, NextKeeps, PTL DEF Spec

(* No key is duplicated and no row refers to a row that is gone, though an *)
(* Insert of several rows checks each of them only once, when it comes to  *)
(* it, and commits them later (store.go:97).                               *)
THEOREM IntegrityHolds == Spec => []Integrity
<1>1. IInv => Integrity
  BY DEF IInv
<1> QED BY <1>1, InvariantHolds, PTL

-----------------------------------------------------------------------------
(* Types. *)

(* A row of an Insert, its keys and its first key have their types. *)
LEMMA RowTypes ==
    ASSUME NEW op \in {"InsertUsers", "InsertScounts", "InsertMembers"},
           NEW row \in RowsOf[op]
    PROVE  /\ row \in User \cup Scount \cup Member
           /\ RowKeys(op, row) \subseteq UNION {{"uid"} \X Uids, {"email"} \X Emails,
                                                {"sid"} \X Sids, {"member"} \X Member}
<1>1. CASE op = "InsertUsers"
  BY <1>1 DEF RowsOf, User, RowKeys, UserKeys
<1>2. CASE op = "InsertScounts"
  <2>1. row \in Scount
    BY <1>2 DEF RowsOf
  <2>2. OwnerAsMember(row) \in Member
    BY <2>1 DEF OwnerAsMember, Scount, Member
  <2> QED BY <1>2, <2>1, <2>2 DEF Scount, RowKeys, ScountKeys, MemberKey
<1>3. CASE op = "InsertMembers"
  BY <1>3 DEF RowsOf, RowKeys, MemberKey
<1> QED BY <1>1, <1>2, <1>3

LEMMA SessionTypes ==
    ASSUME NEW c \in Workload, IsInsert(c), NEW tx, AtRowOf(c, tx)
    PROVE  tx \in Transaction
<1>1. /\ c.op \in {"InsertUsers", "InsertScounts", "InsertMembers"}
      /\ c.rows \in Seq(RowsOf[c.op])
  BY InsertRows
<1>2. /\ Len(c.rows) \in Nat /\ tx.next \in Nat \ {0} /\ tx.half \in BOOLEAN
      /\ \A i \in 1 .. Len(c.rows) : c.rows[i] \in RowsOf[c.op]
      /\ \A i \in 1 .. tx.next - 1 : i \in 1 .. Len(c.rows)
      /\ tx.half => tx.next \in 1 .. Len(c.rows)
  BY <1>1 DEF AtRowOf
<1> DEFINE keys == UNION {{"uid"} \X Uids, {"email"} \X Emails,
                          {"sid"} \X Sids, {"member"} \X Member}
<1>3. \A i \in 1 .. Len(c.rows) :
         /\ c.rows[i] \in User \cup Scount \cup Member
         /\ RowKeys(c.op, c.rows[i]) \subseteq keys
         /\ FirstKey(c.op, c.rows[i]) \in keys
  BY <1>1, <1>2, RowTypes, FirstKeyIsKey
<1> HIDE DEF keys
<1>4. tx.keys \subseteq keys
  <2>1. KeysUpTo(c, tx.next - 1) \subseteq keys
    BY <1>2, <1>3 DEF KeysUpTo
  <2> QED BY <1>2, <1>3, <2>1 DEF AtRowOf
<1>5. tx.rows \subseteq User \cup Scount \cup Member
  BY <1>2, <1>3 DEF AtRowOf, RowsUpTo
<1>6. tx = [keys |-> tx.keys, rows |-> tx.rows, next |-> tx.next, half |-> tx.half]
  BY DEF AtRowOf, IsTx
<1>7. [keys |-> tx.keys, rows |-> tx.rows, next |-> tx.next, half |-> tx.half]
        \in [keys : SUBSET keys, rows : SUBSET (User \cup Scount \cup Member),
             next : Nat \ {0}, half : BOOLEAN]
  BY <1>2, <1>4, <1>5
<1> QED BY <1>6, <1>7, Zenon DEF Transaction, keys

LEMMA InvariantTypes == IInv => TxTypeOK
<1> SUFFICES ASSUME IInv PROVE TxTypeOK
  OBVIOUS
<1>1. NewTx \in Transaction
  BY DEF NewTx, Transaction
<1>2. \A p \in Callers : sess[p] \in Transaction /\ (sess[p] # NewTx => InTx(p))
  BY <1>1, SessionTypes DEF IInv, TypeInv, SessionInv, InTx, Underway
<1>3. sess \in [Callers -> Transaction]
  <2>1. sess = [p \in Callers |-> sess[p]]
    BY DEF IInv, TypeInv
  <2> QED BY <1>2, <2>1
<1>4. \A o \in orphans : o \in Orphan
  <2> SUFFICES ASSUME NEW o \in orphans PROVE o \in Orphan
    OBVIOUS
  <2>1. o.tx \in Transaction
    BY <1>1, SessionTypes DEF IInv, OrphanOK
  <2>2. /\ o = [slot |-> o.slot, call |-> o.call, tx |-> o.tx, sent |-> o.sent]
        /\ o.slot \in Slots /\ o.call \in Workload /\ o.sent \in BOOLEAN
    BY DEF IInv, OrphanOK
  <2> QED BY <2>1, <2>2, Zenon DEF Orphan
<1> QED BY <1>2, <1>3, <1>4 DEF TxTypeOK, IInv, TypeInv, KeysApart

(* Types of the variables; only a call in a transaction holds a session,   *)
(* and what failed calls leave behind is one session per slot.             *)
THEOREM TypesHold == Spec => []TxTypeOK
  BY InvariantTypes, InvariantHolds, PTL

-----------------------------------------------------------------------------
(* Transactions implements Collections.  An instance has its own copy of   *)
(* every operator Collections extends: first, the copies are the originals *)

LEMMA SameWords ==
    /\ Abstract!Pending = Pending /\ Abstract!NoCall = NoCall
    /\ Abstract!Answers = Answers /\ Abstract!ErrOther = ErrOther
    /\ Abstract!TablesInit <=> TablesInit
    /\ \A c : Abstract!IsInsert(c) <=> IsInsert(c)
    /\ \A p : Abstract!Underway(p) <=> Underway(p)
<1>1. Abstract!Answers = Answers
  BY DEF Answers, Errors, ErrRejected, Nil, ErrNoRows, ErrConflict, ErrInvalidData,
         ErrSyntaxPrivilege, ErrNil, ErrUnsupported, ErrOther,
         Abstract!Answers, Abstract!Errors, Abstract!ErrRejected, Abstract!Nil,
         Abstract!ErrNoRows, Abstract!ErrConflict, Abstract!ErrInvalidData,
         Abstract!ErrSyntaxPrivilege, Abstract!ErrNil, Abstract!ErrUnsupported,
         Abstract!ErrOther
<1>2. Abstract!TablesInit <=> TablesInit
  BY DEF TablesInit, Abstract!TablesInit
<1>3. \A c : Abstract!IsInsert(c) <=> IsInsert(c)
  <2>1. DOMAIN RowsOf = {"InsertUsers", "InsertScounts", "InsertMembers"}
    BY DEF RowsOf
  <2>2. DOMAIN Abstract!RowsOf = {"InsertUsers", "InsertScounts", "InsertMembers"}
    BY DEF Abstract!RowsOf
  <2> QED BY <2>1, <2>2 DEF IsInsert, Abstract!IsInsert
<1> QED BY <1>1, <1>2, <1>3
        DEF Pending, Abstract!Pending, NoCall, Abstract!NoCall,
            ErrOther, Abstract!ErrOther, Underway, Abstract!Underway

LEMMA SameErrors ==
    /\ Abstract!Nil = Nil /\ Abstract!ErrNoRows = ErrNoRows
    /\ Abstract!ErrConflict = ErrConflict /\ Abstract!ErrNil = ErrNil
    /\ Abstract!ErrUnsupported = ErrUnsupported
    /\ Abstract!ErrSyntaxPrivilege = ErrSyntaxPrivilege
    /\ \A err : Abstract!Rejected(err) <=> Rejected(err)
    /\ \A rows : Abstract!UidsOf(rows) = UidsOf(rows) /\ Abstract!SidsOf(rows) = SidsOf(rows)
BY DEF Nil, ErrNoRows, ErrConflict, ErrNil, ErrUnsupported, ErrSyntaxPrivilege,
       Rejected, tables, UidsOf, SidsOf,
       Abstract!Nil, Abstract!ErrNoRows, Abstract!ErrConflict, Abstract!ErrNil,
       Abstract!ErrUnsupported, Abstract!ErrSyntaxPrivilege, Abstract!Rejected,
       Abstract!tables, Abstract!UidsOf, Abstract!SidsOf

LEMMA SameStatement ==
    ASSUME NEW c, NEW err
    PROVE  Abstract!Statement(c, err) <=> Statement(c, err)
<1>1. Abstract!UserDelete(c.uid, err) <=> UserDelete(c.uid, err)
  BY SameErrors DEF UserDelete, tables, Abstract!UserDelete, Abstract!tables
<1>2. Abstract!UserUpdate(c.uid, c.name, err) <=> UserUpdate(c.uid, c.name, err)
  BY SameErrors DEF UserUpdate, tables, Abstract!UserUpdate, Abstract!tables
<1>3. Abstract!UserUpdatePassword(c.uid, c.old, c.new, err)
        <=> UserUpdatePassword(c.uid, c.old, c.new, err)
  BY SameErrors DEF UserUpdatePassword, tables, Abstract!UserUpdatePassword, Abstract!tables
<1>4. Abstract!ScountDelete(c.sid, err) <=> ScountDelete(c.sid, err)
  BY SameErrors DEF ScountDelete, tables, Abstract!ScountDelete, Abstract!tables
<1>5. Abstract!ScountUpdate(c.sid, c.owner, c.title, err)
        <=> ScountUpdate(c.sid, c.owner, c.title, err)
  BY SameErrors DEF ScountUpdate, tables, UpdateColumns, IsSql, Abstract!ScountUpdate,
                    Abstract!tables, Abstract!UpdateColumns, Abstract!IsSql
<1>6. Abstract!MemberDelete(c.member, err) <=> MemberDelete(c.member, err)
  BY SameErrors DEF MemberDelete, tables, Abstract!MemberDelete, Abstract!tables
<1> QED BY <1>1, <1>2, <1>3, <1>4, <1>5, <1>6 DEF Statement, Abstract!Statement

LEMMA SameLookup ==
    ASSUME NEW c, NEW err
    PROVE  /\ Abstract!Lookup(c, err) <=> Lookup(c, err)
           /\ Abstract!Early(c, err) <=> Early(c, err)
<1>1. Abstract!Found(c) <=> Found(c)
  BY SameErrors
     DEF Found, UserFound, UserFoundByEmail, ScountFound, MemberFound, Abstract!Found,
         Abstract!UserFound, Abstract!UserFoundByEmail, Abstract!ScountFound,
         Abstract!MemberFound
<1> QED BY <1>1, SameErrors, SameWords
        DEF Lookup, Early, tables, Abstract!Lookup, Abstract!Early, Abstract!tables

LEMMA SameInsertAll ==
    ASSUME NEW c, NEW err
    PROVE  Abstract!InsertAll(c, err) <=> InsertAll(c, err)
<1>1. \A row : /\ Abstract!RowKeys(c.op, row) = RowKeys(c.op, row)
               /\ Abstract!Referent(c.op, row) <=> Referent(c.op, row)
  BY SameErrors
     DEF RowKeys, UserKeys, ScountKeys, MemberKey, OwnerAsMember, Referent,
         Abstract!RowKeys, Abstract!UserKeys, Abstract!ScountKeys, Abstract!MemberKey,
         Abstract!OwnerAsMember, Abstract!Referent
<1>2. Abstract!TableKeys = TableKeys
  BY DEF TableKeys, UserKeys, MemberKey,
         Abstract!TableKeys, Abstract!UserKeys, Abstract!MemberKey
<1>3. Abstract!Insertable(c) <=> Insertable(c)
  BY <1>1, <1>2 DEF Insertable, Abstract!Insertable
<1>4. Abstract!AddRows(c.op, Abstract!RowSet(c)) <=> AddRows(c.op, RowSet(c))
  BY DEF AddRows, RowSet, OwnerAsMember,
         Abstract!AddRows, Abstract!RowSet, Abstract!OwnerAsMember
<1> QED BY <1>3, <1>4, SameErrors
        DEF InsertAll, tables, Abstract!InsertAll, Abstract!tables

(* What a call does, as Collections says and as Transactions says. *)
LEMMA SameEffect ==
    ASSUME NEW c, NEW err
    PROVE  Abstract!Effect(c, err) <=>
              \/ IsInsert(c) /\ c.rows # <<>> /\ InsertAll(c, err)
              \/ Statement(c, err) \/ Lookup(c, err) \/ Early(c, err)
BY SameWords, SameStatement, SameLookup, SameInsertAll DEF Abstract!Effect

-----------------------------------------------------------------------------
(* Then, each step is a step of Collections or none. *)

(* Of the calls of a transaction only the last step, or the error, shows.  *)
LEMMA HiddenStep ==
    ASSUME UNCHANGED <<users, scounts, members, call, answer, orphans>>
    PROVE  UNCHANGED Abstract!cvars
BY DEF Late, Abstract!cvars

(* The call of p is answered, having done to the tables what it may do.    *)
LEMMA PerformStep ==
    ASSUME IInv, NEW p \in Callers, Underway(p), NEW err \in Answers, Answer(p, err),
           UNCHANGED orphans,
           \/ IsInsert(call[p]) /\ call[p].rows # <<>> /\ InsertAll(call[p], err)
           \/ Statement(call[p], err) \/ Lookup(call[p], err) \/ Early(call[p], err)
    PROVE  Abstract!Perform(p)
<1>1. Abstract!Underway(p) /\ err \in Abstract!Answers /\ Abstract!Effect(call[p], err)
  BY SameWords, SameEffect
<1>2. answer' = [answer EXCEPT ![p] = err] /\ UNCHANGED call /\ UNCHANGED Late
  BY DEF Answer, Late
<1> QED BY <1>1, <1>2 DEF Abstract!Perform

(* An Insert that is told of a conflict could not have been carried out.   *)
LEMMA ViolationIsConflict ==
    ASSUME IInv, NEW p \in Callers, Violates(p)
    PROVE  ~Insertable(call[p])
<1> DEFINE c == call[p]
           n == sess[p].next
<1>1. /\ c \in Workload /\ IsInsert(c) /\ AtRowOf(c, sess[p])
      /\ n \in 1 .. Len(c.rows) /\ DOMAIN c.rows = 1 .. Len(c.rows)
  <2>1. c \in Workload /\ IsInsert(c) /\ AtRowOf(c, sess[p]) /\ n <= Len(c.rows)
    BY DEF Violates, AtRow, InTx, Underway, IInv, TypeInv, SessionInv
  <2>2. c.rows \in Seq(RowsOf[c.op])
    BY <2>1, InsertRows
  <2>3. n \in 1 .. Len(c.rows) + 1 /\ Len(c.rows) \in Nat /\ DOMAIN c.rows = 1 .. Len(c.rows)
    BY <2>1, <2>2 DEF AtRowOf
  <2> HIDE DEF n
  <2> QED BY <2>1, <2>3
<1>2. Row(p) = c.rows[n] /\ Wants(p) \subseteq RowKeys(c.op, c.rows[n])
  <2>1. FirstKey(c.op, c.rows[n]) \in RowKeys(c.op, c.rows[n])
    BY <1>1, InsertRows, FirstKeyIsKey
  <2> QED BY <2>1 DEF Wants, Row
<1>3. CASE Wants(p) \cap TableKeys # {}
  BY <1>1, <1>2, <1>3 DEF Insertable
<1>4. CASE Wants(p) \cap sess[p].keys # {}
  <2>1. Wants(p) \cap KeysUpTo(c, n - 1) # {}
    BY <1>1, <1>4 DEF AtRowOf, Wants, Row
  <2>2. PICK i \in 1 .. n - 1 : RowKeys(c.op, c.rows[i]) \cap RowKeys(c.op, c.rows[n]) # {}
    BY <1>2, <2>1 DEF KeysUpTo
  <2>3. i \in DOMAIN c.rows /\ n \in DOMAIN c.rows /\ i # n
    BY <1>1, InsertRows
  <2> QED BY <2>2, <2>3 DEF Insertable
<1>5. CASE ~Referent(c.op, Row(p))
  BY <1>1, <1>2, <1>5 DEF Insertable
<1> QED BY <1>3, <1>4, <1>5 DEF Violates

LEMMA FailStep ==
    ASSUME IInv, NEW p \in Callers, Fail(p)
    PROVE  Abstract!Fail(p)
<1>1. /\ Underway(p) /\ answer' = [answer EXCEPT ![p] = ErrOther]
      /\ UNCHANGED <<users, scounts, members, call>>
      /\ orphans' = orphans \/ \E o \in Left(p) : orphans' = orphans \cup {o}
  BY DEF Fail, InTx, Answer, tables
<1>2. \/ UNCHANGED Late
      \/ \E i \in Slots : /\ \A l \in Late : l.slot # i
                          /\ Late' = Late \cup {[slot |-> i, call |-> call[p]]}
  <2>1. CASE orphans' = orphans
    BY <2>1 DEF Late
  <2>2. ASSUME NEW o \in Left(p), orphans' = orphans \cup {o}
        PROVE  \/ UNCHANGED Late
               \/ \E i \in Slots : /\ \A l \in Late : l.slot # i
                                   /\ Late' = Late \cup {[slot |-> i, call |-> call[p]]}
    <3>1. /\ o.slot \in Slots /\ o.call = call[p] /\ o.sent \in BOOLEAN
          /\ \A x \in orphans : x.slot # o.slot
      BY <1>1, LeftOK DEF OrphanOK
    <3>2. CASE o.sent
      <4>1. Late' = Late \cup {[slot |-> o.slot, call |-> call[p]]}
        BY <2>2, <3>1, <3>2 DEF Late
      <4>2. \A l \in Late : l.slot # o.slot
        BY <3>1 DEF Late
      <4> QED BY <3>1, <4>1, <4>2
    <3>3. CASE ~o.sent
      BY <2>2, <3>3 DEF Late
    <3> QED BY <3>2, <3>3
  <2> QED BY <1>1, <2>1, <2>2
<1> QED BY <1>1, <1>2, SameWords DEF Abstract!Fail

(* What an orphan was is no longer to be expected. *)
LEMMA OrphanGone ==
    ASSUME IInv, NEW o \in orphans, orphans' = orphans \ {o}
    PROVE  /\ o.sent => /\ [slot |-> o.slot, call |-> o.call] \in Late
                        /\ Late' = Late \ {[slot |-> o.slot, call |-> o.call]}
           /\ ~o.sent => Late' = Late
<1>1. \A x \in orphans : x # o => x.slot # o.slot
  BY DEF IInv, KeysApart
<1> QED BY <1>1 DEF Late

LEMMA OrphanStep ==
    ASSUME IInv, NEW o \in orphans, OrphanAborts(o) \/ OrphanRuns(o)
    PROVE  \/ UNCHANGED Abstract!cvars
           \/ \E l \in Late : Abstract!PerformLate(l) \/ Abstract!Forget(l)
<1> DEFINE l == [slot |-> o.slot, call |-> o.call]
<1>1. CASE OrphanAborts(o)
  <2>1. orphans' = orphans \ {o} /\ UNCHANGED <<users, scounts, members, call, answer>>
    BY <1>1 DEF OrphanAborts
  <2>2. CASE o.sent
    BY <2>1, <2>2, OrphanGone DEF Abstract!Forget
  <2>3. CASE ~o.sent
    BY <2>1, <2>3, OrphanGone DEF Abstract!cvars
  <2> QED BY <2>2, <2>3
<1>2. CASE OrphanRuns(o)
  <2>1. o.sent /\ orphans' = orphans \ {o} /\ UNCHANGED <<call, answer>> /\ OrphanOK(o)
    BY <1>2 DEF OrphanRuns, IInv
  <2>2. \E err \in Abstract!Answers : Abstract!Effect(l.call, err)
    <3>1. CASE IsInsert(o.call)
      <4>1. /\ o.call \in Workload /\ ~IsStatement(o.call) /\ o.call.rows # <<>>
            /\ AtRowOf(o.call, o.tx) /\ Fits(o.call, o.tx)
            /\ o.tx.next = Len(o.call.rows) + 1
        BY <2>1, <3>1, InsertRows DEF OrphanOK
      <4>2. AddRows(o.call.op, o.tx.rows)
        BY <1>2, <3>1 DEF OrphanRuns
      <4>3. Insertable(o.call) /\ o.tx.rows = RowSet(o.call)
        BY <3>1, <4>1, <4>2, CommitGrows DEF IInv, TypeInv
      <4>4. InsertAll(o.call, Nil)
        BY <4>2, <4>3 DEF InsertAll
      <4>5. Nil \in Answers
        BY ErrorsAreAnswers DEF Errors
      <4> QED BY <3>1, <4>1, <4>4, <4>5, SameEffect, SameWords
    <3>2. CASE ~IsInsert(o.call)
      BY <1>2, <3>2, SameEffect, SameWords DEF OrphanRuns
    <3> QED BY <3>1, <3>2
  <2>3. l \in Late /\ Late' = Late \ {l}
    BY <2>1, OrphanGone
  <2> QED BY <2>1, <2>2, <2>3 DEF Abstract!PerformLate
<1> QED BY <1>1, <1>2

(* The steps of a call. *)
LEMMA WorkStep ==
    ASSUME IInv, NEW p \in Callers, Work(p)
    PROVE  \/ UNCHANGED Abstract!cvars
           \/ Abstract!Perform(p) \/ Abstract!Fail(p)
<1>1. CASE Execute(p)
  <2>1. PICK err \in Answers :
           /\ Statement(call[p], err) \/ Lookup(call[p], err) \/ Early(call[p], err)
           /\ Answer(p, err)
    BY <1>1 DEF Execute
  <2>2. Underway(p) /\ UNCHANGED orphans
    BY <1>1 DEF Execute
  <2> QED BY <2>1, <2>2, PerformStep
<1>2. CASE StartRow(p) \/ FinishRow(p)
  BY <1>2, HiddenStep DEF StartRow, FinishRow, RowWritten, tables
<1>3. CASE Violation(p)
  <2>1. /\ Answer(p, ErrConflict) /\ UNCHANGED tables /\ UNCHANGED orphans
        /\ Underway(p) /\ IsInsert(call[p]) /\ call[p].rows # <<>> /\ Violates(p)
    BY <1>3 DEF Violation, Violates, AtRow, InTx, tables
  <2>2. InsertAll(call[p], ErrConflict) /\ ErrConflict \in Answers
    BY <2>1, ViolationIsConflict, ErrorsAreAnswers DEF InsertAll, Errors
  <2> QED BY <2>1, <2>2, PerformStep
<1>4. CASE RejectRow(p)
  <2>1. PICK err \in Rejections : Answer(p, err)
    BY <1>4 DEF RejectRow
  <2>2. /\ UNCHANGED tables /\ UNCHANGED orphans
        /\ Underway(p) /\ IsInsert(call[p]) /\ call[p].rows # <<>>
    BY <1>4 DEF RejectRow, AtRow, InTx, tables
  <2>3. InsertAll(call[p], err) /\ err \in Answers
    BY <2>2, RejectionsAreErrors, ErrorsAreAnswers DEF InsertAll, Rejected, Errors
  <2> QED BY <2>1, <2>2, <2>3, PerformStep
<1>5. CASE Deadlock(p)
  <2>1. /\ Answer(p, ErrOther) /\ UNCHANGED <<users, scounts, members, orphans>>
        /\ Underway(p)
    BY <1>5 DEF Deadlock, Cycle, WaitsFor, AtRow, InTx
  <2>2. /\ answer' = [answer EXCEPT ![p] = ErrOther]
        /\ UNCHANGED <<users, scounts, members, call>> /\ UNCHANGED Late
    BY <2>1 DEF Answer, Late
  <2> QED BY <2>1, <2>2, SameWords DEF Abstract!Fail
<1>6. CASE Commit(p)
  <2>1. /\ InTx(p) /\ sess[p].next > Len(call[p].rows)
        /\ AddRows(call[p].op, sess[p].rows) /\ Answer(p, Nil) /\ UNCHANGED orphans
    BY <1>6 DEF Commit, AllWritten
  <2>2. /\ call[p] \in Workload /\ IsInsert(call[p]) /\ call[p].rows # <<>> /\ Underway(p)
        /\ AtRowOf(call[p], sess[p]) /\ Fits(call[p], sess[p])
    BY <2>1 DEF InTx, Underway, IInv, TypeInv, SessionInv
  <2>3. sess[p].next = Len(call[p].rows) + 1
    BY <2>1, <2>2, InsertRows DEF AtRowOf
  <2>4. Insertable(call[p]) /\ sess[p].rows = RowSet(call[p])
    BY <2>1, <2>2, <2>3, CommitGrows DEF IInv, TypeInv
  <2>5. InsertAll(call[p], Nil) /\ Nil \in Answers
    BY <2>1, <2>4, ErrorsAreAnswers DEF InsertAll, Errors
  <2> QED BY <2>1, <2>2, <2>5, PerformStep
<1> QED BY <1>1, <1>2, <1>3, <1>4, <1>5, <1>6 DEF Work

LEMMA InitMaps == Init => Abstract!CInit
  BY SameWords DEF Init, Late, Abstract!CInit

LEMMA StepMaps == IInv /\ [Next]_vars => [Abstract!CNext]_Abstract!cvars
<1> SUFFICES ASSUME IInv, [Next]_vars
             PROVE  Abstract!CNext \/ UNCHANGED Abstract!cvars
  OBVIOUS
<1>1. CASE UNCHANGED vars
  BY <1>1, HiddenStep DEF vars
<1>2. ASSUME NEW p \in Callers, Begin(p)
      PROVE  Abstract!Begin(p)
  BY <1>2, SameWords DEF Begin, Late, Abstract!Begin
<1>3. ASSUME NEW p \in Callers, Return(p)
      PROVE  Abstract!Return(p)
  BY <1>3, SameWords DEF Return, Late, Abstract!Return
<1> QED BY <1>1, <1>2, <1>3, WorkStep, FailStep, OrphanStep DEF Next, Abstract!CNext

(* Each call of package db takes effect in one step between its arrival    *)
(* and its answer, whatever runs at the same time and whatever connection  *)
(* fails: a transaction per Insert (store.go:97), and one statement for    *)
(* every other call, implement the promise of db.Collection.               *)
THEOREM AtomicityHolds == Spec => CallsAtomic
<1>1. Abstract!CInit /\ [][Abstract!CNext]_Abstract!cvars => CallsAtomic
  BY PTL DEF CallsAtomic, Abstract!CSpec
<1>2. Spec => Abstract!CInit /\ [][Abstract!CNext]_Abstract!cvars
  BY InitMaps, StepMaps, InvariantHolds, PTL DEF Spec
<1> QED BY <1>1, <1>2

=============================================================================
