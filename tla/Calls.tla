-------------------------------- MODULE Calls --------------------------------
(***************************************************************************)
(* The calls of package db that change one of its collections or look up   *)
(* one row, and what each does to the tables when nothing else runs.       *)
(***************************************************************************)
EXTENDS Tables, Naturals, Sequences, FiniteSets

CONSTANTS
    Callers,     \* the goroutines that call package db
    Workload,    \* the calls they make
    Slots        \* bound: how many failed calls may not be over at once

-----------------------------------------------------------------------------
(* Calls.  Insert takes several rows.  NilId stands for a call of a method *)
(* that takes an id or an updater with a nil pointer for it, UpdateMember  *)
(* for MemberCollection.UpdateOne, whatever the arguments.                 *)

RowsOf == [InsertUsers |-> User, InsertScounts |-> Scount, InsertMembers |-> Member]

IsInsert(c) == c.op \in DOMAIN RowsOf

Statements ==
    [op : {"DeleteUser"}, uid : Uids] \cup
    [op : {"UpdateUser"}, uid : Uids, name : Names \cup {None}] \cup
    [op : {"UpdatePassword"}, uid : Uids, old : Hash, new : Hash] \cup
    [op : {"DeleteScount"}, sid : Sids] \cup
    [op : {"UpdateScount"}, sid : Sids,
     owner : Uids \cup {None}, title : Titles \cup {None}] \cup
    [op : {"DeleteMember"}, member : Member]

Lookups ==
    [op : {"FindUser"}, uid : Uids] \cup [op : {"FindByEmail"}, email : Emails] \cup
    [op : {"FindScount"}, sid : Sids] \cup [op : {"FindMember"}, member : Member]

Others == [op : {"NilId", "UpdateMember"}]

NoCall == [op |-> "none"]

ASSUME WorkloadOfCalls ==
    \A c \in Workload :
        \/ c.op \in DOMAIN RowsOf /\ c \in [op : {c.op}, rows : Seq(RowsOf[c.op])]
        \/ c \in Statements \cup Lookups \cup Others

(* The answer is the error of the call; the row a look-up finds is left    *)
(* out.  ErrOther is an error that is none of package db's own.            *)
Pending == "pending"
ErrNil == "ErrNil"
ErrUnsupported == "ErrUnsupported"
ErrOther == "other"
Answers == Errors \cup {ErrNil, ErrUnsupported, ErrOther}

-----------------------------------------------------------------------------
(* Keys: the entries of the unique indexes of init.sql. *)

UserKeys(u) == {<<"uid", u.uid>>, <<"email", u.email>>}
MemberKey(m) == <<"member", m>>
OwnerAsMember(s) == [sid |-> s.sid, uid |-> s.owner]
ScountKeys(s) == {<<"sid", s.sid>>, MemberKey(OwnerAsMember(s))}

(* The keys a row of an Insert of kind op takes. *)
RowKeys(op, row) ==
    CASE op = "InsertUsers" -> UserKeys(row)
      [] op = "InsertScounts" -> ScountKeys(row)
      [] op = "InsertMembers" -> {MemberKey(row)}

(* The keys of the rows that are in the tables. *)
TableKeys ==
    (UNION {UserKeys(u) : u \in users}) \cup
    {<<"sid", s.sid>> : s \in scounts} \cup
    {MemberKey(m) : m \in members}

(* The rows that the FOREIGN KEYs of a row of an Insert name exist. *)
Referent(op, row) ==
    CASE op = "InsertUsers" -> TRUE
      [] op = "InsertScounts" -> row.owner \in UidsOf(users)
      [] op = "InsertMembers" -> row.sid \in SidsOf(scounts) /\ row.uid \in UidsOf(users)

(* The tables with a set of rows added. *)
AddRows(op, rows) ==
    /\ users' = IF op = "InsertUsers" THEN users \cup rows ELSE users
    /\ scounts' = IF op = "InsertScounts" THEN scounts \cup rows ELSE scounts
    /\ members' = CASE op = "InsertScounts" -> members \cup {OwnerAsMember(s) : s \in rows}
                    [] op = "InsertMembers" -> members \cup rows
                    [] OTHER -> members

-----------------------------------------------------------------------------
(* All rows of an Insert fit into the tables and beside each other. *)
Insertable(c) ==
    /\ \A i \in DOMAIN c.rows : /\ RowKeys(c.op, c.rows[i]) \cap TableKeys = {}
                                /\ Referent(c.op, c.rows[i])
    /\ \A i, j \in DOMAIN c.rows :
          i # j => RowKeys(c.op, c.rows[i]) \cap RowKeys(c.op, c.rows[j]) = {}

RowSet(c) == {c.rows[i] : i \in DOMAIN c.rows}

(* Insert of several rows: all of them, or an error and none.              *)
InsertAll(c, err) ==
    \/ err = Nil /\ Insertable(c) /\ AddRows(c.op, RowSet(c))
    \/ err = ErrConflict /\ ~Insertable(c) /\ UNCHANGED tables
    \/ Rejected(err)

(* DeleteOne, UpdateOne and UpdatePassword: one statement, no transaction. *)
Statement(c, err) ==
    \/ c.op = "DeleteUser" /\ UserDelete(c.uid, err)
    \/ c.op = "UpdateUser" /\ UserUpdate(c.uid, c.name, err)
    \/ c.op = "UpdatePassword" /\ UserUpdatePassword(c.uid, c.old, c.new, err)
    \/ c.op = "DeleteScount" /\ ScountDelete(c.sid, err)
    \/ c.op = "UpdateScount" /\ ScountUpdate(c.sid, c.owner, c.title, err)
    \/ c.op = "DeleteMember" /\ MemberDelete(c.member, err)

IsStatement(c) ==
    c.op \in {"DeleteUser", "UpdateUser", "UpdatePassword",
              "DeleteScount", "UpdateScount", "DeleteMember"}

(* FindOne and FindByEmail: sql.ErrNoRows becomes ErrNoRows. *)
UserFound(uid) == uid \in UidsOf(users)
UserFoundByEmail(email) == \E u \in users : u.email = email
ScountFound(sid) == sid \in SidsOf(scounts)
MemberFound(m) == m \in members

Found(c) ==
    \/ c.op = "FindUser" /\ UserFound(c.uid)
    \/ c.op = "FindByEmail" /\ UserFoundByEmail(c.email)
    \/ c.op = "FindScount" /\ ScountFound(c.sid)
    \/ c.op = "FindMember" /\ MemberFound(c.member)

Lookup(c, err) ==
    /\ c.op \in {"FindUser", "FindByEmail", "FindScount", "FindMember"}
    /\ err = IF Found(c) THEN Nil ELSE ErrNoRows
    /\ UNCHANGED tables

(* The calls that are answered before they reach the database.             *)
Early(c, err) ==
    /\ \/ IsInsert(c) /\ c.rows = <<>> /\ err = ErrNoRows
       \/ c.op = "NilId" /\ err = ErrNil
       \/ c.op = "UpdateMember" /\ err = ErrUnsupported
    /\ UNCHANGED tables

=============================================================================
