------------------------------- MODULE Tables -------------------------------
(***************************************************************************)
(* The three PostgreSQL tables of db/postgres/init.sql and the statements  *)
(* that db/postgres/users.go, scounts.go and members.go run on them.       *)
(*                                                                         *)
(* A table is a set of rows.  A statement is an action that relates the    *)
(* tables before it, the tables after it and `err`, the error the method   *)
(* of the collection returns: every error of db/store.go that a statement  *)
(* can be answered with.  That no answer comes is for the caller to model. *)
(* The description of a scount is left out: it is written once, never      *)
(* updated and never compared.                                             *)
(***************************************************************************)
CONSTANTS
    Uids, Emails, Names,     \* what identifies and what names a user
    Passwords, Salts,        \* a bcrypt hash is a password and a salt
    Sids, Titles,            \* what identifies and what names a scount
    None,                    \* the empty string: a field that is not set
    Rejections               \* the errors PostgreSQL rejects statements with

ASSUME NoneIsNoValue == None \notin Uids \cup Names \cup Sids \cup Titles

VARIABLES
    users,      \* the rows of table users
    scounts,    \* the rows of table scounts
    members     \* the rows of table members

tables == <<users, scounts, members>>

-----------------------------------------------------------------------------
(* Rows. *)

Hash == [plain : Passwords, salt : Salts]
User == [uid : Uids, email : Emails, username : Names, password : Hash]
Scount == [sid : Sids, owner : Uids, title : Titles \cup {None}]
Member == [sid : Sids, uid : Uids]

TablesTypeOK ==
    /\ users \subseteq User
    /\ scounts \subseteq Scount
    /\ members \subseteq Member

TablesInit == users = {} /\ scounts = {} /\ members = {}

UidsOf(rows) == {u.uid : u \in rows}
SidsOf(rows) == {s.sid : s \in rows}

-----------------------------------------------------------------------------
(* Errors.  Nil is Go's nil error; ErrRejected are the two classes of SQL  *)
(* error that depend on the statement, its arguments and the privileges it *)
(* runs with, but not on the rows (22: data exception, 42: syntax error or *)
(* access rule violation).                                                 *)

Nil == "nil"
ErrNoRows == "ErrNoRows"
ErrConflict == "ErrConflict"
ErrInvalidData == "ErrInvalidData"
ErrSyntaxPrivilege == "ErrSyntaxPrivilege"

ErrRejected == {ErrInvalidData, ErrSyntaxPrivilege}
Errors == {Nil, ErrNoRows, ErrConflict} \cup ErrRejected

ASSUME RejectionsAreErrors == Rejections \subseteq ErrRejected

(* A statement that PostgreSQL rejects changes nothing. *)
Rejected(err) == err \in Rejections /\ UNCHANGED tables

-----------------------------------------------------------------------------
(* Table users. *)

(* UserCollection.Insert of one row: PRIMARY KEY (uid), UNIQUE (email). *)
UserInsert(u, err) ==
    \/ /\ err = Nil
       /\ \A v \in users : v.uid # u.uid /\ v.email # u.email
       /\ users' = users \cup {u}
       /\ UNCHANGED <<scounts, members>>
    \/ /\ err = ErrConflict
       /\ \E v \in users : v.uid = u.uid \/ v.email = u.email
       /\ UNCHANGED tables
    \/ Rejected(err)

(* UserCollection.DeleteOne: refused while a scount or a member names uid. *)
UserDelete(uid, err) ==
    \/ /\ err = Nil
       /\ uid \in UidsOf(users)
       /\ \A s \in scounts : s.owner # uid
       /\ \A m \in members : m.uid # uid
       /\ users' = {u \in users : u.uid # uid}
       /\ UNCHANGED <<scounts, members>>
    \/ /\ err = ErrConflict
       /\ uid \in UidsOf(users)
       /\ (\E s \in scounts : s.owner = uid) \/ (\E m \in members : m.uid = uid)
       /\ UNCHANGED tables
    \/ err = ErrNoRows /\ uid \notin UidsOf(users) /\ UNCHANGED tables
    \/ Rejected(err)

(* Faulty variant: the old hash is not part of the WHERE clause. *)
UserOverwritePassword(uid, old, new, err) ==
    \/ /\ err = Nil
       /\ \E u \in users :
             /\ u.uid = uid
             /\ users' = (users \ {u}) \cup {[u EXCEPT !.password = new]}
       /\ UNCHANGED <<scounts, members>>
    \/ err = ErrNoRows /\ uid \notin UidsOf(users) /\ UNCHANGED tables

(* UserCollection.UpdatePassword: compare-and-set on the stored hash. *)
UserUpdatePassword(uid, old, new, err) ==
    \/ /\ err = Nil
       /\ \E u \in users :
             /\ u.uid = uid /\ u.password = old
             /\ users' = (users \ {u}) \cup {[u EXCEPT !.password = new]}
       /\ UNCHANGED <<scounts, members>>
    \/ /\ err = ErrNoRows
       /\ ~\E u \in users : u.uid = uid /\ u.password = old
       /\ UNCHANGED tables
    \/ Rejected(err)

(* UserCollection.UpdateOne.  With no column to set the template renders   *)
(* an empty SET list, which PostgreSQL rejects.                            *)
UserUpdate(uid, name, err) ==
    \/ /\ err = Nil /\ name # None
       /\ \E u \in users :
             /\ u.uid = uid
             /\ users' = (users \ {u}) \cup {[u EXCEPT !.username = name]}
       /\ UNCHANGED <<scounts, members>>
    \/ /\ err = ErrNoRows /\ name # None
       /\ uid \notin UidsOf(users)
       /\ UNCHANGED tables
    \/ name = None /\ err = ErrSyntaxPrivilege /\ UNCHANGED tables
    \/ Rejected(err)

-----------------------------------------------------------------------------
(* Table scounts. *)

(* Faulty variant: the owner is not made a member. *)
ScountInsertAlone(s, err) ==
    /\ err = Nil
    /\ s.owner \in UidsOf(users) /\ s.sid \notin SidsOf(scounts)
    /\ scounts' = scounts \cup {s}
    /\ UNCHANGED <<users, members>>

(* Faulty variant: two statements, the member first, and no transaction. *)
ScountInsertInSteps(s, err) ==
    /\ \/ /\ err = Nil /\ s.sid \notin SidsOf(scounts)
          /\ scounts' = scounts \cup {s}
       \/ /\ err = ErrConflict /\ s.sid \in SidsOf(scounts)
          /\ UNCHANGED scounts
    /\ members' = members \cup {[sid |-> s.sid, uid |-> s.owner]}
    /\ UNCHANGED users

(* ScountCollection.Insert of one row: one statement inserts the scount    *)
(* and, as a member of it, its owner.                                      *)
ScountInsert(s, err) ==
    \/ /\ err = Nil
       /\ s.owner \in UidsOf(users) /\ s.sid \notin SidsOf(scounts)
       /\ scounts' = scounts \cup {s}
       /\ members' = members \cup {[sid |-> s.sid, uid |-> s.owner]}
       /\ UNCHANGED users
    \/ /\ err = ErrConflict
       /\ s.owner \notin UidsOf(users) \/ s.sid \in SidsOf(scounts)
       /\ UNCHANGED tables
    \/ Rejected(err)

(* ScountCollection.DeleteOne: members references scounts without CASCADE. *)
ScountDelete(sid, err) ==
    \/ /\ err = Nil
       /\ sid \in SidsOf(scounts) /\ sid \notin SidsOf(members)
       /\ scounts' = {s \in scounts : s.sid # sid}
       /\ UNCHANGED <<users, members>>
    \/ /\ err = ErrConflict
       /\ sid \in SidsOf(scounts) /\ sid \in SidsOf(members)
       /\ UNCHANGED tables
    \/ err = ErrNoRows /\ sid \notin SidsOf(scounts) /\ UNCHANGED tables
    \/ Rejected(err)

(* The columns buildUpdateQuery puts in the SET list.  The template writes *)
(* no comma between assignments, so only a list of one column is SQL.      *)
UpdateColumns(owner, title) ==
    (IF owner # None THEN {"owner"} ELSE {}) \cup
    (IF title # None THEN {"title"} ELSE {})

IsSql(columns) == columns \in {{"owner"}, {"title"}}

(* Faulty variant: a field that is not to be set is emptied. *)
ScountReplace(sid, owner, title, err) ==
    /\ err = Nil /\ owner \in UidsOf(users) \cup {None}
    /\ \E s \in scounts :
          /\ s.sid = sid
          /\ scounts' = (scounts \ {s}) \cup
                         {[s EXCEPT !.owner = owner, !.title = title]}
    /\ UNCHANGED <<users, members>>

(* Faulty variant: scounts.owner does not reference users. *)
ScountUpdateAnyOwner(sid, owner, title, err) ==
    /\ err = Nil /\ owner # None /\ title = None
    /\ \E s \in scounts :
          /\ s.sid = sid
          /\ scounts' = (scounts \ {s}) \cup {[s EXCEPT !.owner = owner]}
    /\ UNCHANGED <<users, members>>

(* Faulty variant: the WHERE clause is missing. *)
ScountUpdateAll(sid, owner, title, err) ==
    /\ err = Nil /\ owner = None /\ title # None
    /\ sid \in SidsOf(scounts)
    /\ scounts' = {[s EXCEPT !.title = title] : s \in scounts}
    /\ UNCHANGED <<users, members>>

(* ScountCollection.UpdateOne: owner and title are None when not to be set *)
ScountUpdate(sid, owner, title, err) ==
    LET columns == UpdateColumns(owner, title) IN
    \/ /\ err = Nil /\ IsSql(columns)
       /\ owner \in UidsOf(users) \cup {None}
       /\ \E s \in scounts :
             /\ s.sid = sid
             /\ scounts' = (scounts \ {s}) \cup
                  {[s EXCEPT !.owner = IF owner # None THEN owner ELSE @,
                             !.title = IF title # None THEN title ELSE @]}
       /\ UNCHANGED <<users, members>>
    \/ /\ err = ErrNoRows /\ IsSql(columns)
       /\ sid \notin SidsOf(scounts)
       /\ UNCHANGED tables
    \/ /\ err = ErrConflict /\ IsSql(columns)
       /\ sid \in SidsOf(scounts) /\ owner \notin UidsOf(users) \cup {None}
       /\ UNCHANGED tables
    \/ ~IsSql(columns) /\ err = ErrSyntaxPrivilege /\ UNCHANGED tables
    \/ Rejected(err)

-----------------------------------------------------------------------------
(* Table members. *)

(* MemberCollection.Insert of one row. *)
MemberInsert(m, err) ==
    \/ /\ err = Nil
       /\ m \notin members
       /\ m.sid \in SidsOf(scounts) /\ m.uid \in UidsOf(users)
       /\ members' = members \cup {m}
       /\ UNCHANGED <<users, scounts>>
    \/ /\ err = ErrConflict
       /\ \/ m \in members
          \/ m.sid \notin SidsOf(scounts) \/ m.uid \notin UidsOf(users)
       /\ UNCHANGED tables
    \/ Rejected(err)

(* MemberCollection.DeleteOne. *)
MemberDelete(m, err) ==
    \/ /\ err = Nil /\ m \in members
       /\ members' = members \ {m}
       /\ UNCHANGED <<users, scounts>>
    \/ err = ErrNoRows /\ m \notin members /\ UNCHANGED tables
    \/ Rejected(err)

-----------------------------------------------------------------------------
(* A row is found by its primary key, and a user also by its email.        *)

(* Keys: PRIMARY KEY (uid), UNIQUE (email), PRIMARY KEY (sid). *)
Keys ==
    /\ \A u, v \in users : u.uid = v.uid \/ u.email = v.email => u = v
    /\ \A s, t \in scounts : s.sid = t.sid => s = t

(* The FOREIGN KEYs of scounts and of members. *)
References ==
    /\ \A s \in scounts : s.owner \in UidsOf(users)
    /\ \A m \in members : m.sid \in SidsOf(scounts) /\ m.uid \in UidsOf(users)

(* Whatever statements run, no key is duplicated and no row refers to a    *)
(* row that is gone (db/postgres/init.sql): the look-ups of the store by   *)
(* uid, email and sid then name at most one row.                           *)
Integrity == Keys /\ References

=============================================================================
