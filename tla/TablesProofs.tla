---------------------------- MODULE TablesProofs ----------------------------
(***************************************************************************)
(* What the statements of Tables preserve, for every argument and answer.  *)
(***************************************************************************)
EXTENDS Tables, TLAPS

(* Every user that is there stays, with its uid and email. *)
UsersStay == \A u \in users : \E v \in users' : v.uid = u.uid /\ v.email = u.email

LEMMA UsersStayUids ==
    ASSUME UsersStay
    PROVE  UidsOf(users) \subseteq UidsOf(users')
BY DEF UsersStay, UidsOf

LEMMA NilIsNoRejection == ~Rejected(Nil)
BY RejectionsAreErrors DEF Rejected, ErrRejected, Nil, ErrInvalidData, ErrSyntaxPrivilege

(* UserCollection.Insert: a row is added whose uid and email no row has. *)
LEMMA UserInsertKeeps ==
    ASSUME NEW u \in User, NEW err, UserInsert(u, err),
           TablesTypeOK, Integrity
    PROVE  /\ TablesTypeOK' /\ Integrity' /\ UsersStay
           /\ UNCHANGED <<scounts, members>>
<1>1. CASE UNCHANGED <<users, scounts, members>>
  BY <1>1 DEF TablesTypeOK, Integrity, Keys, References, UidsOf, SidsOf, UsersStay
<1>2. CASE /\ \A v \in users : v.uid # u.uid /\ v.email # u.email
           /\ users' = users \cup {u}
           /\ UNCHANGED <<scounts, members>>
  <2>1. TablesTypeOK' /\ UsersStay
    BY <1>2 DEF TablesTypeOK, UsersStay
  <2>2. Keys'
    BY <1>2 DEF Integrity, Keys
  <2>3. References'
    BY <1>2 DEF Integrity, References, UidsOf, SidsOf
  <2> QED BY <2>1, <2>2, <2>3, <1>2 DEF Integrity
<1> QED BY <1>1, <1>2 DEF UserInsert, Rejected, tables

(* UserCollection.UpdatePassword: uid and email of the row are kept. *)
LEMMA UserUpdatePasswordKeeps ==
    ASSUME NEW uid, NEW old, NEW new \in Hash, NEW err,
           UserUpdatePassword(uid, old, new, err),
           TablesTypeOK, Integrity
    PROVE  /\ TablesTypeOK' /\ Integrity' /\ UsersStay
           /\ \A v \in users' : \E u \in users : u.uid = v.uid /\ u.email = v.email
           /\ UNCHANGED <<scounts, members>>
<1>1. CASE UNCHANGED <<users, scounts, members>>
  BY <1>1 DEF TablesTypeOK, Integrity, Keys, References, UidsOf, SidsOf, UsersStay
<1>2. CASE /\ \E u \in users :
                 /\ u.uid = uid /\ u.password = old
                 /\ users' = (users \ {u}) \cup {[u EXCEPT !.password = new]}
           /\ UNCHANGED <<scounts, members>>
  <2>1. PICK u \in users :
            users' = (users \ {u}) \cup {[u EXCEPT !.password = new]}
    BY <1>2
  <2> DEFINE w == [u EXCEPT !.password = new]
  <2>2. w \in User /\ w.uid = u.uid /\ w.email = u.email
    BY DEF TablesTypeOK, User
  <2> HIDE DEF w
  <2>3. users' = (users \ {u}) \cup {w}
    BY <2>1 DEF w
  <2>4. /\ TablesTypeOK' /\ UsersStay
        /\ \A v \in users' : \E x \in users : x.uid = v.uid /\ x.email = v.email
    BY <1>2, <2>2, <2>3 DEF TablesTypeOK, UsersStay
  <2>5. Keys'
    BY <1>2, <2>2, <2>3 DEF Integrity, Keys
  <2>6. References'
    BY <1>2, <2>4, UsersStayUids DEF Integrity, References, SidsOf
  <2> QED BY <2>4, <2>5, <2>6, <1>2 DEF Integrity
<1> QED BY <1>1, <1>2 DEF UserUpdatePassword, Rejected, tables

(* UserCollection.UpdateOne: uid and email of the row are kept. *)
LEMMA UserUpdateKeeps ==
    ASSUME NEW uid, NEW name \in Names \cup {None}, NEW err,
           UserUpdate(uid, name, err), TablesTypeOK, Integrity
    PROVE  /\ TablesTypeOK' /\ Integrity' /\ UsersStay
           /\ \A v \in users' : \E u \in users : u.uid = v.uid /\ u.email = v.email
           /\ UNCHANGED <<scounts, members>>
<1>1. CASE UNCHANGED <<users, scounts, members>>
  BY <1>1 DEF TablesTypeOK, Integrity, Keys, References, UidsOf, SidsOf, UsersStay
<1>2. CASE /\ name # None
           /\ \E u \in users :
                 /\ u.uid = uid
                 /\ users' = (users \ {u}) \cup {[u EXCEPT !.username = name]}
           /\ UNCHANGED <<scounts, members>>
  <2>1. PICK u \in users :
            users' = (users \ {u}) \cup {[u EXCEPT !.username = name]}
    BY <1>2
  <2> DEFINE w == [u EXCEPT !.username = name]
  <2>2. w \in User /\ w.uid = u.uid /\ w.email = u.email
    BY <1>2 DEF TablesTypeOK, User
  <2> HIDE DEF w
  <2>3. users' = (users \ {u}) \cup {w}
    BY <2>1 DEF w
  <2>4. /\ TablesTypeOK' /\ UsersStay
        /\ \A v \in users' : \E x \in users : x.uid = v.uid /\ x.email = v.email
    BY <1>2, <2>2, <2>3 DEF TablesTypeOK, UsersStay
  <2>5. Keys'
    BY <1>2, <2>2, <2>3 DEF Integrity, Keys
  <2>6. References'
    BY <1>2, <2>4, UsersStayUids DEF Integrity, References, SidsOf
  <2> QED BY <2>4, <2>5, <2>6, <1>2 DEF Integrity
<1> QED BY <1>1, <1>2 DEF UserUpdate, Rejected, tables

(* UserCollection.DeleteOne removes no user whom a row refers to. *)
LEMMA UserDeleteKeeps ==
    ASSUME NEW uid, NEW err, UserDelete(uid, err), TablesTypeOK, Integrity
    PROVE  /\ TablesTypeOK' /\ Integrity'
           /\ UNCHANGED <<scounts, members>>
           /\ users' \subseteq users
           /\ UidsOf(users) \ {uid} \subseteq UidsOf(users')
<1>1. CASE UNCHANGED <<users, scounts, members>>
  BY <1>1 DEF TablesTypeOK, Integrity, Keys, References, UidsOf, SidsOf
<1>2. CASE /\ \A s \in scounts : s.owner # uid
           /\ \A m \in members : m.uid # uid
           /\ users' = {u \in users : u.uid # uid}
           /\ UNCHANGED <<scounts, members>>
  <2>1. users' \subseteq users /\ UidsOf(users) \ {uid} \subseteq UidsOf(users')
    BY <1>2 DEF UidsOf
  <2>2. TablesTypeOK' /\ Keys'
    BY <1>2 DEF TablesTypeOK, Integrity, Keys
  <2>3. References'
    BY <1>2, <2>1 DEF Integrity, References, SidsOf
  <2> QED BY <2>1, <2>2, <2>3, <1>2 DEF Integrity
<1> QED BY <1>1, <1>2 DEF UserDelete, Rejected, tables

(* MemberCollection.DeleteOne: no row refers to a member. *)
LEMMA MemberDeleteKeeps ==
    ASSUME NEW m, NEW err, MemberDelete(m, err), TablesTypeOK, Integrity
    PROVE  /\ TablesTypeOK' /\ Integrity'
           /\ UNCHANGED <<users, scounts>>
           /\ members' \subseteq members
BY DEF MemberDelete, Rejected, tables, TablesTypeOK, Integrity, Keys, References,
       UidsOf, SidsOf

(* ScountCollection.Insert: the scount and the member are added together. *)
LEMMA ScountInsertKeeps ==
    ASSUME NEW s \in Scount, NEW err, ScountInsert(s, err),
           TablesTypeOK, Integrity
    PROVE  /\ TablesTypeOK' /\ Integrity'
           /\ UNCHANGED users
           /\ scounts \subseteq scounts' /\ members \subseteq members'
           /\ \A t \in scounts' \ scounts : \E m \in members' : m.sid = t.sid
<1>1. CASE UNCHANGED <<users, scounts, members>>
  BY <1>1 DEF TablesTypeOK, Integrity, Keys, References, UidsOf, SidsOf
<1>2. CASE /\ s.owner \in UidsOf(users) /\ s.sid \notin SidsOf(scounts)
           /\ scounts' = scounts \cup {s}
           /\ members' = members \cup {[sid |-> s.sid, uid |-> s.owner]}
           /\ UNCHANGED users
  <2>1. TablesTypeOK'
    BY <1>2 DEF TablesTypeOK, Scount, Member
  <2>2. Keys'
    BY <1>2 DEF Integrity, Keys, SidsOf
  <2>3. References'
    BY <1>2 DEF Integrity, References, UidsOf, SidsOf
  <2>4. \A t \in scounts' \ scounts : \E m \in members' : m.sid = t.sid
    <3> DEFINE m == [sid |-> s.sid, uid |-> s.owner]
    <3>1. m \in members' /\ m.sid = s.sid
      BY <1>2
    <3>2. \A t \in scounts' \ scounts : t = s
      BY <1>2
    <3> QED BY <3>1, <3>2
  <2>5. scounts \subseteq scounts' /\ members \subseteq members'
    BY <1>2
  <2> QED BY <2>1, <2>2, <2>3, <2>4, <2>5, <1>2 DEF Integrity
<1> QED BY <1>1, <1>2 DEF ScountInsert, Rejected, tables

(* ScountCollection.UpdateOne: every sid is kept, a new owner is a user. *)
LEMMA ScountUpdateKeeps ==
    ASSUME NEW sid, NEW owner \in Uids \cup {None}, NEW title \in Titles \cup {None},
           NEW err, ScountUpdate(sid, owner, title, err),
           TablesTypeOK, Integrity
    PROVE  /\ TablesTypeOK' /\ Integrity'
           /\ UNCHANGED <<users, members>>
           /\ SidsOf(scounts') = SidsOf(scounts)
<1>1. CASE UNCHANGED <<users, scounts, members>>
  BY <1>1 DEF TablesTypeOK, Integrity, Keys, References, UidsOf, SidsOf
<1>2. CASE /\ owner \in UidsOf(users) \cup {None}
           /\ \E s \in scounts :
                 /\ s.sid = sid
                 /\ scounts' = (scounts \ {s}) \cup
                      {[s EXCEPT !.owner = IF owner # None THEN owner ELSE @,
                                 !.title = IF title # None THEN title ELSE @]}
           /\ UNCHANGED <<users, members>>
  <2>1. PICK s \in scounts :
           scounts' = (scounts \ {s}) \cup
              {[s EXCEPT !.owner = IF owner # None THEN owner ELSE @,
                         !.title = IF title # None THEN title ELSE @]}
    BY <1>2
  <2> DEFINE t == [s EXCEPT !.owner = IF owner # None THEN owner ELSE @,
                            !.title = IF title # None THEN title ELSE @]
  <2>2. /\ t \in Scount /\ t.sid = s.sid
        /\ t.owner = IF owner # None THEN owner ELSE s.owner
    <3>1. s \in Scount
      BY DEF TablesTypeOK
    <3> QED BY <3>1 DEF Scount
  <2> HIDE DEF t
  <2>3. scounts' = (scounts \ {s}) \cup {t}
    BY <2>1 DEF t
  <2>4. TablesTypeOK'
    BY <1>2, <2>2, <2>3 DEF TablesTypeOK
  <2>5. SidsOf(scounts') = SidsOf(scounts)
    BY <2>2, <2>3 DEF SidsOf
  <2>6. Keys'
    BY <1>2, <2>2, <2>3 DEF Integrity, Keys
  <2>7. t.owner \in UidsOf(users)
    BY <1>2, <2>2 DEF Integrity, References
  <2>8. References'
    BY <1>2, <2>3, <2>5, <2>7 DEF Integrity, References, UidsOf
  <2> QED BY <2>4, <2>5, <2>6, <2>8, <1>2 DEF Integrity
<1> QED BY <1>1, <1>2 DEF ScountUpdate, Rejected, tables

(* ScountCollection.DeleteOne removes no scount that has a member. *)
LEMMA ScountDeleteKeeps ==
    ASSUME NEW sid, NEW err, ScountDelete(sid, err),
           TablesTypeOK, Integrity
    PROVE  /\ TablesTypeOK' /\ Integrity'
           /\ UNCHANGED <<users, members>>
           /\ scounts' \subseteq scounts
           /\ \A s \in scounts \ scounts' : s.sid \notin SidsOf(members)
<1>1. CASE UNCHANGED <<users, scounts, members>>
  BY <1>1 DEF TablesTypeOK, Integrity, Keys, References, UidsOf, SidsOf
<1>2. CASE /\ sid \notin SidsOf(members)
           /\ scounts' = {s \in scounts : s.sid # sid}
           /\ UNCHANGED <<users, members>>
  <2>1. TablesTypeOK'
    BY <1>2 DEF TablesTypeOK
  <2>2. Keys'
    BY <1>2 DEF Integrity, Keys
  <2>3. \A m \in members : m.sid \in SidsOf(scounts')
    <3> SUFFICES ASSUME NEW m \in members PROVE m.sid \in SidsOf(scounts')
      OBVIOUS
    <3>1. PICK s \in scounts : m.sid = s.sid
      BY DEF Integrity, References, SidsOf
    <3>2. s.sid # sid
      BY <1>2, <3>1 DEF SidsOf
    <3> QED BY <1>2, <3>1, <3>2 DEF SidsOf
  <2>4. References'
    BY <1>2, <2>3 DEF Integrity, References, UidsOf
  <2> QED BY <2>1, <2>2, <2>4, <1>2 DEF Integrity
<1> QED BY <1>1, <1>2 DEF ScountDelete, Rejected, tables

=============================================================================
