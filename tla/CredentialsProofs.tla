--------------------------- MODULE CredentialsProofs ---------------------------
(***************************************************************************)
(* The handlers of package api implement Credentials, for every set of     *)
(* processes, requests, users and hashes, with faults and restarts: the    *)
(* theorem that CredentialsAtomic is on one instance for TLC.              *)
(***************************************************************************)
EXTENDS ApiCredentials, ApiProofs

(* A hash is of one user only: no two rows have the same one, and whoever  *)
(* has the hash that ChangePassword has read is the user it read.  The     *)
(* compare-and-set of UpdatePassword then tells whether that user's own    *)
(* password was changed meanwhile.                                         *)
HashInv ==
    /\ \A u, v \in users : u.password = v.password => u = v
    /\ \A p \in Procs : pc[p] = "update" =>
          \A u \in users : u.password = user[p].password => u.uid = user[p].uid

(* An idle process serves no request. *)
IdleInv == \A p \in Procs : pc[p] = "idle" => req[p] = NoRequest

RInv == IInv /\ HashInv /\ IdleInv

-----------------------------------------------------------------------------
(* The hashes. *)

LEMMA FreshHashIsNew ==
    ASSUME FreshSalts # {}, NEW password
    PROVE  GenerateFromPassword(password) \notin HashesInUse
<1>1. GenerateFromPassword(password).salt \in FreshSalts
  BY DEF GenerateFromPassword
<1> QED BY <1>1 DEF FreshSalts

(* A write leaves the rows of users alone, or it adds or replaces one row, *)
(* which gets a hash that was not in use.                                  *)
LEMMA WriteHashes ==
    ASSUME TablesOK, NEW r, NEW old, NEW err, Write(r, old, err)
    PROVE  \/ UNCHANGED users
           \/ /\ \E w : /\ w.password \notin HashesInUse
                        /\ \E rest \in SUBSET users : users' = rest \cup {w}
              /\ r.op = "RegisterUser" \/ r.op = "ChangePassword"
<1>1. CASE r.op = "RegisterUser" /\ InsertUser(r, err)
  <2>1. PICK id \in Uids :
          /\ FreshSalts # {}
          /\ UserInsert([uid |-> id, email |-> r.email, username |-> r.username,
                         password |-> GenerateFromPassword(r.password)], err)
    BY <1>1 DEF InsertUser
  <2> DEFINE w == [uid |-> id, email |-> r.email, username |-> r.username,
                   password |-> GenerateFromPassword(r.password)]
  <2>2. w.password \notin HashesInUse
    BY <2>1, FreshHashIsNew
  <2>3. UNCHANGED users \/ users' = users \cup {w}
    BY <2>1 DEF UserInsert, Rejected, tables
  <2> QED BY <1>1, <2>2, <2>3
<1>2. CASE r.op = "ChangePassword" /\ UpdatePassword(r, old, err)
  <2> DEFINE new == GenerateFromPassword(r.new)
  <2>1. new \notin HashesInUse
    BY <1>2, FreshHashIsNew DEF UpdatePassword
  <2>2. CASE UNCHANGED users
    BY <2>2
  <2>3. CASE \E u \in users : users' = (users \ {u}) \cup {[u EXCEPT !.password = new]}
    <3>1. PICK u \in users : users' = (users \ {u}) \cup {[u EXCEPT !.password = new]}
      BY <2>3
    <3>2. [u EXCEPT !.password = new].password = new
      BY DEF TablesOK, TablesTypeOK, User
    <3>3. users \ {u} \in SUBSET users
      OBVIOUS
    <3> QED BY <1>2, <2>1, <3>1, <3>2, <3>3
  <2> QED BY <1>2, <2>2, <2>3 DEF UpdatePassword, UserUpdatePassword, Rejected, tables
<1>3. CASE \/ InsertScount(r, err)
           \/ ScountUpdate(r.sid, r.owner, r.title, err)
           \/ ScountDelete(r.sid, err)
  BY <1>3 DEF InsertScount, ScountInsert, ScountUpdate, ScountDelete, Rejected, tables
<1> QED BY <1>1, <1>2, <1>3 DEF Write

(* A process comes to label update with the row it reads at that moment,   *)
(* and keeps it there.                                                     *)
Remembers(p) ==
    pc'[p] = "update" => \/ pc[p] = "update" /\ user'[p] = user[p]
                         \/ user'[p] \in users /\ UNCHANGED users

LEMMA StepRemembers ==
    ASSUME IInv, [Next]_vars, NEW p \in Procs
    PROVE  Remembers(p)
<1> USE DEF IInv, ProcsOK, Remembers
<1>1. ASSUME NEW q \in Procs, NEW r \in Workload, Refuse(q, r) \/ Admit(q, r)
      PROVE  Remembers(p)
  BY <1>1 DEF Refuse, Admit
<1>2. ASSUME NEW q \in Procs, ChangePassword(q) PROVE Remembers(p)
  BY <1>2 DEF ChangePassword, Answer
<1>3. ASSUME NEW q \in Procs, LoginUser(q) PROVE Remembers(p)
  <2>1. pc' = [pc EXCEPT ![q] = "reply"]
    BY <1>3 DEF LoginUser, Answer
  <2>2. \A x \in Procs \ {q} : user'[x] = user[x]
    BY <1>3 DEF LoginUser
  <2> QED BY <2>1, <2>2
<1>4. ASSUME NEW q \in Procs, ChangePasswordUpdate(q) PROVE Remembers(p)
  BY <1>4 DEF ChangePasswordUpdate, Answer
<1>5. ASSUME NEW q \in Procs,
             \/ RegisterUser(q) \/ GetUser(q) \/ GetCurrentUser(q)
             \/ CreateScount(q) \/ GetScount(q) \/ UpdateScount(q)
             \/ DeleteScount(q) \/ Panic(q)
      PROVE  Remembers(p)
  BY <1>5 DEF RegisterUser, GetUser, GetCurrentUser, CreateScount, GetScount,
              UpdateScount, DeleteScount, Panic, Answer
<1>6. ASSUME NEW q \in Procs, StatementFails(q) \/ Reply(q) PROVE Remembers(p)
  BY <1>6 DEF StatementFails, Reply, Answer, Idle
<1>7. ASSUME NEW q \in Procs, StrayRuns(q) \/ StrayDropped(q) PROVE Remembers(p)
  BY <1>7 DEF StrayRuns, StrayDropped
<1>8. CASE Restart \/ \E uid \in tokens : Expire(uid)
  BY <1>8 DEF Restart, Expire
<1>9. CASE UNCHANGED vars
  BY <1>9 DEF vars
<1> QED BY <1>1, <1>2, <1>3, <1>4, <1>5, <1>6, <1>7, <1>8, <1>9 DEF Next, Handler

LEMMA HashStep ==
    ASSUME RInv, [Next]_vars
    PROVE  HashInv'
<1>1. \A p \in Procs : Remembers(p)
  BY StepRemembers DEF RInv
<1>2. CASE UNCHANGED users
  BY <1>1, <1>2 DEF RInv, HashInv, Remembers
<1>3. CASE \E w : /\ w.password \notin HashesInUse
                  /\ \E rest \in SUBSET users : users' = rest \cup {w}
  <2>0. PICK w : /\ w.password \notin HashesInUse
                 /\ \E rest \in SUBSET users : users' = rest \cup {w}
    BY <1>3
  <2>1. PICK rest \in SUBSET users :
             w.password \notin HashesInUse /\ users' = rest \cup {w}
    BY <2>0
  <2>2. \A u \in users : u.password # w.password
    BY <2>1 DEF HashesInUse
  <2>3. \A p \in Procs : pc[p] = "update" => user[p].password # w.password
    BY <2>1 DEF HashesInUse
  <2> QED BY <1>1, <1>2, <2>1, <2>2, <2>3 DEF RInv, HashInv, Remembers
<1>4. UNCHANGED users \/ \E r, old, err : Writer(r, old, err)
  BY StepWrites DEF RInv
<1> QED BY <1>2, <1>3, <1>4, WriteHashes DEF RInv, IInv, Writer

LEMMA IdleStep ==
    ASSUME RInv, [Next]_vars
    PROVE  IdleInv'
<1> USE DEF RInv, IInv, ProcsOK, IdleInv
<1>1. ASSUME NEW q \in Procs, NEW r \in Workload, Refuse(q, r) \/ Admit(q, r)
      PROVE  IdleInv'
  BY <1>1 DEF Refuse, Admit
<1>2. ASSUME NEW q \in Procs, Handler(q) PROVE IdleInv'
  <2>1. UNCHANGED req /\ \E l \in {"reply", "update"} : pc' = [pc EXCEPT ![q] = l]
    BY <1>2 DEF Handler, RegisterUser, LoginUser, ChangePassword, ChangePasswordUpdate,
                GetUser, GetCurrentUser, CreateScount, GetScount, UpdateScount,
                DeleteScount, Panic, Answer
  <2> QED BY <2>1
<1>3. ASSUME NEW q \in Procs, StatementFails(q) \/ Reply(q) PROVE IdleInv'
  BY <1>3 DEF StatementFails, Reply, Answer, Idle
<1>4. ASSUME NEW q \in Procs, StrayRuns(q) \/ StrayDropped(q) PROVE IdleInv'
  BY <1>4 DEF StrayRuns, StrayDropped
<1>5. CASE Restart \/ \E uid \in tokens : Expire(uid)
  BY <1>5 DEF Restart, Expire
<1>6. CASE UNCHANGED vars
  BY <1>6 DEF vars
<1> QED BY <1>1, <1>2, <1>3, <1>4, <1>5, <1>6 DEF Next

(* The invariant holds of every run of the server: a hash is of one user,  *)
(* because bcrypt draws a salt that no hash in use has (api/auth.go).      *)
THEOREM HashesHold == Spec => []RInv
<1>1. Init => RInv
  BY InitEstablishes DEF Init, TablesInit, HashInv, IdleInv, RInv
<1>2. RInv /\ [Next]_vars => RInv'
  BY NextKeeps, HashStep, IdleStep DEF RInv
<1> QED BY <1>1, <1>2, PTL DEF Spec

-----------------------------------------------------------------------------
(* The mapping: requests as calls, statuses as answers.                    *)

AnswerOf(p) ==
    IF pc[p] = "reply" /\ AsCall(req[p]) # NoCall THEN AsAnswer(status[p]) ELSE "pending"

ContendedOf(p) ==
    pc[p] = "update" /\ ~\E u \in users : u.password = user[p].password

(* The three requests that are calls, and all that are not.                *)
LEMMA CallOfRequest ==
    ASSUME NEW r \in Request
    PROVE  /\ r.op = "RegisterUser" =>
                 /\ AsCall(r) \in Abstract!Register
                 /\ AsCall(r).email = r.email /\ AsCall(r).password = r.password
           /\ r.op = "LoginUser" =>
                 /\ AsCall(r) \in Abstract!Login
                 /\ AsCall(r).email = r.email /\ AsCall(r).password = r.password
           /\ r.op = "ChangePassword" /\ r.token # None =>
                 /\ AsCall(r) \in Abstract!Change
                 /\ AsCall(r).uid = r.token
                 /\ AsCall(r).old = r.old /\ AsCall(r).new = r.new
           /\ \/ r.op \notin {"RegisterUser", "LoginUser", "ChangePassword"}
              \/ r.op = "ChangePassword" /\ r.token = None
              => AsCall(r) = NoCall
<1>1. CASE r.op = "RegisterUser"
  <2>1. r.email \in Emails /\ r.password \in Passwords
    BY <1>1, RequestFields
  <2>2. AsCall(r) = [op |-> "RegisterUser", email |-> r.email, password |-> r.password]
    BY <1>1 DEF AsCall
  <2> QED BY <1>1, <2>1, <2>2 DEF Abstract!Register
<1>2. CASE r.op = "LoginUser"
  <2>1. r.email \in Emails /\ r.password \in Passwords
    BY <1>2 DEF Request, RegisterRequest, LoginRequest, PasswordChanger, GetUserRequest,
                MeRequest, ScountRequest, GetScountRequest, ScountUpdater,
                DeleteScountRequest
  <2>2. AsCall(r) = [op |-> "LoginUser", email |-> r.email, password |-> r.password]
    BY <1>2 DEF AsCall
  <2> QED BY <1>2, <2>1, <2>2 DEF Abstract!Login
<1>3. CASE r.op = "ChangePassword" /\ r.token # None
  <2>1. r.token \in Uids /\ r.old \in Passwords /\ r.new \in Passwords
    BY <1>3 DEF Request, RegisterRequest, LoginRequest, PasswordChanger, GetUserRequest,
                MeRequest, ScountRequest, GetScountRequest, ScountUpdater,
                DeleteScountRequest, Token
  <2>2. AsCall(r) = [op |-> "ChangePassword", uid |-> r.token, old |-> r.old,
                     new |-> r.new]
    BY <1>3 DEF AsCall
  <2> QED BY <1>3, <2>1, <2>2 DEF Abstract!Change
<1>4. CASE \/ r.op \notin {"RegisterUser", "LoginUser", "ChangePassword"}
           \/ r.op = "ChangePassword" /\ r.token = None
  BY <1>4 DEF AsCall
<1> QED BY <1>1, <1>2, <1>3, <1>4

LEMMA NoCallIsNone ==
    /\ AsCall(NoRequest) = NoCall
    /\ NoCall \notin Abstract!Register
    /\ NoCall \notin Abstract!Login
    /\ NoCall \notin Abstract!Change
BY DEF AsCall, NoCall, NoRequest, Abstract!Register, Abstract!Login, Abstract!Change

(* The kinds of calls exclude one another, as their names differ. *)
LEMMA CallKinds ==
    ASSUME NEW c
    PROVE  /\ c \in Abstract!Register => c \notin Abstract!Login /\ c \notin Abstract!Change
           /\ c \in Abstract!Login => c \notin Abstract!Change
BY DEF Abstract!Register, Abstract!Login, Abstract!Change

(* Statuses are answers; none of them is "pending". *)
LEMMA StatusAnswers ==
    /\ AsAnswer(200) = "yes" /\ AsAnswer(204) = "yes"
    /\ AsAnswer(409) = "no" /\ AsAnswer(422) = "no"
    /\ AsAnswer(400) = "rejected" /\ AsAnswer(401) = "rejected"
    /\ AsAnswer(415) = "rejected"
    /\ AsAnswer(500) = "failed"
    /\ \A s : AsAnswer(s) # "pending"
BY DEF AsAnswer

LEMMA StatusOfError ==
    /\ InsertStatus(Nil) = 200 /\ InsertStatus(ErrConflict) = 409
    /\ ChangeStatus(Nil) = 204 /\ ChangeStatus(ErrNoRows) = 422
    /\ \A err \in Rejections : InsertStatus(err) = 400 /\ ChangeStatus(err) = 500
BY RejectionsAreErrors
   DEF InsertStatus, ChangeStatus, ErrRejected, Nil, ErrNoRows, ErrConflict,
       ErrInvalidData, ErrSyntaxPrivilege

(* A step that leaves the other processes alone changes their calls and    *)
(* answers at p only.                                                      *)
OthersRest(p) ==
    \A q \in Procs \ {p} : pc'[q] = pc[q] /\ req'[q] = req[q] /\ status'[q] = status[q]

LEMMA CallsMap ==
    ASSUME NEW p \in Procs, OthersRest(p)
    PROVE  /\ callBar' = [callBar EXCEPT ![p] = AsCall(req'[p])]
           /\ answerBar' = [answerBar EXCEPT ![p] = AnswerOf(p)']
           /\ callBar[p] = AsCall(req[p]) /\ answerBar[p] = AnswerOf(p)
BY DEF OthersRest, callBar, answerBar, AnswerOf

(* What is contended: nothing becomes so while the users are left alone,   *)
(* or only get more.                                                       *)
ContendedLess == \A q \in Procs : contendedBar'[q] => contendedBar[q]

LEMMA ContendedStays ==
    ASSUME \A q \in Procs : Remembers(q), users \subseteq users'
    PROVE  ContendedLess
BY DEF ContendedLess, contendedBar, Remembers

(* It is the same when the users are left alone, and who is at update.     *)
LEMMA ContendedSame ==
    ASSUME UNCHANGED users,
           \A q \in Procs : pc[q] = "update" \/ pc'[q] = "update" =>
               pc'[q] = pc[q] /\ user'[q] = user[q]
    PROVE  contendedBar' = contendedBar
<1>1. \A q \in Procs : ContendedOf(q)' = ContendedOf(q)
  BY DEF ContendedOf
<1>2. contendedBar = [q \in Procs |-> ContendedOf(q)]
  BY DEF contendedBar, ContendedOf
<1>3. contendedBar' = [q \in Procs |-> ContendedOf(q)']
  BY DEF contendedBar, ContendedOf
<1> QED BY <1>1, <1>2, <1>3

-----------------------------------------------------------------------------
(* Carrying out: what a write that PostgreSQL has done means for accounts. *)

LEMMA RegisterGranted ==
    ASSUME RInv, NEW r \in Request, r.op = "RegisterUser", InsertUser(r, Nil),
           \A q \in Procs : Remembers(q)
    PROVE  Abstract!Registered(AsCall(r))
<1> DEFINE w(id) == [uid |-> id, email |-> r.email, username |-> r.username,
                     password |-> GenerateFromPassword(r.password)]
           a(id) == [uid |-> id, email |-> r.email, password |-> r.password]
<1>1. PICK id \in Uids : UserInsert(w(id), Nil)
  BY DEF InsertUser
<1>2. /\ \A v \in users : v.uid # id /\ v.email # r.email
      /\ users' = users \cup {w(id)}
  BY <1>1, NilIsNoRejection DEF UserInsert, Nil, ErrConflict
<1>3. AsAccount(w(id)) = a(id)
  BY DEF AsAccount, GenerateFromPassword
<1>4. accountsBar' = accountsBar \cup {a(id)}
  BY <1>2, <1>3 DEF accountsBar
<1>5. \A b \in accountsBar : b.uid # id /\ b.email # r.email
  BY <1>2 DEF accountsBar, AsAccount
<1>6. ContendedLess
  BY <1>2, ContendedStays
<1>7. /\ AsCall(r) \in Abstract!Register
      /\ AsCall(r).email = r.email /\ AsCall(r).password = r.password
  BY CallOfRequest
<1> QED BY <1>4, <1>5, <1>6, <1>7 DEF Abstract!Registered, ContendedLess

(* A change of a password makes only those calls contended that have read  *)
(* the hash it replaces: calls of the same user, by HashInv.               *)
LEMMA ChangeGranted ==
    ASSUME RInv, NEW r \in Request, r.op = "ChangePassword", r.token # None,
           NEW old, old.plain = r.old, UpdatePassword(r, old, Nil),
           \A q \in Procs : pc'[q] = "update" => pc[q] = "update" /\ user'[q] = user[q]
    PROVE  Abstract!Changed(AsCall(r))
<1> DEFINE new == GenerateFromPassword(r.new)
<1>1. PICK u \in users : /\ u.uid = r.token /\ u.password = old
                         /\ users' = (users \ {u}) \cup {[u EXCEPT !.password = new]}
  BY NilIsNoRejection DEF UpdatePassword, UserUpdatePassword, Nil, ErrNoRows
<1> DEFINE w == [u EXCEPT !.password = new]
           a == AsAccount(u)
<1>2. u \in User
  BY DEF RInv, IInv, TablesOK, TablesTypeOK
<1>3. AsAccount(w) = [a EXCEPT !.password = r.new]
  BY <1>2 DEF AsAccount, User, GenerateFromPassword
<1>4. \A v \in users : AsAccount(v) = a => v = u
  BY DEF AsAccount, RInv, IInv, TablesOK, Integrity, Keys
<1>5. accountsBar' = (accountsBar \ {a}) \cup {AsAccount(w)}
  BY <1>1, <1>4 DEF accountsBar
<1>6. a \in accountsBar /\ a.uid = r.token /\ a.password = r.old
  BY <1>1 DEF accountsBar, AsAccount
<1>7. /\ AsCall(r) \in Abstract!Change
      /\ AsCall(r).uid = r.token /\ AsCall(r).old = r.old /\ AsCall(r).new = r.new
  BY CallOfRequest
<1>8. ASSUME NEW q \in Procs, contendedBar'[q]
      PROVE  contendedBar[q] \/ Abstract!Waiting(q, r.token)
  <2>1. /\ pc[q] = "update" /\ user'[q] = user[q]
        /\ ~\E v \in users' : v.password = user[q].password
    BY <1>8 DEF contendedBar
  <2>2. SUFFICES ASSUME NEW v \in users, v.password = user[q].password
                 PROVE  Abstract!Waiting(q, r.token)
    BY <2>1 DEF contendedBar
  <2>3. v = u
    BY <1>1, <2>1, <2>2
  <2>4. user[q].uid = r.token
    BY <1>1, <2>1, <2>2, <2>3 DEF RInv, HashInv
  <2>5. /\ req[q] \in Request /\ req[q].op = "ChangePassword"
        /\ req[q].token = user[q].uid
    BY <2>1 DEF RInv, IInv, ProcOK
  <2>6. callBar[q] \in Abstract!Change /\ callBar[q].uid = r.token
    BY <2>4, <2>5, CallOfRequest DEF callBar
  <2>7. answerBar[q] = "pending"
    BY <2>1 DEF answerBar
  <2> QED BY <2>6, <2>7 DEF Abstract!Waiting
<1> QED BY <1>3, <1>5, <1>6, <1>7, <1>8 DEF Abstract!Changed

-----------------------------------------------------------------------------
(* Each action of Api, as an action of Credentials or as a step that       *)
(* Credentials does not see.                                               *)

Unseen == UNCHANGED <<accountsBar, callBar, answerBar, contendedBar, lateBar>>

LEMMA AccountsSame ==
    ASSUME UNCHANGED users
    PROVE  UNCHANGED accountsBar
BY DEF accountsBar

LEMMA LateSame ==
    ASSUME UNCHANGED stray
    PROVE  UNCHANGED lateBar
BY DEF lateBar

LEMMA LateChanges ==
    ASSUME NEW p \in Procs, \A q \in Procs \ {p} : lateBar'[q] = lateBar[q]
    PROVE  lateBar' = [lateBar EXCEPT ![p] = lateBar'[p]]
BY DEF lateBar

(* The handler of p answers s. *)
LEMMA AnswerMaps ==
    ASSUME IInv, NEW p \in Procs, NEW s, Answer(p, s), AsCall(req[p]) # NoCall
    PROVE  /\ UNCHANGED callBar
           /\ answerBar' = [answerBar EXCEPT ![p] = AsAnswer(s)]
<1>1. pc'[p] = "reply" /\ req'[p] = req[p] /\ status'[p] = s /\ OthersRest(p)
  BY DEF IInv, ProcsOK, Answer, OthersRest
<1>2. AnswerOf(p)' = AsAnswer(s)
  BY <1>1 DEF AnswerOf
<1>3. UNCHANGED callBar
  BY DEF Answer, callBar
<1> QED BY <1>1, <1>2, <1>3, CallsMap

(* A call is pending as long as its handler runs. *)
LEMMA Running ==
    ASSUME NEW p \in Procs, pc[p] \in {"run", "update"}
    PROVE  callBar[p] = AsCall(req[p]) /\ answerBar[p] = "pending"
BY DEF callBar, answerBar

LEMMA RegisterStep ==
    ASSUME RInv, [Next]_vars, NEW p \in Procs, RegisterUser(p)
    PROVE  Abstract!CarryOut(p)
<1>1. PICK err \in Errors : Write(req[p], None, err) /\ Answer(p, InsertStatus(err))
  BY DEF RegisterUser
<1>2. /\ req[p] \in Request /\ req[p].op = "RegisterUser" /\ pc[p] = "run"
      /\ UNCHANGED stray
  BY DEF RegisterUser, At, RInv, IInv, ProcOK
<1>3. InsertUser(req[p], err)
  BY <1>1, <1>2 DEF Write
<1>4. AsCall(req[p]) \in Abstract!Register /\ AsCall(req[p]) # NoCall
  BY <1>2, CallOfRequest, NoCallIsNone
<1>5. /\ UNCHANGED callBar
      /\ answerBar' = [answerBar EXCEPT ![p] = AsAnswer(InsertStatus(err))]
  BY <1>1, <1>4, AnswerMaps DEF RInv
<1>6. callBar[p] = AsCall(req[p]) /\ answerBar[p] = "pending" /\ UNCHANGED lateBar
  BY <1>2, Running, LateSame
<1>7. CASE err = Nil
  <2>1. Abstract!Registered(AsCall(req[p]))
    BY <1>2, <1>3, <1>7, RegisterGranted, StepRemembers DEF RInv
  <2>2. AsAnswer(InsertStatus(err)) = "yes"
    BY <1>7, StatusAnswers, StatusOfError
  <2> QED BY <1>4, <1>5, <1>6, <2>1, <2>2 DEF Abstract!CarryOut, Abstract!Granted
<1>8. CASE err = ErrConflict /\ users # {} /\ UNCHANGED users
  <2>1. AsAnswer(InsertStatus(err)) = "no"
    BY <1>8, StatusAnswers, StatusOfError
  <2>2. accountsBar # {} /\ UNCHANGED accountsBar
    BY <1>8, AccountsSame DEF accountsBar
  <2>3. ContendedLess
    BY <1>8, StepRemembers, ContendedStays DEF RInv
  <2>4. Abstract!Refused(callBar[p], contendedBar[p])
    BY <1>4, <1>6, <2>2, <2>3, CallKinds
       DEF Abstract!Refused, Abstract!Refusable, ContendedLess
  <2> QED BY <1>4, <1>5, <1>6, <2>1, <2>4 DEF Abstract!CarryOut
<1>9. CASE err \in Rejections /\ UNCHANGED users
  <2>1. AsAnswer(InsertStatus(err)) = "rejected"
    BY <1>9, StatusAnswers, StatusOfError
  <2>2. UNCHANGED accountsBar
    BY <1>9, AccountsSame
  <2>3. \A q \in Procs : pc[q] = "update" \/ pc'[q] = "update" =>
           pc'[q] = pc[q] /\ user'[q] = user[q]
    BY <1>1, <1>2 DEF RegisterUser, Answer, RInv, IInv, ProcsOK
  <2>4. contendedBar' = contendedBar
    BY <1>9, <2>3, ContendedSame
  <2> QED BY <1>4, <1>5, <1>6, <2>1, <2>2, <2>4 DEF Abstract!CarryOut
<1>10. \/ err = Nil
       \/ err = ErrConflict /\ users # {} /\ UNCHANGED users
       \/ err \in Rejections /\ UNCHANGED users
  BY <1>3 DEF InsertUser, UserInsert, Rejected, tables
<1> QED BY <1>7, <1>8, <1>9, <1>10

(* LoginUser reads once: what it finds is an account, or none, at that     *)
(* moment.                                                                 *)
LEMMA LoginStep ==
    ASSUME RInv, [Next]_vars, NEW p \in Procs, LoginUser(p)
    PROVE  Abstract!CarryOut(p)
<1> DEFINE c == AsCall(req[p])
<1>1. /\ req[p] \in Request /\ req[p].op = "LoginUser" /\ pc[p] = "run"
      /\ UNCHANGED <<users, stray>>
  BY DEF LoginUser, At, RInv, IInv, ProcOK
<1>2. /\ c \in Abstract!Login /\ c # NoCall
      /\ c.email = req[p].email /\ c.password = req[p].password
  BY <1>1, CallOfRequest, NoCallIsNone
<1>3. callBar[p] = c /\ answerBar[p] = "pending"
  BY <1>1, Running
<1>4. UNCHANGED accountsBar /\ UNCHANGED lateBar /\ ContendedLess
  BY <1>1, AccountsSame, LateSame, ContendedStays, StepRemembers DEF RInv
<1>5. CASE \E u \in users : /\ u.email = req[p].email
                            /\ CompareHashAndPassword(u.password, req[p].password)
                            /\ Answer(p, 200)
  <2>1. PICK u \in users : /\ u.email = req[p].email
                           /\ u.password.plain = req[p].password
                           /\ Answer(p, 200)
    BY <1>5 DEF CompareHashAndPassword
  <2>2. /\ UNCHANGED callBar
        /\ answerBar' = [answerBar EXCEPT ![p] = "yes"]
    BY <1>2, <2>1, AnswerMaps, StatusAnswers DEF RInv
  <2>3. AsAccount(u) \in accountsBar
    BY DEF accountsBar
  <2>4. AsAccount(u).email = c.email /\ AsAccount(u).password = c.password
    BY <1>2, <2>1 DEF AsAccount
  <2>5. Abstract!LoggedIn(c)
    BY <1>2, <1>4, <2>3, <2>4 DEF Abstract!LoggedIn, ContendedLess
  <2> QED BY <1>2, <1>3, <1>4, <2>2, <2>5 DEF Abstract!CarryOut, Abstract!Granted
<1>6. CASE /\ \A u \in users : u.email = req[p].email
                                 => u.password.plain # req[p].password
           /\ Answer(p, 422)
  <2>1. /\ UNCHANGED callBar
        /\ answerBar' = [answerBar EXCEPT ![p] = "no"]
    BY <1>2, <1>6, AnswerMaps, StatusAnswers DEF RInv
  <2>2. ~\E a \in accountsBar : a.email = c.email /\ a.password = c.password
    BY <1>2, <1>6 DEF accountsBar, AsAccount
  <2>3. Abstract!Refused(c, contendedBar[p])
    BY <1>2, <1>4, <2>2, CallKinds DEF Abstract!Refused, Abstract!Refusable, ContendedLess
  <2> QED BY <1>2, <1>3, <1>4, <2>1, <2>3 DEF Abstract!CarryOut
<1>7. CASE \E u \in users : /\ u.email = req[p].email
                            /\ ~CompareHashAndPassword(u.password, req[p].password)
                            /\ Answer(p, 422)
  <2>1. \A u, v \in users : u.email = v.email => u = v
    BY DEF RInv, IInv, TablesOK, Integrity, Keys
  <2> QED BY <1>6, <1>7, <2>1 DEF CompareHashAndPassword
<1> QED BY <1>5, <1>6, <1>7 DEF LoginUser

(* A request of Authorized has a token, which is no empty string. *)
LEMMA TokenGiven ==
    ASSUME TablesOK, NEW r, r.token \in UidsOf(users)
    PROVE  r.token # None
BY NoneIsNoValue DEF TablesOK, TablesTypeOK, UidsOf, User

(* ChangePassword, while it runs. *)
LEMMA ChangeRuns ==
    ASSUME RInv, NEW p \in Procs, pc[p] \in {"run", "update"},
           req[p].op = "ChangePassword"
    PROVE  /\ req[p] \in Request /\ req[p].token # None
           /\ AsCall(req[p]) \in Abstract!Change /\ AsCall(req[p]) # NoCall
           /\ AsCall(req[p]).uid = req[p].token
           /\ AsCall(req[p]).old = req[p].old /\ AsCall(req[p]).new = req[p].new
           /\ req[p].token \in UidsOf(users)
<1>1. req[p] \in Request /\ req[p].token \in UidsOf(users)
  BY DEF RInv, IInv, ProcOK, Authorized
<1>2. req[p].token # None
  BY <1>1, TokenGiven DEF RInv, IInv
<1> QED BY <1>1, <1>2, CallOfRequest, NoCallIsNone

(* The first statement of ChangePassword refuses a wrong old password, or  *)
(* changes nothing that Credentials sees.  Its answer 401 is never given.  *)
LEMMA ReadStep ==
    ASSUME RInv, [Next]_vars, NEW p \in Procs, ChangePassword(p)
    PROVE  Abstract!CarryOut(p) \/ Unseen
<1> DEFINE c == AsCall(req[p])
<1>1. /\ req[p].op = "ChangePassword" /\ pc[p] = "run" /\ UNCHANGED <<users, stray>>
  BY DEF ChangePassword, At
<1>2. /\ c \in Abstract!Change /\ c # NoCall
      /\ c.uid = req[p].token /\ c.old = req[p].old
      /\ req[p].token \in UidsOf(users)
  BY <1>1, ChangeRuns
<1>3. callBar[p] = c /\ answerBar[p] = "pending"
  BY <1>1, Running
<1>4. UNCHANGED accountsBar /\ UNCHANGED lateBar /\ ContendedLess
  BY <1>1, AccountsSame, LateSame, ContendedStays, StepRemembers DEF RInv
<1>5. CASE \E u \in users : /\ u.uid = req[p].token
                            /\ ~CompareHashAndPassword(u.password, req[p].old)
                            /\ Answer(p, 422)
  <2>1. /\ UNCHANGED callBar
        /\ answerBar' = [answerBar EXCEPT ![p] = "no"]
    BY <1>2, <1>5, AnswerMaps, StatusAnswers DEF RInv
  <2>2. \A u, v \in users : u.uid = v.uid => u = v
    BY DEF RInv, IInv, TablesOK, Integrity, Keys
  <2>3. \A u \in users : u.uid = c.uid => u.password.plain # c.old
    BY <1>2, <1>5, <2>2 DEF CompareHashAndPassword
  <2>4. ~\E a \in accountsBar : a.uid = c.uid /\ a.password = c.old
    BY <2>3 DEF accountsBar, AsAccount
  <2>5. Abstract!Refused(c, contendedBar[p])
    BY <1>2, <1>4, <2>4, CallKinds DEF Abstract!Refused, Abstract!Refusable, ContendedLess
  <2> QED BY <1>2, <1>3, <1>4, <2>1, <2>5 DEF Abstract!CarryOut
<1>6. CASE \E u \in users : /\ pc' = [pc EXCEPT ![p] = "update"]
                            /\ user' = [user EXCEPT ![p] = u]
                            /\ UNCHANGED <<req, status>>
  <2>1. PICK u \in users : /\ pc' = [pc EXCEPT ![p] = "update"]
                           /\ user' = [user EXCEPT ![p] = u]
                           /\ UNCHANGED <<req, status>>
    BY <1>6
  <2>2. pc'[p] = "update" /\ user'[p] = u /\ OthersRest(p)
    BY <2>1 DEF RInv, IInv, ProcsOK, OthersRest
  <2>3. AnswerOf(p)' = "pending" /\ req'[p] = req[p]
    BY <2>1, <2>2 DEF AnswerOf
  <2>4. /\ callBar' = [callBar EXCEPT ![p] = c]
        /\ answerBar' = [answerBar EXCEPT ![p] = "pending"]
    BY <2>2, <2>3, CallsMap
  <2>5. UNCHANGED <<callBar, answerBar>>
    BY <1>3, <2>4 DEF callBar, answerBar
  <2>6. \A q \in Procs : ContendedOf(q)' = ContendedOf(q)
    <3>1. ContendedOf(p)' = ContendedOf(p)
      BY <1>1, <2>2 DEF ContendedOf
    <3>2. ASSUME NEW q \in Procs \ {p} PROVE ContendedOf(q)' = ContendedOf(q)
      BY <1>1, <2>1 DEF ContendedOf, RInv, IInv, ProcsOK
    <3> QED BY <3>1, <3>2
  <2>7. UNCHANGED contendedBar
    <3>1. contendedBar = [q \in Procs |-> ContendedOf(q)]
      BY DEF contendedBar, ContendedOf
    <3>2. contendedBar' = [q \in Procs |-> ContendedOf(q)']
      BY DEF contendedBar, ContendedOf
    <3> QED BY <2>6, <3>1, <3>2
  <2> QED BY <1>4, <2>5, <2>7 DEF Unseen
<1> QED BY <1>2, <1>5, <1>6 DEF ChangePassword

(* The second statement decides: the hash is still the one it has read, or *)
(* the call is contended.                                                  *)
LEMMA ChangeStep ==
    ASSUME RInv, [Next]_vars, NEW p \in Procs, ChangePasswordUpdate(p)
    PROVE  Abstract!CarryOut(p) \/ Abstract!GiveUp(p)
<1> DEFINE c == AsCall(req[p])
<1>1. /\ req[p].op = "ChangePassword" /\ pc[p] = "update" /\ UNCHANGED stray
  BY DEF ChangePasswordUpdate, At
<1>2. /\ c \in Abstract!Change /\ c # NoCall /\ c.uid = req[p].token
      /\ req[p] \in Request /\ req[p].token # None
  BY <1>1, ChangeRuns
<1>3. callBar[p] = c /\ answerBar[p] = "pending" /\ UNCHANGED lateBar
  BY <1>1, Running, LateSame
<1>4. PICK err \in Errors :
         Write(req[p], user[p].password, err) /\ Answer(p, ChangeStatus(err))
  BY DEF ChangePasswordUpdate
<1>5. UpdatePassword(req[p], user[p].password, err)
  BY <1>1, <1>4 DEF Write
<1>6. /\ UNCHANGED callBar
      /\ answerBar' = [answerBar EXCEPT ![p] = AsAnswer(ChangeStatus(err))]
  BY <1>2, <1>4, AnswerMaps DEF RInv
<1>7. /\ user[p].uid = req[p].token
      /\ user[p].password.plain = req[p].old
  BY <1>1 DEF RInv, IInv, ProcOK
<1>8. \A q \in Procs : pc'[q] = "update" => pc[q] = "update" /\ user'[q] = user[q]
  BY <1>4 DEF ChangePasswordUpdate, Answer, RInv, IInv, ProcsOK
<1>9. CASE err = Nil
  <2>1. Abstract!Changed(c)
    BY <1>1, <1>2, <1>5, <1>7, <1>8, <1>9, ChangeGranted
  <2>2. AsAnswer(ChangeStatus(err)) = "yes"
    BY <1>9, StatusOfError, StatusAnswers
  <2> QED BY <1>2, <1>3, <1>6, <2>1, <2>2 DEF Abstract!CarryOut, Abstract!Granted
<1>10. CASE /\ err = ErrNoRows /\ UNCHANGED users
            /\ ~\E u \in users : u.uid = req[p].token /\ u.password = user[p].password
  <2>1. AsAnswer(ChangeStatus(err)) = "no"
    BY <1>10, StatusOfError, StatusAnswers
  <2>2. contendedBar[p]
    BY <1>1, <1>7, <1>10 DEF contendedBar, RInv, HashInv
  <2>3. UNCHANGED accountsBar /\ ContendedLess
    BY <1>10, AccountsSame, ContendedStays, StepRemembers DEF RInv
  <2>4. Abstract!Refused(c, contendedBar[p])
    BY <1>2, <2>2, <2>3, CallKinds DEF Abstract!Refused, Abstract!Refusable, ContendedLess
  <2> QED BY <1>2, <1>3, <1>6, <2>1, <2>4 DEF Abstract!CarryOut
<1>11. CASE err \in Rejections /\ UNCHANGED users
  <2>1. AsAnswer(ChangeStatus(err)) = "failed"
    BY <1>11, StatusOfError, StatusAnswers
  <2>2. UNCHANGED accountsBar /\ ContendedLess
    BY <1>11, AccountsSame, ContendedStays, StepRemembers DEF RInv
  <2> QED BY <1>2, <1>3, <1>6, <2>1, <2>2 DEF Abstract!GiveUp, ContendedLess
<1> QED BY <1>5, <1>9, <1>10, <1>11
        DEF UpdatePassword, UserUpdatePassword, Rejected, tables

(* The other handlers are not seen: they touch no row of users, and serve  *)
(* no call of Credentials.                                                 *)
LEMMA UnseenStep ==
    ASSUME UNCHANGED <<users, stray>>, NEW p \in Procs, OthersRest(p),
           AsCall(req[p]) = NoCall, req'[p] = req[p],
           contendedBar' = contendedBar
    PROVE  Unseen
<1>1. AnswerOf(p) = "pending" /\ AnswerOf(p)' = "pending"
  BY DEF AnswerOf
<1>2. UNCHANGED <<callBar, answerBar>>
  BY <1>1, CallsMap DEF callBar, answerBar
<1> QED BY <1>2, AccountsSame, LateSame DEF Unseen

LEMMA OtherHandlerStep ==
    ASSUME RInv, [Next]_vars, NEW p \in Procs,
           \/ GetUser(p) \/ GetCurrentUser(p) \/ GetScount(p)
           \/ CreateScount(p) \/ UpdateScount(p) \/ DeleteScount(p)
           \/ Panic(p)
    PROVE  Unseen
<1>1. pc[p] = "run" /\ req[p] \in Request
  BY DEF GetUser, GetCurrentUser, GetScount, CreateScount, UpdateScount, DeleteScount,
         Panic, At, RInv, IInv, ProcOK
<1>2. req[p].op \notin {"RegisterUser", "LoginUser", "ChangePassword"}
  <2>1. MissingKeys("RegisterUser") = {} /\ MissingKeys("LoginUser") = {}
        /\ MissingKeys("ChangePassword") = {}
    <3>1. Chain["RegisterUser"] = <<"BodyParser", "Validware">>
          /\ Chain["LoginUser"] = <<"BodyParser", "Validware">>
          /\ Chain["ChangePassword"] = <<"BodyParser", "Validware", "Authware">>
      BY DEF Chain
    <3>2. /\ Reads["RegisterUser"] = {"BodyKey"} /\ Reads["LoginUser"] = {"BodyKey"}
          /\ Reads["ChangePassword"] = {"BodyKey", "AuthUserKey"}
          /\ Sets["BodyParser"] = "BodyKey" /\ Sets["Authware"] = "AuthUserKey"
      BY DEF Reads, Sets
    <3> QED BY <3>1, <3>2 DEF MissingKeys
  <2> QED BY <2>1 DEF GetUser, GetCurrentUser, GetScount, CreateScount, UpdateScount,
                      DeleteScount, Panic, At
<1>3. AsCall(req[p]) = NoCall
  BY <1>1, <1>2, CallOfRequest
<1>4. PICK s : Answer(p, s)
  BY DEF GetUser, GetCurrentUser, GetScount, CreateScount, UpdateScount, DeleteScount,
         Panic
<1>5. UNCHANGED <<user, stray>>
  BY DEF GetUser, GetCurrentUser, GetScount, CreateScount, UpdateScount, DeleteScount,
         Panic
<1>6. UNCHANGED users
  <2>1. CASE CreateScount(p) \/ UpdateScount(p) \/ DeleteScount(p)
    <3>1. UNCHANGED tables \/ \E err \in Errors : Write(req[p], None, err)
      BY <2>1 DEF CreateScount, UpdateScount, DeleteScount
    <3> QED BY <1>2, <3>1, WriteHashes DEF RInv, IInv, tables
  <2> QED BY <2>1 DEF GetUser, GetCurrentUser, GetScount, Panic
<1>7. OthersRest(p) /\ pc'[p] = "reply" /\ req'[p] = req[p]
  BY <1>4 DEF Answer, OthersRest, RInv, IInv, ProcsOK
<1>8. contendedBar' = contendedBar
  BY <1>1, <1>5, <1>6, <1>7, ContendedSame DEF OthersRest
<1> QED BY <1>3, <1>5, <1>6, <1>7, <1>8, UnseenStep

(* A request arrives. *)
LEMMA ReceiveStep ==
    ASSUME RInv, [Next]_vars, NEW p \in Procs, NEW r \in Workload,
           Refuse(p, r) \/ Admit(p, r)
    PROVE  Abstract!Arrive(p) \/ Unseen
<1>1. r \in Request
  BY Constants
<1>2. /\ pc[p] = "idle" /\ pc'[p] \in {"run", "reply"} /\ req'[p] = r
      /\ OthersRest(p) /\ UNCHANGED <<users, user, stray>>
  BY DEF Refuse, Admit, OthersRest, RInv, IInv, ProcsOK
<1>3. AsCall(req[p]) = NoCall
  BY <1>2, NoCallIsNone DEF RInv, IdleInv
<1>4. contendedBar' = contendedBar
  BY <1>2, ContendedSame DEF OthersRest
<1>5. UNCHANGED accountsBar /\ UNCHANGED lateBar
  BY <1>2, AccountsSame, LateSame
<1>6. /\ callBar' = [callBar EXCEPT ![p] = AsCall(r)]
      /\ answerBar' = [answerBar EXCEPT ![p] = AnswerOf(p)']
      /\ callBar[p] = NoCall /\ answerBar[p] = "pending"
  BY <1>2, <1>3, CallsMap DEF AnswerOf
<1>7. CASE AsCall(r) = NoCall
  <2>1. AnswerOf(p)' = "pending"
    BY <1>2, <1>7 DEF AnswerOf
  <2>2. UNCHANGED <<callBar, answerBar>>
    BY <1>6, <1>7, <2>1 DEF callBar, answerBar
  <2> QED BY <1>4, <1>5, <2>2 DEF Unseen
<1>8. CASE AsCall(r) # NoCall
  <2>1. AsCall(r) \in Abstract!Call
    BY <1>1, <1>8, CallOfRequest DEF Abstract!Call
  <2>2. callBar'[p] = AsCall(r)
    BY <1>6 DEF callBar
  <2>3. AnswerOf(p)' \in {"pending", "rejected"}
    <3>1. CASE Admit(p, r)
      <4>1. pc'[p] = "run"
        BY <3>1 DEF Admit, RInv, IInv, ProcsOK
      <4> QED BY <4>1 DEF AnswerOf
    <3>2. CASE Refuse(p, r)
      <4>1. PICK s \in Statuses : RefusedWith(r, s) /\ status' = [status EXCEPT ![p] = s]
        BY <3>2 DEF Refuse
      <4>2. s \in {400, 401, 415}
        BY <4>1 DEF RefusedWith, Refusals, Verdict, Pass
      <4>3. status'[p] = s
        BY <4>1 DEF RInv, IInv, ProcsOK
      <4> QED BY <4>2, <4>3, StatusAnswers DEF AnswerOf
    <3> QED BY <3>1, <3>2
  <2> QED BY <1>4, <1>5, <1>6, <2>1, <2>2, <2>3 DEF Abstract!Arrive
<1> QED BY <1>7, <1>8

(* The answer leaves. *)
LEMMA ReplyStep ==
    ASSUME RInv, [Next]_vars, NEW p \in Procs, Reply(p)
    PROVE  Abstract!Return(p) \/ Unseen
<1>1. /\ pc[p] = "reply" /\ pc'[p] = "idle" /\ req'[p] = NoRequest
      /\ OthersRest(p) /\ UNCHANGED <<users, stray>>
      /\ \A q \in Procs \ {p} : user'[q] = user[q]
  BY DEF Reply, Idle, OthersRest, RInv, IInv, ProcsOK
<1>2. contendedBar' = contendedBar
  BY <1>1, ContendedSame DEF OthersRest
<1>3. UNCHANGED accountsBar /\ UNCHANGED lateBar
  BY <1>1, AccountsSame, LateSame
<1>4. AnswerOf(p)' = "pending"
  BY <1>1 DEF AnswerOf
<1>5. /\ callBar' = [callBar EXCEPT ![p] = NoCall]
      /\ answerBar' = [answerBar EXCEPT ![p] = "pending"]
      /\ callBar[p] = AsCall(req[p]) /\ answerBar[p] = AnswerOf(p)
  BY <1>1, <1>4, CallsMap, NoCallIsNone
<1>6. CASE AsCall(req[p]) = NoCall
  <2>1. AnswerOf(p) = "pending"
    BY <1>6 DEF AnswerOf
  <2>2. UNCHANGED <<callBar, answerBar>>
    BY <1>5, <1>6, <2>1 DEF callBar, answerBar
  <2> QED BY <1>2, <1>3, <2>2 DEF Unseen
<1>7. CASE AsCall(req[p]) # NoCall
  <2>1. answerBar[p] # "pending"
    BY <1>1, <1>5, <1>7, StatusAnswers DEF AnswerOf
  <2> QED BY <1>2, <1>3, <1>5, <1>7, <2>1 DEF Abstract!Return
<1> QED BY <1>6, <1>7

-----------------------------------------------------------------------------
(* Failures. *)

LEMMA NoWriteIsNoCall == AsCall(NoWrite.req) = NoCall
BY NoCallIsNone DEF NoWrite

(* The write that p has sent is the call it serves. *)
LEMMA SentIsCall ==
    ASSUME NEW p \in Procs, Sent(p) # NoWrite
    PROVE  /\ pc[p] \in {"run", "update"}
           /\ AsCall(Sent(p).req) = callBar[p] /\ answerBar[p] = "pending"
<1>1. pc[p] \in {"run", "update"} /\ Sent(p).req = req[p]
  BY DEF Sent
<1> QED BY <1>1, Running

(* Late calls after some processes stop: the ones there were, or the calls *)
(* of those that stop.                                                     *)
LEMMA AbandonMaps ==
    ASSUME RInv, NEW ps \in SUBSET Procs, Abandon(ps)
    PROVE  \A p \in Procs :
              \/ lateBar'[p] = lateBar[p]
              \/ /\ p \in ps /\ pc[p] \in {"run", "update"}
                 /\ answerBar[p] = "pending" /\ lateBar'[p] = callBar[p]
<1>1. PICK kept \in SUBSET {p \in ps \cap Outliving : Sent(p) # NoWrite} :
         stray' = [p \in Procs |-> IF p \in kept THEN Sent(p) ELSE stray[p]]
  BY DEF Abandon
<1>2. ASSUME NEW p \in Procs, p \in kept
      PROVE  /\ p \in ps /\ pc[p] \in {"run", "update"}
             /\ answerBar[p] = "pending" /\ lateBar'[p] = callBar[p]
  <2>1. p \in ps /\ Sent(p) # NoWrite /\ stray'[p] = Sent(p)
    BY <1>1, <1>2
  <2>2. lateBar'[p] = AsCall(Sent(p).req)
    BY <2>1 DEF lateBar
  <2> QED BY <2>1, <2>2, SentIsCall
<1>3. ASSUME NEW p \in Procs, p \notin kept PROVE lateBar'[p] = lateBar[p]
  <2>1. stray'[p] = stray[p]
    BY <1>1, <1>3
  <2> QED BY <2>1 DEF lateBar
<1> QED BY <1>2, <1>3

LEMMA FailStep ==
    ASSUME RInv, [Next]_vars, NEW p \in Procs, StatementFails(p)
    PROVE  Abstract!GiveUp(p) \/ Abstract!Forget(p) \/ Unseen
<1>1. /\ pc[p] \in {"run", "update"} /\ Answer(p, 500) /\ Abandon({p})
      /\ UNCHANGED users /\ user' = [user EXCEPT ![p] = None]
  BY DEF StatementFails
<1>2. pc'[p] = "reply" /\ req'[p] = req[p] /\ OthersRest(p)
  BY <1>1 DEF Answer, OthersRest, RInv, IInv, ProcsOK
<1>3. callBar[p] = AsCall(req[p]) /\ answerBar[p] = "pending"
  BY <1>1, Running
<1>4. UNCHANGED accountsBar
  BY <1>1, AccountsSame
<1>5. lateBar' = [lateBar EXCEPT ![p] = lateBar'[p]]
  <2>1. \A q \in Procs \ {p} : lateBar'[q] = lateBar[q]
    BY <1>1, AbandonMaps
  <2> QED BY <2>1, LateChanges
<1>6. lateBar'[p] \in {lateBar[p], callBar[p]}
  BY <1>1, AbandonMaps
<1>7. lateBar'[p] = lateBar[p] => UNCHANGED lateBar
  BY <1>5 DEF lateBar
<1>8. CASE AsCall(req[p]) # NoCall
  <2>1. /\ UNCHANGED callBar
        /\ answerBar' = [answerBar EXCEPT ![p] = "failed"]
    BY <1>1, <1>8, AnswerMaps, StatusAnswers DEF RInv
  <2>2. ContendedLess
    BY <1>1, ContendedStays, StepRemembers DEF RInv
  <2> QED BY <1>3, <1>4, <1>5, <1>6, <1>7, <1>8, <2>1, <2>2
          DEF Abstract!GiveUp, ContendedLess
<1>9. CASE AsCall(req[p]) = NoCall
  <2>1. AnswerOf(p)' = "pending"
    BY <1>2, <1>9 DEF AnswerOf
  <2>2. UNCHANGED <<callBar, answerBar>>
    <3>1. /\ callBar' = [callBar EXCEPT ![p] = NoCall]
          /\ answerBar' = [answerBar EXCEPT ![p] = "pending"]
      BY <1>2, <1>9, <2>1, CallsMap
    <3> QED BY <1>3, <1>9, <3>1 DEF callBar, answerBar
  <2>3. pc[p] = "run"
    BY <1>1, <1>9, ChangeRuns DEF RInv, IInv, ProcOK
  <2>4. contendedBar' = contendedBar
    <3>1. \A q \in Procs \ {p} : user'[q] = user[q]
      BY <1>1 DEF RInv, IInv, ProcsOK
    <3> QED BY <1>1, <1>2, <2>3, <3>1, ContendedSame DEF OthersRest
  <2> QED BY <1>3, <1>4, <1>5, <1>6, <1>7, <1>9, <2>2, <2>4 DEF Abstract!Forget, Unseen
<1> QED BY <1>8, <1>9

(* A stray write is gone without having run, or without effect on accounts *)
LEMMA StrayForgotten ==
    ASSUME RInv, NEW p \in Procs, stray' = [stray EXCEPT ![p] = NoWrite],
           UNCHANGED <<users, pc, req, user, status>>
    PROVE  Abstract!Forget(p) \/ Unseen
<1>1. /\ \A q \in Procs \ {p} : stray'[q] = stray[q]
      /\ stray'[p] = NoWrite
  BY DEF RInv, IInv, StraysOK
<1>2. lateBar' = [lateBar EXCEPT ![p] = NoCall]
  <2>1. lateBar'[p] = NoCall
    BY <1>1, NoWriteIsNoCall DEF lateBar
  <2>2. \A q \in Procs \ {p} : lateBar'[q] = lateBar[q]
    BY <1>1 DEF lateBar
  <2> QED BY <2>1, <2>2, LateChanges
<1>3. UNCHANGED <<accountsBar, callBar, answerBar, contendedBar>>
  BY DEF accountsBar, callBar, answerBar, contendedBar
<1>4. lateBar[p] = NoCall => UNCHANGED lateBar
  BY <1>2 DEF lateBar
<1> QED BY <1>2, <1>3, <1>4 DEF Abstract!Forget, Unseen

LEMMA StrayStep ==
    ASSUME RInv, [Next]_vars, NEW p \in Procs, StrayRuns(p) \/ StrayDropped(p)
    PROVE  Abstract!CarryOutLate(p) \/ Abstract!Forget(p) \/ Unseen
<1>1. /\ stray[p] # NoWrite /\ stray' = [stray EXCEPT ![p] = NoWrite]
      /\ UNCHANGED <<pc, req, user, status>>
  BY DEF StrayRuns, StrayDropped
<1>2. CASE UNCHANGED users
  BY <1>1, <1>2, StrayForgotten
<1>3. CASE users' # users
  <2> DEFINE r == stray[p].req
             old == stray[p].old
  <2>1. PICK err \in Errors : Write(r, old, err)
    BY <1>3 DEF StrayRuns, StrayDropped
  <2>2. StrayOK(stray[p]) /\ r \in Request
    BY <1>1 DEF RInv, IInv, StraysOK, StrayOK
  <2>3. r.op = "RegisterUser" \/ r.op = "ChangePassword"
    BY <1>3, <2>1, WriteHashes DEF RInv, IInv
  <2>4. err = Nil
    BY <1>3, <2>1, WriteChanges
  <2>5. /\ lateBar[p] = AsCall(r)
        /\ lateBar' = [lateBar EXCEPT ![p] = NoCall]
    <3>1. /\ \A q \in Procs \ {p} : stray'[q] = stray[q]
          /\ stray'[p] = NoWrite
      BY <1>1 DEF RInv, IInv, StraysOK
    <3> QED BY <3>1, NoWriteIsNoCall DEF lateBar
  <2>6. UNCHANGED <<callBar, answerBar>>
    BY <1>1 DEF callBar, answerBar
  <2>7. CASE r.op = "RegisterUser"
    <3>1. InsertUser(r, Nil)
      BY <2>1, <2>4, <2>7 DEF Write
    <3>2. Abstract!Registered(AsCall(r))
      BY <2>2, <2>7, <3>1, RegisterGranted, StepRemembers DEF RInv
    <3>3. AsCall(r) # NoCall
      BY <2>2, <2>7, CallOfRequest, NoCallIsNone
    <3> QED BY <2>5, <2>6, <3>2, <3>3 DEF Abstract!CarryOutLate, Abstract!Granted
  <2>8. CASE r.op = "ChangePassword"
    <3>1. UpdatePassword(r, old, Nil)
      BY <2>1, <2>4, <2>8 DEF Write
    <3>2. r.token # None
      BY <2>2, <2>8, TokenGiven DEF StrayOK, Authorized, RInv, IInv
    <3>3. old.plain = r.old
      BY <2>2, <2>8 DEF StrayOK
    <3>4. Abstract!Changed(AsCall(r))
      BY <1>1, <2>2, <2>8, <3>1, <3>2, <3>3, ChangeGranted
    <3>5. AsCall(r) # NoCall
      BY <2>2, <2>8, <3>2, CallOfRequest, NoCallIsNone
    <3> QED BY <2>5, <2>6, <3>4, <3>5 DEF Abstract!CarryOutLate, Abstract!Granted
  <2> QED BY <2>3, <2>7, <2>8
<1> QED BY <1>2, <1>3

LEMMA RestartStep ==
    ASSUME RInv, [Next]_vars, Restart
    PROVE  Abstract!Crash
<1>1. /\ pc' = [p \in Procs |-> "idle"] /\ req' = [p \in Procs |-> NoRequest]
      /\ Abandon(Procs) /\ UNCHANGED users
  BY DEF Restart
<1>2. callBar' = [p \in Procs |-> NoCall]
  BY <1>1, NoCallIsNone DEF callBar
<1>3. answerBar' = [p \in Procs |-> "pending"]
  BY <1>1 DEF answerBar
<1>4. \A p \in Procs : \/ lateBar'[p] = lateBar[p]
                       \/ answerBar[p] = "pending" /\ lateBar'[p] = callBar[p]
  BY <1>1, AbandonMaps
<1>5. UNCHANGED accountsBar /\ ContendedLess
  BY <1>1, AccountsSame, ContendedStays, StepRemembers DEF RInv
<1> QED BY <1>2, <1>3, <1>4, <1>5 DEF Abstract!Crash, ContendedLess

-----------------------------------------------------------------------------
(* The refinement. *)

LEMMA InitMaps == Init => Abstract!CInit
<1> SUFFICES ASSUME Init PROVE Abstract!CInit
  OBVIOUS
<1>1. accountsBar = {}
  BY DEF Init, TablesInit, accountsBar
<1>2. callBar = [p \in Procs |-> NoCall] /\ lateBar = [p \in Procs |-> NoCall]
  BY NoCallIsNone, NoWriteIsNoCall DEF Init, callBar, lateBar
<1>3. answerBar = [p \in Procs |-> "pending"]
  BY DEF Init, answerBar
<1>4. contendedBar = [p \in Procs |-> FALSE]
  BY DEF Init, contendedBar
<1> QED BY <1>1, <1>2, <1>3, <1>4 DEF Abstract!CInit

LEMMA StepMaps == RInv /\ [Next]_vars => [Abstract!CNext]_Abstract!cvars
<1> SUFFICES ASSUME RInv, [Next]_vars
             PROVE  Abstract!CNext \/ Unseen
  BY DEF Unseen, Abstract!cvars
<1> USE DEF Abstract!CNext
<1>1. ASSUME NEW p \in Procs, NEW r \in Workload, Refuse(p, r) \/ Admit(p, r)
      PROVE  Abstract!CNext \/ Unseen
  BY <1>1, ReceiveStep
<1>2. ASSUME NEW p \in Procs, Handler(p)
      PROVE  Abstract!CNext \/ Unseen
  BY <1>2, RegisterStep, LoginStep, ReadStep, ChangeStep, OtherHandlerStep DEF Handler
<1>3. ASSUME NEW p \in Procs, Reply(p)
      PROVE  Abstract!CNext \/ Unseen
  BY <1>3, ReplyStep
<1>4. ASSUME NEW p \in Procs, StatementFails(p)
      PROVE  Abstract!CNext \/ Unseen
  BY <1>4, FailStep
<1>5. ASSUME NEW p \in Procs, StrayRuns(p) \/ StrayDropped(p)
      PROVE  Abstract!CNext \/ Unseen
  BY <1>5, StrayStep
<1>6. CASE Restart
  BY <1>6, RestartStep
<1>7. CASE UNCHANGED vars \/ \E uid \in tokens : Expire(uid)
  BY <1>7 DEF vars, Expire, Unseen, accountsBar, callBar, answerBar, contendedBar, lateBar
<1> QED BY <1>1, <1>2, <1>3, <1>4, <1>5, <1>6, <1>7 DEF Next

(* Registration, login and password change are atomic (api/auth.go), each  *)
(* at one instant between the arrival of the request and its answer, or    *)
(* after it when the answer was lost: two statements of ChangePassword     *)
(* with bcrypt between them, the unique index behind RegisterUser and the  *)
(* single read of LoginUser keep the promise of Credentials.               *)
THEOREM CredentialsHold == Spec => CredentialsAtomic
BY InitMaps, StepMaps, HashesHold, PTL DEF Spec, CredentialsAtomic, Abstract!CSpec

=============================================================================
