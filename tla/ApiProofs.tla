------------------------------ MODULE ApiProofs ------------------------------
(***************************************************************************)
(* The safety properties of ApiProperties, proved for every set of         *)
(* processes, requests, users, scounts and hashes, with and without        *)
(* faults.  The invariant IInv is their conjunction, cut by the variables  *)
(* it is about: a step that only touches one process leaves the parts on   *)
(* the tables and on the strays alone.                                     *)
(***************************************************************************)
EXTENDS ApiProperties, TablesProofs

TablesOK == TablesTypeOK /\ Integrity /\ EveryScountHasMember

TokensOK == tokens \subseteq Uids /\ tokens \subseteq UidsOf(users)

ProcsOK ==
    /\ pc \in [Procs -> {"idle", "run", "update", "reply"}]
    /\ req \in [Procs -> Request \cup {NoRequest}]
    /\ user \in [Procs -> User \cup {None}]
    /\ status \in [Procs -> Statuses]

(* What is known of the process p at each label. *)
ProcOK(p) ==
    /\ pc[p] \in {"run", "update"} /\ req[p].op \in Authorized
          => req[p].token \in UidsOf(users)
    /\ pc[p] = "run" => req[p] \in Request
    /\ pc[p] = "update" =>
          /\ req[p] \in Request /\ req[p].op = "ChangePassword"
          /\ user[p] \in User
          /\ \E u \in users : u.uid = req[p].token /\ u.email = user[p].email
          /\ user[p].uid = req[p].token
          /\ user[p].password.plain = req[p].old
    /\ pc[p] = "reply" /\ req[p].op = "LoginUser" /\ status[p] = 200 =>
          \E u \in users : u.uid = user[p].uid /\ u.email = req[p].email

StrayOK(w) ==
    /\ w \in [req : Request, old : Hash \cup {None}] \cup {NoWrite}
    /\ w.req.op \in Authorized => w.req.token \in UidsOf(users)
    /\ w.req.op = "ChangePassword" => w.old.plain = w.req.old

StraysOK ==
    /\ stray = [p \in Procs |-> stray[p]]
    /\ \A p \in Procs : StrayOK(stray[p])

IInv ==
    /\ TablesOK /\ TokensOK
    /\ ProcsOK /\ \A p \in Procs : ProcOK(p)
    /\ StraysOK

LEMMA InvariantImplies ==
    ASSUME IInv
    PROVE  /\ TypeOK /\ Integrity /\ EveryScountHasMember
           /\ TokenSubjectsRegistered /\ HandlersRemember
<1>1. TypeOK
  BY DEF IInv, TablesOK, TokensOK, ProcsOK, ProcOK, StraysOK, StrayOK, TypeOK
<1>2. TokenSubjectsRegistered
  BY DEF IInv, TokensOK, ProcOK, StraysOK, StrayOK, TokenSubjectsRegistered
<1>3. HandlersRemember
  BY DEF IInv, ProcOK, StraysOK, StrayOK, HandlersRemember
<1> QED BY <1>1, <1>2, <1>3 DEF IInv, TablesOK

-----------------------------------------------------------------------------
(* Requests. *)

(* The fields that a request has follow from its op. *)
LEMMA RequestFields ==
    ASSUME NEW r \in Request
    PROVE  /\ r.op # "none"
           /\ r.op = "RegisterUser" =>
                 r.email \in Emails /\ r.username \in Names /\ r.password \in Passwords
           /\ r.op = "ChangePassword" => r.new \in Passwords
           /\ r.op = "CreateScount" => r.title \in Titles \cup {None}
           /\ r.op = "UpdateScount" =>
                 r.owner \in Uids \cup {None} /\ r.title \in Titles \cup {None}
           /\ r.op \in DOMAIN Chain
BY DEF Request, RegisterRequest, LoginRequest, PasswordChanger, GetUserRequest,
       MeRequest, ScountRequest, GetScountRequest, ScountUpdater,
       DeleteScountRequest, Chain

(* Every route of Authorized has Authware in its chain. *)
LEMMA AuthorizedChains ==
    ASSUME NEW op \in Authorized
    PROVE  \E i \in DOMAIN Chain[op] : Chain[op][i] = "Authware"
<1>1. CASE op = "ChangePassword"
  <2>1. Chain[op] = <<"BodyParser", "Validware", "Authware">>
    BY <1>1 DEF Chain
  <2> QED BY <2>1
<1>2. CASE op \in {"UpdateUser", "DeleteUser", "GetUser"}
  <2>1. Chain[op] = <<"Authware">>
    BY <1>2 DEF Chain
  <2> QED BY <2>1
<1>3. CASE op = "GetCurrentUser"
  <2>1. Chain[op] = <<"Authware", "setCurrentUser">>
    BY <1>3 DEF Chain
  <2> QED BY <2>1
<1>4. CASE op \in {"GetScount", "DeleteScount"}
  <2>1. Chain[op] = <<"Authware", "ScountPathWare">>
    BY <1>4 DEF Chain
  <2> QED BY <2>1
<1>5. CASE op = "CreateScount"
  <2>1. Chain[op] = <<"Authware", "BodyParser", "Validware">>
    BY <1>5 DEF Chain
  <2> QED BY <2>1
<1>6. CASE op = "UpdateScount"
  <2>1. Chain[op] = <<"Authware", "ScountPathWare", "BodyParser", "Validware">>
    BY <1>6 DEF Chain
  <2> QED BY <2>1
<1> QED BY <1>1, <1>2, <1>3, <1>4, <1>5, <1>6 DEF Authorized

(* Hence a request of Authorized that is admitted has an accepted token. *)
LEMMA AdmittedBearsToken ==
    ASSUME NEW r, r.op \in Authorized, Refusals(r) = {}
    PROVE  r.token \in tokens
<1>1. PICK i \in DOMAIN Chain[r.op] : Chain[r.op][i] = "Authware"
  BY AuthorizedChains
<1>2. Verdict("Authware", r) = Pass
  BY <1>1 DEF Refusals
<1>3. r.token \notin tokens => Verdict("Authware", r) = 401
  BY DEF Verdict
<1> QED BY <1>2, <1>3 DEF Pass

-----------------------------------------------------------------------------
(* Writes. *)

LEMMA FreshHash ==
    ASSUME FreshSalts # {}, NEW password \in Passwords
    PROVE  GenerateFromPassword(password) \in Hash
BY DEF FreshSalts, GenerateFromPassword, Hash

(* What every write leaves in order: the constraints of the tables, a      *)
(* member for each scount, and all that names a row.                       *)
NamesStay ==
    /\ UsersStay
    /\ SidsOf(scounts) \subseteq SidsOf(scounts')
    /\ members \subseteq members'

LEMMA WriteKeeps ==
    ASSUME TablesOK, NEW r \in Request, NEW old, NEW err, Write(r, old, err),
           r.op \in Authorized => r.token \in UidsOf(users)
    PROVE  TablesOK' /\ NamesStay
<1>0. UidsOf(users) \subseteq Uids
  BY DEF TablesOK, TablesTypeOK, UidsOf, User
<1>1. CASE r.op = "RegisterUser" /\ InsertUser(r, err)
  <2>1. PICK id \in Uids :
          /\ FreshSalts # {}
          /\ UserInsert([uid |-> id, email |-> r.email, username |-> r.username,
                         password |-> GenerateFromPassword(r.password)], err)
    BY <1>1 DEF InsertUser
  <2>2. [uid |-> id, email |-> r.email, username |-> r.username,
         password |-> GenerateFromPassword(r.password)] \in User
    BY <1>1, <2>1, RequestFields, FreshHash DEF User
  <2>3. /\ TablesTypeOK' /\ Integrity' /\ UsersStay
        /\ UNCHANGED <<scounts, members>>
    BY <2>1, <2>2, UserInsertKeeps DEF TablesOK
  <2> QED BY <2>3 DEF TablesOK, EveryScountHasMember, NamesStay
<1>2. CASE r.op = "ChangePassword" /\ UpdatePassword(r, old, err)
  <2>1. GenerateFromPassword(r.new) \in Hash
    BY <1>2, RequestFields, FreshHash DEF UpdatePassword
  <2>2. /\ TablesTypeOK' /\ Integrity' /\ UsersStay
        /\ UNCHANGED <<scounts, members>>
    BY <1>2, <2>1, UserUpdatePasswordKeeps DEF UpdatePassword, TablesOK
  <2> QED BY <2>2 DEF TablesOK, EveryScountHasMember, NamesStay
<1>3. CASE r.op = "CreateScount" /\ InsertScount(r, err)
  <2>1. PICK id \in Sids :
          ScountInsert([sid |-> id, owner |-> r.token, title |-> r.title], err)
    BY <1>3 DEF InsertScount
  <2>2. [sid |-> id, owner |-> r.token, title |-> r.title] \in Scount
    BY <1>0, <1>3, RequestFields DEF Scount, Authorized
  <2>3. /\ TablesTypeOK' /\ Integrity'
        /\ UNCHANGED users
        /\ scounts \subseteq scounts' /\ members \subseteq members'
        /\ \A t \in scounts' \ scounts : \E m \in members' : m.sid = t.sid
    BY <2>1, <2>2, ScountInsertKeeps DEF TablesOK
  <2> QED BY <2>3 DEF TablesOK, EveryScountHasMember, NamesStay, UsersStay, SidsOf
<1>4. CASE r.op = "UpdateScount" /\ ScountUpdate(r.sid, r.owner, r.title, err)
  <2>1. /\ TablesTypeOK' /\ Integrity'
        /\ UNCHANGED <<users, members>>
        /\ SidsOf(scounts') = SidsOf(scounts)
    BY <1>4, RequestFields, ScountUpdateKeeps DEF TablesOK
  <2>2. EveryScountHasMember'
    BY <2>1 DEF TablesOK, EveryScountHasMember, SidsOf
  <2> QED BY <2>1, <2>2 DEF TablesOK, NamesStay, UsersStay
<1>5. CASE r.op = "DeleteScount" /\ ScountDelete(r.sid, err)
  <2>1. /\ TablesTypeOK' /\ Integrity'
        /\ UNCHANGED <<users, members>>
        /\ scounts' \subseteq scounts
        /\ \A s \in scounts \ scounts' : s.sid \notin SidsOf(members)
    BY <1>5, ScountDeleteKeeps DEF TablesOK
  <2>2. scounts' = scounts
    BY <2>1 DEF TablesOK, EveryScountHasMember, SidsOf
  <2> QED BY <2>1, <2>2 DEF TablesOK, EveryScountHasMember, NamesStay, UsersStay
<1> QED BY <1>1, <1>2, <1>3, <1>4, <1>5 DEF Write

-----------------------------------------------------------------------------
(* Steps. *)

LEMMA TablesUnchanged ==
    ASSUME TablesOK, UNCHANGED <<users, scounts, members>>
    PROVE  TablesOK' /\ NamesStay
BY DEF TablesOK, TablesTypeOK, Integrity, Keys, References, EveryScountHasMember,
       NamesStay, UsersStay, UidsOf, SidsOf

LEMMA StraysUnchanged ==
    ASSUME StraysOK, UsersStay, UNCHANGED stray
    PROVE  StraysOK'
BY UsersStayUids DEF StraysOK, StrayOK

LEMMA TokensUnchanged ==
    ASSUME TokensOK, UsersStay, tokens' \subseteq tokens
    PROVE  TokensOK'
BY UsersStayUids DEF TokensOK

(* What is known of a process stays true while the others take steps. *)
LEMMA ProcUnchanged ==
    ASSUME NEW p \in Procs, ProcOK(p), UsersStay,
           pc'[p] = pc[p], req'[p] = req[p], user'[p] = user[p], status'[p] = status[p]
    PROVE  ProcOK(p)'
<1>1. UidsOf(users) \subseteq UidsOf(users')
  BY UsersStayUids
<1>2. \A uid, email : (\E u \in users : u.uid = uid /\ u.email = email) =>
                      (\E u \in users' : u.uid = uid /\ u.email = email)
  BY DEF UsersStay
<1>3. pc[p] = "update" =>
         \E u \in users' : u.uid = req[p].token /\ u.email = user[p].email
  BY <1>2 DEF ProcOK
<1>4. pc[p] = "reply" /\ req[p].op = "LoginUser" /\ status[p] = 200 =>
         \E u \in users' : u.uid = user[p].uid /\ u.email = req[p].email
  BY <1>2 DEF ProcOK
<1> QED BY <1>1, <1>3, <1>4 DEF ProcOK

(* A handler answers: it is left with the user it has logged in, if so. *)
LEMMA AnswerKeeps ==
    ASSUME IInv, TablesOK', UsersStay, tokens' = tokens, StraysOK',
           NEW p \in Procs, NEW s \in Statuses, Answer(p, s),
           user' \in [Procs -> User \cup {None}],
           \A q \in Procs \ {p} : user'[q] = user[q],
           req[p].op = "LoginUser" /\ s = 200 =>
              \E u \in users' : u.uid = user'[p].uid /\ u.email = req[p].email
    PROVE  IInv'
<1>1. ProcsOK'
  BY DEF IInv, ProcsOK, Answer
<1>2. pc'[p] = "reply" /\ req'[p] = req[p] /\ status'[p] = s
  BY DEF IInv, ProcsOK, Answer
<1>3. ProcOK(p)'
  BY <1>2 DEF ProcOK
<1>4. ASSUME NEW q \in Procs \ {p} PROVE ProcOK(q)'
  <2>1. pc'[q] = pc[q] /\ req'[q] = req[q] /\ status'[q] = status[q]
    BY DEF IInv, ProcsOK, Answer
  <2> QED BY <2>1, ProcUnchanged DEF IInv
<1>5. TokensOK'
  BY TokensUnchanged DEF IInv
<1> QED BY <1>1, <1>3, <1>4, <1>5 DEF IInv

(* The read-only handlers, and those that panic. *)
LEMMA ReadOnlyKeeps ==
    ASSUME IInv, NEW p \in Procs, NEW s \in Statuses, Answer(p, s),
           req[p].op # "LoginUser" \/ s # 200,
           UNCHANGED <<users, scounts, members, tokens, user, stray>>
    PROVE  IInv' /\ NamesStay
<1>1. TablesOK' /\ NamesStay
  BY TablesUnchanged DEF IInv
<1>2. StraysOK'
  BY <1>1, StraysUnchanged DEF IInv, NamesStay
<1>3. user' \in [Procs -> User \cup {None}]
  BY DEF IInv, ProcsOK
<1> QED BY <1>1, <1>2, <1>3, AnswerKeeps DEF NamesStay

(* A handler writes and answers. *)
LEMMA WriteAnswers ==
    ASSUME IInv, NEW p \in Procs, pc[p] \in {"run", "update"},
           NEW old, NEW err, Write(req[p], old, err),
           NEW s \in Statuses, Answer(p, s),
           UNCHANGED <<tokens, stray>>,
           user' \in {user, [user EXCEPT ![p] = None]}
    PROVE  IInv' /\ NamesStay
<1>1. ProcOK(p)
  BY DEF IInv
<1>2. req[p] \in Request
  BY <1>1 DEF ProcOK
<1>3. TablesOK' /\ NamesStay
  BY <1>1, <1>2, WriteKeeps DEF IInv, ProcOK
<1>4. StraysOK'
  BY <1>3, StraysUnchanged DEF IInv, NamesStay
<1>5. req[p].op # "LoginUser"
  BY DEF Write
<1>6. /\ user' \in [Procs -> User \cup {None}]
      /\ \A q \in Procs \ {p} : user'[q] = user[q]
  BY DEF IInv, ProcsOK
<1> QED BY <1>3, <1>4, <1>5, <1>6, AnswerKeeps DEF NamesStay

(* The status a handler maps an error to is one of Statuses. *)
LEMMA StatusesOfErrors ==
    ASSUME NEW err
    PROVE  {InsertStatus(err), ChangeStatus(err), ScountStatus(err)} \subseteq Statuses
BY DEF InsertStatus, ChangeStatus, ScountStatus, Statuses

LEMMA HandlerKeeps ==
    ASSUME IInv, NEW p \in Procs, Handler(p)
    PROVE  IInv' /\ NamesStay
<1>1. CASE RegisterUser(p)
  <2>1. PICK err \in Errors : Write(req[p], None, err) /\ Answer(p, InsertStatus(err))
    BY <1>1 DEF RegisterUser
  <2> QED BY <1>1, <2>1, WriteAnswers, StatusesOfErrors DEF RegisterUser, At
<1>2. CASE LoginUser(p)
  <2>1. CASE Answer(p, 422) /\ UNCHANGED user
    BY <1>2, <2>1, ReadOnlyKeeps DEF LoginUser, Statuses
  <2>2. CASE \E u \in users : /\ u.email = req[p].email
                              /\ Answer(p, 200)
                              /\ user' = [user EXCEPT ![p] = u]
    <3>1. PICK u \in users : /\ u.email = req[p].email
                             /\ Answer(p, 200)
                             /\ user' = [user EXCEPT ![p] = u]
      BY <2>2
    <3>2. TablesOK' /\ NamesStay
      BY <1>2, TablesUnchanged DEF IInv, LoginUser
    <3>3. StraysOK'
      BY <1>2, <3>2, StraysUnchanged DEF IInv, NamesStay, LoginUser
    <3>4. u \in User /\ u \in users'
      BY <1>2 DEF IInv, TablesOK, TablesTypeOK, LoginUser
    <3>5. /\ user' \in [Procs -> User \cup {None}]
          /\ user'[p] = u /\ \A q \in Procs \ {p} : user'[q] = user[q]
      BY <3>1, <3>4 DEF IInv, ProcsOK
    <3>6. tokens' = tokens /\ 200 \in Statuses
      BY <1>2 DEF LoginUser, Statuses
    <3>7. \E v \in users' : v.uid = user'[p].uid /\ v.email = req[p].email
      BY <3>1, <3>4, <3>5
    <3> QED BY <3>1, <3>2, <3>3, <3>5, <3>6, <3>7, AnswerKeeps DEF NamesStay
  <2> QED BY <1>2, <2>1, <2>2 DEF LoginUser
<1>3. CASE ChangePassword(p)
  <2>1. CASE \E s \in {401, 422} : Answer(p, s) /\ UNCHANGED user
    <3>1. PICK s \in {401, 422} : Answer(p, s) /\ UNCHANGED user
      BY <2>1
    <3> QED BY <1>3, <3>1, ReadOnlyKeeps DEF ChangePassword, Statuses
  <2>2. CASE \E u \in users : /\ u.uid = req[p].token
                              /\ CompareHashAndPassword(u.password, req[p].old)
                              /\ pc' = [pc EXCEPT ![p] = "update"]
                              /\ user' = [user EXCEPT ![p] = u]
                              /\ UNCHANGED <<req, status>>
    <3>1. PICK u \in users : /\ u.uid = req[p].token
                             /\ CompareHashAndPassword(u.password, req[p].old)
                             /\ pc' = [pc EXCEPT ![p] = "update"]
                             /\ user' = [user EXCEPT ![p] = u]
                             /\ UNCHANGED <<req, status>>
      BY <2>2
    <3>2. TablesOK' /\ NamesStay
      BY <1>3, TablesUnchanged DEF IInv, ChangePassword
    <3>3. StraysOK' /\ TokensOK'
      BY <1>3, <3>2, StraysUnchanged, TokensUnchanged
         DEF IInv, NamesStay, ChangePassword
    <3>4. u \in User /\ u \in users'
      BY <1>3 DEF IInv, TablesOK, TablesTypeOK, ChangePassword
    <3>5. ProcsOK'
      BY <3>1, <3>4 DEF IInv, ProcsOK
    <3>6. pc'[p] = "update" /\ user'[p] = u /\ req'[p] = req[p]
      BY <3>1 DEF IInv, ProcsOK
    <3>7. req[p] \in Request /\ req[p].op = "ChangePassword"
      BY <1>3 DEF IInv, ProcOK, ChangePassword, At
    <3>8. ProcOK(p)'
      BY <3>1, <3>4, <3>6, <3>7 DEF ProcOK, UidsOf, CompareHashAndPassword
    <3>9. ASSUME NEW q \in Procs \ {p} PROVE ProcOK(q)'
      <4>1. /\ pc'[q] = pc[q] /\ req'[q] = req[q]
            /\ user'[q] = user[q] /\ status'[q] = status[q]
        BY <3>1 DEF IInv, ProcsOK
      <4> QED BY <3>2, <4>1, ProcUnchanged DEF IInv, NamesStay
    <3> QED BY <3>2, <3>3, <3>5, <3>8, <3>9 DEF IInv
  <2> QED BY <1>3, <2>1, <2>2 DEF ChangePassword
<1>4. CASE ChangePasswordUpdate(p)
  <2>1. PICK err \in Errors :
           Write(req[p], user[p].password, err) /\ Answer(p, ChangeStatus(err))
    BY <1>4 DEF ChangePasswordUpdate
  <2> QED BY <1>4, <2>1, WriteAnswers, StatusesOfErrors DEF ChangePasswordUpdate, At
<1>5. CASE GetUser(p) \/ GetCurrentUser(p) \/ GetScount(p)
  <2>1. PICK s \in {200, 404} : Answer(p, s)
    BY <1>5 DEF GetUser, GetCurrentUser, GetScount, FetchStatus
  <2>2. req[p].op # "LoginUser"
    BY <1>5 DEF GetUser, GetCurrentUser, GetScount, At
  <2> QED BY <1>5, <2>1, <2>2, ReadOnlyKeeps
             DEF GetUser, GetCurrentUser, GetScount, Statuses
<1>6. CASE CreateScount(p)
  <2>1. PICK err \in Errors : Write(req[p], None, err) /\ Answer(p, InsertStatus(err))
    BY <1>6 DEF CreateScount
  <2> QED BY <1>6, <2>1, WriteAnswers, StatusesOfErrors DEF CreateScount, At
<1>7. CASE UpdateScount(p)
  <2>1. CASE Answer(p, 204) /\ UNCHANGED tables
    BY <1>7, <2>1, ReadOnlyKeeps DEF UpdateScount, At, Statuses, tables
  <2>2. CASE \E err \in Errors :
                Write(req[p], None, err) /\ Answer(p, ScountStatus(err))
    <3>1. PICK err \in Errors : Write(req[p], None, err) /\ Answer(p, ScountStatus(err))
      BY <2>2
    <3> QED BY <1>7, <3>1, WriteAnswers, StatusesOfErrors DEF UpdateScount, At
  <2> QED BY <1>7, <2>1, <2>2 DEF UpdateScount
<1>8. CASE DeleteScount(p)
  <2>1. PICK err \in Errors : Write(req[p], None, err) /\ Answer(p, ScountStatus(err))
    BY <1>8 DEF DeleteScount
  <2> QED BY <1>8, <2>1, WriteAnswers, StatusesOfErrors DEF DeleteScount, At
<1>9. CASE Panic(p)
  BY <1>9, ReadOnlyKeeps DEF Panic, Statuses, Aborted
<1> QED BY <1>1, <1>2, <1>3, <1>4, <1>5, <1>6, <1>7, <1>8, <1>9 DEF Handler

(* The write that a process has sent is one that StraysOK allows. *)
LEMMA SentOK ==
    ASSUME IInv, NEW p \in Procs, Sent(p) # NoWrite
    PROVE  StrayOK(Sent(p))
<1>1. CASE pc[p] = "update"
  <2>1. Sent(p) = [req |-> req[p], old |-> user[p].password]
    BY <1>1 DEF Sent
  <2>2. req[p] \in Request /\ user[p].password \in Hash
    BY <1>1 DEF IInv, ProcOK, User
  <2> QED BY <1>1, <2>1, <2>2 DEF IInv, ProcOK, StrayOK
<1>2. CASE /\ pc[p] = "run"
           /\ req[p].op \in {"RegisterUser", "CreateScount", "UpdateScount",
                             "DeleteScount"}
           /\ Sent(p) = [req |-> req[p], old |-> None]
  <2>1. req[p] \in Request
    BY <1>2 DEF IInv, ProcOK
  <2> QED BY <1>2, <2>1 DEF IInv, ProcOK, StrayOK
<1> QED BY <1>1, <1>2 DEF Sent

LEMMA AbandonKeepsStrays ==
    ASSUME IInv, UsersStay, NEW ps \in SUBSET Procs, Abandon(ps)
    PROVE  StraysOK'
<1>1. PICK kept \in SUBSET {p \in ps \cap Outliving : Sent(p) # NoWrite} :
         stray' = [p \in Procs |-> IF p \in kept THEN Sent(p) ELSE stray[p]]
  BY DEF Abandon
<1>2. ASSUME NEW w, StrayOK(w) PROVE StrayOK(w)'
  BY <1>2, UsersStayUids DEF StrayOK
<1>3. ASSUME NEW p \in Procs PROVE StrayOK(stray'[p])
  BY <1>1, SentOK DEF IInv, StraysOK
<1>4. ASSUME NEW p \in Procs PROVE StrayOK(stray[p])'
  BY <1>3, <1>2, UsersStayUids DEF StrayOK
<1>5. stray' = [p \in Procs |-> stray'[p]]
  BY <1>1
<1> QED BY <1>4, <1>5 DEF StraysOK

(* A stray write is gone, or has run. *)
LEMMA StrayGone ==
    ASSUME StraysOK, UsersStay, NEW p \in Procs,
           stray' = [stray EXCEPT ![p] = NoWrite]
    PROVE  StraysOK'
<1>1. ASSUME NEW q \in Procs \ {p} PROVE stray'[q] = stray[q]
  BY DEF StraysOK
<1>2. stray'[p] = NoWrite
  BY DEF StraysOK
<1>3. ASSUME NEW q \in Procs PROVE StrayOK(stray[q])'
  BY <1>1, <1>2, UsersStayUids DEF StraysOK, StrayOK, NoWrite, NoRequest, Authorized
<1>4. stray' = [q \in Procs |-> stray'[q]]
  BY DEF StraysOK
<1> QED BY <1>3, <1>4 DEF StraysOK

(* All processes keep their state. *)
LEMMA LocalUnchanged ==
    ASSUME IInv, UsersStay, UNCHANGED <<pc, req, user, status>>
    PROVE  ProcsOK' /\ \A p \in Procs : ProcOK(p)'
BY ProcUnchanged DEF IInv, ProcsOK

(* A process becomes idle, or takes a request in. *)
LEMMA ReceiveKeeps ==
    ASSUME IInv, NEW p \in Procs, NEW r \in Workload, Refuse(p, r) \/ Admit(p, r)
    PROVE  IInv' /\ NamesStay
<1>1. TablesOK' /\ NamesStay
  BY TablesUnchanged DEF IInv, Refuse, Admit
<1>2. StraysOK' /\ TokensOK'
  BY <1>1, StraysUnchanged, TokensUnchanged DEF IInv, NamesStay, Refuse, Admit
<1>3. r \in Request
  BY Constants
<1>4. ProcsOK'
  BY <1>3 DEF IInv, ProcsOK, Refuse, Admit
<1>5. ASSUME NEW q \in Procs \ {p} PROVE ProcOK(q)'
  <2>1. /\ pc'[q] = pc[q] /\ req'[q] = req[q]
        /\ user'[q] = user[q] /\ status'[q] = status[q]
    BY DEF IInv, ProcsOK, Refuse, Admit
  <2> QED BY <1>1, <2>1, ProcUnchanged DEF IInv, NamesStay
<1>6. CASE Admit(p, r)
  <2>1. pc'[p] = "run" /\ req'[p] = r
    BY <1>6 DEF IInv, ProcsOK, Admit
  <2>2. r.op \in Authorized => r.token \in UidsOf(users')
    BY <1>6, AdmittedBearsToken DEF IInv, TokensOK, Admit
  <2>3. ProcOK(p)'
    BY <1>3, <2>1, <2>2 DEF ProcOK
  <2> QED BY <1>1, <1>2, <1>4, <1>5, <2>3 DEF IInv
<1>7. CASE Refuse(p, r)
  <2>1. pc'[p] = "reply" /\ req'[p] = r
    BY <1>7 DEF IInv, ProcsOK, Refuse
  <2>2. PICK s \in Statuses : RefusedWith(r, s) /\ status' = [status EXCEPT ![p] = s]
    BY <1>7 DEF Refuse
  <2>3. s # 200
    BY <2>2 DEF RefusedWith, Refusals, Verdict, Pass
  <2>4. status'[p] # 200
    BY <2>2, <2>3 DEF IInv, ProcsOK
  <2>5. ProcOK(p)'
    BY <2>1, <2>4 DEF ProcOK
  <2> QED BY <1>1, <1>2, <1>4, <1>5, <2>5 DEF IInv
<1> QED BY <1>6, <1>7

LEMMA ReplyKeeps ==
    ASSUME IInv, NEW p \in Procs, Reply(p)
    PROVE  IInv' /\ NamesStay
<1>1. TablesOK' /\ NamesStay
  BY TablesUnchanged DEF IInv, Reply
<1>2. StraysOK'
  BY <1>1, StraysUnchanged DEF IInv, NamesStay, Reply
<1>3. ProcsOK'
  BY DEF IInv, ProcsOK, Reply, Idle, Statuses, Aborted
<1>4. ASSUME NEW q \in Procs \ {p} PROVE ProcOK(q)'
  <2>1. /\ pc'[q] = pc[q] /\ req'[q] = req[q]
        /\ user'[q] = user[q] /\ status'[q] = status[q]
    BY DEF IInv, ProcsOK, Reply, Idle
  <2> QED BY <1>1, <2>1, ProcUnchanged DEF IInv, NamesStay
<1>5. ProcOK(p)'
  <2>1. pc'[p] = "idle"
    BY DEF IInv, ProcsOK, Reply, Idle
  <2> QED BY <2>1 DEF ProcOK
<1>6. TokensOK'
  <2>1. CASE tokens' = tokens
    BY <1>1, <2>1, TokensUnchanged DEF IInv, NamesStay
  <2>2. CASE /\ req[p].op = "LoginUser" /\ status[p] = 200
             /\ tokens' = tokens \cup {user[p].uid}
    <3>1. PICK u \in users : u.uid = user[p].uid
      BY <2>2 DEF IInv, ProcOK, Reply
    <3>2. user[p].uid \in Uids /\ user[p].uid \in UidsOf(users')
      BY <3>1 DEF IInv, TablesOK, TablesTypeOK, User, UidsOf, Reply
    <3>3. tokens \subseteq UidsOf(users')
      BY <1>1, UsersStayUids DEF IInv, TokensOK, NamesStay
    <3> QED BY <2>2, <3>2, <3>3 DEF IInv, TokensOK
  <2> QED BY <2>1, <2>2 DEF Reply
<1> QED BY <1>1, <1>2, <1>3, <1>4, <1>5, <1>6 DEF IInv

LEMMA FaultKeeps ==
    ASSUME IInv,
           \/ \E p \in Procs : StatementFails(p) \/ StrayRuns(p) \/ StrayDropped(p)
           \/ Restart
           \/ \E uid \in tokens : Expire(uid)
    PROVE  IInv' /\ NamesStay
<1>1. ASSUME NEW p \in Procs, StatementFails(p) PROVE IInv' /\ NamesStay
  <2>1. TablesOK' /\ NamesStay
    BY <1>1, TablesUnchanged DEF IInv, StatementFails
  <2>2. StraysOK'
    BY <1>1, <2>1, AbandonKeepsStrays DEF StatementFails, NamesStay
  <2>3. /\ user' \in [Procs -> User \cup {None}]
        /\ \A q \in Procs \ {p} : user'[q] = user[q]
    BY <1>1 DEF IInv, ProcsOK, StatementFails
  <2>4. Answer(p, 500) /\ 500 \in Statuses /\ tokens' = tokens
    BY <1>1 DEF StatementFails, Statuses
  <2> QED BY <2>1, <2>2, <2>3, <2>4, AnswerKeeps DEF NamesStay
<1>2. ASSUME NEW p \in Procs, StrayRuns(p) PROVE IInv' /\ NamesStay
  <2>1. PICK err \in Errors : Write(stray[p].req, stray[p].old, err)
    BY <1>2 DEF StrayRuns
  <2>2. StrayOK(stray[p]) /\ stray[p] # NoWrite
    BY <1>2 DEF IInv, StraysOK, StrayRuns
  <2>3. stray[p].req \in Request
    BY <2>2 DEF StrayOK
  <2>4. TablesOK' /\ NamesStay
    BY <2>1, <2>2, <2>3, WriteKeeps DEF IInv, StrayOK
  <2>5. StraysOK'
    BY <1>2, <2>4, StrayGone DEF IInv, StrayRuns, NamesStay
  <2>6. TokensOK'
    BY <1>2, <2>4, TokensUnchanged DEF IInv, StrayRuns, NamesStay
  <2>7. ProcsOK' /\ \A q \in Procs : ProcOK(q)'
    BY <1>2, <2>4, LocalUnchanged DEF StrayRuns, NamesStay
  <2> QED BY <2>4, <2>5, <2>6, <2>7 DEF IInv
<1>3. ASSUME NEW p \in Procs, StrayDropped(p) PROVE IInv' /\ NamesStay
  <2>1. TablesOK' /\ NamesStay
    BY <1>3, TablesUnchanged DEF IInv, StrayDropped
  <2>2. StraysOK'
    BY <1>3, <2>1, StrayGone DEF IInv, StrayDropped, NamesStay
  <2>3. TokensOK'
    BY <1>3, <2>1, TokensUnchanged DEF IInv, StrayDropped, NamesStay
  <2>4. ProcsOK' /\ \A q \in Procs : ProcOK(q)'
    BY <1>3, <2>1, LocalUnchanged DEF StrayDropped, NamesStay
  <2> QED BY <2>1, <2>2, <2>3, <2>4 DEF IInv
<1>4. CASE Restart
  <2>1. TablesOK' /\ NamesStay
    BY <1>4, TablesUnchanged DEF IInv, Restart
  <2>2. StraysOK'
    BY <1>4, <2>1, AbandonKeepsStrays DEF Restart, NamesStay
  <2>3. TokensOK'
    BY <1>4, <2>1, TokensUnchanged DEF IInv, Restart, NamesStay
  <2>4. ProcsOK'
    BY <1>4 DEF Restart, ProcsOK, Statuses, Aborted
  <2>5. \A q \in Procs : ProcOK(q)'
    BY <1>4 DEF Restart, ProcOK
  <2> QED BY <2>1, <2>2, <2>3, <2>4, <2>5 DEF IInv
<1>5. ASSUME NEW uid \in tokens, Expire(uid) PROVE IInv' /\ NamesStay
  <2>1. TablesOK' /\ NamesStay
    BY <1>5, TablesUnchanged DEF IInv, Expire
  <2>2. StraysOK'
    BY <1>5, <2>1, StraysUnchanged DEF IInv, Expire, NamesStay
  <2>3. TokensOK'
    BY <1>5, <2>1, TokensUnchanged DEF IInv, Expire, NamesStay
  <2>4. ProcsOK' /\ \A q \in Procs : ProcOK(q)'
    BY <1>5, <2>1, LocalUnchanged DEF Expire, NamesStay
  <2> QED BY <2>1, <2>2, <2>3, <2>4 DEF IInv
<1> QED BY <1>1, <1>2, <1>3, <1>4, <1>5

-----------------------------------------------------------------------------
(* The invariant. *)

LEMMA InitEstablishes == Init => IInv
<1> SUFFICES ASSUME Init PROVE IInv
  OBVIOUS
<1>1. TablesOK
  BY DEF Init, TablesInit, TablesOK, TablesTypeOK, Integrity, Keys, References,
         EveryScountHasMember
<1>2. TokensOK
  BY DEF Init, TokensOK
<1>3. ProcsOK
  BY DEF Init, ProcsOK, Statuses, Aborted
<1>4. \A p \in Procs : ProcOK(p)
  BY DEF Init, ProcOK
<1>5. StraysOK
  BY DEF Init, StraysOK, StrayOK, NoWrite, NoRequest, Authorized
<1> QED BY <1>1, <1>2, <1>3, <1>4, <1>5 DEF IInv

LEMMA NextKeeps == IInv /\ [Next]_vars => IInv' /\ NamesStay
<1> SUFFICES ASSUME IInv, [Next]_vars PROVE IInv' /\ NamesStay
  OBVIOUS
<1>1. ASSUME NEW p \in Procs, NEW r \in Workload, Refuse(p, r) \/ Admit(p, r)
      PROVE  IInv' /\ NamesStay
  BY <1>1, ReceiveKeeps
<1>2. ASSUME NEW p \in Procs, Handler(p) PROVE IInv' /\ NamesStay
  BY <1>2, HandlerKeeps
<1>3. ASSUME NEW p \in Procs, Reply(p) PROVE IInv' /\ NamesStay
  BY <1>3, ReplyKeeps
<1>4. CASE \/ \E p \in Procs : StatementFails(p) \/ StrayRuns(p) \/ StrayDropped(p)
           \/ Restart
           \/ \E uid \in tokens : Expire(uid)
  BY <1>4, FaultKeeps
<1>5. CASE UNCHANGED vars
  <2>1. TablesOK' /\ NamesStay
    BY <1>5, TablesUnchanged DEF IInv, vars
  <2>2. StraysOK' /\ TokensOK'
    BY <1>5, <2>1, StraysUnchanged, TokensUnchanged DEF IInv, NamesStay, vars
  <2>3. ProcsOK' /\ \A q \in Procs : ProcOK(q)'
    BY <1>5, <2>1, LocalUnchanged DEF NamesStay, vars
  <2> QED BY <2>1, <2>2, <2>3 DEF IInv
<1> QED BY <1>1, <1>2, <1>3, <1>4, <1>5 DEF Next

(* The inductive invariant holds in every state of every run of the server *)
(* (package api over db/postgres), faults and restarts included.           *)
THEOREM InvariantHolds == Spec => []IInv
BY InitEstablishes, NextKeeps, PTL DEF Spec

(* Every variable always has its type. *)
THEOREM TypesHold == Spec => []TypeOK
BY InvariantHolds, InvariantImplies, PTL

(* The keys are unique and the foreign keys refer to rows, whatever        *)
(* requests run and whatever faults strike them.                           *)
THEOREM IntegrityHolds == Spec => []Integrity
BY InvariantHolds, InvariantImplies, PTL

(* No scount is ever without a member. *)
THEOREM MembersHold == Spec => []EveryScountHasMember
BY InvariantHolds, InvariantImplies, PTL

(* Every subject that Authware accepts, or has accepted for a request or a *)
(* late write that is still to run, is a registered user.                  *)
THEOREM TokenSubjectsHold == Spec => []TokenSubjectsRegistered
BY InvariantHolds, InvariantImplies, PTL

(* What a handler remembers between two statements stays true. *)
THEOREM MemoryHolds == Spec => []HandlersRemember
BY InvariantHolds, InvariantImplies, PTL

-----------------------------------------------------------------------------
(* Who changes the tables: the write of a request that is pending. *)

Writer(r, old, err) ==
    /\ r \in Pending /\ r \in Request
    /\ r.op = "ChangePassword" => old.plain = r.old
    /\ Write(r, old, err)

LEMMA HandlerWrites ==
    ASSUME IInv, NEW p \in Procs, Handler(p)
    PROVE  UNCHANGED <<users, scounts, members>> \/ \E old, err : Writer(req[p], old, err)
<1>1. req[p] \in Pending
  BY DEF Pending
<1>2. CASE ChangePasswordUpdate(p)
  <2>1. PICK err \in Errors : Write(req[p], user[p].password, err)
    BY <1>2 DEF ChangePasswordUpdate
  <2>2. req[p] \in Request /\ user[p].password.plain = req[p].old
    BY <1>2 DEF IInv, ProcOK, ChangePasswordUpdate, At
  <2> QED BY <1>1, <2>1, <2>2 DEF Writer
<1>3. CASE RegisterUser(p) \/ CreateScount(p) \/ UpdateScount(p) \/ DeleteScount(p)
  <2>1. req[p] \in Request /\ req[p].op # "ChangePassword"
    BY <1>3 DEF IInv, ProcOK, RegisterUser, CreateScount, UpdateScount, DeleteScount, At
  <2>2. UNCHANGED <<users, scounts, members>> \/ \E err \in Errors : Write(req[p], None, err)
    BY <1>3 DEF RegisterUser, CreateScount, UpdateScount, DeleteScount, tables
  <2> QED BY <1>1, <2>1, <2>2 DEF Writer
<1>4. CASE \/ LoginUser(p) \/ ChangePassword(p) \/ GetUser(p) \/ GetCurrentUser(p)
           \/ GetScount(p) \/ Panic(p)
  BY <1>4 DEF LoginUser, ChangePassword, GetUser, GetCurrentUser, GetScount, Panic
<1> QED BY <1>2, <1>3, <1>4 DEF Handler

LEMMA StepWrites ==
    ASSUME IInv, [Next]_vars
    PROVE  UNCHANGED <<users, scounts, members>> \/ \E r, old, err : Writer(r, old, err)
<1>1. ASSUME NEW p \in Procs, Handler(p)
      PROVE  UNCHANGED <<users, scounts, members>> \/ \E r, old, err : Writer(r, old, err)
  BY <1>1, HandlerWrites
<1>2. ASSUME NEW p \in Procs, StrayRuns(p)
      PROVE  \E r, old, err : Writer(r, old, err)
  <2>1. PICK err \in Errors : Write(stray[p].req, stray[p].old, err)
    BY <1>2 DEF StrayRuns
  <2>2. StrayOK(stray[p]) /\ stray[p] # NoWrite
    BY <1>2 DEF IInv, StraysOK, StrayRuns
  <2>3. Writer(stray[p].req, stray[p].old, err)
    BY <2>1, <2>2 DEF StrayOK, Writer, Pending
  <2> QED BY <2>3
<1>3. ASSUME NEW p \in Procs, NEW r \in Workload, Refuse(p, r) \/ Admit(p, r)
      PROVE  UNCHANGED <<users, scounts, members>>
  BY <1>3 DEF Refuse, Admit
<1>4. ASSUME NEW p \in Procs, Reply(p) \/ StatementFails(p) \/ StrayDropped(p)
      PROVE  UNCHANGED <<users, scounts, members>>
  BY <1>4 DEF Reply, StatementFails, StrayDropped
<1>5. CASE Restart \/ \E uid \in tokens : Expire(uid)
  BY <1>5 DEF Restart, Expire
<1>6. CASE UNCHANGED vars
  BY <1>6 DEF vars
<1> QED BY <1>1, <1>2, <1>3, <1>4, <1>5, <1>6 DEF Next

(* A stored password is only replaced by UpdatePassword's compare-and-set. *)
LEMMA PasswordStep ==
    ASSUME IInv, [Next]_vars, NEW u \in users, NEW v \in users',
           u.uid = v.uid, u.password # v.password
    PROVE  \E r \in Pending : /\ r.op = "ChangePassword" /\ r.token = u.uid
                              /\ r.old = u.password.plain /\ r.new = v.password.plain
<1>1. \A w \in users : w.uid = u.uid => w = u
  BY DEF IInv, TablesOK, Integrity, Keys
<1>2. users' # users
  BY <1>1
<1>3. PICK r, old, err : Writer(r, old, err)
  BY <1>2, StepWrites
<1>4. CASE r.op = "ChangePassword" /\ UpdatePassword(r, old, err)
  <2> DEFINE new == GenerateFromPassword(r.new)
  <2>1. PICK w \in users : /\ w.uid = r.token /\ w.password = old
                           /\ users' = (users \ {w}) \cup {[w EXCEPT !.password = new]}
    BY <1>2, <1>4 DEF UpdatePassword, UserUpdatePassword, Rejected, tables
  <2>2. w \in User
    BY DEF IInv, TablesOK, TablesTypeOK
  <2>3. v = [w EXCEPT !.password = new] /\ w = u
    BY <1>1, <2>1, <2>2 DEF User
  <2>4. u.password = old /\ v.password = new /\ r.token = u.uid
    BY <2>1, <2>2, <2>3 DEF User
  <2>5. new.plain = r.new
    BY DEF GenerateFromPassword
  <2> QED BY <1>3, <1>4, <2>4, <2>5 DEF Writer
<1>5. CASE r.op = "RegisterUser" /\ InsertUser(r, err)
  <2>1. PICK x : (\A w \in users : w.uid # x.uid) /\ users' = users \cup {x}
    BY <1>2, <1>5 DEF InsertUser, UserInsert, Rejected, tables
  <2>2. v \in users
    BY <2>1
  <2> QED BY <1>1, <2>2
<1>6. CASE \/ InsertScount(r, err)
           \/ ScountUpdate(r.sid, r.owner, r.title, err)
           \/ ScountDelete(r.sid, err)
  BY <1>2, <1>6 DEF InsertScount, ScountInsert, ScountUpdate, ScountDelete,
                    Rejected, tables
<1> QED BY <1>3, <1>4, <1>5, <1>6 DEF Writer, Write

(* A stored password is only replaced on behalf of a request that has      *)
(* given, for that user, the very password that is replaced.               *)
THEOREM PasswordChangesHold == Spec => PasswordChangesGenuine
<1>1. IInv /\ [Next]_vars =>
         \A u \in users, v \in users' :
            u.uid = v.uid /\ u.password # v.password =>
               \E r \in Pending : /\ r.op = "ChangePassword"
                                  /\ r.token = u.uid
                                  /\ r.old = u.password.plain
                                  /\ r.new = v.password.plain
  BY PasswordStep
<1> QED BY <1>1, InvariantHolds, PTL DEF Spec, PasswordChangesGenuine

(* A scount that is there only changes by UpdateOne, and as it is asked. *)
LEMMA ScountStep ==
    ASSUME IInv, [Next]_vars, NEW s \in scounts, NEW t \in scounts',
           s.sid = t.sid, s # t
    PROVE  \E r \in Pending :
              /\ r.op = "UpdateScount" /\ r.sid = s.sid
              /\ t.owner = IF r.owner = None THEN s.owner ELSE r.owner
              /\ t.title = IF r.title = None THEN s.title ELSE r.title
<1>1. \A w \in scounts : w.sid = s.sid => w = s
  BY DEF IInv, TablesOK, Integrity, Keys
<1>2. t \notin scounts
  BY <1>1
<1>3. PICK r, old, err : Writer(r, old, err)
  BY <1>2, StepWrites
<1>4. CASE r.op = "UpdateScount" /\ ScountUpdate(r.sid, r.owner, r.title, err)
  <2> DEFINE updated(w) == [w EXCEPT !.owner = IF r.owner # None THEN r.owner ELSE @,
                                     !.title = IF r.title # None THEN r.title ELSE @]
  <2>1. PICK w \in scounts : w.sid = r.sid /\ scounts' = (scounts \ {w}) \cup {updated(w)}
    BY <1>2, <1>4 DEF ScountUpdate, Rejected, tables
  <2>2. w \in Scount
    BY DEF IInv, TablesOK, TablesTypeOK
  <2>3. t = updated(w)
    BY <1>2, <2>1
  <2>4. /\ t.sid = w.sid
        /\ t.owner = IF r.owner = None THEN w.owner ELSE r.owner
        /\ t.title = IF r.title = None THEN w.title ELSE r.title
    BY <2>2, <2>3 DEF Scount
  <2>5. w = s
    BY <1>1, <2>4
  <2> QED BY <1>3, <1>4, <2>1, <2>4, <2>5 DEF Writer
<1>5. CASE InsertScount(r, err)
  <2>1. PICK x : x.sid \notin SidsOf(scounts) /\ scounts' = scounts \cup {x}
    BY <1>2, <1>5 DEF InsertScount, ScountInsert, Rejected, tables
  <2> QED BY <1>2, <2>1 DEF SidsOf
<1>6. CASE InsertUser(r, err) \/ UpdatePassword(r, old, err) \/ ScountDelete(r.sid, err)
  BY <1>2, <1>6 DEF InsertUser, UserInsert, UpdatePassword, UserUpdatePassword,
                    ScountDelete, Rejected, tables
<1> QED BY <1>3, <1>4, <1>5, <1>6 DEF Writer, Write

(* A scount changes only as one pending UpdateScount request asks. *)
THEOREM ScountChangesHold == Spec => ScountsChangeAsRequested
<1>1. IInv /\ [Next]_vars =>
         \A s \in scounts, t \in scounts' :
            s.sid = t.sid /\ s # t =>
               \E r \in Pending :
                  /\ r.op = "UpdateScount" /\ r.sid = s.sid
                  /\ t.owner = IF r.owner = None THEN s.owner ELSE r.owner
                  /\ t.title = IF r.title = None THEN s.title ELSE r.title
  BY ScountStep
<1> QED BY <1>1, InvariantHolds, PTL DEF Spec, ScountsChangeAsRequested

-----------------------------------------------------------------------------
(* Answers. *)

Answers(p) == pc[p] # "reply" /\ pc'[p] = "reply"

(* The step that decides the answer of p is a step of p alone. *)
LEMMA WhoAnswers ==
    ASSUME IInv, [Next]_vars, NEW p \in Procs, Answers(p)
    PROVE  \/ Handler(p) \/ StatementFails(p)
           \/ \E r \in Workload : Refuse(p, r)
<1>1. ASSUME NEW q \in Procs, Handler(q), q # p PROVE FALSE
  <2>1. \/ pc' = [pc EXCEPT ![q] = "reply"]
        \/ pc' = [pc EXCEPT ![q] = "update"]
    BY <1>1 DEF Handler, RegisterUser, LoginUser, ChangePassword, ChangePasswordUpdate,
                GetUser, GetCurrentUser, CreateScount, GetScount, UpdateScount,
                DeleteScount, Panic, Answer
  <2> QED BY <1>1, <2>1 DEF IInv, ProcsOK, Answers
<1>2. ASSUME NEW q \in Procs, NEW r \in Workload, q # p, Refuse(q, r) \/ Admit(q, r)
      PROVE  FALSE
  BY <1>2 DEF IInv, ProcsOK, Answers, Refuse, Admit
<1>3. ASSUME NEW q \in Procs, q # p, StatementFails(q) \/ Reply(q) PROVE FALSE
  BY <1>3 DEF IInv, ProcsOK, Answers, StatementFails, Reply, Answer, Idle
<1>4. ASSUME NEW r \in Workload, Admit(p, r) PROVE FALSE
  BY <1>4 DEF IInv, ProcsOK, Answers, Admit
<1>5. ~Reply(p)
  BY DEF Answers, Reply
<1>6. ASSUME NEW q \in Procs, StrayRuns(q) \/ StrayDropped(q) PROVE FALSE
  BY <1>6 DEF Answers, StrayRuns, StrayDropped
<1>7. ~Restart /\ \A uid \in tokens : ~Expire(uid)
  BY DEF Answers, Restart, Expire
<1>8. ~UNCHANGED vars
  BY DEF Answers, vars
<1> QED BY <1>1, <1>2, <1>3, <1>4, <1>5, <1>6, <1>7, <1>8 DEF Next

(* Status and error. *)
LEMMA SuccessIsNil ==
    ASSUME NEW err,
           \/ InsertStatus(err) \in {200, 204}
           \/ ChangeStatus(err) \in {200, 204}
           \/ ScountStatus(err) \in {200, 204}
    PROVE  err = Nil
BY DEF InsertStatus, ChangeStatus, ScountStatus

LEMMA NilIsSuccess ==
    /\ InsertStatus(Nil) \in {200, 204}
    /\ ChangeStatus(Nil) \in {200, 204}
    /\ ScountStatus(Nil) \in {200, 204}
BY DEF InsertStatus, ChangeStatus, ScountStatus, ErrRejected, Nil, ErrNoRows,
       ErrConflict, ErrInvalidData, ErrSyntaxPrivilege

(* Only Nil is returned by a statement that changes the tables. *)
LEMMA WriteChanges ==
    ASSUME NEW r, NEW old, NEW err, Write(r, old, err), err # Nil
    PROVE  UNCHANGED <<users, scounts, members>>
BY DEF Write, InsertUser, UserInsert, UpdatePassword, UserUpdatePassword, InsertScount,
       ScountInsert, ScountUpdate, ScountDelete, Rejected, tables

(* And Nil is only returned by one that has made its change. *)
LEMMA UserInsertDone ==
    ASSUME NEW u, UserInsert(u, Nil)
    PROVE  u \in users' \ users
BY NilIsNoRejection DEF UserInsert, Nil, ErrConflict

LEMMA ScountInsertDone ==
    ASSUME NEW s, ScountInsert(s, Nil)
    PROVE  s \in scounts' \ scounts
BY NilIsNoRejection DEF ScountInsert, SidsOf, Nil, ErrConflict

LEMMA ScountUpdateDone ==
    ASSUME NEW sid, NEW owner, NEW title, ScountUpdate(sid, owner, title, Nil), TablesOK
    PROVE  \E s \in scounts' : /\ s.sid = sid
                               /\ owner \in {None, s.owner}
                               /\ title \in {None, s.title}
<1> DEFINE updated(w) == [w EXCEPT !.owner = IF owner # None THEN owner ELSE @,
                                   !.title = IF title # None THEN title ELSE @]
<1>1. PICK w \in scounts : w.sid = sid /\ scounts' = (scounts \ {w}) \cup {updated(w)}
  BY NilIsNoRejection DEF ScountUpdate, Nil, ErrNoRows, ErrConflict, ErrSyntaxPrivilege
<1>2. w \in Scount
  BY DEF TablesOK, TablesTypeOK
<1>3. /\ updated(w).sid = w.sid
      /\ owner \in {None, updated(w).owner} /\ title \in {None, updated(w).title}
  BY <1>2 DEF Scount
<1> QED BY <1>1, <1>3

LEMMA UpdatePasswordDone ==
    ASSUME NEW r, r.op = "ChangePassword", NEW old, UpdatePassword(r, old, Nil), TablesOK
    PROVE  \E u \in users' \ users : u.uid = r.token /\ u.password.plain = r.new
<1> DEFINE new == GenerateFromPassword(r.new)
           w(u) == [u EXCEPT !.password = new]
<1>1. PICK u \in users : u.uid = r.token /\ users' = (users \ {u}) \cup {w(u)}
  BY NilIsNoRejection DEF UpdatePassword, UserUpdatePassword, Nil, ErrNoRows
<1>2. u \in User /\ \A v \in users : v \in User
  BY DEF TablesOK, TablesTypeOK
<1>3. w(u).uid = r.token /\ w(u).password = new /\ new.plain = r.new
  BY <1>1, <1>2 DEF User, GenerateFromPassword
<1>4. new.salt \in FreshSalts
  BY DEF UpdatePassword, GenerateFromPassword
<1>5. ASSUME NEW v \in users PROVE v.password # new
  BY <1>4 DEF FreshSalts, HashesInUse
<1>6. w(u) \in users' \ users
  BY <1>1, <1>3, <1>5
<1> QED BY <1>3, <1>6

(* A handler that decides on 200 or 204 has made its change in that step. *)
Done(r) ==
    /\ r.op = "RegisterUser" => \E u \in users' \ users : u.email = r.email
    /\ r.op = "ChangePassword" =>
          \E u \in users' \ users : u.uid = r.token /\ u.password.plain = r.new
    /\ r.op = "CreateScount" => \E s \in scounts' \ scounts : s.owner = r.token
    /\ r.op = "UpdateScount" /\ ~NothingToUpdate(r) =>
          \E s \in scounts' : /\ s.sid = r.sid
                              /\ r.owner \in {None, s.owner}
                              /\ r.title \in {None, s.title}

LEMMA WriteDone ==
    ASSUME NEW r, NEW old, Write(r, old, Nil), TablesOK
    PROVE  Done(r)
<1>1. CASE r.op = "RegisterUser" /\ InsertUser(r, Nil)
  <2>1. PICK id \in Uids :
          UserInsert([uid |-> id, email |-> r.email, username |-> r.username,
                      password |-> GenerateFromPassword(r.password)], Nil)
    BY <1>1 DEF InsertUser
  <2>2. [uid |-> id, email |-> r.email, username |-> r.username,
         password |-> GenerateFromPassword(r.password)] \in users' \ users
    BY <2>1, UserInsertDone
  <2> QED BY <1>1, <2>2 DEF Done
<1>2. CASE r.op = "ChangePassword" /\ UpdatePassword(r, old, Nil)
  BY <1>2, UpdatePasswordDone DEF Done
<1>3. CASE r.op = "CreateScount" /\ InsertScount(r, Nil)
  <2>1. PICK id \in Sids :
          ScountInsert([sid |-> id, owner |-> r.token, title |-> r.title], Nil)
    BY <1>3 DEF InsertScount
  <2>2. [sid |-> id, owner |-> r.token, title |-> r.title] \in scounts' \ scounts
    BY <2>1, ScountInsertDone
  <2> QED BY <1>3, <2>2 DEF Done
<1>4. CASE r.op = "UpdateScount" /\ ScountUpdate(r.sid, r.owner, r.title, Nil)
  BY <1>4, ScountUpdateDone DEF Done
<1>5. CASE r.op = "DeleteScount"
  BY <1>5 DEF Done
<1> QED BY <1>1, <1>2, <1>3, <1>4, <1>5 DEF Write

(* The status of a step that decides an answer, and the error behind it. *)
LEMMA HandlerAnswers ==
    ASSUME IInv, NEW p \in Procs, Handler(p), Answers(p)
    PROVE  \/ /\ UNCHANGED <<users, scounts, members>>
              /\ status'[p] \in {200, 204} => Done(req[p])
           \/ \E old, err :
                 /\ Write(req[p], old, err)
                 /\ status'[p] \in {InsertStatus(err), ChangeStatus(err), ScountStatus(err)}
<1>0. ASSUME NEW s, Answer(p, s) PROVE status'[p] = s
  BY <1>0 DEF IInv, ProcsOK, Answer
<1>1. CASE \/ LoginUser(p) \/ GetUser(p) \/ GetCurrentUser(p) \/ GetScount(p)
  BY <1>1 DEF LoginUser, GetUser, GetCurrentUser, GetScount, At, Done
<1>2. CASE ChangePassword(p)
  <2>1. pc'[p] = "reply"
    BY DEF Answers
  <2>2. \E s \in {401, 422} : Answer(p, s)
    BY <1>2, <2>1 DEF IInv, ProcsOK, ChangePassword
  <2> QED BY <1>0, <1>2, <2>2 DEF ChangePassword
<1>3. CASE Panic(p)
  BY <1>0, <1>3 DEF Panic, Aborted
<1>4. CASE \/ RegisterUser(p) \/ ChangePasswordUpdate(p) \/ CreateScount(p)
           \/ DeleteScount(p)
  BY <1>0, <1>4 DEF RegisterUser, ChangePasswordUpdate, CreateScount, DeleteScount
<1>5. CASE UpdateScount(p)
  <2>1. CASE NothingToUpdate(req[p])
    BY <1>5, <2>1 DEF UpdateScount, At, Done, tables
  <2>2. CASE ~NothingToUpdate(req[p])
    BY <1>0, <1>5, <2>2 DEF UpdateScount
  <2> QED BY <2>1, <2>2
<1> QED BY <1>1, <1>2, <1>3, <1>4, <1>5 DEF Handler

LEMMA SuccessStep ==
    ASSUME IInv, [Next]_vars, NEW p \in Procs, Succeeds(p)
    PROVE  Done(req[p])
<1>1. CASE Handler(p)
  <2>1. CASE status'[p] \in {200, 204} => Done(req[p])
    BY <2>1 DEF Succeeds
  <2>2. CASE \E old, err :
               /\ Write(req[p], old, err)
               /\ status'[p] \in {InsertStatus(err), ChangeStatus(err), ScountStatus(err)}
    <3>1. PICK old, err :
               /\ Write(req[p], old, err)
               /\ status'[p] \in {InsertStatus(err), ChangeStatus(err), ScountStatus(err)}
      BY <2>2
    <3>2. err = Nil
      BY <3>1, SuccessIsNil DEF Succeeds
    <3> QED BY <3>1, <3>2, WriteDone DEF IInv
  <2> QED BY <1>1, <2>1, <2>2, HandlerAnswers DEF Succeeds, Answers
<1>2. CASE StatementFails(p)
  BY <1>2 DEF IInv, ProcsOK, StatementFails, Answer, Succeeds
<1>3. ASSUME NEW r \in Workload, Refuse(p, r) PROVE FALSE
  <2>1. PICK s \in Statuses : RefusedWith(r, s) /\ status' = [status EXCEPT ![p] = s]
    BY <1>3 DEF Refuse
  <2>2. s \notin {200, 204}
    BY <2>1 DEF RefusedWith, Refusals, Verdict, Pass
  <2> QED BY <2>1, <2>2 DEF IInv, ProcsOK, Succeeds
<1> QED BY <1>1, <1>2, <1>3, WhoAnswers DEF Succeeds, Answers

(* Whoever is told of a success finds its change in the tables. *)
THEOREM AcknowledgedHold == Spec => AcknowledgedWritesDone
<1>1. IInv /\ [Next]_vars =>
        \A p \in Procs : Succeeds(p) =>
          /\ req[p].op = "RegisterUser" =>
                \E u \in users' \ users : u.email = req[p].email
          /\ req[p].op = "ChangePassword" =>
                \E u \in users' \ users : /\ u.uid = req[p].token
                                          /\ u.password.plain = req[p].new
          /\ req[p].op = "CreateScount" =>
                \E s \in scounts' \ scounts : s.owner = req[p].token
          /\ req[p].op = "UpdateScount" /\ ~NothingToUpdate(req[p]) =>
                \E s \in scounts' : /\ s.sid = req[p].sid
                                    /\ req[p].owner \in {None, s.owner}
                                    /\ req[p].title \in {None, s.title}
  BY SuccessStep DEF Done
<1> QED BY <1>1, InvariantHolds, PTL DEF Spec, AcknowledgedWritesDone

LEMMA FailureStep ==
    ASSUME IInv, [Next]_vars, NEW p \in Procs, Answers(p), status'[p] \notin {200, 204}
    PROVE  UNCHANGED <<users, scounts, members>>
<1>1. CASE Handler(p)
  <2>1. CASE \E old, err :
               /\ Write(req[p], old, err)
               /\ status'[p] \in {InsertStatus(err), ChangeStatus(err), ScountStatus(err)}
    BY <2>1, NilIsSuccess, WriteChanges
  <2> QED BY <1>1, <2>1, HandlerAnswers
<1>2. CASE StatementFails(p)
  BY <1>2 DEF StatementFails
<1>3. CASE \E r \in Workload : Refuse(p, r)
  BY <1>3 DEF Refuse
<1> QED BY <1>1, <1>2, <1>3, WhoAnswers

(* Whoever is told of no success finds the tables as they were. *)
THEOREM FailuresHold == Spec => FailuresChangeNothing
<1>1. IInv /\ [Next]_vars =>
        ((\E p \in Procs : pc[p] # "reply" /\ pc'[p] = "reply" /\ status'[p] \notin {200, 204})
           => UNCHANGED tables)
  BY FailureStep DEF Answers, tables
<1> QED BY <1>1, InvariantHolds, PTL DEF Spec, FailuresChangeNothing

=============================================================================
