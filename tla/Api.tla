--------------------------------- MODULE Api ---------------------------------
(***************************************************************************)
(* The HTTP handlers of package api, run concurrently over the tables.     *)
(*                                                                         *)
(* A process is one goroutine of the server, serving one request at a      *)
(* time.  A request first passes the middleware of its route, then its     *)
(* handler issues one database statement (ChangePassword: two), then the   *)
(* response is delivered; other processes run between these steps.  What   *)
(* a handler computes between two statements reads nothing shared, so it   *)
(* belongs to the step of the statement before it.                         *)
(*                                                                         *)
(* A statement can fail without an answer from PostgreSQL (lost            *)
(* connection, cancelled request context); a write that was already sent   *)
(* may then still take effect, later.  The process can crash and restart.  *)
(***************************************************************************)
EXTENDS Tables, Naturals, Sequences, FiniteSets

CONSTANTS
    Procs,       \* the requests the server handles at a time
    Workload,    \* the requests that clients send
    SecretSet,   \* is the environment variable SECRET set?
    Faults,      \* do statements fail and does the server restart?
    Outliving    \* bound: the processes whose writes may outlive them

VARIABLES
    tokens,      \* the subjects that hold a token Authware accepts
    pc,          \* where a process is: idle, run, update or reply
    req,         \* the request it serves
    user,        \* the row the handler read into its variable `user`
    status,      \* the status it answers with
    stray        \* the write of a process that gave up before PostgreSQL answered

local == <<pc, req, user, status>>
vars == <<users, scounts, members, tokens, pc, req, user, status, stray>>

-----------------------------------------------------------------------------
(* Requests.  `token` is the subject of the token in the Authorization     *)
(* header, or None; `body` says what the middleware finds: no JSON media   *)
(* type, no JSON, a required field that is empty, or a proper value.       *)

Body == {"notjson", "malformed", "invalid", "valid"}
AnyFields == Body \ {"invalid"}     \* a body whose Validate never fails
Token == Uids \cup {None}

RegisterRequest == [op : {"RegisterUser"}, body : Body,
                    email : Emails, username : Names, password : Passwords]
LoginRequest == [op : {"LoginUser"}, body : Body,
                 email : Emails, password : Passwords]
PasswordChanger == [op : {"ChangePassword"}, body : Body, token : Token,
                    old : Passwords, new : Passwords]
GetUserRequest == [op : {"GetUser"}, token : Token, uid : Uids]
MeRequest == [op : {"GetCurrentUser", "UpdateUser", "DeleteUser"}, token : Token]
ScountRequest == [op : {"CreateScount"}, body : AnyFields, token : Token,
                  title : Titles \cup {None}]
GetScountRequest == [op : {"GetScount"}, token : Token, sid : Sids]
ScountUpdater == [op : {"UpdateScount"}, body : AnyFields, token : Token, sid : Sids,
                  owner : Uids \cup {None}, title : Titles \cup {None}]
DeleteScountRequest == [op : {"DeleteScount"}, token : Token, sid : Sids]

Request ==
    RegisterRequest \cup LoginRequest \cup PasswordChanger \cup
    GetUserRequest \cup MeRequest \cup ScountRequest \cup
    GetScountRequest \cup ScountUpdater \cup DeleteScountRequest

NoRequest == [op |-> "none"]

ASSUME Constants ==
    /\ Workload \subseteq Request
    /\ SecretSet \in BOOLEAN /\ Faults \in BOOLEAN
    /\ Outliving \subseteq Procs

(* HTTP statuses; Aborted is a connection closed with no answer, which is  *)
(* what net/http does when a handler panics.                               *)
Aborted == 0
Statuses == {Aborted, 200, 204, 400, 401, 404, 409, 415, 422, 500}

-----------------------------------------------------------------------------
(* Routing: the middleware of each route, in the order it runs.            *)

(* Faulty variant: GET /users/me without Authware. *)
ChainOpenMe == [
    RegisterUser   |-> <<"BodyParser", "Validware">>,
    LoginUser      |-> <<"BodyParser", "Validware">>,
    ChangePassword |-> <<"BodyParser", "Validware", "Authware">>,
    GetUser        |-> <<"Authware">>,
    GetCurrentUser |-> <<"setCurrentUser">>,
    UpdateUser     |-> <<"Authware">>,
    DeleteUser     |-> <<"Authware">>,
    CreateScount   |-> <<"Authware", "BodyParser", "Validware">>,
    GetScount      |-> <<"Authware", "ScountPathWare">>,
    UpdateScount   |-> <<"Authware", "ScountPathWare", "BodyParser", "Validware">>,
    DeleteScount   |-> <<"Authware", "ScountPathWare">>]

Chain == [
    RegisterUser   |-> <<"BodyParser", "Validware">>,
    LoginUser      |-> <<"BodyParser", "Validware">>,
    ChangePassword |-> <<"BodyParser", "Validware", "Authware">>,
    GetUser        |-> <<"Authware">>,
    GetCurrentUser |-> <<"Authware", "setCurrentUser">>,
    UpdateUser     |-> <<"Authware">>,
    DeleteUser     |-> <<"Authware">>,
    CreateScount   |-> <<"Authware", "BodyParser", "Validware">>,
    GetScount      |-> <<"Authware", "ScountPathWare">>,
    UpdateScount   |-> <<"Authware", "ScountPathWare", "BodyParser", "Validware">>,
    DeleteScount   |-> <<"Authware", "ScountPathWare">>]

(* The status a middleware refuses r with, or Pass. *)
Pass == 100
Verdict(ware, r) ==
    CASE ware = "BodyParser" /\ r.body = "notjson" -> 415
      [] ware = "BodyParser" /\ r.body = "malformed" -> 400
      [] ware = "Validware" /\ r.body = "invalid" -> 400
      [] ware = "Authware" /\ r.token \notin tokens -> 401
      [] OTHER -> Pass

Refusals(r) == {i \in DOMAIN Chain[r.op] : Verdict(Chain[r.op][i], r) # Pass}

(* The first middleware that refuses answers; the next ones do not run. *)
RefusedWith(r, s) ==
    \E i \in Refusals(r) : /\ s = Verdict(Chain[r.op][i], r)
                           /\ \A j \in Refusals(r) : i <= j

(* Context keys: what a middleware puts into the request's context, and    *)
(* what a handler takes out of it with a type assertion.                   *)
Sets == [BodyParser |-> "BodyKey", Validware |-> "none", Authware |-> "AuthUserKey",
         setCurrentUser |-> "UserKey", ScountPathWare |-> "ScountKey"]

Reads == [
    RegisterUser |-> {"BodyKey"}, LoginUser |-> {"BodyKey"},
    ChangePassword |-> {"BodyKey", "AuthUserKey"},
    GetUser |-> {}, GetCurrentUser |-> {"UserKey"},
    UpdateUser |-> {"UserKey", "BodyKey"}, DeleteUser |-> {"UserKey"},
    CreateScount |-> {"BodyKey", "AuthUserKey"}, GetScount |-> {"ScountKey"},
    UpdateScount |-> {"ScountKey", "BodyKey"}, DeleteScount |-> {"ScountKey"}]

MissingKeys(op) == Reads[op] \ {Sets[Chain[op][i]] : i \in DOMAIN Chain[op]}

-----------------------------------------------------------------------------
(* A request arrives, and the response leaves. *)

Refuse(p, r) ==
    /\ pc[p] = "idle"
    /\ \E s \in Statuses : /\ RefusedWith(r, s)
                           /\ status' = [status EXCEPT ![p] = s]
    /\ pc' = [pc EXCEPT ![p] = "reply"]
    /\ req' = [req EXCEPT ![p] = r]
    /\ UNCHANGED <<users, scounts, members, tokens, user, stray>>

Admit(p, r) ==
    /\ pc[p] = "idle"
    /\ Refusals(r) = {}
    /\ pc' = [pc EXCEPT ![p] = "run"]
    /\ req' = [req EXCEPT ![p] = r]
    /\ UNCHANGED <<users, scounts, members, tokens, user, status, stray>>

(* The process is at label l of the handler op. *)
At(p, l, op) == pc[p] = l /\ req[p].op = op /\ MissingKeys(op) = {}

(* The handler decides its response. *)
Answer(p, s) ==
    /\ pc' = [pc EXCEPT ![p] = "reply"]
    /\ status' = [status EXCEPT ![p] = s]
    /\ UNCHANGED req

(* A process with nothing to do holds no data of its last request. *)
Idle(p) ==
    /\ pc' = [pc EXCEPT ![p] = "idle"]
    /\ req' = [req EXCEPT ![p] = NoRequest]
    /\ user' = [user EXCEPT ![p] = None]
    /\ status' = [status EXCEPT ![p] = Aborted]

(* The response reaches the client: a successful login hands out a token.  *)
Reply(p) ==
    /\ pc[p] = "reply"
    /\ tokens' = IF req[p].op = "LoginUser" /\ status[p] = 200
                 THEN tokens \cup {user[p].uid} ELSE tokens
    /\ Idle(p)
    /\ UNCHANGED <<users, scounts, members, stray>>

(* A type assertion on a context key that no middleware has set. *)
Panic(p) ==
    /\ pc[p] = "run" /\ MissingKeys(req[p].op) # {}
    /\ Answer(p, Aborted)
    /\ UNCHANGED <<users, scounts, members, tokens, user, stray>>

-----------------------------------------------------------------------------
(* The writes of the handlers: r is the request, old the hash it has read. *)

(* bcrypt draws a fresh random salt: no hash in use has it.  Which one it  *)
(* is makes no difference.                                                 *)
HashesInUse ==
    {u.password : u \in users} \cup
    {user[p].password : p \in {q \in Procs : pc[q] = "update"}} \cup
    {stray[p].old : p \in {q \in Procs : stray[q].req.op = "ChangePassword"}}

FreshSalts == Salts \ {h.salt : h \in HashesInUse}

GenerateFromPassword(password) ==
    [plain |-> password, salt |-> CHOOSE s \in FreshSalts : TRUE]

CompareHashAndPassword(hash, password) == hash.plain = password

(* GenerateID returns any id, one already in use included. *)
InsertUser(r, err) ==
    \E id \in Uids :
        /\ FreshSalts # {}
        /\ UserInsert([uid |-> id, email |-> r.email, username |-> r.username,
                       password |-> GenerateFromPassword(r.password)], err)

InsertScount(r, err) ==
    \E id \in Sids :
        ScountInsert([sid |-> id, owner |-> r.token, title |-> r.title], err)

UpdatePassword(r, old, err) ==
    /\ FreshSalts # {}
    /\ UserUpdatePassword(r.token, old, GenerateFromPassword(r.new), err)

Write(r, old, err) ==
    \/ r.op = "RegisterUser" /\ InsertUser(r, err)
    \/ r.op = "ChangePassword" /\ UpdatePassword(r, old, err)
    \/ r.op = "CreateScount" /\ InsertScount(r, err)
    \/ r.op = "UpdateScount" /\ ScountUpdate(r.sid, r.owner, r.title, err)
    \/ r.op = "DeleteScount" /\ ScountDelete(r.sid, err)

-----------------------------------------------------------------------------
(* The handlers.  Each maps the error of its statement to a status.        *)

InsertStatus(err) ==
    CASE err = Nil -> 200
      [] err \in ErrRejected -> 400
      [] err = ErrConflict -> 409
      [] OTHER -> 500

RegisterUser(p) ==
    /\ At(p, "run", "RegisterUser")
    /\ \E err \in Errors : Write(req[p], None, err) /\ Answer(p, InsertStatus(err))
    /\ UNCHANGED <<tokens, user, stray>>

(* One read, then the comparison with the hash that was read. *)
LoginUser(p) ==
    /\ At(p, "run", "LoginUser")
    /\ \/ \E u \in users :
             /\ u.email = req[p].email
             /\ IF CompareHashAndPassword(u.password, req[p].password)
                THEN Answer(p, 200) /\ user' = [user EXCEPT ![p] = u]
                ELSE Answer(p, 422) /\ UNCHANGED user
       \/ /\ \A u \in users : u.email # req[p].email
          /\ Answer(p, 422) /\ UNCHANGED user
    /\ UNCHANGED <<users, scounts, members, tokens, stray>>

(* Faulty variant: the old password is not compared. *)
ChangePasswordUnchecked(p) ==
    /\ At(p, "run", "ChangePassword")
    /\ \E u \in users :
          /\ u.uid = req[p].token
          /\ pc' = [pc EXCEPT ![p] = "update"]
          /\ user' = [user EXCEPT ![p] = u]
    /\ UNCHANGED <<users, scounts, members, tokens, req, status, stray>>

(* Faulty variant: the row is not looked up by the token's subject. *)
ChangePasswordOfAny(p) ==
    /\ At(p, "run", "ChangePassword")
    /\ \E u \in users :
          /\ CompareHashAndPassword(u.password, req[p].old)
          /\ pc' = [pc EXCEPT ![p] = "update"]
          /\ user' = [user EXCEPT ![p] = u]
    /\ UNCHANGED <<users, scounts, members, tokens, req, status, stray>>

(* ChangePassword, up to the comparison with the old password ... *)
ChangePassword(p) ==
    /\ At(p, "run", "ChangePassword")
    /\ \/ \E u \in users :
             /\ u.uid = req[p].token
             /\ IF CompareHashAndPassword(u.password, req[p].old)
                THEN /\ pc' = [pc EXCEPT ![p] = "update"]
                     /\ user' = [user EXCEPT ![p] = u]
                     /\ UNCHANGED <<req, status>>
                ELSE Answer(p, 422) /\ UNCHANGED user
       \/ /\ req[p].token \notin UidsOf(users)
          /\ Answer(p, 401) /\ UNCHANGED user
    /\ UNCHANGED <<users, scounts, members, tokens, stray>>

(* Faulty variant: an update of no row passes for a success. *)
ChangeStatusLax(err) ==
    CASE err \in {Nil, ErrNoRows} -> 204
      [] err = ErrConflict -> 409
      [] OTHER -> 500

ChangeStatus(err) ==
    CASE err = Nil -> 204
      [] err = ErrNoRows -> 422
      [] err = ErrConflict -> 409
      [] OTHER -> 500

(* ... and the update, on condition that the hash is the one it has read.  *)
(* What was read is not needed any more.                                   *)
ChangePasswordUpdate(p) ==
    /\ At(p, "update", "ChangePassword")
    /\ \E err \in Errors :
          Write(req[p], user[p].password, err) /\ Answer(p, ChangeStatus(err))
    /\ user' = [user EXCEPT ![p] = None]
    /\ UNCHANGED <<tokens, stray>>

FetchStatus(found) == IF found THEN 200 ELSE 404

GetUser(p) ==
    /\ At(p, "run", "GetUser")
    /\ Answer(p, FetchStatus(req[p].uid \in UidsOf(users)))
    /\ UNCHANGED <<users, scounts, members, tokens, user, stray>>

GetCurrentUser(p) ==
    /\ At(p, "run", "GetCurrentUser")
    /\ Answer(p, FetchStatus(req[p].token \in UidsOf(users)))
    /\ UNCHANGED <<users, scounts, members, tokens, user, stray>>

CreateScount(p) ==
    /\ At(p, "run", "CreateScount")
    /\ \E err \in Errors : Write(req[p], None, err) /\ Answer(p, InsertStatus(err))
    /\ UNCHANGED <<tokens, user, stray>>

GetScount(p) ==
    /\ At(p, "run", "GetScount")
    /\ Answer(p, FetchStatus(req[p].sid \in SidsOf(scounts)))
    /\ UNCHANGED <<users, scounts, members, tokens, user, stray>>

(* Faulty variant: an update of no scount passes for a success. *)
ScountStatusLax(err) ==
    CASE err \in {Nil, ErrNoRows} -> 204
      [] err = ErrConflict -> 409
      [] OTHER -> 500

ScountStatus(err) ==
    CASE err = Nil -> 204
      [] err = ErrNoRows -> 404
      [] err = ErrConflict -> 409
      [] OTHER -> 500

(* Nothing to update is a success without a statement. *)
NothingToUpdate(r) ==
    r.op = "UpdateScount" /\ r.owner = None /\ r.title = None

UpdateScount(p) ==
    /\ At(p, "run", "UpdateScount")
    /\ IF NothingToUpdate(req[p])
       THEN Answer(p, 204) /\ UNCHANGED tables
       ELSE \E err \in Errors :
               Write(req[p], None, err) /\ Answer(p, ScountStatus(err))
    /\ UNCHANGED <<tokens, user, stray>>

DeleteScount(p) ==
    /\ At(p, "run", "DeleteScount")
    /\ \E err \in Errors : Write(req[p], None, err) /\ Answer(p, ScountStatus(err))
    /\ UNCHANGED <<tokens, user, stray>>

-----------------------------------------------------------------------------
(* Failures. *)

(* The write a process may have sent to PostgreSQL, if it is at one. *)
NoWrite == [req |-> NoRequest, old |-> None]

Sent(p) ==
    CASE pc[p] = "update" -> [req |-> req[p], old |-> user[p].password]
      [] /\ pc[p] = "run" /\ ~NothingToUpdate(req[p])
         /\ req[p].op \in {"RegisterUser", "CreateScount", "UpdateScount", "DeleteScount"}
         -> [req |-> req[p], old |-> None]
      [] OTHER -> NoWrite

(* The processes of ps stop; of the writes they sent some stay behind.  A  *)
(* process has one such write at a time: an older one is lost.             *)
Abandon(ps) ==
    \E kept \in SUBSET {p \in ps \cap Outliving : Sent(p) # NoWrite} :
        stray' = [p \in Procs |-> IF p \in kept THEN Sent(p) ELSE stray[p]]

(* The statement ends in an error that is none of PostgreSQL's answers, or *)
(* bcrypt fails: every handler answers 500.                                *)
StatementFails(p) ==
    /\ Faults
    /\ pc[p] \in {"run", "update"} /\ MissingKeys(req[p].op) = {}
    /\ ~NothingToUpdate(req[p])
    /\ Abandon({p})
    /\ Answer(p, 500)
    /\ user' = [user EXCEPT ![p] = None]
    /\ UNCHANGED <<users, scounts, members, tokens>>

(* PostgreSQL runs a write that nobody waits for. *)
StrayRuns(p) ==
    /\ stray[p] # NoWrite
    /\ \E err \in Errors : Write(stray[p].req, stray[p].old, err)
    /\ stray' = [stray EXCEPT ![p] = NoWrite]
    /\ UNCHANGED <<tokens, pc, req, user, status>>

(* The connection is torn down before PostgreSQL gets to the write. *)
StrayDropped(p) ==
    /\ stray[p] # NoWrite
    /\ stray' = [stray EXCEPT ![p] = NoWrite]
    /\ UNCHANGED <<users, scounts, members, tokens, pc, req, user, status>>

(* The server crashes and starts again.  Without SECRET, init() draws a    *)
(* new random key: tokens signed with the old one are refused.             *)
Restart ==
    /\ Faults
    /\ Abandon(Procs)
    /\ tokens' = IF SecretSet THEN tokens ELSE {}
    /\ pc' = [p \in Procs |-> "idle"]
    /\ req' = [p \in Procs |-> NoRequest]
    /\ user' = [p \in Procs |-> None]
    /\ status' = [p \in Procs |-> Aborted]
    /\ UNCHANGED <<users, scounts, members>>

(* One hour after it was signed, the last token of a subject expires. *)
Expire(uid) ==
    /\ uid \in tokens
    /\ tokens' = tokens \ {uid}
    /\ UNCHANGED <<users, scounts, members, pc, req, user, status, stray>>

-----------------------------------------------------------------------------
Init ==
    /\ TablesInit
    /\ tokens = {}
    /\ pc = [p \in Procs |-> "idle"]
    /\ req = [p \in Procs |-> NoRequest]
    /\ user = [p \in Procs |-> None]
    /\ status = [p \in Procs |-> Aborted]
    /\ stray = [p \in Procs |-> NoWrite]

Handler(p) ==
    \/ RegisterUser(p) \/ LoginUser(p)
    \/ ChangePassword(p) \/ ChangePasswordUpdate(p)
    \/ GetUser(p) \/ GetCurrentUser(p)
    \/ CreateScount(p) \/ GetScount(p) \/ UpdateScount(p) \/ DeleteScount(p)
    \/ Panic(p)

Next ==
    \/ \E p \in Procs :
          \/ \E r \in Workload : Refuse(p, r) \/ Admit(p, r)
          \/ Handler(p)
          \/ StatementFails(p)
          \/ Reply(p)
          \/ StrayRuns(p) \/ StrayDropped(p)
    \/ Restart
    \/ \E uid \in tokens : Expire(uid)

Spec == Init /\ [][Next]_vars

=============================================================================
