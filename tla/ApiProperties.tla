---------------------------- MODULE ApiProperties ----------------------------
(***************************************************************************)
(* What the handlers of package api promise, over the model of Api.        *)
(***************************************************************************)
EXTENDS Api

(* A request whose effect may still come: of a process, or of a stray.     *)
Pending == {req[p] : p \in Procs} \cup {stray[p].req : p \in Procs}

Authorized == {"ChangePassword", "CreateScount", "UpdateScount", "DeleteScount",
               "GetUser", "GetCurrentUser", "GetScount", "UpdateUser", "DeleteUser"}

-----------------------------------------------------------------------------
(* Types of all variables; a process at label update holds a row. *)
TypeOK ==
    /\ TablesTypeOK
    /\ tokens \subseteq Uids
    /\ pc \in [Procs -> {"idle", "run", "update", "reply"}]
    /\ req \in [Procs -> Request \cup {NoRequest}]
    /\ user \in [Procs -> User \cup {None}]
    /\ status \in [Procs -> Statuses]
    /\ \A p \in Procs : pc[p] = "update" => user[p] \in User
    /\ stray \in [Procs -> [req : Request, old : Hash \cup {None}] \cup {NoWrite}]

(* A scount always has a member: the statement of ScountCollection.Insert  *)
(* adds the owner, and no handler takes a member away (ScountInsertQuery). *)
EveryScountHasMember ==
    \A s \in scounts : \E m \in members : m.sid = s.sid

(* A token never outlives its user: whoever Authware accepts, now or while *)
(* the handler runs or as the owner of a late write, is a row of users.    *)
(* ChangePassword's answer "invalid_user" and the 404 of GetCurrentUser    *)
(* are then never given, and CreateScount never refers to a missing owner. *)
TokenSubjectsRegistered ==
    /\ tokens \subseteq UidsOf(users)
    /\ \A p \in Procs : pc[p] \in {"run", "update"} /\ req[p].op \in Authorized
                           => req[p].token \in UidsOf(users)
    /\ \A p \in Procs : stray[p].req.op \in Authorized
                           => stray[p].req.token \in UidsOf(users)

(* What a handler keeps from one statement to the next stays true of the   *)
(* tables while others run: ChangePassword goes on with the row of its own *)
(* token's subject and the password it verified, LoginUser signs a token   *)
(* for the user of the email, a late change still knows what it verified.  *)
HandlersRemember ==
    /\ \A p \in Procs : pc[p] = "update" =>
          /\ req[p].op = "ChangePassword"
          /\ \E u \in users : u.uid = req[p].token /\ u.email = user[p].email
          /\ user[p].uid = req[p].token
          /\ user[p].password.plain = req[p].old
    /\ \A p \in Procs :
          pc[p] = "reply" /\ req[p].op = "LoginUser" /\ status[p] = 200 =>
              \E u \in users : u.uid = user[p].uid /\ u.email = req[p].email
    /\ \A p \in Procs : stray[p].req.op = "ChangePassword" =>
          stray[p].old.plain = stray[p].req.old

(* A stored password is only ever replaced by the new password of a        *)
(* ChangePassword request of that user whose old password is the one being *)
(* replaced at that very moment, not one it read earlier: of two requests  *)
(* that verified the same hash one wins (api/auth.go, "someone changed db  *)
(* in b/w"), and a write that outlives its handler undoes nothing.         *)
PasswordChangesGenuine ==
    [][\A u \in users, v \in users' :
          u.uid = v.uid /\ u.password # v.password =>
              \E r \in Pending : /\ r.op = "ChangePassword"
                                 /\ r.token = u.uid
                                 /\ r.old = u.password.plain
                                 /\ r.new = v.password.plain]_vars

(* A success is answered by the step that has made the change it reports:  *)
(* the new user, the new hash, the new scount, the new owner or title are  *)
(* in the tables when the handler decides on 200 or 204.                   *)
Succeeds(p) == pc[p] # "reply" /\ pc'[p] = "reply" /\ status'[p] \in {200, 204}

AcknowledgedWritesDone ==
    [][\A p \in Procs : Succeeds(p) =>
          /\ req[p].op = "RegisterUser" =>
                \E u \in users' \ users : u.email = req[p].email
          /\ req[p].op = "ChangePassword" =>
                \E u \in users' \ users : /\ u.uid = req[p].token
                                          /\ u.password.plain = req[p].new
          /\ req[p].op = "CreateScount" =>
                \E s \in scounts' \ scounts : s.owner = req[p].token
          /\ req[p].op = "UpdateScount" /\ ~NothingToUpdate(req[p]) =>
                \E s \in scounts' : /\ s.sid = req[p].sid
                                    /\ req[p].owner \in {None, s.owner}
                                    /\ req[p].title \in {None, s.title}]_vars

(* A request that is not answered with a success, refused, failed or       *)
(* closed, has changed nothing when that is decided: no error path leaves  *)
(* half a change behind, be it the second of the two inserts of a scount   *)
(* (ScountInsertQuery) or one of two columns (ScountUpdateTemplate).  A    *)
(* write that PostgreSQL was sent before the 500 comes later, as a stray.  *)
FailuresChangeNothing ==
    [][(\E p \in Procs : pc[p] # "reply" /\ pc'[p] = "reply" /\ status'[p] \notin {200, 204})
          => UNCHANGED tables]_vars

(* A scount that was there changes only as one UpdateScount request for it *)
(* asks: the field it sets gets the value it gives, the other one stays.   *)
ScountsChangeAsRequested ==
    [][\A s \in scounts, t \in scounts' :
          s.sid = t.sid /\ s # t =>
              \E r \in Pending : /\ r.op = "UpdateScount" /\ r.sid = s.sid
                                 /\ t.owner = IF r.owner = None THEN s.owner ELSE r.owner
                                 /\ t.title = IF r.title = None THEN s.title ELSE r.title]_vars

-----------------------------------------------------------------------------
(* Statements of the repository's documents that the code does not meet.   *)

(* openapi.json:706 of DELETE /scounts/{sid}: "Remove the scount record    *)
(* from the collection of scounts": when PostgreSQL has answered, a scount *)
(* of which nobody but the requesting user is a member is not there.       *)
DeleteScountRemoves ==
    [][\A p \in Procs :
          /\ At(p, "run", "DeleteScount") /\ pc'[p] = "reply" /\ ~Faults
          /\ \A m \in members : m.sid = req[p].sid => m.uid = req[p].token
          => req[p].sid \notin SidsOf(scounts')]_vars

(* openapi.json:394 and 430: PATCH and DELETE /users/me are answered with  *)
(* 204 or with one of the listed errors, never with a closed connection.   *)
NeverAborted == \A p \in Procs : pc[p] = "reply" => status[p] # Aborted

=============================================================================
