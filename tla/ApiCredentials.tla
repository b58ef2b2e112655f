--------------------------- MODULE ApiCredentials ---------------------------
(***************************************************************************)
(* The handlers of Api implement Credentials: the tables, the processes    *)
(* and the strays seen as accounts, calls and late calls.                  *)
(***************************************************************************)
EXTENDS ApiProperties

NoCall == NoRequest

(* A request as a call: names, tokens and bodies do not matter. *)
AsCall(r) ==
    CASE r.op = "RegisterUser" ->
            [op |-> r.op, email |-> r.email, password |-> r.password]
      [] r.op = "LoginUser" ->
            [op |-> r.op, email |-> r.email, password |-> r.password]
      [] r.op = "ChangePassword" /\ r.token # None ->
            [op |-> r.op, uid |-> r.token, old |-> r.old, new |-> r.new]
      [] OTHER -> NoCall

AsAnswer(s) ==
    CASE s \in {200, 204} -> "yes"
      [] s \in {409, 422} -> "no"
      [] s \in {400, 401, 415} -> "rejected"
      [] OTHER -> "failed"

AsAccount(u) == [uid |-> u.uid, email |-> u.email, password |-> u.password.plain]

accountsBar == {AsAccount(u) : u \in users}
callBar == [p \in Procs |-> AsCall(req[p])]
answerBar == [p \in Procs |->
    IF pc[p] = "reply" /\ AsCall(req[p]) # NoCall THEN AsAnswer(status[p])
    ELSE "pending"]

(* The hash that ChangePassword has read is no longer the one stored. *)
contendedBar == [p \in Procs |->
    pc[p] = "update" /\ ~\E u \in users : u.password = user[p].password]

lateBar == [p \in Procs |-> AsCall(stray[p].req)]

Abstract == INSTANCE Credentials WITH
    accounts <- accountsBar, call <- callBar, answer <- answerBar,
    contended <- contendedBar, late <- lateBar

(* Registration, login and password change are atomic: the two statements  *)
(* of ChangePassword, the unique index behind RegisterUser and the single  *)
(* read of LoginUser behave, under every interleaving, lost answer and     *)
(* restart, like the one-step operations of Credentials.  In particular no *)
(* login succeeds with a password that was not current during the request, *)
(* and a 422 of ChangePassword is given for a reason Credentials allows.   *)
CredentialsAtomic == Abstract!CSpec

=============================================================================
