----------------------------- MODULE Credentials -----------------------------
(***************************************************************************)
(* What package api promises about accounts, whatever the interleaving: a  *)
(* call to register, to log in or to change a password is carried out at   *)
(* one instant between its arrival and its answer, on the accounts of that *)
(* instant.  Hashes, statements, tokens and HTTP are not mentioned.        *)
(*                                                                         *)
(* Two weaknesses are part of the promise.  A call that failed may still   *)
(* be carried out, once, at any later time.  And a change may be refused   *)
(* although its old password is right when another change of the same      *)
(* account was carried out during the call.                                *)
(***************************************************************************)
CONSTANTS
    Procs, Uids, Emails, Passwords,
    NoCall     \* no call is under way

VARIABLES
    accounts,  \* the accounts
    call,      \* the call that each process serves
    answer,    \* its answer, pending before there is one
    contended, \* was the account changed since the call arrived?
    late       \* a failed call that may still be carried out

cvars == <<accounts, call, answer, contended, late>>

Account == [uid : Uids, email : Emails, password : Passwords]
Register == [op : {"RegisterUser"}, email : Emails, password : Passwords]
Login == [op : {"LoginUser"}, email : Emails, password : Passwords]
Change == [op : {"ChangePassword"}, uid : Uids, old : Passwords, new : Passwords]
Call == Register \cup Login \cup Change

CInit ==
    /\ accounts = {}
    /\ call = [p \in Procs |-> NoCall]
    /\ answer = [p \in Procs |-> "pending"]
    /\ contended = [p \in Procs |-> FALSE]
    /\ late = [p \in Procs |-> NoCall]

-----------------------------------------------------------------------------
(* What carrying out c does.  Only calls under way can be contended. *)

Waiting(p, uid) ==
    call[p] \in Change /\ call[p].uid = uid /\ answer[p] = "pending"

Registered(c) ==
    /\ c \in Register
    /\ \A a \in accounts : a.email # c.email
    /\ \E uid \in Uids :
          /\ \A a \in accounts : a.uid # uid
          /\ accounts' = accounts \cup
                {[uid |-> uid, email |-> c.email, password |-> c.password]}
    /\ \A p \in Procs : contended'[p] => contended[p]

LoggedIn(c) ==
    /\ c \in Login
    /\ \E a \in accounts : a.email = c.email /\ a.password = c.password
    /\ UNCHANGED accounts
    /\ \A p \in Procs : contended'[p] => contended[p]

Changed(c) ==
    /\ c \in Change
    /\ \E a \in accounts :
          /\ a.uid = c.uid /\ a.password = c.old
          /\ accounts' = (accounts \ {a}) \cup {[a EXCEPT !.password = c.new]}
    /\ \A p \in Procs : contended'[p] => contended[p] \/ Waiting(p, c.uid)

Granted(c) == Registered(c) \/ LoggedIn(c) \/ Changed(c)

(* Who may be told no: a registration only if there is an account that its *)
(* email or its new uid collides with, a login only if no account has this *)
(* email and password, a change only if the old password is wrong or the   *)
(* call is contended.                                                      *)
Refusable(c, isContended) ==
    /\ c \in Register => accounts # {}
    /\ c \in Login =>
          ~\E a \in accounts : a.email = c.email /\ a.password = c.password
    /\ c \in Change =>
          isContended \/ ~\E a \in accounts : a.uid = c.uid /\ a.password = c.old

Refused(c, isContended) ==
    /\ c # NoCall /\ Refusable(c, isContended)
    /\ UNCHANGED accounts
    /\ \A p \in Procs : contended'[p] => contended[p]

-----------------------------------------------------------------------------
(* A call that is malformed or lacks a token is rejected as it arrives. *)
Arrive(p) ==
    /\ call[p] = NoCall /\ call'[p] \in Call
    /\ call' = [call EXCEPT ![p] = call'[p]]
    /\ \E a \in {"pending", "rejected"} : answer' = [answer EXCEPT ![p] = a]
    /\ UNCHANGED <<accounts, contended, late>>

(* Data that the store does not take is only found out by a registration. *)
CarryOut(p) ==
    /\ call[p] # NoCall /\ answer[p] = "pending"
    /\ \/ answer' = [answer EXCEPT ![p] = "yes"] /\ Granted(call[p])
       \/ answer' = [answer EXCEPT ![p] = "no"] /\ Refused(call[p], contended[p])
       \/ /\ call[p] \in Register
          /\ answer' = [answer EXCEPT ![p] = "rejected"]
          /\ UNCHANGED <<accounts, contended>>
    /\ UNCHANGED <<call, late>>

Return(p) ==
    /\ call[p] # NoCall /\ answer[p] # "pending"
    /\ call' = [call EXCEPT ![p] = NoCall]
    /\ answer' = [answer EXCEPT ![p] = "pending"]
    /\ UNCHANGED <<accounts, contended, late>>

(* A call that fails may be carried out later; the process remembers only  *)
(* its last failed call.                                                   *)
GiveUp(p) ==
    /\ call[p] # NoCall /\ answer[p] = "pending"
    /\ answer' = [answer EXCEPT ![p] = "failed"]
    /\ \/ UNCHANGED late
       \/ \E c \in {call[p], NoCall} : late' = [late EXCEPT ![p] = c]
    /\ UNCHANGED <<accounts, call>>
    /\ \A q \in Procs : contended'[q] => contended[q]

CarryOutLate(p) ==
    /\ late[p] # NoCall
    /\ late' = [late EXCEPT ![p] = NoCall]
    /\ Granted(late[p])
    /\ UNCHANGED <<call, answer>>

Forget(p) ==
    /\ late[p] # NoCall
    /\ late' = [late EXCEPT ![p] = NoCall]
    /\ UNCHANGED <<accounts, call, answer, contended>>

(* All processes stop at once: every call under way has failed. *)
Crash ==
    /\ call' = [p \in Procs |-> NoCall]
    /\ answer' = [p \in Procs |-> "pending"]
    /\ \A p \in Procs :
          \/ late'[p] \in {late[p], NoCall}
          \/ answer[p] = "pending" /\ late'[p] = call[p]
    /\ \A p \in Procs : contended'[p] => contended[p]
    /\ UNCHANGED accounts

CNext ==
    \/ \E p \in Procs :
          \/ Arrive(p) \/ CarryOut(p) \/ Return(p)
          \/ GiveUp(p) \/ CarryOutLate(p) \/ Forget(p)
    \/ Crash

(* Nothing is asked of the progress of a request here. *)
CSpec == CInit /\ [][CNext]_cvars

=============================================================================
