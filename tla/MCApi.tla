-------------------------------- MODULE MCApi --------------------------------
(***************************************************************************)
(* Instances of Api for TLC: each workload exercises one part of the       *)
(* handlers, with refused and malformed requests where that part has them. *)
(***************************************************************************)
EXTENDS ApiCredentials, TLC

(* A hash per user, per process and per stray write is in use at a time,   *)
(* and one more must be fresh: with one email, two processes and two stray *)
(* writes six salts are enough.                                            *)
SaltNumbers == 1..6

Proper(requests) == {r \in requests : r.body = "valid"}
Bearing(requests) == {r \in requests : r.token # None}

(* Accounts: registration, login and password changes. *)
AccountWorkload ==
    Proper(RegisterRequest) \cup Proper(LoginRequest) \cup
    Bearing(Proper(PasswordChanger))

(* Scounts: users come and log in, create, change and delete scounts. *)
ScountWorkload ==
    Proper(RegisterRequest) \cup Proper(LoginRequest) \cup
    Bearing(Proper(ScountRequest)) \cup Bearing(Proper(ScountUpdater)) \cup
    Bearing(DeleteScountRequest)

(* Every request there is, malformed ones and ones without token included. *)
AnyRequest == Request

(* The requests of one handler, after a user could register and log in. *)
WithUser(requests) ==
    Proper(RegisterRequest) \cup Proper(LoginRequest) \cup Bearing(requests)

ChangeMe == WithUser({r \in MeRequest : r.op # "GetCurrentUser"})
CreateDelete == WithUser(Proper(ScountRequest) \cup DeleteScountRequest)

(* Whatever identifies a row is interchangeable, and processes are so      *)
(* too where all of them may leave a write behind, or none.                *)
DataSymmetry ==
    Permutations(Emails) \cup Permutations(Uids) \cup Permutations(Passwords)
    \cup Permutations(Sids) \cup Permutations(Titles)
Symmetry == DataSymmetry \cup Permutations(Procs)

=============================================================================
