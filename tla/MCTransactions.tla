---------------------------- MODULE MCTransactions ----------------------------
(***************************************************************************)
(* Instances of Transactions for TLC.                                      *)
(***************************************************************************)
EXTENDS Transactions, SequencesExt

(* Every Insert of at most n rows. *)
Inserts(op, n) == [op : {op}, rows : BoundedSeq(RowsOf[op], n)]

Ops(ops) == {c \in Statements \cup Lookups \cup Others : c.op \in ops}

(* Users come, change and go, and so do the rows that refer to them.  Two  *)
(* rows of users in one call have two uids, scounts one title, and updates *)
(* set one column.                                                         *)
AllCalls ==
    {c \in Inserts("InsertUsers", 2) :
        Cardinality({u.uid : u \in RowSet(c)}) = Len(c.rows)} \cup
    Inserts("InsertMembers", 1) \cup
    {c \in Inserts("InsertScounts", 1) : \A s \in RowSet(c) : s.title # None} \cup
    {c \in Ops({"UpdateScount"}) : c.title = None /\ c.owner # None} \cup
    {c \in Ops({"UpdateUser"}) : c.name # None} \cup
    Ops({"DeleteUser", "DeleteScount", "DeleteMember",
         "FindScount", "FindMember", "NilId"})

(* Calls that wait, or are waited for, beside some that never do.  Two     *)
(* rows of one call may be equal.                                          *)
WaitingCalls ==
    Inserts("InsertUsers", 2) \cup
    Ops({"DeleteUser", "FindUser", "UpdateMember"})

DataSymmetry ==
    Permutations(Uids) \cup Permutations(Emails) \cup Permutations(Sids)
    \cup Permutations(Titles) \cup Permutations(Passwords)
Symmetry == DataSymmetry \cup Permutations(Callers)

=============================================================================
