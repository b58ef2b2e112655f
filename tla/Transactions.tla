----------------------------- MODULE Transactions -----------------------------
(***************************************************************************)
(* The calls of package db as package postgres carries them out.           *)
(*                                                                         *)
(* An Insert is a transaction (Tx, store.go): one statement per row, the   *)
(* first error ends it, and the deferred Rollback undoes the rows before.  *)
(* In PostgreSQL, at READ COMMITTED, a row that is not committed is seen   *)
(* by its own session only, but its keys are taken: another session that   *)
(* inserts one of them waits until the transaction ends.  A row that an    *)
(* uncommitted row refers to cannot be deleted meanwhile.  Of sessions     *)
(* that wait for each other one is told of a deadlock.  Every other call   *)
(* is a single statement, or none.                                         *)
(***************************************************************************)
EXTENDS Calls

CONSTANT
    Faults       \* does the connection of a call fail?

ASSUME FaultsAllowedOrNot == Faults \in BOOLEAN

VARIABLES
    call,       \* the call of a caller, or NoCall
    answer,     \* its answer, or Pending
    sess,       \* the transaction of its session
    orphans     \* what goes on in sessions whose caller has given up

vars == <<users, scounts, members, call, answer, sess, orphans>>

-----------------------------------------------------------------------------
(* A transaction: the keys it has taken, the rows it has written, the      *)
(* index of the row it is at, and whether that row's first key is taken.   *)
Transaction ==
    [keys : SUBSET UNION {{"uid"} \X Uids, {"email"} \X Emails,
                          {"sid"} \X Sids, {"member"} \X Member},
     rows : SUBSET (User \cup Scount \cup Member),
     next : Nat \ {0}, half : BOOLEAN]

NewTx == [keys |-> {}, rows |-> {}, next |-> 1, half |-> FALSE]

(* An index entry is made for one index after the other, in this order.    *)
FirstKey(op, row) ==
    CASE op = "InsertUsers" -> <<"uid", row.uid>>
      [] op = "InsertScounts" -> <<"sid", row.sid>>
      [] op = "InsertMembers" -> MemberKey(row)

Underway(p) == call[p] # NoCall /\ answer[p] = Pending
InTx(p) == Underway(p) /\ IsInsert(call[p]) /\ call[p].rows # <<>>
AtRow(p) == InTx(p) /\ sess[p].next <= Len(call[p].rows)
Row(p) == call[p].rows[sess[p].next]

(* The keys the session of p takes next, and those it would wait for.      *)
Wants(p) ==
    LET first == FirstKey(call[p].op, Row(p)) IN
    IF sess[p].half THEN RowKeys(call[p].op, Row(p)) \ {first} ELSE {first}

OrphanKeys == UNION {o.tx.keys : o \in orphans}
KeysOfOthers(p) == OrphanKeys \cup UNION {sess[q].keys : q \in Callers \ {p}}

Free(p) == Wants(p) \cap (TableKeys \cup sess[p].keys \cup KeysOfOthers(p)) = {}

(* A row that a transaction has written refers to the row that c deletes.  *)
Refers(op, rows, c) ==
    \/ c.op = "DeleteUser" /\ op = "InsertScounts" /\ \E s \in rows : s.owner = c.uid
    \/ c.op = "DeleteUser" /\ op = "InsertMembers" /\ \E m \in rows : m.uid = c.uid
    \/ c.op = "DeleteScount" /\ op = "InsertMembers" /\ \E m \in rows : m.sid = c.sid

Blocked(c) ==
    \/ \E p \in Callers : Refers(call[p].op, sess[p].rows, c)
    \/ \E o \in orphans : Refers(o.call.op, o.tx.rows, c)

-----------------------------------------------------------------------------
(* A call comes, and its answer is taken. *)

Begin(p) ==
    /\ call[p] = NoCall
    /\ \E c \in Workload : call' = [call EXCEPT ![p] = c]
    /\ UNCHANGED <<users, scounts, members, answer, sess, orphans>>

Return(p) ==
    /\ call[p] # NoCall /\ answer[p] # Pending
    /\ call' = [call EXCEPT ![p] = NoCall]
    /\ answer' = [answer EXCEPT ![p] = Pending]
    /\ UNCHANGED <<users, scounts, members, sess, orphans>>

(* The call is answered, and its transaction is over. *)
Answer(p, err) ==
    /\ answer' = [answer EXCEPT ![p] = err]
    /\ sess' = [sess EXCEPT ![p] = NewTx]
    /\ UNCHANGED call

(* Calls without a transaction, a delete once nothing refers to its row.   *)
Execute(p) ==
    /\ Underway(p) /\ ~Blocked(call[p])
    /\ \E err \in Answers :
          /\ Statement(call[p], err) \/ Lookup(call[p], err) \/ Early(call[p], err)
          /\ Answer(p, err)
    /\ UNCHANGED orphans

-----------------------------------------------------------------------------
(* Insert. *)

(* The statement of a row takes the row's first key ... *)
StartRow(p) ==
    /\ AtRow(p) /\ ~sess[p].half /\ Free(p)
    /\ sess' = [sess EXCEPT ![p] =
                   [keys |-> sess[p].keys \cup Wants(p), rows |-> sess[p].rows,
                    next |-> sess[p].next, half |-> TRUE]]
    /\ UNCHANGED <<users, scounts, members, call, answer, orphans>>

(* The row is written in the session. *)
RowWritten(p) ==
    /\ sess' = [sess EXCEPT ![p] =
                   [keys |-> sess[p].keys \cup Wants(p),
                    rows |-> sess[p].rows \cup {Row(p)},
                    next |-> sess[p].next + 1, half |-> FALSE]]
    /\ UNCHANGED <<call, answer, orphans>>

(* Faulty variant: the foreign keys are not checked. *)
FinishRowDangling(p) ==
    /\ AtRow(p) /\ sess[p].half /\ Free(p)
    /\ RowWritten(p)
    /\ UNCHANGED tables

(* Faulty variant: no transaction, each statement commits. *)
FinishRowVisibly(p) ==
    /\ AtRow(p) /\ sess[p].half /\ Free(p)
    /\ Referent(call[p].op, Row(p))
    /\ RowWritten(p)
    /\ AddRows(call[p].op, {Row(p)})

(* ... and the other one, and checks its foreign keys. *)
FinishRow(p) ==
    /\ AtRow(p) /\ sess[p].half /\ Free(p)
    /\ Referent(call[p].op, Row(p))
    /\ RowWritten(p)
    /\ UNCHANGED tables

(* The row's key is in the table or was taken by a row before it, or what  *)
(* it refers to does not exist.                                            *)
Violates(p) ==
    /\ AtRow(p)
    /\ \/ Wants(p) \cap (TableKeys \cup sess[p].keys) # {}
       \/ sess[p].half /\ Free(p) /\ ~Referent(call[p].op, Row(p))

(* The first error ends the transaction: the server drops the keys and the *)
(* rows before the answer, and Rollback only ends the session's block.     *)
Violation(p) ==
    /\ Violates(p)
    /\ Answer(p, ErrConflict)
    /\ UNCHANGED <<users, scounts, members, orphans>>

RejectRow(p) ==
    /\ AtRow(p) /\ ~sess[p].half
    /\ \E err \in Rejections : Answer(p, err)
    /\ UNCHANGED <<users, scounts, members, orphans>>

(* p waits for a key that q has taken. *)
WaitsFor(p, q) == p # q /\ AtRow(p) /\ Wants(p) \cap sess[q].keys # {}

(* Each of ps waits for one of them and is waited for by one of them.      *)
Cycle(ps) ==
    \A p \in ps : (\E q \in ps : WaitsFor(p, q)) /\ (\E q \in ps : WaitsFor(q, p))

(* PostgreSQL ends one transaction of a cycle with an error of class 40,   *)
(* which Error does not map to one of package db's.                        *)
Deadlock(p) ==
    /\ \E ps \in SUBSET Callers : p \in ps /\ Cycle(ps)
    /\ Answer(p, ErrOther)
    /\ UNCHANGED <<users, scounts, members, orphans>>

AllWritten(p) == InTx(p) /\ sess[p].next > Len(call[p].rows)

(* Faulty variant: neither Commit nor Rollback is called. *)
CommitForgotten(p) ==
    /\ AllWritten(p)
    /\ answer' = [answer EXCEPT ![p] = Nil]
    /\ UNCHANGED <<users, scounts, members, call, sess, orphans>>

Commit(p) ==
    /\ AllWritten(p)
    /\ AddRows(call[p].op, sess[p].rows)
    /\ Answer(p, Nil)
    /\ UNCHANGED orphans

-----------------------------------------------------------------------------
(* Failures. *)

(* What stays behind of a call: a transaction, or a statement, that        *)
(* PostgreSQL has received in full (`sent`), or a transaction whose Commit *)
(* will never come.                                                        *)
Orphan == [slot : Slots, call : Workload, sent : BOOLEAN, tx : Transaction]

Left(p) ==
    {[slot |-> i, call |-> call[p], tx |-> sess[p], sent |-> s] :
        i \in Slots \ {o.slot : o \in orphans},
        s \in {b \in BOOLEAN : IF b THEN AllWritten(p) \/ IsStatement(call[p])
                                    ELSE sess[p].keys # {}}}

(* The call ends in an error that is none of PostgreSQL's answers. *)
Fail(p) ==
    /\ Faults
    /\ InTx(p) \/ (Underway(p) /\ ~IsInsert(call[p]) /\ call[p] \notin Others)
    /\ Answer(p, ErrOther)
    /\ \/ UNCHANGED orphans
       \/ \E o \in Left(p) : orphans' = orphans \cup {o}
    /\ UNCHANGED tables

(* The server notices that the client is gone, or the Commit is lost. *)
OrphanAborts(o) ==
    /\ orphans' = orphans \ {o}
    /\ UNCHANGED <<users, scounts, members, call, answer, sess>>

(* The server carries out what it has received, and nobody listens. *)
OrphanRuns(o) ==
    /\ o.sent
    /\ IF IsInsert(o.call)
       THEN AddRows(o.call.op, o.tx.rows)
       ELSE ~Blocked(o.call) /\ \E err \in Answers : Statement(o.call, err)
    /\ orphans' = orphans \ {o}
    /\ UNCHANGED <<call, answer, sess>>

-----------------------------------------------------------------------------
Init ==
    /\ TablesInit
    /\ call = [p \in Callers |-> NoCall]
    /\ answer = [p \in Callers |-> Pending]
    /\ sess = [p \in Callers |-> NewTx]
    /\ orphans = {}

(* What a call under way does when nothing fails. *)
Work(p) ==
    \/ Execute(p)
    \/ StartRow(p) \/ FinishRow(p) \/ Violation(p) \/ RejectRow(p) \/ Deadlock(p)
    \/ Commit(p)

Next ==
    \/ \E p \in Callers : Begin(p) \/ Work(p) \/ Fail(p) \/ Return(p)
    \/ \E o \in orphans : OrphanAborts(o) \/ OrphanRuns(o)

Spec == Init /\ [][Next]_vars

(* The Go scheduler runs a goroutine that can run, PostgreSQL answers a    *)
(* statement that need not wait, breaks deadlocks and notices clients that *)
(* are gone.  That a call fails is never counted on.                       *)
Fairness ==
    /\ \A p \in Callers : WF_vars(Work(p)) /\ WF_vars(Return(p))
    /\ WF_vars(\E o \in orphans : OrphanAborts(o) \/ OrphanRuns(o))
FairSpec == Spec /\ Fairness

-----------------------------------------------------------------------------
(* Types of the variables: only a call in a transaction holds a session.   *)
TxTypeOK ==
    /\ TablesTypeOK
    /\ call \in [Callers -> Workload \cup {NoCall}]
    /\ answer \in [Callers -> Answers \cup {Pending}]
    /\ \A p \in Callers : sess[p] # NewTx => InTx(p)
    /\ sess \in [Callers -> Transaction]
    /\ orphans \subseteq Orphan
    /\ \A o1, o2 \in orphans : o1.slot = o2.slot => o1 = o2

(* What failed calls may still do, as Collections sees it. *)
Late == {[slot |-> o.slot, call |-> o.call] : o \in {x \in orphans : x.sent}}

Abstract == INSTANCE Collections WITH late <- Late

(* Each call of package db takes effect in one step between its arrival    *)
(* and its answer, whatever other calls do and whichever connection fails: *)
(* an Insert (users.go:92, scounts.go:190, members.go:64) adds all of its  *)
(* rows when it answers nil and none when it answers an error, and its     *)
(* ErrConflict is about rows that are in the tables or in the call.        *)
CallsAtomic == Abstract!CSpec

(* Whatever calls wait for each other, as long as one is under way some    *)
(* call is answered: no transaction ends without giving back its keys      *)
(* (Tx, store.go:97).                                                      *)
SomeCallAnswered ==
    (\E p \in Callers : Underway(p))
        ~> (\E p \in Callers : call[p] # NoCall /\ answer[p] # Pending)

=============================================================================
