----------------------------- MODULE Collections -----------------------------
(***************************************************************************)
(* What db.Collection promises: calls come from any number of goroutines   *)
(* ("assumed to be thread-safe", db/store.go) and each takes effect at one *)
(* moment between its arrival and its answer, an Insert with all its rows  *)
(* or with none.  Transactions, keys and waiting are not mentioned.        *)
(*                                                                         *)
(* The promise has one weakness: after an error that is none of package    *)
(* db's, the call may still take effect later, once.                       *)
(***************************************************************************)
EXTENDS Calls

VARIABLES
    call,       \* the call of a caller, or NoCall
    answer,     \* its answer, or Pending
    late        \* the calls that have failed and may still take effect, by slot

cvars == <<users, scounts, members, call, answer, late>>

Underway(p) == call[p] # NoCall /\ answer[p] = Pending

Begin(p) ==
    /\ call[p] = NoCall
    /\ \E c \in Workload : call' = [call EXCEPT ![p] = c]
    /\ UNCHANGED <<users, scounts, members, answer, late>>

(* What a call does to the tables when it answers err. *)
Effect(c, err) ==
    \/ IsInsert(c) /\ c.rows # <<>> /\ InsertAll(c, err)
    \/ Statement(c, err)
    \/ Lookup(c, err)
    \/ Early(c, err)

Perform(p) ==
    /\ Underway(p)
    /\ \E err \in Answers : /\ Effect(call[p], err)
                            /\ answer' = [answer EXCEPT ![p] = err]
    /\ UNCHANGED <<call, late>>

Fail(p) ==
    /\ Underway(p)
    /\ answer' = [answer EXCEPT ![p] = ErrOther]
    /\ \/ UNCHANGED late
       \/ \E i \in Slots : /\ \A l \in late : l.slot # i
                           /\ late' = late \cup {[slot |-> i, call |-> call[p]]}
    /\ UNCHANGED <<users, scounts, members, call>>

Return(p) ==
    /\ call[p] # NoCall /\ answer[p] # Pending
    /\ call' = [call EXCEPT ![p] = NoCall]
    /\ answer' = [answer EXCEPT ![p] = Pending]
    /\ UNCHANGED <<users, scounts, members, late>>

PerformLate(l) ==
    /\ \E err \in Answers : Effect(l.call, err)
    /\ late' = late \ {l}
    /\ UNCHANGED <<call, answer>>

Forget(l) ==
    /\ late' = late \ {l}
    /\ UNCHANGED <<users, scounts, members, call, answer>>

CInit ==
    /\ TablesInit
    /\ call = [p \in Callers |-> NoCall]
    /\ answer = [p \in Callers |-> Pending]
    /\ late = {}

CNext ==
    \/ \E p \in Callers : Begin(p) \/ Perform(p) \/ Fail(p) \/ Return(p)
    \/ \E l \in late : PerformLate(l) \/ Forget(l)

CSpec == CInit /\ [][CNext]_cvars

=============================================================================
