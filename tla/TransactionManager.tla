-------------------------- MODULE TransactionManager -------------------------
(***************************************************************************)
(* TransactionManager of src/storage/buffer_pool_manager.cpp (lines        *)
(* 178-260): begin, commit and abort over the write set and the lock set   *)
(* of each transaction.                                                    *)
(*                                                                         *)
(* The collaborators are outside src/ and are taken from their interfaces  *)
(* (spec_modelled): a table of Rows, each holding a value or Absent; the   *)
(* executors' writes, each made under an exclusive row lock of the lock    *)
(* manager and appended to the write set with the row's old value; and    *)
(* SmManager's rollback_insert / rollback_update, which restore a row by   *)
(* its rid, and rollback_delete, which gets only the record and inserts it *)
(* where RmFileHandle::insert_record puts a new record.  Each call of the transaction manager runs on its      *)
(* session's thread and is one step.                                       *)
(***************************************************************************)
EXTENDS Naturals, Sequences, FiniteSets

CONSTANTS
    Txns,       \* transactions (model values)
    Rows,       \* rids of one table: the slot numbers of its page
    Vals,       \* record contents (model values)
    Absent,     \* an empty slot
    NoTxn,      \* no lock holder
    MaxWrites   \* bound: write-set entries per transaction

ASSUME Rows \subseteq Nat

Untouched == "untouched"

VARIABLES
    status,  \* idle (no transaction yet), active (DEFAULT), committed, aborted
    tbl,     \* the table's rows
    owner,   \* the lock manager: the holder of each row's exclusive lock
    lset,    \* txn->get_lock_set()
    wset,    \* txn->get_write_set(): [type, rid, old] entries, oldest first
    orig     \* history: each row's value before the transaction first wrote it

txnVars == <<status, tbl, owner, lset, wset, orig>>

WType == {"INSERT_TUPLE", "DELETE_TUPLE", "UPDATE_TUPLE"}

(***************************************************************************)
(* The executors' writes (not under src/): take the row's exclusive lock,  *)
(* write the row, append the write record.                                 *)
(***************************************************************************)
Write(t, r, type, new) ==
    /\ status[t] = "active"
    /\ owner[r] \in {NoTxn, t}
    /\ Len(wset[t]) < MaxWrites
    /\ owner' = [owner EXCEPT ![r] = t]
    /\ lset' = [lset EXCEPT ![t] = @ \cup {r}]
    /\ wset' = [wset EXCEPT ![t] = Append(@, [type |-> type, rid |-> r, old |-> tbl[r]])]
    /\ orig' = [orig EXCEPT ![t][r] = IF @ = Untouched THEN tbl[r] ELSE @]
    /\ tbl' = [tbl EXCEPT ![r] = new]
    /\ UNCHANGED status

InsertTuple(t, r, v) == tbl[r] = Absent /\ Write(t, r, "INSERT_TUPLE", v)
DeleteTuple(t, r)    == tbl[r] # Absent /\ Write(t, r, "DELETE_TUPLE", Absent)
UpdateTuple(t, r, v) == tbl[r] \notin {Absent, v} /\ Write(t, r, "UPDATE_TUPLE", v)

\* RmFileHandle::insert_record (not under src/): the first free slot of the
\* page; with none free the record goes to a new page, outside Rows.
FreeSlot(table) ==
    LET free == {r \in Rows : table[r] = Absent} IN
    IF free = {} THEN 0 ELSE CHOOSE r \in free : \A q \in free : r <= q

\* SmManager's rollback of one write record (not under src/): by the rid for
\* an insert or an update; a deleted record, of which abort passes only the
\* contents (line 248), is inserted anew.
Undo(table, w) ==
    CASE w.type = "INSERT_TUPLE" -> [table EXCEPT ![w.rid] = Absent]
      [] w.type = "DELETE_TUPLE" -> [table EXCEPT ![FreeSlot(table)] = w.old]
      [] w.type = "UPDATE_TUPLE" -> [table EXCEPT ![w.rid] = w.old]

(***************************************************************************)
(* begin(txn, log_manager) with a transaction the caller passes in: it is  *)
(* entered in txn_map.  A new transaction takes the place of a finished    *)
(* one.  The nullptr path dereferences the null txn (line 202).            *)
(***************************************************************************)
Begin(t) ==
    /\ status[t] # "active"
    /\ status' = [status EXCEPT ![t] = "active"]
    /\ orig' = [orig EXCEPT ![t] = [r \in Rows |-> Untouched]]
    /\ UNCHANGED <<tbl, owner, lset, wset>>

\* The lock-set loop: unlock every lock of t, then clear the set.
Unlocked(t) == [r \in Rows |-> IF r \in lset[t] THEN NoTxn ELSE owner[r]]

\* commit: pop the whole write set, unlock and clear the lock set,
\* COMMITTED.
Commit(t) ==
    /\ status[t] = "active"
    /\ wset' = [wset EXCEPT ![t] = <<>>]
    /\ owner' = Unlocked(t)
    /\ lset' = [lset EXCEPT ![t] = {}]
    /\ status' = [status EXCEPT ![t] = "committed"]
    /\ UNCHANGED <<tbl, orig>>

\* The rollback loop of abort: undo wset->back() and pop it, until empty.
RECURSIVE Rollback(_, _)
Rollback(table, ws) ==
    IF ws = <<>> THEN table
    ELSE Rollback(Undo(table, ws[Len(ws)]), SubSeq(ws, 1, Len(ws) - 1))

\* abort: roll back the write set newest first, unlock and clear the lock
\* set, ABORTED.
Abort(t) ==
    /\ status[t] = "active"
    /\ tbl' = Rollback(tbl, wset[t])
    /\ wset' = [wset EXCEPT ![t] = <<>>]
    /\ owner' = Unlocked(t)
    /\ lset' = [lset EXCEPT ![t] = {}]
    /\ status' = [status EXCEPT ![t] = "aborted"]
    /\ UNCHANGED orig

Init ==
    /\ status = [t \in Txns |-> "idle"]
    /\ tbl \in [Rows -> Vals \cup {Absent}]
    /\ owner = [r \in Rows |-> NoTxn]
    /\ lset = [t \in Txns |-> {}]
    /\ wset = [t \in Txns |-> <<>>]
    /\ orig = [t \in Txns |-> [r \in Rows |-> Untouched]]

Next ==
    \E t \in Txns :
       \/ Begin(t) \/ Commit(t) \/ Abort(t)
       \/ \E r \in Rows : \/ DeleteTuple(t, r)
                          \/ \E v \in Vals : InsertTuple(t, r, v) \/ UpdateTuple(t, r, v)

Spec == Init /\ [][Next]_txnVars

-----------------------------------------------------------------------------
(* Properties *)

\* The records of a table as a bag: how many rows hold each value.
RowBag(table) ==
    LET held == {table[r] : r \in {q \in Rows : table[q] # Absent}} IN
    [v \in held |-> Cardinality({r \in Rows : table[r] = v})]

\* abort undoes the transaction: after the rollback loop the table holds
\* the same records as before the transaction's first write to each row it
\* wrote, with every other row as it is; a record restored by
\* rollback_delete may sit at another rid, so records are compared as a
\* bag, not row by row.
AbortRestoresImage ==
    [][\A t \in Txns :
         (status[t] = "active" /\ status'[t] = "aborted") =>
            RowBag(tbl') = RowBag([r \in Rows |->
                                     IF orig[t][r] = Untouched THEN tbl[r] ELSE orig[t][r]])]_txnVars
=============================================================================
