---------------------------- MODULE AbstractIndex ----------------------------
(***************************************************************************)
(* What an index handle promises its callers, as a map from keys to rids   *)
(* (spec.md 4.4 and 8): insert_entry adds a key that is absent and keeps  *)
(* the rid of one that is present; delete_entry removes a key.            *)
(*                                                                         *)
(* usable records whether the index still has a root.  The index handle   *)
(* drops its root when the last entry is deleted (adjust_root) and from   *)
(* then on insert_entry returns IX_NO_PAGE without inserting.  With       *)
(* RetireOnEmpty FALSE usable stays TRUE: the map spec.md 8 describes      *)
(* ("after insert_entry(k, r), get_value(k) contains r").                  *)
(***************************************************************************)
CONSTANTS Keys, Rids, NoRid,
          RetireOnEmpty  \* whether deleting the last entry retires the index

VARIABLES entries, usable, lastOp

Init ==
    /\ entries = [k \in Keys |-> NoRid]
    /\ usable = TRUE
    /\ lastOp = [op |-> "none", key |-> NoRid, rid |-> NoRid]

Insert(k, r) ==
    /\ lastOp' = [op |-> "insert", key |-> k, rid |-> r]
    /\ entries' = IF usable /\ entries[k] = NoRid
                  THEN [entries EXCEPT ![k] = r] ELSE entries
    /\ UNCHANGED usable

Delete(k) ==
    LET after == [entries EXCEPT ![k] = NoRid] IN
    /\ lastOp' = [op |-> "delete", key |-> k, rid |-> NoRid]
    /\ entries' = after
    /\ usable' = (usable /\ (~RetireOnEmpty \/ entries[k] = NoRid
                                \/ \E j \in Keys : after[j] # NoRid))

Next == \E k \in Keys : Delete(k) \/ \E r \in Rids : Insert(k, r)

Spec == Init /\ [][Next]_<<entries, usable, lastOp>>
=============================================================================
