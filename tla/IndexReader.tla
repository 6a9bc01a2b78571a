---------------------------- MODULE IndexReader -----------------------------
(***************************************************************************)
(* IxIndexHandle::lower_bound (src/index/ix_index_handle.cpp 590-613) run *)
(* by a reader that does not hold root_latch_, while insert_entry and      *)
(* delete_entry (which do hold it) change the tree.                        *)
(*                                                                         *)
(* Each fetch_node of the reader is one step: it reads the page as it is  *)
(* at that moment.  The writers' operations stay atomic, as in BPlusTree,  *)
(* because they hold root_latch_ against each other; the reader does not  *)
(* take it, so its steps fall between theirs.  A page is read whole in a  *)
(* step; torn reads of a page being written are not modelled.             *)
(***************************************************************************)
EXTENDS BPlusTree

CONSTANTS
    ReadKeys   \* the keys the reader looks up

VARIABLE
    rd   \* the reader: pc, its key, the page it has fetched, its result

allVars == <<nodes, fileHdr, lastOp, pinned, rd>>

NoKey == -1

\* The reader between calls of lower_bound, and while a call runs.
Busy == {"descend", "scan", "end"}

ReaderIdle == [pc |-> "idle", key |-> NoKey, cur |-> IX_NO_PAGE,
               iid |-> Iid(-1, -1), seen |-> NoKey, stable |-> FALSE]

(***************************************************************************)
(* lower_bound's entry: is_empty(), then find_leaf_page reads root_page_. *)
(* The history field stable records whether the key was in the index at   *)
(* the call and has been after every writer step since.                   *)
(***************************************************************************)
LowerBoundStart(k) ==
    /\ rd.pc \in {"idle", "done"}
    /\ rd' = IF fileHdr.root = IX_NO_PAGE
             THEN [ReaderIdle EXCEPT !.pc = "done", !.key = k]
             ELSE [ReaderIdle EXCEPT !.pc = "descend", !.key = k,
                                     !.cur = fileHdr.root,
                                     !.stable = TreeEntries[k] # NoRid]
    /\ UNCHANGED <<nodes, fileHdr, lastOp, pinned>>

(***************************************************************************)
(* find_leaf_page's loop: fetch the node; a leaf ends the descent, an     *)
(* internal node is left by internal_lookup.  On a node emptied by a     *)
(* concurrent coalesce or adjust_root, upper_bound is 0 and value_at(0)   *)
(* reads the rids[0] the page still holds: the reader goes on to that     *)
(* child.                                                                  *)
(***************************************************************************)
ReaderDescend ==
    /\ rd.pc = "descend"
    /\ LET n == nodes[rd.cur] IN
       rd' = IF n.leaf THEN [rd EXCEPT !.pc = "scan"]
             ELSE IF n.vals = <<>> THEN [rd EXCEPT !.cur = n.stale]
             ELSE [rd EXCEPT !.cur = InternalLookup(n, rd.key)]
    /\ UNCHANGED <<nodes, fileHdr, lastOp, pinned>>

\* Mutation: the walk reads next_leaf but goes on with the same leaf.
ReaderScanNoAdvance ==
    /\ rd.pc = "scan"
    /\ LET n   == nodes[rd.cur]
           pos == NodeLowerBound(n.keys, rd.key)
       IN  rd' = IF pos < Len(n.keys)
                 THEN [rd EXCEPT !.pc = "done", !.iid = Iid(rd.cur, pos),
                                 !.seen = n.keys[pos + 1]]
                 ELSE IF n.next \in {IX_LEAF_HEADER_PAGE, IX_NO_PAGE}
                 THEN [rd EXCEPT !.pc = "end"]
                 ELSE rd
    /\ UNCHANGED <<nodes, fileHdr, lastOp, pinned>>

(***************************************************************************)
(* One turn of lower_bound's while loop over the fetched leaf: return the *)
(* slot of leaf->lower_bound(key) if it is inside the leaf, else stop at  *)
(* an end sentinel or fetch next_leaf.                                    *)
(***************************************************************************)
ReaderScan ==
    /\ rd.pc = "scan"
    /\ LET n   == nodes[rd.cur]
           pos == NodeLowerBound(n.keys, rd.key)
       IN  rd' = IF pos < Len(n.keys)
                 THEN [rd EXCEPT !.pc = "done", !.iid = Iid(rd.cur, pos),
                                 !.seen = n.keys[pos + 1]]
                 ELSE IF n.next \in {IX_LEAF_HEADER_PAGE, IX_NO_PAGE}
                 THEN [rd EXCEPT !.pc = "end"]
                 ELSE [rd EXCEPT !.cur = n.next]
    /\ UNCHANGED <<nodes, fileHdr, lastOp, pinned>>

(***************************************************************************)
(* leaf_end(): fetch_node(last_leaf_).  Once a concurrent delete_entry has *)
(* emptied the index, last_leaf_ is IX_NO_PAGE and the fetch is of page    *)
(* -1: the reader faults.                                                  *)
(***************************************************************************)
ReaderLeafEnd ==
    /\ rd.pc = "end"
    /\ rd' = IF fileHdr.lastLeaf = IX_NO_PAGE
             THEN [rd EXCEPT !.pc = "fault"]
             ELSE [rd EXCEPT !.pc = "done", !.iid = LeafEnd(Tree)]
    /\ UNCHANGED <<nodes, fileHdr, lastOp, pinned>>

\* A writer step: insert_entry or delete_entry under root_latch_, with the
\* reader's history field brought up to date.
Writer ==
    /\ \E k \in Keys : Delete(k) \/ \E r \in Rids : Insert(k, r)
    /\ rd' = IF rd.pc \in Busy
             THEN [rd EXCEPT !.stable = @ /\ TreeEntries'[rd.key] # NoRid]
             ELSE rd

ReaderStep == ReaderDescend \/ ReaderScan \/ ReaderLeafEnd

ReaderInit == Init /\ rd = ReaderIdle

ReaderNext == Writer \/ (\E k \in ReadKeys : LowerBoundStart(k)) \/ ReaderStep

\* The reader thread is scheduled by the OS: a step it can take is taken.
\* Neither the writers nor a new call of lower_bound are required to happen.
ReaderSpec == ReaderInit /\ [][ReaderNext]_allVars /\ WF_allVars(ReaderStep)

-----------------------------------------------------------------------------
(* Properties *)

\* lower_bound returns: however the writers move entries between leaves
\* and unlink leaves while the reader walks, its walk along next_leaf
\* (stale pages included: a coalesced page keeps its next_leaf) reaches a
\* slot or the end of the list, so every call of lower_bound returns or
\* faults.
ReaderReturns == rd.pc \in Busy ~> rd.pc \in {"done", "fault"}

\* spec.md 5: the root latch "guards all structural modifications and
\* also all reads".  If key k is in the index from the call of
\* lower_bound(k) to its return, the returned slot holds k.
LowerBoundLinearizable ==
    (rd.pc = "done" /\ rd.stable) => rd.seen = rd.key

\* leaf_end() is only called on a tree with a last leaf: lower_bound never
\* fetches page IX_NO_PAGE.
NoFetchOfNoPage == rd.pc # "fault"
=============================================================================
