----------------------------- MODULE BPlusTree ------------------------------
(***************************************************************************)
(* IxIndexHandle of src/index/ix_index_handle.cpp (lines 172-760): the     *)
(* B+tree algorithms over the node pages of one index file.                *)
(*                                                                         *)
(* insert_entry, delete_entry and get_value run under root_latch_, so each *)
(* is one atomic step.  A tree state t is a record [nodes, hdr]: the node  *)
(* page of every page number and the file header (root, first and last    *)
(* leaf, num_pages).  Every member function that changes pages is an      *)
(* operator from t to the next t; the recursive ones (insert_into_parent,  *)
(* coalesce_or_redistribute, maintain_parent) are RECURSIVE operators.     *)
(* The pins the handle holds are counted per page (t.pins, t.peak); the   *)
(* frames under them are BufferPool's.                                     *)
(***************************************************************************)
EXTENDS BTreeNode

CONSTANTS
    Keys,      \* key values (integers)
    Rids,      \* record ids (integers)
    NoRid,     \* an absent rid
    MaxSize,   \* max_size of a node
    MaxPages,  \* bound: page numbers the index file may reach
    AssertsCompiled  \* the build: TRUE evaluates assert's argument, FALSE is NDEBUG

\* Page numbers of ix_defs.h (not under src/; spec.md 6).
IX_NO_PAGE          == -1
IX_FILE_HDR_PAGE    == 0
IX_LEAF_HEADER_PAGE == 1
IX_INIT_ROOT_PAGE   == 2

\* min_size = ceil(max_size / 2) (spec.md 3).
MinSize == (MaxSize + 1) \div 2

\* Page numbers below MaxPages are the index file; the ones above are room
\* for an insert that would grow the file past MaxPages, whose step the
\* model discards (at most one page per level plus a new root, and a tree
\* over Keys has fewer levels than there are keys).
NodePages == 1..(MaxPages + Cardinality(Keys))

ASSUME MaxSize >= 3 /\ MaxPages > IX_INIT_ROOT_PAGE

VARIABLES
    nodes,    \* nodes[pg]: [leaf, keys, vals, parent, prev, next] of page pg
    fileHdr,  \* file_hdr_: [root, firstLeaf, lastLeaf, numPages]
    lastOp,   \* the index operation of the last step, with its arguments
    pinned    \* pinned[pg]: pins the index handle holds on page pg

vars == <<nodes, fileHdr, lastOp, pinned>>

\* stale: rids[0] of an internal page whose size dropped to 0 (set_size
\* and erase_pair do not clear the array), which internal_lookup returns.
Blank == [leaf |-> FALSE, keys |-> <<>>, vals |-> <<>>,
          parent |-> IX_NO_PAGE, prev |-> IX_NO_PAGE, next |-> IX_NO_PAGE,
          stale |-> IX_NO_PAGE]

IsRoot(t, pg) == t.nodes[pg].parent = IX_NO_PAGE

(***************************************************************************)
(* Pins.  A tree state t carries t.pins, the pins the handle holds on each *)
(* page.  fetch_node (lines 677-682) and create_node's new_page (694-701) *)
(* pin a page, unpin_page drops a pin.  A fetch and an unpin of the same  *)
(* page with no pin change in between (find_leaf_page's internal nodes,   *)
(* maintain_child, the neighbour leaf in split and coalesce, adjust_root's *)
(* child) leave t.pins as it was.  t.held counts the pages with a pin,    *)
(* t.peak is the most pages pinned at once so far: each of those frames   *)
(* must stay in the pool at that point.                                    *)
(***************************************************************************)
\* One more pin on pg, and the peak raised to the pages held now.
Fetch(t, pg) ==
    LET held == t.held + (IF t.pins[pg] = 0 THEN 1 ELSE 0) IN
    [t EXCEPT !.pins[pg] = @ + 1, !.held = held, !.peak = IF held > @ THEN held ELSE @]

\* Each page of S fetched and unpinned in turn (maintain_child, the next
\* leaf in split, adjust_root's child): one more frame while it is held.
Touch(t, S) ==
    [t EXCEPT !.peak = Max({@} \cup {t.held + (IF t.pins[c] = 0 THEN 1 ELSE 0) : c \in S})]

\* unpin_page refuses (returns false) when the pin count is already 0.
Unpin(t, pg) ==
    IF t.pins[pg] > 0
    THEN [t EXCEPT !.pins[pg] = @ - 1, !.held = IF t.pins[pg] = 1 THEN @ - 1 ELSE @]
    ELSE t

\* assert(buffer_pool_manager_->unpin_page(...)): the unpin is the assert's
\* argument, so an NDEBUG build never makes it.
AssertUnpin(t, pg) == IF AssertsCompiled THEN Unpin(t, pg) ELSE t

\* Sets the parent of every page in children to p (maintain_child in a loop).
SetParents(t, children, p) ==
    LET nd == t.nodes IN
    [Touch(t, children) EXCEPT !.nodes = [q \in DOMAIN nd |->
                           IF q \in children THEN [nd[q] EXCEPT !.parent = p] ELSE nd[q]]]

(***************************************************************************)
(* find_leaf_page: descend from the root by internal_lookup.              *)
(***************************************************************************)
RECURSIVE Descend(_, _, _)
Descend(t, pg, key) ==
    IF t.nodes[pg].leaf THEN pg ELSE Descend(t, InternalLookup(t.nodes[pg], key), key)

FindLeaf(t, key) == Descend(t, t.hdr.root, key)

(***************************************************************************)
(* maintain_parent: copy a node's first key into its slot in the parent,  *)
(* walking up until the slot already holds it or the root is reached.     *)
(***************************************************************************)
RECURSIVE MaintainParent(_, _)

\* Mutation: maintain_parent that fixes the parent's key and stops there.
MaintainParentOneLevel(t, cur) ==
    LET par == t.nodes[cur].parent IN
    IF par = IX_NO_PAGE THEN t
    ELSE [t EXCEPT !.nodes[par].keys[FindChild(t.nodes[par], cur) + 1] = t.nodes[cur].keys[1]]

\* Mutation: the early return, when the parent already holds the key,
\* leaves the parent pinned.
MaintainParentKeepPinOnMatch(t, cur) ==
    LET par == t.nodes[cur].parent IN
    IF par = IX_NO_PAGE THEN t
    ELSE LET t0    == Fetch(t, par)
             rank  == FindChild(t.nodes[par], cur)
             first == t.nodes[cur].keys[1]
         IN IF t.nodes[par].keys[rank + 1] = first THEN t0
            ELSE MaintainParent(AssertUnpin([t0 EXCEPT !.nodes[par].keys[rank + 1] = first], par),
                                par)

MaintainParent(t, cur) ==
    LET par == t.nodes[cur].parent IN
    IF par = IX_NO_PAGE THEN t
    ELSE LET t0    == Fetch(t, par)
             rank  == FindChild(t.nodes[par], cur)
             first == t.nodes[cur].keys[1]
         IN IF t.nodes[par].keys[rank + 1] = first THEN AssertUnpin(t0, par)
            ELSE MaintainParent(AssertUnpin([t0 EXCEPT !.nodes[par].keys[rank + 1] = first], par),
                                par)

\* create_node(): page num_pages, then num_pages++; new_page pins it.
CreateNode(t) == [Fetch(t, t.hdr.numPages) EXCEPT !.hdr.numPages = @ + 1]

(***************************************************************************)
(* split(node), lines 244-254: create_node gives page num_pages; the upper *)
(* half of node moves to it, with node's leaf flag and parent.            *)
(***************************************************************************)
\* Mutation: a slice one slot short for the moved values.
MoveUpperHalfOffByOne(t, pg) ==
    LET new == t.hdr.numPages
        n   == t.nodes[pg]
        mid == Len(n.keys) \div 2
    IN [CreateNode(t) EXCEPT
                 !.nodes[new] = [Blank EXCEPT
                      !.leaf = n.leaf, !.parent = n.parent,
                      !.keys = SubSeq(n.keys, mid + 1, Len(n.keys)),
                      !.vals = SubSeq(n.vals, mid + 2, Len(n.vals))],
                 !.nodes[pg].keys = SubSeq(n.keys, 1, mid),
                 !.nodes[pg].vals = SubSeq(n.vals, 1, mid)]

MoveUpperHalf(t, pg) ==
    LET new == t.hdr.numPages
        n   == t.nodes[pg]
        mid == Len(n.keys) \div 2
    IN [CreateNode(t) EXCEPT
                 !.nodes[new] = [Blank EXCEPT
                      !.leaf = n.leaf, !.parent = n.parent,
                      !.keys = SubSeq(n.keys, mid + 1, Len(n.keys)),
                      !.vals = SubSeq(n.vals, mid + 1, Len(n.vals))],
                 !.nodes[pg].keys = SubSeq(n.keys, 1, mid),
                 !.nodes[pg].vals = SubSeq(n.vals, 1, mid)]

(***************************************************************************)
(* split, lines 256-266: the new leaf goes into the leaf list after pg;    *)
(* the next leaf (the leaf header included) gets its prev_leaf updated,   *)
(* and the new leaf becomes last_leaf when pg was or when it ends the list.*)
(***************************************************************************)
\* Mutation: the next leaf keeps its old prev_leaf.
LinkNewLeafNoPrevFix(t, pg, new) ==
    LET nx == t.nodes[pg].next
        t1 == [t EXCEPT !.nodes[new].prev = pg, !.nodes[new].next = nx,
                        !.nodes[pg].next = new]
    IN IF t1.hdr.lastLeaf = pg \/ nx = IX_LEAF_HEADER_PAGE
       THEN [t1 EXCEPT !.hdr.lastLeaf = new] ELSE t1

LinkNewLeaf(t, pg, new) ==
    LET nx == t.nodes[pg].next
        t1 == [t EXCEPT !.nodes[new].prev = pg, !.nodes[new].next = nx,
                        !.nodes[pg].next = new]
        t2 == IF nx # IX_NO_PAGE THEN [Touch(t1, {nx}) EXCEPT !.nodes[nx].prev = new] ELSE t1
    IN IF t2.hdr.lastLeaf = pg \/ nx = IX_LEAF_HEADER_PAGE
       THEN [t2 EXCEPT !.hdr.lastLeaf = new] ELSE t2

\* Mutation: an internal split without the maintain_child loop, so the moved
\* children keep the old node as parent.
SplitNoReparent(t, pg) ==
    LET t1 == MoveUpperHalf(t, pg) IN
    IF t.nodes[pg].leaf THEN LinkNewLeaf(t1, pg, t.hdr.numPages) ELSE t1

\* split(node): the whole function; lines 267-270 re-parent the children an
\* internal node moved.
Split(t, pg) ==
    LET new == t.hdr.numPages
        t1  == MoveUpperHalf(t, pg)
    IN IF t.nodes[pg].leaf THEN LinkNewLeaf(t1, pg, new)
       ELSE SetParents(t1, Range(t1.nodes[new].vals), new)

(***************************************************************************)
RECURSIVE InsertIntoParent(_, _, _, _)
InsertIntoParent(t, old, key, new) ==
    IF IsRoot(t, old)
    THEN LET r  == t.hdr.numPages
             t1 == [CreateNode(t) EXCEPT
                       !.nodes[r] = [Blank EXCEPT
                            !.keys = <<t.nodes[old].keys[1], key>>,
                            !.vals = <<old, new>>]]
         IN Unpin([t1 EXCEPT !.nodes[old].parent = r,
                             !.nodes[new].parent = r,
                             !.hdr.root = r,
                             !.hdr.firstLeaf = IF @ = IX_NO_PAGE THEN old ELSE @], r)
    ELSE LET par == t.nodes[old].parent
             pos == FindChild(t.nodes[par], old) + 1
             t1  == [Fetch(t, par) EXCEPT !.nodes[par] = InsertPairs(@, pos, <<key>>, <<new>>),
                                          !.nodes[new].parent = par]
         IN IF Len(t1.nodes[par].keys) >= MaxSize
            THEN LET pnew == t1.hdr.numPages
                     t2   == Split(t1, par)
                 IN Unpin(Unpin(InsertIntoParent(t2, par, t2.nodes[pnew].keys[1], pnew), pnew), par)
            ELSE Unpin(t1, par)

(***************************************************************************)
(* insert_entry(key, rid).  IX_NO_PAGE on an empty tree; a duplicate key  *)
(* leaves the tree alone; otherwise insert, maintain_parent, split the    *)
(* leaf at max_size and insert the new leaf into the parent, then the     *)
(* last_leaf fix-up of lines 362-364.                                      *)
(***************************************************************************)
\* Mutation: insert_entry without the maintain_parent call of line 349.
InsertEntryNoMaintain(t, key, rid) ==
    IF t.hdr.root = IX_NO_PAGE THEN t
    ELSE LET leaf == FindLeaf(t, key)
             t1   == [Fetch(t, leaf) EXCEPT !.nodes[leaf] = NodeInsert(@, key, rid)]
         IN IF Len(t1.nodes[leaf].keys) = Len(t.nodes[leaf].keys) THEN t
            ELSE Unpin(IF Len(t1.nodes[leaf].keys) >= MaxSize
                       THEN LET nl == t1.hdr.numPages
                                t4 == Split(t1, leaf)
                            IN Unpin(InsertIntoParent(t4, leaf, t4.nodes[nl].keys[1], nl), nl)
                       ELSE t1, leaf)

\* Mutation: insert_entry without the unpin of the new leaf (line 359).
InsertEntryNoUnpinNewLeaf(t, key, rid) ==
    IF t.hdr.root = IX_NO_PAGE THEN t
    ELSE LET leaf == FindLeaf(t, key)
             t1   == [Fetch(t, leaf) EXCEPT !.nodes[leaf] = NodeInsert(@, key, rid)]
         IN IF Len(t1.nodes[leaf].keys) = Len(t.nodes[leaf].keys) THEN t
            ELSE LET t2 == MaintainParent(t1, leaf)
                     t3 == IF Len(t2.nodes[leaf].keys) >= MaxSize
                           THEN LET nl == t2.hdr.numPages
                                    t4 == Split(t2, leaf)
                                IN InsertIntoParent(t4, leaf, t4.nodes[nl].keys[1], nl)
                           ELSE t2
                 IN Unpin(IF t3.nodes[leaf].next = IX_LEAF_HEADER_PAGE \/ leaf = t3.hdr.lastLeaf
                          THEN [t3 EXCEPT !.hdr.lastLeaf = IF @ = IX_NO_PAGE THEN leaf ELSE @]
                          ELSE t3, leaf)

InsertEntry(t, key, rid) ==
    IF t.hdr.root = IX_NO_PAGE THEN t
    ELSE LET leaf == FindLeaf(t, key)
             t1   == [Fetch(t, leaf) EXCEPT !.nodes[leaf] = NodeInsert(@, key, rid)]
         IN IF Len(t1.nodes[leaf].keys) = Len(t.nodes[leaf].keys) THEN t
            ELSE LET t2 == MaintainParent(t1, leaf)
                     t3 == IF Len(t2.nodes[leaf].keys) >= MaxSize
                           THEN LET nl == t2.hdr.numPages
                                    t4 == Split(t2, leaf)
                                IN Unpin(InsertIntoParent(t4, leaf, t4.nodes[nl].keys[1], nl), nl)
                           ELSE t2
                 IN Unpin(IF t3.nodes[leaf].next = IX_LEAF_HEADER_PAGE \/ leaf = t3.hdr.lastLeaf
                          THEN [t3 EXCEPT !.hdr.lastLeaf = IF @ = IX_NO_PAGE THEN leaf ELSE @]
                          ELSE t3, leaf)

(***************************************************************************)
(* adjust_root: promote the only child of an internal root               *)
(* (remove_and_return_only_child), or forget an empty leaf root.          *)
(***************************************************************************)
AdjustRoot(t, r) ==
    LET n == t.nodes[r] IN
    IF ~n.leaf /\ Len(n.keys) = 1
    THEN [Touch(t, {n.vals[1]}) EXCEPT !.nodes[r] = ErasePair(@, 0),
                   !.nodes[r].stale = n.vals[1],
                   !.hdr.root = n.vals[1],
                   !.nodes[n.vals[1]].parent = IX_NO_PAGE]
    ELSE IF n.leaf /\ Len(n.keys) = 0
    THEN [t EXCEPT !.hdr.root = IX_NO_PAGE,
                   !.hdr.firstLeaf = IX_NO_PAGE,
                   !.hdr.lastLeaf = IX_NO_PAGE]
    ELSE t

(***************************************************************************)
(* redistribute(neighbor, node, parent, index): move one entry from the   *)
(* neighbor (right sibling when index = 0, else left) and fix the         *)
(* parent's key of whichever node's first key changed.                    *)
(***************************************************************************)
\* Mutation: borrowing from the left sibling without updating the parent's
\* key for node.
RedistributeNoParentKey(t, nb, n, par, index) ==
    IF index = 0
    THEN LET k  == t.nodes[nb].keys[1]
             v  == t.nodes[nb].vals[1]
             t1 == [t EXCEPT !.nodes[nb] = ErasePair(@, 0),
                             !.nodes[n] = InsertPairs(@, Len(@.keys), <<k>>, <<v>>)]
             t2 == IF t1.nodes[n].leaf THEN t1 ELSE SetParents(t1, {v}, n)
         IN [t2 EXCEPT !.nodes[par].keys[index + 2] = t2.nodes[nb].keys[1]]
    ELSE LET m  == Len(t.nodes[nb].keys) - 1
             t1 == [t EXCEPT !.nodes[nb] = ErasePair(@, m),
                             !.nodes[n] = InsertPairs(@, 0, <<t.nodes[nb].keys[m + 1]>>,
                                                           <<t.nodes[nb].vals[m + 1]>>)]
         IN IF t1.nodes[n].leaf THEN t1 ELSE SetParents(t1, {t.nodes[nb].vals[m + 1]}, n)

Redistribute(t, nb, n, par, index) ==
    IF index = 0
    THEN LET k  == t.nodes[nb].keys[1]
             v  == t.nodes[nb].vals[1]
             t1 == [t EXCEPT !.nodes[nb] = ErasePair(@, 0),
                             !.nodes[n] = InsertPairs(@, Len(@.keys), <<k>>, <<v>>)]
             t2 == IF t1.nodes[n].leaf THEN t1 ELSE SetParents(t1, {v}, n)
         IN [t2 EXCEPT !.nodes[par].keys[index + 2] = t2.nodes[nb].keys[1]]
    ELSE LET m  == Len(t.nodes[nb].keys) - 1
             k  == t.nodes[nb].keys[m + 1]
             v  == t.nodes[nb].vals[m + 1]
             t1 == [t EXCEPT !.nodes[nb] = ErasePair(@, m),
                             !.nodes[n] = InsertPairs(@, 0, <<k>>, <<v>>)]
             t2 == IF t1.nodes[n].leaf THEN t1 ELSE SetParents(t1, {v}, n)
         IN [t2 EXCEPT !.nodes[par].keys[index + 1] = t2.nodes[n].keys[1]]

(***************************************************************************)
(* coalesce(neighbor, node, parent, index): the right one of the two is   *)
(* appended to the left one (swapping when index = 0), children re-       *)
(* parented or the right leaf unlinked from the leaf list, and the right  *)
(* one's entry erased from the parent; the right page is left empty.      *)
(***************************************************************************)
\* Mutation: coalesce of two leaves that leaves the prev_leaf of the leaf
\* after the removed one pointing at it.
CoalesceNoPrevFix(t, nb, n, par, index) ==
    LET left  == IF index = 0 THEN n ELSE nb
        right == IF index = 0 THEN nb ELSE n
        R     == t.nodes[right]
        t1    == [t EXCEPT !.nodes[left] = InsertPairs(@, Len(@.keys), R.keys, R.vals),
                           !.nodes[left].next = IF R.leaf THEN R.next ELSE @,
                           !.hdr.lastLeaf = IF @ = right THEN left ELSE @]
        t2    == IF R.leaf THEN t1 ELSE SetParents(t1, Range(R.vals), left)
    IN [t2 EXCEPT !.nodes[par] = ErasePair(@, IF index = 0 THEN 1 ELSE index),
                  !.nodes[right].keys = <<>>,
                  !.nodes[right].vals = <<>>,
                  !.nodes[right].stale = IF R.leaf THEN @ ELSE R.vals[1]]

Coalesce(t, nb, n, par, index) ==
    LET left  == IF index = 0 THEN n ELSE nb
        right == IF index = 0 THEN nb ELSE n
        i     == IF index = 0 THEN 1 ELSE index
        R     == t.nodes[right]
        t1    == [t EXCEPT !.nodes[left] = InsertPairs(@, Len(@.keys), R.keys, R.vals)]
        t2    == IF ~t.nodes[left].leaf
                 THEN SetParents(t1, Range(R.vals), left)
                 ELSE LET a == [t1 EXCEPT !.nodes[left].next = R.next]
                          b == IF R.next # IX_NO_PAGE
                               THEN [Touch(a, {R.next}) EXCEPT !.nodes[R.next].prev = left]
                               ELSE a
                          c == IF b.hdr.lastLeaf = right
                               THEN [b EXCEPT !.hdr.lastLeaf = left] ELSE b
                      IN IF c.hdr.firstLeaf = right
                         THEN [c EXCEPT !.hdr.firstLeaf = left] ELSE c
    IN [t2 EXCEPT !.nodes[par] = ErasePair(@, i),
                  !.nodes[right].keys = <<>>,
                  !.nodes[right].vals = <<>>,
                  !.nodes[right].stale = IF R.leaf THEN @ ELSE R.vals[1]]

\* coalesce's result: whether the parent must be coalesced or redistributed.
\* Mutation: a root is only rebuilt once it has no entry left.
ParentUnderfullRootEmpty(t, par) ==
    IF IsRoot(t, par) THEN Len(t.nodes[par].keys) = 0
    ELSE Len(t.nodes[par].keys) < MinSize

ParentUnderfull(t, par) ==
    IF IsRoot(t, par) THEN Len(t.nodes[par].keys) <= 1
    ELSE Len(t.nodes[par].keys) < MinSize

(***************************************************************************)
(* coalesce_or_redistribute(node)                                          *)
(***************************************************************************)
RECURSIVE CoalesceOrRedistribute(_, _)

\* Mutation: redistribute already when the two siblings hold 2 * min_size - 1.
CoalesceOrRedistributeEager(t, n) ==
    IF IsRoot(t, n) THEN Unpin(AdjustRoot(t, n), n)
    ELSE IF Len(t.nodes[n].keys) >= MinSize THEN Unpin(t, n)
    ELSE LET par   == t.nodes[n].parent
             index == FindChild(t.nodes[par], n)
             nb    == t.nodes[par].vals[(IF index > 0 THEN index - 1 ELSE index + 1) + 1]
             t0    == Fetch(Fetch(t, par), nb)
             done(x) == Unpin(Unpin(Unpin(x, nb), par), n)
         IN IF Len(t.nodes[n].keys) + Len(t.nodes[nb].keys) >= 2 * MinSize - 1
            THEN done(Redistribute(t0, nb, n, par, index))
            ELSE LET t1 == Coalesce(t0, nb, n, par, index)
                 IN IF ParentUnderfull(t1, par)
                    THEN CoalesceOrRedistribute(Unpin(Unpin(t1, nb), n), par) ELSE done(t1)

CoalesceOrRedistribute(t, n) ==
    IF IsRoot(t, n) THEN Unpin(AdjustRoot(t, n), n)
    ELSE IF Len(t.nodes[n].keys) >= MinSize THEN Unpin(t, n)
    ELSE LET par   == t.nodes[n].parent
             index == FindChild(t.nodes[par], n)
             nb    == t.nodes[par].vals[(IF index > 0 THEN index - 1 ELSE index + 1) + 1]
             t0    == Fetch(Fetch(t, par), nb)
             done(x) == Unpin(Unpin(Unpin(x, nb), par), n)
         IN IF Len(t.nodes[n].keys) + Len(t.nodes[nb].keys) >= 2 * MinSize
            THEN done(Redistribute(t0, nb, n, par, index))
            ELSE LET t1 == Coalesce(t0, nb, n, par, index)
                 IN IF ParentUnderfull(t1, par)
                    THEN CoalesceOrRedistribute(Unpin(Unpin(t1, nb), n), par) ELSE done(t1)

(***************************************************************************)
(* delete_entry(key): remove from the leaf; when something was removed,   *)
(* maintain_parent (non-empty leaf) and coalesce_or_redistribute.  The    *)
(* need_delete branch only records the page in the transaction.           *)
(***************************************************************************)
DeleteEntry(t, key) ==
    IF t.hdr.root = IX_NO_PAGE THEN t
    ELSE LET leaf == FindLeaf(t, key)
             t1   == [Fetch(t, leaf) EXCEPT !.nodes[leaf] = NodeRemove(@, key)]
         IN IF Len(t1.nodes[leaf].keys) = Len(t.nodes[leaf].keys) THEN t
            ELSE CoalesceOrRedistribute(
                     IF Len(t1.nodes[leaf].keys) > 0 THEN MaintainParent(t1, leaf) ELSE t1,
                     leaf)

(***************************************************************************)
(* get_value(key): the rids of the matching slots from lower_bound on.    *)
(***************************************************************************)
GetValue(t, key) ==
    IF t.hdr.root = IX_NO_PAGE THEN {}
    ELSE LET n   == t.nodes[FindLeaf(t, key)]
             pos == NodeLowerBound(n.keys, key)
         IN {n.vals[i] : i \in {i \in (pos + 1)..Len(n.keys) :
                                  \A j \in (pos + 1)..i : n.keys[j] = key}}

(***************************************************************************)
(* The iterator functions.  An Iid is [page_no, slot_no] with a 0-based   *)
(* slot; get_rid's IndexEntryNotFoundError is the empty set.              *)
(***************************************************************************)
Iid(p, s) == [page_no |-> p, slot_no |-> s]

\* leaf_end: one past the last slot of last_leaf.
LeafEnd(t) == Iid(t.hdr.lastLeaf, Len(t.nodes[t.hdr.lastLeaf].keys))

\* leaf_begin: slot 0 of first_leaf.
LeafBegin(t) == Iid(t.hdr.firstLeaf, 0)

\* Mutation: the loop of lower_bound / upper_bound dropped, so a position
\* one past the end of the found leaf is returned as it is.
WalkLeavesNoNext(t, pg, key, upper) ==
    Iid(pg, IF upper THEN NodeUpperBound(t.nodes[pg].keys, key)
                     ELSE NodeLowerBound(t.nodes[pg].keys, key))

\* The loop of lower_bound (upper = FALSE) and upper_bound (upper = TRUE):
\* the first slot of the leaf at or past key, else on along next_leaf
\* until an end sentinel, and then leaf_end.
RECURSIVE WalkLeaves(_, _, _, _)
WalkLeaves(t, pg, key, upper) ==
    LET n   == t.nodes[pg]
        pos == IF upper THEN NodeUpperBound(n.keys, key) ELSE NodeLowerBound(n.keys, key)
    IN  IF pos < Len(n.keys) THEN Iid(pg, pos)
        ELSE IF n.next \in {IX_LEAF_HEADER_PAGE, IX_NO_PAGE} THEN LeafEnd(t)
        ELSE WalkLeaves(t, n.next, key, upper)

IxLowerBound(t, key) ==
    IF t.hdr.root = IX_NO_PAGE THEN Iid(-1, -1)
    ELSE WalkLeaves(t, FindLeaf(t, key), key, FALSE)

IxUpperBound(t, key) ==
    IF t.hdr.root = IX_NO_PAGE THEN Iid(-1, -1)
    ELSE WalkLeaves(t, FindLeaf(t, key), key, TRUE)

\* get_rid: the rid in the slot, or IndexEntryNotFoundError ({}) past the end.
GetRid(t, iid) ==
    LET n == t.nodes[iid.page_no] IN
    IF iid.slot_no >= Len(n.keys) THEN {} ELSE {n.vals[iid.slot_no + 1]}

Init ==
    /\ nodes = [pg \in NodePages |->
                  CASE pg = IX_LEAF_HEADER_PAGE ->
                         [Blank EXCEPT !.leaf = TRUE, !.prev = IX_INIT_ROOT_PAGE,
                                       !.next = IX_INIT_ROOT_PAGE]
                    [] pg = IX_INIT_ROOT_PAGE ->
                         [Blank EXCEPT !.leaf = TRUE, !.prev = IX_LEAF_HEADER_PAGE,
                                       !.next = IX_LEAF_HEADER_PAGE]
                    [] OTHER -> Blank]
    /\ fileHdr = [root |-> IX_INIT_ROOT_PAGE, firstLeaf |-> IX_INIT_ROOT_PAGE,
                  lastLeaf |-> IX_INIT_ROOT_PAGE, numPages |-> IX_INIT_ROOT_PAGE + 1]
    /\ lastOp = [op |-> "none", key |-> NoRid, rid |-> NoRid]
    /\ pinned = [pg \in NodePages |-> 0]

Tree ==
    LET held == Cardinality({pg \in NodePages : pinned[pg] > 0}) IN
    [nodes |-> nodes, hdr |-> fileHdr, pins |-> pinned, held |-> held, peak |-> held]

Apply(t) ==
    /\ nodes' = t.nodes
    /\ fileHdr' = t.hdr
    /\ pinned' = t.pins

\* Bound: an insert is explored only while the file stays within MaxPages.
Insert(k, r) ==
    LET t == InsertEntry(Tree, k, r) IN
    /\ t.hdr.numPages <= MaxPages
    /\ Apply(t)
    /\ lastOp' = [op |-> "insert", key |-> k, rid |-> r]

Delete(k) ==
    /\ Apply(DeleteEntry(Tree, k))
    /\ lastOp' = [op |-> "delete", key |-> k, rid |-> NoRid]

Next == \E k \in Keys : Delete(k) \/ \E r \in Rids : Insert(k, r)

Spec == Init /\ [][Next]_vars

\* The tree without the history variable lastOp, which no action reads:
\* a run whose properties do not mention lastOp may identify states by it.
TreeView == <<nodes, fileHdr, pinned>>


-----------------------------------------------------------------------------
(* Views of the tree used by the properties *)

\* The leaves under pg from left to right, following child pointers.
RECURSIVE LeavesUnder(_, _, _)
LeavesUnder(nd, pg, fuel) ==
    IF fuel = 0 THEN <<>>
    ELSE IF nd[pg].leaf THEN <<pg>>
    ELSE FlattenSeq([i \in 1..Len(nd[pg].vals) |-> LeavesUnder(nd, nd[pg].vals[i], fuel - 1)])

\* The pages under pg, pg included, with the depth of each.
RECURSIVE NodesUnder(_, _, _)
NodesUnder(nd, pg, d) ==
    IF d > MaxPages \/ nd[pg].leaf THEN {<<pg, d>>}
    ELSE {<<pg, d>>} \cup UNION {NodesUnder(nd, c, d + 1) : c \in Range(nd[pg].vals)}

\* The leaf list from pg following next_leaf up to an end sentinel.
RECURSIVE Chain(_, _, _)
Chain(nd, pg, fuel) ==
    IF pg \in {IX_LEAF_HEADER_PAGE, IX_NO_PAGE} \/ fuel = 0 THEN <<>>
    ELSE <<pg>> \o Chain(nd, nd[pg].next, fuel - 1)

\* Levels of the tree: 1 for a leaf root.
Height == 1 + Max({x[2] : x \in NodesUnder(nodes, fileHdr.root, 0)})

Leaves     == LeavesUnder(nodes, fileHdr.root, MaxPages)
TreeNodes  == {x[1] : x \in NodesUnder(nodes, fileHdr.root, 0)}
SubtreeKeys(pg) ==
    UNION {Range(nodes[l].keys) : l \in Range(LeavesUnder(nodes, pg, MaxPages))}

\* The key -> rid map the leaves under the root hold.
TreeEntries ==
    LET pairs == IF fileHdr.root = IX_NO_PAGE THEN {}
                 ELSE UNION {{<<nodes[l].keys[i], nodes[l].vals[i]>> : i \in 1..Len(nodes[l].keys)}
                               : l \in Range(Leaves)}
    IN [k \in Keys |-> IF \E x \in pairs : x[1] = k
                       THEN (CHOOSE x \in pairs : x[1] = k)[2] ELSE NoRid]

-----------------------------------------------------------------------------
(* Properties *)

NodeRec == [leaf : BOOLEAN, keys : Seq(Keys), vals : Seq(Rids \cup NodePages),
            parent : NodePages \cup {IX_NO_PAGE},
            prev : NodePages \cup {IX_NO_PAGE}, next : NodePages \cup {IX_NO_PAGE},
            stale : NodePages \cup {IX_NO_PAGE}]

\* Every page is a node record with parallel key and value arrays.
TypeOK ==
    /\ nodes \in [NodePages -> NodeRec]
    /\ \A pg \in NodePages : Len(nodes[pg].keys) = Len(nodes[pg].vals)
    /\ fileHdr.root \in NodePages \cup {IX_NO_PAGE}
    /\ fileHdr.numPages \in IX_INIT_ROOT_PAGE..MaxPages
    /\ pinned \in [NodePages -> Nat]

\* The leaf list (spec.md 8): from first_leaf, next_leaf visits exactly the
\* leaves of the tree from left to right and ends at last_leaf, whose next
\* is the leaf header; prev_leaf mirrors next_leaf, the leaf header points
\* at both ends, and the keys along the list are strictly increasing (split,
\* coalesce and the last_leaf updates of insert_entry).
LeafChainConsistent ==
    fileHdr.root # IX_NO_PAGE =>
       LET chain == Chain(nodes, fileHdr.firstLeaf, MaxPages) IN
       /\ chain = Leaves
       /\ Last(chain) = fileHdr.lastLeaf
       /\ nodes[fileHdr.lastLeaf].next = IX_LEAF_HEADER_PAGE
       /\ nodes[fileHdr.firstLeaf].prev = IX_LEAF_HEADER_PAGE
       /\ nodes[IX_LEAF_HEADER_PAGE].prev = fileHdr.lastLeaf
       /\ nodes[IX_LEAF_HEADER_PAGE].next = fileHdr.firstLeaf
       /\ \A i \in 2..Len(chain) : nodes[chain[i]].prev = chain[i - 1]
       /\ StrictlySorted(FlattenSeq([i \in 1..Len(chain) |-> nodes[chain[i]].keys]))

\* Balance (spec.md 8): all leaves at one depth, every node below max_size,
\* an internal root with at least two children, and each child's parent
\* pointer naming the node that points to it (split, coalesce and
\* adjust_root re-parent through maintain_child and set_parent_page_no).
Balanced ==
    fileHdr.root # IX_NO_PAGE =>
       LET under == NodesUnder(nodes, fileHdr.root, 0) IN
       /\ Cardinality({x[2] : x \in {y \in under : nodes[y[1]].leaf}}) = 1
       /\ nodes[fileHdr.root].parent = IX_NO_PAGE
       /\ ~nodes[fileHdr.root].leaf => Len(nodes[fileHdr.root].keys) >= 2
       /\ \A pg \in {x[1] : x \in under} :
             /\ Len(nodes[pg].keys) <= MaxSize - 1
             /\ ~nodes[pg].leaf => \A c \in Range(nodes[pg].vals) : nodes[c].parent = pg

\* Occupancy (spec.md 3 and 8): every non-root node of the tree holds at
\* least min_size keys once insert_entry (split) or delete_entry
\* (coalesce_or_redistribute) has returned.
MinOccupancy ==
    fileHdr.root # IX_NO_PAGE =>
       \A pg \in TreeNodes \ {fileHdr.root} : Len(nodes[pg].keys) >= MinSize

\* Parent-key correctness (spec.md 8): key i of an internal node is the
\* smallest key under child i (maintain_parent, redistribute's parent key,
\* the separator insert_into_parent installs).
SeparatorsAreSubtreeMins ==
    fileHdr.root # IX_NO_PAGE =>
       \A pg \in TreeNodes : ~nodes[pg].leaf =>
          \A i \in 1..Len(nodes[pg].keys) :
             nodes[pg].keys[i] = Min(SubtreeKeys(nodes[pg].vals[i]))

\* get_value's descent by internal_lookup finds, for every key, exactly the
\* rid the tree's leaves hold for it, and nothing for an absent key.
GetValueFindsEntries ==
    LET e == TreeEntries IN
    \A k \in Keys : GetValue(Tree, k) = IF e[k] = NoRid THEN {} ELSE {e[k]}

\* The iterators (spec.md 4.4, range iteration): over the leaf list from
\* first_leaf, lower_bound(k) and upper_bound(k) are the first slot whose key
\* is >= k and > k, or leaf_end() when there is none, even when the leaf
\* find_leaf_page reaches holds no such key and the walk must move on along
\* next_leaf; leaf_begin() is the first slot; get_rid reads the rid of every
\* slot between them and throws at leaf_end().
IteratorsFollowLeafOrder ==
    fileHdr.root # IX_NO_PAGE =>
       LET t     == Tree
           chain == Chain(nodes, fileHdr.firstLeaf, MaxPages)
           slots == FlattenSeq([i \in 1..Len(chain) |->
                       [j \in 1..Len(nodes[chain[i]].keys) |-> Iid(chain[i], j - 1)]])
           keyAt(x) == nodes[x.page_no].keys[x.slot_no + 1]
           first(S) == IF S = {} THEN LeafEnd(t) ELSE slots[Min(S)]
       IN  /\ LeafBegin(t) = first(DOMAIN slots)
           /\ GetRid(t, LeafEnd(t)) = {}
           /\ \A i \in DOMAIN slots : GetRid(t, slots[i]) = {TreeEntries[keyAt(slots[i])]}
           /\ \A k \in (Min(Keys) - 1)..(Max(Keys) + 1) :
                 /\ IxLowerBound(t, k) = first({i \in DOMAIN slots : keyAt(slots[i]) >= k})
                 /\ IxUpperBound(t, k) = first({i \in DOMAIN slots : keyAt(slots[i]) > k})

\* The index handle implements the abstract index: its leaves, read as a
\* map, change exactly as insert_entry and delete_entry promise, with the
\* index retired once its last entry is deleted.
\* Both branches of IxNodeHandle::lower_bound and upper_bound (the binary
\* search and the linear scan) agree with the reference count of smaller
\* keys, for every target, on every node, leaf or internal, that the
\* inserts, splits, redistributions and coalesces produce.
NodeSearchMatchesReference ==
    fileHdr.root # IX_NO_PAGE =>
      \A pg \in TreeNodes, t \in (Min(Keys) - 1)..(Max(Keys) + 1) :
         LET ks == nodes[pg].keys IN
         /\ LowerBoundBinary(ks, t) = LowerBoundRef(ks, t)
         /\ LowerBoundLinear(ks, t) = LowerBoundRef(ks, t)
         /\ UpperBoundBinary(ks, t) = UpperBoundRef(ks, t)
         /\ UpperBoundLinear(ks, t) = UpperBoundRef(ks, t)

\* spec.md 5, resource ownership: every pin is matched by exactly one unpin.
\* Between operations the index handle holds no pin on any page: each page
\* that insert_entry and delete_entry fetch or create on the way down, in
\* splits up the tree, in maintain_parent and in coalesce_or_redistribute's
\* parent and neighbour, is unpinned once on every path out.
PinsBalanced == \A pg \in NodePages : pinned[pg] = 0

\* fetch_node asserts that the pool returned a page (line 679) and
\* create_node's new_page returns nullptr when no frame is free: an
\* operation succeeds only while the pool can hold every page it has pinned
\* at once.  The cascade of insert_into_parent keeps the node and its new
\* sibling of every level pinned until it returns, with a moved child or the
\* next leaf fetched besides, and coalesce_or_redistribute holds a node, its
\* neighbour and their parent.  From every state, the most pages
\* insert_entry or delete_entry pins at once is at most two per level of
\* the tree plus one: the frames the pool must have free for the index.
OperationPinsWithinHeight ==
    fileHdr.root # IX_NO_PAGE =>
       \A k \in Keys :
          /\ \A r \in Rids : InsertEntry(Tree, k, r).peak <= 2 * Height + 1
          /\ DeleteEntry(Tree, k).peak <= 2 * Height + 1

Index == INSTANCE AbstractIndex WITH
            entries <- TreeEntries, usable <- fileHdr.root # IX_NO_PAGE,
            RetireOnEmpty <- TRUE
IndexSpec == Index!Spec

\* spec.md 8, insert-then-get: after insert_entry(k, r) on an absent k,
\* get_value(k) contains r, whatever was deleted before.
MapIndex == INSTANCE AbstractIndex WITH
            entries <- TreeEntries, usable <- TRUE, RetireOnEmpty <- FALSE
InsertThenGet == MapIndex!Spec
=============================================================================
