----------------------------- MODULE BTreeNode ------------------------------
(***************************************************************************)
(* IxNodeHandle of src/index/ix_index_handle.cpp (lines 1-170): one B+tree *)
(* node seen as two parallel arrays, keys and values (rids in a leaf,      *)
(* child page numbers in an internal node).  A node is a record            *)
(* [keys, vals] of two sequences of equal length (num_key).                *)
(*                                                                         *)
(* Positions are 0-based as in the code: slot i is keys[i+1].  ix_compare  *)
(* over the concatenated typed columns is abstracted to the order of a     *)
(* single integer column.                                                  *)
(***************************************************************************)
EXTENDS Naturals, Sequences, SequencesExt, FiniteSets, FiniteSetsExt

(***************************************************************************)
(* lower_bound / upper_bound, binary_search branch: the l/r loop.  The     *)
(* only difference between the two is cmp < 0 against cmp <= 0.           *)
(***************************************************************************)
UpperBoundBinary(keys, target) ==
    LET RECURSIVE Loop(_, _)
        Loop(l, r) ==
            IF l < r
            THEN LET mid == (l + r) \div 2 IN
                 IF keys[mid + 1] <= target THEN Loop(mid + 1, r) ELSE Loop(l, mid)
            ELSE l
    IN Loop(0, Len(keys))

LowerBoundBinary(keys, target) ==
    LET RECURSIVE Loop(_, _)
        Loop(l, r) ==
            IF l < r
            THEN LET mid == (l + r) \div 2 IN
                 IF keys[mid + 1] < target THEN Loop(mid + 1, r) ELSE Loop(l, mid)
            ELSE l
    IN Loop(0, Len(keys))

(***************************************************************************)
(* The linear branch: the first slot passing the comparison, else n.      *)
(***************************************************************************)
FirstSlotOr(keys, P(_)) ==
    LET hits == {i \in 0..(Len(keys) - 1) : P(keys[i + 1])} IN
    IF hits = {} THEN Len(keys) ELSE Min(hits)

LowerBoundLinear(keys, target) == FirstSlotOr(keys, LAMBDA k : k >= target)
UpperBoundLinear(keys, target) == FirstSlotOr(keys, LAMBDA k : k > target)

\* The index handle is built with binary_search on; both branches are
\* checked against the same reference below.
NodeLowerBound(keys, target) == LowerBoundBinary(keys, target)
NodeUpperBound(keys, target) == UpperBoundBinary(keys, target)

(***************************************************************************)
(* insert_pairs(pos, ks, vs, n) and erase_pair(pos): the memmoves of both  *)
(* arrays and set_size.                                                    *)
(***************************************************************************)
\* Mutation: insert_pairs whose loop sets the keys but not the rids.
InsertPairsKeysOnly(node, pos, ks, vs) ==
    [node EXCEPT !.keys = SubSeq(@, 1, pos) \o ks \o SubSeq(@, pos + 1, Len(@))]

InsertPairs(node, pos, ks, vs) ==
    [node EXCEPT !.keys = SubSeq(@, 1, pos) \o ks \o SubSeq(@, pos + 1, Len(@)),
                 !.vals = SubSeq(@, 1, pos) \o vs \o SubSeq(@, pos + 1, Len(@))]

\* Mutation: erase_pair that shifts the keys but not the rids.
ErasePairKeysOnly(node, pos) ==
    [node EXCEPT !.keys = RemoveAt(@, pos + 1),
                 !.vals = SubSeq(@, 1, Len(@) - 1)]

ErasePair(node, pos) ==
    [node EXCEPT !.keys = RemoveAt(@, pos + 1),
                 !.vals = RemoveAt(@, pos + 1)]

(***************************************************************************)
(* insert(key, value): no-op when the key is present, else insert_pair at  *)
(* lower_bound.  remove(key): erase_pair at lower_bound when it matches.   *)
(***************************************************************************)
Matches(node, pos, key) == pos < Len(node.keys) /\ node.keys[pos + 1] = key

\* Mutation: insert without the duplicate-key check.
NodeInsertNoDupCheck(node, key, val) ==
    InsertPairs(node, NodeLowerBound(node.keys, key), <<key>>, <<val>>)

NodeInsert(node, key, val) ==
    LET pos == NodeLowerBound(node.keys, key) IN
    IF Matches(node, pos, key) THEN node
    ELSE InsertPairs(node, pos, <<key>>, <<val>>)

\* Mutation: remove that erases the slot at lower_bound without comparing.
NodeRemoveNoMatch(node, key) ==
    LET pos == NodeLowerBound(node.keys, key) IN
    IF pos < Len(node.keys) THEN ErasePair(node, pos) ELSE node

NodeRemove(node, key) ==
    LET pos == NodeLowerBound(node.keys, key) IN
    IF Matches(node, pos, key) THEN ErasePair(node, pos) ELSE node

\* leaf_lookup(key): the rid at lower_bound when its key matches, as the
\* set of rids found (empty when it returns false).
LeafLookup(node, key) ==
    LET pos == NodeLowerBound(node.keys, key) IN
    IF Matches(node, pos, key) THEN {node.vals[pos + 1]} ELSE {}

(***************************************************************************)
(* internal_lookup(key): the child at upper_bound - 1, clamped at 0.       *)
(***************************************************************************)
\* Mutation: internal_lookup by lower_bound instead of upper_bound.
InternalLookupLowerBound(node, key) ==
    LET idx == NodeLowerBound(node.keys, key) IN
    node.vals[(IF idx = 0 THEN 0 ELSE idx - 1) + 1]

InternalLookup(node, key) ==
    LET idx == NodeUpperBound(node.keys, key) IN
    node.vals[(IF idx = 0 THEN 0 ELSE idx - 1) + 1]

(***************************************************************************)
(* find_child(child) (declared in the header, not under src/; spec.md     *)
(* 4.3): the slot whose value is the child's page number.                  *)
(***************************************************************************)
FindChild(node, child) == CHOOSE i \in 0..(Len(node.vals) - 1) : node.vals[i + 1] = child

(***************************************************************************)
(* Reference definitions for the searches: the number of keys below (at   *)
(* most) the target in a sorted node.                                      *)
(***************************************************************************)
LowerBoundRef(keys, target) == Cardinality({i \in 1..Len(keys) : keys[i] < target})
UpperBoundRef(keys, target) == Cardinality({i \in 1..Len(keys) : keys[i] <= target})

StrictlySorted(keys) == IsSorted(keys, <)
=============================================================================
