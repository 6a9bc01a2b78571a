# TLA+ models of the CQUDB storage and index layers

This directory holds TLA+ models of the code under `src/`, the TLC configurations that check them, and `PROJECT.json`. `PROJECT.json` lists the components, runs, mutants, the map from definitions to source lines, the findings and the hazards.

## The system

`src/` holds two files.

- **`src/storage/buffer_pool_manager.cpp`** concatenates three classes:
  - **BufferPoolManager** (lines 1-177). This is a fixed array of frames with a page table, a free list and an LRU replacer. `fetch_page` and `new_page` pin a page in a frame, taking a victim from the free list and then from the replacer. `unpin_page` drops a pin and may mark the page dirty. `update_page` writes a dirty victim back before the frame is reused. `flush_page`, `flush_all_pages` and `delete_page` complete the interface. Every public operation holds `latch_` for its whole body.
  - **TransactionManager** (lines 178-260): `begin`, `commit` and `abort`. They work on top of the lock manager and the system manager, whose code is not under `src/`.
  - **RmScan** (lines 261-331): a sequential scan over the records of a record file, which it reads through `RmFileHandle::fetch_page_handle`.
- **`src/index/ix_index_handle.cpp`** holds two classes:
  - **IxNodeHandle** (lines 1-170): one B+tree node as two parallel arrays, keys and rids (child page numbers in internal nodes). Its operations are the searches (`lower_bound`, `upper_bound`, `leaf_lookup`, `internal_lookup`) and the array edits (`insert_pairs`, `insert`, `erase_pair`, `remove`).
  - **IxIndexHandle** (lines 172-760): the B+tree over the node pages of one index file.
    - `insert_entry`, `delete_entry` and `get_value` hold `root_latch_`.
    - The iterator functions `lower_bound`, `upper_bound`, `leaf_begin`, `leaf_end` and `get_rid` do not hold it.
    - Every node is reached through `fetch_node`, which pins the node in the buffer pool. Every node is created through `create_node`, which calls `new_page`.

How the parts interact:
- The index handle and the record scan are clients of the buffer pool.
- The transaction manager sits above both and calls back into the system manager to roll back writes.
- The LRU replacer, the disk manager, the lock and log managers and the index manager are declared in headers and implemented outside `src/`. The models take the little they need of them from `spec.md`, and such definitions are marked `spec_modelled` in the map.

## Modules

| Module | Models | State | Actions / operators |
|---|---|---|---|
| `BufferPool` | BufferPoolManager and the LRU replacer | `frame` (id, pin, dirty, data version per frame), `pageTable`, `freeList`, `lru`, `disk`, `nextPageNo`; client bookkeeping `held`, `wrote`, `latest`; `lastRet` | `FetchPage`, `UnpinPage`, `FlushPage`, `NewPage`, `DeletePage`, `FlushAllPages`, built from `UpdatePage` and `HasVictim`/`Victim`/`TakeVictim` (`find_victim_page`); client actions that call them |
| `MCBufferPool` | instantiation | model values for clients, the file and the invalid page id; symmetry of clients | |
| `PageStore` | what the buffer pool promises | `store` (each page's last written version) | `Write`; `BufferPool` refines it via `Store == INSTANCE PageStore WITH store <- ...` |
| `BTreeNode` | IxNodeHandle | none (operators) | `LowerBoundBinary`, `UpperBoundBinary` (the binary-search loop, `RECURSIVE`), `LowerBoundLinear`, `UpperBoundLinear`, `InsertPairs`, `ErasePair`, `NodeInsert`, `NodeRemove`, `LeafLookup`, `InternalLookup`; reference definitions `LowerBoundRef`, `UpperBoundRef` |
| `AbstractIndex` | what an index handle promises (spec.md 4.4, 8) | `entries` (key → rid), `usable`, `lastOp` | `Insert`, `Delete` |
| `BPlusTree` | IxIndexHandle's tree algorithms | `nodes` (page → [leaf, keys, vals, parent, prev, next]), `fileHdr` (root, first/last leaf, num_pages), `lastOp`, `pinned` (pins held per page) | `Insert` (`insert_entry`), `Delete` (`delete_entry`); helpers `FindLeaf`, `Split` (`MoveUpperHalf` + `LinkNewLeaf` + re-parenting), `InsertIntoParent`, `MaintainParent`, `CoalesceOrRedistribute`, `Redistribute`, `Coalesce`, `AdjustRoot`, `GetValue`; the iterator functions `IxLowerBound`, `IxUpperBound` (the leaf walk `WalkLeaves`), `LeafBegin`, `LeafEnd`, `GetRid`; all `RECURSIVE` where the code recurses or loops up the tree |
| `IndexReader` | `lower_bound` run without `root_latch_` against the writers | the tree of `BPlusTree` and `rd` (the reader's pc, key, fetched page, result, and the history field `stable`) | `LowerBoundStart`, `ReaderDescend` (one `fetch_node` of `find_leaf_page`), `ReaderScan` (one turn of the leaf walk), `ReaderLeafEnd`; `Writer` is one `insert_entry` or `delete_entry` |
| `GetRidOnPool` (`MCGetRidOnPool`) | `get_rid` over the buffer pool, against other sessions | `BufferPool`'s state and `gr` (pc, page, the frame `fetch_node` returned, what was read) | `GetRidFetch` (`fetch_node` and the slot check), `GetRidUnpin`, `GetRidRead`; `OtherClients` are `BufferPool`'s client actions |
| `RmScan` | RmScan over an abstract record file | `numPages`, `records` (the rids where `is_record` holds), `rid`, `pins`, `phase`; history `visited`, `stable` | `Open` (constructor with `FindFirstRecord`), `Next` (`next()` with its loop `ScanLoop`), `IsEnd`; file operations `InsertRecord`, `InsertIntoNewPage`, `DeleteRecord` |
| `TransactionManager` | `begin`, `commit`, `abort` | `status`, `tbl` (one table's rows), `owner` (row locks), `lset`, `wset`; history `orig` | `Begin`, `Commit`, `Abort` (with the loop `Rollback`); the executors' writes `InsertTuple`, `DeleteTuple`, `UpdateTuple` through `Write`; `Undo` is SmManager's rollback of one write, `FreeSlot` the slot `insert_record` picks |
| `MCTransactionManager` | instantiation | model values for transactions, rows and values; symmetry of transactions | |

How the model corresponds to the code:
- **BufferPool.**
  - Each public operation is one action, because it runs entirely under `latch_`.
  - A client's write into a pinned frame happens outside the latch and is its own action.
  - Page contents are version numbers: a write produces the next version, and a newly created page is version 0.
  - Refinement: a page's abstract contents are its frame's data when it is resident, and its disk copy otherwise. Every pool operation must leave them unchanged, and a client write must add one version to exactly one page.
  - The clients follow spec.md 5. They fetch pages they do not hold and write only into pages they pinned. They unpin with `is_dirty` set whenever they wrote; when they did not write, they may pass either value. A separate action calls `unpin_page` for a page nobody holds, which is the double unpin of spec.md 7.
- **GetRidOnPool.**
  - `get_rid` takes no latch. `fetch_node` with the slot check, `unpin_page`, and the read of the rid are three steps, and the pool's atomic operations fall between them.
  - `fetch_node` keeps a `Page*`, so the model records the frame. The read returns whatever page that frame holds at that moment.
  - Whether the slot is in range depends on node contents, which are abstracted. The caller's iid is an input: either in range, or past the end (`leaf_end()`), which throws with the pin kept.
  - `fetch_node`'s assertion on a nullptr page is a fault (`pc = "fault"`).
  - The other sessions are `BufferPool`'s clients. `delete_page` is left out because no code under `src/` calls it.
- **IndexReader.**
  - The iterator functions take no `root_latch_` (lines 573-668). The reader makes one step per page it fetches. The writers keep their atomic steps, because they exclude each other with the latch.
  - A page is read whole in one step; torn reads of a page being written are not modelled.
  - On an internal node emptied by `adjust_root` or `coalesce` (size 0), `internal_lookup` takes slot 0: `set_size` and `erase_pair` leave `rids[0]` in the page, so the reader goes on to the child that was there (`stale` in the node record).
  - `stable` records whether the reader's key was in the index at the call and after every writer step since.
- **RmScan.**
  - The scan runs on the executor's thread, so the constructor and each `next()` are single steps. The executor may insert and delete records between them.
  - `RmFileHandle` is not under `src/`. It is abstracted to `num_pages` and the set of rids holding a record. `fetch_page_handle` is counted as a pin on its page.
  - `next()` is cut after `MaxTurns` turns. The correct loop advances one slot per turn and never needs more; a cut loop is a hang (`phase = "hung"`).
- **TransactionManager.**
  - The lock manager, the executors and `SmManager`'s rollbacks are outside `src/` and are taken from their interfaces. A write takes the row's exclusive lock, writes the row and appends `[type, rid, old]` to the write set.
  - `abort` (line 246, 250) hands `rollback_insert` and `rollback_update` the rid, so they act on that row. It hands `rollback_delete` only the record (line 248), so the record is inserted anew, where `RmFileHandle::insert_record` puts a new one: the first free slot of the page (`FreeSlot`). The rows are the slots of one page, numbered.
  - `begin` is modelled for a transaction passed in. With `nullptr` it dereferences the null `txn` at line 202, which needs no model to see.
- **BPlusTree.**
  - `insert_entry` and `delete_entry` hold `root_latch_`, so each is one atomic step. Each step applies the operator for the whole function, including everything it calls, to the tree state.
  - `create_node` hands out page number `num_pages` before the increment. The disk manager's allocator agrees with it, because the index manager sets it to `num_pages` when it opens the index (spec.md, `set_fd2pageno`).
  - The initial state is the file `ix_manager` creates: the leaf header on page 1 and an empty root leaf on page 2, linked to each other.
  - Pins are counted, not placed in frames. The variable `pinned` holds the pins the handle has on each page. `Fetch` (`fetch_node`) and `create_node` add one; `Unpin` (`unpin_page`) removes one and refuses at 0, like `unpin_page`. A fetch and an unpin of the same page with nothing in between leaves the counts alone; `Touch` records it only as one more page held for that moment (`maintain_child`, the next leaf in `split`, `adjust_root`'s child). `find_leaf_page`'s descent holds one page at a time before anything else is pinned and is left out.
  - The tree record also carries `peak`, the most pages held at once during the operation so far. `OperationPinsWithinHeight` evaluates `InsertEntry` and `DeleteEntry` from every reachable state and bounds their peak, which is the number of frames the pool must have free for the operation to get past `fetch_node`'s assertion and `create_node`'s `new_page`. It bounds what an operation demands; the pool running short because other sessions hold frames is `BufferPool`'s `NullOnlyWhenAllPinned`, and the two are not run together (see the plan below).
  - `maintain_parent` unpins inside `assert(...)`. The constant `AssertsCompiled` is the build: `TRUE` makes the unpin, `FALSE` (NDEBUG) does not.
  - `BPlusTree` refines `AbstractIndex`. The mapping reads the leaves reachable from the root as the map and sets `usable` to "the root is not `IX_NO_PAGE`".

## Runs

| Run | Config | Checks | Shows |
|---|---|---|---|
| `buffer_pool` | `MCBufferPool.cfg` | `TypeOK`, `PageTableConsistent`, `FramePartition`, `PinAccounting`, `NoLostWrite`, `NullOnlyWhenAllPinned`, `PoolRefinesStore` | Two clients on a two-frame pool never lose a write and never map a page to two frames. They never evict or delete a pinned page, and they get nullptr only when every frame is pinned. (289k states) |
| `bplustree` | `BPlusTree.cfg` | `TypeOK`, `LeafChainConsistent`, `Balanced`, `MinOccupancy`, `SeparatorsAreSubtreeMins`, `GetValueFindsEntries`, `IteratorsFollowLeafOrder`, `PinsBalanced`, `NodeSearchMatchesReference`, `OperationPinsWithinHeight`, `IndexSpec` | The iterators agree with the leaf list. On every node the tree produces, both branches of the node search equal the reference count. Every insert and delete releases every pin it takes, and never holds more than 2h+1 pages at once on a tree of height h. Every sequence of inserts and deletes of 6 keys keeps the invariants. Trees reach two levels with leaf splits, redistribution from either side, coalescing, and collapse to a single leaf. The tree refines the abstract index. (41k states, about 35 s) |
| `index_reader` | `IndexReader.cfg` | `ReaderReturns` | An unlatched `lower_bound` over 5 keys, interleaved with any inserts and deletes, always returns or faults in `leaf_end`. A descent through a root that `adjust_root` emptied meanwhile follows the stale slot 0 to a leaf, and the walk along `next_leaf` ends, stale pages included. (37k states, 15 s) |
| `index_reader_linearizable` | `IndexReaderLinearizable.cfg` | `LowerBoundLinearizable` (violation expected) | `lower_bound(k)` can return the slot of a larger key although `k` is in the index throughout. |
| `index_reader_leaf_end` | `IndexReaderLeafEnd.cfg` | `NoFetchOfNoPage` (violation expected) | `leaf_end()` can fetch page `IX_NO_PAGE` after a concurrent delete emptied the index. |
| `rm_scan` | `RmScan.cfg` | `ScanComplete`, `NextIsNextRecord`, `ScanTerminates` | With records inserted (also on new pages) and deleted between calls, each `next()` lands on the next record. A finished scan has seen every record present throughout, and every scan ends. (43k states) |
| `rm_scan_pins` | `RmScanPins.cfg` | `ScanReleasesPins` (violation expected) | A finished scan still holds the pins of the pages it fetched. |
| `transactions_abort` | `MCTransactionManager.cfg` | `AbortRestoresImage` (violation expected) | Two transactions on three slots: an `abort` can leave a value of the aborted transaction in the table, because a deleted record comes back at another slot while the other undos go by rid. |
| `bplustree_deep` | `BPlusTreeDeep.cfg` | the structural invariants, `GetValueFindsEntries`, `OperationPinsWithinHeight` | With 8 keys the root splits into a three-level tree. Internal splits with re-parenting, internal coalescing and the collapse of an internal root are covered. A root split of a two-level tree pins 5 pages at once, and deletes on a three-level tree pin 4; both stay within the bound. The run identifies states by `TreeView`, which leaves out the history variable `lastOp`. No action reads `lastOp` and none of this run's properties mentions it, so the trees reached are the same. (139k distinct views, about 40 s) |
| `get_rid_on_pool` | `MCGetRidOnPool.cfg` | `GetRidReadsItsPage` (violation expected) | `get_rid` reads the rid from a frame that another session has already reused. |
| `bplustree_release_build` | `BPlusTreeRelease.cfg` | `PinsBalanced` (violation expected) | In an NDEBUG build, `maintain_parent` leaves the parent pinned. |
| `bplustree_insert_after_empty` | `BPlusTreeEmptied.cfg` | `InsertThenGet` (violation expected) | After the last key is deleted, `insert_entry` no longer inserts anything. |

### Findings

1. **`insert_entry` after the index was emptied** (`ix_index_handle.cpp:338`).
   - `adjust_root` sets the root to `IX_NO_PAGE` when the last key goes (lines 461-466).
   - `find_leaf_page` then returns nullptr, so `insert_entry` returns `IX_NO_PAGE` and stores nothing.
   - spec.md 8 says that after `insert_entry(k, r)`, `get_value(k)` contains r.
   - TLC's trace is four steps: insert 1, delete 1, insert 1.
   - `IndexSpec` records the behaviour the code actually has: the index is retired once emptied.
2. **Unlatched `lower_bound` returns the wrong slot** (`ix_index_handle.cpp:590`).
   - The trace: with leaves [1,2] and [3,4,5], the reader for key 3 descends to the right leaf.
   - `delete_entry(1)` underflows the left leaf, which borrows 3 from the right one (`redistribute`).
   - The reader then scans [4,5] and returns the slot of 4.
   - spec.md 5 says the root latch guards all reads; the iterator functions do not take it.
3. **`leaf_end` on an emptied index** (`ix_index_handle.cpp:653`).
   - The reader for key 3 is in the only leaf [1] and walks past it.
   - `delete_entry(1)` empties the index, and `adjust_root` sets `last_leaf_` to `IX_NO_PAGE`.
   - `leaf_end()` then fetches page -1. The `is_empty()` check at line 591 came before the delete.
4. **RmScan never unpins** (`buffer_pool_manager.cpp:277`, `:299`).
   - `find_first_record` and `next()` call `fetch_page_handle`, which pins the page, and never unpin it.
   - A scan of a file with one empty record page already ends holding a pin.
   - spec.md 5 says the caller of an operation that returns a page handle must unpin it exactly once.
5. **Unpins inside `assert`** (`ix_index_handle.cpp:716`, `:722`).
   - `maintain_parent` releases each parent it fetched with `assert(buffer_pool_manager_->unpin_page(...))`.
   - In an NDEBUG build the unpin is never made.
   - TLC's trace: insert 1-4 (a split), then delete 1. The leaves' parent, the new root, stays pinned.

6. **`get_rid` reads after it unpins** (`ix_index_handle.cpp:578-579`).
   - `get_rid` unpins the leaf, then copies the rid out of the frame through the `Page*` it kept.
   - In between, the frame is evictable. In TLC's trace, another session's `new_page` takes it, and `get_rid` reads page 2 instead of page 1.
   - In the trace, an earlier `get_rid` on an out-of-range slot threw and kept its pin (line 576), which leaves one frame fewer to choose from.
7. **`abort` restores a deleted record at another slot** (`buffer_pool_manager.cpp:248`).
   - `abort` gives `rollback_delete` the record but not its rid, so `insert_record` puts it in the first free slot.
   - TLC's trace: slots [a, -, a]; a transaction updates slot 3 from a to b, deletes slot 3, and aborts.
   - The undo of the delete puts b into slot 2; the undo of the update writes a back at slot 3. The table ends as [a, b, a]: the aborted value b survives.
   - `AbortRestoresImage` compares the records as a bag, so a record that merely moved to another rid is not counted as a difference.

### Mutants

Each property of a passing run is broken by a plausible bug in a mapped definition (`PROJECT.json` "mutants"). Examples:
- a write-back dropped from `update_page`;
- the `pin_count <= 0` check dropped from `unpin_page`;
- `split` without the `prev_leaf` fix of the next leaf, or without re-parenting the moved children;
- the redistribution threshold one below `2 * min_size`;
- `internal_lookup` via `lower_bound`;
- `remove` without the key comparison.

## Bounds and why they are enough

- **`buffer_pool`.**
  - Bounds: 2 frames, 2 clients, 1 file with 2 existing pages plus 1 that `new_page` may allocate, and up to 2 writes per page.
  - Three pages compete for two frames, so eviction, write-back, nullptr on a full pool, and deletion of resident, pinned and absent pages all occur.
  - Two clients can share a pin.
- **`get_rid_on_pool`.**
  - Bounds: 2 frames, 1 other session, 1 file with 2 pages plus 1 new page.
  - With two frames, a single pin held elsewhere (another session's, or one leaked by a throw) is enough to force the eviction of the frame `get_rid` has just unpinned.
- **`bplustree`.**
  - Bounds: 6 keys, `max_size` 4 (the value of spec.md's scenarios), and page numbers below 8.
  - 6 keys give a root over three leaves, so borrowing from a left and from a right sibling both occur, as do coalescing and the collapse of the root.
- **`bplustree_deep`.**
  - Bounds: 8 keys and page numbers below 9.
  - Eight keys is the fewest that makes a leaf split cascade into a root split.
- **Peak pins.** At 6 keys the tree has at most two levels and `OperationPinsWithinHeight` is reached with equality by a leaf split under a root leaf (3 pages: the leaf, the new leaf, the leaf header as the next leaf). `bplustree_deep` checks the 8-key case: the root split of a two-level tree meets the bound with equality (5 pages), and deletes on a three-level tree pin 4 pages.
- **Limits of these bounds.**
  - Nine keys (page numbers below 10) take about 7 minutes even with `TreeView`, and ten keys did not finish in 25 minutes.
  - Internal redistribution needs five leaves (ten keys) and is not reached.
  - `maintain_parent` climbing more than one level needs nine keys, and is also not reached.
- **Page-number bound.** An `Insert` step whose result would need a page number at or past `MaxPages` is not explored. The model's page range leaves room for the pages such an insert touches before it is discarded.

## Fairness

- **Buffer pool, B+tree.** These runs check safety only. Every operation is a call a client may or may not make, so no fairness is assumed.
- **`index_reader`.** The spec has weak fairness on the reader's steps (`ReaderDescend`, `ReaderScan`, `ReaderLeafEnd`). The reader is a thread of its own under a preemptive scheduler (spec.md 5), and each of its steps stays enabled until it is taken. Neither the writers nor a new call are required to happen.
- **`rm_scan`.** The spec has weak fairness on `Next`. The executor's scan loop calls `next()` as long as `is_end()` is false. The record file's operations are not required to happen.
- **Symmetry.** It is used only in safety runs: of clients in `buffer_pool`, and of transactions in `transactions_abort`.

## Not modelled yet, and the plan

Modelled so far:
- the buffer pool;
- the node operations;
- the B+tree's insert, delete, lookup and iterators, with their refinement of the abstract index;
- an unlatched reader;
- `get_rid` over the buffer pool against other sessions;
- RmScan;
- `commit` and `abort`.

Not modelled, and why:
- **`begin(nullptr)`.** It dereferences a null pointer on every call (line 202), and no path returns a value. There is nothing for a model to search.
- **The lock-set loops of `commit` and `abort`** (lines 222-224 and 255-257). Each member of the lock set is unlocked and the set is cleared; whether `LockManager::unlock` erases from the set it iterates is not under `src/`. No property is checked of them.
- **An odd `max_size`.** `split` keeps `total/2` keys on the left (line 253). For an odd `max_size`, no split of `max_size` keys gives both halves spec.md's `ceil(max_size/2)`, so spec.md 3's bound contradicts itself there. `max_size` is computed by `IxManager`, outside `src/`, and the runs use 4.
- **`erase_leaf` and `release_node_handle`** (lines 731-748). Nothing calls them: `coalesce` unlinks leaves itself and never decrements `num_pages`.
- **The `IxIndexHandle` constructor** (lines 172-184). It reads the file header from disk and tells the disk manager to allocate from `num_pages`; the model starts from the file `ix_manager` creates, where the two agree.
- **An interleaved reader on a three-level tree.** It would reach `internal_lookup` on an internal node emptied by a concurrent coalesce (the runs reach only the root emptied by `adjust_root`), but it is beyond the run-time bound.

The plan for the remaining work:
1. **IndexOnPool.** The frames an operation needs are now bounded by `OperationPinsWithinHeight` (2 per level plus 1). What is left is running `BPlusTree`'s operations step by step over `BufferPool` against other sessions, to see what `create_node` leaves behind when `new_page` fails (`num_pages` already advanced, line 696). A tree deep enough to be interesting makes that state space too large for the run-time bound.

The disk, lock, log and system managers, `IxManager` and `RmFileHandle` are outside `src/`. They are modelled only as far as the code above relies on them.
