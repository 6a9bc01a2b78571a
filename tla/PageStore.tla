------------------------------ MODULE PageStore ------------------------------
(***************************************************************************)
(* What the buffer pool promises its clients (spec.md 5 and 8, round-trip  *)
(* durability): a store of pages, each holding the last version a client   *)
(* wrote.  Caching, eviction, write-back and flushing are invisible here:  *)
(* the only step that changes a page is a client's write to it.           *)
(***************************************************************************)
EXTENDS Naturals

CONSTANT PageIds

VARIABLE store   \* store[p]: the contents a fetch of p must return

Init == store = [p \in PageIds |-> 0]

Write(p) == store' = [store EXCEPT ![p] = @ + 1]

Spec == Init /\ [][\E p \in PageIds : Write(p)]_store
=============================================================================
