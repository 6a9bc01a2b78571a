---------------------------- MODULE GetRidOnPool ----------------------------
(***************************************************************************)
(* IxIndexHandle::get_rid (src/index/ix_index_handle.cpp 573-580) run over *)
(* the buffer pool of BufferPool, while the pool's other clients (the      *)
(* threads of other sessions) fetch, write, unpin and allocate pages.      *)
(*                                                                         *)
(* get_rid takes no latch: fetch_node, the slot check, unpin_page and the  *)
(* read of the rid are separate steps, and the pool's operations, each     *)
(* atomic under latch_, fall between them.  fetch_node keeps the Page*     *)
(* the pool returned, i.e. a frame, not a page: the rid is read from       *)
(* whatever that frame holds at the read.  Whether iid.slot_no is below    *)
(* the node's size depends on the node's contents, which are abstracted;   *)
(* the caller's iid is an input, in range or not (leaf_end()).             *)
(***************************************************************************)
EXTENDS BufferPool

VARIABLE
    gr   \* the get_rid call: pc, its page, the frame fetch_node returned, what it read

allVars == <<vars, gr>>

GetRidIdle == [pc |-> "idle", page |-> InvalidPage, frame |-> NoFrame, got |-> InvalidPage]

(***************************************************************************)
(* fetch_node(iid.page_no) and the slot check.  fetch_node asserts the     *)
(* pool returned a page: a nullptr (every frame pinned) is a fault.  An    *)
(* iid past the node's size throws IndexEntryNotFoundError with the page  *)
(* still pinned.                                                           *)
(***************************************************************************)
GetRidFetch(p, inRange) ==
    /\ gr.pc \in {"idle", "done", "threw"}
    /\ Allocated(p)
    /\ FetchPage(p)
    /\ gr' = IF lastRet' = Null THEN [gr EXCEPT !.pc = "fault"]
             ELSE IF ~inRange THEN [GetRidIdle EXCEPT !.pc = "threw", !.page = p]
             ELSE [GetRidIdle EXCEPT !.pc = "fetched", !.page = p, !.frame = pageTable'[p]]
    /\ UNCHANGED clientVars

\* unpin_page(node->get_page_id(), false).
GetRidUnpin ==
    /\ gr.pc = "fetched"
    /\ UnpinPage(gr.page, FALSE)
    /\ gr' = [gr EXCEPT !.pc = "unpinned"]
    /\ UNCHANGED clientVars

\* return *node->get_rid(iid.slot_no): a read of the frame's buffer.
GetRidRead ==
    /\ gr.pc = "unpinned"
    /\ gr' = [gr EXCEPT !.pc = "done", !.got = frame[gr.frame].id]
    /\ UNCHANGED vars

\* The other sessions' threads, as BufferPool's clients: they fetch, write,
\* unpin (only pages they hold) and allocate pages, and flush.  delete_page
\* is called by no code under src/.
OtherClients ==
    /\ \/ \E c \in Clients, p \in PageIds :
             ClientFetch(c, p) \/ ClientWrite(c, p) \/ ClientUnpin(c, p)
       \/ \E c \in Clients, fd \in Fds : ClientNewPage(c, fd)
       \/ \E p \in PageIds : ClientFlush(p)
    /\ UNCHANGED gr

ComposedInit == Init /\ gr = GetRidIdle

ComposedNext ==
    \/ \E p \in PageIds, inRange \in BOOLEAN : GetRidFetch(p, inRange)
    \/ GetRidUnpin
    \/ GetRidRead
    \/ OtherClients

ComposedSpec == ComposedInit /\ [][ComposedNext]_allVars

-----------------------------------------------------------------------------
(* Properties *)

\* spec.md 5: a page handle is used only while pinned.  The rid get_rid
\* returns is read from the page it fetched: the frame still holds that
\* page when the rid is copied out of it.
GetRidReadsItsPage == gr.pc = "done" => gr.got = gr.page
=============================================================================
