------------------------------- MODULE RmScan --------------------------------
(***************************************************************************)
(* RmScan of src/storage/buffer_pool_manager.cpp (lines 261-331): a        *)
(* sequential scan over the records of one record file.                    *)
(*                                                                         *)
(* The record file (RmFileHandle, not under src/) is abstracted to its     *)
(* page count num_pages and the set of rids that hold a record             *)
(* (is_record).  Page 0 is the file header; records live on pages          *)
(* RM_FIRST_RECORD_PAGE .. num_pages - 1, SlotsPerPage to a page.  The     *)
(* scan runs on the executor's thread: the constructor and each call of    *)
(* next() are single steps, and between them the same thread may insert    *)
(* and delete records (the file's own operations, spec_modelled).          *)
(* fetch_page_handle pins the page it returns; pins counts those pins.     *)
(***************************************************************************)
EXTENDS Integers, FiniteSets

CONSTANTS
    SlotsPerPage,  \* num_records_per_page
    MaxRmPages     \* bound: pages the record file may reach

RM_FIRST_RECORD_PAGE == 1

\* Rid{-1, -1}: the end of the scan.
EndRid == <<-1, -1>>

ASSUME SlotsPerPage >= 1 /\ MaxRmPages >= 2

VARIABLES
    numPages,  \* file_hdr.num_pages
    records,   \* the rids for which is_record holds
    rid,       \* rid_ of the scan
    pins,      \* pins[p]: pins the scan has taken on page p
    phase,     \* "unopened", "open" (constructed), "hung" (next() never returns)
    visited,   \* history: the rids rid_ has held
    stable     \* history: records present at construction and not deleted since

scanVars == <<numPages, records, rid, pins, phase, visited, stable>>

Pages == 0..(MaxRmPages - 1)

\* The rids on the record pages of a file of n pages.
Positions(n) == (RM_FIRST_RECORD_PAGE..(n - 1)) \X (0..(SlotsPerPage - 1))

\* The order in which the scan meets rids: by page, then by slot.
Less(a, b) == a[1] < b[1] \/ (a[1] = b[1] /\ a[2] < b[2])

MinRid(S) == CHOOSE r \in S : \A q \in S \ {r} : Less(r, q)

\* Bound: next() is cut after this many turns of its loop; the correct loop
\* advances one slot per turn, so it never needs more.
MaxTurns == MaxRmPages * SlotsPerPage + 1

(***************************************************************************)
(* find_first_record: the file header is copied once, so num_pages is     *)
(* read at entry; every page up to the one holding the first record (or   *)
(* every record page) is fetched by fetch_page_handle and not unpinned.   *)
(***************************************************************************)
\* Mutation: the page loop stops one page early.
FindFirstRecordShort(n, recs) ==
    LET rs   == {r \in recs : r[1] \in RM_FIRST_RECORD_PAGE..(n - 2)}
        last == IF rs = {} THEN n - 2 ELSE MinRid(rs)[1]
    IN  [rid  |-> IF rs = {} THEN EndRid ELSE MinRid(rs),
         pins |-> [p \in Pages |-> IF p \in RM_FIRST_RECORD_PAGE..last THEN 1 ELSE 0]]

FindFirstRecord(n, recs) ==
    LET rs   == {r \in recs : r[1] \in RM_FIRST_RECORD_PAGE..(n - 1)}
        last == IF rs = {} THEN n - 1 ELSE MinRid(rs)[1]
    IN  [rid  |-> IF rs = {} THEN EndRid ELSE MinRid(rs),
         pins |-> [p \in Pages |-> IF p \in RM_FIRST_RECORD_PAGE..last THEN 1 ELSE 0]]

(***************************************************************************)
(* next(): the while loop, one turn per call of ScanLoop.  num_pages is    *)
(* re-read each turn; a page below it is fetched (a pin) and rid_ moves to *)
(* the next slot or to slot 0 of the next page; rid_ on page num_pages is  *)
(* the end, and a rid_ that is a record stops the loop.  hung marks a      *)
(* loop cut after MaxTurns turns.                                          *)
(***************************************************************************)
\* Mutation: the slot is reset at the end of a page but the page is not
\* advanced.
RECURSIVE ScanLoopNoPageAdvance(_, _, _, _, _)
ScanLoopNoPageAdvance(n, recs, r, pn, turns) ==
    IF r = EndRid THEN [rid |-> r, pins |-> pn, hung |-> FALSE]
    ELSE IF turns = 0 THEN [rid |-> r, pins |-> pn, hung |-> TRUE]
    ELSE LET adv == IF r[1] < n
                    THEN IF r[2] + 1 < SlotsPerPage THEN <<r[1], r[2] + 1>> ELSE <<r[1], 0>>
                    ELSE r
             pn2 == IF r[1] < n THEN [pn EXCEPT ![r[1]] = @ + 1] ELSE pn
         IN  IF adv[1] = n THEN [rid |-> EndRid, pins |-> pn2, hung |-> FALSE]
             ELSE IF adv \in recs THEN [rid |-> adv, pins |-> pn2, hung |-> FALSE]
             ELSE ScanLoopNoPageAdvance(n, recs, adv, pn2, turns - 1)

RECURSIVE ScanLoop(_, _, _, _, _)
ScanLoop(n, recs, r, pn, turns) ==
    IF r = EndRid THEN [rid |-> r, pins |-> pn, hung |-> FALSE]
    ELSE IF turns = 0 THEN [rid |-> r, pins |-> pn, hung |-> TRUE]
    ELSE LET adv == IF r[1] < n
                    THEN IF r[2] + 1 < SlotsPerPage THEN <<r[1], r[2] + 1>> ELSE <<r[1] + 1, 0>>
                    ELSE r
             pn2 == IF r[1] < n THEN [pn EXCEPT ![r[1]] = @ + 1] ELSE pn
         IN  IF adv[1] = n THEN [rid |-> EndRid, pins |-> pn2, hung |-> FALSE]
             ELSE IF adv \in recs THEN [rid |-> adv, pins |-> pn2, hung |-> FALSE]
             ELSE ScanLoop(n, recs, adv, pn2, turns - 1)

\* is_end()
IsEnd == rid = EndRid

-----------------------------------------------------------------------------
(* The scan's operations *)

\* RmScan(file_handle): rid_ = find_first_record().
Open ==
    /\ phase = "unopened"
    /\ LET f == FindFirstRecord(numPages, records) IN
       /\ rid' = f.rid
       /\ pins' = [p \in Pages |-> pins[p] + f.pins[p]]
       /\ visited' = IF f.rid = EndRid THEN {} ELSE {f.rid}
    /\ phase' = "open"
    /\ stable' = records
    /\ UNCHANGED <<numPages, records>>

\* Mutation: the is_record check dropped, so next() stops at the next slot.
NextNoRecordCheck ==
    /\ phase = "open"
    /\ ~IsEnd
    /\ LET res == ScanLoop(numPages, Positions(numPages), rid, pins, MaxTurns) IN
       /\ rid' = res.rid
       /\ pins' = res.pins
       /\ visited' = IF res.rid = EndRid THEN visited ELSE visited \cup {res.rid}
    /\ UNCHANGED <<numPages, records, stable, phase>>

\* next(), called by the executor while !is_end().
Next ==
    /\ phase = "open"
    /\ ~IsEnd
    /\ LET res == ScanLoop(numPages, records, rid, pins, MaxTurns) IN
       IF res.hung
       THEN /\ phase' = "hung"
            /\ UNCHANGED <<rid, pins, visited>>
       ELSE /\ rid' = res.rid
            /\ pins' = res.pins
            /\ visited' = IF res.rid = EndRid THEN visited ELSE visited \cup {res.rid}
            /\ UNCHANGED phase
    /\ UNCHANGED <<numPages, records, stable>>

(***************************************************************************)
(* The record file's operations between calls (RmFileHandle, not under    *)
(* src/): insert into a free slot, insert into a newly allocated page, and *)
(* delete.                                                                 *)
(***************************************************************************)
InsertRecord(r) ==
    /\ r \in Positions(numPages) \ records
    /\ records' = records \cup {r}
    /\ UNCHANGED <<numPages, rid, pins, phase, visited, stable>>

InsertIntoNewPage(s) ==
    /\ numPages < MaxRmPages
    /\ numPages' = numPages + 1
    /\ records' = records \cup {<<numPages, s>>}
    /\ UNCHANGED <<rid, pins, phase, visited, stable>>

DeleteRecord(r) ==
    /\ r \in records
    /\ records' = records \ {r}
    /\ stable' = stable \ {r}
    /\ UNCHANGED <<numPages, rid, pins, phase, visited>>

\* Any record file the record manager can have produced: the header page
\* and up to MaxRmPages - 1 record pages, any slots in use.
Init ==
    /\ numPages \in 1..MaxRmPages
    /\ records \in SUBSET Positions(numPages)
    /\ rid = EndRid
    /\ pins = [p \in Pages |-> 0]
    /\ phase = "unopened"
    /\ visited = {}
    /\ stable = {}

FileStep ==
    \/ \E r \in Positions(MaxRmPages) : InsertRecord(r) \/ DeleteRecord(r)
    \/ \E s \in 0..(SlotsPerPage - 1) : InsertIntoNewPage(s)

ScanNext == Open \/ Next \/ FileStep

\* The executor's scan loop calls next() until is_end(); the file
\* operations are not required to happen.
Spec == Init /\ [][ScanNext]_scanVars /\ WF_scanVars(Next)

-----------------------------------------------------------------------------
(* Properties *)

\* The smallest record after r in scan order, or the end (reference).
NextAfter(r) ==
    LET later == {q \in records : Less(r, q)} IN
    IF later = {} THEN EndRid ELSE MinRid(later)

\* Each call of next() moves rid_ to the next record of the file as it is
\* at the call, whatever records were inserted or deleted since the last
\* call, and to the end only when no record follows.
NextIsNextRecord ==
    [][phase = "open" /\ rid # EndRid /\ rid' # rid => rid' = NextAfter(rid)]_scanVars

\* A scan that reaches is_end() has visited every record that was in the
\* file when it was constructed and has not been deleted since.
ScanComplete ==
    (phase = "open" /\ IsEnd) => stable \subseteq visited

\* Every scan that is constructed reaches is_end(): next() returns, and
\* rid_ moves forward each time.
ScanTerminates == phase = "open" ~> IsEnd

\* spec.md 5: the caller of an operation that returns a page handle must
\* unpin it exactly once.  A scan that has reached is_end() holds no pin.
ScanReleasesPins ==
    (phase = "open" /\ IsEnd) => \A p \in Pages : pins[p] = 0
=============================================================================
