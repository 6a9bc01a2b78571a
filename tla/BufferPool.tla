----------------------------- MODULE BufferPool -----------------------------
(***************************************************************************)
(* The buffer pool manager of src/storage/buffer_pool_manager.cpp and the  *)
(* LRU replacer it delegates to (the replacer's code is not under src/;    *)
(* it is modelled from spec.md section 4.1).                               *)
(*                                                                         *)
(* Every public operation holds latch_ for its whole body, so each one is  *)
(* a single atomic action.  Clients are the threads of the upper layers:   *)
(* they pin pages with fetch_page/new_page, write into pinned frames       *)
(* outside the latch, and release them with unpin_page.  Page contents     *)
(* are abstracted to a version number: 0 is the zeroed buffer, a client    *)
(* write produces the next version.                                        *)
(***************************************************************************)
EXTENDS Naturals, Sequences, SequencesExt, FiniteSets

CONSTANTS
    PoolSize,     \* number of frames, frame ids are 0..PoolSize-1
    Fds,          \* open files (model values)
    NumPages,     \* pages 0..NumPages-1 of every file exist on disk at start
    MaxAlloc,     \* bound: pages allocate_page may still hand out per file
    MaxVersion,   \* bound: number of client writes to one page
    Clients,      \* threads using the pool (model values)
    InvalidPage   \* the page id a frame holds when it holds none

ASSUME PoolSize \in Nat \ {0}
ASSUME NumPages \in Nat /\ MaxAlloc \in Nat /\ MaxVersion \in Nat

Frames   == 0..(PoolSize - 1)
NoFrame  == -1
PageNos  == 0..(NumPages + MaxAlloc - 1)
PageIds  == Fds \X PageNos
Versions == 0..MaxVersion

\* Results of the last operation: a Page* (Ok) or nullptr, or a bool.
Ok == "ok"
Null == "null"
Results == {"none", Ok, Null, "true", "false"}

VARIABLES
    frame,      \* pages_[f]: [id, pin, dirty, data], the Page struct
    pageTable,  \* page_table_: PageId -> frame id, NoFrame when absent
    freeList,   \* free_list_, in order
    lru,        \* the replacer's LRU list of evictable frames, oldest first
    disk,       \* the disk manager's copy of each page
    nextPageNo, \* the disk manager's allocator (set_fd2pageno, allocate_page)
    held,       \* held[c]: pages client c has pinned and not yet unpinned
    wrote,      \* wrote[c]: pages client c modified under its current pin
    latest,     \* history: the last version any client wrote to each page
    lastRet     \* the return value of the most recent pool operation

poolVars   == <<frame, pageTable, freeList, lru, disk, nextPageNo>>
clientVars == <<held, wrote, latest>>
vars       == <<poolVars, clientVars, lastRet>>

Allocated(p) == p[2] < nextPageNo[p[1]]
Resident(p)  == pageTable[p] # NoFrame

(***************************************************************************)
(* The replacer (spec.md 4.1): victim() takes the least recently unpinned *)
(* frame, pin(f) removes f, unpin(f) appends f unless already present.    *)
(***************************************************************************)
ReplacerPin(l, f)   == Remove(l, f)
ReplacerUnpin(l, f) == IF Contains(l, f) THEN l ELSE Append(l, f)

(***************************************************************************)
(* find_victim_page: the free list first, else the replacer's victim.     *)
(***************************************************************************)
\* Mutation: find_victim_page that never falls back to the replacer.
HasVictimFreeListOnly == freeList # <<>>
HasVictim == freeList # <<>> \/ lru # <<>>
Victim    == IF freeList # <<>> THEN Head(freeList) ELSE Head(lru)
TakeVictim ==
    IF freeList # <<>>
    THEN /\ freeList' = Tail(freeList) /\ UNCHANGED lru
    ELSE /\ lru' = Tail(lru)           /\ UNCHANGED freeList

\* Mutation: update_page without the write-back of a dirty old page.
UpdatePageNoWriteBack(f, p) ==
    LET old == frame[f].id IN
    /\ disk' = disk
    /\ pageTable' = [ (IF old # InvalidPage
                       THEN [pageTable EXCEPT ![old] = NoFrame]
                       ELSE pageTable) EXCEPT ![p] = f ]

\* Mutation: update_page that keeps the old page's page-table entry.
UpdatePageKeepOldEntry(f, p) ==
    LET old == frame[f].id IN
    /\ disk' = IF frame[f].dirty /\ old # InvalidPage
               THEN [disk EXCEPT ![old] = frame[f].data]
               ELSE disk
    /\ pageTable' = [pageTable EXCEPT ![p] = f]

(***************************************************************************)
(* update_page(f, p): write the old page back when dirty and valid, drop   *)
(* its page-table entry and map p to f.  The frame record itself (zeroed, *)
(* id p, pin 0, clean) is set by the callers together with what they do  *)
(* after it, since a frame field is primed once per step.                 *)
(***************************************************************************)
UpdatePage(f, p) ==
    LET old == frame[f].id IN
    /\ disk' = IF frame[f].dirty /\ old # InvalidPage
               THEN [disk EXCEPT ![old] = frame[f].data]
               ELSE disk
    /\ pageTable' = [ (IF old # InvalidPage
                       THEN [pageTable EXCEPT ![old] = NoFrame]
                       ELSE pageTable) EXCEPT ![p] = f ]

\* Mutation: a fetch_page hit that sets pin_count to 1 instead of adding 1.
FetchPageHitResetsPin(p) ==
    IF Resident(p)
    THEN LET f == pageTable[p] IN
         /\ frame' = [frame EXCEPT ![f].pin = 1]
         /\ lru' = ReplacerPin(lru, f)
         /\ lastRet' = Ok
         /\ UNCHANGED <<pageTable, freeList, disk, nextPageNo>>
    ELSE IF ~HasVictim
    THEN /\ lastRet' = Null
         /\ UNCHANGED poolVars
    ELSE LET f == Victim IN
         /\ TakeVictim
         /\ UpdatePage(f, p)
         /\ frame' = [frame EXCEPT ![f] =
                        [id |-> p, pin |-> 1, dirty |-> FALSE, data |-> disk'[p]]]
         /\ lastRet' = Ok
         /\ UNCHANGED nextPageNo

\* Mutation: a fetch_page miss that resets the frame but skips read_page.
FetchPageNoDiskRead(p) ==
    IF Resident(p)
    THEN LET f == pageTable[p] IN
         /\ frame' = [frame EXCEPT ![f].pin = @ + 1]
         /\ lru' = ReplacerPin(lru, f)
         /\ lastRet' = Ok
         /\ UNCHANGED <<pageTable, freeList, disk, nextPageNo>>
    ELSE IF ~HasVictim
    THEN /\ lastRet' = Null
         /\ UNCHANGED poolVars
    ELSE LET f == Victim IN
         /\ TakeVictim
         /\ UpdatePage(f, p)
         /\ frame' = [frame EXCEPT ![f] =
                        [id |-> p, pin |-> 1, dirty |-> FALSE, data |-> 0]]
         /\ lastRet' = Ok
         /\ UNCHANGED nextPageNo

(***************************************************************************)
(* fetch_page(p).  A hit pins the resident frame; a miss takes a victim,  *)
(* updates it to p, reads p from disk and pins it; no victim is nullptr.  *)
(***************************************************************************)
FetchPage(p) ==
    IF Resident(p)
    THEN LET f == pageTable[p] IN
         /\ frame' = [frame EXCEPT ![f].pin = @ + 1]
         /\ lru' = ReplacerPin(lru, f)
         /\ lastRet' = Ok
         /\ UNCHANGED <<pageTable, freeList, disk, nextPageNo>>
    ELSE IF ~HasVictim
    THEN /\ lastRet' = Null
         /\ UNCHANGED poolVars
    ELSE LET f == Victim IN
         /\ TakeVictim
         /\ UpdatePage(f, p)
         /\ frame' = [frame EXCEPT ![f] =
                        [id |-> p, pin |-> 1, dirty |-> FALSE, data |-> disk'[p]]]
         \* replacer_->pin(victim): the victim has already left the list
         /\ lastRet' = Ok
         /\ UNCHANGED nextPageNo

\* Mutation: unpin_page without the pin_count <= 0 check.
UnpinPageNoPinCheck(p, isDirty) ==
    IF ~Resident(p) THEN /\ lastRet' = "false" /\ UNCHANGED poolVars
    ELSE LET f == pageTable[p] IN
         /\ frame' = [frame EXCEPT ![f].pin = @ - 1,
                                   ![f].dirty = @ \/ isDirty]
         /\ lru' = IF frame[f].pin - 1 = 0 THEN ReplacerUnpin(lru, f) ELSE lru
         /\ lastRet' = "true"
         /\ UNCHANGED <<pageTable, freeList, disk, nextPageNo>>

(***************************************************************************)
(* unpin_page(p, isDirty).  The dirty flag is only ever set here.         *)
(***************************************************************************)
UnpinPage(p, isDirty) ==
    IF ~Resident(p) THEN /\ lastRet' = "false" /\ UNCHANGED poolVars
    ELSE LET f == pageTable[p] IN
         IF frame[f].pin <= 0 THEN /\ lastRet' = "false" /\ UNCHANGED poolVars
         ELSE /\ frame' = [frame EXCEPT ![f].pin = @ - 1,
                                        ![f].dirty = @ \/ isDirty]
              /\ lru' = IF frame[f].pin - 1 = 0 THEN ReplacerUnpin(lru, f) ELSE lru
              /\ lastRet' = "true"
              /\ UNCHANGED <<pageTable, freeList, disk, nextPageNo>>

(***************************************************************************)
(* flush_page(p): write back whatever the pin count, and clear dirty.     *)
(***************************************************************************)
FlushPage(p) ==
    IF ~Resident(p) THEN /\ lastRet' = "false" /\ UNCHANGED poolVars
    ELSE LET f == pageTable[p] IN
         /\ disk' = [disk EXCEPT ![p] = frame[f].data]
         /\ frame' = [frame EXCEPT ![f].dirty = FALSE]
         /\ lastRet' = "true"
         /\ UNCHANGED <<pageTable, freeList, lru, nextPageNo>>

(***************************************************************************)
(* new_page(fd): a victim, a freshly allocated page number, update_page,  *)
(* pinned once and dirty.  Returns the new page id, or nullptr.           *)
(***************************************************************************)
NewPage(fd) ==
    IF ~HasVictim
    THEN /\ lastRet' = Null
         /\ UNCHANGED poolVars
    ELSE LET f == Victim
             p == <<fd, nextPageNo[fd]>> IN
         /\ nextPageNo[fd] < NumPages + MaxAlloc
         /\ TakeVictim
         /\ nextPageNo' = [nextPageNo EXCEPT ![fd] = @ + 1]
         /\ UpdatePage(f, p)
         /\ frame' = [frame EXCEPT ![f] =
                        [id |-> p, pin |-> 1, dirty |-> TRUE, data |-> 0]]
         /\ lastRet' = Ok

\* Mutation: delete_page that leaves the frame in the replacer.
DeletePageKeepInReplacer(p) ==
    IF ~Resident(p) THEN /\ lastRet' = "true" /\ UNCHANGED poolVars
    ELSE LET f == pageTable[p] IN
         IF frame[f].pin > 0 THEN /\ lastRet' = "false" /\ UNCHANGED poolVars
         ELSE /\ disk' = IF frame[f].dirty
                         THEN [disk EXCEPT ![p] = frame[f].data] ELSE disk
              /\ pageTable' = [pageTable EXCEPT ![p] = NoFrame]
              /\ frame' = [frame EXCEPT ![f] =
                             [id |-> InvalidPage, pin |-> 0, dirty |-> FALSE, data |-> 0]]
              /\ freeList' = Append(freeList, f)
              /\ lastRet' = "true"
              /\ UNCHANGED <<lru, nextPageNo>>

(***************************************************************************)
(* delete_page(p): true when absent; false when pinned; otherwise remove  *)
(* the frame from the replacer, write it back if dirty, reset it and put  *)
(* it on the free list.  The disk page number is not released.            *)
(***************************************************************************)
DeletePage(p) ==
    IF ~Resident(p) THEN /\ lastRet' = "true" /\ UNCHANGED poolVars
    ELSE LET f == pageTable[p] IN
         IF frame[f].pin > 0 THEN /\ lastRet' = "false" /\ UNCHANGED poolVars
         ELSE /\ lru' = ReplacerPin(lru, f)
              /\ disk' = IF frame[f].dirty
                         THEN [disk EXCEPT ![p] = frame[f].data] ELSE disk
              /\ pageTable' = [pageTable EXCEPT ![p] = NoFrame]
              /\ frame' = [frame EXCEPT ![f] =
                             [id |-> InvalidPage, pin |-> 0, dirty |-> FALSE, data |-> 0]]
              /\ freeList' = Append(freeList, f)
              /\ lastRet' = "true"
              /\ UNCHANGED nextPageNo

(***************************************************************************)
(* flush_all_pages(fd): write back every resident page of fd.             *)
(***************************************************************************)
FlushAllPages(fd) ==
    /\ disk' = [p \in PageIds |->
                  IF p[1] = fd /\ Resident(p) THEN frame[pageTable[p]].data ELSE disk[p]]
    /\ frame' = [f \in Frames |->
                  IF frame[f].id # InvalidPage /\ frame[f].id[1] = fd
                  THEN [frame[f] EXCEPT !.dirty = FALSE] ELSE frame[f]]
    /\ lastRet' = "none"
    /\ UNCHANGED <<pageTable, freeList, lru, nextPageNo>>

(***************************************************************************)
(* Clients.  A client fetches a page it does not hold yet, writes only     *)
(* into frames it has pinned, and unpins with is_dirty set whenever it     *)
(* wrote (the contract of spec.md section 5).  A double unpin is a client *)
(* calling unpin_page for a page nobody holds (spec.md 7, DoubleUnpin).   *)
(***************************************************************************)
ClientFetch(c, p) ==
    /\ Allocated(p)
    /\ p \notin held[c]
    /\ FetchPage(p)
    /\ held' = IF lastRet' = Ok THEN [held EXCEPT ![c] = @ \cup {p}] ELSE held
    /\ UNCHANGED <<wrote, latest>>

ClientNewPage(c, fd) ==
    /\ NewPage(fd)
    /\ held' = IF lastRet' = Ok
               THEN [held EXCEPT ![c] = @ \cup {<<fd, nextPageNo[fd]>>}]
               ELSE held
    /\ UNCHANGED <<wrote, latest>>

ClientWrite(c, p) ==
    LET f == pageTable[p] IN
    /\ p \in held[c]
    /\ frame[f].data < MaxVersion
    /\ frame' = [frame EXCEPT ![f].data = @ + 1]
    /\ latest' = [latest EXCEPT ![p] = frame[f].data + 1]
    /\ wrote' = [wrote EXCEPT ![c] = @ \cup {p}]
    /\ UNCHANGED <<pageTable, freeList, lru, disk, nextPageNo, held, lastRet>>

ClientUnpin(c, p) ==
    /\ p \in held[c]
    /\ \E isDirty \in BOOLEAN :
          /\ p \in wrote[c] => isDirty
          /\ UnpinPage(p, isDirty)
    /\ held' = [held EXCEPT ![c] = @ \ {p}]
    /\ wrote' = [wrote EXCEPT ![c] = @ \ {p}]
    /\ UNCHANGED latest

ClientDoubleUnpin(p) ==
    /\ Allocated(p)
    /\ \A c \in Clients : p \notin held[c]
    /\ UnpinPage(p, FALSE)
    /\ UNCHANGED clientVars

ClientFlush(p) ==
    /\ Allocated(p)
    /\ FlushPage(p)
    /\ UNCHANGED clientVars

ClientDelete(p) ==
    /\ Allocated(p)
    /\ DeletePage(p)
    /\ UNCHANGED clientVars

ClientFlushAll(fd) ==
    /\ FlushAllPages(fd)
    /\ UNCHANGED clientVars

Init ==
    /\ frame = [f \in Frames |->
                  [id |-> InvalidPage, pin |-> 0, dirty |-> FALSE, data |-> 0]]
    /\ pageTable = [p \in PageIds |-> NoFrame]
    /\ freeList = [i \in 1..PoolSize |-> i - 1]
    /\ lru = <<>>
    /\ disk = [p \in PageIds |-> 0]
    /\ nextPageNo = [fd \in Fds |-> NumPages]
    /\ held = [c \in Clients |-> {}]
    /\ wrote = [c \in Clients |-> {}]
    /\ latest = [p \in PageIds |-> 0]
    /\ lastRet = "none"

Next ==
    \/ \E c \in Clients, p \in PageIds :
          \/ ClientFetch(c, p)
          \/ ClientWrite(c, p)
          \/ ClientUnpin(c, p)
    \/ \E c \in Clients, fd \in Fds : ClientNewPage(c, fd)
    \/ \E p \in PageIds :
          \/ ClientDoubleUnpin(p)
          \/ ClientFlush(p)
          \/ ClientDelete(p)
    \/ \E fd \in Fds : ClientFlushAll(fd)

Spec == Init /\ [][Next]_vars

-----------------------------------------------------------------------------
(* Properties *)

FrameRec == [id : PageIds \cup {InvalidPage}, pin : Nat, dirty : BOOLEAN,
             data : Versions]

\* Every variable has its type; pin counts in particular never go negative.
TypeOK ==
    /\ frame \in [Frames -> FrameRec]
    /\ pageTable \in [PageIds -> Frames \cup {NoFrame}]
    /\ freeList \in Seq(Frames)
    /\ lru \in Seq(Frames)
    /\ disk \in [PageIds -> Versions]
    /\ held \in [Clients -> SUBSET PageIds]
    /\ wrote \in [Clients -> SUBSET PageIds]
    /\ lastRet \in Results

\* page_table_ and the frames' ids agree: a page is mapped to f exactly when
\* f holds it, so no page is ever cached in two frames (update_page,
\* delete_page).
PageTableConsistent ==
    \A p \in PageIds, f \in Frames : pageTable[p] = f <=> frame[f].id = p

\* Every frame is in exactly one of: the free list, the replacer, in use
\* (pinned); a frame on the free list holds no page; neither list repeats a
\* frame (find_victim_page, fetch_page, unpin_page, delete_page).
FramePartition ==
    /\ \A f \in Frames :
          /\ Cardinality({i \in 1..3 :
                 << Contains(freeList, f), Contains(lru, f), frame[f].pin > 0 >>[i]}) = 1
          /\ Contains(freeList, f) => frame[f].id = InvalidPage
    /\ IsInjective(freeList) /\ IsInjective(lru)

\* Pin accounting: a frame's pin_count is the number of clients holding its
\* page, and every held page is resident, so a pinned page is never evicted
\* or deleted under its holder (fetch_page, unpin_page, find_victim_page).
PinAccounting ==
    /\ \A f \in Frames :
          frame[f].pin = Cardinality({c \in Clients : frame[f].id \in held[c]})
    /\ \A c \in Clients : \A p \in held[c] : Resident(p)

\* No lost write: a resident page holds the last version written, and that
\* version is dirty, on disk, or about to be marked dirty by its writer's
\* unpin; a page that is not resident has its last version on disk
\* (update_page's write-back, flush_page, delete_page, unpin_page's flag).
NoLostWrite ==
    \A p \in PageIds :
       IF Resident(p)
       THEN LET f == pageTable[p] IN
            /\ frame[f].data = latest[p]
            /\ \/ frame[f].dirty
               \/ disk[p] = latest[p]
               \/ \E c \in Clients : p \in wrote[c]
       ELSE disk[p] = latest[p]

\* The pool implements the page store: read each page from its frame when
\* resident and from disk otherwise, and every step of the pool and its
\* clients is either a client's write of one page or changes no page
\* (update_page's write-back before reuse, fetch_page's read from disk,
\* flush_page, delete_page, flush_all_pages).
Store == INSTANCE PageStore WITH
    store <- [p \in PageIds |-> IF Resident(p) THEN frame[pageTable[p]].data ELSE disk[p]]

PoolRefinesStore == Store!Spec

\* fetch_page and new_page return nullptr only when every frame is pinned
\* (spec.md 8, buffer-pool capacity).
NullOnlyWhenAllPinned ==
    lastRet = Null => \A f \in Frames : frame[f].pin > 0
=============================================================================
