CONSTANTS
    c1 = c1
    c2 = c2
    fd1 = fd1
    noPage = noPage
    InvalidPage <- noPage
    Clients <- MCClients
    Fds <- MCFds
    PoolSize = 2
    NumPages = 2
    MaxAlloc = 1
    MaxVersion = 2

SPECIFICATION Spec
SYMMETRY MCSymmetry

INVARIANT TypeOK
INVARIANT PageTableConsistent
INVARIANT FramePartition
INVARIANT PinAccounting
INVARIANT NoLostWrite
INVARIANT NullOnlyWhenAllPinned
PROPERTY PoolRefinesStore
