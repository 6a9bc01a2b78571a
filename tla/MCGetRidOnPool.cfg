CONSTANTS
    c1 = c1
    fd1 = fd1
    noPage = noPage
    InvalidPage <- noPage
    Clients <- MCClients
    Fds <- MCFds
    PoolSize = 2
    NumPages = 2
    MaxAlloc = 1
    MaxVersion = 1

SPECIFICATION ComposedSpec
INVARIANT GetRidReadsItsPage
