CONSTANTS
 Keys = {1,2,3,4,5}
 Rids = {7}
 NoRid = 0
 MaxSize = 4
 MaxPages = 7
 AssertsCompiled = TRUE
 ReadKeys = {3,5}
SPECIFICATION ReaderSpec
INVARIANT NoFetchOfNoPage
