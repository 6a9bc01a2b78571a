CONSTANTS
 Keys = {1,2,3,4,5,6}
 Rids = {7}
 NoRid = 0
 MaxSize = 4
 MaxPages = 8
 AssertsCompiled = FALSE
SPECIFICATION Spec
INVARIANT PinsBalanced
