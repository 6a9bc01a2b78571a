CONSTANTS
 Keys = {1,2,3,4,5,6,7,8}
 Rids = {7}
 NoRid = 0
 MaxSize = 4
 MaxPages = 9
 AssertsCompiled = TRUE
SPECIFICATION Spec
INVARIANT LeafChainConsistent
INVARIANT Balanced
INVARIANT MinOccupancy
INVARIANT SeparatorsAreSubtreeMins
INVARIANT GetValueFindsEntries
INVARIANT OperationPinsWithinHeight
VIEW TreeView
