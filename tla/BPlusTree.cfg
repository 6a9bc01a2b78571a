CONSTANTS
 Keys = {1,2,3,4,5,6}
 Rids = {7}
 NoRid = 0
 MaxSize = 4
 MaxPages = 8
 AssertsCompiled = TRUE
SPECIFICATION Spec
INVARIANT TypeOK
INVARIANT LeafChainConsistent
INVARIANT Balanced
INVARIANT MinOccupancy
INVARIANT SeparatorsAreSubtreeMins
INVARIANT GetValueFindsEntries
INVARIANT IteratorsFollowLeafOrder
INVARIANT PinsBalanced
INVARIANT NodeSearchMatchesReference
PROPERTY IndexSpec
INVARIANT OperationPinsWithinHeight
