CONSTANTS
 SlotsPerPage = 2
 MaxRmPages = 4
SPECIFICATION Spec
INVARIANT ScanComplete
PROPERTY NextIsNextRecord
PROPERTY ScanTerminates
