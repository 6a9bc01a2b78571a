CONSTANTS
 SlotsPerPage = 2
 MaxRmPages = 4
SPECIFICATION Spec




INVARIANT ScanReleasesPins
