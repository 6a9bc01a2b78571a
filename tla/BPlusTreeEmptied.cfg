CONSTANTS
 Keys = {1,2}
 Rids = {7}
 NoRid = 0
 MaxSize = 4
 MaxPages = 4
 AssertsCompiled = TRUE
SPECIFICATION Spec
PROPERTY InsertThenGet
