CONSTANTS
 t1 = t1
 t2 = t2
 a = a
 b = b
 Txns <- MCTxns
 Rows <- MCRows
 Vals <- MCVals
 Absent = Absent
 NoTxn = NoTxn
 MaxWrites = 3
SYMMETRY TxnSymmetry
SPECIFICATION Spec
PROPERTY AbortRestoresImage
