------------------------ MODULE MCTransactionManager ------------------------
EXTENDS TransactionManager, TLC

CONSTANTS t1, t2, a, b

MCTxns == {t1, t2}
MCRows == 1..3
MCVals == {a, b}
TxnSymmetry == Permutations(MCTxns)
=============================================================================
