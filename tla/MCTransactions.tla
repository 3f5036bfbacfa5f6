--------------------------- MODULE MCTransactions ---------------------------
(* Transactions for TLC: transactions are interchangeable, records are not:  *)
(* a commit applies its writes in the order of their ids.                    *)
EXTENDS Transactions, TLC

TxnSymmetry == Permutations(Readers)

Plainly == [consistency |-> "Strict", unique |-> FALSE, scans |-> FALSE, alters |-> FALSE,
            drops |-> FALSE, batches |-> FALSE, txns |-> 1, writes |-> 0]
Scanning == [Plainly EXCEPT !.scans = TRUE, !.txns = 2, !.writes = 1]
Constrained == [Plainly EXCEPT !.consistency = "Snapshot", !.unique = TRUE, !.alters = TRUE,
                               !.drops = TRUE, !.batches = TRUE, !.writes = 1]

MCMixes == {Scanning, Constrained}
MCDuplicates == {[Plainly EXCEPT !.unique = TRUE]}
=============================================================================
