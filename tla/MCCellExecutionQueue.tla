------------------------ MODULE MCCellExecutionQueue ------------------------
(***************************************************************************)
(* CellExecutionQueue for TLC: the cell each execution runs.               *)
(***************************************************************************)
EXTENDS CellExecutionContract

CONSTANTS e1, e2, e3, k1, k2, c1, c2, c3

\* Every execution runs a cell of its own.
OwnCells ==
    [e \in CellExecs |-> CASE e = e1 -> c1 [] e = e2 -> c2 [] e = e3 -> c3]

\* The third execution runs the first cell again.
FirstCellTwice ==
    [e \in CellExecs |-> IF e = e2 THEN c2 ELSE c1]

OneQueue  == {1}
TwoQueues == {1, 2}

=============================================================================
