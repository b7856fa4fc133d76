--------------------------- MODULE MCCellOutputs ---------------------------
(***************************************************************************)
(* CellOutputs for TLC.                                                    *)
(***************************************************************************)
EXTENDS CellOutputs

CONSTANTS c1, c2, d1, d2

=============================================================================
