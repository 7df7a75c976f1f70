----------------------------- MODULE MCRowEdits -----------------------------
(* Constants of RowEdits for TLC: three requests on a row of any table, with *)
(* two contents of a column.                                                 *)
EXTENDS RowEdits, TLC

CONSTANTS h1, h2, h3, x, y

Symmetry == Permutations(Handlers) \cup Permutations(Values)
=============================================================================
