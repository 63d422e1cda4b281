-------------------------------- MODULE Sums --------------------------------
(***************************************************************************)
(* Sums of a function's values: quantities, prices and stars add up over a *)
(* finite set of rows.                                                     *)
(***************************************************************************)
EXTENDS FiniteSetsExt

SumOver(f, S) == MapThenSumSet(LAMBDA x : f[x], S)
=============================================================================
