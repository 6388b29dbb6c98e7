--------------------------- MODULE MCValidationRun ---------------------------
(***************************************************************************)
(* Two of the four operations: the loop over them has a first, a last and  *)
(* a step from one to the next.                                            *)
(***************************************************************************)
EXTENDS ValidationRun

TwoOperations == <<"partner", "product">>

=============================================================================
