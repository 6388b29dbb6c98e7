-------------------------------- MODULE Null --------------------------------
(***************************************************************************)
(* What a field, a column or an argument holds when it holds nothing.      *)
(***************************************************************************)
CONSTANT None

=============================================================================
