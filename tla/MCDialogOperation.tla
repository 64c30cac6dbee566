------------------------- MODULE MCDialogOperation -------------------------
(* DialogOperation with interchangeable tabs, for TLC. *)
EXTENDS DialogOperation, TLC

Interchangeable == Permutations(Tabs)

=============================================================================
