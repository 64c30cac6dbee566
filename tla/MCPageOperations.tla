------------------------- MODULE MCPageOperations -------------------------
(***************************************************************************)
(* PageOperations for TLC: neither a tab nor a download is special.          *)
(***************************************************************************)
EXTENDS PageOperations, TLC

Symmetry == Permutations(Tabs) \cup Permutations(Downloads)

\* Any operation that needs no ref yet; then one that may use what it left, or leaves
\* a document itself; then one whose refs may be of either.
AnyThenUse ==
  <<Kinds, {"hover", "uploadFile", "downloadFile", "navigate"}, {"drag", "selectOption"}>>

=============================================================================
