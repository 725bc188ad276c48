--------------------------- MODULE MCDialogGuard ----------------------------
(* DialogGuard on two interchangeable pages.  click makes its calls through *)
(* rendererCall and callGuarded, drag through rendererCall and plainly.     *)
EXTENDS DialogGuard, TLC

CONSTANTS s1, s2

Pages == {s1, s2}
Swap == Permutations(Pages)
=============================================================================
