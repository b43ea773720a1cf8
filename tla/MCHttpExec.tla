---------------------------- MODULE MCHttpExec -----------------------------
(* HttpExec with the calls of one application, for TLC.                     *)
EXTENDS HttpExec, TLC

\* The objects of fasthttp's pool are alike.
Symmetry == Permutations(Objects \ HertzPool)

=============================================================================
