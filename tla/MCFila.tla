------------------------------- MODULE MCFila -------------------------------
(***************************************************************************)
(* Instances of Fila for TLC.  Occurrences are interchangeable.            *)
(***************************************************************************)
EXTENDS Fila, TLC

Simetria == Permutations(Entradas)
=============================================================================
