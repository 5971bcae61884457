--------------------------- MODULE MCPersistencia ---------------------------
(***************************************************************************)
(* Instances of Persistencia for TLC: what blocks carry and which chains   *)
(* peers send.                                                             *)
(***************************************************************************)
EXTENDS Persistencia

CONSTANTS b1, b2, pais, oc1

Dado(tipo) == [tipo |-> tipo, conta |-> pais, oc |-> oc1]

Pagamentos == {Dado("TX")}
PagamentosERecargas == {Dado("TX"), Dado("RECARGA")}
PagamentosELaudos == {Dado("TX"), Dado("LAUDO")}

(* A chain of n payments by b2, none of whose blocks is known here. *)
Alheia(n) ==
    [k \in 1..n |-> [hash |-> MaxBlocos - n + k,
                     anterior |-> IF k = 1 THEN HashGenesis ELSE MaxBlocos - n + k - 1,
                     dados |-> Dado("TX"), autor |-> b2, integro |-> TRUE]]

NenhumaRecebida == {}
UmaRecebida == {Alheia(2)}
=============================================================================
