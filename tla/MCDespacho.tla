----------------------------- MODULE MCDespacho -----------------------------
(***************************************************************************)
(* Instances of Despacho for TLC: which occurrences are reported where.  A *)
(* cfg picks one of the sets below as Pedidos.                             *)
(***************************************************************************)
EXTENDS Despacho, TLC

CONSTANTS d1, d2

Pedido(id, b, prio, paga) == [id |-> id, broker |-> b, prio |-> prio, paga |-> paga]

(* One occurrence at each of two brokers, as urgent as one another. *)
UmEmCada == {Pedido(1, 1, 1, FALSE), Pedido(2, 2, 1, TRUE)}

(* The same at three brokers, one of them more urgent. *)
UmEmCadaDeTres == {Pedido(1, 1, 1, FALSE), Pedido(2, 2, 1, FALSE), Pedido(3, 3, 3, FALSE)}

(* One at each of two of the brokers, the others only give their OK. *)
DoisDeTres == {Pedido(1, 1, 1, FALSE), Pedido(2, 2, 1, FALSE)}

(* Two occurrences at one broker, one at the other. *)
DoisEUm == {Pedido(1, 1, 1, FALSE), Pedido(2, 1, 1, FALSE), Pedido(3, 2, 1, FALSE)}

(* A more urgent occurrence at the second broker. *)
UmUrgente == {Pedido(1, 1, 1, FALSE), Pedido(2, 2, 3, FALSE)}

(* One occurrence alone, which has a payer. *)
UmPago == {Pedido(1, 1, 1, TRUE)}

(* Bound of a run that looks at the exclusion alone: behaviours end with   *)
(* the first flight that does.                                             *)
NenhumPouso == \A m \in rede : m.tipo # "STATUS_DRONE"

(* Where one broker alone has occurrences, no two requests are ever        *)
(* compared: clocks decide nothing, and of the history of gaps only        *)
(* "repetida" does.  States that differ in the rest are explored once.     *)
VistaDeUm ==
    LET pedidosDe(i, j) == {m \in rede : m.tipo = "RA_REQUEST" /\ m.de = i /\ m.para = j}
        pedidos == [i \in Brokers |-> [j \in Brokers |-> Cardinality(pedidosDe(i, j))]]
    IN <<filaVars, missaoVars, requesting, inCS, currentReqOc,
         [i \in Brokers |-> currentReqRA[i].prio], respostasOK, deferred, connBrokers,
         {m \in rede : m.tipo # "RA_REQUEST"}, pedidos, oks, droneVars, limites, tarefas,
         "repetida" \in furos>>

(* The drones are alike. *)
Frota == Permutations({d1, d2})
=============================================================================
