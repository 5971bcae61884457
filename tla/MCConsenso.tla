----------------------------- MODULE MCConsenso -----------------------------
(***************************************************************************)
(* Instances of Consenso for TLC: which brokers propose what.  A cfg picks *)
(* one of the sets of calls below as Demandas.                             *)
(***************************************************************************)
EXTENDS Consenso, TLC

CONSTANTS b1, b2, b3, b4, pais, oc1

Chamada(b, tipo, n) ==
    [broker |-> b, dados |-> [tipo |-> tipo, conta |-> pais, oc |-> oc1], vez |-> n]

(* Two brokers report a mission at the same time. *)
DoisLaudos == {Chamada(b1, "LAUDO", 1), Chamada(b2, "LAUDO", 1)}

(* Two brokers pay an escort from one wallet at the same time. *)
DoisAutores == {Chamada(b1, "TX", 1), Chamada(b2, "TX", 1)}

(* One broker alone pays an escort. *)
UmPagamento == {Chamada(b1, "TX", 1)}

(* Two escorts on one wallet, by one broker. *)
DoisPagamentos == {Chamada(b1, "TX", 1), Chamada(b1, "TX", 2)}

(* A payment here and a report there. *)
PagamentoELaudo == {Chamada(b1, "TX", 1), Chamada(b2, "LAUDO", 1)}

(* The reward of one occurrence, proposed for each of two rivals. *)
DuasRecompensas == {Chamada(b1, "RENOVA", 1), Chamada(b1, "RENOVA", 2)}

(* A recharge, which the initial balance calls for, and whatever b2 forges. *)
RecargaEFraude == {Chamada(b1, "RECARGA", 1), Chamada(b2, "TX", 1)}

(* Swapping the two authors of DoisLaudos changes nothing. *)
Troca == Permutations({b1, b2})

(* Is block h pending at i, or on its way to be? *)
PodeVotar(i, h) ==
    \/ \E p \in blocosPendentes[i] : p.hash = h
    \/ \E t \in tarefas[i] : t.op \in {"auditar", "votar"} /\ t.bloco.hash = h
    \/ \E m \in rede : m.tipo = "NOVO_BLOCO" /\ m.para = i /\ m.bloco.hash = h

(* Votes counted for a block that is not pending are dead: registering the *)
(* block, in propagarBloco or in handleNovoBloco, overwrites them.  A vote *)
(* on its way, and a goroutine about to claim a block, are dead where the  *)
(* block will not be pending any more.  States that differ only in what is *)
(* dead are explored once.                                                 *)
Vista ==
    LET votosVivos == [i \in Brokers |-> [h \in Hashes |->
                         IF \E p \in blocosPendentes[i] : p.hash = h
                         THEN votosBloco[i][h] ELSE 0]]
        redeViva == {m \in rede : m.tipo = "ACEITE_BLOCO" => PodeVotar(m.para, m.hash)}
        tarefasVivas == [i \in Brokers |->
                           {t \in tarefas[i] : t.op = "commitar" => PodeVotar(i, t.bloco.hash)}]
    IN <<chainVars, blocosPendentes, votosVivos, aceitou, propVars, redeVars,
         esperandoSync, tarefasVivas, redeViva>>
=============================================================================
