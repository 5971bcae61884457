--------------------------- MODULE ConsensoProofs ---------------------------
(***************************************************************************)
(* Proofs about Consenso for every value of its constants: the types, the  *)
(* integrity of the chains, the fork choice, and the ledger that Consenso  *)
(* implements.                                                             *)
(***************************************************************************)
EXTENDS Consenso, LedgerProofs, FiniteSetTheorems, TLAPS

(* The fields of a message of each kind. *)
LEMMA TipoDeNovo ==
  ASSUME NEW m \in Mensagens, m.tipo = "NOVO_BLOCO"
  PROVE  m.de \in Brokers /\ m.para \in Brokers /\ m.bloco \in Bloco
BY DEF Mensagens

LEMMA TipoDeAceite ==
  ASSUME NEW m \in Mensagens, m.tipo = "ACEITE_BLOCO"
  PROVE  m.de \in Brokers /\ m.para \in Brokers /\ m.hash \in Hashes
BY DEF Mensagens

LEMMA TipoDeReq ==
  ASSUME NEW m \in Mensagens, m.tipo = "REQ_BLOCKCHAIN"
  PROVE  /\ m.de \in Brokers /\ m.para \in Brokers
         /\ m.causa \in Hashes \cup {HashGenesis}
BY DEF Mensagens

LEMMA TipoDeResp ==
  ASSUME NEW m \in Mensagens, m.tipo = "RESP_BLOCKCHAIN"
  PROVE  /\ m.de \in Brokers /\ m.para \in Brokers
         /\ m.causa \in Hashes \cup {HashGenesis}
         /\ m.chain \in Seq(Bloco)
BY DEF Mensagens

(* Building a message of each kind. *)
LEMMA MensagemBemFormada ==
  ASSUME NEW i \in Brokers, NEW j \in Brokers
  PROVE  /\ \A b \in Bloco : Novo(i, j, b) \in Mensagens
         /\ \A h \in Hashes : Aceite(i, j, h) \in Mensagens
         /\ \A h \in Hashes \cup {HashGenesis} :
               /\ ReqChain(i, j, h) \in Mensagens
               /\ \A c \in Seq(Bloco) : RespChain(i, j, h, c) \in Mensagens
BY DEF Mensagens, Novo, Aceite, ReqChain, RespChain

LEMMA TarefaBemFormada ==
  ASSUME NEW op \in Passos, NEW b \in Bloco
  PROVE  /\ Tarefa(op, b) \in [op : Passos, bloco : Bloco]
         /\ Tarefa(op, b).op = op
         /\ Tarefa(op, b).bloco = b
BY DEF Tarefa

-----------------------------------------------------------------------------
LEMMA TipoInicial == Init => TypeOK
<1> SUFFICES ASSUME Init PROVE TypeOK
  OBVIOUS
<1>1. /\ \A i \in Brokers : <<>> \in Seq(Bloco)
      /\ 0 \in 0..MaxQuedas
  BY PapeisAssumption
<1> QED
  BY <1>1, CreditosAssumption, PapeisAssumption DEF Init, TypeOK

(* Handlers of messages keep the types. *)
LEMMA TipoAoReceber ==
  ASSUME TypeOK, NEW m \in rede, Receber(m)
  PROVE  TypeOK'
<1> USE DEF chainVars, votoVars, propVars, redeVars
<1>m. m \in Mensagens
  BY DEF TypeOK
<1>1. CASE DetectarFork(m)
  <2>1. m.para \in Brokers /\ m.bloco \in Bloco
    BY <1>1, <1>m, TipoDeNovo DEF DetectarFork
  <2>2. m.bloco.hash \in Hashes \cup {HashGenesis} /\ connBrokers[m.para] \subseteq Brokers
    BY <2>1 DEF Bloco, TypeOK
  <2>3. Solicitacoes(m.para, m.bloco.hash) \subseteq Mensagens
    BY <2>1, <2>2, MensagemBemFormada DEF Solicitacoes
  <2> QED
    BY <1>1, <2>1, <2>3 DEF DetectarFork, TypeOK
<1>2. CASE AuditarHash(m)
  <2>1. m.para \in Brokers /\ m.bloco \in Bloco
    BY <1>2, <1>m, TipoDeNovo DEF AuditarHash
  <2>2. /\ Tarefa("votar", m.bloco) \in [op : Passos, bloco : Bloco]
        /\ Tarefa("auditar", m.bloco) \in [op : Passos, bloco : Bloco]
    BY <2>1, TarefaBemFormada DEF Passos
  <2>3. tarefas' \in [Brokers -> SUBSET [op : Passos, bloco : Bloco]]
    BY <1>2, <2>1, <2>2 DEF AuditarHash, TypeOK
  <2> QED
    BY <1>2, <2>3 DEF AuditarHash, TypeOK
<1>3. CASE HandleAceiteBloco(m)
  <2>1. m.para \in Brokers /\ m.hash \in Hashes
    BY <1>3, <1>m, TipoDeAceite DEF HandleAceiteBloco
  <2>2. \A p \in blocosPendentes[m.para] :
           Tarefa("commitar", p) \in [op : Passos, bloco : Bloco]
    BY <2>1, TarefaBemFormada DEF Passos, TypeOK
  <2>3. tarefas' \in [Brokers -> SUBSET [op : Passos, bloco : Bloco]]
    BY <1>3, <2>1, <2>2 DEF HandleAceiteBloco, TypeOK
  <2>4. votosBloco' \in [Brokers -> [Hashes -> Nat]]
    BY <1>3, <2>1 DEF HandleAceiteBloco, TypeOK
  <2> QED
    BY <1>3, <2>3, <2>4 DEF HandleAceiteBloco, TypeOK
<1>4. CASE HandleReqChain(m)
  <2>1. /\ m.de \in Brokers /\ m.para \in Brokers
        /\ m.causa \in Hashes \cup {HashGenesis}
    BY <1>4, <1>m, TipoDeReq DEF HandleReqChain
  <2>2. blocos[m.para] \in Seq(Bloco)
    BY <2>1 DEF TypeOK
  <2>3. RespChain(m.para, m.de, m.causa, blocos[m.para]) \in Mensagens
    BY <2>1, <2>2, MensagemBemFormada
  <2> QED
    BY <1>4, <2>3 DEF HandleReqChain, TypeOK
<1>5. CASE HandleRespChain(m)
  <2>1. m.para \in Brokers /\ m.chain \in Seq(Bloco)
    BY <1>5, <1>m, TipoDeResp DEF HandleRespChain
  <2>2. Replay(m.chain) \in [Contas -> Int]
    BY <2>1, ReplayEhInteiro
  <2> QED
    BY <1>5, <2>1, <2>2 DEF HandleRespChain, TypeOK
<1> QED
  BY <1>1, <1>2, <1>3, <1>4, <1>5 DEF Receber

(* Goroutines between critical sections keep the types. *)
LEMMA TipoAoContinuar ==
  ASSUME TypeOK, NEW i \in Brokers, NEW t \in tarefas[i], Continuar(i, t)
  PROVE  TypeOK'
<1> USE DEF chainVars, votoVars, propVars, redeVars
<1> DEFINE Tarefas == [op : Passos, bloco : Bloco]
<1>t. t \in Tarefas /\ t.bloco \in Bloco /\ t.bloco.hash \in Hashes /\ t.bloco.dados \in Dados
  BY DEF TypeOK, Bloco
<1>p. \A op \in Passos, b \in Bloco : Tarefa(op, b) \in Tarefas
  BY TarefaBemFormada
<1>c. connBrokers[i] \subseteq Brokers
  BY DEF TypeOK
<1>1. CASE PropagarBloco(i, t)
  <2>1. SoloDecide(i, t.bloco) \subseteq Tarefas
    BY <1>t, <1>p DEF SoloDecide, Passos
  <2>2. {Novo(i, j, t.bloco) : j \in connBrokers[i]} \subseteq Mensagens
    BY <1>t, <1>c, MensagemBemFormada
  <2>3. votosBloco' \in [Brokers -> [Hashes -> Nat]]
    BY <1>1, <1>t DEF PropagarBloco, TypeOK
  <2> QED
    BY <1>1, <1>t, <2>1, <2>2, <2>3 DEF PropagarBloco, TypeOK
<1>2. CASE AuditarTransacao(i, t)
  <2>1. Tarefa("votar", t.bloco) \in Tarefas
    BY <1>t, <1>p DEF Passos
  <2> QED
    BY <1>2, <2>1 DEF AuditarTransacao, TypeOK
<1>3. CASE PerderDesempate(i, t)
  <2>1. \A apagados : SemVotos(i, apagados) \in [Hashes -> Nat]
    BY DEF SemVotos, TypeOK
  <2> QED
    BY <1>3, <2>1 DEF PerderDesempate, TypeOK
<1>4. CASE VotarBloco(i, t)
  <2>1. VotosAoAceitar(i, t.bloco) \in Nat
    BY <1>t DEF VotosAoAceitar, TypeOK
  <2>2. SemVotos(i, Maiores(i, t.bloco)) \in [Hashes -> Nat]
    BY DEF SemVotos, TypeOK
  <2>3. votosBloco' \in [Brokers -> [Hashes -> Nat]]
    BY <1>4, <1>t, <2>1, <2>2 DEF VotarBloco, TypeOK
  <2>4. {Aceite(i, j, t.bloco.hash) : j \in connBrokers[i]} \subseteq Mensagens
    BY <1>t, <1>c, MensagemBemFormada
  <2>5. Tarefa("commitar", t.bloco) \in Tarefas
    BY <1>t, <1>p DEF Passos
  <2>6. tarefas' \in [Brokers -> SUBSET Tarefas]
    BY <1>4, <2>5 DEF VotarBloco, TypeOK
  <2> QED
    BY <1>4, <1>t, <2>3, <2>4, <2>6 DEF VotarBloco, TypeOK
<1>5. CASE ReivindicarBloco(i, t)
  <2>1. Tarefa("anexar", t.bloco) \in Tarefas
    BY <1>t, <1>p DEF Passos
  <2>2. CASE t.bloco \in blocosPendentes[i]
    <3>1. /\ blocosPendentes' = [blocosPendentes EXCEPT ![i] = @ \ {t.bloco}]
          /\ votosBloco' = [votosBloco EXCEPT ![i][t.bloco.hash] = 0]
          /\ tarefas' = [tarefas EXCEPT ![i] = (@ \ {t}) \cup {Tarefa("anexar", t.bloco)}]
      BY <1>5, <2>2 DEF ReivindicarBloco
    <3>2. tarefas' \in [Brokers -> SUBSET Tarefas]
      BY <2>1, <3>1 DEF TypeOK
    <3>3. votosBloco' \in [Brokers -> [Hashes -> Nat]]
      BY <1>t, <3>1 DEF TypeOK
    <3>4. blocosPendentes' \in [Brokers -> SUBSET Bloco]
      BY <3>1 DEF TypeOK
    <3> QED
      BY <1>5, <3>2, <3>3, <3>4 DEF ReivindicarBloco, TypeOK
  <2>3. CASE t.bloco \notin blocosPendentes[i]
    <3>1. tarefas' = [tarefas EXCEPT ![i] = @ \ {t}] /\ UNCHANGED <<votosBloco, blocosPendentes>>
      BY <1>5, <2>3 DEF ReivindicarBloco
    <3>2. tarefas' \in [Brokers -> SUBSET Tarefas]
      BY <3>1 DEF TypeOK
    <3> QED
      BY <1>5, <3>1, <3>2 DEF ReivindicarBloco, TypeOK
  <2> QED
    BY <2>2, <2>3
<1>6. CASE AnexarBloco(i, t)
  <2>1. Tarefa("aplicar", t.bloco) \in Tarefas
    BY <1>t, <1>p DEF Passos
  <2>2. CASE AceitaCommit(blocos[i], t.bloco)
    <3> DEFINE segue == IF t.bloco.dados.tipo = "LAUDO" THEN {} ELSE {Tarefa("aplicar", t.bloco)}
    <3>1. /\ blocos' = [blocos EXCEPT ![i] = Append(@, t.bloco)]
          /\ tarefas' = [tarefas EXCEPT ![i] = (@ \ {t}) \cup segue]
      BY <1>6, <2>2 DEF AnexarBloco
    <3>2. segue \subseteq Tarefas
      BY <2>1
    <3> HIDE DEF segue
    <3>3. tarefas' \in [Brokers -> SUBSET Tarefas]
      BY <3>1, <3>2 DEF TypeOK
    <3>4. Append(blocos[i], t.bloco) \in Seq(Bloco)
      BY <1>t DEF TypeOK
    <3>5. blocos' \in [Brokers -> Seq(Bloco)]
      BY <3>1, <3>4 DEF TypeOK
    <3> QED
      BY <1>6, <3>3, <3>5 DEF AnexarBloco, TypeOK
  <2>3. CASE ~ AceitaCommit(blocos[i], t.bloco)
    <3>1. tarefas' = [tarefas EXCEPT ![i] = @ \ {t}] /\ UNCHANGED blocos
      BY <1>6, <2>3 DEF AnexarBloco
    <3>2. tarefas' \in [Brokers -> SUBSET Tarefas]
      BY <3>1 DEF TypeOK
    <3> QED
      BY <1>6, <3>1, <3>2 DEF AnexarBloco, TypeOK
  <2> QED
    BY <2>2, <2>3
<1>7. CASE AplicarTransacao(i, t)
  <2>1. AplicaDados(saldos[i], t.bloco.dados) \in [Contas -> Int]
    BY <1>t, AplicaEhInteiro DEF TypeOK
  <2> QED
    BY <1>7, <2>1 DEF AplicarTransacao, TypeOK
<1> QED
  BY <1>1, <1>2, <1>3, <1>4, <1>5, <1>6, <1>7 DEF Continuar

(* Whatever a broker builds, honest or not, is a block. *)
LEMMA BlocoPossivelEhBloco ==
  ASSUME TypeOK, NEW i \in Brokers, NEW dados \in Dados, NEW h \in Hashes,
         NEW b, b \in BlocosPossiveis(i, dados, h)
  PROVE  b \in Bloco
<1> DEFINE ponta == Ponta(blocos[i])
           M(anterior, d, ok) == Montado(i, h, anterior, d, ok)
<1>1. ponta \in Hashes \cup {HashGenesis, Deadbeef}
  BY PontaEhHash DEF TypeOK
<1>2. Deadbeef \in Hashes \cup {HashGenesis, Deadbeef}
  OBVIOUS
<1>3. \A c \in Contas, o \in Ocorrencias :
         [tipo |-> "RENOVA", conta |-> c, oc |-> o] \in Dados
  BY DEF Dados
<1>4. \A a \in Hashes \cup {HashGenesis, Deadbeef}, d \in Dados :
         M(a, d, TRUE) \in Bloco /\ M(a, d, FALSE) \in Bloco
  BY DEF Montado, Bloco
<1>5. CASE i \notin Maliciosos
  <2>0. BlocosPossiveis(i, dados, h) = {M(ponta, dados, TRUE)}
    BY <1>5 DEF BlocosPossiveis
  <2>1. b = M(ponta, dados, TRUE)
    BY <2>0, Zenon
  <2> QED
    BY <2>1, <1>1, <1>4, Zenon
<1>6. CASE i \in Maliciosos
  <2> DEFINE Salami(c, o) == M(ponta, [tipo |-> "RENOVA", conta |-> c, oc |-> o], TRUE)
             Fork  == M(Deadbeef, dados, FALSE)
             Falso == M(ponta, dados, FALSE)
  <2>1. BlocosPossiveis(i, dados, h) =
          {Salami(c, o) : c \in Contas, o \in Ocorrencias} \cup {Fork, Falso}
    BY <1>6 DEF BlocosPossiveis
  <2>2. \A c \in Contas, o \in Ocorrencias : Salami(c, o) \in Bloco
    BY <1>1, <1>3, <1>4, Zenon
  <2>3. Fork \in Bloco /\ Falso \in Bloco
    BY <1>1, <1>2, <1>4, Zenon
  <2> HIDE DEF Salami, Fork, Falso
  <2> QED
    BY <2>1, <2>2, <2>3
<1> QED
  BY <1>5, <1>6

(* The proposer keeps the types. *)
LEMMA TipoAoPropor ==
  ASSUME TypeOK, NEW d \in Demandas, Propor(d)
  PROVE  TypeOK'
<1> USE DEF chainVars, votoVars, propVars, redeVars
<1>d. d.broker \in Brokers /\ d.dados \in Dados
  BY DemandasAssumption
<1>1. CASE EsperarConsenso(d)
  BY <1>1 DEF EsperarConsenso, TypeOK
<1>2. CASE TimeoutConsenso(d)
  BY <1>2, <1>d DEF TimeoutConsenso, TypeOK
<1>3. CASE MontarBloco(d)
  <2>0. PICK h \in Hashes \ usados : \E b \in BlocosPossiveis(d.broker, d.dados, h) :
          /\ usados' = usados \cup {h}
          /\ tarefas' = [tarefas EXCEPT ![d.broker] = @ \cup {Tarefa("propagar", b)}]
    BY <1>3 DEF MontarBloco
  <2>1. PICK b \in BlocosPossiveis(d.broker, d.dados, h) :
          /\ usados' = usados \cup {h}
          /\ tarefas' = [tarefas EXCEPT ![d.broker] = @ \cup {Tarefa("propagar", b)}]
    BY <2>0
  <2>2. Ponta(blocos[d.broker]) \in Hashes \cup {HashGenesis}
    BY <1>d, PontaEhHash DEF TypeOK
  <2>3. b \in Bloco
    BY <1>d, BlocoPossivelEhBloco
  <2>4. Tarefa("propagar", b) \in [op : Passos, bloco : Bloco]
    BY <2>3, TarefaBemFormada DEF Passos
  <2>5. tarefas' \in [Brokers -> SUBSET [op : Passos, bloco : Bloco]]
    BY <1>d, <2>1, <2>4 DEF TypeOK
  <2>6. /\ usados' \subseteq Hashes
        /\ fase' \in [Demandas -> {"nova", "esperando", "liberada", "montada"}]
    BY <1>3, <2>1 DEF MontarBloco, TypeOK
  <2> QED
    BY <1>3, <2>5, <2>6 DEF MontarBloco, TypeOK
<1> QED
  BY <1>1, <1>2, <1>3 DEF Propor

(* What the environment does keeps the types. *)
LEMMA TipoNoAmbiente ==
  ASSUME TypeOK, Ambiente
  PROVE  TypeOK'
<1> USE DEF chainVars, votoVars, propVars, redeVars
<1>1. ASSUME NEW d \in Demandas, RecargaAutomatica(d) PROVE TypeOK'
  BY <1>1 DEF RecargaAutomatica, TypeOK
<1>2. ASSUME NEW i \in Brokers, ConectarPeers(i) PROVE TypeOK'
  <2>1. connBrokers[i] \subseteq Brokers
    BY DEF TypeOK
  <2>2. Solicitacoes(i, HashGenesis) \subseteq Mensagens
    BY <2>1, MensagemBemFormada DEF Solicitacoes
  <2> QED
    BY <1>2, <2>2 DEF ConectarPeers, TypeOK
<1>3. ASSUME NEW i \in Brokers, NEW j \in Brokers, RemoverConexao(i, j) PROVE TypeOK'
  BY <1>3, PapeisAssumption DEF RemoverConexao, TypeOK
<1>4. ASSUME NEW m \in rede, PerderMensagem(m) PROVE TypeOK'
  BY <1>4 DEF PerderMensagem, TypeOK
<1>5. ASSUME NEW i \in Brokers, NEW j \in Brokers, ManterConexaoPeer(i, j) PROVE TypeOK'
  BY <1>5 DEF ManterConexaoPeer, TypeOK
<1> QED
  BY <1>1, <1>2, <1>3, <1>4, <1>5 DEF Ambiente

LEMMA TipoAoPassar == TypeOK /\ [Next]_vars => TypeOK'
<1> SUFFICES ASSUME TypeOK, [Next]_vars PROVE TypeOK'
  OBVIOUS
<1>1. CASE Progresso
  BY <1>1, TipoAoReceber, TipoAoContinuar, TipoAoPropor DEF Progresso
<1>2. CASE Ambiente
  BY <1>2, TipoNoAmbiente
<1>3. CASE UNCHANGED vars
  BY <1>3 DEF vars, chainVars, votoVars, propVars, redeVars, TypeOK
<1> QED
  BY <1>1, <1>2, <1>3 DEF Next

(* Every variable keeps its type, whatever the brokers, the proposals, the *)
(* malicious members and the connections that drop.                        *)
THEOREM TypeCorrect == Spec => []TypeOK
BY TipoInicial, TipoAoPassar, PTL DEF Spec

-----------------------------------------------------------------------------

(* A message in flight after a step was in flight before it, or is not an  *)
(* answer to a request, or carries the chain its sender has.               *)
LEMMA RespostasNovas ==
  ASSUME TypeOK, [Next]_vars,
         NEW m \in rede', m.tipo = "RESP_BLOCKCHAIN", m \notin rede
  PROVE  \E i \in Brokers : m.chain = blocos[i]
<1> USE DEF chainVars, votoVars, propVars, redeVars
<1>1. ASSUME NEW n \in rede, Receber(n) PROVE \E i \in Brokers : m.chain = blocos[i]
  <2>1. CASE DetectarFork(n)
    <3>1. m \in Solicitacoes(n.para, n.bloco.hash)
      BY <2>1 DEF DetectarFork
    <3> QED
      BY <3>1 DEF Solicitacoes, ReqChain
  <2>2. CASE HandleReqChain(n)
    <3>1. n.para \in Brokers
      BY <2>2, TipoDeReq DEF HandleReqChain, TypeOK
    <3> QED
      BY <2>2, <3>1 DEF HandleReqChain, RespChain
  <2> QED
    BY <1>1, <2>1, <2>2 DEF Receber, AuditarHash, HandleAceiteBloco, HandleRespChain
<1>2. ASSUME NEW i \in Brokers, NEW t \in tarefas[i], Continuar(i, t) PROVE FALSE
  <2>1. CASE PropagarBloco(i, t)
    BY <2>1 DEF PropagarBloco, Novo
  <2>2. CASE VotarBloco(i, t)
    BY <2>2 DEF VotarBloco, Aceite
  <2> QED
    BY <1>2, <2>1, <2>2 DEF Continuar, AuditarTransacao, PerderDesempate, ReivindicarBloco,
       AnexarBloco, AplicarTransacao
<1>3. ASSUME NEW d \in Demandas, Propor(d) PROVE FALSE
  BY <1>3 DEF Propor, EsperarConsenso, TimeoutConsenso, MontarBloco
<1>4. ASSUME Ambiente PROVE FALSE
  BY <1>4 DEF Ambiente, RecargaAutomatica, ConectarPeers, RemoverConexao, PerderMensagem,
     ManterConexaoPeer, Solicitacoes, ReqChain
<1>5. CASE UNCHANGED vars
  BY <1>5 DEF vars
<1> QED
  BY <1>1, <1>2, <1>3, <1>4, <1>5 DEF Next, Progresso

(* The only steps that change the chain of a broker append an accepted     *)
(* block to it, or replace it by a chain received that it accepts.         *)
LEMMA ComoAChainMuda ==
  ASSUME TypeOK, [Next]_vars, NEW i \in Brokers, blocos'[i] # blocos[i]
  PROVE  \/ \E t \in tarefas[i] : /\ t.bloco \in Bloco
                                 /\ AceitaCommit(blocos[i], t.bloco)
                                 /\ blocos'[i] = Append(blocos[i], t.bloco)
         \/ \E m \in rede : /\ m.tipo = "RESP_BLOCKCHAIN"
                            /\ m.chain \in Seq(Bloco)
                            /\ AceitaSubstituir(m.chain, blocos[i])
                            /\ blocos'[i] = m.chain
<1> USE DEF chainVars, votoVars, propVars, redeVars
<1> DEFINE Anexa == \E t \in tarefas[i] : /\ t.bloco \in Bloco
                                         /\ AceitaCommit(blocos[i], t.bloco)
                                         /\ blocos'[i] = Append(blocos[i], t.bloco)
           Troca == \E m \in rede : /\ m.tipo = "RESP_BLOCKCHAIN"
                                   /\ m.chain \in Seq(Bloco)
                                   /\ AceitaSubstituir(m.chain, blocos[i])
                                   /\ blocos'[i] = m.chain
<1>1. ASSUME NEW m \in rede, Receber(m) PROVE Troca
  <2>1. HandleRespChain(m)
    BY <1>1 DEF Receber, DetectarFork, AuditarHash, HandleAceiteBloco, HandleReqChain
  <2>2. m.tipo = "RESP_BLOCKCHAIN" /\ m.chain \in Seq(Bloco)
    BY <2>1, TipoDeResp DEF HandleRespChain, TypeOK
  <2>3. m.para = i /\ AceitaSubstituir(m.chain, blocos[i]) /\ blocos'[i] = m.chain
    BY <2>1 DEF HandleRespChain, TypeOK
  <2> QED
    BY <2>2, <2>3
<1>2. ASSUME NEW j \in Brokers, NEW t \in tarefas[j], Continuar(j, t) PROVE Anexa
  <2>1. AnexarBloco(j, t)
    BY <1>2 DEF Continuar, PropagarBloco, AuditarTransacao, PerderDesempate, VotarBloco,
       ReivindicarBloco, AplicarTransacao
  <2>2. t.bloco \in Bloco
    BY DEF TypeOK
  <2>3. j = i /\ AceitaCommit(blocos[i], t.bloco) /\ blocos'[i] = Append(blocos[i], t.bloco)
    BY <2>1 DEF AnexarBloco, TypeOK
  <2> QED
    BY <2>2, <2>3
<1>3. ASSUME NEW d \in Demandas, Propor(d) PROVE FALSE
  BY <1>3 DEF Propor, EsperarConsenso, TimeoutConsenso, MontarBloco
<1>4. ASSUME Ambiente PROVE FALSE
  BY <1>4 DEF Ambiente, RecargaAutomatica, ConectarPeers, RemoverConexao, PerderMensagem,
     ManterConexaoPeer
<1>5. CASE UNCHANGED vars
  BY <1>5 DEF vars
<1> QED
  BY <1>1, <1>2, <1>3, <1>4, <1>5 DEF Next, Progresso

LEMMA ValidasAoPassar == TypeOK /\ ChainsValidas /\ [Next]_vars => ChainsValidas'
<1> SUFFICES ASSUME TypeOK, ChainsValidas, [Next]_vars PROVE ChainsValidas'
  OBVIOUS
<1>1. ASSUME NEW i \in Brokers PROVE ChainValida(blocos'[i])
  <2>1. CASE blocos'[i] = blocos[i]
    BY <2>1 DEF ChainsValidas
  <2>2. CASE \E b \in Bloco : /\ AceitaCommit(blocos[i], b)
                             /\ blocos'[i] = Append(blocos[i], b)
    BY <2>2, AnexarMantemValida DEF ChainsValidas, TypeOK
  <2>3. CASE \E m \in rede : AceitaSubstituir(m.chain, blocos[i]) /\ blocos'[i] = m.chain
    BY <2>3 DEF AceitaSubstituir
  <2> QED
    BY <2>1, <2>2, <2>3, ComoAChainMuda
<1>2. ASSUME NEW m \in rede', m.tipo = "RESP_BLOCKCHAIN" PROVE ChainValida(m.chain)
  <2>1. CASE m \in rede
    BY <1>2, <2>1 DEF ChainsValidas
  <2>2. CASE m \notin rede
    BY <1>2, <2>2, RespostasNovas DEF ChainsValidas
  <2> QED
    BY <2>1, <2>2
<1> QED
  BY <1>1, <1>2 DEF ChainsValidas

(* Every chain held or sent is linked to the genesis and holds no altered  *)
(* block, for any brokers, proposals, forgeries and dropped connections.   *)
THEOREM ChainsSempreValidas == Spec => []ChainsValidas
<1>1. Init => ChainsValidas
  BY DEF Init, ChainsValidas, ChainValida
<1> QED
  BY <1>1, TypeCorrect, ValidasAoPassar, PTL DEF Spec

(* A broker's chain is only ever exchanged for one that wins the fork      *)
(* choice against it.                                                      *)
THEOREM DisputaSempreMonotona == Spec => DisputaMonotona
<1> DEFINE A == \A i \in Brokers : blocos'[i] # blocos[i] => VenceDisputa(blocos'[i], blocos[i])
<1>1. TypeOK /\ [Next]_vars => A
  <2> SUFFICES ASSUME TypeOK, [Next]_vars, NEW i \in Brokers, blocos'[i] # blocos[i]
               PROVE  VenceDisputa(blocos'[i], blocos[i])
    OBVIOUS
  <2>1. CASE \E b \in Bloco : blocos'[i] = Append(blocos[i], b)
    BY <2>1 DEF VenceDisputa, TypeOK
  <2>2. CASE \E m \in rede : AceitaSubstituir(m.chain, blocos[i]) /\ blocos'[i] = m.chain
    BY <2>2 DEF AceitaSubstituir
  <2> QED
    BY <2>1, <2>2, ComoAChainMuda
<1> QED
  BY <1>1, TypeCorrect, PTL DEF Spec, DisputaMonotona

-----------------------------------------------------------------------------
(* Steps that only prepare a commit leave the abstract ledger alone. *)
LEMMA GaguejaAoContinuar ==
  ASSUME NEW i \in Brokers, NEW t \in tarefas[i], Continuar(i, t), ~ AnexarBloco(i, t)
  PROVE  blocos' = blocos /\ Respostas' = Respostas
<1> USE DEF chainVars, votoVars, propVars, redeVars
<1>1. CASE PropagarBloco(i, t)
  <2>1. \A m \in {Novo(i, j, t.bloco) : j \in connBrokers[i]} : m.tipo # "RESP_BLOCKCHAIN"
    BY DEF Novo
  <2> QED
    BY <1>1, <2>1 DEF PropagarBloco, Respostas
<1>2. CASE VotarBloco(i, t)
  <2>1. \A m \in {Aceite(i, j, t.bloco.hash) : j \in connBrokers[i]} :
            m.tipo # "RESP_BLOCKCHAIN"
    BY DEF Aceite
  <2>2. /\ blocos' = blocos
        /\ rede' = rede \cup {Aceite(i, j, t.bloco.hash) : j \in connBrokers[i]}
    BY <1>2 DEF VotarBloco
  <2> QED
    BY <2>1, <2>2 DEF Respostas
<1>3. CASE UNCHANGED <<blocos, rede>>
  BY <1>3 DEF Respostas
<1> QED
  BY <1>1, <1>2, <1>3 DEF Continuar, AuditarTransacao, PerderDesempate, ReivindicarBloco,
     AplicarTransacao

LEMMA SolicitacoesSemResposta ==
  ASSUME NEW i, NEW h
  PROVE  \A m \in Solicitacoes(i, h) : m.tipo # "RESP_BLOCKCHAIN"
BY DEF Solicitacoes, ReqChain

(* The abstract ledger has the blocks and the fork choice of the detailed one. *)
LEMMA MesmoLedger ==
  /\ L!Bloco = Bloco
  /\ \A c : L!Ponta(c) = Ponta(c)
  /\ \A c, d : L!VenceDisputa(c, d) <=> VenceDisputa(c, d)
BY DEF L!Bloco, Bloco, L!Hashes, Hashes, L!HashGenesis, HashGenesis, L!Deadbeef, Deadbeef,
   L!Dados, Dados, L!Ponta, Ponta, L!VenceDisputa, VenceDisputa

(* What a handler of a message does to the abstract ledger. *)
LEMMA PassoAoReceber ==
  ASSUME TypeOK, NEW m \in rede, Receber(m)
  PROVE  [L!Next]_(L!vars)
<1> USE DEF chainVars, votoVars, propVars, redeVars
<1> SUFFICES ASSUME ~ UNCHANGED <<blocos, ChainsEmTransito>>
             PROVE  L!Next
  BY DEF L!vars
<1>1. CASE DetectarFork(m)
  <2>1. Respostas' = Respostas
    BY <1>1, SolicitacoesSemResposta DEF DetectarFork, Respostas
  <2> QED
    BY <1>1, <2>1 DEF DetectarFork, ChainsEmTransito
<1>2. CASE AuditarHash(m) \/ HandleAceiteBloco(m)
  <2>1. Respostas' = Respostas /\ blocos' = blocos
    BY <1>2 DEF AuditarHash, HandleAceiteBloco, Respostas
  <2> QED
    BY <2>1 DEF ChainsEmTransito
<1>3. CASE HandleReqChain(m)
  <2> DEFINE r == RespChain(m.para, m.de, m.causa, blocos[m.para])
  <2>1. m.para \in Brokers
    BY <1>3, TipoDeReq DEF HandleReqChain, TypeOK
  <2>2. r.tipo = "RESP_BLOCKCHAIN" /\ r.chain = blocos[m.para]
    BY DEF RespChain
  <2>3. rede' = (rede \ {m}) \cup {r} /\ m.tipo # "RESP_BLOCKCHAIN" /\ blocos' = blocos
    BY <1>3 DEF HandleReqChain
  <2> HIDE DEF r
  <2>4. Respostas' = Respostas \cup {r}
    BY <2>2, <2>3 DEF Respostas
  <2>5. ChainsEmTransito' = ChainsEmTransito \cup {blocos[m.para]}
    BY <2>2, <2>4 DEF ChainsEmTransito
  <2> QED
    BY <2>1, <2>3, <2>5 DEF L!Next, L!Oferecer
<1>4. CASE HandleRespChain(m)
  <2> DEFINE c == m.chain
  <2>1. m \in Respostas /\ c \in ChainsEmTransito /\ m.para \in Brokers
    BY <1>4, TipoDeResp DEF HandleRespChain, Respostas, ChainsEmTransito, TypeOK
  <2>2. Respostas' = Respostas \ {m}
    BY <1>4 DEF HandleRespChain, Respostas
  <2>3. ChainsEmTransito' \in {ChainsEmTransito, ChainsEmTransito \ {c}}
    BY <2>2 DEF ChainsEmTransito
  <2>4. CASE blocos' = blocos
    BY <2>1, <2>3, <2>4 DEF L!Next, L!Esquecer
  <2>5. CASE blocos' # blocos
    <3>1. AceitaSubstituir(c, blocos[m.para]) /\ blocos' = [blocos EXCEPT ![m.para] = c]
      BY <1>4, <2>5 DEF HandleRespChain
    <3>2. VenceDisputa(c, blocos[m.para])
      BY <3>1 DEF AceitaSubstituir
    <3>3. L!Adotar(m.para)
      BY <2>1, <2>3, <3>1, <3>2, MesmoLedger DEF L!Adotar
    <3> QED
      BY <2>1, <3>3 DEF L!Next
  <2> QED
    BY <2>4, <2>5
<1> QED
  BY <1>1, <1>2, <1>3, <1>4 DEF Receber

(* Every step is a step of the abstract ledger, or leaves it alone. *)
LEMMA PassoDoLivro ==
  ASSUME TypeOK, [Next]_vars
  PROVE  [L!Next]_(L!vars)
<1> USE DEF chainVars, votoVars, propVars, redeVars
<1>1. ASSUME NEW m \in rede, Receber(m) PROVE [L!Next]_(L!vars)
  BY <1>1, PassoAoReceber
<1>2. ASSUME NEW i \in Brokers, NEW t \in tarefas[i], Continuar(i, t)
      PROVE  [L!Next]_(L!vars)
  <2>1. CASE AnexarBloco(i, t)
    <3>1. Respostas' = Respostas /\ ChainsEmTransito' = ChainsEmTransito
      BY <2>1 DEF AnexarBloco, Respostas, ChainsEmTransito
    <3>2. CASE AceitaCommit(blocos[i], t.bloco)
      <4>1. t.bloco \in Bloco
        BY DEF TypeOK
      <4>2. /\ t.bloco.integro
            /\ t.bloco.anterior = Ponta(blocos[i])
            /\ blocos' = [blocos EXCEPT ![i] = Append(@, t.bloco)]
        BY <2>1, <3>2 DEF AnexarBloco, AceitaCommit, HashConfere
      <4>3. L!Crescer(i)
        BY <3>1, <4>1, <4>2, MesmoLedger DEF L!Crescer
      <4> QED
        BY <4>3 DEF L!Next
    <3>3. CASE ~ AceitaCommit(blocos[i], t.bloco)
      BY <2>1, <3>1, <3>3 DEF AnexarBloco, L!vars
    <3> QED
      BY <3>2, <3>3
  <2>2. CASE ~ AnexarBloco(i, t)
    BY <1>2, <2>2, GaguejaAoContinuar DEF ChainsEmTransito, L!vars
  <2> QED
    BY <2>1, <2>2
<1>3. ASSUME NEW d \in Demandas, Propor(d) PROVE [L!Next]_(L!vars)
  BY <1>3 DEF Propor, EsperarConsenso, TimeoutConsenso, MontarBloco, Respostas,
     ChainsEmTransito, L!vars
<1>4. ASSUME Ambiente PROVE [L!Next]_(L!vars)
  <2>1. ASSUME NEW m \in rede, PerderMensagem(m) PROVE [L!Next]_(L!vars)
    <3>1. blocos' = blocos /\ Respostas' = Respostas \ {m}
      BY <2>1 DEF PerderMensagem, Respostas
    <3>2. CASE m \in Respostas
      <4>1. ChainsEmTransito' \in {ChainsEmTransito, ChainsEmTransito \ {m.chain}}
        BY <3>1 DEF ChainsEmTransito
      <4>2. m.chain \in ChainsEmTransito
        BY <3>2 DEF ChainsEmTransito
      <4> QED
        BY <3>1, <4>1, <4>2 DEF L!Next, L!Esquecer, L!vars
    <3>3. CASE m \notin Respostas
      BY <3>1, <3>3 DEF ChainsEmTransito, L!vars
    <3> QED
      BY <3>2, <3>3
  <2>2. ASSUME NEW i \in Brokers, ConectarPeers(i) PROVE [L!Next]_(L!vars)
    <3>1. Respostas' = Respostas /\ blocos' = blocos
      BY <2>2, SolicitacoesSemResposta DEF ConectarPeers, Respostas
    <3> QED
      BY <3>1 DEF ChainsEmTransito, L!vars
  <2>3. CASE UNCHANGED <<blocos, rede>>
    BY <2>3 DEF Respostas, ChainsEmTransito, L!vars
  <2> QED
    BY <1>4, <2>1, <2>2, <2>3 DEF Ambiente, RecargaAutomatica, RemoverConexao,
       ManterConexaoPeer
<1>5. CASE UNCHANGED vars
  BY <1>5 DEF vars, Respostas, ChainsEmTransito, L!vars
<1> QED
  BY <1>1, <1>2, <1>3, <1>4, <1>5 DEF Next, Progresso

(* The consensus implements the replicated ledger: for any brokers, any    *)
(* proposals, any forger and any lost connection, a chain only grows by    *)
(* fitting unaltered blocks or becomes a better chain that was really held *)
(* (CommitarBloco, handleReqChain, SubstituirChain).                       *)
THEOREM ConsensoImplementaLivro == Spec => ImplementaLivro
<1>1. Init => L!Init
  BY DEF Init, L!Init, Respostas, ChainsEmTransito
<1>2. TypeOK /\ [Next]_vars => [L!Next]_(L!vars)
  BY PassoDoLivro
<1> QED
  BY <1>1, <1>2, TypeCorrect, PTL DEF Spec, ImplementaLivro, L!Spec

=============================================================================
