---------------------------- MODULE VotosProofs ----------------------------
(***************************************************************************)
(* Proofs about the votes of Consenso for every value of its constants:    *)
(* no acceptance is counted twice, a block is committed by a majority, two *)
(* sides of a fork share a voter, and an altered block is nobody's but its *)
(* author's.  They rest on one inductive invariant, VotosInv.              *)
(***************************************************************************)
EXTENDS ConsensoProofs

(* A block somebody is still handling: pending, held by a goroutine, or on *)
(* its way to a voter.                                                     *)
Circula(b) ==
    \/ \E i \in Brokers : b \in blocosPendentes[i]
    \/ \E i \in Brokers : \E t \in tarefas[i] : t.bloco = b
    \/ \E m \in rede : m.tipo = "NOVO_BLOCO" /\ m.bloco = b

(* The three places where a broker's vote on a block is still to be given. *)
NovoPara(j, b) == \E m \in rede : m.tipo = "NOVO_BLOCO" /\ m.para = j /\ m.bloco = b
Auditando(j, b) == \E t \in tarefas[j] : t.op = "auditar" /\ t.bloco = b
Votando(j, b) == \E t \in tarefas[j] : t.op = "votar" /\ t.bloco = b
Chamado(j, b) == NovoPara(j, b) \/ Auditando(j, b) \/ Votando(j, b)

(* The brokers whose vote for h is on its way to i. *)
Avisos(i, h) == {v \in Brokers : Aceite(v, i, h) \in rede}

(* Chain.ProporBloco's hash names one block. *)
BlocosUnicos ==
    \A b, c \in Bloco : Circula(b) =>
        /\ b.hash \in usados
        /\ Circula(c) /\ c.hash = b.hash => c = b

(* Nobody accepts a block its author has not sent, nor a hash not in use. *)
NinguemAntesDoAutor ==
    /\ \A i \in Brokers : \A t \in tarefas[i] :
          t.op = "propagar" => t.bloco.autor = i /\ aceitou[t.bloco.hash] = {}
    /\ \A h \in Hashes \ usados : aceitou[h] = {}

(* A broker is asked for its vote on a block by one message or goroutine,  *)
(* after the author's vote and before its own.                             *)
UmVotoPorBroker ==
    /\ \A j \in Brokers, b \in Bloco : Chamado(j, b) =>
          b.autor \in aceitou[b.hash] /\ j \notin aceitou[b.hash]
    /\ \A m, n \in rede : /\ m.tipo = "NOVO_BLOCO" /\ n.tipo = "NOVO_BLOCO"
                          /\ m.para = n.para /\ m.bloco = n.bloco
                          => m = n
    /\ \A j \in Brokers, b \in Bloco :
          /\ ~ (NovoPara(j, b) /\ Auditando(j, b))
          /\ ~ (NovoPara(j, b) /\ Votando(j, b))
          /\ ~ (Auditando(j, b) /\ Votando(j, b))

(* An ACEITE_BLOCO tells of a real acceptance, by somebody other than the  *)
(* author, to somebody else.                                               *)
AvisosReais ==
    \A m \in rede : m.tipo = "ACEITE_BLOCO" =>
        /\ m.de \in aceitou[m.hash]
        /\ m.de # m.para
        /\ \A b \in Bloco : Circula(b) /\ b.hash = m.hash => m.de # b.autor

(* Votes counted and votes on their way are distinct acceptances. *)
Contagem ==
    \A i \in Brokers, h \in Hashes :
        votosBloco[i][h] + Cardinality(Avisos(i, h)) <= Cardinality(aceitou[h])

(* An altered block has its author's vote alone: whoever holds a block     *)
(* pending accepted it, and nobody votes on a block that fails the audit.  *)
SoOAutorVotaAdulterado ==
    /\ \A b \in Bloco : Circula(b) /\ ~ b.integro => aceitou[b.hash] \subseteq {b.autor}
    /\ \A i \in Brokers : \A b \in blocosPendentes[i] : i \in aceitou[b.hash]
    /\ \A j \in Brokers, b \in Bloco : Auditando(j, b) \/ Votando(j, b) => b.integro

(* No broker is connected to itself. *)
SemLaco == \A i \in Brokers : i \notin connBrokers[i]

PedidosInv ==
    /\ BlocosUnicos
    /\ NinguemAntesDoAutor
    /\ UmVotoPorBroker
    /\ AvisosReais
    /\ SoOAutorVotaAdulterado
    /\ SemLaco

VotosInv == PedidosInv /\ Contagem

-----------------------------------------------------------------------------
(* A step that asks for no vote and gives none: blocks only move to a      *)
(* later goroutine of their holder, or are forgotten.                      *)
SoEncaminha ==
    /\ usados' = usados /\ aceitou' = aceitou
    /\ \A i \in Brokers : blocosPendentes'[i] \subseteq blocosPendentes[i]
    /\ \A i \in Brokers : \A t \in tarefas'[i] :
          t \in tarefas[i] \/ (t.op \in {"commitar", "anexar", "aplicar"} /\ Circula(t.bloco))
    /\ \A m \in rede' : m.tipo \in {"NOVO_BLOCO", "ACEITE_BLOCO"} => m \in rede
    /\ SemLaco'

LEMMA PedidosAoEncaminhar ==
  ASSUME PedidosInv, SoEncaminha
  PROVE  PedidosInv'
<1>1. ASSUME NEW b, Circula(b)' PROVE Circula(b)
  <2>1. CASE \E i \in Brokers : b \in blocosPendentes'[i]
    BY <2>1 DEF SoEncaminha, Circula
  <2>2. CASE \E i \in Brokers : \E t \in tarefas'[i] : t.bloco = b
    BY <2>2 DEF SoEncaminha, Circula
  <2>3. CASE \E m \in rede' : m.tipo = "NOVO_BLOCO" /\ m.bloco = b
    BY <2>3 DEF SoEncaminha, Circula
  <2> QED
    BY <1>1, <2>1, <2>2, <2>3 DEF Circula
<1>2. ASSUME NEW j \in Brokers, NEW b
      PROVE  /\ NovoPara(j, b)' => NovoPara(j, b)
             /\ Auditando(j, b)' => Auditando(j, b)
             /\ Votando(j, b)' => Votando(j, b)
  BY DEF SoEncaminha, NovoPara, Auditando, Votando
<1>3. BlocosUnicos'
  BY <1>1 DEF PedidosInv, BlocosUnicos, SoEncaminha
<1>4. NinguemAntesDoAutor'
  BY DEF PedidosInv, NinguemAntesDoAutor, SoEncaminha
<1>5. UmVotoPorBroker'
  BY <1>2 DEF PedidosInv, UmVotoPorBroker, Chamado, SoEncaminha
<1>6. AvisosReais'
  BY <1>1 DEF PedidosInv, AvisosReais, SoEncaminha
<1>7. SoOAutorVotaAdulterado'
  BY <1>1, <1>2 DEF PedidosInv, SoOAutorVotaAdulterado, SoEncaminha
<1> QED
  BY <1>3, <1>4, <1>5, <1>6, <1>7 DEF PedidosInv, SoEncaminha

(* The handlers that only pass a block on, or concern no block. *)
LEMMA EncaminhaAoReceber ==
  ASSUME TypeOK, SemLaco, NEW m \in rede, Receber(m), ~ AuditarHash(m)
  PROVE  SoEncaminha
<1> USE DEF chainVars, votoVars, propVars, redeVars
<1>1. CASE DetectarFork(m)
  <2>1. \A n \in Solicitacoes(m.para, m.bloco.hash) : n.tipo = "REQ_BLOCKCHAIN"
    BY DEF Solicitacoes, ReqChain
  <2> QED
    BY <1>1, <2>1 DEF DetectarFork, SoEncaminha, SemLaco
<1>2. CASE HandleAceiteBloco(m)
  <2>1. m.para \in Brokers
    BY <1>2, TipoDeAceite DEF HandleAceiteBloco, TypeOK
  <2> DEFINE C == {Tarefa("commitar", p) : p \in {q \in blocosPendentes[m.para] :
                     q.hash = m.hash /\ AtingeQuorum(m.para, votosBloco[m.para][m.hash] + 1)}}
  <2>2. \A t \in C : t.op = "commitar" /\ t.bloco \in blocosPendentes[m.para]
    BY DEF Tarefa
  <2>3. tarefas' = [tarefas EXCEPT ![m.para] = @ \cup C]
    BY <1>2 DEF HandleAceiteBloco
  <2> HIDE DEF C
  <2>4. ASSUME NEW j \in Brokers, NEW t \in tarefas'[j]
        PROVE  t \in tarefas[j] \/ (t.op = "commitar" /\ Circula(t.bloco))
    BY <2>1, <2>2, <2>3 DEF TypeOK, Circula
  <2> QED
    BY <1>2, <2>4 DEF HandleAceiteBloco, SoEncaminha, SemLaco
<1>3. CASE HandleReqChain(m)
  BY <1>3 DEF HandleReqChain, SoEncaminha, SemLaco, RespChain
<1>4. CASE HandleRespChain(m)
  BY <1>4 DEF HandleRespChain, SoEncaminha, SemLaco
<1> QED
  BY <1>1, <1>2, <1>3, <1>4 DEF Receber

(* The goroutines that only pass a block on, or concern no vote. *)
LEMMA EncaminhaAoContinuar ==
  ASSUME TypeOK, SemLaco, NEW i \in Brokers, NEW t \in tarefas[i], Continuar(i, t),
         ~ PropagarBloco(i, t), ~ AuditarTransacao(i, t), ~ VotarBloco(i, t)
  PROVE  SoEncaminha
<1> USE DEF chainVars, votoVars, propVars, redeVars
<1>0. Circula(t.bloco)
  BY DEF Circula
<1>1. CASE PerderDesempate(i, t)
  BY <1>1 DEF PerderDesempate, SoEncaminha, SemLaco, TypeOK
<1>2. ASSUME NEW op \in {"anexar", "aplicar"},
             \E T \in {{}, {Tarefa(op, t.bloco)}} :
                tarefas' = [tarefas EXCEPT ![i] = (@ \ {t}) \cup T],
             \A k \in Brokers : blocosPendentes'[k] \subseteq blocosPendentes[k],
             UNCHANGED <<usados, aceitou, rede, connBrokers>>
      PROVE  SoEncaminha
  <2> DEFINE u == Tarefa(op, t.bloco)
  <2>1. u.op = op /\ u.bloco = t.bloco
    BY DEF Tarefa
  <2> HIDE DEF u
  <2>2. ASSUME NEW j \in Brokers, NEW v \in tarefas'[j]
        PROVE  v \in tarefas[j] \/ v = u
    <3>1. PICK T \in {{}, {u}} : tarefas' = [tarefas EXCEPT ![i] = (@ \ {t}) \cup T]
      BY <1>2 DEF u
    <3> QED
      BY <3>1 DEF TypeOK
  <2>3. u.op \in {"commitar", "anexar", "aplicar"} /\ Circula(u.bloco)
    BY <1>0, <2>1
  <2> QED
    BY <1>2, <2>2, <2>3 DEF SoEncaminha, SemLaco
<1>3. CASE ReivindicarBloco(i, t)
  <2>1. blocosPendentes' \in {blocosPendentes, [blocosPendentes EXCEPT ![i] = @ \ {t.bloco}]}
    BY <1>3 DEF ReivindicarBloco
  <2>2. \A k \in Brokers : blocosPendentes'[k] \subseteq blocosPendentes[k]
    BY <2>1 DEF TypeOK
  <2>3. \E T \in {{}, {Tarefa("anexar", t.bloco)}} :
           tarefas' = [tarefas EXCEPT ![i] = (@ \ {t}) \cup T]
    BY <1>3 DEF ReivindicarBloco
  <2> QED
    BY <1>2, <1>3, <2>2, <2>3 DEF ReivindicarBloco
<1>4. CASE AnexarBloco(i, t)
  <2>1. \E T \in {{}, {Tarefa("aplicar", t.bloco)}} :
           tarefas' = [tarefas EXCEPT ![i] = (@ \ {t}) \cup T]
    BY <1>4 DEF AnexarBloco
  <2> QED
    BY <1>2, <1>4, <2>1 DEF AnexarBloco
<1>5. CASE AplicarTransacao(i, t)
  <2>1. tarefas' = [tarefas EXCEPT ![i] = (@ \ {t}) \cup {}]
    BY <1>5 DEF AplicarTransacao
  <2> QED
    BY <1>2, <1>5, <2>1 DEF AplicarTransacao
<1> QED
  BY <1>1, <1>3, <1>4, <1>5 DEF Continuar

LEMMA EncaminhaAoEsperar ==
  ASSUME TypeOK, SemLaco, NEW d \in Demandas, EsperarConsenso(d) \/ TimeoutConsenso(d)
  PROVE  SoEncaminha
<1> USE DEF chainVars, votoVars, propVars, redeVars
<1>1. CASE EsperarConsenso(d)
  BY <1>1 DEF EsperarConsenso, SoEncaminha, SemLaco
<1>2. CASE TimeoutConsenso(d)
  BY <1>2 DEF TimeoutConsenso, SoEncaminha, SemLaco, TypeOK
<1> QED
  BY <1>1, <1>2

(* A broker never dials itself (ManterConexaoPeer), and no other step of   *)
(* the environment concerns a vote.                                        *)
LEMMA EncaminhaNoAmbiente ==
  ASSUME TypeOK, SemLaco, Ambiente
  PROVE  SoEncaminha
<1> USE DEF chainVars, votoVars, propVars, redeVars
<1>1. ASSUME NEW d \in Demandas, RecargaAutomatica(d) PROVE SoEncaminha
  BY <1>1 DEF RecargaAutomatica, SoEncaminha, SemLaco
<1>2. ASSUME NEW i \in Brokers, ConectarPeers(i) PROVE SoEncaminha
  <2>1. \A n \in Solicitacoes(i, HashGenesis) : n.tipo = "REQ_BLOCKCHAIN"
    BY DEF Solicitacoes, ReqChain
  <2> QED
    BY <1>2, <2>1 DEF ConectarPeers, SoEncaminha, SemLaco
<1>3. ASSUME NEW i \in Brokers, NEW j \in Brokers, RemoverConexao(i, j) PROVE SoEncaminha
  BY <1>3 DEF RemoverConexao, SoEncaminha, SemLaco, TypeOK
<1>4. ASSUME NEW m \in rede, PerderMensagem(m) PROVE SoEncaminha
  BY <1>4 DEF PerderMensagem, SoEncaminha, SemLaco
<1>5. ASSUME NEW i \in Brokers, NEW j \in Brokers, ManterConexaoPeer(i, j) PROVE SoEncaminha
  <2>1. SemLaco'
    BY <1>5 DEF ManterConexaoPeer, SemLaco, TypeOK
  <2> QED
    BY <1>5, <2>1 DEF ManterConexaoPeer, SoEncaminha
<1> QED
  BY <1>1, <1>2, <1>3, <1>4, <1>5 DEF Ambiente

-----------------------------------------------------------------------------
(* A block built by i, honest or not, bears i's name and the new hash. *)
LEMMA BlocoPossivelTemAutor ==
  ASSUME NEW i, NEW dados, NEW h, NEW b \in BlocosPossiveis(i, dados, h)
  PROVE  b.hash = h /\ b.autor = i
<1>1. \A a, x, ok : Montado(i, h, a, x, ok).hash = h /\ Montado(i, h, a, x, ok).autor = i
  BY DEF Montado
<1>2. \E a, x, ok : b = Montado(i, h, a, x, ok)
  <2>1. CASE i \notin Maliciosos
    <3>1. BlocosPossiveis(i, dados, h) = {Montado(i, h, Ponta(blocos[i]), dados, TRUE)}
      BY <2>1 DEF BlocosPossiveis
    <3> QED
      BY <3>1, Zenon
  <2>2. CASE i \in Maliciosos
    <3> DEFINE Salami(c, o) ==
                 Montado(i, h, Ponta(blocos[i]), [tipo |-> "RENOVA", conta |-> c, oc |-> o], TRUE)
               Fork == Montado(i, h, Deadbeef, dados, FALSE)
               Falso == Montado(i, h, Ponta(blocos[i]), dados, FALSE)
    <3>1. BlocosPossiveis(i, dados, h) =
            {Salami(c, o) : c \in Contas, o \in Ocorrencias} \cup {Fork, Falso}
      BY <2>2 DEF BlocosPossiveis
    <3>2. CASE \E c \in Contas, o \in Ocorrencias : b = Salami(c, o)
      BY <3>2, Zenon
    <3>3. CASE b = Fork \/ b = Falso
      BY <3>3, Zenon
    <3> HIDE DEF Salami, Fork, Falso
    <3> QED
      BY <3>1, <3>2, <3>3
  <2> QED
    BY <2>1, <2>2
<1> QED
  BY <1>1, <1>2

(* Whoever is asked for a vote is asked about a block that circulates. *)
LEMMA ChamadoCircula ==
  ASSUME NEW j \in Brokers, NEW b, Chamado(j, b)
  PROVE  Circula(b)
BY DEF Chamado, NovoPara, Auditando, Votando, Circula

(* A new block has a hash nobody has seen. *)
LEMMA PedidosAoMontar ==
  ASSUME TypeOK, PedidosInv, NEW d \in Demandas, MontarBloco(d)
  PROVE  PedidosInv'
<1> USE DEF chainVars, votoVars, propVars, redeVars
<1>d. d.broker \in Brokers /\ d.dados \in Dados
  BY DemandasAssumption
<1> DEFINE i == d.broker
<1>1. PICK h \in Hashes \ usados : \E b \in BlocosPossiveis(i, d.dados, h) :
          /\ usados' = usados \cup {h}
          /\ tarefas' = [tarefas EXCEPT ![i] = @ \cup {Tarefa("propagar", b)}]
  BY DEF MontarBloco
<1>2. PICK b \in BlocosPossiveis(i, d.dados, h) :
          /\ usados' = usados \cup {h}
          /\ tarefas' = [tarefas EXCEPT ![i] = @ \cup {Tarefa("propagar", b)}]
  BY <1>1
<1>3. b \in Bloco /\ b.hash = h /\ b.autor = i
  BY <1>d, BlocoPossivelEhBloco, BlocoPossivelTemAutor
<1> DEFINE u == Tarefa("propagar", b)
<1>4. u.op = "propagar" /\ u.bloco = b
  BY DEF Tarefa
<1>5. tarefas' = [tarefas EXCEPT ![i] = @ \cup {u}]
  BY <1>2
<1> HIDE DEF u, i
<1>6. /\ aceitou' = aceitou /\ rede' = rede /\ blocosPendentes' = blocosPendentes
      /\ connBrokers' = connBrokers
  BY DEF MontarBloco
<1>7. ASSUME NEW j \in Brokers, NEW t \in tarefas'[j]
      PROVE  t \in tarefas[j] \/ (t = u /\ j = i)
  BY <1>5, <1>d DEF TypeOK, i
<1>8. ASSUME NEW c, Circula(c)' PROVE Circula(c) \/ c = b
  BY <1>4, <1>6, <1>7, <1>8 DEF Circula
<1>9. ~ \E c \in Bloco : Circula(c) /\ c.hash = h
  BY <1>1 DEF PedidosInv, BlocosUnicos
<1>10. ASSUME NEW j \in Brokers, NEW c
       PROVE  /\ NovoPara(j, c)' => NovoPara(j, c)
              /\ Auditando(j, c)' => Auditando(j, c)
              /\ Votando(j, c)' => Votando(j, c)
  BY <1>4, <1>6, <1>7 DEF NovoPara, Auditando, Votando
<1>11. BlocosUnicos'
  BY <1>2, <1>3, <1>8, <1>9 DEF PedidosInv, BlocosUnicos
<1>12. aceitou[h] = {}
  BY <1>1 DEF PedidosInv, NinguemAntesDoAutor
<1>13. NinguemAntesDoAutor'
  BY <1>2, <1>3, <1>4, <1>6, <1>7, <1>12 DEF PedidosInv, NinguemAntesDoAutor
<1>14. UmVotoPorBroker'
  BY <1>6, <1>10 DEF PedidosInv, UmVotoPorBroker, Chamado
<1>15. AvisosReais'
  <2> SUFFICES ASSUME NEW m \in rede, m.tipo = "ACEITE_BLOCO"
               PROVE  /\ m.de \in aceitou[m.hash]
                      /\ m.de # m.para
                      /\ \A c \in Bloco : Circula(c)' /\ c.hash = m.hash => m.de # c.autor
    BY <1>6 DEF AvisosReais
  <2> QED
    BY <1>3, <1>8, <1>12 DEF PedidosInv, AvisosReais
<1>16. SoOAutorVotaAdulterado'
  BY <1>3, <1>6, <1>8, <1>10, <1>12 DEF PedidosInv, SoOAutorVotaAdulterado
<1>17. SemLaco'
  BY <1>6 DEF PedidosInv, SemLaco
<1> QED
  BY <1>11, <1>13, <1>14, <1>15, <1>16, <1>17 DEF PedidosInv

(* The audit of the hash turns the message into a goroutine, for a block   *)
(* whose hash is that of its contents.                                     *)
LEMMA PedidosAoAuditarHash ==
  ASSUME TypeOK, PedidosInv, NEW m \in rede, AuditarHash(m)
  PROVE  PedidosInv'
<1> USE DEF chainVars, votoVars, propVars, redeVars
<1> DEFINE i == m.para
           b == m.bloco
<1>1. m.tipo = "NOVO_BLOCO" /\ i \in Brokers /\ b \in Bloco
  BY TipoDeNovo DEF AuditarHash, TypeOK
<1>2. /\ aceitou' = aceitou /\ usados' = usados /\ blocosPendentes' = blocosPendentes
      /\ connBrokers' = connBrokers /\ rede' = rede \ {m}
  BY DEF AuditarHash
<1>3. NovoPara(i, b) /\ Chamado(i, b) /\ Circula(b)
  BY <1>1 DEF NovoPara, Chamado, Circula
<1>4. ~ NovoPara(i, b)' /\ ~ Auditando(i, b) /\ ~ Votando(i, b)
  <2>1. ~ NovoPara(i, b)'
    BY <1>1, <1>2 DEF PedidosInv, UmVotoPorBroker, NovoPara
  <2> QED
    BY <1>1, <1>3, <2>1 DEF PedidosInv, UmVotoPorBroker
<1>5. PICK T : /\ tarefas' = [tarefas EXCEPT ![i] = @ \cup T]
               /\ T = {} \/ (HashConfere(b) /\ \E op \in {"auditar", "votar"} :
                               T = {Tarefa(op, b)})
  BY DEF AuditarHash
<1>6. /\ \A t \in T : t.op \in {"auditar", "votar"} /\ t.bloco = b /\ b.integro
      /\ \A t, v \in T : t = v
  BY <1>5 DEF Tarefa, HashConfere
<1>7. ASSUME NEW j \in Brokers, NEW t \in tarefas'[j]
      PROVE  t \in tarefas[j] \/ (t \in T /\ j = i)
  <2>1. tarefas' = [tarefas EXCEPT ![i] = @ \cup T]
    BY <1>5
  <2> HIDE DEF i
  <2> QED
    BY <1>1, <2>1 DEF TypeOK
<1> HIDE DEF i, b
<1>8. ASSUME NEW c, Circula(c)' PROVE Circula(c)
  BY <1>2, <1>3, <1>6, <1>7, <1>8 DEF Circula
<1>9. ASSUME NEW j \in Brokers, NEW c, ~ (j = i /\ c = b)
      PROVE  /\ NovoPara(j, c)' => NovoPara(j, c)
             /\ Auditando(j, c)' => Auditando(j, c)
             /\ Votando(j, c)' => Votando(j, c)
  BY <1>2, <1>6, <1>7, <1>9 DEF NovoPara, Auditando, Votando
<1>10. ASSUME NEW j \in Brokers, NEW c, Chamado(j, c)'
       PROVE  Chamado(j, c)
  BY <1>3, <1>9, <1>10 DEF Chamado
<1>11. ~ (Auditando(i, b)' /\ Votando(i, b)')
  BY <1>1, <1>4, <1>6, <1>7 DEF Auditando, Votando
<1>12. BlocosUnicos'
  BY <1>2, <1>8 DEF PedidosInv, BlocosUnicos
<1>13. NinguemAntesDoAutor'
  BY <1>2, <1>6, <1>7 DEF PedidosInv, NinguemAntesDoAutor
<1>14. UmVotoPorBroker'
  <2>1. \A j \in Brokers, c \in Bloco : Chamado(j, c)' =>
          c.autor \in aceitou[c.hash] /\ j \notin aceitou[c.hash]
    BY <1>10 DEF PedidosInv, UmVotoPorBroker
  <2>2. ASSUME NEW j \in Brokers, NEW c \in Bloco
        PROVE  /\ ~ (NovoPara(j, c)' /\ Auditando(j, c)')
               /\ ~ (NovoPara(j, c)' /\ Votando(j, c)')
               /\ ~ (Auditando(j, c)' /\ Votando(j, c)')
    <3>1. CASE j = i /\ c = b
      BY <1>4, <1>11, <3>1
    <3>2. CASE ~ (j = i /\ c = b)
      BY <1>9, <3>2 DEF PedidosInv, UmVotoPorBroker
    <3> QED
      BY <3>1, <3>2
  <2> QED
    BY <1>2, <2>1, <2>2 DEF PedidosInv, UmVotoPorBroker
<1>15. AvisosReais'
  BY <1>2, <1>8 DEF PedidosInv, AvisosReais
<1>16. SoOAutorVotaAdulterado'
  <2>1. ASSUME NEW j \in Brokers, NEW c \in Bloco, Auditando(j, c)' \/ Votando(j, c)'
        PROVE  c.integro
    <3>1. CASE j = i /\ c = b
      BY <1>1, <1>4, <1>6, <1>7, <2>1, <3>1 DEF Auditando, Votando
    <3>2. CASE ~ (j = i /\ c = b)
      BY <1>9, <2>1, <3>2 DEF PedidosInv, SoOAutorVotaAdulterado
    <3> QED
      BY <3>1, <3>2
  <2> QED
    BY <1>2, <1>8, <2>1 DEF PedidosInv, SoOAutorVotaAdulterado
<1>17. SemLaco'
  BY <1>2 DEF PedidosInv, SemLaco
<1> QED
  BY <1>12, <1>13, <1>14, <1>15, <1>16, <1>17 DEF PedidosInv

(* A goroutine is its step and its block. *)
LEMMA TarefaEhPar ==
  ASSUME NEW t \in [op : Passos, bloco : Bloco], NEW u \in [op : Passos, bloco : Bloco],
         t.op = u.op, t.bloco = u.bloco
  PROVE  t = u
OBVIOUS

(* The financial audit turns one goroutine into another, or ends it. *)
LEMMA PedidosAoAuditar ==
  ASSUME TypeOK, PedidosInv, NEW i \in Brokers, NEW t \in tarefas[i], AuditarTransacao(i, t)
  PROVE  PedidosInv'
<1> USE DEF chainVars, votoVars, propVars, redeVars
<1> DEFINE b == t.bloco
<1>1. t \in [op : Passos, bloco : Bloco] /\ t.op = "auditar" /\ b \in Bloco
  BY DEF AuditarTransacao, TypeOK
<1>2. /\ aceitou' = aceitou /\ usados' = usados /\ blocosPendentes' = blocosPendentes
      /\ connBrokers' = connBrokers /\ rede' = rede
  BY DEF AuditarTransacao
<1>3. Auditando(i, b) /\ Chamado(i, b) /\ Circula(b)
  BY <1>1 DEF Auditando, Chamado, Circula
<1> DEFINE u == Tarefa("votar", b)
<1>4. u.op = "votar" /\ u.bloco = b
  BY DEF Tarefa
<1> HIDE DEF u
<1>5. ASSUME NEW j \in Brokers, NEW v \in tarefas'[j]
      PROVE  (v \in tarefas[j] /\ ~ (j = i /\ v = t)) \/ (v = u /\ j = i)
  BY <1>1 DEF AuditarTransacao, TypeOK, u
<1>6. ~ NovoPara(i, b)' /\ ~ Auditando(i, b)'
  <2>1. ~ NovoPara(i, b)'
    BY <1>1, <1>2, <1>3 DEF PedidosInv, UmVotoPorBroker, NovoPara
  <2>2. ASSUME NEW v \in tarefas'[i], v.op = "auditar", v.bloco = b PROVE FALSE
    <3>1. v \in tarefas[i] /\ v # t
      BY <1>4, <1>5, <2>2
    <3>2. v \in [op : Passos, bloco : Bloco]
      BY <3>1 DEF TypeOK
    <3> QED
      BY <1>1, <2>2, <3>1, <3>2, TarefaEhPar
  <2> QED
    BY <2>1, <2>2 DEF Auditando
<1>7. b.integro
  BY <1>1, <1>3 DEF PedidosInv, SoOAutorVotaAdulterado
<1> HIDE DEF b
<1>8. ASSUME NEW c, Circula(c)' PROVE Circula(c)
  BY <1>2, <1>3, <1>4, <1>5, <1>8 DEF Circula
<1>9. ASSUME NEW j \in Brokers, NEW c, ~ (j = i /\ c = b)
      PROVE  /\ NovoPara(j, c)' => NovoPara(j, c)
             /\ Auditando(j, c)' => Auditando(j, c)
             /\ Votando(j, c)' => Votando(j, c)
  BY <1>2, <1>4, <1>5, <1>9 DEF NovoPara, Auditando, Votando
<1>10. ASSUME NEW j \in Brokers, NEW c, Chamado(j, c)'
       PROVE  Chamado(j, c)
  BY <1>3, <1>9, <1>10 DEF Chamado
<1>12. BlocosUnicos'
  BY <1>2, <1>8 DEF PedidosInv, BlocosUnicos
<1>13. NinguemAntesDoAutor'
  BY <1>2, <1>4, <1>5 DEF PedidosInv, NinguemAntesDoAutor
<1>14. UmVotoPorBroker'
  <2>1. \A j \in Brokers, c \in Bloco : Chamado(j, c)' =>
          c.autor \in aceitou[c.hash] /\ j \notin aceitou[c.hash]
    BY <1>10 DEF PedidosInv, UmVotoPorBroker
  <2>2. ASSUME NEW j \in Brokers, NEW c \in Bloco
        PROVE  /\ ~ (NovoPara(j, c)' /\ Auditando(j, c)')
               /\ ~ (NovoPara(j, c)' /\ Votando(j, c)')
               /\ ~ (Auditando(j, c)' /\ Votando(j, c)')
    <3>1. CASE j = i /\ c = b
      BY <1>6, <3>1
    <3>2. CASE ~ (j = i /\ c = b)
      BY <1>9, <3>2 DEF PedidosInv, UmVotoPorBroker
    <3> QED
      BY <3>1, <3>2
  <2> QED
    BY <1>2, <2>1, <2>2 DEF PedidosInv, UmVotoPorBroker
<1>15. AvisosReais'
  BY <1>2, <1>8 DEF PedidosInv, AvisosReais
<1>16. SoOAutorVotaAdulterado'
  <2>1. ASSUME NEW j \in Brokers, NEW c \in Bloco, Auditando(j, c)' \/ Votando(j, c)'
        PROVE  c.integro
    BY <1>7, <1>9, <2>1 DEF PedidosInv, SoOAutorVotaAdulterado
  <2> QED
    BY <1>2, <1>8, <2>1 DEF PedidosInv, SoOAutorVotaAdulterado
<1>17. SemLaco'
  BY <1>2 DEF PedidosInv, SemLaco
<1> QED
  BY <1>12, <1>13, <1>14, <1>15, <1>16, <1>17 DEF PedidosInv

(* Two circulating blocks with one hash are one block. *)
LEMMA MesmoHashMesmoBloco ==
  ASSUME PedidosInv, NEW b \in Bloco, NEW c \in Bloco, Circula(b), Circula(c),
         b.hash = c.hash
  PROVE  b = c
BY DEF PedidosInv, BlocosUnicos

(* The author registers its block and asks every peer for its vote, once. *)
LEMMA PedidosAoPropagar ==
  ASSUME TypeOK, PedidosInv, NEW i \in Brokers, NEW t \in tarefas[i], PropagarBloco(i, t)
  PROVE  PedidosInv'
<1> USE DEF chainVars, votoVars, propVars, redeVars
<1> DEFINE b == t.bloco
<1>1. /\ t \in [op : Passos, bloco : Bloco] /\ t.op = "propagar"
      /\ b \in Bloco /\ b.hash \in Hashes
  BY DEF PropagarBloco, TypeOK, Bloco
<1>2. b.autor = i /\ aceitou[b.hash] = {} /\ Circula(b) /\ b.hash \in usados
  BY <1>1 DEF PedidosInv, NinguemAntesDoAutor, BlocosUnicos, Circula
<1> DEFINE u == Tarefa("commitar", b)
           N == {Novo(i, j, b) : j \in connBrokers[i]}
<1>3. /\ u.op = "commitar" /\ u.bloco = b
      /\ \A m \in N : /\ m.tipo = "NOVO_BLOCO" /\ m.bloco = b
                      /\ m.para \in connBrokers[i] /\ m = Novo(i, m.para, b)
  BY DEF Tarefa, Novo
<1>4. /\ rede' = rede \cup N
      /\ usados' = usados /\ connBrokers' = connBrokers
      /\ aceitou' = [aceitou EXCEPT ![b.hash] = @ \cup {i}]
      /\ blocosPendentes' = [blocosPendentes EXCEPT ![i] = @ \cup {b}]
  BY DEF PropagarBloco
<1> HIDE DEF N, u
<1>5. ASSUME NEW j \in Brokers, NEW v \in tarefas'[j]
      PROVE  (v \in tarefas[j] /\ ~ (j = i /\ v = t)) \/ (v = u /\ j = i)
  BY <1>1 DEF PropagarBloco, SoloDecide, TypeOK, u
<1>6. /\ aceitou'[b.hash] = {i}
      /\ \A h \in Hashes : h # b.hash => aceitou'[h] = aceitou[h]
  BY <1>1, <1>2, <1>4 DEF TypeOK
<1>7. ASSUME NEW j \in Brokers
      PROVE  /\ blocosPendentes'[j] \subseteq Bloco
             /\ \A c \in blocosPendentes'[j] : c \in blocosPendentes[j] \/ (c = b /\ j = i)
  BY <1>1, <1>4 DEF TypeOK
<1> HIDE DEF b
<1>8. ASSUME NEW c, Circula(c)' PROVE Circula(c)
  BY <1>2, <1>3, <1>4, <1>5, <1>7, <1>8 DEF Circula
<1>9. ASSUME NEW j \in Brokers, NEW c
      PROVE  /\ NovoPara(j, c)' => NovoPara(j, c) \/ (c = b /\ j \in connBrokers[i])
             /\ Auditando(j, c)' => Auditando(j, c)
             /\ Votando(j, c)' => Votando(j, c)
  BY <1>3, <1>4, <1>5 DEF NovoPara, Auditando, Votando
<1>10. \A j \in Brokers : ~ Chamado(j, b)
  BY <1>1, <1>2 DEF PedidosInv, UmVotoPorBroker, b
<1>11. ASSUME NEW c \in Bloco, Circula(c)
       PROVE  (c.hash = b.hash <=> c = b) /\ c.hash \in Hashes
  BY <1>1, <1>2, <1>11, MesmoHashMesmoBloco DEF Bloco, b
<1>12. BlocosUnicos'
  BY <1>4, <1>8 DEF PedidosInv, BlocosUnicos
<1>13. NinguemAntesDoAutor'
  <2>1. ASSUME NEW j \in Brokers, NEW v \in tarefas'[j], v.op = "propagar"
        PROVE  v.bloco.autor = j /\ aceitou'[v.bloco.hash] = {}
    <3>1. v \in tarefas[j] /\ ~ (j = i /\ v = t)
      BY <1>3, <1>5, <2>1
    <3>2. v \in [op : Passos, bloco : Bloco] /\ Circula(v.bloco)
      BY <3>1 DEF TypeOK, Circula
    <3>3. v.bloco.autor = j /\ aceitou[v.bloco.hash] = {}
      BY <2>1, <3>1 DEF PedidosInv, NinguemAntesDoAutor
    <3>4. v.bloco # b
      BY <1>1, <1>2, <2>1, <3>1, <3>2, <3>3, TarefaEhPar DEF b
    <3>5. v.bloco.hash # b.hash /\ v.bloco.hash \in Hashes
      BY <1>11, <3>2, <3>4
    <3> QED
      BY <1>6, <3>3, <3>5
  <2>2. \A h \in Hashes \ usados : aceitou'[h] = {}
    BY <1>2, <1>6 DEF PedidosInv, NinguemAntesDoAutor
  <2> QED
    BY <1>4, <2>1, <2>2 DEF NinguemAntesDoAutor
<1>14. UmVotoPorBroker'
  <2>1. ASSUME NEW j \in Brokers, NEW c \in Bloco, Chamado(j, c)'
        PROVE  c.autor \in aceitou'[c.hash] /\ j \notin aceitou'[c.hash]
    <3>1. CASE Chamado(j, c)
      <4>1. c.hash # b.hash /\ c.hash \in Hashes
        BY <1>10, <1>11, <3>1, ChamadoCircula
      <4>2. aceitou'[c.hash] = aceitou[c.hash]
        BY <1>6, <4>1
      <4> QED
        BY <3>1, <4>2 DEF PedidosInv, UmVotoPorBroker
    <3>2. CASE c = b /\ j \in connBrokers[i]
      BY <1>2, <1>6, <3>2 DEF PedidosInv, SemLaco
    <3> QED
      BY <1>9, <2>1, <3>1, <3>2 DEF Chamado
  <2>2. ASSUME NEW m \in rede', NEW n \in rede', m.tipo = "NOVO_BLOCO", n.tipo = "NOVO_BLOCO",
               m.para = n.para, m.bloco = n.bloco
        PROVE  m = n
    <3>1. ASSUME NEW k \in rede, k.tipo = "NOVO_BLOCO" PROVE k.bloco # b
      BY <1>10, <3>1, TipoDeNovo DEF Chamado, NovoPara, TypeOK
    <3>2. CASE m \in rede /\ n \in rede
      BY <2>2, <3>2 DEF PedidosInv, UmVotoPorBroker
    <3>3. CASE m \in N /\ n \in N
      BY <1>3, <2>2, <3>3
    <3> QED
      BY <1>3, <1>4, <2>2, <3>1, <3>2, <3>3
  <2>3. ASSUME NEW j \in Brokers, NEW c \in Bloco
        PROVE  /\ ~ (NovoPara(j, c)' /\ Auditando(j, c)')
               /\ ~ (NovoPara(j, c)' /\ Votando(j, c)')
               /\ ~ (Auditando(j, c)' /\ Votando(j, c)')
    BY <1>9, <1>10 DEF PedidosInv, UmVotoPorBroker, Chamado
  <2> QED
    BY <2>1, <2>2, <2>3 DEF UmVotoPorBroker
<1>15. AvisosReais'
  <2> SUFFICES ASSUME NEW m \in rede, m.tipo = "ACEITE_BLOCO"
               PROVE  /\ m.de \in aceitou'[m.hash]
                      /\ m.de # m.para
                      /\ \A c \in Bloco : Circula(c)' /\ c.hash = m.hash => m.de # c.autor
    BY <1>3, <1>4 DEF AvisosReais
  <2>1. m.hash \in Hashes
    BY TipoDeAceite DEF TypeOK
  <2> QED
    BY <1>2, <1>6, <1>8, <2>1 DEF PedidosInv, AvisosReais
<1>16. SoOAutorVotaAdulterado'
  <2>1. ASSUME NEW c \in Bloco, Circula(c)', ~ c.integro
        PROVE  aceitou'[c.hash] \subseteq {c.autor}
    BY <1>2, <1>6, <1>8, <1>11, <2>1 DEF PedidosInv, SoOAutorVotaAdulterado
  <2>2. ASSUME NEW j \in Brokers, NEW c \in blocosPendentes'[j]
        PROVE  j \in aceitou'[c.hash]
    <3>1. CASE c = b /\ j = i
      BY <1>6, <3>1
    <3>2. CASE c \in blocosPendentes[j]
      <4>1. j \in aceitou[c.hash] /\ c.hash \in Hashes
        BY <3>2 DEF PedidosInv, SoOAutorVotaAdulterado, TypeOK, Bloco
      <4> QED
        BY <1>2, <1>6, <4>1
    <3> QED
      BY <1>7, <3>1, <3>2
  <2> QED
    BY <1>9, <2>1, <2>2 DEF PedidosInv, SoOAutorVotaAdulterado
<1>17. SemLaco'
  BY <1>4 DEF PedidosInv, SemLaco
<1> QED
  BY <1>12, <1>13, <1>14, <1>15, <1>16, <1>17 DEF PedidosInv

(* A voter accepts a block it has not accepted before, whose author is     *)
(* another broker, and tells the others.                                   *)
LEMMA QuemVota ==
  ASSUME TypeOK, PedidosInv, NEW i \in Brokers, NEW t \in tarefas[i], t.op = "votar"
  PROVE  /\ t \in [op : Passos, bloco : Bloco]
         /\ t.bloco \in Bloco /\ t.bloco.hash \in Hashes /\ t.bloco.autor \in Brokers
         /\ Circula(t.bloco) /\ Votando(i, t.bloco) /\ t.bloco.integro
         /\ ~ NovoPara(i, t.bloco) /\ ~ Auditando(i, t.bloco)
         /\ t.bloco.autor \in aceitou[t.bloco.hash]
         /\ i \notin aceitou[t.bloco.hash]
<1>1. /\ t \in [op : Passos, bloco : Bloco]
      /\ t.bloco \in Bloco /\ t.bloco.hash \in Hashes /\ t.bloco.autor \in Brokers
  BY DEF TypeOK, Bloco
<1>2. Circula(t.bloco) /\ Votando(i, t.bloco) /\ Chamado(i, t.bloco)
  BY DEF Circula, Votando, Chamado
<1> QED
  BY <1>1, <1>2 DEF PedidosInv, UmVotoPorBroker, SoOAutorVotaAdulterado

LEMMA PedidosAoVotar ==
  ASSUME TypeOK, PedidosInv, NEW i \in Brokers, NEW t \in tarefas[i], VotarBloco(i, t)
  PROVE  PedidosInv'
<1> USE DEF chainVars, votoVars, propVars, redeVars
<1> DEFINE b == t.bloco
<1>0. t.op = "votar"
  BY DEF VotarBloco
<1>1. /\ t \in [op : Passos, bloco : Bloco]
      /\ b \in Bloco /\ b.hash \in Hashes /\ Circula(b) /\ Votando(i, b) /\ b.integro
      /\ ~ NovoPara(i, b) /\ ~ Auditando(i, b)
      /\ b.autor \in aceitou[b.hash] /\ i \notin aceitou[b.hash]
  BY <1>0, QuemVota
<1> DEFINE u == Tarefa("commitar", b)
           A == {Aceite(i, j, b.hash) : j \in connBrokers[i]}
<1>3. /\ u.op = "commitar" /\ u.bloco = b
      /\ \A m \in A : /\ m.tipo = "ACEITE_BLOCO" /\ m.hash = b.hash
                      /\ m.de = i /\ m.para \in connBrokers[i]
  BY DEF Tarefa, Aceite
<1>4. /\ rede' = rede \cup A
      /\ usados' = usados /\ connBrokers' = connBrokers
      /\ aceitou' = [aceitou EXCEPT ![b.hash] = @ \cup {i}]
      /\ blocosPendentes' = [blocosPendentes EXCEPT ![i] = (@ \ Maiores(i, b)) \cup {b}]
  BY DEF VotarBloco
<1> HIDE DEF A, u
<1>5. ASSUME NEW j \in Brokers, NEW v \in tarefas'[j]
      PROVE  (v \in tarefas[j] /\ ~ (j = i /\ v = t)) \/ (v = u /\ j = i)
  BY <1>1 DEF VotarBloco, TypeOK, u
<1>6. /\ aceitou'[b.hash] = aceitou[b.hash] \cup {i}
      /\ \A h \in Hashes : h # b.hash => aceitou'[h] = aceitou[h]
  BY <1>1, <1>4 DEF TypeOK
<1>7. ASSUME NEW j \in Brokers
      PROVE  /\ blocosPendentes'[j] \subseteq Bloco
             /\ \A c \in blocosPendentes'[j] : c \in blocosPendentes[j] \/ (c = b /\ j = i)
  BY <1>1, <1>4 DEF TypeOK
<1>2. ~ Votando(i, b)'
  <2>1. ASSUME NEW v \in tarefas'[i], v.op = "votar", v.bloco = b PROVE FALSE
    <3>1. v \in tarefas[i] /\ v # t
      BY <1>3, <1>5, <2>1
    <3>2. v \in [op : Passos, bloco : Bloco]
      BY <3>1 DEF TypeOK
    <3> QED
      BY <1>0, <1>1, <2>1, <3>1, <3>2, TarefaEhPar
  <2> QED
    BY <2>1 DEF Votando
<1> HIDE DEF b
<1>8. ASSUME NEW c, Circula(c)' PROVE Circula(c)
  BY <1>1, <1>3, <1>4, <1>5, <1>7, <1>8 DEF Circula
<1>9. ASSUME NEW j \in Brokers, NEW c
      PROVE  /\ NovoPara(j, c)' => NovoPara(j, c)
             /\ Auditando(j, c)' => Auditando(j, c)
             /\ Votando(j, c)' => Votando(j, c)
  BY <1>3, <1>4, <1>5 DEF NovoPara, Auditando, Votando
<1>10. ~ Chamado(i, b)'
  BY <1>1, <1>2, <1>9 DEF Chamado
<1>11. ASSUME NEW c \in Bloco, Circula(c)
       PROVE  (c.hash = b.hash <=> c = b) /\ c.hash \in Hashes
  BY <1>1, <1>11, MesmoHashMesmoBloco DEF Bloco
<1>12. BlocosUnicos'
  BY <1>4, <1>8 DEF PedidosInv, BlocosUnicos
<1>13. NinguemAntesDoAutor'
  <2>1. ASSUME NEW j \in Brokers, NEW v \in tarefas'[j], v.op = "propagar"
        PROVE  v.bloco.autor = j /\ aceitou'[v.bloco.hash] = {}
    <3>1. v \in tarefas[j]
      BY <1>3, <1>5, <2>1
    <3>2. v.bloco.hash \in Hashes
      BY <3>1 DEF TypeOK, Bloco
    <3>3. v.bloco.autor = j /\ aceitou[v.bloco.hash] = {}
      BY <2>1, <3>1 DEF PedidosInv, NinguemAntesDoAutor
    <3> QED
      BY <1>1, <1>6, <3>2, <3>3
  <2>2. b.hash \in usados
    BY <1>1 DEF PedidosInv, BlocosUnicos
  <2>3. \A h \in Hashes \ usados : aceitou'[h] = {}
    BY <1>6, <2>2 DEF PedidosInv, NinguemAntesDoAutor
  <2> QED
    BY <1>4, <2>1, <2>3 DEF NinguemAntesDoAutor
<1>14. UmVotoPorBroker'
  <2>1. ASSUME NEW j \in Brokers, NEW c \in Bloco, Chamado(j, c)'
        PROVE  c.autor \in aceitou'[c.hash] /\ j \notin aceitou'[c.hash]
    <3>1. Chamado(j, c) /\ ~ (j = i /\ c = b)
      BY <1>9, <1>10, <2>1 DEF Chamado
    <3>2. c.autor \in aceitou[c.hash] /\ j \notin aceitou[c.hash]
      BY <3>1 DEF PedidosInv, UmVotoPorBroker
    <3>3. c.hash \in Hashes /\ (c.hash = b.hash <=> c = b)
      BY <1>11, <3>1, ChamadoCircula
    <3>4. CASE c = b
      BY <1>6, <3>1, <3>2, <3>4
    <3>5. CASE c # b
      BY <1>6, <3>2, <3>3, <3>5
    <3> QED
      BY <3>4, <3>5
  <2>2. \A m, n \in rede' : /\ m.tipo = "NOVO_BLOCO" /\ n.tipo = "NOVO_BLOCO"
                            /\ m.para = n.para /\ m.bloco = n.bloco
                            => m = n
    BY <1>3, <1>4 DEF PedidosInv, UmVotoPorBroker
  <2>3. ASSUME NEW j \in Brokers, NEW c \in Bloco
        PROVE  /\ ~ (NovoPara(j, c)' /\ Auditando(j, c)')
               /\ ~ (NovoPara(j, c)' /\ Votando(j, c)')
               /\ ~ (Auditando(j, c)' /\ Votando(j, c)')
    BY <1>9 DEF PedidosInv, UmVotoPorBroker
  <2> QED
    BY <2>1, <2>2, <2>3 DEF UmVotoPorBroker
<1>15. AvisosReais'
  <2>1. ASSUME NEW m \in rede, m.tipo = "ACEITE_BLOCO"
        PROVE  /\ m.de \in aceitou'[m.hash]
               /\ m.de # m.para
               /\ \A c \in Bloco : Circula(c)' /\ c.hash = m.hash => m.de # c.autor
    <3>1. m.hash \in Hashes
      BY <2>1, TipoDeAceite DEF TypeOK
    <3> QED
      BY <1>6, <1>8, <2>1, <3>1 DEF PedidosInv, AvisosReais
  <2>2. ASSUME NEW m \in A
        PROVE  /\ m.de \in aceitou'[m.hash]
               /\ m.de # m.para
               /\ \A c \in Bloco : Circula(c)' /\ c.hash = m.hash => m.de # c.autor
    <3>1. i \notin connBrokers[i]
      BY DEF PedidosInv, SemLaco
    <3> QED
      BY <1>1, <1>3, <1>6, <1>8, <1>11, <3>1
  <2> QED
    BY <1>4, <2>1, <2>2 DEF AvisosReais
<1>16. SoOAutorVotaAdulterado'
  <2>1. ASSUME NEW c \in Bloco, Circula(c)', ~ c.integro
        PROVE  aceitou'[c.hash] \subseteq {c.autor}
    <3>1. c # b /\ Circula(c)
      BY <1>1, <1>8, <2>1
    <3>2. aceitou'[c.hash] = aceitou[c.hash]
      BY <1>6, <1>11, <3>1
    <3> QED
      BY <2>1, <3>1, <3>2 DEF PedidosInv, SoOAutorVotaAdulterado
  <2>2. ASSUME NEW j \in Brokers, NEW c \in blocosPendentes'[j]
        PROVE  j \in aceitou'[c.hash]
    <3>1. CASE c = b /\ j = i
      BY <1>6, <3>1
    <3>2. CASE c \in blocosPendentes[j]
      <4>1. j \in aceitou[c.hash] /\ c.hash \in Hashes
        BY <3>2 DEF PedidosInv, SoOAutorVotaAdulterado, TypeOK, Bloco
      <4> QED
        BY <1>6, <4>1
    <3> QED
      BY <1>7, <3>1, <3>2
  <2> QED
    BY <1>9, <2>1, <2>2 DEF PedidosInv, SoOAutorVotaAdulterado
<1>17. SemLaco'
  BY <1>4 DEF PedidosInv, SemLaco
<1> QED
  BY <1>12, <1>13, <1>14, <1>15, <1>16, <1>17 DEF PedidosInv

LEMMA PedidosNoInicio == Init => PedidosInv
<1> SUFFICES ASSUME Init PROVE PedidosInv
  OBVIOUS
<1>1. \A b : ~ Circula(b)
  BY DEF Init, Circula
<1>2. \A j \in Brokers, b \in Bloco : ~ NovoPara(j, b) /\ ~ Auditando(j, b) /\ ~ Votando(j, b)
  BY DEF Init, NovoPara, Auditando, Votando
<1>3. /\ rede = {} /\ \A i \in Brokers : tarefas[i] = {} /\ blocosPendentes[i] = {}
      /\ \A i \in Brokers : i \notin connBrokers[i]
      /\ \A h \in Hashes : aceitou[h] = {}
  BY DEF Init
<1> QED
  BY <1>1, <1>2, <1>3 DEF PedidosInv, BlocosUnicos, NinguemAntesDoAutor, UmVotoPorBroker,
     Chamado, AvisosReais, SoOAutorVotaAdulterado, SemLaco

LEMMA PedidosAoPassar == TypeOK /\ PedidosInv /\ [Next]_vars => PedidosInv'
<1> SUFFICES ASSUME TypeOK, PedidosInv, [Next]_vars PROVE PedidosInv'
  OBVIOUS
<1>0. SemLaco
  BY DEF PedidosInv
<1>1. ASSUME NEW m \in rede, Receber(m) PROVE PedidosInv'
  BY <1>0, <1>1, EncaminhaAoReceber, PedidosAoEncaminhar, PedidosAoAuditarHash
<1>2. ASSUME NEW i \in Brokers, NEW t \in tarefas[i], Continuar(i, t) PROVE PedidosInv'
  BY <1>0, <1>2, EncaminhaAoContinuar, PedidosAoEncaminhar, PedidosAoPropagar,
     PedidosAoAuditar, PedidosAoVotar
<1>3. ASSUME NEW d \in Demandas, Propor(d) PROVE PedidosInv'
  BY <1>0, <1>3, EncaminhaAoEsperar, PedidosAoEncaminhar, PedidosAoMontar DEF Propor
<1>4. ASSUME Ambiente PROVE PedidosInv'
  BY <1>0, <1>4, EncaminhaNoAmbiente, PedidosAoEncaminhar
<1>5. CASE UNCHANGED vars
  <2>1. SoEncaminha
    BY <1>0, <1>5 DEF vars, chainVars, votoVars, propVars, redeVars, SoEncaminha, SemLaco
  <2> QED
    BY <2>1, PedidosAoEncaminhar
<1> QED
  BY <1>1, <1>2, <1>3, <1>4, <1>5 DEF Next, Progresso

(* Whatever is forged, whoever votes and whatever is lost, an altered      *)
(* block enters no chain, and only its author ever accepts it or holds it  *)
(* pending (handleNovoBloco's audit of the hash, CommitarBloco).           *)
THEOREM AdulteradoSempreIsolado == Spec => []AdulteradoIsolado
<1>1. ASSUME TypeOK, ChainsValidas, PedidosInv PROVE AdulteradoIsolado
  <2>1. \A i \in Brokers : \A k \in DOMAIN blocos[i] : blocos[i][k].integro
    BY <1>1 DEF ChainsValidas, ChainValida, HashConfere
  <2>2. ASSUME NEW i \in Brokers, NEW b \in blocosPendentes[i], ~ b.integro
        PROVE  b.autor = i /\ aceitou[b.hash] = {i}
    <3>1. b \in Bloco /\ Circula(b)
      BY <1>1 DEF TypeOK, Circula
    <3> QED
      BY <1>1, <2>2, <3>1 DEF PedidosInv, SoOAutorVotaAdulterado
  <2> QED
    BY <2>1, <2>2 DEF AdulteradoIsolado
<1> QED
  BY <1>1, PedidosNoInicio, PedidosAoPassar, TypeCorrect, ChainsSempreValidas, PTL DEF Spec

-----------------------------------------------------------------------------
(* Acceptances, counted or on their way, are sets of brokers. *)
LEMMA AvisosSaoFinitos ==
  ASSUME TypeOK, NEW i \in Brokers, NEW h \in Hashes
  PROVE  /\ IsFiniteSet(Avisos(i, h)) /\ Cardinality(Avisos(i, h)) \in Nat
         /\ IsFiniteSet(aceitou[h]) /\ Cardinality(aceitou[h]) \in Nat
         /\ votosBloco[i][h] \in Nat
<1>1. Avisos(i, h) \in SUBSET Brokers /\ aceitou[h] \in SUBSET Brokers
  BY DEF Avisos, TypeOK
<1>2. votosBloco[i][h] \in Nat
  BY DEF TypeOK
<1> QED
  BY <1>1, <1>2, BrokersAssumption, FS_Subset, FS_CardinalityType

LEMMA AvisosForamAceites ==
  ASSUME TypeOK, PedidosInv, NEW i \in Brokers, NEW h \in Hashes
  PROVE  /\ Avisos(i, h) \subseteq aceitou[h]
         /\ i \notin Avisos(i, h)
         /\ \A b \in Bloco : Circula(b) /\ b.hash = h => b.autor \notin Avisos(i, h)
<1>1. ASSUME NEW v \in Avisos(i, h)
      PROVE  /\ v \in aceitou[h] /\ v # i
             /\ \A b \in Bloco : Circula(b) /\ b.hash = h => v # b.autor
  <2> DEFINE m == Aceite(v, i, h)
  <2>1. m \in rede
    BY DEF Avisos
  <2>2. m.tipo = "ACEITE_BLOCO" /\ m.de = v /\ m.para = i /\ m.hash = h
    BY DEF Aceite
  <2> HIDE DEF m
  <2> QED
    BY <2>1, <2>2 DEF PedidosInv, AvisosReais
<1> QED
  BY <1>1

(* A step that counts no vote and sends none. *)
NaoConta ==
    /\ \A h \in Hashes : aceitou'[h] = aceitou[h]
    /\ \A i \in Brokers, h \in Hashes : votosBloco'[i][h] <= votosBloco[i][h]
    /\ \A m \in rede' : m.tipo = "ACEITE_BLOCO" => m \in rede

LEMMA AvisosSemNovos ==
  ASSUME NEW i \in Brokers, NEW h \in Hashes,
         \A m \in rede' : m.tipo = "ACEITE_BLOCO" => m \in rede
  PROVE  Avisos(i, h)' \subseteq Avisos(i, h)
<1>1. \A v : Aceite(v, i, h).tipo = "ACEITE_BLOCO"
  BY DEF Aceite
<1> QED
  BY <1>1 DEF Avisos

LEMMA ContagemSemVoto ==
  ASSUME TypeOK, TypeOK', Contagem, NaoConta
  PROVE  Contagem'
<1> SUFFICES ASSUME NEW i \in Brokers, NEW h \in Hashes
             PROVE  votosBloco'[i][h] + Cardinality(Avisos(i, h)') <= Cardinality(aceitou'[h])
  BY DEF Contagem
<1>1. Avisos(i, h)' \in SUBSET Avisos(i, h)
  BY AvisosSemNovos DEF NaoConta
<1>2. /\ IsFiniteSet(Avisos(i, h)) /\ Cardinality(Avisos(i, h)) \in Nat
      /\ Cardinality(aceitou[h]) \in Nat /\ votosBloco[i][h] \in Nat
  BY AvisosSaoFinitos
<1>3. Cardinality(Avisos(i, h)') <= Cardinality(Avisos(i, h)) /\ IsFiniteSet(Avisos(i, h)')
  BY <1>1, <1>2, FS_Subset
<1>4. Cardinality(Avisos(i, h)') \in Nat /\ votosBloco'[i][h] \in Nat
  BY <1>3, FS_CardinalityType DEF TypeOK
<1>5. /\ votosBloco'[i][h] <= votosBloco[i][h] /\ aceitou'[h] = aceitou[h]
      /\ votosBloco[i][h] + Cardinality(Avisos(i, h)) <= Cardinality(aceitou[h])
  BY DEF NaoConta, Contagem
<1> HIDE DEF NaoConta
<1> QED
  BY <1>2, <1>3, <1>4, <1>5

(* A vote counted is no longer on its way. *)
LEMMA ContagemAoReceberAceite ==
  ASSUME TypeOK, TypeOK', Contagem, NEW m \in rede, HandleAceiteBloco(m)
  PROVE  Contagem'
<1> USE DEF chainVars, votoVars, propVars, redeVars
<1> SUFFICES ASSUME NEW i \in Brokers, NEW h \in Hashes
             PROVE  votosBloco'[i][h] + Cardinality(Avisos(i, h)') <= Cardinality(aceitou'[h])
  BY DEF Contagem
<1>1. m.tipo = "ACEITE_BLOCO" /\ m.de \in Brokers /\ m.para \in Brokers /\ m.hash \in Hashes
  BY TipoDeAceite DEF HandleAceiteBloco, TypeOK
<1>2. m = Aceite(m.de, m.para, m.hash)
  BY <1>1 DEF TypeOK, Mensagens, Aceite
<1>3. /\ aceitou' = aceitou /\ rede' = rede \ {m}
      /\ votosBloco' = [votosBloco EXCEPT ![m.para][m.hash] = @ + 1]
  BY DEF HandleAceiteBloco
<1>4. /\ IsFiniteSet(Avisos(i, h)) /\ Cardinality(Avisos(i, h)) \in Nat
      /\ Cardinality(aceitou[h]) \in Nat /\ votosBloco[i][h] \in Nat
  BY AvisosSaoFinitos
<1>5. votosBloco[i][h] + Cardinality(Avisos(i, h)) <= Cardinality(aceitou[h])
  BY DEF Contagem
<1>6. CASE i = m.para /\ h = m.hash
  <2>1. m.de \in Avisos(i, h)
    BY <1>1, <1>2, <1>6 DEF Avisos
  <2>2. Avisos(i, h)' = Avisos(i, h) \ {m.de}
    BY <1>2, <1>3, <1>6 DEF Avisos, Aceite
  <2>3. Cardinality(Avisos(i, h)') = Cardinality(Avisos(i, h)) - 1
    BY <1>4, <2>1, <2>2, FS_RemoveElement
  <2>4. votosBloco'[i][h] = votosBloco[i][h] + 1
    BY <1>3, <1>6 DEF TypeOK
  <2> QED
    BY <1>3, <1>4, <1>5, <2>3, <2>4
<1>7. CASE ~ (i = m.para /\ h = m.hash)
  <2>1. Avisos(i, h)' = Avisos(i, h)
    <3>1. \A v : Aceite(v, i, h) # m
      BY <1>7 DEF Aceite
    <3> QED
      BY <1>3, <3>1 DEF Avisos
  <2>2. votosBloco'[i][h] = votosBloco[i][h]
    BY <1>1, <1>3, <1>7 DEF TypeOK
  <2> QED
    BY <1>3, <1>5, <2>1, <2>2
<1> QED
  BY <1>6, <1>7

(* The author's own vote is the first. *)
LEMMA ContagemAoPropagar ==
  ASSUME TypeOK, TypeOK', PedidosInv, Contagem,
         NEW i \in Brokers, NEW t \in tarefas[i], PropagarBloco(i, t)
  PROVE  Contagem'
<1> USE DEF chainVars, votoVars, propVars, redeVars
<1> SUFFICES ASSUME NEW j \in Brokers, NEW h \in Hashes
             PROVE  votosBloco'[j][h] + Cardinality(Avisos(j, h)') <= Cardinality(aceitou'[h])
  BY DEF Contagem
<1> DEFINE b == t.bloco
           N == {Novo(i, k, b) : k \in connBrokers[i]}
<1>1. t.op = "propagar" /\ b.hash \in Hashes
  BY DEF PropagarBloco, TypeOK, Bloco
<1>2. aceitou[b.hash] = {}
  BY <1>1 DEF PedidosInv, NinguemAntesDoAutor
<1>3. /\ rede' = rede \cup N
      /\ aceitou' = [aceitou EXCEPT ![b.hash] = @ \cup {i}]
      /\ votosBloco' = [votosBloco EXCEPT ![i][b.hash] = 1]
  BY DEF PropagarBloco
<1>4. \A m \in N : m.tipo = "NOVO_BLOCO"
  BY DEF Novo
<1> HIDE DEF N, b
<1>5. Avisos(j, h)' \subseteq Avisos(j, h)
  BY <1>3, <1>4, AvisosSemNovos
<1>6. CASE h = b.hash
  <2>1. Avisos(j, h)' = {}
    BY <1>2, <1>5, <1>6, AvisosForamAceites
  <2>2. aceitou'[h] = {i}
    BY <1>1, <1>2, <1>3, <1>6 DEF TypeOK
  <2>3. Cardinality(Avisos(j, h)') = 0 /\ Cardinality(aceitou'[h]) = 1
    BY <2>1, <2>2, FS_EmptySet, FS_Singleton
  <2>4. CASE j = i
    BY <1>1, <1>3, <1>6, <2>3, <2>4 DEF TypeOK
  <2>5. CASE j # i
    <3>1. votosBloco[j][h] + Cardinality(Avisos(j, h)) <= 0
      BY <1>2, <1>6, FS_EmptySet DEF Contagem
    <3>2. votosBloco[j][h] = 0
      BY <3>1, AvisosSaoFinitos
    <3>3. votosBloco'[j][h] = 0
      BY <1>3, <2>5, <3>2 DEF TypeOK
    <3> QED
      BY <2>3, <3>3
  <2> QED
    BY <2>4, <2>5
<1>7. CASE h # b.hash
  <2>1. aceitou'[h] = aceitou[h] /\ votosBloco'[j][h] = votosBloco[j][h]
    BY <1>1, <1>3, <1>7 DEF TypeOK
  <2>2. votosBloco[j][h] + Cardinality(Avisos(j, h)) <= Cardinality(aceitou[h])
    BY DEF Contagem
  <2>3. /\ IsFiniteSet(Avisos(j, h)) /\ Cardinality(Avisos(j, h)) \in Nat
        /\ Cardinality(aceitou[h]) \in Nat /\ votosBloco[j][h] \in Nat
    BY AvisosSaoFinitos
  <2>4. /\ Cardinality(Avisos(j, h)') <= Cardinality(Avisos(j, h))
        /\ Cardinality(Avisos(j, h)') \in Nat
    BY <1>5, <2>3, FS_Subset, FS_CardinalityType
  <2> QED
    BY <2>1, <2>2, <2>3, <2>4
<1> QED
  BY <1>6, <1>7

(* Forgetting the votes of rivals only lowers them. *)
LEMMA SemVotosDiminui ==
  ASSUME TypeOK, NEW i \in Brokers, NEW bs, NEW h \in Hashes
  PROVE  SemVotos(i, bs)[h] <= votosBloco[i][h] /\ SemVotos(i, bs) \in [Hashes -> Nat]
<1>1. votosBloco[i] \in [Hashes -> Nat]
  BY DEF TypeOK
<1> QED
  BY <1>1 DEF SemVotos

(* What a voter counts for the block it accepts: a block new to it starts  *)
(* with two acceptances, its author's and the voter's own, neither of      *)
(* which is on its way to the voter.                                       *)
LEMMA VotosAoAceitarSaoReais ==
  ASSUME TypeOK, PedidosInv, Contagem, NEW i \in Brokers, NEW t \in tarefas[i],
         t.op = "votar"
  PROVE  LET h == t.bloco.hash
         IN  /\ VotosAoAceitar(i, t.bloco) \in Nat
             /\ VotosAoAceitar(i, t.bloco) + Cardinality(Avisos(i, h))
                  <= Cardinality(aceitou[h] \cup {i})
<1> DEFINE b == t.bloco
           h == t.bloco.hash
           S == Avisos(i, h)
<1>1. /\ b \in Bloco /\ h \in Hashes /\ b.autor \in aceitou[h] /\ i \notin aceitou[h]
      /\ Circula(b)
  BY QuemVota
<1>2. /\ IsFiniteSet(S) /\ Cardinality(S) \in Nat /\ IsFiniteSet(aceitou[h])
      /\ Cardinality(aceitou[h]) \in Nat /\ votosBloco[i][h] \in Nat
  BY <1>1, AvisosSaoFinitos
<1>3. Cardinality(aceitou[h] \cup {i}) = Cardinality(aceitou[h]) + 1
  <2>1. i \notin aceitou[h] /\ IsFiniteSet(aceitou[h])
    BY <1>1, <1>2
  <2> HIDE DEF h
  <2> QED
    BY <2>1, FS_AddElement
<1>4. VotosAoAceitar(i, b) = IF b \in blocosPendentes[i] THEN votosBloco[i][h] + 1 ELSE 2
  BY DEF VotosAoAceitar
<1>5. CASE b \in blocosPendentes[i]
  <2>1. votosBloco[i][h] + Cardinality(S) <= Cardinality(aceitou[h])
    BY <1>1 DEF Contagem
  <2> QED
    BY <1>2, <1>3, <1>4, <1>5, <2>1
<1>6. CASE b \notin blocosPendentes[i]
  <2>1. S \subseteq aceitou[h] /\ b.autor \notin S
    BY <1>1, AvisosForamAceites
  <2>2. IsFiniteSet(S \cup {b.autor}) /\ Cardinality(S \cup {b.autor}) = Cardinality(S) + 1
    BY <1>2, <2>1, FS_AddElement
  <2>3. S \cup {b.autor} \in SUBSET aceitou[h]
    BY <1>1, <2>1
  <2>4. Cardinality(S) + 1 <= Cardinality(aceitou[h])
    BY <1>2, <2>2, <2>3, FS_Subset
  <2>5. VotosAoAceitar(i, b) = 2
    BY <1>4, <1>6
  <2> HIDE DEF S, h, b
  <2>6. 2 + Cardinality(S) <= Cardinality(aceitou[h]) + 1
    BY <1>2, <2>4
  <2> QED
    BY <1>3, <2>5, <2>6 DEF S, h, b
<1> QED
  BY <1>5, <1>6

LEMMA ContagemAoVotar ==
  ASSUME TypeOK, TypeOK', PedidosInv, Contagem,
         NEW i \in Brokers, NEW t \in tarefas[i], VotarBloco(i, t)
  PROVE  Contagem'
<1> USE DEF chainVars, votoVars, propVars, redeVars
<1> SUFFICES ASSUME NEW j \in Brokers, NEW g \in Hashes
             PROVE  votosBloco'[j][g] + Cardinality(Avisos(j, g)') <= Cardinality(aceitou'[g])
  BY DEF Contagem
<1> DEFINE b == t.bloco
           h == t.bloco.hash
           v == VotosAoAceitar(i, t.bloco)
           A == {Aceite(i, k, h) : k \in connBrokers[i]}
<1>0. t.op = "votar"
  BY DEF VotarBloco
<1>1. h \in Hashes /\ b.autor \in aceitou[h] /\ i \notin aceitou[h]
  BY <1>0, QuemVota
<1>2. /\ v \in Nat
      /\ v + Cardinality(Avisos(i, h)) <= Cardinality(aceitou[h] \cup {i})
  BY <1>0, VotosAoAceitarSaoReais
<1>3. /\ rede' = rede \cup A
      /\ aceitou' = [aceitou EXCEPT ![h] = @ \cup {i}]
      /\ votosBloco' = [votosBloco EXCEPT ![i] = [SemVotos(i, Maiores(i, b)) EXCEPT ![h] = v]]
  BY DEF VotarBloco
<1>4. i \notin connBrokers[i]
  BY DEF PedidosInv, SemLaco
<1>5. \A x : Aceite(x, j, g) \in A => x = i /\ g = h /\ j # i
  BY <1>4 DEF Aceite
<1>6. /\ IsFiniteSet(Avisos(j, g)) /\ Cardinality(Avisos(j, g)) \in Nat
      /\ IsFiniteSet(aceitou[g]) /\ Cardinality(aceitou[g]) \in Nat
      /\ votosBloco[j][g] \in Nat
  BY AvisosSaoFinitos
<1>7. votosBloco[j][g] + Cardinality(Avisos(j, g)) <= Cardinality(aceitou[g])
  BY DEF Contagem
<1> HIDE DEF v, h, b, A
<1>8. /\ aceitou'[h] = aceitou[h] \cup {i}
      /\ g # h => aceitou'[g] = aceitou[g]
  BY <1>1, <1>3 DEF TypeOK
<1>9. CASE g # h
  <2>1. Avisos(j, g)' = Avisos(j, g)
    BY <1>3, <1>5, <1>9 DEF Avisos
  <2>2. votosBloco'[j][g] <= votosBloco[j][g]
    <3>1. CASE j = i
      <4>1. votosBloco'[j][g] = SemVotos(i, Maiores(i, b))[g]
        BY <1>1, <1>3, <1>9, <3>1, SemVotosDiminui DEF TypeOK
      <4> QED
        BY <3>1, <4>1, SemVotosDiminui
    <3>2. CASE j # i
      BY <1>3, <1>6, <3>2 DEF TypeOK
    <3> QED
      BY <3>1, <3>2
  <2>3. votosBloco'[j][g] \in Nat
    BY DEF TypeOK
  <2> QED
    BY <1>6, <1>7, <1>8, <1>9, <2>1, <2>2, <2>3
<1>10. CASE g = h /\ j = i
  <2>1. Avisos(j, g)' = Avisos(j, g)
    BY <1>3, <1>5, <1>10 DEF Avisos
  <2>2. votosBloco'[j][g] = v
    BY <1>1, <1>3, <1>10, SemVotosDiminui DEF TypeOK
  <2> QED
    BY <1>2, <1>8, <1>10, <2>1, <2>2
<1>11. CASE g = h /\ j # i
  <2>1. Avisos(j, g)' \in SUBSET (Avisos(j, g) \cup {i})
    BY <1>3, <1>5 DEF Avisos
  <2>2. /\ IsFiniteSet(Avisos(j, g) \cup {i})
        /\ Cardinality(Avisos(j, g) \cup {i}) <= Cardinality(Avisos(j, g)) + 1
        /\ Cardinality(Avisos(j, g) \cup {i}) \in Nat
    <3> DEFINE S == Avisos(j, g)
    <3>1. IsFiniteSet(S) /\ Cardinality(S) \in Nat
      BY <1>6
    <3> HIDE DEF S
    <3>2. /\ IsFiniteSet(S \cup {i})
          /\ Cardinality(S \cup {i}) = IF i \in S THEN Cardinality(S) ELSE Cardinality(S) + 1
      BY <3>1, FS_AddElement
    <3>3. /\ IsFiniteSet(S \cup {i})
          /\ Cardinality(S \cup {i}) <= Cardinality(S) + 1
          /\ Cardinality(S \cup {i}) \in Nat
      BY <3>1, <3>2
    <3> QED
      BY <3>3 DEF S
  <2>3. /\ Cardinality(Avisos(j, g)') <= Cardinality(Avisos(j, g) \cup {i})
        /\ Cardinality(Avisos(j, g)') \in Nat
    BY <2>1, <2>2, FS_Subset, FS_CardinalityType
  <2>4. Cardinality(aceitou'[g]) = Cardinality(aceitou[g]) + 1
    BY <1>1, <1>6, <1>8, <1>11, FS_AddElement
  <2>5. votosBloco'[j][g] = votosBloco[j][g]
    BY <1>3, <1>11 DEF TypeOK
  <2> QED
    BY <1>6, <1>7, <2>2, <2>3, <2>4, <2>5
<1> QED
  BY <1>9, <1>10, <1>11

(* The steps that count no vote. *)
LEMMA ContagemAoReceber ==
  ASSUME TypeOK, TypeOK', Contagem, NEW m \in rede, Receber(m)
  PROVE  Contagem'
<1> USE DEF chainVars, votoVars, propVars, redeVars
<1>0. \A i \in Brokers, h \in Hashes : votosBloco[i][h] <= votosBloco[i][h]
  BY DEF TypeOK
<1>1. CASE DetectarFork(m)
  <2>1. \A n \in Solicitacoes(m.para, m.bloco.hash) : n.tipo = "REQ_BLOCKCHAIN"
    BY DEF Solicitacoes, ReqChain
  <2>2. NaoConta
    BY <1>0, <1>1, <2>1 DEF DetectarFork, NaoConta
  <2> QED
    BY <2>2, ContagemSemVoto
<1>2. CASE AuditarHash(m) \/ HandleReqChain(m) \/ HandleRespChain(m)
  <2>1. NaoConta
    BY <1>0, <1>2 DEF AuditarHash, HandleReqChain, HandleRespChain, RespChain, NaoConta
  <2> QED
    BY <2>1, ContagemSemVoto
<1> QED
  BY <1>1, <1>2, ContagemAoReceberAceite DEF Receber

LEMMA ContagemAoContinuar ==
  ASSUME TypeOK, TypeOK', PedidosInv, Contagem,
         NEW i \in Brokers, NEW t \in tarefas[i], Continuar(i, t)
  PROVE  Contagem'
<1> USE DEF chainVars, votoVars, propVars, redeVars
<1>0. \A k \in Brokers, h \in Hashes : votosBloco[k][h] <= votosBloco[k][h]
  BY DEF TypeOK
<1>1. CASE PerderDesempate(i, t)
  <2>1. PICK bs : votosBloco' = [votosBloco EXCEPT ![i] = SemVotos(i, bs)]
    BY <1>1 DEF PerderDesempate
  <2>2. ASSUME NEW k \in Brokers, NEW h \in Hashes
        PROVE  votosBloco'[k][h] <= votosBloco[k][h]
    BY <1>0, <2>1, SemVotosDiminui DEF TypeOK
  <2>3. NaoConta
    BY <1>1, <2>2 DEF PerderDesempate, NaoConta
  <2> QED
    BY <2>3, ContagemSemVoto
<1>2. CASE ReivindicarBloco(i, t)
  <2>1. \/ votosBloco' = votosBloco
        \/ votosBloco' = [votosBloco EXCEPT ![i][t.bloco.hash] = 0]
    BY <1>2 DEF ReivindicarBloco
  <2>2. ASSUME NEW k \in Brokers, NEW h \in Hashes
        PROVE  votosBloco'[k][h] <= votosBloco[k][h]
    <3>1. votosBloco[k][h] \in Nat
      BY DEF TypeOK
    <3>2. votosBloco'[k][h] = 0 \/ votosBloco'[k][h] = votosBloco[k][h]
      <4>1. CASE votosBloco' = votosBloco
        BY <4>1
      <4>2. CASE votosBloco' = [votosBloco EXCEPT ![i][t.bloco.hash] = 0]
        BY <4>2 DEF TypeOK
      <4> QED
        BY <2>1, <4>1, <4>2
    <3> QED
      BY <3>1, <3>2
  <2>3. NaoConta
    BY <1>2, <2>2 DEF ReivindicarBloco, NaoConta
  <2> QED
    BY <2>3, ContagemSemVoto
<1>3. CASE AuditarTransacao(i, t) \/ AnexarBloco(i, t) \/ AplicarTransacao(i, t)
  <2>1. NaoConta
    BY <1>0, <1>3 DEF AuditarTransacao, AnexarBloco, AplicarTransacao, NaoConta
  <2> QED
    BY <2>1, ContagemSemVoto
<1> QED
  BY <1>1, <1>2, <1>3, ContagemAoPropagar, ContagemAoVotar DEF Continuar

LEMMA ContagemNoResto ==
  ASSUME TypeOK, TypeOK', Contagem,
         Ambiente \/ (\E d \in Demandas : Propor(d)) \/ UNCHANGED vars
  PROVE  Contagem'
<1> USE DEF chainVars, votoVars, propVars, redeVars
<1>0. \A k \in Brokers, h \in Hashes : votosBloco[k][h] <= votosBloco[k][h]
  BY DEF TypeOK
<1>1. ASSUME NEW d \in Demandas, TimeoutConsenso(d) PROVE NaoConta
  <2>1. \A k \in Brokers, h \in Hashes : votosBloco'[k][h] <= votosBloco[k][h]
    BY <1>1 DEF TimeoutConsenso, TypeOK
  <2> QED
    BY <1>1, <2>1 DEF TimeoutConsenso, NaoConta
<1>2. ASSUME NEW d \in Demandas, EsperarConsenso(d) \/ MontarBloco(d) PROVE NaoConta
  BY <1>0, <1>2 DEF EsperarConsenso, MontarBloco, NaoConta
<1>3. ASSUME NEW i \in Brokers, ConectarPeers(i) PROVE NaoConta
  <2>1. \A n \in Solicitacoes(i, HashGenesis) : n.tipo = "REQ_BLOCKCHAIN"
    BY DEF Solicitacoes, ReqChain
  <2> QED
    BY <1>0, <1>3, <2>1 DEF ConectarPeers, NaoConta
<1>4. ASSUME Ambiente, ~ \E i \in Brokers : ConectarPeers(i) PROVE NaoConta
  BY <1>0, <1>4 DEF Ambiente, RecargaAutomatica, RemoverConexao, PerderMensagem,
     ManterConexaoPeer, NaoConta
<1>5. ASSUME UNCHANGED vars PROVE NaoConta
  BY <1>0, <1>5 DEF vars, NaoConta
<1> QED
  BY <1>1, <1>2, <1>3, <1>4, <1>5, ContagemSemVoto DEF Propor

LEMMA ContagemNoInicio == Init => Contagem
<1> SUFFICES ASSUME Init, NEW i \in Brokers, NEW h \in Hashes
             PROVE  votosBloco[i][h] + Cardinality(Avisos(i, h)) <= Cardinality(aceitou[h])
  BY DEF Contagem
<1>1. Avisos(i, h) = {} /\ aceitou[h] = {} /\ votosBloco[i][h] = 0
  BY DEF Init, Avisos
<1> QED
  BY <1>1, FS_EmptySet

LEMMA VotosAoPassar == TypeOK /\ VotosInv /\ [Next]_vars => VotosInv'
<1> SUFFICES ASSUME TypeOK, VotosInv, [Next]_vars PROVE VotosInv'
  OBVIOUS
<1>1. TypeOK' /\ PedidosInv'
  BY TipoAoPassar, PedidosAoPassar DEF VotosInv
<1>2. Contagem'
  BY <1>1, ContagemAoReceber, ContagemAoContinuar, ContagemNoResto DEF VotosInv, Next, Progresso
<1> QED
  BY <1>1, <1>2 DEF VotosInv

(* In every behaviour a node never counts more votes for a block than were *)
(* cast: the ACEITE_BLOCO it has counted, or kept for later, and those on  *)
(* their way to it come from different nodes that accepted the block       *)
(* (processarAceiteBloco, aceitesPrecoces, submeterBloco).                 *)
THEOREM VotosSempreContados == Spec => []VotosInv
BY PedidosNoInicio, ContagemNoInicio, VotosAoPassar, TypeCorrect, PTL DEF Spec, VotosInv

(* No order of NOVO_BLOCO, ACEITE_BLOCO, time-outs, tie-breaks, dropped    *)
(* connections and reconnections counts an acceptance twice: the votes a   *)
(* broker has for a hash never exceed the brokers that accepted it         *)
(* (propagarBloco, handleNovoBloco, handleAceiteBloco).                    *)
THEOREM VotosSempreReais == Spec => []VotosReais
<1>1. ASSUME TypeOK, VotosInv PROVE VotosReais
  <2> SUFFICES ASSUME NEW i \in Brokers, NEW h \in Hashes
               PROVE  votosBloco[i][h] <= Cardinality(aceitou[h])
    BY DEF VotosReais
  <2>1. votosBloco[i][h] + Cardinality(Avisos(i, h)) <= Cardinality(aceitou[h])
    BY <1>1 DEF VotosInv, Contagem
  <2>2. /\ Cardinality(Avisos(i, h)) \in Nat /\ Cardinality(aceitou[h]) \in Nat
        /\ votosBloco[i][h] \in Nat
    BY <1>1, AvisosSaoFinitos
  <2> QED
    BY <2>1, <2>2
<1> QED
  BY <1>1, TypeCorrect, VotosSempreContados, PTL

-----------------------------------------------------------------------------
(* What broker i has decided: a hash of its chain, or of a block that some *)
(* goroutine has taken past the quorum.                                    *)
Decidida(i, h) ==
    \/ \E k \in DOMAIN blocos[i] : blocos[i][k].hash = h
    \/ \E t \in tarefas[i] : t.op \in {"commitar", "anexar", "aplicar"} /\ t.bloco.hash = h

Ofertada(h) ==
    \E m \in rede : /\ m.tipo = "RESP_BLOCKCHAIN"
                    /\ \E k \in DOMAIN m.chain : m.chain[k].hash = h

(* While nothing drops, the brokers stay connected to each other, and      *)
(* whatever is decided, committed or sent in a chain has been accepted by  *)
(* a majority.                                                             *)
MaioriaInv ==
    /\ \A i \in Brokers : connBrokers[i] = Brokers \ {i}
    /\ \A i \in Brokers, h \in Hashes : Decidida(i, h) => TemMaioria(h)
    /\ \A h \in Hashes : Ofertada(h) => TemMaioria(h)

(* A quorum of connected brokers is a majority of all brokers while every  *)
(* broker is connected to every other.                                     *)
LEMMA QuorumEhMaioria ==
  ASSUME NEW i \in Brokers, connBrokers[i] = Brokers \ {i},
         NEW S \in SUBSET Brokers, NEW votos \in Nat,
         AtingeQuorum(i, votos), votos <= Cardinality(S)
  PROVE  S \in Maiorias
<1> DEFINE n == Cardinality(Brokers)
<1>1. /\ n \in Nat
      /\ Cardinality(Brokers \ {i}) = n - 1
      /\ Cardinality(S) \in Nat
  BY BrokersAssumption, FS_CardinalityType, FS_RemoveElement, FS_Subset
<1>2. Quorum(i) = n \div 2 + 1
  BY <1>1 DEF Quorum, TotalAtivos
<1>3. votos >= n \div 2 + 1
  BY <1>2 DEF AtingeQuorum
<1>4. 2 * (n \div 2 + 1) > n
  BY <1>1
<1>5. n \div 2 \in Nat
  BY <1>1
<1> HIDE DEF n
<1>6. 2 * Cardinality(S) > n
  BY <1>1, <1>3, <1>4, <1>5
<1> QED
  BY <1>6 DEF Maiorias, n

(* A broker with no peer is all the brokers there are. *)
LEMMA SoEhMaioria ==
  ASSUME NEW i \in Brokers, Brokers \ {i} = {}, NEW S \in SUBSET Brokers, i \in S
  PROVE  S \in Maiorias
<1>1. S = {i} /\ Brokers = {i}
  OBVIOUS
<1>2. Cardinality(S) = 1 /\ Cardinality(Brokers) = 1
  BY <1>1, FS_Singleton
<1> QED
  BY <1>2 DEF Maiorias

(* Nobody takes an acceptance back. *)
LEMMA AceitouCresce ==
  ASSUME TypeOK, [Next]_vars, NEW h \in Hashes
  PROVE  aceitou[h] \subseteq aceitou'[h]
<1> USE DEF chainVars, votoVars, propVars, redeVars
<1>1. ASSUME NEW m \in rede, Receber(m) PROVE aceitou' = aceitou
  BY <1>1 DEF Receber, DetectarFork, AuditarHash, HandleAceiteBloco, HandleReqChain,
     HandleRespChain
<1>2. ASSUME NEW i \in Brokers, NEW t \in tarefas[i], Continuar(i, t)
      PROVE  aceitou[h] \subseteq aceitou'[h]
  <2>1. \/ aceitou' = aceitou
        \/ aceitou' = [aceitou EXCEPT ![t.bloco.hash] = @ \cup {i}]
    BY <1>2 DEF Continuar, PropagarBloco, AuditarTransacao, PerderDesempate, VotarBloco,
       ReivindicarBloco, AnexarBloco, AplicarTransacao
  <2> QED
    BY <2>1 DEF TypeOK
<1>3. ASSUME NEW d \in Demandas, Propor(d) PROVE aceitou' = aceitou
  BY <1>3 DEF Propor, EsperarConsenso, TimeoutConsenso, MontarBloco
<1>4. ASSUME Ambiente PROVE aceitou' = aceitou
  BY <1>4 DEF Ambiente, RecargaAutomatica, ConectarPeers, RemoverConexao, PerderMensagem,
     ManterConexaoPeer
<1>5. CASE UNCHANGED vars
  BY <1>5 DEF vars
<1> QED
  BY <1>1, <1>2, <1>3, <1>4, <1>5 DEF Next, Progresso

LEMMA MaioriaPermanece ==
  ASSUME TypeOK, TypeOK', [Next]_vars, NEW h \in Hashes, TemMaioria(h)
  PROVE  TemMaioria(h)'
<1>1. /\ aceitou[h] \in SUBSET aceitou'[h] /\ aceitou'[h] \in SUBSET Brokers
      /\ aceitou[h] \in SUBSET Brokers
  BY AceitouCresce DEF TypeOK
<1>2. /\ IsFiniteSet(aceitou'[h]) /\ Cardinality(aceitou[h]) <= Cardinality(aceitou'[h])
      /\ Cardinality(aceitou[h]) \in Nat /\ Cardinality(aceitou'[h]) \in Nat
      /\ Cardinality(Brokers) \in Nat
  BY <1>1, BrokersAssumption, FS_Subset, FS_CardinalityType
<1>3. 2 * Cardinality(aceitou[h]) > Cardinality(Brokers)
  BY DEF TemMaioria, Maiorias
<1>4. 2 * Cardinality(aceitou'[h]) > Cardinality(Brokers)
  BY <1>2, <1>3
<1> QED
  BY <1>1, <1>4 DEF TemMaioria, Maiorias

(* The connections stay as they are. *)
LEMMA NadaCai ==
  ASSUME TypeOK, MaxQuedas = 0, [Next]_vars,
         \A i \in Brokers : connBrokers[i] = Brokers \ {i}
  PROVE  connBrokers' = connBrokers
<1> USE DEF chainVars, votoVars, propVars, redeVars
<1>1. ASSUME NEW m \in rede, Receber(m) PROVE connBrokers' = connBrokers
  BY <1>1 DEF Receber, DetectarFork, AuditarHash, HandleAceiteBloco, HandleReqChain,
     HandleRespChain
<1>2. ASSUME NEW i \in Brokers, NEW t \in tarefas[i], Continuar(i, t)
      PROVE  connBrokers' = connBrokers
  BY <1>2 DEF Continuar, PropagarBloco, AuditarTransacao, PerderDesempate, VotarBloco,
     ReivindicarBloco, AnexarBloco, AplicarTransacao
<1>3. ASSUME NEW d \in Demandas, Propor(d) PROVE connBrokers' = connBrokers
  BY <1>3 DEF Propor, EsperarConsenso, TimeoutConsenso, MontarBloco
<1>4. ASSUME Ambiente PROVE connBrokers' = connBrokers
  <2>1. quedas = 0
    BY DEF TypeOK
  <2> QED
    BY <1>4, <2>1 DEF Ambiente, RecargaAutomatica, ConectarPeers, RemoverConexao,
       PerderMensagem, ManterConexaoPeer
<1>5. CASE UNCHANGED vars
  BY <1>5 DEF vars
<1> QED
  BY <1>1, <1>2, <1>3, <1>4, <1>5 DEF Next, Progresso

(* A block gets past the quorum by the votes counted for it, or because    *)
(* its author is alone; a hash enters a chain from a block past the quorum *)
(* or in a chain received.                                                 *)
PorVotos(i, h) == AtingeQuorum(i, votosBloco'[i][h])
Sozinho(i, h) == connBrokers[i] = {} /\ i \in aceitou'[h]

LEMMA DecidirAoReceber ==
  ASSUME TypeOK, NEW m \in rede, Receber(m),
         NEW i \in Brokers, NEW h \in Hashes, Decidida(i, h)'
  PROVE  Decidida(i, h) \/ Ofertada(h) \/ PorVotos(i, h)
<1> USE DEF chainVars, votoVars, propVars, redeVars
<1>1. CASE DetectarFork(m) \/ HandleReqChain(m)
  BY <1>1 DEF DetectarFork, HandleReqChain, Decidida
<1>2. CASE AuditarHash(m)
  <2>1. blocos' = blocos
    BY <1>2 DEF AuditarHash
  <2>2. ASSUME NEW t \in tarefas'[i], t.op \in {"commitar", "anexar", "aplicar"}
        PROVE  t \in tarefas[i]
    BY <1>2, <2>2 DEF AuditarHash, Tarefa, TypeOK
  <2> QED
    BY <2>1, <2>2 DEF Decidida
<1>3. CASE HandleAceiteBloco(m)
  <2>1. m.para \in Brokers /\ m.hash \in Hashes
    BY <1>3, TipoDeAceite DEF HandleAceiteBloco, TypeOK
  <2> DEFINE votos == votosBloco[m.para][m.hash] + 1
             C == {Tarefa("commitar", p) : p \in {q \in blocosPendentes[m.para] :
                     q.hash = m.hash /\ AtingeQuorum(m.para, votos)}}
  <2>2. \A t \in C : t.bloco.hash = m.hash /\ AtingeQuorum(m.para, votos)
    BY DEF Tarefa
  <2>3. /\ tarefas' = [tarefas EXCEPT ![m.para] = @ \cup C]
        /\ votosBloco' = [votosBloco EXCEPT ![m.para][m.hash] = votos]
        /\ blocos' = blocos
    BY <1>3 DEF HandleAceiteBloco
  <2>4. votosBloco'[m.para][m.hash] = votos
    BY <2>1, <2>3 DEF TypeOK
  <2> HIDE DEF C, votos
  <2>5. ASSUME NEW t \in tarefas'[i], t \notin tarefas[i]
        PROVE  i = m.para /\ t \in C
    BY <2>1, <2>3, <2>5 DEF TypeOK
  <2>6. ASSUME NEW t \in tarefas'[i], t \notin tarefas[i], t.bloco.hash = h
        PROVE  PorVotos(i, h)
    BY <2>2, <2>4, <2>5, <2>6 DEF PorVotos
  <2> QED
    BY <2>3, <2>6 DEF Decidida
<1>4. CASE HandleRespChain(m)
  <2>1. tarefas' = tarefas /\ m.tipo = "RESP_BLOCKCHAIN" /\ m.para \in Brokers
    BY <1>4, TipoDeResp DEF HandleRespChain, TypeOK
  <2>2. blocos'[i] = blocos[i] \/ blocos'[i] = m.chain
    BY <1>4, <2>1 DEF HandleRespChain, TypeOK
  <2> QED
    BY <2>1, <2>2 DEF Decidida, Ofertada
<1> QED
  BY <1>1, <1>2, <1>3, <1>4 DEF Receber

LEMMA DecidirAoContinuar ==
  ASSUME TypeOK, NEW j \in Brokers, NEW t \in tarefas[j], Continuar(j, t),
         NEW i \in Brokers, NEW h \in Hashes, Decidida(i, h)'
  PROVE  Decidida(i, h) \/ PorVotos(i, h) \/ Sozinho(i, h)
<1> USE DEF chainVars, votoVars, propVars, redeVars
<1> DEFINE b == t.bloco
<1>t. b \in Bloco /\ b.hash \in Hashes
  BY DEF TypeOK, Bloco
<1>1. ASSUME NEW op, NEW T \in {{}, {Tarefa(op, b)}},
             tarefas' = [tarefas EXCEPT ![j] = (@ \ {t}) \cup T],
             NEW u \in tarefas'[i], u \notin tarefas[i]
      PROVE  i = j /\ u.op = op /\ u.bloco = b
  <2> DEFINE w == Tarefa(op, b)
  <2>1. w.op = op /\ w.bloco = b
    BY DEF Tarefa
  <2> HIDE DEF w
  <2>2. i = j /\ u \in T
    BY <1>1 DEF TypeOK
  <2>3. u = w
    BY <1>1, <2>2 DEF w
  <2> QED
    BY <2>1, <2>2, <2>3
<1>2. CASE PropagarBloco(j, t)
  <2>1. PICK T \in {{}, {Tarefa("commitar", b)}} :
          /\ tarefas' = [tarefas EXCEPT ![j] = (@ \ {t}) \cup T]
          /\ T # {} => connBrokers[j] = {}
    BY <1>2 DEF PropagarBloco, SoloDecide
  <2>2. j \in aceitou'[b.hash] /\ blocos' = blocos
    BY <1>2, <1>t DEF PropagarBloco, TypeOK
  <2>3. ASSUME NEW u \in tarefas'[i], u \notin tarefas[i], u.bloco.hash = h
        PROVE  Sozinho(i, h)
    <3>1. i = j /\ u.bloco = b
      BY <1>1, <2>1, <2>3
    <3>2. T # {}
      BY <2>1, <2>3, <3>1 DEF TypeOK
    <3> QED
      BY <2>1, <2>2, <2>3, <3>1, <3>2 DEF Sozinho
  <2> QED
    BY <2>2, <2>3 DEF Decidida
<1>3. CASE VotarBloco(j, t)
  <2> DEFINE votos == VotosAoAceitar(j, b)
  <2>1. PICK T \in {{}, {Tarefa("commitar", b)}} :
          /\ tarefas' = [tarefas EXCEPT ![j] = (@ \ {t}) \cup T]
          /\ T # {} => AtingeQuorum(j, votos)
    BY <1>3 DEF VotarBloco
  <2>2. /\ votosBloco' = [votosBloco EXCEPT ![j] = [SemVotos(j, Maiores(j, b))
                                                      EXCEPT ![b.hash] = votos]]
        /\ blocos' = blocos
    BY <1>3 DEF VotarBloco
  <2>3. votosBloco'[j][b.hash] = votos
    BY <1>t, <2>2, SemVotosDiminui DEF TypeOK
  <2> HIDE DEF votos
  <2>4. ASSUME NEW u \in tarefas'[i], u \notin tarefas[i], u.bloco.hash = h
        PROVE  PorVotos(i, h)
    <3>1. i = j /\ u.bloco = b
      BY <1>1, <2>1, <2>4
    <3>2. T # {}
      BY <2>1, <2>4, <3>1 DEF TypeOK
    <3> QED
      BY <2>1, <2>3, <2>4, <3>1, <3>2 DEF PorVotos
  <2> QED
    BY <2>2, <2>4 DEF Decidida
<1>4. CASE AuditarTransacao(j, t)
  <2>1. PICK T \in {{}, {Tarefa("votar", b)}} :
          tarefas' = [tarefas EXCEPT ![j] = (@ \ {t}) \cup T]
    BY <1>4 DEF AuditarTransacao
  <2>2. blocos' = blocos
    BY <1>4 DEF AuditarTransacao
  <2>3. ASSUME NEW u \in tarefas'[i], u \notin tarefas[i] PROVE u.op = "votar"
    BY <1>1, <2>1, <2>3
  <2> QED
    BY <2>2, <2>3 DEF Decidida
<1>5. CASE PerderDesempate(j, t) \/ AplicarTransacao(j, t)
  <2>1. tarefas' = [tarefas EXCEPT ![j] = @ \ {t}] /\ blocos' = blocos
    BY <1>5 DEF PerderDesempate, AplicarTransacao
  <2>2. tarefas'[i] \subseteq tarefas[i]
    BY <2>1 DEF TypeOK
  <2> QED
    BY <2>1, <2>2 DEF Decidida
<1>6. CASE ReivindicarBloco(j, t)
  <2>1. PICK T \in {{}, {Tarefa("anexar", b)}} :
          tarefas' = [tarefas EXCEPT ![j] = (@ \ {t}) \cup T]
    BY <1>6 DEF ReivindicarBloco
  <2>2. blocos' = blocos /\ t.op = "commitar"
    BY <1>6 DEF ReivindicarBloco
  <2>3. ASSUME NEW u \in tarefas'[i], u \notin tarefas[i] PROVE i = j /\ u.bloco = t.bloco
    BY <1>1, <2>1, <2>3
  <2> QED
    BY <2>2, <2>3 DEF Decidida
<1>7. CASE AnexarBloco(j, t)
  <2>1. PICK T \in {{}, {Tarefa("aplicar", b)}} :
          tarefas' = [tarefas EXCEPT ![j] = (@ \ {t}) \cup T]
    BY <1>7 DEF AnexarBloco
  <2>2. t.op = "anexar"
    BY <1>7 DEF AnexarBloco
  <2>3. ASSUME NEW u \in tarefas'[i], u \notin tarefas[i] PROVE i = j /\ u.bloco = t.bloco
    BY <1>1, <2>1, <2>3
  <2>4. blocos'[i] = blocos[i] \/ (i = j /\ blocos'[i] = Append(blocos[i], b))
    BY <1>7 DEF AnexarBloco, TypeOK
  <2>5. ASSUME NEW k \in DOMAIN blocos'[i], blocos'[i][k].hash = h
        PROVE  Decidida(i, h)
    <3>1. CASE blocos'[i] = blocos[i]
      BY <2>5, <3>1 DEF Decidida
    <3>2. CASE i = j /\ blocos'[i] = Append(blocos[i], b)
      <4>1. blocos[i] \in Seq(Bloco)
        BY DEF TypeOK
      <4>2. (k \in DOMAIN blocos[i] /\ blocos'[i][k] = blocos[i][k]) \/ blocos'[i][k] = b
        BY <1>t, <2>5, <3>2, <4>1
      <4> QED
        BY <2>2, <2>5, <3>2, <4>2 DEF Decidida
    <3> QED
      BY <2>4, <3>1, <3>2
  <2> QED
    BY <2>2, <2>3, <2>5 DEF Decidida
<1> QED
  BY <1>2, <1>3, <1>4, <1>5, <1>6, <1>7 DEF Continuar

LEMMA DecidirNoResto ==
  ASSUME TypeOK, Ambiente \/ (\E d \in Demandas : Propor(d)) \/ UNCHANGED vars,
         NEW i \in Brokers, NEW h \in Hashes, Decidida(i, h)'
  PROVE  Decidida(i, h)
<1> USE DEF chainVars, votoVars, propVars, redeVars
<1>1. CASE Ambiente
  BY <1>1 DEF Ambiente, RecargaAutomatica, ConectarPeers, RemoverConexao, PerderMensagem,
     ManterConexaoPeer, Decidida
<1>2. ASSUME NEW d \in Demandas, EsperarConsenso(d) \/ TimeoutConsenso(d)
      PROVE  Decidida(i, h)
  BY <1>2 DEF EsperarConsenso, TimeoutConsenso, Decidida
<1>3. ASSUME NEW d \in Demandas, MontarBloco(d) PROVE Decidida(i, h)
  <2>1. PICK b : tarefas' = [tarefas EXCEPT ![d.broker] = @ \cup {Tarefa("propagar", b)}]
    BY <1>3 DEF MontarBloco
  <2>2. ASSUME NEW t \in tarefas'[i], t \notin tarefas[i] PROVE t.op = "propagar"
    BY <2>1, <2>2 DEF TypeOK, Tarefa
  <2> QED
    BY <1>3, <2>2 DEF MontarBloco, Decidida
<1>4. CASE UNCHANGED vars
  BY <1>4 DEF vars, Decidida
<1> QED
  BY <1>1, <1>2, <1>3, <1>4 DEF Propor

LEMMA MaioriaAoPassar ==
  ASSUME TypeOK, VotosInv, MaxQuedas = 0, MaioriaInv, [Next]_vars
  PROVE  MaioriaInv'
<1>1. TypeOK' /\ VotosInv'
  BY TipoAoPassar, VotosAoPassar
<1>2. connBrokers' = connBrokers
  BY NadaCai DEF MaioriaInv
<1>3. ASSUME NEW i \in Brokers, NEW h \in Hashes, Decidida(i, h)'
      PROVE  TemMaioria(h)'
  <2>0. aceitou'[h] \in SUBSET Brokers /\ connBrokers[i] = Brokers \ {i}
    BY <1>1 DEF TypeOK, MaioriaInv
  <2>1. CASE Decidida(i, h) \/ Ofertada(h)
    <3>1. TemMaioria(h)
      BY <2>1 DEF MaioriaInv
    <3> QED
      BY <1>1, <3>1, MaioriaPermanece
  <2>2. CASE PorVotos(i, h)
    <3>1. /\ votosBloco'[i][h] \in Nat
          /\ votosBloco'[i][h] <= Cardinality(aceitou'[h])
      <4>1. votosBloco'[i][h] + Cardinality(Avisos(i, h)') <= Cardinality(aceitou'[h])
        BY <1>1 DEF VotosInv, Contagem
      <4>2. Avisos(i, h)' \in SUBSET Brokers
        BY DEF Avisos
      <4>3. /\ Cardinality(Avisos(i, h)') \in Nat /\ Cardinality(aceitou'[h]) \in Nat
        BY <2>0, <4>2, BrokersAssumption, FS_Subset, FS_CardinalityType
      <4>4. votosBloco'[i][h] \in Nat
        BY <1>1 DEF TypeOK
      <4> QED
        BY <4>1, <4>3, <4>4
    <3>2. aceitou'[h] \in Maiorias
      BY <2>0, <2>2, <3>1, QuorumEhMaioria DEF PorVotos
    <3> QED
      BY <3>2 DEF TemMaioria, Maiorias
  <2>3. CASE Sozinho(i, h)
    <3>1. aceitou'[h] \in Maiorias
      BY <2>0, <2>3, SoEhMaioria DEF Sozinho
    <3> QED
      BY <3>1 DEF TemMaioria, Maiorias
  <2>4. Decidida(i, h) \/ Ofertada(h) \/ PorVotos(i, h) \/ Sozinho(i, h)
    <3>1. \/ \E m \in rede : Receber(m)
          \/ \E j \in Brokers : \E t \in tarefas[j] : Continuar(j, t)
          \/ Ambiente \/ (\E d \in Demandas : Propor(d)) \/ UNCHANGED vars
      BY DEF Next, Progresso
    <3> QED
      BY <1>3, <3>1, DecidirAoReceber, DecidirAoContinuar, DecidirNoResto
  <2> QED
    BY <2>1, <2>2, <2>3, <2>4
<1>4. ASSUME NEW h \in Hashes, Ofertada(h)'
      PROVE  TemMaioria(h)'
  <2>1. PICK m \in rede' : /\ m.tipo = "RESP_BLOCKCHAIN"
                           /\ \E k \in DOMAIN m.chain : m.chain[k].hash = h
    BY <1>4 DEF Ofertada
  <2>2. CASE m \in rede
    BY <1>1, <2>1, <2>2, MaioriaPermanece DEF MaioriaInv, Ofertada
  <2>3. CASE m \notin rede
    <3>1. \E i \in Brokers : m.chain = blocos[i]
      BY <2>1, <2>3, RespostasNovas
    <3>2. \E i \in Brokers : Decidida(i, h)
      BY <2>1, <3>1 DEF Decidida
    <3> QED
      BY <1>1, <3>2, MaioriaPermanece DEF MaioriaInv
  <2> QED
    BY <2>2, <2>3
<1> QED
  BY <1>2, <1>3, <1>4 DEF MaioriaInv

LEMMA MaioriaNoInicio == Init => MaioriaInv
<1> SUFFICES ASSUME Init PROVE MaioriaInv
  OBVIOUS
<1>1. /\ \A i \in Brokers : blocos[i] = <<>> /\ tarefas[i] = {}
      /\ \A i \in Brokers : connBrokers[i] = Brokers \ {i}
      /\ rede = {}
  BY DEF Init
<1> QED
  BY <1>1 DEF MaioriaInv, Decidida, Ofertada

(* While no connection has dropped, a hash that broker i has decided to    *)
(* commit was accepted by a majority of the brokers.                       *)
LEMMA DecididaEhComprometida ==
  ASSUME TypeOK, MaioriaInv, NEW i \in Brokers, NEW h \in Comprometidos(i)
  PROVE  h \in Hashes /\ TemMaioria(h)
<1>1. CASE h \in HashesDe(blocos[i])
  <2>1. PICK k \in DOMAIN blocos[i] : h = blocos[i][k].hash
    BY <1>1 DEF HashesDe
  <2>2. blocos[i][k] \in Bloco
    BY DEF TypeOK
  <2> QED
    BY <2>1, <2>2 DEF MaioriaInv, Decidida, Bloco
<1>2. CASE h \in {t.bloco.hash : t \in {u \in tarefas[i] :
                                       u.op \in {"commitar", "anexar", "aplicar"}}}
  <2>1. PICK t \in tarefas[i] : /\ t.op \in {"commitar", "anexar", "aplicar"}
                                /\ h = t.bloco.hash
    BY <1>2
  <2>2. t.bloco \in Bloco
    BY DEF TypeOK
  <2> QED
    BY <2>1, <2>2 DEF MaioriaInv, Decidida, Bloco
<1> QED
  BY <1>1, <1>2 DEF Comprometidos

(* While no connection drops, a block that a node is about to commit, or   *)
(* has committed, was accepted by a majority of all the nodes              *)
(* (processarAceiteBloco, verificarMaioriaEComitar).                       *)
THEOREM MaioriaSempreInv == MaxQuedas = 0 /\ Spec => []MaioriaInv
<1>1. ASSUME MaxQuedas = 0 PROVE Spec => []MaioriaInv
  <2>1. TypeOK /\ VotosInv /\ MaioriaInv /\ [Next]_vars => MaioriaInv'
    BY <1>1, MaioriaAoPassar
  <2> QED
    BY <2>1, MaioriaNoInicio, TypeCorrect, VotosSempreContados, PTL DEF Spec
<1> QED
  BY <1>1

(* Whatever the brokers propose, vote, forget and download, no broker      *)
(* decides to commit, commits or adopts a block that less than a majority  *)
(* of all brokers accepted, while no connection has dropped (the quorum of *)
(* handleNovoBloco and handleAceiteBloco, commitarBloco, SubstituirChain). *)
THEOREM MaioriaSempreAceitou == Spec => []MaioriaAceitou
<1>1. ASSUME MaxQuedas = 0 PROVE Spec => []MaioriaAceitou
  <2>1. TypeOK /\ MaioriaInv => MaioriaAceitou
    BY DecididaEhComprometida DEF MaioriaAceitou
  <2>2. Spec => []MaioriaInv
    BY <1>1, MaioriaSempreInv
  <2> QED
    BY <2>1, <2>2, TypeCorrect, PTL
<1>2. ASSUME MaxQuedas # 0 PROVE Spec => []MaioriaAceitou
  <2>1. MaioriaAceitou
    BY <1>2 DEF MaioriaAceitou
  <2> QED
    BY <2>1, PTL
<1> QED
  BY <1>1, <1>2

(* Two chains that differ at a height do so because some broker accepted   *)
(* both blocks: with the connections up, a fork takes a voter that changed *)
(* its mind in the tie-break of handleNovoBloco.                           *)
THEOREM BifurcacaoSempreTemVotoDuplo == Spec => []BifurcacaoTemVotoDuplo
<1>1. ASSUME TypeOK, MaioriaAceitou PROVE BifurcacaoTemVotoDuplo
  <2> SUFFICES ASSUME MaxQuedas = 0, NEW i \in Brokers, NEW j \in Brokers,
                      NEW k \in (DOMAIN blocos[i]) \cap (DOMAIN blocos[j])
               PROVE  aceitou[blocos[i][k].hash] \cap aceitou[blocos[j][k].hash] # {}
    BY DEF BifurcacaoTemVotoDuplo
  <2> DEFINE S == aceitou[blocos[i][k].hash]
             T == aceitou[blocos[j][k].hash]
  <2>1. blocos[i][k].hash \in Comprometidos(i) /\ blocos[j][k].hash \in Comprometidos(j)
    BY DEF Comprometidos, HashesDe
  <2>2. S \in Maiorias /\ T \in Maiorias
    BY <1>1, <2>1 DEF MaioriaAceitou, TemMaioria
  <2> HIDE DEF S, T
  <2>3. /\ S \subseteq Brokers /\ T \subseteq Brokers
        /\ 2 * Cardinality(S) > Cardinality(Brokers)
        /\ 2 * Cardinality(T) > Cardinality(Brokers)
    BY <2>2 DEF Maiorias
  <2>4. Cardinality(S) \in Nat /\ Cardinality(T) \in Nat /\ Cardinality(Brokers) \in Nat
    BY <2>3, BrokersAssumption, FS_Subset, FS_CardinalityType
  <2>5. Cardinality(S) + Cardinality(T) > Cardinality(Brokers)
    BY <2>3, <2>4
  <2>6. S \cap T # {}
    BY <2>3, <2>5, BrokersAssumption, FS_MajoritiesIntersect
  <2> QED
    BY <2>6 DEF S, T
<1> QED
  BY <1>1, TypeCorrect, MaioriaSempreAceitou, PTL

-----------------------------------------------------------------------------
(* A block that somebody handles, or that some chain holds. *)
NaHistoria(b) == \E c \in Historias : \E k \in DOMAIN c : c[k] = b
Existe(b) == Circula(b) \/ NaHistoria(b)

(* A hash names one block, committed ones included. *)
HashesUnicos ==
    \A b, c \in Bloco : Existe(b) =>
        /\ b.hash \in usados
        /\ Existe(c) /\ c.hash = b.hash => c = b

(* A step that builds no block. *)
NadaMonta == usados' = usados /\ \A b : Circula(b)' => Circula(b)

(* A goroutine or a message more, about a block that circulates. *)
LEMMA SoRepassa ==
  ASSUME usados' = usados, NEW b, Circula(b),
         \A i \in Brokers : blocosPendentes'[i] \subseteq blocosPendentes[i] \cup {b},
         \A i \in Brokers : \A t \in tarefas'[i] : t \in tarefas[i] \/ t.bloco = b,
         \A m \in rede' : m.tipo = "NOVO_BLOCO" => m \in rede \/ m.bloco = b
  PROVE  NadaMonta
<1> SUFFICES ASSUME NEW c, Circula(c)', c # b PROVE Circula(c)
  BY DEF NadaMonta
<1>1. CASE \E i \in Brokers : c \in blocosPendentes'[i]
  BY <1>1 DEF Circula
<1>2. CASE \E i \in Brokers : \E t \in tarefas'[i] : t.bloco = c
  BY <1>2 DEF Circula
<1>3. CASE \E m \in rede' : m.tipo = "NOVO_BLOCO" /\ m.bloco = c
  BY <1>3 DEF Circula
<1> QED
  BY <1>1, <1>2, <1>3 DEF Circula

LEMMA EncaminharNaoMonta ==
  ASSUME SoEncaminha
  PROVE  NadaMonta
<1> SUFFICES ASSUME NEW c, Circula(c)' PROVE Circula(c)
  BY DEF NadaMonta, SoEncaminha
<1>1. CASE \E i \in Brokers : c \in blocosPendentes'[i]
  BY <1>1 DEF SoEncaminha, Circula
<1>2. CASE \E i \in Brokers : \E t \in tarefas'[i] : t.bloco = c
  BY <1>2 DEF SoEncaminha, Circula
<1>3. CASE \E m \in rede' : m.tipo = "NOVO_BLOCO" /\ m.bloco = c
  BY <1>3 DEF SoEncaminha, Circula
<1> QED
  BY <1>1, <1>2, <1>3 DEF Circula

(* Only Chain.ProporBloco brings a block into being. *)
LEMMA SoMontarMonta ==
  ASSUME TypeOK, SemLaco, [Next]_vars, \A d \in Demandas : ~ MontarBloco(d)
  PROVE  NadaMonta
<1> USE DEF chainVars, votoVars, propVars, redeVars
<1>1. ASSUME NEW m \in rede, Receber(m) PROVE NadaMonta
  <2>1. CASE AuditarHash(m)
    <3>1. Circula(m.bloco) /\ m.para \in Brokers
      BY <2>1, TipoDeNovo DEF AuditarHash, Circula, TypeOK
    <3> DEFINE Segue == IF ~ HashConfere(m.bloco) THEN {}
                        ELSE IF m.bloco.dados.tipo = "LAUDO" THEN {Tarefa("votar", m.bloco)}
                        ELSE {Tarefa("auditar", m.bloco)}
    <3>2. tarefas' = [tarefas EXCEPT ![m.para] = @ \cup Segue]
      BY <2>1 DEF AuditarHash
    <3>3. \A t \in Segue : t.bloco = m.bloco
      BY DEF Tarefa
    <3> HIDE DEF Segue
    <3>4. \A i \in Brokers : \A t \in tarefas'[i] : t \in tarefas[i] \/ t.bloco = m.bloco
      BY <3>1, <3>2, <3>3 DEF TypeOK
    <3> QED
      BY <2>1, <3>1, <3>4, SoRepassa DEF AuditarHash
  <2> QED
    BY <1>1, <2>1, EncaminhaAoReceber, EncaminharNaoMonta
<1>2. ASSUME NEW i \in Brokers, NEW t \in tarefas[i], Continuar(i, t) PROVE NadaMonta
  <2>0. Circula(t.bloco)
    BY DEF Circula
  <2>1. ASSUME NEW T, \A u \in T : u.bloco = t.bloco,
               tarefas' = [tarefas EXCEPT ![i] = (@ \ {t}) \cup T]
        PROVE  \A j \in Brokers : \A u \in tarefas'[j] : u \in tarefas[j] \/ u.bloco = t.bloco
    BY <2>1 DEF TypeOK
  <2>2. CASE PropagarBloco(i, t)
    <3>1. \A u \in SoloDecide(i, t.bloco) : u.bloco = t.bloco
      BY DEF SoloDecide, Tarefa
    <3>2. \A j \in Brokers : \A u \in tarefas'[j] : u \in tarefas[j] \/ u.bloco = t.bloco
      BY <2>1, <2>2, <3>1 DEF PropagarBloco
    <3>3. \A m \in {Novo(i, j, t.bloco) : j \in connBrokers[i]} : m.bloco = t.bloco
      BY DEF Novo
    <3>4. \A j \in Brokers : blocosPendentes'[j] \subseteq blocosPendentes[j] \cup {t.bloco}
      BY <2>2 DEF PropagarBloco, TypeOK
    <3> QED
      BY <2>0, <2>2, <3>2, <3>3, <3>4, SoRepassa DEF PropagarBloco
  <2>3. CASE AuditarTransacao(i, t)
    <3> DEFINE T == IF AuditoriaFinanceira(blocos[i], saldos[i], t.bloco.dados)
                    THEN {Tarefa("votar", t.bloco)} ELSE {}
    <3>1. \A u \in T : u.bloco = t.bloco
      BY DEF Tarefa
    <3>2. tarefas' = [tarefas EXCEPT ![i] = (@ \ {t}) \cup T]
      BY <2>3 DEF AuditarTransacao
    <3> HIDE DEF T
    <3>3. \A j \in Brokers : \A u \in tarefas'[j] : u \in tarefas[j] \/ u.bloco = t.bloco
      BY <2>1, <3>1, <3>2
    <3> QED
      BY <2>0, <2>3, <3>3, SoRepassa DEF AuditarTransacao
  <2>4. CASE VotarBloco(i, t)
    <3> DEFINE T == IF AtingeQuorum(i, VotosAoAceitar(i, t.bloco))
                    THEN {Tarefa("commitar", t.bloco)} ELSE {}
    <3>1. \A u \in T : u.bloco = t.bloco
      BY DEF Tarefa
    <3>2. tarefas' = [tarefas EXCEPT ![i] = (@ \ {t}) \cup T]
      BY <2>4 DEF VotarBloco
    <3> HIDE DEF T
    <3>3. \A j \in Brokers : \A u \in tarefas'[j] : u \in tarefas[j] \/ u.bloco = t.bloco
      BY <2>1, <3>1, <3>2
    <3>4. \A j \in Brokers : blocosPendentes'[j] \subseteq blocosPendentes[j] \cup {t.bloco}
      BY <2>4 DEF VotarBloco, TypeOK
    <3>5. /\ usados' = usados
          /\ rede' = rede \cup {Aceite(i, j, t.bloco.hash) : j \in connBrokers[i]}
      BY <2>4 DEF VotarBloco
    <3>6. \A m \in {Aceite(i, j, t.bloco.hash) : j \in connBrokers[i]} : m.tipo = "ACEITE_BLOCO"
      BY DEF Aceite
    <3> QED
      BY <2>0, <3>3, <3>4, <3>5, <3>6, SoRepassa
  <2> QED
    BY <1>2, <2>2, <2>3, <2>4, EncaminhaAoContinuar, EncaminharNaoMonta
<1>3. ASSUME NEW d \in Demandas, Propor(d) PROVE NadaMonta
  BY <1>3, EncaminhaAoEsperar, EncaminharNaoMonta DEF Propor
<1>4. CASE Ambiente
  BY <1>4, EncaminhaNoAmbiente, EncaminharNaoMonta
<1>5. CASE UNCHANGED vars
  BY <1>5 DEF vars, NadaMonta, Circula
<1> QED
  BY <1>1, <1>2, <1>3, <1>4, <1>5 DEF Next, Progresso

(* A chain gains a block only from a goroutine that holds it, or with the  *)
(* chain of some other broker.                                             *)
LEMMA HistoriaVemDeAlguem ==
  ASSUME TypeOK, [Next]_vars, NEW b, NaHistoria(b)'
  PROVE  Existe(b)
<1>1. PICK c \in Historias' : \E k \in DOMAIN c : c[k] = b
  BY DEF NaHistoria
<1>2. ASSUME NEW i \in Brokers, c = blocos[i] PROVE NaHistoria(b)
  BY <1>1, <1>2 DEF NaHistoria, Historias
<1>3. ASSUME NEW m \in rede, m.tipo = "RESP_BLOCKCHAIN", c = m.chain PROVE NaHistoria(b)
  BY <1>1, <1>3 DEF NaHistoria, Historias, ChainsEmTransito, Respostas
<1>4. ASSUME NEW i \in Brokers, c = blocos'[i] PROVE Existe(b)
  <2>1. CASE blocos'[i] = blocos[i]
    BY <1>2, <1>4, <2>1 DEF Existe
  <2>2. CASE \E m \in rede : m.tipo = "RESP_BLOCKCHAIN" /\ blocos'[i] = m.chain
    BY <1>3, <1>4, <2>2 DEF Existe
  <2>3. ASSUME NEW t \in tarefas[i], blocos'[i] = Append(blocos[i], t.bloco)
        PROVE  Existe(b)
    <3>1. PICK k \in DOMAIN c : c[k] = b
      BY <1>1
    <3>2. blocos[i] \in Seq(Bloco)
      BY DEF TypeOK
    <3>3. b = t.bloco \/ (k \in DOMAIN blocos[i] /\ blocos[i][k] = b)
      BY <1>4, <2>3, <3>1, <3>2
    <3>4. CASE b = t.bloco
      BY <3>4 DEF Existe, Circula
    <3>5. CASE k \in DOMAIN blocos[i] /\ blocos[i][k] = b
      BY <3>5 DEF Existe, NaHistoria, Historias
    <3> QED
      BY <3>3, <3>4, <3>5
  <2> QED
    BY <2>1, <2>2, <2>3, ComoAChainMuda
<1>5. ASSUME NEW m \in rede', m.tipo = "RESP_BLOCKCHAIN", c = m.chain PROVE Existe(b)
  <2>1. CASE m \in rede
    BY <1>3, <1>5, <2>1 DEF Existe
  <2>2. CASE m \notin rede
    BY <1>2, <1>5, <2>2, RespostasNovas DEF Existe
  <2> QED
    BY <2>1, <2>2
<1> QED
  BY <1>1, <1>4, <1>5 DEF Historias, ChainsEmTransito, Respostas

(* Chain.ProporBloco makes one block, with a hash nobody has. *)
LEMMA MontarMontaUm ==
  ASSUME TypeOK, NEW d \in Demandas, MontarBloco(d)
  PROVE  \E h \in Hashes \ usados, b \in Bloco :
            /\ b.hash = h /\ usados' = usados \cup {h}
            /\ \A c : Existe(c)' => Existe(c) \/ c = b
<1> USE DEF chainVars, votoVars, propVars, redeVars
<1> DEFINE i == d.broker
<1>d. i \in Brokers /\ d.dados \in Dados
  BY DemandasAssumption
<1>1. PICK h \in Hashes \ usados : \E b \in BlocosPossiveis(i, d.dados, h) :
          /\ usados' = usados \cup {h}
          /\ tarefas' = [tarefas EXCEPT ![i] = @ \cup {Tarefa("propagar", b)}]
  BY DEF MontarBloco
<1>2. PICK b \in BlocosPossiveis(i, d.dados, h) :
          /\ usados' = usados \cup {h}
          /\ tarefas' = [tarefas EXCEPT ![i] = @ \cup {Tarefa("propagar", b)}]
  BY <1>1
<1>3. b \in Bloco /\ b.hash = h
  BY <1>d, BlocoPossivelEhBloco, BlocoPossivelTemAutor
<1>4. Tarefa("propagar", b).bloco = b
  BY DEF Tarefa
<1>5. rede' = rede /\ blocosPendentes' = blocosPendentes /\ blocos' = blocos
  BY DEF MontarBloco
<1> HIDE DEF i
<1>6. ASSUME NEW j \in Brokers, NEW t \in tarefas'[j] PROVE t \in tarefas[j] \/ t.bloco = b
  BY <1>d, <1>2, <1>4 DEF TypeOK
<1>7. ASSUME NEW c, Circula(c)' PROVE Circula(c) \/ c = b
  BY <1>5, <1>6, <1>7 DEF Circula
<1>8. Historias' = Historias
  BY <1>5 DEF Historias, ChainsEmTransito, Respostas
<1>9. \A c : Existe(c)' => Existe(c) \/ c = b
  BY <1>7, <1>8 DEF Existe, NaHistoria
<1> QED
  BY <1>2, <1>3, <1>9

LEMMA UnicosAoPassar == TypeOK /\ SemLaco /\ HashesUnicos /\ [Next]_vars => HashesUnicos'
<1> SUFFICES ASSUME TypeOK, SemLaco, HashesUnicos, [Next]_vars PROVE HashesUnicos'
  OBVIOUS
<1>1. ASSUME NEW d \in Demandas, MontarBloco(d) PROVE HashesUnicos'
  <2>1. PICK h \in Hashes \ usados, b \in Bloco :
            /\ b.hash = h /\ usados' = usados \cup {h}
            /\ \A c : Existe(c)' => Existe(c) \/ c = b
    BY <1>1, MontarMontaUm
  <2>2. \A c \in Bloco : Existe(c) => c.hash # h
    BY <2>1 DEF HashesUnicos
  <2> QED
    BY <2>1, <2>2 DEF HashesUnicos
<1>2. CASE \A d \in Demandas : ~ MontarBloco(d)
  <2>1. NadaMonta
    BY <1>2, SoMontarMonta
  <2>2. \A b : Existe(b)' => Existe(b)
    <3> SUFFICES ASSUME NEW b, Existe(b)' PROVE Existe(b)
      OBVIOUS
    <3>1. Circula(b)' \/ NaHistoria(b)'
      BY DEF Existe
    <3> QED
      BY <2>1, <3>1, HistoriaVemDeAlguem DEF NadaMonta, Existe
  <2> QED
    BY <2>1, <2>2 DEF HashesUnicos, NadaMonta
<1> QED
  BY <1>1, <1>2

LEMMA UnicosNoInicio == Init => HashesUnicos
<1> SUFFICES ASSUME Init, NEW b PROVE ~ Existe(b)
  BY DEF HashesUnicos
<1>1. Historias \subseteq {<<>>}
  BY DEF Init, Historias, ChainsEmTransito, Respostas
<1>2. ~ NaHistoria(b)
  BY <1>1 DEF NaHistoria
<1>3. ~ Circula(b)
  BY DEF Init, Circula
<1> QED
  BY <1>2, <1>3 DEF Existe

(* Every chain, held or on its way, is a valid sequence of blocks. *)
LEMMA HistoriasValidas ==
  ASSUME TypeOK, ChainsValidas, NEW c \in Historias
  PROVE  c \in Seq(Bloco) /\ ChainValida(c)
<1>1. CASE \E i \in Brokers : c = blocos[i]
  BY <1>1 DEF TypeOK, ChainsValidas
<1>2. CASE \E m \in rede : m.tipo = "RESP_BLOCKCHAIN" /\ c = m.chain
  BY <1>2, TipoDeResp DEF TypeOK, ChainsValidas
<1> QED
  BY <1>1, <1>2 DEF Historias, ChainsEmTransito, Respostas

(* A block has one past, in every chain held or sent, for any brokers,     *)
(* proposals, forgeries and dropped connections: hash_anterior and the     *)
(* checks of CommitarBloco and SubstituirChain make the hash of a block    *)
(* stand for everything below it, and no chain holds a block twice.        *)
THEOREM PassadoSempreComum == Spec => []PassadoComum
<1>1. TypeOK /\ ChainsValidas /\ HashesUnicos => PassadoComum
  <2> SUFFICES ASSUME TypeOK, ChainsValidas, HashesUnicos, NEW c \in Historias, NEW d \in Historias
               PROVE  \A k \in DOMAIN c, l \in DOMAIN d :
                         c[k].hash = d[l].hash => k = l /\ \A n \in 1..k : c[n] = d[n]
    BY DEF PassadoComum
  <2>1. c \in Seq(Bloco) /\ d \in Seq(Bloco) /\ ChainValida(c) /\ ChainValida(d)
    BY HistoriasValidas
  <2>2. ASSUME NEW k \in DOMAIN c, NEW l \in DOMAIN d, c[k].hash = d[l].hash
        PROVE  c[k] = d[l]
    <3>1. c[k] \in Bloco /\ d[l] \in Bloco
      BY <2>1
    <3>2. Existe(c[k]) /\ Existe(d[l])
      BY DEF Existe, NaHistoria
    <3> QED
      BY <2>2, <3>1, <3>2 DEF HashesUnicos
  <2> QED
    BY <2>1, <2>2, MesmoBlocoMesmoPassado
<1>2. VotosInv => SemLaco
  BY DEF VotosInv, PedidosInv
<1>3. Spec => []HashesUnicos
  BY <1>2, UnicosNoInicio, UnicosAoPassar, TypeCorrect, VotosSempreContados, PTL DEF Spec
<1> QED
  BY <1>1, <1>3, TypeCorrect, ChainsSempreValidas, PTL

=============================================================================
