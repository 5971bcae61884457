------------------------------ MODULE Consenso ------------------------------
(***************************************************************************)
(* The proof-of-authority consensus of src/broker/broker.go: how a block   *)
(* is proposed, audited, voted, committed and applied, and how a broker    *)
(* that sees an unexpected hash_anterior downloads a chain.                *)
(*                                                                         *)
(* Every handler runs in a goroutine of its own (despachar: "go            *)
(* b.handle...") and releases its locks between steps, so messages are     *)
(* handled in any order and a handler is cut wherever it releases a lock   *)
(* another handler may take.  A message in "rede" is one that is on the    *)
(* wire or in a goroutine that has not run yet; a task in "tarefas" is a   *)
(* goroutine between two of its critical sections.                         *)
(***************************************************************************)
EXTENDS Ledger

CONSTANTS
    Demandas,       \* the calls of proporBloco: [broker, dados, vez]
    Maliciosos,     \* brokers started with MALICIOUS=true
    Iniciantes,     \* brokers whose conectarPeers has not asked for a chain yet
    MaxQuedas       \* bound: connections that may drop

VARIABLES
    blocos,          \* chain.Blocos of each broker, without the genesis
    saldos,          \* chain.Saldos of each broker
    blocosPendentes, \* blocks each broker is voting on
    votosBloco,      \* votes each broker has counted for each hash
    esperandoSync,   \* is the synchronisation window open?
    connBrokers,     \* peers each broker is connected to
    tarefas,         \* goroutines of each broker, between critical sections
    rede,            \* messages sent and not handled
    fase,            \* progress of each call of proporBloco
    iniciando,       \* brokers whose first solicitarChain is still to come
    quedas,          \* connections dropped so far
    usados,          \* history: hashes some block has
    aceitou          \* history: who accepted each hash, its author included

chainVars == <<blocos, saldos>>
votoVars  == <<blocosPendentes, votosBloco, aceitou>>
propVars  == <<fase, usados>>
redeVars  == <<connBrokers, iniciando, quedas>>
vars == <<chainVars, votoVars, propVars, redeVars, esperandoSync, tarefas, rede>>

ASSUME DemandasAssumption ==
    /\ IsFiniteSet(Demandas)
    /\ Demandas \subseteq [broker : Brokers, dados : Dados, vez : Nat]

ASSUME PapeisAssumption ==
    /\ Maliciosos \subseteq Brokers
    /\ Iniciantes \subseteq Brokers
    /\ MaxQuedas \in Nat

-----------------------------------------------------------------------------
(* Messages.  "causa" tells apart the requests of different calls of       *)
(* solicitarChain: the hash that set it off, or the genesis at start-up.   *)
Novo(i, j, b)     == [tipo |-> "NOVO_BLOCO", de |-> i, para |-> j, bloco |-> b]
Aceite(i, j, h)   == [tipo |-> "ACEITE_BLOCO", de |-> i, para |-> j, hash |-> h]
ReqChain(i, j, h) == [tipo |-> "REQ_BLOCKCHAIN", de |-> i, para |-> j, causa |-> h]
RespChain(i, j, h, chain) ==
    [tipo |-> "RESP_BLOCKCHAIN", de |-> i, para |-> j, causa |-> h, chain |-> chain]

Mensagens ==
    [tipo : {"NOVO_BLOCO"}, de : Brokers, para : Brokers, bloco : Bloco]
    \cup [tipo : {"ACEITE_BLOCO"}, de : Brokers, para : Brokers, hash : Hashes]
    \cup [tipo : {"REQ_BLOCKCHAIN"}, de : Brokers, para : Brokers,
          causa : Hashes \cup {HashGenesis}]
    \cup [tipo : {"RESP_BLOCKCHAIN"}, de : Brokers, para : Brokers,
          causa : Hashes \cup {HashGenesis}, chain : Seq(Bloco)]

(* What a goroutine does next: "propagar" a block just built, "auditar" or *)
(* "votar" a block received, "commitar" (claim it), "anexar" (append it),  *)
(* "aplicar" (debit and credit).                                           *)
Passos == {"propagar", "auditar", "votar", "commitar", "anexar", "aplicar"}
Tarefa(op, b) == [op |-> op, bloco |-> b]

TypeOK ==
    /\ blocos \in [Brokers -> Seq(Bloco)]
    /\ saldos \in [Brokers -> [Contas -> Int]]
    /\ blocosPendentes \in [Brokers -> SUBSET Bloco]
    /\ votosBloco \in [Brokers -> [Hashes -> Nat]]
    /\ esperandoSync \in [Brokers -> BOOLEAN]
    /\ connBrokers \in [Brokers -> SUBSET Brokers]
    /\ tarefas \in [Brokers -> SUBSET [op : Passos, bloco : Bloco]]
    /\ rede \subseteq Mensagens
    /\ fase \in [Demandas -> {"nova", "esperando", "liberada", "montada"}]
    /\ iniciando \subseteq Brokers
    /\ quedas \in 0..MaxQuedas
    /\ usados \subseteq Hashes
    /\ aceitou \in [Hashes -> SUBSET Brokers]

Init ==
    /\ blocos = [i \in Brokers |-> <<>>]
    /\ saldos = [i \in Brokers |-> [c \in Contas |-> SaldoInicial]]
    /\ blocosPendentes = [i \in Brokers |-> {}]
    /\ votosBloco = [i \in Brokers |-> [h \in Hashes |-> 0]]
    /\ esperandoSync = [i \in Brokers |-> FALSE]
    /\ connBrokers = [i \in Brokers |-> Brokers \ {i}]
    /\ tarefas = [i \in Brokers |-> {}]
    /\ rede = {}
    /\ fase = [d \in Demandas |-> IF d.dados.tipo = "RECARGA" THEN "nova" ELSE "esperando"]
    /\ iniciando = Iniciantes
    /\ quedas = 0
    /\ usados = {}
    /\ aceitou = [h \in Hashes |-> {}]

-----------------------------------------------------------------------------
(* totalAtivos and the simple majority, counted over the connections the   *)
(* broker has at the moment.                                               *)
TotalAtivos(i) == Cardinality(connBrokers[i]) + 1
Quorum(i) == TotalAtivos(i) \div 2 + 1
QuorumEstrito(i, votos) == votos > Quorum(i)    \* a mutant of AtingeQuorum
AtingeQuorum(i, votos) == votos >= Quorum(i)

(* solicitarChain: one request to every connected peer. *)
Solicitacoes(i, h) == {ReqChain(i, j, h) : j \in connBrokers[i]}

(***************************************************************************)
(* proporBloco                                                             *)
(***************************************************************************)

(* recargaAutomaticaLoop calls proporBloco when it finds a low balance,    *)
(* and never in a malicious broker.  The other callers' goroutines wait in *)
(* proporBloco from the start; when they were started makes no difference. *)
RecargaAutomatica(d) ==
    /\ fase[d] = "nova"
    /\ d.broker \notin Maliciosos
    /\ saldos[d.broker][d.dados.conta] < LimiteRecarga
    /\ fase' = [fase EXCEPT ![d] = "esperando"]
    /\ UNCHANGED <<chainVars, votoVars, redeVars, esperandoSync, tarefas, rede, usados>>

(* The wait ends when no block is being voted on ... *)
EsperarConsenso(d) ==
    /\ fase[d] = "esperando"
    /\ blocosPendentes[d.broker] = {}
    /\ fase' = [fase EXCEPT ![d] = "liberada"]
    /\ UNCHANGED <<chainVars, votoVars, redeVars, esperandoSync, tarefas, rede, usados>>

(* ... or after three seconds, by forgetting every block and every vote.   *)
TimeoutConsenso(d) ==
    LET i == d.broker IN
    /\ fase[d] = "esperando"
    /\ blocosPendentes[i] # {}
    /\ blocosPendentes' = [blocosPendentes EXCEPT ![i] = {}]
    /\ votosBloco' = [votosBloco EXCEPT ![i] = [h \in Hashes |-> 0]]
    /\ fase' = [fase EXCEPT ![d] = "liberada"]
    /\ UNCHANGED <<chainVars, aceitou, redeVars, esperandoSync, tarefas, rede, usados>>

(* A block with hash h by broker i. *)
Montado(i, h, anterior, dados, ok) ==
    [hash |-> h, anterior |-> anterior, dados |-> dados, autor |-> i, integro |-> ok]

(* A mutant of BlocosPossiveis: every block gets the next block's hash. *)
BlocosHashTrocado(i, dados, h) == {Montado(i, h + 1, Ponta(blocos[i]), dados, TRUE)}

(* The blocks broker i may build on its tip: the honest one, or one of the *)
(* three attacks: the Salami reward, a hash_anterior or a payload changed  *)
(* after the hash was computed.                                            *)
BlocosPossiveis(i, dados, h) ==
    IF i \notin Maliciosos THEN {Montado(i, h, Ponta(blocos[i]), dados, TRUE)}
    ELSE {Montado(i, h, Ponta(blocos[i]), [tipo |-> "RENOVA", conta |-> c, oc |-> o], TRUE) :
             c \in Contas, o \in Ocorrencias}
         \cup {Montado(i, h, Deadbeef, dados, FALSE),
               Montado(i, h, Ponta(blocos[i]), dados, FALSE)}

(* Chain.ProporBloco: reads the tip and computes a hash nobody has. *)
MontarBloco(d) ==
    /\ fase[d] = "liberada"
    /\ \E h \in Hashes \ usados :
       \E b \in BlocosPossiveis(d.broker, d.dados, h) :
          /\ usados' = usados \cup {h}
          /\ tarefas' = [tarefas EXCEPT ![d.broker] = @ \cup {Tarefa("propagar", b)}]
    /\ fase' = [fase EXCEPT ![d] = "montada"]
    /\ UNCHANGED <<chainVars, votoVars, redeVars, esperandoSync, rede>>

SempreDecide(i, b) == {Tarefa("commitar", b)}   \* a mutant of SoloDecide

(* A broker with no peer commits its own block at once. *)
SoloDecide(i, b) == IF connBrokers[i] = {} THEN {Tarefa("commitar", b)} ELSE {}

(* propagarBloco: registers the block with its author's vote and sends it  *)
(* to every peer.                                                          *)
PropagarBloco(i, t) ==
    /\ t.op = "propagar"
    /\ blocosPendentes' = [blocosPendentes EXCEPT ![i] = @ \cup {t.bloco}]
    /\ votosBloco' = [votosBloco EXCEPT ![i][t.bloco.hash] = 1]
    /\ aceitou' = [aceitou EXCEPT ![t.bloco.hash] = @ \cup {i}]
    /\ rede' = rede \cup {Novo(i, j, t.bloco) : j \in connBrokers[i]}
    /\ tarefas' = [tarefas EXCEPT ![i] = (@ \ {t}) \cup SoloDecide(i, t.bloco)]
    /\ UNCHANGED <<chainVars, propVars, redeVars, esperandoSync>>

(***************************************************************************)
(* handleNovoBloco                                                         *)
(***************************************************************************)

(* First defence: a block that does not extend the local tip opens the     *)
(* synchronisation window and asks every peer for its chain.               *)
DetectarFork(m) ==
    /\ m.tipo = "NOVO_BLOCO"
    /\ m.bloco.anterior # Ponta(blocos[m.para])
    /\ esperandoSync' = [esperandoSync EXCEPT ![m.para] = TRUE]
    /\ rede' = (rede \ {m}) \cup Solicitacoes(m.para, m.bloco.hash)
    /\ UNCHANGED <<chainVars, votoVars, propVars, redeVars, tarefas>>

(* Second defence: a block whose hash is not that of its contents is       *)
(* dropped.  A block that passes goes on to the financial audit, if it     *)
(* carries a transaction.                                                  *)
AuditarHash(m) ==
    /\ m.tipo = "NOVO_BLOCO"
    /\ m.bloco.anterior = Ponta(blocos[m.para])
    /\ rede' = rede \ {m}
    /\ tarefas' = [tarefas EXCEPT ![m.para] = @ \cup
          (IF ~ HashConfere(m.bloco) THEN {}
           ELSE IF m.bloco.dados.tipo = "LAUDO" THEN {Tarefa("votar", m.bloco)}
           ELSE {Tarefa("auditar", m.bloco)})]
    /\ UNCHANGED <<chainVars, votoVars, propVars, redeVars, esperandoSync>>

(* The financial audit reads the ledger again, which may have changed.     *)
AuditarTransacao(i, t) ==
    /\ t.op = "auditar"
    /\ tarefas' = [tarefas EXCEPT ![i] = (@ \ {t}) \cup
          (IF AuditoriaFinanceira(blocos[i], saldos[i], t.bloco.dados)
           THEN {Tarefa("votar", t.bloco)} ELSE {})]
    /\ UNCHANGED <<chainVars, votoVars, propVars, redeVars, esperandoSync, rede>>

(* The pending blocks that compete with b for the same predecessor. *)
Rivais(i, b) == {p \in blocosPendentes[i] : p.anterior = b.anterior}
Menores(i, b) == {p \in Rivais(i, b) : p.hash < b.hash}
Maiores(i, b) == {p \in Rivais(i, b) : p.hash > b.hash}
SemVotos(i, bs) == [h \in Hashes |-> IF h \in {p.hash : p \in bs} THEN 0
                                     ELSE votosBloco[i][h]]

(* The tie-break, lost: some pending rival has a smaller hash.  The loop   *)
(* over the map runs in any order, and may have deleted some of the larger *)
(* rivals before it meets the smaller one.                                 *)
PerderDesempate(i, t) ==
    /\ t.op = "votar"
    /\ Menores(i, t.bloco) # {}
    /\ \E apagados \in SUBSET Maiores(i, t.bloco) :
          /\ blocosPendentes' = [blocosPendentes EXCEPT ![i] = @ \ apagados]
          /\ votosBloco' = [votosBloco EXCEPT ![i] = SemVotos(i, apagados)]
    /\ tarefas' = [tarefas EXCEPT ![i] = @ \ {t}]
    /\ UNCHANGED <<chainVars, aceitou, propVars, redeVars, esperandoSync, rede>>

(* A mutant of VotosAoAceitar: a new block starts with its author and i, *)
(* and is then counted once more.                                        *)
VotosContadosDuasVezes(i, b) ==
    (IF b \in blocosPendentes[i] THEN votosBloco[i][b.hash] ELSE 2) + 1

(* The votes for b at i after i accepts it: a block not yet registered     *)
(* starts at one (its author's), whatever votes had arrived before it.     *)
VotosAoAceitar(i, b) ==
    (IF b \in blocosPendentes[i] THEN votosBloco[i][b.hash] ELSE 1) + 1

(* The tie-break, won: larger rivals are deleted, the block is registered  *)
(* and voted, every peer is told, and a majority commits it.               *)
VotarBloco(i, t) ==
    LET b == t.bloco
        votos == VotosAoAceitar(i, b)
    IN
    /\ t.op = "votar"
    /\ Menores(i, b) = {}
    /\ blocosPendentes' = [blocosPendentes EXCEPT ![i] = (@ \ Maiores(i, b)) \cup {b}]
    /\ votosBloco' = [votosBloco EXCEPT ![i] =
                        [SemVotos(i, Maiores(i, b)) EXCEPT ![b.hash] = votos]]
    /\ aceitou' = [aceitou EXCEPT ![b.hash] = @ \cup {i}]
    /\ rede' = rede \cup {Aceite(i, j, b.hash) : j \in connBrokers[i]}
    /\ tarefas' = [tarefas EXCEPT ![i] = (@ \ {t}) \cup
           (IF AtingeQuorum(i, votos) THEN {Tarefa("commitar", b)} ELSE {})]
    /\ UNCHANGED <<chainVars, propVars, redeVars, esperandoSync>>

(***************************************************************************)
(* handleAceiteBloco and commitarBloco                                     *)
(***************************************************************************)

(* A vote is counted even for a hash that is not (or no longer) pending.   *)
HandleAceiteBloco(m) ==
    LET i == m.para
        votos == votosBloco[i][m.hash] + 1
        aprovados == {p \in blocosPendentes[i] : p.hash = m.hash /\ AtingeQuorum(i, votos)}
    IN
    /\ m.tipo = "ACEITE_BLOCO"
    /\ votosBloco' = [votosBloco EXCEPT ![i][m.hash] = votos]
    /\ tarefas' = [tarefas EXCEPT ![i] = @ \cup {Tarefa("commitar", p) : p \in aprovados}]
    /\ rede' = rede \ {m}
    /\ UNCHANGED <<chainVars, blocosPendentes, aceitou, propVars, redeVars, esperandoSync>>

(* commitarBloco claims the block: of several goroutines that reached the  *)
(* quorum one finds it pending, the others return.                         *)
ReivindicarBloco(i, t) ==
    /\ t.op = "commitar"
    /\ IF t.bloco \in blocosPendentes[i]
       THEN /\ blocosPendentes' = [blocosPendentes EXCEPT ![i] = @ \ {t.bloco}]
            /\ votosBloco' = [votosBloco EXCEPT ![i][t.bloco.hash] = 0]
            /\ tarefas' = [tarefas EXCEPT ![i] = (@ \ {t}) \cup {Tarefa("anexar", t.bloco)}]
       ELSE /\ tarefas' = [tarefas EXCEPT ![i] = @ \ {t}]
            /\ UNCHANGED <<blocosPendentes, votosBloco>>
    /\ UNCHANGED <<chainVars, aceitou, propVars, redeVars, esperandoSync, rede>>

(* Chain.CommitarBloco: appends the block, or fails and nothing follows.   *)
AnexarBloco(i, t) ==
    /\ t.op = "anexar"
    /\ IF AceitaCommit(blocos[i], t.bloco)
       THEN /\ blocos' = [blocos EXCEPT ![i] = Append(@, t.bloco)]
            /\ tarefas' = [tarefas EXCEPT ![i] = (@ \ {t}) \cup
                  (IF t.bloco.dados.tipo = "LAUDO" THEN {} ELSE {Tarefa("aplicar", t.bloco)})]
       ELSE /\ tarefas' = [tarefas EXCEPT ![i] = @ \ {t}]
            /\ UNCHANGED blocos
    /\ UNCHANGED <<saldos, votoVars, propVars, redeVars, esperandoSync, rede>>

(* The debit or the credit, under a later acquisition of the chain's lock. *)
AplicarTransacao(i, t) ==
    /\ t.op = "aplicar"
    /\ saldos' = [saldos EXCEPT ![i] = AplicaDados(@, t.bloco.dados)]
    /\ tarefas' = [tarefas EXCEPT ![i] = @ \ {t}]
    /\ UNCHANGED <<blocos, votoVars, propVars, redeVars, esperandoSync, rede>>

(***************************************************************************)
(* Synchronisation                                                         *)
(***************************************************************************)

(* conectarPeers: opens the window once, after start-up. *)
ConectarPeers(i) ==
    /\ i \in iniciando
    /\ iniciando' = iniciando \ {i}
    /\ esperandoSync' = [esperandoSync EXCEPT ![i] = TRUE]
    /\ rede' = rede \cup Solicitacoes(i, HashGenesis)
    /\ UNCHANGED <<chainVars, votoVars, propVars, connBrokers, quedas, tarefas>>

HandleReqChain(m) ==
    /\ m.tipo = "REQ_BLOCKCHAIN"
    /\ rede' = (rede \ {m}) \cup {RespChain(m.para, m.de, m.causa, blocos[m.para])}
    /\ UNCHANGED <<chainVars, votoVars, propVars, redeVars, esperandoSync, tarefas>>

(* handleRespChain: an answer nobody waits for is dropped; the first one   *)
(* closes the window, whether or not SubstituirChain then takes the chain. *)
HandleRespChain(m) ==
    LET i == m.para IN
    /\ m.tipo = "RESP_BLOCKCHAIN"
    /\ rede' = rede \ {m}
    /\ esperandoSync' = [esperandoSync EXCEPT ![i] = FALSE]
    /\ IF esperandoSync[i] /\ AceitaSubstituir(m.chain, blocos[i])
       THEN /\ blocos' = [blocos EXCEPT ![i] = m.chain]
            /\ saldos' = [saldos EXCEPT ![i] = Replay(m.chain)]
       ELSE UNCHANGED chainVars
    /\ UNCHANGED <<votoVars, propVars, redeVars, tarefas>>

(***************************************************************************)
(* Connections                                                             *)
(***************************************************************************)

(* monitorarPeers or removerConexao: i drops its connection to j. *)
RemoverConexao(i, j) ==
    /\ quedas < MaxQuedas
    /\ j \in connBrokers[i]
    /\ connBrokers' = [connBrokers EXCEPT ![i] = @ \ {j}]
    /\ quedas' = quedas + 1
    /\ UNCHANGED <<chainVars, votoVars, propVars, iniciando, esperandoSync, tarefas, rede>>

(* What was on a connection one end of which is gone may never be read. *)
PerderMensagem(m) ==
    /\ m.de \notin connBrokers[m.para] \/ m.para \notin connBrokers[m.de]
    /\ rede' = rede \ {m}
    /\ UNCHANGED <<chainVars, votoVars, propVars, redeVars, esperandoSync, tarefas>>

(* manterConexaoPeer dials again; handleConexao at the other end answers.  *)
(* Nobody asks for a chain on reconnection.                                *)
ManterConexaoPeer(i, j) ==
    /\ i # j
    /\ j \notin connBrokers[i]
    /\ connBrokers' = [connBrokers EXCEPT ![i] = @ \cup {j}, ![j] = @ \cup {i}]
    /\ UNCHANGED <<chainVars, votoVars, propVars, iniciando, quedas,
                   esperandoSync, tarefas, rede>>

-----------------------------------------------------------------------------
Receber(m) ==
    \/ DetectarFork(m)
    \/ AuditarHash(m)
    \/ HandleAceiteBloco(m)
    \/ HandleReqChain(m)
    \/ HandleRespChain(m)

Continuar(i, t) ==
    \/ PropagarBloco(i, t)
    \/ AuditarTransacao(i, t)
    \/ PerderDesempate(i, t)
    \/ VotarBloco(i, t)
    \/ ReivindicarBloco(i, t)
    \/ AnexarBloco(i, t)
    \/ AplicarTransacao(i, t)

Propor(d) ==
    \/ EsperarConsenso(d)
    \/ TimeoutConsenso(d)
    \/ MontarBloco(d)

(* What the Go scheduler, the timers and a live connection bring about. *)
Progresso ==
    \/ \E m \in rede : Receber(m)
    \/ \E i \in Brokers : \E t \in tarefas[i] : Continuar(i, t)
    \/ \E d \in Demandas : Propor(d)

(* What the environment may do, or not. *)
Ambiente ==
    \/ \E d \in Demandas : RecargaAutomatica(d)
    \/ \E i \in Brokers : ConectarPeers(i)
    \/ \E i, j \in Brokers : RemoverConexao(i, j)
    \/ \E m \in rede : PerderMensagem(m)
    \/ \E i, j \in Brokers : ManterConexaoPeer(i, j)

Next == Progresso \/ Ambiente

Spec == Init /\ [][Next]_vars

(* Every goroutine that can run eventually runs, and every message sent on *)
(* a live connection is eventually handled: a behaviour only stops when    *)
(* nothing is left to do.                                                  *)
SpecJusta == Spec /\ WF_vars(Progresso)

-----------------------------------------------------------------------------
(***************************************************************************)
(* Properties                                                              *)
(***************************************************************************)

Maiorias == {v \in SUBSET Brokers : 2 * Cardinality(v) > Cardinality(Brokers)}

TemMaioria(h) == aceitou[h] \in Maiorias

(* Hashes that broker i has decided to commit, or has committed. *)
Comprometidos(i) ==
    HashesDe(blocos[i])
    \cup {t.bloco.hash : t \in {u \in tarefas[i] : u.op \in {"commitar", "anexar", "aplicar"}}}

(* Every chain a broker holds, or sends to a peer, is linked by hashes     *)
(* back to the genesis and holds no altered block, although blocks are     *)
(* approved against one tip and appended, or replaced, against another     *)
(* (CommitarBloco, SubstituirChain).                                       *)
ChainsValidas ==
    /\ \A i \in Brokers : ChainValida(blocos[i])
    /\ \A m \in rede : m.tipo = "RESP_BLOCKCHAIN" => ChainValida(m.chain)

(* A broker never counts more votes for a block than there are brokers     *)
(* that accepted it: no order of NOVO_BLOCO, ACEITE_BLOCO, time-outs and   *)
(* tie-breaks counts an acceptance twice (votosBloco, handleNovoBloco and  *)
(* handleAceiteBloco).                                                     *)
VotosReais ==
    \A i \in Brokers, h \in Hashes : votosBloco[i][h] <= Cardinality(aceitou[h])

(* While no connection has dropped, no broker decides to commit, commits   *)
(* or downloads a block that less than a majority of the brokers accepted  *)
(* (README: "so e commitado apos atingir quorum de maioria simples").      *)
MaioriaAceitou ==
    MaxQuedas = 0 =>
        \A i \in Brokers : \A h \in Comprometidos(i) : TemMaioria(h)

(* While no connection has dropped, two chains that differ at a height do  *)
(* so because some broker accepted both blocks: forks come from the        *)
(* tie-break, which lets a voter change its mind, and from nothing else.   *)
BifurcacaoTemVotoDuplo ==
    MaxQuedas = 0 =>
        \A i, j \in Brokers : \A k \in (DOMAIN blocos[i]) \cap (DOMAIN blocos[j]) :
            blocos[i][k].hash # blocos[j][k].hash =>
                aceitou[blocos[i][k].hash] \cap aceitou[blocos[j][k].hash] # {}

(* A broker's chain only changes for one that wins the fork choice, so two *)
(* brokers never trade the two sides of a fork back and forth.             *)
DisputaMonotona ==
    [][\A i \in Brokers : blocos'[i] # blocos[i] => VenceDisputa(blocos'[i], blocos[i])]_vars

(* An altered block, or one with a forged hash_anterior, is voted by       *)
(* nobody but the broker that forged it, and enters no chain.              *)
AdulteradoIsolado ==
    \A i \in Brokers :
        /\ \A k \in DOMAIN blocos[i] : blocos[i][k].integro
        /\ \A b \in blocosPendentes[i] :
              ~ b.integro => b.autor = i /\ aceitou[b.hash] = {i}

EmTodaChain(h) == \A i \in Brokers : h \in HashesDe(blocos[i])

(* The comment of handleAceiteBloco: "Se atingir Quorum, solidifica".  A   *)
(* block that a majority accepts is eventually in every broker's chain.    *)
QuorumSolidifica ==
    \A h \in Hashes : TemMaioria(h) ~> EmTodaChain(h)

(* The comment of CommitarBloco: it "anexa definitivamente" an approved    *)
(* block.  A committed block never leaves the chain.                       *)
CommitDefinitivo ==
    [][\A i \in Brokers : \A k \in DOMAIN blocos[i] :
          k \in DOMAIN blocos'[i] /\ blocos'[i][k] = blocos[i][k]]_vars

(* The README on double spending: such a block is rejected, its quorum is  *)
(* never reached.  No chain spends credits a wallet does not have.         *)
SemDuploGasto ==
    \A i \in Brokers, c \in Contas : Replay(blocos[i])[c] >= 0

(* The comment in SubstituirChain: the replay guarantees that balances     *)
(* reflect the chain.  They do whenever no debit or credit is in progress. *)
SaldosRefletemChain ==
    \A i \in Brokers :
        (\A t \in tarefas[i] : t.op # "aplicar") => saldos[i] = Replay(blocos[i])

(* The README on the Salami attack: an occurrence is rewarded once. *)
SemSalami ==
    \A i \in Brokers : \A k, l \in DOMAIN blocos[i] :
        /\ blocos[i][k].dados.tipo = "RENOVA"
        /\ blocos[i][l].dados = blocos[i][k].dados
        => k = l

(* The comment of SubstituirChain's tie-breaker: "O menor vence,           *)
(* unificando a rede".  In the end all brokers have the same chain.        *)
MenorHashUnifica ==
    <>[](\A i, j \in Brokers : blocos[i] = blocos[j])

(* The README on crash recovery: the window closes at "a primeira resposta *)
(* valida", with which the broker replaces its chain.  It does not close   *)
(* on a refused answer while one it would take is on its way.              *)
JanelaFechaComValida ==
    [][\A i \in Brokers :
          /\ esperandoSync[i] /\ ~ esperandoSync'[i]
          /\ blocos'[i] = blocos[i]
          => \A m \in rede : ~ /\ m.tipo = "RESP_BLOCKCHAIN"
                               /\ m.para = i
                               /\ AceitaSubstituir(m.chain, blocos[i])]_vars

(* The answers that are on their way, and the chains they carry. *)
Respostas == {m \in rede : m.tipo = "RESP_BLOCKCHAIN"}
ChainsEmTransito == {m.chain : m \in Respostas}

(* However blocks are proposed, voted, committed, asked for and lost, the  *)
(* brokers keep the ledger Livro describes: a chain grows by blocks that   *)
(* fit its tip, or becomes a better one that some broker really had when   *)
(* it was asked (CommitarBloco, handleReqChain, SubstituirChain).          *)
L == INSTANCE Livro WITH livro <- blocos, ofertas <- ChainsEmTransito
ImplementaLivro == L!Spec

(* The chains that brokers hold and the chains on their way. *)
Historias == {blocos[i] : i \in Brokers} \cup ChainsEmTransito

(* A block has one past: wherever two chains hold the same hash they hold  *)
(* it at the same height, above the same blocks, and no chain holds a      *)
(* block twice, although each is appended by a goroutine that was approved *)
(* against some older tip (CommitarBloco) or comes with a downloaded chain *)
(* (SubstituirChain).                                                      *)
PassadoComum ==
    \A c, d \in Historias : \A k \in DOMAIN c, l \in DOMAIN d :
        c[k].hash = d[l].hash => k = l /\ \A n \in 1..k : c[n] = d[n]

=============================================================================
