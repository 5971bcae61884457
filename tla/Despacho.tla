------------------------------ MODULE Despacho ------------------------------
(***************************************************************************)
(* From a reported occurrence to a flight (src/broker/broker.go and        *)
(* src/drone/drone.go): the queue of each broker, the Ricart-Agrawala      *)
(* exclusion that protects the choice of a drone, the reservation of the   *)
(* drone, the mission that waits for its payment, the command to the drone *)
(* and the report that comes back.                                         *)
(*                                                                         *)
(* As in Consenso, every handler runs in a goroutine of its own and is cut *)
(* where it releases b.mu, so messages are handled in any order; only      *)
(* RESERVA_DRONE is handled inline, before what follows it on the same     *)
(* connection.  What the payment's block goes through is Consenso's; here  *)
(* a payment is confirmed, refused, or forgotten by the mempool's timer.   *)
(***************************************************************************)
EXTENDS Integers, FiniteSets

CONSTANTS
    Brokers,        \* ids of the brokers: numbers, as in config.json
    Drones,         \* every drone registers with every broker
    Pedidos,        \* occurrences to be reported: [id, broker, prio, paga]
    Descarregam,    \* drones whose battery may run low
    MaxSalto,       \* bound: how far a Lamport clock jumps at a time
    MaxFalhas,      \* bound: missions that fail or time out, reports lost
    MaxQuedas       \* bound: connections that drop

VARIABLES
    novas,          \* occurrences nobody has reported yet
    fila,           \* queue of each broker
    drones,         \* Status of each drone as each broker has it
    missoesAtivas,  \* ids of the missions each broker has dispatched
    pendentes,      \* missoesPendentes: missions waiting for their payment
    comandos,       \* goroutines in enviarComandoFisicoDrone
    relogioLocal, requesting, inCS, currentReqOc, currentReqRA, respostasOK, deferred,
    connBrokers,
    tentativas,     \* goroutines about to run tentarDespachar
    tarefas,        \* goroutines between two critical sections
    rede,           \* messages sent and not handled, RA_OK apart
    oks,            \* RA_OK messages from one broker to another, not handled
    corpo,          \* Status of each drone as the drone itself has it
    voo,            \* occurrence each drone flies for
    falhas, quedas,
    furos           \* history: which gaps in the exclusion have been used

filaVars  == <<novas, fila, tentativas>>
missaoVars == <<drones, missoesAtivas, pendentes, comandos>>
raVars    == <<relogioLocal, requesting, inCS, currentReqOc, currentReqRA,
               respostasOK, deferred>>
redeVars  == <<connBrokers, rede, oks>>
droneVars == <<corpo, voo>>
limites   == <<falhas, quedas>>
vars == <<filaVars, missaoVars, raVars, redeVars, droneVars, limites, tarefas, furos>>

ASSUME BrokersAssumption == Brokers \subseteq Nat /\ IsFiniteSet(Brokers)

ASSUME PedidosAssumption ==
    Pedidos \subseteq [id : Nat \ {0}, broker : Brokers, prio : Nat \ {0}, paga : BOOLEAN]

ASSUME LimitesAssumption ==
    /\ Descarregam \subseteq Drones
    /\ MaxSalto \in Nat /\ MaxFalhas \in Nat /\ MaxQuedas \in Nat

-----------------------------------------------------------------------------
(* An occurrence; "paga" says that it has a Solicitante, who will pay.     *)
(* Nenhuma is the nil of currentReqOc.                                     *)
Ids == {p.id : p \in Pedidos}
Oc == [id : Ids \cup {0}, prio : Nat, paga : BOOLEAN]
Nenhuma == [id |-> 0, prio |-> 0, paga |-> FALSE]
Recarga == 0        \* the MissaoID of the report of a recharged drone

RARequest(i, j, ra) == [tipo |-> "RA_REQUEST", de |-> i, para |-> j, ra |-> ra]
Reserva(i, j, d)    == [tipo |-> "RESERVA_DRONE", de |-> i, para |-> j, drone |-> d]
Status(d, j, id)    == [tipo |-> "STATUS_DRONE", de |-> d, para |-> j, missao |-> id]
Registro(d, j)      == [tipo |-> "HANDSHAKE", de |-> d, para |-> j]

RA == [prio : Nat, relogio : Nat]
Mensagens ==
    [tipo : {"RA_REQUEST"}, de : Brokers, para : Brokers, ra : RA]
    \cup [tipo : {"RESERVA_DRONE"}, de : Brokers, para : Brokers, drone : Drones]
    \cup [tipo : {"STATUS_DRONE"}, de : Drones, para : Brokers, missao : Ids \cup {Recarga}]
    \cup [tipo : {"HANDSHAKE"}, de : Drones, para : Brokers]

(* What a goroutine does next: "pedir" (multicast the request), "entrar"   *)
(* ("entrarSo" if it found no peer to ask), "despachar" or "sair" of       *)
(* entrarCS.                                                               *)
Pedir(alvos) == [op |-> "pedir", alvos |-> alvos]
NaCS(op, oc) == [op |-> op, oc |-> oc]
Tarefas == [op : {"pedir"}, alvos : SUBSET Brokers]
           \cup [op : {"entrar", "entrarSo", "despachar", "sair"}, oc : Oc \cup {Nenhuma}]

Missao(oc, d) == [oc |-> oc, drone |-> d]
Comando(oc, d, fase) == [oc |-> oc, drone |-> d, fase |-> fase]

TypeOK ==
    /\ novas \subseteq Pedidos
    /\ fila \in [Brokers -> SUBSET Oc]
    /\ tentativas \in [Brokers -> Nat]
    /\ drones \in [Brokers -> [Drones -> {"disponivel", "em_missao", "indisponivel"}]]
    /\ missoesAtivas \in [Brokers -> SUBSET (Ids \cup {0})]
    /\ pendentes \in [Brokers -> SUBSET [oc : Oc, drone : Drones]]
    /\ comandos \in [Brokers -> SUBSET [oc : Oc, drone : Drones, fase : {"indo", "recusado"}]]
    /\ relogioLocal \in [Brokers -> Nat]
    /\ requesting \in [Brokers -> BOOLEAN]
    /\ inCS \in [Brokers -> BOOLEAN]
    /\ currentReqOc \in [Brokers -> Oc \cup {Nenhuma}]
    /\ currentReqRA \in [Brokers -> RA]
    /\ respostasOK \in [Brokers -> SUBSET Brokers]
    /\ deferred \in [Brokers -> SUBSET Brokers]
    /\ connBrokers \in [Brokers -> SUBSET Brokers]
    /\ rede \subseteq Mensagens
    /\ oks \in [Brokers -> [Brokers -> Nat]]
    /\ tarefas \in [Brokers -> SUBSET Tarefas]
    /\ corpo \in [Drones -> {"disponivel", "em_missao", "recarregando"}]
    /\ voo \in [Drones -> Ids \cup {0}]
    /\ falhas \in 0..MaxFalhas
    /\ quedas \in 0..MaxQuedas
    /\ furos \subseteq {"ultrapassagem", "brecha", "descarga", "sobreposicao", "aviso", "repetida"}

Init ==
    /\ novas = Pedidos
    /\ fila = [i \in Brokers |-> {}]
    /\ tentativas = [i \in Brokers |-> 0]
    /\ drones = [i \in Brokers |-> [d \in Drones |-> "disponivel"]]
    /\ missoesAtivas = [i \in Brokers |-> {}]
    /\ pendentes = [i \in Brokers |-> {}]
    /\ comandos = [i \in Brokers |-> {}]
    /\ relogioLocal = [i \in Brokers |-> 0]
    /\ requesting = [i \in Brokers |-> FALSE]
    /\ inCS = [i \in Brokers |-> FALSE]
    /\ currentReqOc = [i \in Brokers |-> Nenhuma]
    /\ currentReqRA = [i \in Brokers |-> [prio |-> 0, relogio |-> 0]]
    /\ respostasOK = [i \in Brokers |-> {}]
    /\ deferred = [i \in Brokers |-> {}]
    /\ connBrokers = [i \in Brokers |-> Brokers \ {i}]
    /\ rede = {}
    /\ oks = [i \in Brokers |-> [j \in Brokers |-> 0]]
    /\ tarefas = [i \in Brokers |-> {}]
    /\ corpo = [d \in Drones |-> "disponivel"]
    /\ voo = [d \in Drones |-> 0]
    /\ falhas = 0
    /\ quedas = 0
    /\ furos = {}

-----------------------------------------------------------------------------
(***************************************************************************)
(* The queue                                                               *)
(***************************************************************************)

(* FilaComAging: the most urgent is served first, a larger number being    *)
(* more urgent; among equals the model serves any.                         *)
MaisUrgentes(q) == {o \in q : \A p \in q : p.prio <= o.prio}
AplicarAging(q) == {[o EXCEPT !.prio = @ + 1] : o \in q}
SemDevolver(i, ocs) == fila                         \* a mutant of Devolver
Devolver(i, ocs) == [fila EXCEPT ![i] = @ \cup {[o EXCEPT !.prio = 3] : o \in ocs}]

(* handleOcorrencia, for an occurrence whose payer has the funds (one that *)
(* is refused changes nothing).                                            *)
HandleOcorrencia(p) ==
    /\ p \in novas
    /\ novas' = novas \ {p}
    /\ fila' = [fila EXCEPT ![p.broker] = @ \cup {[id |-> p.id, prio |-> p.prio, paga |-> p.paga]}]
    /\ tentativas' = [tentativas EXCEPT ![p.broker] = @ + 1]
    /\ UNCHANGED <<missaoVars, raVars, redeVars, droneVars, limites, tarefas, furos>>

(***************************************************************************)
(* Ricart-Agrawala                                                         *)
(***************************************************************************)

Livres(i) == {d \in Drones : drones[i][d] = "disponivel"}

PodePedir(i) == fila[i] # {} /\ Livres(i) # {} /\ ~ requesting[i] /\ ~ inCS[i]

(* A goroutine that has left the lock with all its OKs is in none of the   *)
(* states requesting and inCS until entrarCS takes the lock again.         *)
Entrando(i) == \E t \in tarefas[i] : t.op # "pedir"

(* tentarDespachar.  The clock also follows the wall-clock time of every   *)
(* message received (despachar), so it may have jumped.  The history notes *)
(* a request made over the remains of another ("sobreposicao").            *)
TentarDespachar(i) ==
    /\ tentativas[i] > 0
    /\ tentativas' = [tentativas EXCEPT ![i] = @ - 1]
    /\ IF PodePedir(i)
       THEN \E oc \in MaisUrgentes(fila[i]), salto \in 1..MaxSalto :
              /\ fila' = [fila EXCEPT ![i] = AplicarAging(@ \ {oc})]
              /\ relogioLocal' = [relogioLocal EXCEPT ![i] = @ + salto]
              /\ requesting' = [requesting EXCEPT ![i] = TRUE]
              /\ currentReqOc' = [currentReqOc EXCEPT ![i] = oc]
              /\ currentReqRA' = [currentReqRA EXCEPT ![i] =
                                    [prio |-> oc.prio, relogio |-> relogioLocal[i] + salto]]
              /\ respostasOK' = [respostasOK EXCEPT ![i] = {}]
              /\ deferred' = [deferred EXCEPT ![i] = {}]
              /\ tarefas' = [tarefas EXCEPT ![i] = @ \cup
                    {IF connBrokers[i] = {} THEN NaCS("entrarSo", oc) ELSE Pedir(connBrokers[i])}]
              /\ furos' = furos \cup (IF Entrando(i) THEN {"sobreposicao"} ELSE {})
              /\ UNCHANGED inCS
       ELSE UNCHANGED <<fila, raVars, tarefas, furos>>
    /\ UNCHANGED <<novas, missaoVars, redeVars, droneVars, limites>>

(* The multicast reads currentReqRA after the lock was released. *)
EnviarPedidos(i, t) ==
    /\ t.op = "pedir"
    /\ rede' = rede \cup {RARequest(i, j, currentReqRA[i]) : j \in t.alvos}
    /\ tarefas' = [tarefas EXCEPT ![i] = @ \ {t}]
    /\ UNCHANGED <<filaVars, missaoVars, raVars, connBrokers, oks, droneVars, limites, furos>>

(* My request against another's: priority, then the older clock, then the  *)
(* smaller id.                                                             *)
AntigoOuIgual(i, m) == currentReqRA[i].relogio <= m.ra.relogio  \* a mutant of MaisAntigo
MaisAntigo(i, m) ==
    \/ currentReqRA[i].relogio < m.ra.relogio
    \/ currentReqRA[i].relogio = m.ra.relogio /\ i < m.de
MeuPedidoVence(i, m) ==
    \/ currentReqRA[i].prio > m.ra.prio
    \/ currentReqRA[i].prio = m.ra.prio /\ MaisAntigo(i, m)

AdiaSoNaCS(i, m) == inCS[i]                         \* mutants of DeveAdiar
AdiaParado(i, m) == inCS[i] \/ MeuPedidoVence(i, m)
DeveAdiar(i, m) == inCS[i] \/ (requesting[i] /\ MeuPedidoVence(i, m))

(* enviarRAOK to every broker of a set that is still connected. *)
EnviarOKs(i, alvos) ==
    [oks EXCEPT ![i] = [j \in Brokers |-> IF j \in alvos \cap connBrokers[i]
                                          THEN @[j] + 1 ELSE @[j]]]
LiberarNinguem(i) == oks                            \* a mutant of LiberarAdiados
LiberarAdiados(i) == EnviarOKs(i, deferred[i])

(* handleRARequest.  The history notes a grant to a younger request of     *)
(* higher priority ("ultrapassagem") and a grant between the last OK and   *)
(* entrarCS ("brecha").  The reward proposed for letting a rival pass is   *)
(* a call of proporBloco, in Consenso.                                     *)
HandleRARequest(m) ==
    LET i == m.para IN
    /\ m.tipo = "RA_REQUEST"
    /\ rede' = rede \ {m}
    /\ relogioLocal' = [relogioLocal EXCEPT ![i] =
                           (IF @ > m.ra.relogio THEN @ ELSE m.ra.relogio) + 1]
    /\ IF DeveAdiar(i, m)
       THEN /\ deferred' = [deferred EXCEPT ![i] = @ \cup {m.de}]
            /\ UNCHANGED <<fila, oks, furos>>
       ELSE /\ fila' = IF requesting[i] THEN [fila EXCEPT ![i] = AplicarAging(@)] ELSE fila
            /\ deferred' = [deferred EXCEPT ![i] = @ \ {m.de}]
            /\ oks' = EnviarOKs(i, {m.de})
            /\ furos' = furos
                  \cup (IF requesting[i] /\ MaisAntigo(i, m) /\ m.ra.prio > currentReqRA[i].prio
                        THEN {"ultrapassagem"} ELSE {})
                  \cup (IF Entrando(i) /\ ~ inCS[i] THEN {"brecha"} ELSE {})
    /\ UNCHANGED <<novas, tentativas, missaoVars, requesting, inCS, currentReqOc,
                   currentReqRA, respostasOK, connBrokers, droneVars, limites, tarefas>>

(* The occurrence that is asked for is one a goroutine already enters      *)
(* with, alone: whoever grants the request makes a second one enter with   *)
(* it ("repetida").                                                        *)
JaEntra(i) == NaCS("entrarSo", currentReqOc[i]) \in tarefas[i]
Repetida(i, concedida) == IF concedida /\ JaEntra(i) THEN {"repetida"} ELSE {}

(* handleRAOK.  An OK does not say which request it answers.  A            *)
(* reservation sent before it on the connection has been handled.          *)
HandleRAOK(j, i) ==
    LET ativo == requesting[i] /\ ~ inCS[i]
        respostas == respostasOK[i] \cup {j}
        unanime == Cardinality(respostas) >= Cardinality(connBrokers[i])
    IN
    /\ oks[j][i] > 0
    /\ \A d \in Drones : Reserva(j, i, d) \notin rede
    /\ oks' = [oks EXCEPT ![j][i] = @ - 1]
    /\ respostasOK' = IF ativo THEN [respostasOK EXCEPT ![i] = respostas] ELSE respostasOK
    /\ requesting' = [requesting EXCEPT ![i] = @ /\ ~ (ativo /\ unanime)]
    /\ tarefas' = IF ativo /\ unanime
                  THEN [tarefas EXCEPT ![i] = @ \cup {NaCS("entrar", currentReqOc[i])}]
                  ELSE tarefas
    /\ furos' = furos \cup Repetida(i, ativo /\ unanime)
    /\ UNCHANGED <<filaVars, missaoVars, relogioLocal, inCS, currentReqOc, currentReqRA,
                   deferred, connBrokers, rede, droneVars, limites>>

(* entrarCS, in three critical sections: the flags, the dispatch and the   *)
(* exit.                                                                   *)
EntrarCS(i, t) ==
    /\ t.op \in {"entrar", "entrarSo"}
    /\ inCS' = [inCS EXCEPT ![i] = TRUE]
    /\ requesting' = [requesting EXCEPT ![i] = FALSE]
    /\ tarefas' = [tarefas EXCEPT ![i] = (@ \ {t}) \cup {NaCS("despachar", t.oc)}]
    /\ UNCHANGED <<filaVars, missaoVars, relogioLocal, currentReqOc, currentReqRA,
                   respostasOK, deferred, redeVars, droneVars, limites, furos>>

SemReserva(i, d) == {}                              \* a mutant of Reservas
Reservas(i, d) == {Reserva(i, j, d) : j \in connBrokers[i]}

(* despacharDrone: back to the queue if no drone is left; otherwise one is *)
(* reserved here and at every peer, and the mission waits for its payment  *)
(* or, if nobody pays, is commanded at once.                               *)
DespacharDrone(i, t) ==
    /\ t.op = "despachar"
    /\ t.oc # Nenhuma
    /\ tarefas' = [tarefas EXCEPT ![i] = (@ \ {t}) \cup {NaCS("sair", t.oc)}]
    /\ IF Livres(i) = {}
       THEN /\ fila' = Devolver(i, {t.oc})
            /\ UNCHANGED <<missaoVars, rede>>
       ELSE \E d \in Livres(i) :
            /\ drones' = [drones EXCEPT ![i][d] = "em_missao"]
            /\ missoesAtivas' = [missoesAtivas EXCEPT ![i] = @ \cup {t.oc.id}]
            /\ rede' = rede \cup Reservas(i, d)
            /\ IF t.oc.paga
               THEN /\ pendentes' = [pendentes EXCEPT ![i] = @ \cup {Missao(t.oc, d)}]
                    /\ UNCHANGED comandos
               ELSE /\ comandos' = [comandos EXCEPT ![i] = @ \cup {Comando(t.oc, d, "indo")}]
                    /\ UNCHANGED pendentes
            /\ UNCHANGED fila
    /\ UNCHANGED <<novas, tentativas, raVars, connBrokers, oks, droneVars, limites, furos>>

SairSemTentar(i) == tentativas                      \* a mutant of Tentar
(* "go b.tentarDespachar()" *)
Tentar(i) == [tentativas EXCEPT ![i] = @ + 1]

SairCS(i, t) ==
    /\ t.op = "sair"
    /\ inCS' = [inCS EXCEPT ![i] = FALSE]
    /\ currentReqOc' = [currentReqOc EXCEPT ![i] = Nenhuma]
    /\ respostasOK' = [respostasOK EXCEPT ![i] = {}]
    /\ oks' = LiberarAdiados(i)
    /\ deferred' = [deferred EXCEPT ![i] = {}]
    /\ tentativas' = Tentar(i)
    /\ tarefas' = [tarefas EXCEPT ![i] = @ \ {t}]
    /\ UNCHANGED <<novas, fila, missaoVars, relogioLocal, requesting, currentReqRA,
                   connBrokers, rede, droneVars, limites, furos>>

(***************************************************************************)
(* Missions                                                                *)
(***************************************************************************)

(* despachar, RESERVA_DRONE: handled inline. *)
HandleReserva(m) ==
    /\ m.tipo = "RESERVA_DRONE"
    /\ drones' = [drones EXCEPT ![m.para][m.drone] = "em_missao"]
    /\ rede' = rede \ {m}
    /\ UNCHANGED <<filaVars, missoesAtivas, pendentes, comandos, raVars, connBrokers, oks,
                   droneVars, limites, tarefas, furos>>

(* recolocarOcorrenciaNaFila, for the mission of occurrence oc on drone d. *)
Recolocar(i, oc, d, status) ==
    /\ drones' = [drones EXCEPT ![i][d] = status]
    /\ fila' = Devolver(i, {oc})
    /\ missoesAtivas' = [missoesAtivas EXCEPT ![i] = @ \ {oc.id}]
    /\ tentativas' = Tentar(i)

(* A mutant of ConfirmarPagamento: the mission stays in the mempool. *)
ConfirmarSemApagar(i, p) ==
    /\ comandos' = [comandos EXCEPT ![i] = @ \cup {Comando(p.oc, p.drone, "indo")}]
    /\ UNCHANGED <<filaVars, drones, missoesAtivas, pendentes, raVars, redeVars, droneVars,
                   limites, tarefas, furos>>

(* commitarBloco: the payment's block was committed and debited ... *)
ConfirmarPagamento(i, p) ==
    /\ pendentes' = [pendentes EXCEPT ![i] = @ \ {p}]
    /\ comandos' = [comandos EXCEPT ![i] = @ \cup {Comando(p.oc, p.drone, "indo")}]
    /\ UNCHANGED <<filaVars, drones, missoesAtivas, raVars, redeVars, droneVars, limites,
                   tarefas, furos>>

(* ... or committed without funds for it. *)
RecusarPagamento(i, p) ==
    /\ falhas < MaxFalhas
    /\ falhas' = falhas + 1
    /\ pendentes' = [pendentes EXCEPT ![i] = @ \ {p}]
    /\ Recolocar(i, p.oc, p.drone, "indisponivel")
    /\ UNCHANGED <<novas, comandos, raVars, redeVars, droneVars, quedas, tarefas, furos>>

(* monitorarMempool: every mission of one sweep that has waited too long.  *)
(* The drone is released here, and only here.                              *)
MonitorarMempool(i) ==
    /\ falhas < MaxFalhas
    /\ falhas' = falhas + 1
    /\ \E velhas \in SUBSET pendentes[i] \ {{}} :
          /\ pendentes' = [pendentes EXCEPT ![i] = @ \ velhas]
          /\ drones' = [drones EXCEPT ![i] = [d \in Drones |->
                           IF d \in {p.drone : p \in velhas} THEN "disponivel" ELSE @[d]]]
          /\ fila' = Devolver(i, {p.oc : p \in velhas})
          /\ missoesAtivas' = [missoesAtivas EXCEPT ![i] = @ \ {p.oc.id : p \in velhas}]
    /\ tentativas' = Tentar(i)
    /\ UNCHANGED <<novas, comandos, raVars, redeVars, droneVars, quedas, tarefas, furos>>

(* enviarComandoFisicoDrone and processarComando: a drone that is free     *)
(* takes off; one that is not makes the broker wait for its refusal.       *)
DecolarDrone(i, c) ==
    /\ c.fase = "indo"
    /\ IF corpo[c.drone] = "disponivel"
       THEN /\ corpo' = [corpo EXCEPT ![c.drone] = "em_missao"]
            /\ voo' = [voo EXCEPT ![c.drone] = c.oc.id]
            /\ comandos' = [comandos EXCEPT ![i] = @ \ {c}]
       ELSE /\ comandos' = [comandos EXCEPT ![i] = (@ \ {c}) \cup {[c EXCEPT !.fase = "recusado"]}]
            /\ UNCHANGED droneVars
    /\ UNCHANGED <<filaVars, drones, missoesAtivas, pendentes, raVars, redeVars, limites,
                   tarefas, furos>>

(* The command, or the drone's ACK, is lost: the broker cannot tell. *)
FalharComando(i, c) ==
    /\ c.fase = "indo"
    /\ falhas < MaxFalhas
    /\ falhas' = falhas + 1
    /\ comandos' = [comandos EXCEPT ![i] = @ \ {c}]
    /\ Recolocar(i, c.oc, c.drone, "indisponivel")
    /\ \/ UNCHANGED droneVars
       \/ /\ corpo[c.drone] = "disponivel"
          /\ corpo' = [corpo EXCEPT ![c.drone] = "em_missao"]
          /\ voo' = [voo EXCEPT ![c.drone] = c.oc.id]
    /\ UNCHANGED <<novas, pendentes, raVars, redeVars, quedas, tarefas, furos>>

RecolocarRecusada(i, c) ==
    /\ c.fase = "recusado"
    /\ comandos' = [comandos EXCEPT ![i] = @ \ {c}]
    /\ Recolocar(i, c.oc, c.drone, "em_missao")
    /\ UNCHANGED <<novas, pendentes, raVars, redeVars, droneVars, limites, tarefas, furos>>

(***************************************************************************)
(* The drone                                                               *)
(***************************************************************************)

(* executarMissao: the end of a flight is reported to every broker. *)
ConcluirMissao(d) ==
    /\ corpo[d] = "em_missao"
    /\ \E s \in {"disponivel"} \cup (IF d \in Descarregam THEN {"recarregando"} ELSE {}) :
          corpo' = [corpo EXCEPT ![d] = s]
    /\ voo' = [voo EXCEPT ![d] = 0]
    /\ rede' = rede \cup {Status(d, j, voo[d]) : j \in Brokers}
    /\ UNCHANGED <<filaVars, missaoVars, raVars, connBrokers, oks, limites, tarefas, furos>>

(* recarregar: registers again everywhere and sends a report of no mission. *)
Recarregar(d) ==
    /\ corpo[d] = "recarregando"
    /\ corpo' = [corpo EXCEPT ![d] = "disponivel"]
    /\ rede' = rede \cup {Registro(d, j) : j \in Brokers}
                    \cup {Status(d, j, Recarga) : j \in Brokers}
    /\ UNCHANGED <<filaVars, missaoVars, raVars, connBrokers, oks, voo, limites, tarefas, furos>>

(* Brokers with a mission on drone d. *)
Donos(d) == {i \in Brokers : d \in {p.drone : p \in pendentes[i] \cup comandos[i]}}

LiberarComoLivre(i, d) ==                           \* a mutant of Liberar
    /\ drones' = [drones EXCEPT ![i][d] = "livre"]
    /\ tentativas' = Tentar(i)

(* Broker i takes drone d for free.  The history notes when another broker *)
(* holds it ("aviso": the news was old).                                   *)
Liberar(i, d) ==
    /\ drones' = [drones EXCEPT ![i][d] = "disponivel"]
    /\ tentativas' = Tentar(i)

(* handleConexao, for a drone. *)
HandleRegistro(m) ==
    /\ m.tipo = "HANDSHAKE"
    /\ rede' = rede \ {m}
    /\ Liberar(m.para, m.de)
    /\ furos' = furos \cup (IF Donos(m.de) # {} THEN {"aviso"} ELSE {})
    /\ UNCHANGED <<novas, fila, missoesAtivas, pendentes, comandos, raVars, connBrokers, oks,
                   droneVars, limites, tarefas>>

(* handleStatusDrone: also answers the deferred requests, even if this     *)
(* broker is in its critical section or waiting for it ("descarga").       *)
HandleStatusDrone(m) ==
    LET i == m.para IN
    /\ m.tipo = "STATUS_DRONE"
    /\ rede' = rede \ {m}
    /\ Liberar(i, m.de)
    /\ oks' = LiberarAdiados(i)
    /\ deferred' = [deferred EXCEPT ![i] = {}]
    /\ missoesAtivas' = [missoesAtivas EXCEPT ![i] = @ \ {m.missao}]
    /\ furos' = furos \cup (IF Donos(m.de) # {} THEN {"aviso"} ELSE {})
                      \cup (IF deferred[i] # {} THEN {"descarga"} ELSE {})
    /\ UNCHANGED <<novas, fila, pendentes, comandos, relogioLocal, requesting, inCS,
                   currentReqOc, currentReqRA, respostasOK, connBrokers, droneVars, limites,
                   tarefas>>

(***************************************************************************)
(* Connections                                                             *)
(***************************************************************************)

(* removerConexao: the read loop of i's connection to j has ended. *)
RemoverConexao(i, j) ==
    /\ quedas < MaxQuedas
    /\ j \in connBrokers[i]
    /\ quedas' = quedas + 1
    /\ connBrokers' = [connBrokers EXCEPT ![i] = @ \ {j}]
    /\ IF requesting[i]
       THEN /\ respostasOK' = [respostasOK EXCEPT ![i] = @ \ {j}]
            /\ deferred' = [deferred EXCEPT ![i] = @ \ {j}]
       ELSE UNCHANGED <<respostasOK, deferred>>
    /\ UNCHANGED <<filaVars, missaoVars, relogioLocal, requesting, inCS, currentReqOc,
                   currentReqRA, rede, oks, droneVars, falhas, tarefas, furos>>

(* monitorarPeers: j has been silent for too long.  If the other OKs are   *)
(* there, i enters with an occurrence rebuilt from its id.                 *)
MonitorarPeers(i, j) ==
    LET resta == connBrokers[i] \ {j}
        basta == requesting[i] /\ resta # {}
                 /\ Cardinality(respostasOK[i] \ {j}) >= Cardinality(resta)
        refeita == [id |-> currentReqOc[i].id, prio |-> currentReqRA[i].prio, paga |-> FALSE]
    IN
    /\ quedas < MaxQuedas
    /\ j \in connBrokers[i]
    /\ quedas' = quedas + 1
    /\ connBrokers' = [connBrokers EXCEPT ![i] = resta]
    /\ IF requesting[i]
       THEN /\ respostasOK' = [respostasOK EXCEPT ![i] = @ \ {j}]
            /\ deferred' = [deferred EXCEPT ![i] = @ \ {j}]
       ELSE UNCHANGED <<respostasOK, deferred>>
    /\ requesting' = [requesting EXCEPT ![i] = @ /\ ~ basta]
    /\ tarefas' = IF basta THEN [tarefas EXCEPT ![i] = @ \cup {NaCS("entrar", refeita)}]
                  ELSE tarefas
    /\ furos' = furos \cup Repetida(i, basta)
    /\ UNCHANGED <<filaVars, missaoVars, relogioLocal, inCS, currentReqOc, currentReqRA,
                   rede, oks, droneVars, falhas>>

(* What was on a connection one end of which is gone may never be read. *)
Cortada(i, j) == j \notin connBrokers[i] \/ i \notin connBrokers[j]
PerderMensagem(m) ==
    /\ m.tipo \in {"RA_REQUEST", "RESERVA_DRONE"}
    /\ Cortada(m.de, m.para)
    /\ rede' = rede \ {m}
    /\ UNCHANGED <<filaVars, missaoVars, raVars, connBrokers, oks, droneVars, limites,
                   tarefas, furos>>
PerderOK(j, i) ==
    /\ oks[j][i] > 0
    /\ Cortada(j, i)
    /\ oks' = [oks EXCEPT ![j][i] = @ - 1]
    /\ UNCHANGED <<filaVars, missaoVars, raVars, connBrokers, rede, droneVars, limites,
                   tarefas, furos>>

(* tentarEnvio: the drone does not reach a broker and does not try again. *)
PerderAviso(m) ==
    /\ m.tipo \in {"STATUS_DRONE", "HANDSHAKE"}
    /\ falhas < MaxFalhas
    /\ falhas' = falhas + 1
    /\ rede' = rede \ {m}
    /\ UNCHANGED <<filaVars, missaoVars, raVars, connBrokers, oks, droneVars, quedas,
                   tarefas, furos>>

ManterConexaoPeer(i, j) ==
    /\ i # j
    /\ j \notin connBrokers[i]
    /\ connBrokers' = [connBrokers EXCEPT ![i] = @ \cup {j}, ![j] = @ \cup {i}]
    /\ UNCHANGED <<filaVars, missaoVars, raVars, rede, oks, droneVars, limites, tarefas, furos>>

-----------------------------------------------------------------------------
(* Entering the critical section for a nil occurrence (currentReqOc was    *)
(* cleared by another entrarCS) is a panic that takes the process down.    *)
Vivos == {i \in Brokers : NaCS("despachar", Nenhuma) \notin tarefas[i]}

(* What a broker's goroutines do. *)
Agir(i) ==
    \/ TentarDespachar(i)
    \/ \E t \in tarefas[i] :
          EnviarPedidos(i, t) \/ EntrarCS(i, t) \/ DespacharDrone(i, t) \/ SairCS(i, t)
    \/ \E p \in pendentes[i] : ConfirmarPagamento(i, p)
    \/ \E c \in comandos[i] : DecolarDrone(i, c) \/ RecolocarRecusada(i, c)
    \/ \E j \in Brokers : HandleRAOK(j, i)
    \/ \E m \in rede :
          /\ m.para = i
          /\ HandleRARequest(m) \/ HandleReserva(m) \/ HandleRegistro(m) \/ HandleStatusDrone(m)

Progresso ==
    \/ \E i \in Vivos : Agir(i)
    \/ \E d \in Drones : ConcluirMissao(d) \/ Recarregar(d)

Falhar(i) ==
    \/ \E p \in pendentes[i] : RecusarPagamento(i, p)
    \/ MonitorarMempool(i)
    \/ \E c \in comandos[i] : FalharComando(i, c)
    \/ \E j \in Brokers :
          RemoverConexao(i, j) \/ MonitorarPeers(i, j) \/ ManterConexaoPeer(i, j)

Ambiente ==
    \/ \E p \in novas : p.broker \in Vivos /\ HandleOcorrencia(p)
    \/ \E i \in Vivos : Falhar(i)
    \/ \E m \in rede : PerderMensagem(m) \/ PerderAviso(m)
    \/ \E i, j \in Brokers : PerderOK(j, i)

Next == Progresso \/ Ambiente

Spec == Init /\ [][Next]_vars

(* Go runs every goroutine, TCP delivers what was sent on a connection     *)
(* that lives, and a flight ends.  Nothing has to be reported, to fail or  *)
(* to be dialled again.                                                    *)
SpecJusta == Spec /\ WF_vars(Progresso)

-----------------------------------------------------------------------------
(***************************************************************************)
(* Properties                                                              *)
(***************************************************************************)

(* tentarDespachar: the "Algoritmo de Exclusao Mutua Distribuida".  At     *)
(* most one broker is in the critical section.                             *)
ExclusaoMutua ==
    \A i, j \in Brokers : inCS[i] /\ inCS[j] => i = j

(* While no connection drops, two brokers are in the critical section at   *)
(* once only after one of the gaps this module names: a grant to a younger *)
(* request of higher priority, a grant or a new request between the last   *)
(* RA_OK and entrarCS, or a discharge of the deferred by a drone's report. *)
ExclusaoSalvoFuros ==
    MaxQuedas = 0 /\ furos = {} => ExclusaoMutua

(* Brokers with a mission on d, one that only waits for its refusal apart. *)
Reservou(i, d) ==
    \/ \E p \in pendentes[i] : p.drone = d
    \/ \E c \in comandos[i] : c.drone = d /\ c.fase = "indo"

(* As long as connections hold and no gap was used, no two brokers commit  *)
(* one drone to two missions: RESERVA_DRONE reaches a peer before the      *)
(* RA_OK that lets it choose (despacharDrone, "bloqueio logico desse drone *)
(* em todos os nos").                                                      *)
ReservaSalvoFuros ==
    MaxQuedas = 0 /\ furos = {} =>
        \A i, j \in Brokers, d \in Drones : Reservou(i, d) /\ Reservou(j, d) => i = j

(* Whose request has the better claim: priority, older clock, smaller id.  *)
Precede(i, j) ==
    LET x == currentReqRA[i]
        y == currentReqRA[j]
    IN \/ x.prio > y.prio
       \/ x.prio = y.prio /\ x.relogio < y.relogio
       \/ x.prio = y.prio /\ x.relogio = y.relogio /\ i < j

(* No deadlock of the exclusion: while connections hold, whatever a broker *)
(* waits for is under way, or is kept by one that enters or has a better   *)
(* claim, and one that has every OK waits no more.  Claims being strictly  *)
(* ordered, nobody waits in a circle ("evita deadlock infinito").  Only a  *)
(* request made over the remains of another breaks it.                     *)
EsperaTemMotivo ==
    MaxQuedas = 0 /\ "sobreposicao" \notin furos =>
        \A i, j \in Brokers : i # j /\ requesting[i] /\ tarefas[i] = {} =>
            /\ \/ j \in respostasOK[i] \/ oks[j][i] > 0
               \/ RARequest(i, j, currentReqRA[i]) \in rede
               \/ i \in deferred[j] /\ (Entrando(j) \/ (requesting[j] /\ Precede(j, i)))
            /\ respostasOK[i] # Brokers \ {i}

(* A broker keeps a request deferred only while it is asking, entering or  *)
(* in the critical section: otherwise nobody would ever answer it          *)
(* (handleRARequest, entrarCS).                                            *)
AdiadosEsperamAlguem ==
    \A i \in Brokers : deferred[i] # {} => requesting[i] \/ inCS[i] \/ Entrando(i)

(* No lost wake-up: an occurrence in the queue of an idle broker that sees *)
(* a free drone has a goroutine coming for it (every path that fills the   *)
(* queue or frees a drone or the broker ends in "go b.tentarDespachar()"). *)
SemDespertarPerdido ==
    \A i \in Brokers : PodePedir(i) => tentativas[i] > 0 \/ Entrando(i)

(* Where broker i keeps occurrence id. *)
NaFila(i, id)  == \E o \in fila[i] : o.id = id
NoRA(i, id)    == \/ requesting[i] /\ currentReqOc[i].id = id
                  \/ \E t \in tarefas[i] :
                        t.op \in {"entrar", "entrarSo", "despachar"} /\ t.oc.id = id
NaMissao(i, id) ==
    \/ \E p \in pendentes[i] : p.oc.id = id
    \/ \E c \in comandos[i] : c.oc.id = id
Presente(id) ==
    \/ \E p \in novas : p.id = id
    \/ \E i \in Brokers : NaFila(i, id) \/ NoRA(i, id) \/ NaMissao(i, id)
    \/ \E d \in Drones : voo[d] = id

(* An occurrence is never dropped on its way through queue, exclusion,     *)
(* mempool, command, refusals and rollbacks: only the end of its flight    *)
(* ends it.                                                                *)
NenhumaSome ==
    \A id \in Ids : Presente(id) /\ ~ Presente(id)' => \E d \in Drones : voo[d] = id
SoOVooEncerra == [][NenhumaSome]_vars

(* Nor is it worked on twice: rollbacks, refusals and time-outs leave it   *)
(* in one place, unless a broker that enters alone is granted its request  *)
(* by an OK or a removal on top ("repetida").                              *)
UmLugarSo ==
    "repetida" \notin furos => \A i \in Brokers, id \in Ids :
        /\ ~ (NaFila(i, id) /\ (NoRA(i, id) \/ NaMissao(i, id)))
        /\ ~ (NoRA(i, id) /\ NaMissao(i, id))

(* README: "o drone so decola apos a confirmacao do pagamento".  A command *)
(* for an occurrence with a payer has been through its payment.            *)
SoVooPago ==
    \A i \in Brokers : \A c \in comandos[i] : \A p \in Pedidos :
        p.id = c.oc.id => p.paga = c.oc.paga

(* Every request of the exclusion is eventually granted (handleRARequest:  *)
(* "evita deadlock infinito").                                             *)
PedidoAtendido ==
    \A i \in Brokers : requesting[i] ~> ~ requesting[i]

(* entrarCS: "Varre quem ficou na geladeira esperando e libera (Manda      *)
(* OKs)".  A deferred request leaves the set with an OK to a peer that is  *)
(* connected; forgotten, it would wait for ever.                           *)
NenhumAdiadoEsquecido ==
    \A i \in Brokers : \A j \in deferred[i] \cap connBrokers[i] :
        j \in deferred'[i] \/ j \notin connBrokers'[i] \/ oks'[i][j] > oks[i][j]
AdiadoRecebeOK == [][NenhumAdiadoEsquecido]_vars

(* Both can fail only after tentarDespachar has asked again over the       *)
(* remains of a request ("sobreposicao"): it empties deferred, and the     *)
(* entrarCS that is still running cancels the new request                  *)
(* (tentarDespachar, entrarCS).                                            *)
SoSobreposicaoPerde ==
    [][ "sobreposicao" \notin furos' => NenhumaSome /\ NenhumAdiadoEsquecido ]_vars

(* Only then can entrarCS be left with the nil of currentReqOc, which      *)
(* despacharDrone dereferences (handleRAOK, entrarCS).                     *)
NilSoComSobreposicao ==
    "sobreposicao" \notin furos => Vivos = Brokers

(* README: a peer that is removed "libera requisicoes de Ricart-Agrawala   *)
(* pendentes contra ele, evitando deadlocks".  A request that has the OK   *)
(* of every peer still connected is granted.                               *)
PedidoLiberado ==
    \A i \in Brokers :
        requesting[i] /\ connBrokers[i] \subseteq respostasOK[i] ~> ~ requesting[i]

=============================================================================
