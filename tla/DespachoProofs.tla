--------------------------- MODULE DespachoProofs ---------------------------
(***************************************************************************)
(* What is proved of Despacho, for any brokers, drones, occurrences and    *)
(* bounds, in this order:                                                  *)
(*   - nobody keeps a request deferred while idle;                         *)
(*   - no wake-up is lost: a broker that could ask has somebody coming;    *)
(*   - every variable has its type;                                        *)
(*   - while connections hold, two brokers are in the critical section     *)
(*     only after a gap that the module names was used;                    *)
(*   - and nobody waits for nothing, or in a circle, until a request is    *)
(*     made while another enters;                                          *)
(*   - and, under the first proviso, no two brokers reserve one drone;     *)
(*   - an occurrence is in one place only;                                 *)
(*   - only a request made while another enters loses an occurrence or     *)
(*     forgets a deferred request, and only after one does a broker        *)
(*     dispatch a nil occurrence.                                          *)
(***************************************************************************)
EXTENDS Despacho, FiniteSetTheorems, TLAPS

(* The part of the type invariant the argument needs: these variables are  *)
(* functions of the brokers, and two of them of booleans.                  *)
Formas ==
    /\ deferred = [i \in Brokers |-> deferred[i]]
    /\ tarefas = [i \in Brokers |-> tarefas[i]]
    /\ requesting \in [Brokers -> BOOLEAN]
    /\ inCS \in [Brokers -> BOOLEAN]

IInv == Formas /\ AdiadosEsperamAlguem

ondeAdia == <<deferred, tarefas, requesting, inCS>>

(* Most actions touch none of the four variables. *)
LEMMA NadaAdia ==
    ASSUME IInv, UNCHANGED ondeAdia
    PROVE  IInv'
BY DEF IInv, Formas, AdiadosEsperamAlguem, Entrando, ondeAdia

(* A broker that has started a step of entrarCS is entering. *)
LEMMA TarefaEntra ==
    ASSUME Formas, NEW i \in Brokers, NEW resto, NEW oc,
           NEW op, op # "pedir",
           tarefas' = [tarefas EXCEPT ![i] = resto \cup {NaCS(op, oc)}]
    PROVE  Entrando(i)'
<1>1. NaCS(op, oc) \in tarefas'[i]
  BY DEF Formas
<1>2. NaCS(op, oc).op = op
  BY DEF NaCS
<1>3. \E t \in tarefas'[i] : t.op # "pedir"
  BY <1>1, <1>2
<1> QED BY <1>3 DEF Entrando

(* A new request starts with nothing deferred. *)
LEMMA AoTentar ==
    ASSUME IInv, NEW i \in Brokers, TentarDespachar(i)
    PROVE  IInv'
<1>1. CASE PodePedir(i)
  <2>1. PICK oc \in MaisUrgentes(fila[i]) :
          /\ requesting' = [requesting EXCEPT ![i] = TRUE]
          /\ deferred' = [deferred EXCEPT ![i] = {}]
          /\ tarefas' = [tarefas EXCEPT ![i] = @ \cup
                {IF connBrokers[i] = {} THEN NaCS("entrarSo", oc) ELSE Pedir(connBrokers[i])}]
          /\ UNCHANGED inCS
    BY <1>1 DEF TentarDespachar
  <2>2. Formas'
    BY <2>1 DEF IInv, Formas
  <2>3. AdiadosEsperamAlguem'
    BY <2>1 DEF IInv, Formas, AdiadosEsperamAlguem, Entrando
  <2> QED BY <2>2, <2>3 DEF IInv
<1>2. CASE ~ PodePedir(i)
  BY <1>2, NadaAdia DEF TentarDespachar, ondeAdia, raVars
<1> QED BY <1>1, <1>2

(* The multicast ends a task that was not entering. *)
LEMMA AoEnviar ==
    ASSUME IInv, NEW i \in Brokers, NEW t \in tarefas[i], EnviarPedidos(i, t)
    PROVE  IInv'
<1>1. /\ tarefas' = [tarefas EXCEPT ![i] = @ \ {t}]
      /\ UNCHANGED <<deferred, requesting, inCS>>
      /\ t.op = "pedir"
  BY DEF EnviarPedidos, raVars
<1>2. Formas'
  BY <1>1 DEF IInv, Formas
<1>3. \A k \in Brokers : Entrando(k) => Entrando(k)'
  BY <1>1 DEF IInv, Formas, Entrando
<1> QED BY <1>1, <1>2, <1>3 DEF IInv, AdiadosEsperamAlguem

(* A request is deferred only by a broker that is asking or inside. *)
LEMMA AoPedirem ==
    ASSUME IInv, NEW m, m.para \in Brokers, HandleRARequest(m)
    PROVE  IInv'
<1> DEFINE i == m.para
<1>1. UNCHANGED <<tarefas, requesting, inCS>>
  BY DEF HandleRARequest
<1>2. CASE DeveAdiar(i, m)
  <2>1. deferred' = [deferred EXCEPT ![i] = @ \cup {m.de}]
    BY <1>2 DEF HandleRARequest
  <2>2. requesting[i] \/ inCS[i]
    BY <1>2 DEF DeveAdiar
  <2> QED BY <1>1, <2>1, <2>2 DEF IInv, Formas, AdiadosEsperamAlguem, Entrando
<1>3. CASE ~ DeveAdiar(i, m)
  <2>1. deferred' = [deferred EXCEPT ![i] = @ \ {m.de}]
    BY <1>3 DEF HandleRARequest
  <2> QED BY <1>1, <2>1 DEF IInv, Formas, AdiadosEsperamAlguem, Entrando
<1> QED BY <1>2, <1>3

(* The last OK turns a request into a task that enters. *)
LEMMA AoReceberOK ==
    ASSUME IInv, NEW i \in Brokers, NEW j \in Brokers, HandleRAOK(j, i)
    PROVE  IInv'
<1> DEFINE ultimo == /\ requesting[i] /\ ~ inCS[i]
                     /\ Cardinality(respostasOK[i] \cup {j}) >= Cardinality(connBrokers[i])
<1>1. UNCHANGED <<deferred, inCS>>
  BY DEF HandleRAOK
<1>2. CASE ultimo
  <2>1. /\ requesting' = [requesting EXCEPT ![i] = FALSE]
        /\ tarefas' = [tarefas EXCEPT ![i] = @ \cup {NaCS("entrar", currentReqOc[i])}]
    BY <1>2 DEF HandleRAOK
  <2>2. Formas'
    BY <1>1, <2>1 DEF IInv, Formas
  <2>3. Entrando(i)'
    BY <2>1, TarefaEntra DEF IInv
  <2>4. \A k \in Brokers : k # i => tarefas'[k] = tarefas[k] /\ requesting'[k] = requesting[k]
    BY <2>1 DEF IInv, Formas
  <2> QED BY <1>1, <2>2, <2>3, <2>4 DEF IInv, AdiadosEsperamAlguem, Entrando
<1>3. CASE ~ ultimo
  <2>1. requesting' = [requesting EXCEPT ![i] = @ /\ TRUE] /\ UNCHANGED tarefas
    BY <1>3 DEF HandleRAOK
  <2>2. UNCHANGED requesting
    BY <2>1 DEF IInv, Formas
  <2> QED BY <1>1, <2>1, <2>2, NadaAdia DEF ondeAdia
<1> QED BY <1>2, <1>3

(* Inside entrarCS the broker stays inside until it answers everybody. *)
LEMMA AoEntrar ==
    ASSUME IInv, NEW i \in Brokers, NEW t \in tarefas[i],
           EntrarCS(i, t) \/ DespacharDrone(i, t) \/ SairCS(i, t)
    PROVE  IInv'
<1>1. CASE EntrarCS(i, t)
  <2>1. /\ inCS' = [inCS EXCEPT ![i] = TRUE]
        /\ requesting' = [requesting EXCEPT ![i] = FALSE]
        /\ tarefas' = [tarefas EXCEPT ![i] = (@ \ {t}) \cup {NaCS("despachar", t.oc)}]
        /\ UNCHANGED deferred
    BY <1>1 DEF EntrarCS
  <2> QED BY <2>1 DEF IInv, Formas, AdiadosEsperamAlguem, Entrando
<1>2. CASE DespacharDrone(i, t)
  <2>1. /\ tarefas' = [tarefas EXCEPT ![i] = (@ \ {t}) \cup {NaCS("sair", t.oc)}]
        /\ UNCHANGED <<deferred, requesting, inCS>>
    BY <1>2 DEF DespacharDrone, raVars
  <2>2. Formas'
    BY <2>1 DEF IInv, Formas
  <2>3. Entrando(i)'
    BY <2>1, TarefaEntra DEF IInv
  <2>4. \A k \in Brokers : k # i => tarefas'[k] = tarefas[k]
    BY <2>1 DEF IInv, Formas
  <2> QED BY <2>1, <2>2, <2>3, <2>4 DEF IInv, AdiadosEsperamAlguem, Entrando
<1>3. CASE SairCS(i, t)
  <2>1. /\ inCS' = [inCS EXCEPT ![i] = FALSE]
        /\ deferred' = [deferred EXCEPT ![i] = {}]
        /\ tarefas' = [tarefas EXCEPT ![i] = @ \ {t}]
        /\ UNCHANGED requesting
    BY <1>3 DEF SairCS
  <2> QED BY <2>1 DEF IInv, Formas, AdiadosEsperamAlguem, Entrando
<1> QED BY <1>1, <1>2, <1>3

(* The report of a drone answers everybody. *)
LEMMA AoRelatar ==
    ASSUME IInv, NEW m, m.para \in Brokers, HandleStatusDrone(m)
    PROVE  IInv'
<1>1. /\ deferred' = [deferred EXCEPT ![m.para] = {}]
      /\ UNCHANGED <<tarefas, requesting, inCS>>
  BY DEF HandleStatusDrone
<1> QED BY <1>1 DEF IInv, Formas, AdiadosEsperamAlguem, Entrando

(* A dropped connection only takes requests out of the set, and a request  *)
(* it completes becomes a task that enters.                                *)
LEMMA AoCair ==
    ASSUME IInv, NEW i \in Brokers, NEW j \in Brokers,
           RemoverConexao(i, j) \/ MonitorarPeers(i, j)
    PROVE  IInv'
<1>1. UNCHANGED inCS
  BY DEF RemoverConexao, MonitorarPeers
<1>2. deferred' = [deferred EXCEPT ![i] = @ \ {j}] \/ UNCHANGED deferred
  BY DEF RemoverConexao, MonitorarPeers
<1>3. \/ UNCHANGED <<tarefas, requesting>>
      \/ /\ requesting' = [requesting EXCEPT ![i] = FALSE]
         /\ \E oc : tarefas' = [tarefas EXCEPT ![i] = @ \cup {NaCS("entrar", oc)}]
  <2>1. CASE RemoverConexao(i, j)
    BY <2>1 DEF RemoverConexao
  <2>2. CASE MonitorarPeers(i, j)
    <3> DEFINE basta == /\ requesting[i] /\ connBrokers[i] \ {j} # {}
                        /\ Cardinality(respostasOK[i] \ {j}) >= Cardinality(connBrokers[i] \ {j})
    <3>1. CASE basta
      BY <2>2, <3>1 DEF MonitorarPeers
    <3>2. CASE ~ basta
      <4>1. requesting' = [requesting EXCEPT ![i] = @ /\ TRUE] /\ UNCHANGED tarefas
        BY <2>2, <3>2 DEF MonitorarPeers
      <4> QED BY <4>1 DEF IInv, Formas
    <3> QED BY <3>1, <3>2
  <2> QED BY <2>1, <2>2
<1>4. Formas'
  BY <1>1, <1>2, <1>3 DEF IInv, Formas
<1>5. \A k \in Brokers : deferred'[k] # {} => deferred[k] # {}
  BY <1>2 DEF IInv, Formas
<1>6. CASE UNCHANGED <<tarefas, requesting>>
  BY <1>1, <1>4, <1>5, <1>6 DEF IInv, AdiadosEsperamAlguem, Entrando
<1>7. ASSUME requesting' = [requesting EXCEPT ![i] = FALSE],
             NEW oc, tarefas' = [tarefas EXCEPT ![i] = @ \cup {NaCS("entrar", oc)}]
      PROVE  IInv'
  <2>1. Entrando(i)'
    BY <1>7, TarefaEntra DEF IInv
  <2>2. \A k \in Brokers : k # i => tarefas'[k] = tarefas[k] /\ requesting'[k] = requesting[k]
    BY <1>7 DEF IInv, Formas
  <2> QED BY <1>1, <1>4, <1>5, <2>1, <2>2 DEF IInv, AdiadosEsperamAlguem, Entrando
<1> QED BY <1>3, <1>6, <1>7

-----------------------------------------------------------------------------
LEMMA AdiadosAoPassar ==
    ASSUME IInv, [Next]_vars
    PROVE  IInv'
<1>1. CASE UNCHANGED vars
  BY <1>1, NadaAdia DEF vars, raVars, ondeAdia
<1>2. ASSUME NEW i \in Brokers, Agir(i)
      PROVE  IInv'
  <2>1. CASE TentarDespachar(i)
    BY <2>1, AoTentar
  <2>2. ASSUME NEW t \in tarefas[i],
               EnviarPedidos(i, t) \/ EntrarCS(i, t) \/ DespacharDrone(i, t) \/ SairCS(i, t)
        PROVE  IInv'
    BY <2>2, AoEnviar, AoEntrar
  <2>3. ASSUME NEW p \in pendentes[i], ConfirmarPagamento(i, p)
        PROVE  IInv'
    BY <2>3, NadaAdia DEF ConfirmarPagamento, raVars, ondeAdia
  <2>4. ASSUME NEW c \in comandos[i], DecolarDrone(i, c) \/ RecolocarRecusada(i, c)
        PROVE  IInv'
    BY <2>4, NadaAdia DEF DecolarDrone, RecolocarRecusada, raVars, ondeAdia
  <2>5. ASSUME NEW j \in Brokers, HandleRAOK(j, i)
        PROVE  IInv'
    BY <2>5, AoReceberOK
  <2>6. ASSUME NEW m \in rede, m.para = i,
               HandleRARequest(m) \/ HandleReserva(m) \/ HandleRegistro(m) \/ HandleStatusDrone(m)
        PROVE  IInv'
    <3>1. CASE HandleRARequest(m)
      BY <2>6, <3>1, AoPedirem
    <3>2. CASE HandleReserva(m) \/ HandleRegistro(m)
      BY <3>2, NadaAdia DEF HandleReserva, HandleRegistro, raVars, ondeAdia
    <3>3. CASE HandleStatusDrone(m)
      BY <2>6, <3>3, AoRelatar
    <3> QED BY <2>6, <3>1, <3>2, <3>3
  <2> QED BY <1>2, <2>1, <2>2, <2>3, <2>4, <2>5, <2>6 DEF Agir
<1>3. ASSUME NEW d \in Drones, ConcluirMissao(d) \/ Recarregar(d)
      PROVE  IInv'
  BY <1>3, NadaAdia DEF ConcluirMissao, Recarregar, raVars, ondeAdia
<1>4. CASE Progresso
  BY <1>2, <1>3, <1>4 DEF Progresso, Vivos
<1>5. ASSUME NEW i \in Brokers, Falhar(i)
      PROVE  IInv'
  <2>1. ASSUME NEW p \in pendentes[i], RecusarPagamento(i, p)
        PROVE  IInv'
    BY <2>1, NadaAdia DEF RecusarPagamento, raVars, ondeAdia
  <2>2. CASE MonitorarMempool(i)
    BY <2>2, NadaAdia DEF MonitorarMempool, raVars, ondeAdia
  <2>3. ASSUME NEW c \in comandos[i], FalharComando(i, c)
        PROVE  IInv'
    BY <2>3, NadaAdia DEF FalharComando, raVars, ondeAdia
  <2>4. ASSUME NEW j \in Brokers, RemoverConexao(i, j) \/ MonitorarPeers(i, j)
        PROVE  IInv'
    BY <2>4, AoCair
  <2>5. ASSUME NEW j \in Brokers, ManterConexaoPeer(i, j)
        PROVE  IInv'
    BY <2>5, NadaAdia DEF ManterConexaoPeer, raVars, ondeAdia
  <2> QED BY <1>5, <2>1, <2>2, <2>3, <2>4, <2>5 DEF Falhar
<1>6. CASE Ambiente
  <2>1. ASSUME NEW p \in novas, HandleOcorrencia(p)
        PROVE  IInv'
    BY <2>1, NadaAdia DEF HandleOcorrencia, raVars, ondeAdia
  <2>2. ASSUME NEW m \in rede, PerderMensagem(m) \/ PerderAviso(m)
        PROVE  IInv'
    BY <2>2, NadaAdia DEF PerderMensagem, PerderAviso, raVars, ondeAdia
  <2>3. ASSUME NEW i \in Brokers, NEW j \in Brokers, PerderOK(j, i)
        PROVE  IInv'
    BY <2>3, NadaAdia DEF PerderOK, raVars, ondeAdia
  <2> QED BY <1>5, <1>6, <2>1, <2>2, <2>3 DEF Ambiente, Vivos
<1> QED BY <1>1, <1>4, <1>6 DEF Next

(* In every behaviour, with any number of brokers, drones, failures and    *)
(* dropped connections, a broker that keeps a request deferred is asking,  *)
(* entering or inside the critical section (handleRARequest, entrarCS):    *)
(* somebody is left who has to answer it.                                  *)
THEOREM AdiadosSempreEsperamAlguem == Spec => []AdiadosEsperamAlguem
<1>1. Init => IInv
  BY DEF Init, IInv, Formas, AdiadosEsperamAlguem
<1>2. IInv /\ [Next]_vars => IInv'
  BY AdiadosAoPassar
<1>3. IInv => AdiadosEsperamAlguem
  BY DEF IInv
<1> QED BY <1>1, <1>2, <1>3, PTL DEF Spec

-----------------------------------------------------------------------------
(* The same for the wake-ups: the forms of the variables they depend on.   *)
Esperas ==
    /\ tentativas \in [Brokers -> Nat]
    /\ fila = [i \in Brokers |-> fila[i]]
    /\ drones = [i \in Brokers |-> [d \in Drones |-> drones[i][d]]]

EInv == Formas /\ Esperas /\ SemDespertarPerdido

Desperto(k) == PodePedir(k) => tentativas[k] > 0 \/ Entrando(k)

Parado(k) ==
    /\ tentativas'[k] = tentativas[k]
    /\ fila'[k] = fila[k]
    /\ drones'[k] = drones[k]
    /\ tarefas'[k] = tarefas[k]
    /\ requesting'[k] = requesting[k]
    /\ inCS'[k] = inCS[k]

ondeEspera == <<tentativas, fila, drones, tarefas, requesting, inCS>>

(* A broker whose part of the state does not change keeps its wake-up. *)
LEMMA ParadoEspera ==
    ASSUME EInv, NEW k \in Brokers, Parado(k)
    PROVE  Desperto(k)'
<1>1. PodePedir(k)' <=> PodePedir(k)
  BY DEF Parado, PodePedir, Livres
<1>2. Entrando(k) => Entrando(k)'
  BY DEF Parado, Entrando
<1>3. PodePedir(k) => tentativas[k] > 0 \/ Entrando(k)
  BY DEF EInv, SemDespertarPerdido
<1>4. tentativas'[k] = tentativas[k]
  BY DEF Parado
<1>5. PodePedir(k)' => tentativas'[k] > 0 \/ Entrando(k)'
  BY <1>1, <1>2, <1>3, <1>4
<1> QED BY <1>5 DEF Desperto

(* An action of one broker is right if that broker keeps its wake-up. *)
LEMMA SoUm ==
    ASSUME EInv, Formas', Esperas', NEW i \in Brokers,
           \A k \in Brokers \ {i} : Parado(k), Desperto(i)'
    PROVE  EInv'
<1>1. \A k \in Brokers : Desperto(k)'
  BY ParadoEspera
<1>2. SemDespertarPerdido'
  BY <1>1 DEF SemDespertarPerdido, Desperto
<1> QED BY <1>2 DEF EInv

LEMMA NadaEspera ==
    ASSUME EInv, Formas', UNCHANGED ondeEspera
    PROVE  EInv'
<1>1. Esperas'
  BY DEF EInv, Esperas, ondeEspera
<1>2. \A k \in Brokers : Desperto(k)'
  BY ParadoEspera DEF Parado, ondeEspera
<1>3. SemDespertarPerdido'
  BY <1>2 DEF SemDespertarPerdido, Desperto
<1> QED BY <1>1, <1>3 DEF EInv

(* What ends in "go b.tentarDespachar()" is right whatever it did to the   *)
(* queue, the drones and the flags of its own broker.                      *)
LEMMA Desperta ==
    ASSUME EInv, Formas', NEW i \in Brokers, tentativas' = Tentar(i),
           NEW F, fila' = [fila EXCEPT ![i] = F],
           NEW G, G = [d \in Drones |-> G[d]], drones' = [drones EXCEPT ![i] = G],
           \A k \in Brokers \ {i} : /\ tarefas'[k] = tarefas[k]
                                    /\ requesting'[k] = requesting[k]
                                    /\ inCS'[k] = inCS[k]
    PROVE  EInv'
<1>1. tentativas' \in [Brokers -> Nat] /\ tentativas'[i] > 0
  BY DEF EInv, Esperas, Tentar
<1>2. Esperas'
  BY <1>1 DEF EInv, Esperas
<1>3. \A k \in Brokers \ {i} : Parado(k)
  BY DEF EInv, Esperas, Tentar, Parado
<1>4. Desperto(i)'
  BY <1>1 DEF Desperto
<1> QED BY <1>2, <1>3, <1>4, SoUm

(* What leaves the wake-up of its own broker to a step of entrarCS that is *)
(* still to come.                                                          *)
LEMMA Entra ==
    ASSUME EInv, Formas', NEW i \in Brokers, Entrando(i)',
           UNCHANGED tentativas,
           NEW F, fila' = [fila EXCEPT ![i] = F],
           NEW G, G = [d \in Drones |-> G[d]], drones' = [drones EXCEPT ![i] = G],
           \A k \in Brokers \ {i} : /\ tarefas'[k] = tarefas[k]
                                    /\ requesting'[k] = requesting[k]
                                    /\ inCS'[k] = inCS[k]
    PROVE  EInv'
<1>1. Esperas'
  BY DEF EInv, Esperas
<1>2. \A k \in Brokers \ {i} : Parado(k)
  BY DEF EInv, Esperas, Parado
<1>3. Desperto(i)'
  BY DEF Desperto
<1> QED BY <1>1, <1>2, <1>3, SoUm

(* A request leaves nothing to wake for, and a call that gives up found    *)
(* nothing.                                                                *)
LEMMA EsperaAoTentar ==
    ASSUME EInv, Formas', NEW i \in Brokers, TentarDespachar(i)
    PROVE  EInv'
<1>1. /\ tentativas' = [tentativas EXCEPT ![i] = @ - 1]
      /\ tentativas[i] > 0
      /\ UNCHANGED drones
  BY DEF TentarDespachar, missaoVars
<1>2. CASE PodePedir(i)
  <2>1. /\ requesting' = [requesting EXCEPT ![i] = TRUE]
        /\ UNCHANGED inCS
        /\ \E F : fila' = [fila EXCEPT ![i] = F]
        /\ \E T : tarefas' = [tarefas EXCEPT ![i] = T]
    BY <1>2 DEF TentarDespachar
  <2>2. Esperas'
    <3>1. tentativas' \in [Brokers -> Nat]
      BY <1>1 DEF EInv, Esperas
    <3>2. fila' = [k \in Brokers |-> fila'[k]]
      BY <2>1 DEF EInv, Esperas
    <3>3. drones' = [k \in Brokers |-> [d \in Drones |-> drones'[k][d]]]
      BY <1>1 DEF EInv, Esperas
    <3> QED BY <3>1, <3>2, <3>3 DEF Esperas
  <2>3. \A k \in Brokers \ {i} : Parado(k)
    BY <1>1, <2>1 DEF EInv, Esperas, Formas, Parado
  <2>4. requesting'[i]
    BY <2>1 DEF EInv, Formas
  <2>5. Desperto(i)'
    BY <2>4 DEF Desperto, PodePedir
  <2> QED BY <2>2, <2>3, <2>5, SoUm
<1>3. CASE ~ PodePedir(i)
  <2>1. UNCHANGED <<fila, tarefas, requesting, inCS>>
    BY <1>3 DEF TentarDespachar, raVars
  <2>2. Esperas'
    BY <1>1, <2>1 DEF EInv, Esperas
  <2>3. \A k \in Brokers \ {i} : Parado(k)
    BY <1>1, <2>1 DEF EInv, Esperas, Parado
  <2>4. ~ PodePedir(i)'
    BY <1>1, <1>3, <2>1 DEF PodePedir, Livres
  <2>5. Desperto(i)'
    BY <2>4 DEF Desperto
  <2> QED BY <2>2, <2>3, <2>5, SoUm
<1> QED BY <1>2, <1>3

LEMMA EsperaAoEnviar ==
    ASSUME EInv, Formas', NEW i \in Brokers, NEW t \in tarefas[i], EnviarPedidos(i, t)
    PROVE  EInv'
<1>1. /\ t.op = "pedir"
      /\ tarefas' = [tarefas EXCEPT ![i] = @ \ {t}]
      /\ UNCHANGED <<tentativas, fila, drones, requesting, inCS>>
  BY DEF EnviarPedidos, filaVars, missaoVars, raVars
<1>2. Esperas'
  BY <1>1 DEF EInv, Esperas
<1>3. \A k \in Brokers \ {i} : Parado(k)
  BY <1>1 DEF EInv, Formas, Parado
<1>4. Entrando(i) => Entrando(i)'
  BY <1>1 DEF EInv, Formas, Entrando
<1>5. PodePedir(i)' => PodePedir(i)
  BY <1>1 DEF PodePedir, Livres
<1>6. PodePedir(i) => tentativas[i] > 0 \/ Entrando(i)
  BY DEF EInv, SemDespertarPerdido
<1>7. PodePedir(i)' => tentativas'[i] > 0 \/ Entrando(i)'
  BY <1>1, <1>4, <1>5, <1>6
<1>8. Desperto(i)'
  BY <1>7 DEF Desperto
<1> QED BY <1>2, <1>3, <1>8, SoUm

(* entrarCS: busy until its last step, which tries again. *)
LEMMA EsperaAoEntrar ==
    ASSUME EInv, Formas', NEW i \in Brokers, NEW t \in tarefas[i],
           EntrarCS(i, t) \/ DespacharDrone(i, t) \/ SairCS(i, t)
    PROVE  EInv'
<1>0. /\ fila = [fila EXCEPT ![i] = fila[i]]
      /\ drones = [drones EXCEPT ![i] = drones[i]]
      /\ drones[i] = [d \in Drones |-> drones[i][d]]
  BY DEF EInv, Esperas
<1>1. CASE EntrarCS(i, t)
  <2>1. /\ inCS' = [inCS EXCEPT ![i] = TRUE]
        /\ requesting' = [requesting EXCEPT ![i] = FALSE]
        /\ \E T : tarefas' = [tarefas EXCEPT ![i] = T]
        /\ UNCHANGED <<tentativas, fila, drones>>
    BY <1>1 DEF EntrarCS, filaVars, missaoVars
  <2>2. Esperas'
    BY <2>1 DEF EInv, Esperas
  <2>3. \A k \in Brokers \ {i} : Parado(k)
    BY <2>1 DEF EInv, Formas, Parado
  <2>4. inCS'[i]
    BY <2>1 DEF EInv, Formas
  <2>5. Desperto(i)'
    BY <2>4 DEF Desperto, PodePedir
  <2> QED BY <2>2, <2>3, <2>5, SoUm
<1>2. CASE DespacharDrone(i, t)
  <2>1. /\ tarefas' = [tarefas EXCEPT ![i] = (@ \ {t}) \cup {NaCS("sair", t.oc)}]
        /\ UNCHANGED <<tentativas, requesting, inCS>>
    BY <1>2 DEF DespacharDrone, raVars
  <2>2. Entrando(i)'
    BY <2>1, TarefaEntra DEF EInv
  <2>3. \A k \in Brokers \ {i} : /\ tarefas'[k] = tarefas[k]
                                 /\ requesting'[k] = requesting[k]
                                 /\ inCS'[k] = inCS[k]
    BY <2>1 DEF EInv, Formas
  <2>4. CASE Livres(i) = {}
    <3>1. /\ fila' = [fila EXCEPT ![i] = @ \cup {[o EXCEPT !.prio = 3] : o \in {t.oc}}]
          /\ UNCHANGED drones
      BY <1>2, <2>4 DEF DespacharDrone, Devolver, missaoVars
    <3> QED BY <1>0, <2>1, <2>2, <2>3, <3>1, Entra
  <2>5. CASE Livres(i) # {}
    <3>1. UNCHANGED fila /\ \E d \in Livres(i) : drones' = [drones EXCEPT ![i][d] = "em_missao"]
      BY <1>2, <2>5 DEF DespacharDrone
    <3>2. PICK d : drones' = [drones EXCEPT ![i] = [drones[i] EXCEPT ![d] = "em_missao"]]
      BY <3>1
    <3> DEFINE G == [drones[i] EXCEPT ![d] = "em_missao"]
    <3>3. G = [e \in Drones |-> G[e]]
      BY <1>0
    <3> QED BY <1>0, <2>1, <2>2, <2>3, <3>1, <3>2, <3>3, Entra
  <2> QED BY <2>4, <2>5
<1>3. CASE SairCS(i, t)
  <2>1. /\ tentativas' = Tentar(i)
        /\ inCS' = [inCS EXCEPT ![i] = FALSE]
        /\ tarefas' = [tarefas EXCEPT ![i] = @ \ {t}]
        /\ UNCHANGED <<fila, drones, requesting>>
    BY <1>3 DEF SairCS, missaoVars
  <2>2. \A k \in Brokers \ {i} : /\ tarefas'[k] = tarefas[k]
                                 /\ requesting'[k] = requesting[k]
                                 /\ inCS'[k] = inCS[k]
    BY <2>1 DEF EInv, Formas
  <2> QED BY <1>0, <2>1, <2>2, Desperta
<1> QED BY <1>1, <1>2, <1>3

(* Aging, and a reservation, give nobody a reason to wake. *)
LEMMA EsperaAoCeder ==
    ASSUME EInv, Formas', NEW m, m.para \in Brokers, HandleRARequest(m) \/ HandleReserva(m)
    PROVE  EInv'
<1> DEFINE i == m.para
<1>1. UNCHANGED <<tentativas, tarefas, requesting, inCS>>
  BY DEF HandleRARequest, HandleReserva, filaVars, raVars
<1>2. /\ \/ UNCHANGED fila
         \/ fila' = [fila EXCEPT ![i] = {[o EXCEPT !.prio = @ + 1] : o \in @}]
      /\ \/ UNCHANGED drones
         \/ drones' = [drones EXCEPT ![i] = [drones[i] EXCEPT ![m.drone] = "em_missao"]]
  <2>1. CASE HandleRARequest(m)
    BY <2>1 DEF HandleRARequest, AplicarAging, missaoVars
  <2>2. CASE HandleReserva(m)
    BY <2>2 DEF HandleReserva, filaVars
  <2> QED BY <2>1, <2>2
<1>3. Esperas'
  BY <1>1, <1>2 DEF EInv, Esperas
<1>4. \A k \in Brokers \ {i} : Parado(k)
  BY <1>1, <1>2 DEF EInv, Esperas, Parado
<1>5. fila[i] = {} => fila'[i] = {}
  <2>1. CASE UNCHANGED fila
    BY <2>1
  <2>2. CASE fila' = [fila EXCEPT ![i] = {[o EXCEPT !.prio = @ + 1] : o \in @}]
    <3>1. fila'[i] = {[o EXCEPT !.prio = @ + 1] : o \in fila[i]}
      BY <2>2 DEF EInv, Esperas
    <3> QED BY <3>1
  <2> QED BY <1>2, <2>1, <2>2
<1>6. \A d \in Drones : drones'[i][d] = "disponivel" => drones[i][d] = "disponivel"
  <2>1. CASE UNCHANGED drones
    BY <2>1
  <2>2. CASE drones' = [drones EXCEPT ![i] = [drones[i] EXCEPT ![m.drone] = "em_missao"]]
    <3>1. /\ drones'[i] = [drones[i] EXCEPT ![m.drone] = "em_missao"]
          /\ drones[i] = [d \in Drones |-> drones[i][d]]
      BY <2>2 DEF EInv, Esperas
    <3>2. \A d \in Drones : drones'[i][d] = IF d = m.drone THEN "em_missao" ELSE drones[i][d]
      BY <3>1
    <3> QED BY <3>2
  <2> QED BY <1>2, <2>1, <2>2
<1>7. PodePedir(i)' => PodePedir(i)
  BY <1>1, <1>5, <1>6 DEF PodePedir, Livres
<1>8. Entrando(i) => Entrando(i)'
  BY <1>1 DEF Entrando
<1>9. PodePedir(i) => tentativas[i] > 0 \/ Entrando(i)
  BY DEF EInv, SemDespertarPerdido
<1>10. PodePedir(i)' => tentativas'[i] > 0 \/ Entrando(i)'
  BY <1>1, <1>7, <1>8, <1>9
<1>11. Desperto(i)'
  BY <1>10 DEF Desperto
<1> QED BY <1>3, <1>4, <1>11, SoUm

(* A rollback, the mempool, a drone that is back and a new occurrence all  *)
(* try again.                                                              *)
LEMMA EsperaAoVoltar ==
    ASSUME EInv, Formas', NEW i \in Brokers, tentativas' = Tentar(i),
           NEW F, fila' = [fila EXCEPT ![i] = F] \/ UNCHANGED fila,
           NEW d, NEW s, drones' = [drones EXCEPT ![i][d] = s] \/ UNCHANGED drones,
           UNCHANGED <<tarefas, requesting, inCS>>
    PROVE  EInv'
<1> DEFINE G == [drones[i] EXCEPT ![d] = s]
<1>1. /\ fila = [fila EXCEPT ![i] = fila[i]]
      /\ drones = [drones EXCEPT ![i] = drones[i]]
      /\ drones[i] = [e \in Drones |-> drones[i][e]]
  BY DEF EInv, Esperas
<1>2. G = [e \in Drones |-> G[e]]
  BY <1>1
<1>3. ASSUME fila' = [fila EXCEPT ![i] = F]
      PROVE  EInv'
  <2>1. CASE drones' = [drones EXCEPT ![i] = G]
    BY <1>2, <1>3, <2>1, Desperta
  <2>2. CASE UNCHANGED drones
    BY <1>1, <1>3, <2>2, Desperta
  <2> QED BY <2>1, <2>2
<1>4. ASSUME UNCHANGED fila
      PROVE  EInv'
  <2>1. CASE drones' = [drones EXCEPT ![i] = G]
    BY <1>1, <1>2, <1>4, <2>1, Desperta
  <2>2. CASE UNCHANGED drones
    BY <1>1, <1>4, <2>2, Desperta
  <2> QED BY <2>1, <2>2
<1> QED BY <1>3, <1>4

LEMMA EsperaNaMempool ==
    ASSUME EInv, Formas', NEW i \in Brokers, MonitorarMempool(i)
    PROVE  EInv'
<1>1. /\ tentativas' = Tentar(i)
      /\ UNCHANGED <<tarefas, requesting, inCS>>
  BY DEF MonitorarMempool, raVars
<1>2. PICK velhas \in SUBSET pendentes[i] \ {{}} :
        /\ drones' = [drones EXCEPT ![i] = [d \in Drones |->
                         IF d \in {p.drone : p \in velhas} THEN "disponivel" ELSE @[d]]]
        /\ fila' = [fila EXCEPT ![i] = @ \cup {[o EXCEPT !.prio = 3] : o \in {p.oc : p \in velhas}}]
  BY DEF MonitorarMempool, Devolver
<1> DEFINE G == [d \in Drones |->
                    IF d \in {p.drone : p \in velhas} THEN "disponivel" ELSE drones[i][d]]
<1>3. G = [d \in Drones |-> G[d]]
  OBVIOUS
<1> DEFINE F == fila[i] \cup {[o EXCEPT !.prio = 3] : o \in {p.oc : p \in velhas}}
<1>4. drones' = [drones EXCEPT ![i] = G]
  BY <1>2
<1>5. fila' = [fila EXCEPT ![i] = F]
  BY <1>2
<1> HIDE DEF F, G
<1> QED BY <1>1, <1>3, <1>4, <1>5, Desperta

(* The last OK, and the removal of the last peer that owed one, leave the  *)
(* wake-up to entrarCS.                                                    *)
LEMMA EsperaAoCompletar ==
    ASSUME EInv, Formas', NEW i \in Brokers, NEW oc,
           requesting' = [requesting EXCEPT ![i] = FALSE],
           tarefas' = [tarefas EXCEPT ![i] = @ \cup {NaCS("entrar", oc)}],
           UNCHANGED <<tentativas, fila, drones, inCS>>
    PROVE  EInv'
<1>1. Entrando(i)'
  BY TarefaEntra DEF EInv
<1>2. \A k \in Brokers \ {i} : /\ tarefas'[k] = tarefas[k]
                               /\ requesting'[k] = requesting[k]
                               /\ inCS'[k] = inCS[k]
  BY DEF EInv, Formas
<1>3. UNCHANGED tentativas
  OBVIOUS
<1> DEFINE F == fila[i]
           G == drones[i]
<1>4. fila' = [fila EXCEPT ![i] = F]
  BY DEF EInv, Esperas
<1>5. drones' = [drones EXCEPT ![i] = G]
  BY DEF EInv, Esperas
<1>6. G = [d \in Drones |-> G[d]]
  BY DEF EInv, Esperas
<1> HIDE DEF F, G
<1> QED BY <1>1, <1>2, <1>3, <1>4, <1>5, <1>6, Entra

LEMMA EsperaAoReceberOK ==
    ASSUME EInv, Formas', NEW i \in Brokers, NEW j \in Brokers, HandleRAOK(j, i)
    PROVE  EInv'
<1> DEFINE ultimo == /\ requesting[i] /\ ~ inCS[i]
                     /\ Cardinality(respostasOK[i] \cup {j}) >= Cardinality(connBrokers[i])
<1>1. UNCHANGED <<tentativas, fila, drones, inCS>>
  BY DEF HandleRAOK, filaVars, missaoVars
<1>2. CASE ultimo
  <2>1. /\ requesting' = [requesting EXCEPT ![i] = FALSE]
        /\ tarefas' = [tarefas EXCEPT ![i] = @ \cup {NaCS("entrar", currentReqOc[i])}]
    BY <1>2 DEF HandleRAOK
  <2> QED BY <1>1, <2>1, EsperaAoCompletar
<1>3. CASE ~ ultimo
  <2>1. requesting' = [requesting EXCEPT ![i] = @ /\ TRUE] /\ UNCHANGED tarefas
    BY <1>3 DEF HandleRAOK
  <2>2. UNCHANGED requesting
    BY <2>1 DEF EInv, Formas
  <2> QED BY <1>1, <2>1, <2>2, NadaEspera DEF ondeEspera
<1> QED BY <1>2, <1>3

LEMMA EsperaAoCair ==
    ASSUME EInv, Formas', NEW i \in Brokers, NEW j \in Brokers,
           RemoverConexao(i, j) \/ MonitorarPeers(i, j)
    PROVE  EInv'
<1>1. UNCHANGED <<tentativas, fila, drones, inCS>>
  BY DEF RemoverConexao, MonitorarPeers, filaVars, missaoVars
<1>2. CASE RemoverConexao(i, j)
  BY <1>1, <1>2, NadaEspera DEF RemoverConexao, ondeEspera
<1>3. CASE MonitorarPeers(i, j)
  <2> DEFINE basta == /\ requesting[i] /\ connBrokers[i] \ {j} # {}
                      /\ Cardinality(respostasOK[i] \ {j}) >= Cardinality(connBrokers[i] \ {j})
  <2>1. CASE basta
    <3>1. /\ requesting' = [requesting EXCEPT ![i] = FALSE]
          /\ \E oc : tarefas' = [tarefas EXCEPT ![i] = @ \cup {NaCS("entrar", oc)}]
      BY <1>3, <2>1 DEF MonitorarPeers
    <3> QED BY <1>1, <3>1, EsperaAoCompletar
  <2>2. CASE ~ basta
    <3>1. requesting' = [requesting EXCEPT ![i] = @ /\ TRUE] /\ UNCHANGED tarefas
      BY <1>3, <2>2 DEF MonitorarPeers
    <3>2. UNCHANGED requesting
      BY <3>1 DEF EInv, Formas
    <3> QED BY <1>1, <3>1, <3>2, NadaEspera DEF ondeEspera
  <2> QED BY <2>1, <2>2
<1> QED BY <1>2, <1>3

(* Every action of every broker. *)
LEMMA DespertarAoPassar ==
    ASSUME EInv, Formas', [Next]_vars
    PROVE  EInv'
<1>1. CASE UNCHANGED vars
  BY <1>1, NadaEspera DEF vars, filaVars, missaoVars, raVars, ondeEspera
<1>2. ASSUME NEW i \in Brokers, Agir(i)
      PROVE  EInv'
  <2>1. CASE TentarDespachar(i)
    BY <2>1, EsperaAoTentar
  <2>2. ASSUME NEW t \in tarefas[i],
               EnviarPedidos(i, t) \/ EntrarCS(i, t) \/ DespacharDrone(i, t) \/ SairCS(i, t)
        PROVE  EInv'
    BY <2>2, EsperaAoEnviar, EsperaAoEntrar
  <2>3. ASSUME NEW p \in pendentes[i], ConfirmarPagamento(i, p)
        PROVE  EInv'
    BY <2>3, NadaEspera DEF ConfirmarPagamento, filaVars, raVars, ondeEspera
  <2>4. ASSUME NEW c \in comandos[i], DecolarDrone(i, c)
        PROVE  EInv'
    BY <2>4, NadaEspera DEF DecolarDrone, filaVars, raVars, ondeEspera
  <2>5. ASSUME NEW c \in comandos[i], RecolocarRecusada(i, c)
        PROVE  EInv'
    BY <2>5, EsperaAoVoltar DEF RecolocarRecusada, Recolocar, Devolver, raVars
  <2>6. ASSUME NEW j \in Brokers, HandleRAOK(j, i)
        PROVE  EInv'
    BY <2>6, EsperaAoReceberOK
  <2>7. ASSUME NEW m \in rede, m.para = i,
               HandleRARequest(m) \/ HandleReserva(m) \/ HandleRegistro(m) \/ HandleStatusDrone(m)
        PROVE  EInv'
    <3>1. CASE HandleRARequest(m) \/ HandleReserva(m)
      BY <2>7, <3>1, EsperaAoCeder
    <3>2. CASE HandleRegistro(m)
      BY <2>7, <3>2, EsperaAoVoltar DEF HandleRegistro, Liberar, raVars
    <3>3. CASE HandleStatusDrone(m)
      BY <2>7, <3>3, EsperaAoVoltar DEF HandleStatusDrone, Liberar
    <3> QED BY <2>7, <3>1, <3>2, <3>3
  <2> QED BY <1>2, <2>1, <2>2, <2>3, <2>4, <2>5, <2>6, <2>7 DEF Agir
<1>3. ASSUME NEW d \in Drones, ConcluirMissao(d) \/ Recarregar(d)
      PROVE  EInv'
  BY <1>3, NadaEspera DEF ConcluirMissao, Recarregar, filaVars, missaoVars, raVars, ondeEspera
<1>4. CASE Progresso
  BY <1>2, <1>3, <1>4 DEF Progresso, Vivos
<1>5. ASSUME NEW i \in Brokers, Falhar(i)
      PROVE  EInv'
  <2>1. ASSUME NEW p \in pendentes[i], RecusarPagamento(i, p)
        PROVE  EInv'
    BY <2>1, EsperaAoVoltar DEF RecusarPagamento, Recolocar, Devolver, raVars
  <2>2. CASE MonitorarMempool(i)
    BY <2>2, EsperaNaMempool
  <2>3. ASSUME NEW c \in comandos[i], FalharComando(i, c)
        PROVE  EInv'
    BY <2>3, EsperaAoVoltar DEF FalharComando, Recolocar, Devolver, raVars
  <2>4. ASSUME NEW j \in Brokers, RemoverConexao(i, j) \/ MonitorarPeers(i, j)
        PROVE  EInv'
    BY <2>4, EsperaAoCair
  <2>5. ASSUME NEW j \in Brokers, ManterConexaoPeer(i, j)
        PROVE  EInv'
    BY <2>5, NadaEspera DEF ManterConexaoPeer, filaVars, missaoVars, raVars, ondeEspera
  <2> QED BY <1>5, <2>1, <2>2, <2>3, <2>4, <2>5 DEF Falhar
<1>6. CASE Ambiente
  <2>1. ASSUME NEW p \in novas, p.broker \in Brokers, HandleOcorrencia(p)
        PROVE  EInv'
    BY <2>1, EsperaAoVoltar DEF HandleOcorrencia, Tentar, missaoVars, raVars
  <2>2. ASSUME NEW m \in rede, PerderMensagem(m) \/ PerderAviso(m)
        PROVE  EInv'
    BY <2>2, NadaEspera DEF PerderMensagem, PerderAviso, filaVars, missaoVars, raVars, ondeEspera
  <2>3. ASSUME NEW i \in Brokers, NEW j \in Brokers, PerderOK(j, i)
        PROVE  EInv'
    BY <2>3, NadaEspera DEF PerderOK, filaVars, missaoVars, raVars, ondeEspera
  <2> QED BY <1>5, <1>6, <2>1, <2>2, <2>3 DEF Ambiente, Vivos
<1> QED BY <1>1, <1>4, <1>6 DEF Next

(* In every behaviour an occurrence in the queue of an idle broker that    *)
(* sees a free drone has a goroutine coming for it: tentarDespachar gives  *)
(* up in silence, and every path that changes one of the reasons for which *)
(* it gives up calls it again (handleOcorrencia, entrarCS, the rollbacks,  *)
(* monitorarMempool, handleStatusDrone, handleConexao).                    *)
THEOREM SemDespertarPerdidoSempre == Spec => []SemDespertarPerdido
<1>1. Init => IInv /\ EInv
  <2>1. ASSUME Init PROVE IInv /\ Esperas
    BY <2>1 DEF Init, IInv, Formas, AdiadosEsperamAlguem, Esperas
  <2>2. ASSUME Init PROVE SemDespertarPerdido
    BY <2>2 DEF Init, SemDespertarPerdido, PodePedir
  <2> QED BY <2>1, <2>2 DEF EInv, IInv
<1>2. IInv /\ EInv /\ [Next]_vars => IInv' /\ EInv'
  BY AdiadosAoPassar, DespertarAoPassar DEF IInv
<1>3. EInv => SemDespertarPerdido
  BY DEF EInv
<1> QED BY <1>1, <1>2, <1>3, PTL DEF Spec

-----------------------------------------------------------------------------
(* Types. An occurrence that leaves a sensor or a client is one a queue    *)
(* may hold.                                                               *)
LEMMA PedidosSaoOc ==
    /\ Nenhuma \in Oc
    /\ \A p \in Pedidos : [id |-> p.id, prio |-> p.prio, paga |-> p.paga] \in Oc
    /\ \A o \in Oc, n \in Nat : [o EXCEPT !.prio = n] \in Oc
BY PedidosAssumption DEF Oc, Nenhuma, Ids

(* Aging changes the priority of an occurrence and nothing else.           *)
LEMMA FilaEnvelhece == \A q \in SUBSET Oc : AplicarAging(q) \in SUBSET Oc
BY PedidosSaoOc DEF AplicarAging, Oc

(* A queue that takes an occurrence back is still a queue.                 *)
LEMMA FilaRecebe ==
    ASSUME TypeOK, NEW i \in Brokers, NEW ocs \in SUBSET Oc
    PROVE  Devolver(i, ocs) \in [Brokers -> SUBSET Oc]
<1>1. {[o EXCEPT !.prio = 3] : o \in ocs} \in SUBSET Oc
  BY PedidosSaoOc
<1> QED
  BY <1>1 DEF TypeOK, Devolver

(* An OK that is sent is one more of a count.                              *)
LEMMA OKsSaoContados ==
    ASSUME TypeOK, NEW i \in Brokers, NEW alvos
    PROVE  EnviarOKs(i, alvos) \in [Brokers -> [Brokers -> Nat]]
<1> DEFINE novos == [j \in Brokers |-> IF j \in alvos \cap connBrokers[i]
                                       THEN oks[i][j] + 1 ELSE oks[i][j]]
<1>1. novos \in [Brokers -> Nat]
  BY DEF TypeOK
<1>2. EnviarOKs(i, alvos) = [oks EXCEPT ![i] = novos]
  BY DEF EnviarOKs
<1> HIDE DEF novos
<1> QED
  BY <1>1, <1>2 DEF TypeOK

(* A step of entrarCS, at any of its places.                               *)
LEMMA TarefaTipo ==
    ASSUME NEW oc \in Oc, NEW op \in {"entrar", "entrarSo", "despachar", "sair"}
    PROVE  NaCS(op, oc) \in Tarefas
BY DEF NaCS, Tarefas

(* One lemma for each handler or goroutine of the broker follows.          *)
LEMMA TipoInicial == Init => TypeOK
BY LimitesAssumption, PedidosSaoOc DEF Init, TypeOK, RA

LEMMA TipoAoOcorrer ==
    ASSUME TypeOK, NEW p \in novas, p.broker \in Brokers, HandleOcorrencia(p)
    PROVE  TypeOK'
<1>1. [id |-> p.id, prio |-> p.prio, paga |-> p.paga] \in Oc
  BY PedidosSaoOc DEF TypeOK
<1> QED
  BY <1>1 DEF HandleOcorrencia, TypeOK, missaoVars, raVars, redeVars, droneVars, limites

LEMMA TipoAoTentar ==
    ASSUME TypeOK, NEW i \in Brokers, TentarDespachar(i)
    PROVE  TypeOK'
<1>1. CASE ~ PodePedir(i)
  <2>1. tentativas' \in [Brokers -> Nat]
    BY DEF TentarDespachar, TypeOK
  <2>2. UNCHANGED <<fila, raVars, tarefas, furos, novas, missaoVars, redeVars, droneVars, limites>>
    BY <1>1 DEF TentarDespachar
  <2> QED
    BY <2>1, <2>2 DEF TypeOK, missaoVars, raVars, redeVars, droneVars, limites
<1>2. CASE PodePedir(i)
  <2>1. PICK oc \in MaisUrgentes(fila[i]), salto \in 1..MaxSalto :
          /\ fila' = [fila EXCEPT ![i] = AplicarAging(@ \ {oc})]
          /\ relogioLocal' = [relogioLocal EXCEPT ![i] = @ + salto]
          /\ requesting' = [requesting EXCEPT ![i] = TRUE]
          /\ currentReqOc' = [currentReqOc EXCEPT ![i] = oc]
          /\ currentReqRA' = [currentReqRA EXCEPT ![i] =
                                [prio |-> oc.prio, relogio |-> relogioLocal[i] + salto]]
          /\ respostasOK' = [respostasOK EXCEPT ![i] = {}]
          /\ deferred' = [deferred EXCEPT ![i] = {}]
          /\ tarefas' = [tarefas EXCEPT ![i] = @ \cup
                {IF connBrokers[i] = {} THEN NaCS("entrarSo", oc) ELSE Pedir(connBrokers[i])}]
          /\ furos' = furos \cup (IF Entrando(i) THEN {"sobreposicao"} ELSE {})
          /\ UNCHANGED inCS
    BY <1>2, Zenon DEF TentarDespachar
  <2>2. oc \in Oc /\ salto \in Nat /\ oc.prio \in Nat
    BY LimitesAssumption DEF MaisUrgentes, TypeOK, Oc
  <2>3. NaCS("entrarSo", oc) \in Tarefas /\ Pedir(connBrokers[i]) \in Tarefas
    BY <2>2, TarefaTipo DEF TypeOK, Tarefas, Pedir
  <2>4. fila' \in [Brokers -> SUBSET Oc]
    BY <2>1, FilaEnvelhece DEF TypeOK
  <2>5. [prio |-> oc.prio, relogio |-> relogioLocal[i] + salto] \in RA
    BY <2>2 DEF TypeOK, RA
  <2>6. tarefas' \in [Brokers -> SUBSET Tarefas]
    BY <2>1, <2>3 DEF TypeOK
  <2>7. UNCHANGED <<novas, missaoVars, redeVars, droneVars, limites>>
        /\ tentativas' = [tentativas EXCEPT ![i] = @ - 1] /\ tentativas[i] > 0
    BY DEF TentarDespachar
  <2>8. /\ relogioLocal' \in [Brokers -> Nat]
        /\ requesting' \in [Brokers -> BOOLEAN]
        /\ currentReqOc' \in [Brokers -> Oc \cup {Nenhuma}]
        /\ currentReqRA' \in [Brokers -> RA]
        /\ respostasOK' \in [Brokers -> SUBSET Brokers]
        /\ deferred' \in [Brokers -> SUBSET Brokers]
    BY <2>1, <2>2, <2>5 DEF TypeOK
  <2>9. tentativas' \in [Brokers -> Nat]
    BY <2>7 DEF TypeOK
  <2>10. /\ UNCHANGED inCS
         /\ furos' \subseteq {"ultrapassagem", "brecha", "descarga", "sobreposicao",
                             "aviso", "repetida"}
    BY <2>1 DEF TypeOK
  <2> QED
    BY <2>4, <2>6, <2>7, <2>8, <2>9, <2>10
    DEF TypeOK, missaoVars, redeVars, droneVars, limites
<1> QED
  BY <1>1, <1>2

LEMMA TipoAoEnviar ==
    ASSUME TypeOK, NEW i \in Brokers, NEW t \in tarefas[i], EnviarPedidos(i, t)
    PROVE  TypeOK'
<1>1. t \in Tarefas /\ t.op = "pedir"
  BY DEF TypeOK, EnviarPedidos
<1>2. t.alvos \subseteq Brokers
  BY <1>1 DEF Tarefas
<1>3. \A j \in Brokers : RARequest(i, j, currentReqRA[i]) \in Mensagens
  BY DEF TypeOK, RARequest, Mensagens
<1>4. rede' \subseteq Mensagens
  BY <1>2, <1>3 DEF TypeOK, EnviarPedidos
<1> QED
  BY <1>4 DEF EnviarPedidos, TypeOK, filaVars, missaoVars, raVars, droneVars, limites

LEMMA TipoAoPedirem ==
    ASSUME TypeOK, NEW m \in rede, HandleRARequest(m)
    PROVE  TypeOK'
<1>1. m.de \in Brokers /\ m.para \in Brokers /\ m.ra \in RA
  BY DEF HandleRARequest, TypeOK, Mensagens
<1>2. m.ra.relogio \in Nat
  BY <1>1 DEF RA
<1>3. relogioLocal' \in [Brokers -> Nat]
  BY <1>1, <1>2 DEF HandleRARequest, TypeOK
<1>4. fila' \in [Brokers -> SUBSET Oc]
  <2>1. UNCHANGED fila \/ fila' = [fila EXCEPT ![m.para] = AplicarAging(@)]
    BY DEF HandleRARequest
  <2>2. AplicarAging(fila[m.para]) \in SUBSET Oc
    BY <1>1, FilaEnvelhece DEF TypeOK
  <2>3. CASE UNCHANGED fila
    BY <2>3 DEF TypeOK
  <2>4. CASE fila' = [fila EXCEPT ![m.para] = AplicarAging(@)]
    BY <2>2, <2>4 DEF TypeOK
  <2> QED
    BY <2>1, <2>3, <2>4
<1>5. deferred' \in [Brokers -> SUBSET Brokers]
  <2>1. \/ deferred' = [deferred EXCEPT ![m.para] = @ \cup {m.de}]
        \/ deferred' = [deferred EXCEPT ![m.para] = @ \ {m.de}]
    BY DEF HandleRARequest
  <2>2. CASE deferred' = [deferred EXCEPT ![m.para] = @ \cup {m.de}]
    BY <1>1, <2>2 DEF TypeOK
  <2>3. CASE deferred' = [deferred EXCEPT ![m.para] = @ \ {m.de}]
    BY <1>1, <2>3 DEF TypeOK
  <2> QED
    BY <2>1, <2>2, <2>3
<1>6. oks' \in [Brokers -> [Brokers -> Nat]]
  <2>1. UNCHANGED oks \/ oks' = EnviarOKs(m.para, {m.de})
    BY DEF HandleRARequest
  <2> QED
    BY <1>1, <2>1, OKsSaoContados DEF TypeOK
<1>7. furos' \subseteq {"ultrapassagem", "brecha", "descarga", "sobreposicao", "aviso", "repetida"}
  BY DEF HandleRARequest, TypeOK
<1> QED
  BY <1>3, <1>4, <1>5, <1>6, <1>7
  DEF HandleRARequest, TypeOK, missaoVars, droneVars, limites

LEMMA TipoAoReceberOK ==
    ASSUME TypeOK, NEW i \in Brokers, NEW j \in Brokers, HandleRAOK(j, i)
    PROVE  TypeOK'
<1>1. NaCS("entrar", currentReqOc[i]) \in Tarefas
  BY PedidosSaoOc, TarefaTipo DEF TypeOK
<1>2. oks' \in [Brokers -> [Brokers -> Nat]]
  BY DEF HandleRAOK, TypeOK
<1>3. /\ respostasOK' \in [Brokers -> SUBSET Brokers]
      /\ requesting' \in [Brokers -> BOOLEAN]
      /\ tarefas' \in [Brokers -> SUBSET Tarefas]
  BY <1>1 DEF HandleRAOK, TypeOK
<1> QED
  BY <1>2, <1>3 DEF HandleRAOK, Repetida, TypeOK, filaVars, missaoVars, droneVars, limites

LEMMA TipoAoEntrar ==
    ASSUME TypeOK, NEW i \in Brokers, NEW t \in tarefas[i], EntrarCS(i, t)
    PROVE  TypeOK'
<1>1. t \in Tarefas /\ t.op \in {"entrar", "entrarSo"}
  BY DEF TypeOK, EntrarCS
<1>2. t.oc \in Oc
  BY <1>1, PedidosSaoOc DEF Tarefas
<1>3. NaCS("despachar", t.oc) \in Tarefas
  BY <1>2, TarefaTipo
<1>4. tarefas' \in [Brokers -> SUBSET Tarefas]
  BY <1>3 DEF EntrarCS, TypeOK
<1> QED
  BY <1>4 DEF EntrarCS, TypeOK, filaVars, missaoVars, redeVars, droneVars, limites

LEMMA TipoAoDespachar ==
    ASSUME TypeOK, NEW i \in Brokers, NEW t \in tarefas[i], DespacharDrone(i, t)
    PROVE  TypeOK'
<1>1. t \in Tarefas /\ t.op = "despachar"
  BY DEF TypeOK, DespacharDrone
<1>2. t.oc \in Oc /\ t.oc.id \in Ids \cup {0}
  BY <1>1, PedidosSaoOc DEF Tarefas, Oc
<1>3. tarefas' \in [Brokers -> SUBSET Tarefas]
  <2>1. NaCS("sair", t.oc) \in Tarefas
    BY <1>2, TarefaTipo
  <2> QED
    BY <2>1 DEF DespacharDrone, TypeOK
<1>4. UNCHANGED <<novas, tentativas, raVars, connBrokers, oks, droneVars, limites, furos>>
  BY DEF DespacharDrone
<1>5. CASE Livres(i) = {}
  <2>1. fila' \in [Brokers -> SUBSET Oc]
    BY <1>2, <1>5, FilaRecebe DEF DespacharDrone
  <2>2. UNCHANGED <<missaoVars, rede>>
    BY <1>5 DEF DespacharDrone
  <2> QED
    BY <1>3, <1>4, <2>1, <2>2 DEF TypeOK, missaoVars, raVars, droneVars, limites
<1>6. CASE Livres(i) # {}
  <2>1. PICK d \in Livres(i) :
            /\ drones' = [drones EXCEPT ![i][d] = "em_missao"]
            /\ missoesAtivas' = [missoesAtivas EXCEPT ![i] = @ \cup {t.oc.id}]
            /\ rede' = rede \cup Reservas(i, d)
            /\ IF t.oc.paga
               THEN /\ pendentes' = [pendentes EXCEPT ![i] = @ \cup {Missao(t.oc, d)}]
                    /\ UNCHANGED comandos
               ELSE /\ comandos' = [comandos EXCEPT ![i] = @ \cup {Comando(t.oc, d, "indo")}]
                    /\ UNCHANGED pendentes
            /\ UNCHANGED fila
    BY <1>6 DEF DespacharDrone
  <2>2. d \in Drones
    BY DEF Livres
  <2>3. /\ Missao(t.oc, d) \in [oc : Oc, drone : Drones]
        /\ Comando(t.oc, d, "indo") \in [oc : Oc, drone : Drones, fase : {"indo", "recusado"}]
    BY <1>2, <2>2 DEF Missao, Comando
  <2>4. Reservas(i, d) \subseteq Mensagens
    BY <2>2 DEF Reservas, Reserva, Mensagens, TypeOK
  <2>5. /\ pendentes' \in [Brokers -> SUBSET [oc : Oc, drone : Drones]]
        /\ comandos' \in [Brokers -> SUBSET [oc : Oc, drone : Drones, fase : {"indo", "recusado"}]]
    <3> DEFINE Missoes == [oc : Oc, drone : Drones]
               Comandos == [oc : Oc, drone : Drones, fase : {"indo", "recusado"}]
               nova == Missao(t.oc, d)
               ordem == Comando(t.oc, d, "indo")
    <3>1. /\ pendentes \in [Brokers -> SUBSET Missoes] /\ nova \in Missoes
          /\ comandos \in [Brokers -> SUBSET Comandos] /\ ordem \in Comandos
      BY <2>3 DEF TypeOK
    <3>2. \/ pendentes' = [pendentes EXCEPT ![i] = @ \cup {nova}] /\ UNCHANGED comandos
          \/ comandos' = [comandos EXCEPT ![i] = @ \cup {ordem}] /\ UNCHANGED pendentes
      BY <2>1
    <3> HIDE DEF Missoes, Comandos, nova, ordem
    <3>3. CASE pendentes' = [pendentes EXCEPT ![i] = @ \cup {nova}] /\ UNCHANGED comandos
      BY <3>1, <3>3 DEF Missoes, Comandos
    <3>4. CASE comandos' = [comandos EXCEPT ![i] = @ \cup {ordem}] /\ UNCHANGED pendentes
      BY <3>1, <3>4 DEF Missoes, Comandos
    <3> QED
      BY <3>2, <3>3, <3>4
  <2>6. /\ drones' \in [Brokers -> [Drones -> {"disponivel", "em_missao", "indisponivel"}]]
        /\ missoesAtivas' \in [Brokers -> SUBSET (Ids \cup {0})]
        /\ rede' \subseteq Mensagens
    BY <1>2, <2>1, <2>2, <2>4 DEF TypeOK
  <2> QED
    BY <1>3, <1>4, <2>1, <2>5, <2>6 DEF TypeOK, raVars, droneVars, limites
<1> QED
  BY <1>5, <1>6

LEMMA TipoAoSair ==
    ASSUME TypeOK, NEW i \in Brokers, NEW t \in tarefas[i], SairCS(i, t)
    PROVE  TypeOK'
<1>1. oks' \in [Brokers -> [Brokers -> Nat]]
  BY OKsSaoContados DEF SairCS, LiberarAdiados
<1>2. /\ inCS' \in [Brokers -> BOOLEAN]
      /\ currentReqOc' \in [Brokers -> Oc \cup {Nenhuma}]
      /\ respostasOK' \in [Brokers -> SUBSET Brokers]
      /\ deferred' \in [Brokers -> SUBSET Brokers]
      /\ tentativas' \in [Brokers -> Nat]
      /\ tarefas' \in [Brokers -> SUBSET Tarefas]
  BY DEF SairCS, Tentar, TypeOK
<1> QED
  BY <1>1, <1>2 DEF SairCS, TypeOK, missaoVars, droneVars, limites

(* What a rollback leaves, whatever became of the drone. *)
LEMMA TipoAoRecolocar ==
    ASSUME TypeOK, NEW i \in Brokers, NEW oc \in Oc, NEW d \in Drones,
           NEW s \in {"disponivel", "em_missao", "indisponivel"}, Recolocar(i, oc, d, s)
    PROVE  /\ drones' \in [Brokers -> [Drones -> {"disponivel", "em_missao", "indisponivel"}]]
           /\ fila' \in [Brokers -> SUBSET Oc]
           /\ missoesAtivas' \in [Brokers -> SUBSET (Ids \cup {0})]
           /\ tentativas' \in [Brokers -> Nat]
<1>1. fila' \in [Brokers -> SUBSET Oc]
  BY FilaRecebe DEF Recolocar
<1>2. drones' \in [Brokers -> [Drones -> {"disponivel", "em_missao", "indisponivel"}]]
  <2> DEFINE vista == [drones[i] EXCEPT ![d] = s]
  <2>1. vista \in [Drones -> {"disponivel", "em_missao", "indisponivel"}]
    BY DEF TypeOK
  <2>2. drones' = [drones EXCEPT ![i] = vista]
    BY DEF Recolocar
  <2> HIDE DEF vista
  <2> QED
    BY <2>1, <2>2 DEF TypeOK
<1>3. /\ missoesAtivas' \in [Brokers -> SUBSET (Ids \cup {0})]
      /\ tentativas' \in [Brokers -> Nat]
  BY DEF Recolocar, Tentar, TypeOK
<1> QED
  BY <1>1, <1>2, <1>3

LEMMA TipoDasMissoes ==
    ASSUME TypeOK, NEW i \in Brokers, NEW p \in pendentes[i],
           ConfirmarPagamento(i, p) \/ RecusarPagamento(i, p)
    PROVE  TypeOK'
<1>1. p.oc \in Oc /\ p.drone \in Drones
  BY DEF TypeOK
<1>2. CASE ConfirmarPagamento(i, p)
  <2>1. Comando(p.oc, p.drone, "indo") \in [oc : Oc, drone : Drones, fase : {"indo", "recusado"}]
    BY <1>1 DEF Comando
  <2> QED
    BY <1>2, <2>1 DEF ConfirmarPagamento, TypeOK, filaVars, raVars, redeVars, droneVars, limites
<1>3. CASE RecusarPagamento(i, p)
  <2>1. /\ Recolocar(i, p.oc, p.drone, "indisponivel")
        /\ pendentes' = [pendentes EXCEPT ![i] = @ \ {p}]
        /\ falhas < MaxFalhas /\ falhas' = falhas + 1
        /\ UNCHANGED <<novas, comandos, raVars, redeVars, droneVars, quedas, tarefas, furos>>
    BY <1>3 DEF RecusarPagamento
  <2>2. falhas' \in 0..MaxFalhas
    BY <2>1, LimitesAssumption DEF TypeOK
  <2> QED
    BY <1>1, <2>1, <2>2, TipoAoRecolocar DEF TypeOK, raVars, redeVars, droneVars
<1> QED
  BY <1>2, <1>3

LEMMA TipoNaMempool ==
    ASSUME TypeOK, NEW i \in Brokers, MonitorarMempool(i)
    PROVE  TypeOK'
<1>1. PICK velhas \in SUBSET pendentes[i] \ {{}} :
          /\ pendentes' = [pendentes EXCEPT ![i] = @ \ velhas]
          /\ drones' = [drones EXCEPT ![i] = [d \in Drones |->
                           IF d \in {p.drone : p \in velhas} THEN "disponivel" ELSE @[d]]]
          /\ fila' = Devolver(i, {p.oc : p \in velhas})
          /\ missoesAtivas' = [missoesAtivas EXCEPT ![i] = @ \ {p.oc.id : p \in velhas}]
  BY DEF MonitorarMempool
<1>2. {p.oc : p \in velhas} \in SUBSET Oc
  BY DEF TypeOK
<1>3. fila' \in [Brokers -> SUBSET Oc]
  BY <1>1, <1>2, FilaRecebe
<1>4. falhas' \in 0..MaxFalhas
  BY LimitesAssumption DEF MonitorarMempool, TypeOK
<1>5. drones' \in [Brokers -> [Drones -> {"disponivel", "em_missao", "indisponivel"}]]
  BY <1>1 DEF TypeOK
<1>6. /\ pendentes' \in [Brokers -> SUBSET [oc : Oc, drone : Drones]]
      /\ missoesAtivas' \in [Brokers -> SUBSET (Ids \cup {0})]
  BY <1>1 DEF TypeOK
<1>7. tentativas' \in [Brokers -> Nat]
  BY DEF MonitorarMempool, Tentar, TypeOK
<1> QED
  BY <1>3, <1>4, <1>5, <1>6, <1>7
  DEF MonitorarMempool, TypeOK, raVars, redeVars, droneVars

LEMMA TipoDosComandos ==
    ASSUME TypeOK, NEW i \in Brokers, NEW c \in comandos[i],
           DecolarDrone(i, c) \/ FalharComando(i, c) \/ RecolocarRecusada(i, c)
    PROVE  TypeOK'
<1>1. c.oc \in Oc /\ c.drone \in Drones /\ c.oc.id \in Ids \cup {0}
  BY DEF TypeOK, Oc
<1>2. CASE DecolarDrone(i, c)
  <2> DEFINE Comandos == [oc : Oc, drone : Drones, fase : {"indo", "recusado"}]
             recusado == [c EXCEPT !.fase = "recusado"]
  <2>0. comandos \in [Brokers -> SUBSET Comandos]
    BY DEF TypeOK
  <2>1. recusado \in Comandos
    <3>1. c \in Comandos
      BY <2>0
    <3> QED
      BY <3>1
  <2>2. \/ comandos' = [comandos EXCEPT ![i] = @ \ {c}]
        \/ comandos' = [comandos EXCEPT ![i] = (@ \ {c}) \cup {recusado}]
    BY <1>2 DEF DecolarDrone
  <2> HIDE DEF Comandos, recusado
  <2>4. comandos' \in [Brokers -> SUBSET Comandos]
    <3>1. CASE comandos' = [comandos EXCEPT ![i] = @ \ {c}]
      BY <2>0, <3>1
    <3>2. CASE comandos' = [comandos EXCEPT ![i] = (@ \ {c}) \cup {recusado}]
      BY <2>0, <2>1, <3>2
    <3> QED
      BY <2>2, <3>1, <3>2
  <2>3. /\ corpo' \in [Drones -> {"disponivel", "em_missao", "recarregando"}]
        /\ voo' \in [Drones -> Ids \cup {0}]
    BY <1>1, <1>2 DEF DecolarDrone, TypeOK, droneVars
  <2> QED
    BY <1>2, <2>3, <2>4 DEF DecolarDrone, TypeOK, filaVars, raVars, redeVars, limites, Comandos
<1>3. CASE FalharComando(i, c)
  <2>1. /\ Recolocar(i, c.oc, c.drone, "indisponivel")
        /\ comandos' = [comandos EXCEPT ![i] = @ \ {c}]
        /\ falhas < MaxFalhas /\ falhas' = falhas + 1
        /\ UNCHANGED <<novas, pendentes, raVars, redeVars, quedas, tarefas, furos>>
    BY <1>3 DEF FalharComando
  <2>2. /\ corpo' \in [Drones -> {"disponivel", "em_missao", "recarregando"}]
        /\ voo' \in [Drones -> Ids \cup {0}]
    BY <1>1, <1>3 DEF FalharComando, TypeOK, droneVars
  <2>3. falhas' \in 0..MaxFalhas
    BY <2>1, LimitesAssumption DEF TypeOK
  <2> QED
    BY <1>1, <2>1, <2>2, <2>3, TipoAoRecolocar DEF TypeOK, raVars, redeVars
<1>4. CASE RecolocarRecusada(i, c)
  <2>1. /\ Recolocar(i, c.oc, c.drone, "em_missao")
        /\ comandos' = [comandos EXCEPT ![i] = @ \ {c}]
        /\ UNCHANGED <<novas, pendentes, raVars, redeVars, droneVars, limites, tarefas, furos>>
    BY <1>4 DEF RecolocarRecusada
  <2> QED
    BY <1>1, <2>1, TipoAoRecolocar DEF TypeOK, raVars, redeVars, droneVars, limites
<1> QED
  BY <1>2, <1>3, <1>4

LEMMA TipoDosDrones ==
    ASSUME TypeOK, NEW d \in Drones, ConcluirMissao(d) \/ Recarregar(d)
    PROVE  TypeOK'
<1>1. \A j \in Brokers, id \in Ids \cup {0} : Status(d, j, id) \in Mensagens
  BY DEF Status, Mensagens, Recarga
<1>2. \A j \in Brokers : Registro(d, j) \in Mensagens
  BY DEF Registro, Mensagens
<1>3. rede' \subseteq Mensagens
  <2>0. rede \subseteq Mensagens
    BY DEF TypeOK
  <2>1. CASE ConcluirMissao(d)
    BY <1>1, <1>2, <2>0, <2>1 DEF ConcluirMissao, TypeOK, Recarga
  <2>2. CASE Recarregar(d)
    BY <1>1, <1>2, <2>0, <2>2 DEF Recarregar, Recarga
  <2> QED
    BY <2>1, <2>2
<1>4. corpo' \in [Drones -> {"disponivel", "em_missao", "recarregando"}]
  BY DEF ConcluirMissao, Recarregar, TypeOK
<1>5. voo' \in [Drones -> Ids \cup {0}]
  BY DEF ConcluirMissao, Recarregar, TypeOK
<1> QED
  BY <1>3, <1>4, <1>5
  DEF ConcluirMissao, Recarregar, TypeOK, filaVars, missaoVars, raVars, limites

LEMMA TipoDosAvisos ==
    ASSUME TypeOK, NEW m \in rede,
           HandleReserva(m) \/ HandleRegistro(m) \/ HandleStatusDrone(m)
    PROVE  TypeOK'
<1>1. CASE HandleReserva(m)
  <2>1. m.para \in Brokers /\ m.drone \in Drones
    BY <1>1 DEF HandleReserva, TypeOK, Mensagens
  <2> QED
    BY <1>1, <2>1 DEF HandleReserva, TypeOK, filaVars, raVars, droneVars, limites
<1>2. CASE HandleRegistro(m)
  <2>1. m.para \in Brokers /\ m.de \in Drones
    BY <1>2 DEF HandleRegistro, TypeOK, Mensagens
  <2> QED
    BY <1>2, <2>1 DEF HandleRegistro, Liberar, Tentar, TypeOK, raVars, droneVars, limites
<1>3. CASE HandleStatusDrone(m)
  <2>1. m.para \in Brokers /\ m.de \in Drones
    BY <1>3 DEF HandleStatusDrone, TypeOK, Mensagens
  <2>2. oks' \in [Brokers -> [Brokers -> Nat]]
    BY <1>3, <2>1, OKsSaoContados DEF HandleStatusDrone, LiberarAdiados
  <2>3. /\ drones' \in [Brokers -> [Drones -> {"disponivel", "em_missao", "indisponivel"}]]
        /\ tentativas' \in [Brokers -> Nat]
        /\ deferred' \in [Brokers -> SUBSET Brokers]
        /\ missoesAtivas' \in [Brokers -> SUBSET (Ids \cup {0})]
        /\ furos' \subseteq {"ultrapassagem", "brecha", "descarga", "sobreposicao",
                            "aviso", "repetida"}
        /\ rede' \subseteq Mensagens
    BY <1>3, <2>1 DEF HandleStatusDrone, Liberar, Tentar, TypeOK
  <2> QED
    BY <1>3, <2>2, <2>3 DEF HandleStatusDrone, TypeOK, droneVars, limites
<1> QED
  BY <1>1, <1>2, <1>3

LEMMA TipoAoCair ==
    ASSUME TypeOK, NEW i \in Brokers, NEW j \in Brokers,
           \/ RemoverConexao(i, j)
           \/ MonitorarPeers(i, j)
           \/ ManterConexaoPeer(i, j)
           \/ PerderOK(i, j)
    PROVE  TypeOK'
<1>0. ASSUME \/ RemoverConexao(i, j)
             \/ MonitorarPeers(i, j)
      PROVE  /\ respostasOK' \in [Brokers -> SUBSET Brokers]
             /\ deferred' \in [Brokers -> SUBSET Brokers]
  <2>1. \/ UNCHANGED <<respostasOK, deferred>>
        \/ /\ respostasOK' = [respostasOK EXCEPT ![i] = @ \ {j}]
           /\ deferred' = [deferred EXCEPT ![i] = @ \ {j}]
    BY <1>0 DEF RemoverConexao, MonitorarPeers
  <2>2. CASE UNCHANGED <<respostasOK, deferred>>
    BY <2>2 DEF TypeOK
  <2>3. CASE /\ respostasOK' = [respostasOK EXCEPT ![i] = @ \ {j}]
             /\ deferred' = [deferred EXCEPT ![i] = @ \ {j}]
    BY <2>3 DEF TypeOK
  <2> QED
    BY <2>1, <2>2, <2>3
<1>1. CASE RemoverConexao(i, j)
  <2>1. quedas' \in 0..MaxQuedas
    BY <1>1, LimitesAssumption DEF RemoverConexao, TypeOK
  <2>2. connBrokers' \in [Brokers -> SUBSET Brokers]
    BY <1>1 DEF RemoverConexao, TypeOK
  <2> QED
    BY <1>0, <1>1, <2>1, <2>2 DEF RemoverConexao, TypeOK, filaVars, missaoVars, droneVars
<1>2. CASE MonitorarPeers(i, j)
  <2> DEFINE refeita == [id |-> currentReqOc[i].id, prio |-> currentReqRA[i].prio, paga |-> FALSE]
  <2>1. refeita \in Oc
    BY PedidosSaoOc DEF TypeOK, Oc, RA
  <2>2. NaCS("entrar", refeita) \in Tarefas
    BY <2>1, TarefaTipo
  <2> HIDE DEF refeita
  <2>3. \/ UNCHANGED tarefas
        \/ tarefas' = [tarefas EXCEPT ![i] = @ \cup {NaCS("entrar", refeita)}]
    BY <1>2 DEF MonitorarPeers, refeita
  <2>4. tarefas' \in [Brokers -> SUBSET Tarefas]
    <3>1. CASE UNCHANGED tarefas
      BY <3>1 DEF TypeOK
    <3>2. CASE tarefas' = [tarefas EXCEPT ![i] = @ \cup {NaCS("entrar", refeita)}]
      BY <2>2, <3>2 DEF TypeOK
    <3> QED
      BY <2>3, <3>1, <3>2
  <2>5. quedas' \in 0..MaxQuedas
    BY <1>2, LimitesAssumption DEF MonitorarPeers, TypeOK
  <2>6. /\ connBrokers' \in [Brokers -> SUBSET Brokers]
        /\ requesting' \in [Brokers -> BOOLEAN]
        /\ furos' \subseteq {"ultrapassagem", "brecha", "descarga", "sobreposicao",
                            "aviso", "repetida"}
    BY <1>2 DEF MonitorarPeers, Repetida, TypeOK
  <2> QED
    BY <1>0, <1>2, <2>4, <2>5, <2>6
    DEF MonitorarPeers, TypeOK, filaVars, missaoVars, droneVars
<1>3. CASE ManterConexaoPeer(i, j)
  <2>1. connBrokers' \in [Brokers -> SUBSET Brokers]
    <3>1. connBrokers \in [Brokers -> SUBSET Brokers]
      BY DEF TypeOK
    <3>2. connBrokers' = [connBrokers EXCEPT ![i] = @ \cup {j}, ![j] = @ \cup {i}]
      BY <1>3 DEF ManterConexaoPeer
    <3> QED
      BY <3>1, <3>2
  <2> QED
    BY <1>3, <2>1 DEF ManterConexaoPeer, TypeOK, filaVars, missaoVars, raVars, droneVars, limites
<1>4. CASE PerderOK(i, j)
  BY <1>4 DEF PerderOK, TypeOK, filaVars, missaoVars, raVars, droneVars, limites
<1> QED
  BY <1>1, <1>2, <1>3, <1>4

LEMMA TipoAoPerder ==
    ASSUME TypeOK, NEW m \in rede, PerderMensagem(m) \/ PerderAviso(m)
    PROVE  TypeOK'
<1>1. falhas' \in 0..MaxFalhas
  BY LimitesAssumption DEF PerderMensagem, PerderAviso, TypeOK, limites
<1> QED
  BY <1>1 DEF PerderMensagem, PerderAviso, TypeOK, filaVars, missaoVars, raVars, droneVars, limites

(* Every action, of every broker and drone.                                *)
LEMMA TipoAoPassar ==
    ASSUME TypeOK, [Next]_vars
    PROVE  TypeOK'
<1>1. CASE UNCHANGED vars
  BY <1>1 DEF vars, filaVars, missaoVars, raVars, redeVars, droneVars, limites, TypeOK
<1>2. ASSUME NEW i \in Brokers, Agir(i)
      PROVE  TypeOK'
  BY <1>2, TipoAoTentar, TipoAoEnviar, TipoAoEntrar, TipoAoDespachar, TipoAoSair,
     TipoDasMissoes, TipoDosComandos, TipoAoReceberOK, TipoAoPedirem, TipoDosAvisos
  DEF Agir
<1>3. ASSUME NEW i \in Brokers, Falhar(i)
      PROVE  TypeOK'
  BY <1>3, TipoDasMissoes, TipoNaMempool, TipoDosComandos, TipoAoCair DEF Falhar
<1>4. CASE Progresso
  BY <1>2, <1>4, TipoDosDrones DEF Progresso, Vivos
<1>5. CASE Ambiente
  BY <1>3, <1>5, TipoAoOcorrer, TipoAoPerder, TipoAoCair DEF Ambiente, Vivos
<1> QED
  BY <1>1, <1>4, <1>5 DEF Next

(* In every behaviour the queues hold occurrences, the mempools            *)
(* occurrences (or the empty id that monitorarPeers rebuilds from a        *)
(* request that is already over), the clocks and the counts are numbers,   *)
(* and the connections of a broker are those of other brokers: what each   *)
(* handler of broker.go leaves is what the others expect to find.          *)
THEOREM TipoSempre == Spec => []TypeOK
BY TipoInicial, TipoAoPassar, PTL DEF Spec

-----------------------------------------------------------------------------
(* The exclusion.  Broker i has a request of its own to finish.            *)
Ativo(i) == requesting[i] \/ Entrando(i)

(* It has sent the request and has no goroutine for it: it waits.          *)
Aguarda(i) == requesting[i] /\ tarefas[i] = {}

(* Broker j has granted the request of i. *)
Concedeu(j, i) == j \in respostasOK[i] \/ oks[j][i] > 0

(* The order in which the clocks put the requests of two brokers. *)
Antes(i, j) ==
    \/ currentReqRA[i].relogio < currentReqRA[j].relogio
    \/ currentReqRA[i].relogio = currentReqRA[j].relogio /\ i < j

Pedidas(i, j) == {m \in rede : m.tipo = "RA_REQUEST" /\ m.de = i /\ m.para = j}

(* Where a broker stands: one goroutine at most, whose step agrees with    *)
(* the flags; every peer has answered when it is inside, and not before.   *)
Fase(i) ==
    /\ connBrokers[i] = Brokers \ {i}
    /\ \A t, u \in tarefas[i] : t = u
    /\ \A t \in tarefas[i] :
          t.op = "pedir" => requesting[i] /\ t.alvos = Brokers \ {i} /\ respostasOK[i] = {}
    /\ requesting[i] => ~ Entrando(i) /\ respostasOK[i] # Brokers \ {i}
    /\ inCS[i] => Entrando(i)
    /\ Entrando(i) => respostasOK[i] = Brokers \ {i}
    /\ i \notin respostasOK[i]
    /\ oks[i][i] = 0
    /\ Pedidas(i, i) = {}

(* The request of i at its peer j is on the way, deferred, granted by an   *)
(* OK on the way, or granted: one of them and one only, as long as i       *)
(* waits.  It is deferred by a broker that enters or has a better claim.   *)
Par(i, j) ==
    /\ \A m \in Pedidas(i, j) : m.ra = currentReqRA[i]
    /\ Pedidas(i, j) # {} => Aguarda(i) /\ i \notin deferred[j] /\ ~ Concedeu(j, i)
    /\ i \in deferred[j] =>
          /\ Aguarda(i) /\ ~ Concedeu(j, i)
          /\ Entrando(j) \/ (requesting[j] /\ Precede(j, i))
    /\ oks[j][i] > 0 => Aguarda(i) /\ oks[j][i] = 1 /\ j \notin respostasOK[i]
    /\ Aguarda(i) => Pedidas(i, j) # {} \/ i \in deferred[j] \/ Concedeu(j, i)

EmEspera ==
    /\ \A i \in Brokers : Fase(i)
    /\ \A i, j \in Brokers : i # j => Par(i, j)

Esperado == "sobreposicao" \notin furos => EmEspera

(* Who defers or grants has been told the clock of the request, which      *)
(* therefore comes before any that it is about.                            *)
Ordenado(i, j) ==
    /\ i \in deferred[j] => relogioLocal[j] > currentReqRA[i].relogio
    /\ Ativo(i) /\ Concedeu(j, i) =>
          relogioLocal[j] > currentReqRA[i].relogio /\ (Ativo(j) => Antes(i, j))

EmOrdem ==
    /\ EmEspera
    /\ \A i, j \in Brokers : i # j => Ordenado(i, j)

Ordem == furos = {} => EmOrdem

(* What the lemmas say of a step: requests keep their places and, if no    *)
(* gap is used, their order.                                               *)
Mantem == EmEspera' /\ (EmOrdem /\ furos' = {} => EmOrdem')

(* The counts of handleRAOK and monitorarPeers: a set of peers as large as *)
(* that of all the peers is that set.                                      *)
LEMMA SubconjuntoDoMesmoTamanho ==
    ASSUME NEW T, IsFiniteSet(T), NEW S \in SUBSET T, Cardinality(S) >= Cardinality(T)
    PROVE  S = T
<1>1. /\ IsFiniteSet(S)
      /\ Cardinality(S) <= Cardinality(T)
      /\ Cardinality(S) = Cardinality(T) => S = T
  BY FS_Subset
<1>2. Cardinality(S) \in Nat /\ Cardinality(T) \in Nat
  BY <1>1, FS_CardinalityType
<1> QED
  BY <1>1, <1>2

(* The state the exclusion is about, and what an action of broker i leaves *)
(* alone in the pair of two brokers.                                       *)
raDe(i) == <<requesting[i], tarefas[i], currentReqRA[i], respostasOK[i], relogioLocal[i],
             inCS[i], connBrokers[i]>>

(* A broker none of whose variables changes keeps its place.               *)
LEMMA FaseFica ==
    ASSUME NEW i, Fase(i), UNCHANGED <<raDe(i), oks[i][i]>>,
           Pedidas(i, i)' \subseteq Pedidas(i, i)
    PROVE  Fase(i)'
BY DEF Fase, raDe, Entrando

(* Two brokers between which nothing changes keep their relation.          *)
LEMMA ParFica ==
    ASSUME NEW i, NEW j, UNCHANGED <<raDe(i), raDe(j), oks[j][i], deferred[j]>>,
           Pedidas(i, j)' = Pedidas(i, j)
    PROVE  /\ Par(i, j) => Par(i, j)'
           /\ Ordenado(i, j) => Ordenado(i, j)'
<1>1. /\ requesting'[i] = requesting[i] /\ requesting'[j] = requesting[j]
      /\ tarefas'[i] = tarefas[i] /\ tarefas'[j] = tarefas[j]
      /\ currentReqRA'[i] = currentReqRA[i] /\ currentReqRA'[j] = currentReqRA[j]
      /\ respostasOK'[i] = respostasOK[i] /\ relogioLocal'[j] = relogioLocal[j]
      /\ oks'[j][i] = oks[j][i] /\ deferred'[j] = deferred[j]
  BY DEF raDe
<1>2. /\ Concedeu(j, i)' <=> Concedeu(j, i)
      /\ Aguarda(i)' <=> Aguarda(i)
      /\ Ativo(i)' <=> Ativo(i)
      /\ Ativo(j)' <=> Ativo(j)
      /\ Entrando(j)' <=> Entrando(j)
      /\ Antes(i, j)' <=> Antes(i, j)
      /\ Precede(j, i)' <=> Precede(j, i)
  BY <1>1 DEF Concedeu, Aguarda, Ativo, Entrando, Antes, Precede
<1> HIDE DEF Pedidas
<1>3. Par(i, j) => Par(i, j)'
  BY <1>1, <1>2 DEF Par
<1>4. Ordenado(i, j) => Ordenado(i, j)'
  BY <1>1, <1>2 DEF Ordenado
<1> QED
  BY <1>3, <1>4

(* Most actions touch none of it. *)
LEMMA NadaOrdena ==
    ASSUME EmEspera,
           UNCHANGED <<requesting, tarefas, currentReqRA, respostasOK, relogioLocal, inCS,
                       connBrokers, oks, deferred>>,
           \A m \in rede' : m.tipo = "RA_REQUEST" => m \in rede,
           \A m \in rede : m.tipo = "RA_REQUEST" => m \in rede'
    PROVE  Mantem
<1>1. \A i \in Brokers : UNCHANGED raDe(i)
  BY DEF raDe
<1>2. \A i, j : Pedidas(i, j)' = Pedidas(i, j)
  BY DEF Pedidas
<1> HIDE DEF Pedidas
<1>3. \A i \in Brokers : Fase(i)'
  BY <1>1, <1>2, FaseFica DEF EmEspera
<1>4. \A i, j \in Brokers :
         (Par(i, j) => Par(i, j)') /\ (Ordenado(i, j) => Ordenado(i, j)')
  BY <1>1, <1>2, ParFica
<1> QED
  BY <1>3, <1>4 DEF Mantem, EmEspera, EmOrdem

(* A goroutine that is neither asking nor in entrarCS has nothing out. *)
LEMMA OciosoNadaDeve ==
    ASSUME TypeOK, EmEspera, NEW i \in Brokers, ~ Ativo(i)
    PROVE  /\ tarefas[i] = {}
           /\ \A j \in Brokers : oks[j][i] = 0
           /\ \A j \in Brokers \ {i} : /\ Pedidas(i, j) = {}
                                       /\ i \notin deferred[j]
                                       /\ j \notin deferred[i]
<1>1. tarefas[i] = {}
  BY DEF EmEspera, Fase, Ativo, Entrando
<1>2. ASSUME NEW j \in Brokers PROVE oks[j][i] = 0
  <2>1. oks[j][i] \in Nat
    BY DEF TypeOK
  <2> QED
    BY <2>1 DEF EmEspera, Fase, Par, Ativo, Aguarda
<1>3. \A j \in Brokers \ {i} : /\ Pedidas(i, j) = {}
                               /\ i \notin deferred[j]
                               /\ j \notin deferred[i]
  BY DEF EmEspera, Par, Ativo, Aguarda
<1> QED
  BY <1>1, <1>2, <1>3

(* tentarDespachar: a new request, of an idle broker that has peers.  Its  *)
(* clock is ahead of every request the broker has granted.                 *)
LEMMA OrdemAoTentar ==
    ASSUME TypeOK, EmEspera, NEW i \in Brokers, Brokers \ {i} # {}, TentarDespachar(i),
           "sobreposicao" \notin furos'
    PROVE  Mantem
<1>0. CASE ~ PodePedir(i)
  BY <1>0, NadaOrdena DEF TentarDespachar, raVars, redeVars
<1>1. CASE PodePedir(i)
  <2>1. PICK oc \in MaisUrgentes(fila[i]), salto \in 1..MaxSalto :
          /\ relogioLocal' = [relogioLocal EXCEPT ![i] = @ + salto]
          /\ requesting' = [requesting EXCEPT ![i] = TRUE]
          /\ currentReqRA' = [currentReqRA EXCEPT ![i] =
                                [prio |-> oc.prio, relogio |-> relogioLocal[i] + salto]]
          /\ respostasOK' = [respostasOK EXCEPT ![i] = {}]
          /\ deferred' = [deferred EXCEPT ![i] = {}]
          /\ tarefas' = [tarefas EXCEPT ![i] = @ \cup
                {IF connBrokers[i] = {} THEN NaCS("entrarSo", oc) ELSE Pedir(connBrokers[i])}]
          /\ furos' = furos \cup (IF Entrando(i) THEN {"sobreposicao"} ELSE {})
          /\ UNCHANGED inCS
    BY <1>1, Zenon DEF TentarDespachar
  <2>2. UNCHANGED <<connBrokers, oks, rede>>
    BY DEF TentarDespachar, redeVars
  <2>3. ~ Entrando(i) /\ ~ requesting[i] /\ ~ inCS[i] /\ ~ Ativo(i)
    BY <1>1, <2>1 DEF PodePedir, Ativo
  <2>4. /\ tarefas[i] = {}
        /\ \A j \in Brokers : oks[j][i] = 0
        /\ \A j \in Brokers \ {i} : /\ Pedidas(i, j) = {}
                                    /\ i \notin deferred[j]
                                    /\ j \notin deferred[i]
    BY <2>3, OciosoNadaDeve
  <2>5. connBrokers[i] = Brokers \ {i}
    BY DEF EmEspera, Fase
  <2>6. tarefas'[i] = {Pedir(Brokers \ {i})}
    BY <2>1, <2>4, <2>5 DEF TypeOK
  <2>7. /\ requesting'[i] = TRUE /\ respostasOK'[i] = {} /\ deferred'[i] = {}
        /\ inCS'[i] = FALSE
        /\ relogioLocal'[i] = relogioLocal[i] + salto
        /\ currentReqRA'[i].relogio = relogioLocal[i] + salto
    BY <2>1, <2>3 DEF TypeOK
  <2>8. \A k \in Brokers \ {i} : UNCHANGED raDe(k) /\ deferred'[k] = deferred[k]
    BY <2>1, <2>2 DEF TypeOK, raDe
  <2>9. \A k, j : Pedidas(k, j)' = Pedidas(k, j)
    BY <2>2 DEF Pedidas
  <2>10. Pedir(Brokers \ {i}).op = "pedir" /\ Pedir(Brokers \ {i}).alvos = Brokers \ {i}
    BY DEF Pedir
  <2>11. ~ Entrando(i)'
    BY <2>6, <2>10 DEF Entrando
  <2>12. Fase(i)'
    <3>1. Pedidas(i, i)' = {}
      BY <2>9 DEF EmEspera, Fase
    <3> QED
      BY <2>2, <2>4, <2>5, <2>6, <2>7, <2>10, <2>11, <3>1 DEF Fase
  <2>13. \A k \in Brokers : Fase(k)'
    BY <2>2, <2>8, <2>9, <2>12, FaseFica DEF EmEspera
  <2>14. \A j \in Brokers \ {i} : ~ Concedeu(j, i)'
    BY <2>2, <2>4, <2>7 DEF Concedeu
  <2>15. ASSUME NEW k \in Brokers \ {i}
         PROVE  /\ requesting'[k] = requesting[k] /\ tarefas'[k] = tarefas[k]
                /\ currentReqRA'[k] = currentReqRA[k] /\ respostasOK'[k] = respostasOK[k]
                /\ Concedeu(i, k)' <=> Concedeu(i, k)
                /\ Ativo(k)' <=> Ativo(k)
                /\ Aguarda(k)' <=> Aguarda(k)
    <3>1. /\ requesting'[k] = requesting[k] /\ tarefas'[k] = tarefas[k]
          /\ currentReqRA'[k] = currentReqRA[k] /\ respostasOK'[k] = respostasOK[k]
      BY <2>8 DEF raDe
    <3> QED
      BY <2>2, <3>1 DEF Concedeu, Ativo, Aguarda, Entrando
  <2>16. ASSUME NEW k \in Brokers, NEW j \in Brokers, k # j
         PROVE  Par(k, j)'
    <3>0. Par(k, j)
      BY <2>16 DEF EmEspera
    <3>1. CASE k # i /\ j # i
      BY <2>2, <2>8, <2>9, <3>0, <3>1, ParFica
    <3>2. CASE k = i
      <4>1. ~ Aguarda(i)'
        BY <2>6 DEF Aguarda
      <4> QED
        BY <2>2, <2>4, <2>8, <2>9, <2>14, <2>16, <3>2, <4>1 DEF Par
    <3>3. CASE j = i
      <4>1. k \notin deferred[i] /\ k \notin deferred'[i]
        BY <2>4, <2>7, <2>16, <3>3
      <4> QED
        BY <2>2, <2>9, <2>15, <2>16, <3>0, <3>3, <4>1 DEF Par
    <3> QED
      BY <3>1, <3>2, <3>3
  <2>17. ASSUME EmOrdem, NEW k \in Brokers, NEW j \in Brokers, k # j
         PROVE  Ordenado(k, j)'
    <3>0. Ordenado(k, j)
      BY <2>17 DEF EmOrdem
    <3>1. CASE k # i /\ j # i
      BY <2>2, <2>8, <2>9, <3>0, <3>1, ParFica
    <3>2. CASE k = i
      <4>1. i \notin deferred'[j]
        BY <2>4, <2>8, <2>17, <3>2
      <4> QED
        BY <2>14, <2>17, <3>2, <4>1 DEF Ordenado
    <3>3. CASE j = i
      <4>1. /\ relogioLocal[i] \in Nat /\ currentReqRA[k].relogio \in Nat /\ salto \in Nat
            /\ salto > 0
        BY LimitesAssumption DEF TypeOK, RA
      <4>2. ASSUME Ativo(k)', Concedeu(i, k)'
            PROVE  relogioLocal'[i] > currentReqRA'[k].relogio /\ Antes(k, i)'
        <5>1. relogioLocal[i] > currentReqRA[k].relogio
          BY <2>15, <2>17, <3>0, <3>3, <4>2 DEF Ordenado
        <5>2. currentReqRA'[k] = currentReqRA[k]
          BY <2>15, <2>17, <3>3
        <5> QED
          BY <2>7, <4>1, <5>1, <5>2 DEF Antes
      <4> QED
        BY <2>7, <3>3, <4>2 DEF Ordenado
    <3> QED
      BY <3>1, <3>2, <3>3
  <2> QED
    BY <2>13, <2>16, <2>17 DEF Mantem, EmEspera, EmOrdem
<1> QED
  BY <1>0, <1>1

(* There is one request of i at j, with the clock i asked with. *)
LEMMA PedidaEhUma ==
    ASSUME TypeOK, EmEspera, NEW i \in Brokers, NEW j \in Brokers, i # j,
           NEW m \in Pedidas(i, j)
    PROVE  m = RARequest(i, j, currentReqRA[i])
<1>1. /\ m \in Mensagens /\ m.tipo = "RA_REQUEST" /\ m.de = i /\ m.para = j
  BY DEF Pedidas, TypeOK
<1>2. m.ra = currentReqRA[i]
  BY DEF EmEspera, Par
<1>3. m \in [tipo : {"RA_REQUEST"}, de : Brokers, para : Brokers, ra : RA]
  BY <1>1 DEF Mensagens
<1> QED
  BY <1>1, <1>2, <1>3 DEF RARequest

(* The multicast: the request leaves for every peer. *)
LEMMA OrdemAoEnviar ==
    ASSUME TypeOK, EmEspera, NEW i \in Brokers, NEW t \in tarefas[i], EnviarPedidos(i, t)
    PROVE  Mantem
<1>1. /\ t.op = "pedir"
      /\ rede' = rede \cup {RARequest(i, j, currentReqRA[i]) : j \in t.alvos}
      /\ tarefas' = [tarefas EXCEPT ![i] = @ \ {t}]
      /\ UNCHANGED <<requesting, currentReqRA, respostasOK, relogioLocal, inCS, connBrokers,
                     oks, deferred>>
  BY DEF EnviarPedidos, raVars
<1>2. requesting[i] /\ t.alvos = Brokers \ {i} /\ respostasOK[i] = {} /\ tarefas[i] = {t}
  BY <1>1 DEF EmEspera, Fase
<1>3. tarefas'[i] = {} /\ ~ Entrando(i) /\ ~ Entrando(i)' /\ Aguarda(i)'
  BY <1>1, <1>2 DEF TypeOK, Entrando, Aguarda
<1>4. \A k \in Brokers \ {i} : UNCHANGED raDe(k)
  BY <1>1 DEF TypeOK, raDe
<1>5. \A k, j \in Brokers : k # i => Pedidas(k, j)' = Pedidas(k, j)
  BY <1>1 DEF Pedidas, RARequest
<1>6. \A j \in Brokers \ {i} :
         Pedidas(i, j)' = Pedidas(i, j) \cup {RARequest(i, j, currentReqRA[i])}
  BY <1>1, <1>2 DEF Pedidas, RARequest
<1>7. Pedidas(i, i)' = Pedidas(i, i)
  BY <1>1, <1>2 DEF Pedidas, RARequest
<1>8. Fase(i)'
  BY <1>1, <1>2, <1>3, <1>7 DEF EmEspera, Fase
<1>9. \A k \in Brokers : Fase(k)'
  BY <1>1, <1>4, <1>5, <1>8, FaseFica DEF EmEspera
<1>10. ASSUME NEW k \in Brokers \ {i}
       PROVE  /\ tarefas'[k] = tarefas[k]
              /\ Concedeu(i, k)' <=> Concedeu(i, k)
              /\ Ativo(k)' <=> Ativo(k)
              /\ Aguarda(k)' <=> Aguarda(k)
              /\ Antes(k, i)' <=> Antes(k, i)
              /\ Precede(i, k)' <=> Precede(i, k)
  <2>1. tarefas'[k] = tarefas[k]
    BY <1>4 DEF raDe
  <2> QED
    BY <1>1, <2>1 DEF Concedeu, Ativo, Aguarda, Entrando, Antes, Precede
<1>11. ASSUME NEW j \in Brokers \ {i}
       PROVE  /\ Pedidas(i, j) = {} /\ i \notin deferred[j] /\ oks[j][i] = 0
              /\ ~ Concedeu(j, i)'
  <2>1. oks[j][i] \in Nat
    BY DEF TypeOK
  <2>2. ~ Aguarda(i)
    BY <1>2 DEF Aguarda
  <2>3. Pedidas(i, j) = {} /\ i \notin deferred[j] /\ oks[j][i] = 0
    BY <2>1, <2>2 DEF EmEspera, Par
  <2> QED
    BY <1>1, <1>2, <2>3 DEF Concedeu
<1>12. ASSUME NEW k \in Brokers, NEW j \in Brokers, k # j
       PROVE  Par(k, j)'
  <2>0. Par(k, j)
    BY <1>12 DEF EmEspera
  <2>1. CASE k # i /\ j # i
    BY <1>1, <1>4, <1>5, <2>0, <2>1, ParFica
  <2>2. CASE k = i
    <3>1. Pedidas(i, j)' = {RARequest(i, j, currentReqRA[i])}
      BY <1>6, <1>11, <1>12, <2>2
    <3>2. RARequest(i, j, currentReqRA[i]).ra = currentReqRA[i]
      BY DEF RARequest
    <3> QED
      BY <1>1, <1>3, <1>11, <1>12, <2>2, <3>1, <3>2 DEF Par
  <2>3. CASE j = i
    <3>1. Pedidas(k, i)' = Pedidas(k, i)
      BY <1>5, <1>12, <2>3
    <3>2. k \in Brokers \ {i}
      BY <1>12, <2>3
    <3> QED
      BY <1>1, <1>3, <1>10, <2>0, <2>3, <3>1, <3>2 DEF Par
  <2> QED
    BY <2>1, <2>2, <2>3
<1>13. ASSUME EmOrdem, NEW k \in Brokers, NEW j \in Brokers, k # j
       PROVE  Ordenado(k, j)'
  <2>0. Ordenado(k, j)
    BY <1>13 DEF EmOrdem
  <2>1. CASE k # i /\ j # i
    BY <1>1, <1>4, <1>5, <2>0, <2>1, ParFica
  <2>2. CASE k = i
    BY <1>1, <1>11, <1>13, <2>2 DEF Ordenado
  <2>3. CASE j = i
    <3>1. Ativo(i)' => Ativo(i)
      BY <1>1, <1>3 DEF Ativo
    <3>2. k \in Brokers \ {i}
      BY <1>13, <2>3
    <3> QED
      BY <1>1, <1>10, <2>0, <2>3, <3>1, <3>2 DEF Ordenado
  <2> QED
    BY <2>1, <2>2, <2>3
<1> QED
  BY <1>9, <1>12, <1>13 DEF Mantem, EmEspera, EmOrdem

(* handleRARequest.  It defers the request of a worse claim or grants it;  *)
(* granted without a gap, it comes before the one of the broker that       *)
(* grants it.                                                              *)
LEMMA OrdemAoPedirem ==
    ASSUME TypeOK, EmEspera, NEW m \in rede, HandleRARequest(m)
    PROVE  Mantem
<1> DEFINE i == m.para
           k == m.de
<1>1. /\ m.tipo = "RA_REQUEST"
      /\ rede' = rede \ {m}
      /\ relogioLocal' = [relogioLocal EXCEPT ![i] =
                            (IF @ > m.ra.relogio THEN @ ELSE m.ra.relogio) + 1]
      /\ UNCHANGED <<requesting, tarefas, currentReqRA, respostasOK, inCS, connBrokers>>
  BY DEF HandleRARequest
<1>2. i \in Brokers /\ k \in Brokers /\ m.ra \in RA
  BY <1>1 DEF TypeOK, Mensagens
<1>3. m \in Pedidas(k, i)
  BY <1>1 DEF Pedidas
<1>4. k # i
  BY <1>2, <1>3 DEF EmEspera, Fase
<1>5. /\ m.ra = currentReqRA[k]
      /\ Aguarda(k) /\ k \notin deferred[i] /\ ~ Concedeu(i, k)
  <2>1. Par(k, i) /\ Pedidas(k, i) # {}
    BY <1>2, <1>3, <1>4 DEF EmEspera
  <2> QED
    BY <1>3, <2>1 DEF Par
<1>6. Pedidas(k, i)' = {}
  <2>1. Pedidas(k, i)' \subseteq Pedidas(k, i) \ {m}
    BY <1>1 DEF Pedidas
  <2> QED
    BY <1>2, <1>3, <1>4, <2>1, PedidaEhUma
<1>7. \A x, y : Pedidas(x, y)' \subseteq Pedidas(x, y)
                /\ (~ (x = k /\ y = i) => Pedidas(x, y)' = Pedidas(x, y))
  BY <1>1 DEF Pedidas
<1>8. /\ relogioLocal'[i] > currentReqRA[k].relogio
      /\ relogioLocal'[i] > relogioLocal[i]
      /\ \A x \in Brokers : x # i => relogioLocal'[x] = relogioLocal[x]
  <2>1. m.ra.relogio \in Nat /\ relogioLocal[i] \in Nat
    BY <1>2 DEF TypeOK, RA
  <2> QED
    BY <1>1, <1>2, <1>5, <2>1 DEF TypeOK
<1>9. \/ /\ DeveAdiar(i, m)
         /\ deferred' = [deferred EXCEPT ![i] = @ \cup {k}]
         /\ UNCHANGED oks
      \/ /\ ~ DeveAdiar(i, m)
         /\ deferred' = [deferred EXCEPT ![i] = @ \ {k}]
         /\ oks' = EnviarOKs(i, {k})
         /\ furos' = {} =>
              /\ requesting[i] /\ MaisAntigo(i, m) => ~ (m.ra.prio > currentReqRA[i].prio)
              /\ inCS[i] \/ ~ Entrando(i)
  BY DEF HandleRARequest
<1>10. /\ \A x \in Brokers : x # i => deferred'[x] = deferred[x]
       /\ \A x : x # k => (x \in deferred'[i] <=> x \in deferred[i])
  BY <1>2, <1>9 DEF TypeOK
<1>11. /\ \A x, y \in Brokers : ~ (x = i /\ y = k) => oks'[x][y] = oks[x][y]
       /\ DeveAdiar(i, m) => oks'[i][k] = oks[i][k] /\ k \in deferred'[i]
       /\ ~ DeveAdiar(i, m) => oks'[i][k] = 1 /\ k \notin deferred'[i]
  <2>1. CASE DeveAdiar(i, m)
    BY <1>2, <1>9, <2>1 DEF TypeOK
  <2>2. CASE ~ DeveAdiar(i, m)
    <3>1. oks' = EnviarOKs(i, {k}) /\ deferred' = [deferred EXCEPT ![i] = @ \ {k}]
      BY <1>9, <2>2
    <3>2. k \in connBrokers[i]
      BY <1>2, <1>4 DEF EmEspera, Fase
    <3>3. oks \in [Brokers -> [Brokers -> Nat]]
      BY DEF TypeOK
    <3>4. oks[i][k] = 0
      <4>1. oks[i][k] \in Nat
        BY <1>2, <3>3
      <4> QED
        BY <1>5, <4>1 DEF Concedeu
    <3>5. oks'[i][k] = 1
      BY <1>2, <3>1, <3>2, <3>3, <3>4 DEF EnviarOKs
    <3>6. \A x, y \in Brokers : ~ (x = i /\ y = k) => oks'[x][y] = oks[x][y]
      BY <1>2, <3>1, <3>3 DEF EnviarOKs
    <3>7. k \notin deferred'[i]
      BY <1>2, <3>1 DEF TypeOK
    <3> QED
      BY <2>2, <3>5, <3>6, <3>7
  <2> QED
    BY <2>1, <2>2
<1>12. \A x \in Brokers : Fase(x)'
  <2>1. ASSUME NEW x \in Brokers PROVE Fase(x)'
    <3>1. Fase(x) /\ oks'[x][x] = oks[x][x] /\ Pedidas(x, x)' \subseteq Pedidas(x, x)
      BY <1>4, <1>7, <1>11 DEF EmEspera
    <3>2. Entrando(x)' <=> Entrando(x)
      BY <1>1 DEF Entrando
    <3> HIDE DEF Pedidas
    <3> QED
      BY <1>1, <3>1, <3>2 DEF Fase
  <2> QED
    BY <2>1
<1>13. /\ \A z : (Ativo(z)' <=> Ativo(z)) /\ (Aguarda(z)' <=> Aguarda(z))
                 /\ (Entrando(z)' <=> Entrando(z))
       /\ \A x, y : (Antes(x, y)' <=> Antes(x, y)) /\ (Precede(x, y)' <=> Precede(x, y))
  BY <1>1 DEF Ativo, Aguarda, Entrando, Antes, Precede
<1>14. ASSUME NEW x \in Brokers, NEW y \in Brokers, ~ (x = k /\ y = i)
       PROVE  /\ oks'[y][x] = oks[y][x]
              /\ x \in deferred'[y] <=> x \in deferred[y]
              /\ Concedeu(y, x)' <=> Concedeu(y, x)
  <2>1. /\ oks'[y][x] = oks[y][x]
        /\ x \in deferred'[y] <=> x \in deferred[y]
    BY <1>10, <1>11, <1>14
  <2> QED
    BY <1>1, <2>1 DEF Concedeu
<1>15. ASSUME NEW x \in Brokers, NEW y \in Brokers, x # y
       PROVE  Par(x, y)'
  <2>0. Par(x, y)
    BY <1>15 DEF EmEspera
  <2>1. CASE ~ (x = k /\ y = i)
    <3>1. Pedidas(x, y)' = Pedidas(x, y)
      BY <1>7, <2>1
    <3> HIDE DEF Pedidas
    <3> QED
      BY <1>1, <1>13, <1>14, <2>0, <2>1, <3>1 DEF Par
  <2>2. CASE x = k /\ y = i /\ DeveAdiar(i, m)
    <3>1. ~ Concedeu(i, k)'
      BY <1>1, <1>2, <1>5, <1>11, <2>2 DEF Concedeu
    <3>2. Entrando(i) \/ (requesting[i] /\ Precede(i, k))
      <4>1. CASE inCS[i]
        BY <1>2, <4>1 DEF EmEspera, Fase
      <4>2. CASE requesting[i] /\ MeuPedidoVence(i, m)
        BY <1>5, <4>2 DEF MeuPedidoVence, MaisAntigo, Precede
      <4> QED
        BY <2>2, <4>1, <4>2 DEF DeveAdiar
    <3>3. ~ (oks'[i][k] > 0)
      BY <3>1 DEF Concedeu
    <3> QED
      BY <1>1, <1>2, <1>5, <1>6, <1>11, <1>13, <2>2, <3>1, <3>2, <3>3 DEF Par
  <2>3. CASE x = k /\ y = i /\ ~ DeveAdiar(i, m)
    <3>1. oks'[i][k] = 1 /\ k \notin deferred'[i] /\ i \notin respostasOK'[k]
      BY <1>1, <1>5, <1>11, <2>3 DEF Concedeu
    <3>2. Concedeu(i, k)'
      BY <3>1 DEF Concedeu
    <3> QED
      BY <1>5, <1>6, <1>13, <2>3, <3>1, <3>2 DEF Par
  <2> QED
    BY <2>1, <2>2, <2>3
<1>16. ASSUME EmOrdem, furos' = {}, NEW x \in Brokers, NEW y \in Brokers, x # y
       PROVE  Ordenado(x, y)'
  <2>0. Ordenado(x, y)
    BY <1>16 DEF EmOrdem
  <2>1. /\ relogioLocal'[y] \in Nat /\ relogioLocal[y] \in Nat
        /\ currentReqRA[x].relogio \in Nat
    BY <1>1, <1>2 DEF TypeOK, RA
  <2>2. relogioLocal'[y] >= relogioLocal[y]
    <3>1. CASE y = i
      BY <1>8, <2>1, <3>1
    <3>2. CASE y # i
      BY <1>8, <2>1, <3>2
    <3> QED
      BY <3>1, <3>2
  <2>3. CASE ~ (x = k /\ y = i)
    BY <1>1, <1>13, <1>14, <2>0, <2>1, <2>2, <2>3 DEF Ordenado
  <2>4. CASE x = k /\ y = i
    <3>1. CASE DeveAdiar(i, m)
      <4>1. ~ Concedeu(i, k)'
        BY <1>1, <1>2, <1>5, <1>11, <3>1 DEF Concedeu
      <4> QED
        BY <1>1, <1>8, <2>4, <4>1 DEF Ordenado
    <3>2. CASE ~ DeveAdiar(i, m)
      <4>1. ~ inCS[i] /\ ~ Entrando(i)
        BY <1>9, <1>16, <3>2 DEF DeveAdiar
      <4>2. ASSUME Ativo(i) PROVE Antes(k, i)
        <5>1. requesting[i]
          BY <4>1, <4>2 DEF Ativo
        <5>2. currentReqRA[i] \in RA /\ currentReqRA[k] \in RA
          BY <1>2 DEF TypeOK
        <5>3. ~ MaisAntigo(i, m)
          <6>1. ~ MeuPedidoVence(i, m)
            BY <3>2, <5>1 DEF DeveAdiar
          <6>2. m.ra.prio \in Nat /\ currentReqRA[i].prio \in Nat
            BY <1>2, <5>2 DEF RA
          <6> QED
            BY <1>9, <1>16, <3>2, <5>1, <6>1, <6>2 DEF MeuPedidoVence
        <5>4. i \in Nat /\ k \in Nat
          BY <1>2, BrokersAssumption
        <5> QED
          BY <1>4, <1>5, <5>2, <5>3, <5>4 DEF MaisAntigo, Antes, RA
      <4> QED
        BY <1>1, <1>8, <1>11, <1>13, <2>4, <3>2, <4>2 DEF Ordenado
    <3> QED
      BY <3>1, <3>2
  <2> QED
    BY <2>3, <2>4
<1> QED
  BY <1>12, <1>15, <1>16 DEF Mantem, EmEspera, EmOrdem

(* handleRAOK.  With the last OK every peer has granted the request. *)
LEMMA OrdemAoReceberOK ==
    ASSUME TypeOK, EmEspera, NEW i \in Brokers, NEW j \in Brokers, HandleRAOK(j, i)
    PROVE  Mantem
<1> DEFINE respostas == respostasOK[i] \cup {j}
           unanime == Cardinality(respostas) >= Cardinality(connBrokers[i])
<1>1. /\ oks[j][i] > 0
      /\ oks' = [oks EXCEPT ![j][i] = @ - 1]
      /\ UNCHANGED <<relogioLocal, inCS, currentReqRA, deferred, connBrokers, rede>>
  BY DEF HandleRAOK
<1>2. i # j
  BY <1>1 DEF EmEspera, Fase
<1>3. Aguarda(i) /\ requesting[i] /\ tarefas[i] = {} /\ oks[j][i] = 1 /\ j \notin respostasOK[i]
  BY <1>1, <1>2 DEF EmEspera, Par, Aguarda
<1>4. ~ inCS[i] /\ ~ Entrando(i) /\ connBrokers[i] = Brokers \ {i} /\ i \notin respostasOK[i]
  BY <1>3 DEF EmEspera, Fase, Entrando
<1>5. /\ respostasOK' = [respostasOK EXCEPT ![i] = respostas]
      /\ requesting' = [requesting EXCEPT ![i] = @ /\ ~ unanime]
      /\ tarefas' = IF unanime
                    THEN [tarefas EXCEPT ![i] = @ \cup {NaCS("entrar", currentReqOc[i])}]
                    ELSE tarefas
  BY <1>3, <1>4 DEF HandleRAOK
<1>6. unanime <=> respostas = Brokers \ {i}
  <2>0. IsFiniteSet(Brokers \ {i}) /\ respostas \subseteq Brokers \ {i}
    BY <1>2, <1>4, BrokersAssumption, FS_Subset DEF TypeOK
  <2>1. ASSUME unanime PROVE respostas = Brokers \ {i}
    BY <1>4, <2>0, <2>1, SubconjuntoDoMesmoTamanho
  <2>2. ASSUME respostas = Brokers \ {i} PROVE unanime
    <3>1. Cardinality(respostas) = Cardinality(connBrokers[i])
      BY <1>4, <2>2
    <3>2. Cardinality(respostas) \in Nat
      BY <2>0, <2>2, FS_CardinalityType
    <3> QED
      BY <3>1, <3>2
  <2> QED
    BY <2>1, <2>2
<1> HIDE DEF unanime, respostas
<1>7. /\ respostasOK'[i] = respostas
      /\ requesting'[i] = ~ unanime
      /\ \A k \in Brokers \ {i} : UNCHANGED raDe(k)
  BY <1>1, <1>3, <1>5 DEF TypeOK, raDe
<1>8. tarefas'[i] = IF unanime THEN {NaCS("entrar", currentReqOc[i])} ELSE {}
  BY <1>3, <1>5 DEF TypeOK
<1>9. Entrando(i)' <=> unanime
  <2>1. NaCS("entrar", currentReqOc[i]).op # "pedir"
    BY DEF NaCS
  <2> QED
    BY <1>8, <2>1 DEF Entrando
<1>10. Ativo(i) /\ Ativo(i)' /\ (Aguarda(i)' <=> ~ unanime)
  BY <1>3, <1>7, <1>8, <1>9 DEF Ativo, Aguarda
<1>11. /\ oks'[j][i] = 0
       /\ \A x, y \in Brokers : ~ (x = j /\ y = i) => oks'[x][y] = oks[x][y]
  BY <1>1, <1>3 DEF TypeOK
<1>12. \A x, y : Pedidas(x, y)' = Pedidas(x, y)
  BY <1>1 DEF Pedidas
<1>13. i \notin respostas /\ j \in respostas
  BY <1>2, <1>4 DEF respostas
<1>14. Fase(i)'
  <2>1. \A t \in tarefas'[i] : t.op # "pedir"
    BY <1>8 DEF NaCS
  <2>2. \A t, u \in tarefas'[i] : t = u
    BY <1>8
  <2>3. oks'[i][i] = 0 /\ Pedidas(i, i)' = {}
    BY <1>2, <1>11, <1>12 DEF EmEspera, Fase
  <2> QED
    BY <1>1, <1>4, <1>6, <1>7, <1>9, <1>13, <2>1, <2>2, <2>3 DEF Fase
<1>15. \A k \in Brokers : Fase(k)'
  BY <1>2, <1>7, <1>11, <1>12, <1>14, FaseFica DEF EmEspera
<1>16. ASSUME NEW x \in Brokers \ {i}
       PROVE  /\ requesting'[x] = requesting[x] /\ tarefas'[x] = tarefas[x]
              /\ respostasOK'[x] = respostasOK[x] /\ oks'[i][x] = oks[i][x]
              /\ Concedeu(i, x)' <=> Concedeu(i, x)
              /\ Ativo(x)' <=> Ativo(x)
              /\ Aguarda(x)' <=> Aguarda(x)
              /\ Entrando(x)' <=> Entrando(x)
  <2>1. /\ requesting'[x] = requesting[x] /\ tarefas'[x] = tarefas[x]
        /\ respostasOK'[x] = respostasOK[x] /\ oks'[i][x] = oks[i][x]
    BY <1>2, <1>7, <1>11 DEF raDe
  <2> QED
    BY <2>1 DEF Concedeu, Ativo, Aguarda, Entrando
<1>17. \A x, y : (Antes(x, y)' <=> Antes(x, y)) /\ (Precede(x, y)' <=> Precede(x, y))
  BY <1>1 DEF Antes, Precede
<1>18. ASSUME NEW y \in Brokers \ {i}, y # j
       PROVE  /\ oks'[y][i] = oks[y][i] /\ (y \in respostasOK'[i] <=> y \in respostasOK[i])
              /\ Concedeu(y, i)' <=> Concedeu(y, i)
  <2>1. oks'[y][i] = oks[y][i] /\ (y \in respostasOK'[i] <=> y \in respostasOK[i])
    BY <1>7, <1>11, <1>18 DEF respostas
  <2> QED
    BY <2>1 DEF Concedeu
<1>19. Concedeu(j, i) /\ Concedeu(j, i)'
  BY <1>1, <1>7, <1>13 DEF Concedeu
<1>20. ASSUME NEW x \in Brokers, NEW y \in Brokers, x # y
       PROVE  Par(x, y)'
  <2>0. Par(x, y)
    BY <1>20 DEF EmEspera
  <2>1. CASE x # i /\ y # i
    BY <1>1, <1>7, <1>11, <1>12, <1>20, <2>0, <2>1, ParFica
  <2>2. CASE y = i
    <3>1. x \in Brokers \ {i}
      BY <1>20, <2>2
    <3>2. x \in deferred[i] => Precede(i, x)
      BY <1>4, <2>0, <2>2 DEF Par
    <3>3. Entrando(i)' \/ requesting'[i]
      BY <1>7, <1>9
    <3> QED
      BY <1>1, <1>12, <1>16, <1>17, <2>0, <2>2, <3>1, <3>2, <3>3 DEF Par
  <2>3. CASE x = i /\ y = j
    <3>1. Pedidas(i, j) = {} /\ i \notin deferred[j]
      BY <1>19, <2>0, <2>3 DEF Par
    <3> QED
      BY <1>1, <1>11, <1>12, <1>19, <2>0, <2>3, <3>1 DEF Par
  <2>4. CASE x = i /\ y # j
    <3>0. y \in Brokers \ {i}
      BY <1>20, <2>4
    <3>1. unanime => y \in respostasOK[i]
      BY <1>6, <1>20, <2>4 DEF respostas
    <3>2. unanime => ~ (oks[y][i] > 0) /\ Pedidas(i, y) = {} /\ i \notin deferred[y]
      BY <2>0, <2>4, <3>1 DEF Par, Concedeu
    <3>3. (Entrando(y)' <=> Entrando(y)) /\ requesting'[y] = requesting[y]
      BY <1>16, <3>0
    <3> QED
      BY <1>1, <1>3, <1>10, <1>12, <1>17, <1>18, <2>0, <2>4, <3>0, <3>2, <3>3 DEF Par
  <2> QED
    BY <1>20, <2>1, <2>2, <2>3, <2>4
<1>21. ASSUME EmOrdem, NEW x \in Brokers, NEW y \in Brokers, x # y
       PROVE  Ordenado(x, y)'
  <2>0. Ordenado(x, y)
    BY <1>21 DEF EmOrdem
  <2>1. CASE x # i /\ y # i
    BY <1>1, <1>7, <1>11, <1>12, <1>21, <2>0, <2>1, ParFica
  <2>2. CASE y = i
    <3>1. x \in Brokers \ {i}
      BY <1>21, <2>2
    <3> QED
      BY <1>1, <1>10, <1>16, <1>17, <2>0, <2>2, <3>1 DEF Ordenado
  <2>3. CASE x = i
    <3>1. y \in Brokers \ {i}
      BY <1>21, <2>3
    <3>2. Concedeu(y, i)' <=> Concedeu(y, i)
      BY <1>18, <1>19, <3>1
    <3> QED
      BY <1>1, <1>10, <1>16, <1>17, <2>0, <2>3, <3>1, <3>2 DEF Ordenado
  <2> QED
    BY <2>1, <2>2, <2>3
<1> QED
  BY <1>15, <1>20, <1>21 DEF Mantem, EmEspera, EmOrdem


(* A broker in entrarCS has nothing out: every peer has answered. *)
LEMMA EntrandoNadaDeve ==
    ASSUME TypeOK, EmEspera, NEW i \in Brokers, Entrando(i)
    PROVE  /\ ~ requesting[i] /\ respostasOK[i] = Brokers \ {i}
           /\ \A j \in Brokers : oks[j][i] = 0
           /\ \A j \in Brokers \ {i} : Pedidas(i, j) = {} /\ i \notin deferred[j]
<1>1. ~ requesting[i] /\ respostasOK[i] = Brokers \ {i} /\ oks[i][i] = 0
  BY DEF EmEspera, Fase
<1>2. ASSUME NEW j \in Brokers, j # i
      PROVE  oks[j][i] = 0 /\ Pedidas(i, j) = {} /\ i \notin deferred[j]
  <2>1. oks[j][i] \in Nat
    BY DEF TypeOK
  <2> QED
    BY <1>1, <1>2, <2>1 DEF EmEspera, Par, Aguarda
<1> QED
  BY <1>1, <1>2

(* entrarCS before its last step: the goroutine stays inside. *)
LEMMA OrdemAoEntrar ==
    ASSUME TypeOK, EmEspera, NEW i \in Brokers, NEW t \in tarefas[i],
           EntrarCS(i, t) \/ DespacharDrone(i, t)
    PROVE  Mantem
<1>1. /\ UNCHANGED <<currentReqRA, respostasOK, relogioLocal, connBrokers, oks, deferred>>
      /\ \A m : m.tipo = "RA_REQUEST" => (m \in rede' <=> m \in rede)
  BY DEF EntrarCS, DespacharDrone, raVars, redeVars, missaoVars, Reservas, Reserva
<1>2. \E oc : \E op \in {"despachar", "sair"} :
         tarefas' = [tarefas EXCEPT ![i] = (@ \ {t}) \cup {NaCS(op, oc)}]
  BY DEF EntrarCS, DespacharDrone
<1>3. t.op # "pedir"
  BY DEF EntrarCS, DespacharDrone
<1>4. Entrando(i)
  BY <1>3 DEF Entrando
<1>5. /\ ~ requesting[i] /\ respostasOK[i] = Brokers \ {i}
      /\ \A j \in Brokers : oks[j][i] = 0
      /\ \A j \in Brokers \ {i} : Pedidas(i, j) = {} /\ i \notin deferred[j]
  BY <1>4, EntrandoNadaDeve
<1>6. PICK n : tarefas'[i] = {n} /\ n.op # "pedir"
  <2>0. PICK oc : \E op \in {"despachar", "sair"} :
           tarefas' = [tarefas EXCEPT ![i] = (@ \ {t}) \cup {NaCS(op, oc)}]
    BY <1>2
  <2>1. PICK op \in {"despachar", "sair"} :
           tarefas' = [tarefas EXCEPT ![i] = (@ \ {t}) \cup {NaCS(op, oc)}]
    BY <2>0
  <2>2. tarefas[i] = {t}
    BY DEF EmEspera, Fase
  <2>3. tarefas'[i] = {NaCS(op, oc)}
    BY <2>1, <2>2 DEF TypeOK
  <2>4. NaCS(op, oc).op # "pedir"
    BY DEF NaCS
  <2> QED
    BY <2>3, <2>4
<1>7. Entrando(i)' /\ ~ requesting'[i]
  BY <1>5, <1>6 DEF Entrando, EntrarCS, DespacharDrone, raVars, TypeOK
<1>8. \A k \in Brokers \ {i} : UNCHANGED raDe(k)
  <2>1. \A k \in Brokers \ {i} : tarefas'[k] = tarefas[k]
    BY <1>2 DEF TypeOK
  <2>2. \A k \in Brokers \ {i} : requesting'[k] = requesting[k] /\ inCS'[k] = inCS[k]
    BY DEF EntrarCS, DespacharDrone, raVars, TypeOK
  <2> QED
    BY <1>1, <2>1, <2>2 DEF raDe
<1>9. \A x, y : Pedidas(x, y)' = Pedidas(x, y)
  BY <1>1 DEF Pedidas
<1>10. Fase(i)'
  <2>1. Fase(i) /\ Pedidas(i, i)' = {}
    BY <1>9 DEF EmEspera, Fase
  <2>2. /\ \A u \in tarefas'[i] : u.op # "pedir"
        /\ \A u, v \in tarefas'[i] : u = v
    BY <1>6
  <2> QED
    BY <1>1, <1>5, <1>7, <2>1, <2>2 DEF Fase
<1>11. \A k \in Brokers : Fase(k)'
  BY <1>1, <1>8, <1>9, <1>10, FaseFica DEF EmEspera
<1>12. /\ Ativo(i) /\ Ativo(i)' /\ ~ Aguarda(i)'
       /\ \A k \in Brokers \ {i} : /\ requesting'[k] = requesting[k]
                                   /\ Ativo(k)' <=> Ativo(k)
                                   /\ Aguarda(k)' <=> Aguarda(k)
                                   /\ Entrando(k)' <=> Entrando(k)
       /\ \A x, y : /\ Concedeu(y, x)' <=> Concedeu(y, x)
                    /\ Antes(x, y)' <=> Antes(x, y)
  <2>1. Ativo(i) /\ Ativo(i)' /\ ~ Aguarda(i)'
    BY <1>4, <1>7 DEF Ativo, Aguarda
  <2>2. \A k \in Brokers \ {i} : /\ requesting'[k] = requesting[k]
                                 /\ Ativo(k)' <=> Ativo(k)
                                 /\ Aguarda(k)' <=> Aguarda(k)
                                 /\ Entrando(k)' <=> Entrando(k)
    BY <1>8 DEF Ativo, Aguarda, Entrando, raDe
  <2> QED
    BY <1>1, <2>1, <2>2 DEF Concedeu, Antes
<1>13. ASSUME NEW x \in Brokers, NEW y \in Brokers, x # y
       PROVE  Par(x, y)'
  <2>0. Par(x, y)
    BY <1>13 DEF EmEspera
  <2>1. CASE x # i /\ y # i
    BY <1>1, <1>8, <1>9, <2>0, <2>1, ParFica
  <2>2. CASE x = i
    <3>1. Pedidas(i, y)' = {} /\ oks'[y][i] = 0 /\ i \notin deferred'[y]
      BY <1>1, <1>5, <1>9, <1>13, <2>2
    <3> QED
      BY <1>12, <2>2, <3>1 DEF Par
  <2>3. CASE y = i
    <3> QED
      BY <1>1, <1>7, <1>9, <1>12, <1>13, <2>0, <2>3 DEF Par
  <2> QED
    BY <2>1, <2>2, <2>3
<1>14. ASSUME EmOrdem, NEW x \in Brokers, NEW y \in Brokers, x # y
       PROVE  Ordenado(x, y)'
  <2>0. Ordenado(x, y)
    BY <1>14 DEF EmOrdem
  <2>1. /\ Ativo(x)' <=> Ativo(x)
        /\ Ativo(y)' <=> Ativo(y)
    BY <1>12
  <2> QED
    BY <1>1, <1>12, <2>0, <2>1 DEF Ordenado
<1> QED
  BY <1>11, <1>13, <1>14 DEF Mantem, EmEspera, EmOrdem

(* liberarDeferred: a request that was deferred is now granted, once.      *)
LEMMA LiberarConcede ==
    ASSUME TypeOK, EmEspera, NEW i \in Brokers, oks' = EnviarOKs(i, deferred[i])
    PROVE  /\ \A x, y \in Brokers : x # i => oks'[x][y] = oks[x][y]
           /\ \A y \in Brokers : y \notin deferred[i] => oks'[i][y] = oks[i][y]
           /\ \A y \in Brokers \ {i} : y \in deferred[i] => oks'[i][y] = 1
           /\ oks'[i][i] = oks[i][i]
<1>1. connBrokers[i] = Brokers \ {i} /\ oks \in [Brokers -> [Brokers -> Nat]]
  BY DEF EmEspera, Fase, TypeOK
<1>2. \A y \in Brokers \ {i} : y \in deferred[i] => oks[i][y] = 0
  BY <1>1 DEF EmEspera, Par, Concedeu
<1> QED
  BY <1>1, <1>2 DEF EnviarOKs

(* The pair of a request and the broker that answers all it deferred.      *)
LEMMA ParAoLiberar ==
    ASSUME TypeOK, EmEspera, NEW i \in Brokers, NEW x \in Brokers \ {i},
           oks' = EnviarOKs(i, deferred[i]), deferred'[i] = {},
           UNCHANGED <<requesting[x], tarefas[x], currentReqRA[x], respostasOK[x]>>,
           Pedidas(x, i)' = Pedidas(x, i)
    PROVE  /\ Par(x, i)'
           /\ x \notin deferred[i] => (Concedeu(i, x)' <=> Concedeu(i, x))
           /\ Ativo(x)' <=> Ativo(x)
<1>0. Par(x, i)
  BY DEF EmEspera
<1>1. /\ Aguarda(x)' <=> Aguarda(x)
      /\ Ativo(x)' <=> Ativo(x)
  BY DEF Aguarda, Ativo, Entrando
<1>2. /\ x \in deferred[i] => oks'[i][x] = 1
      /\ x \notin deferred[i] => oks'[i][x] = oks[i][x]
  BY LiberarConcede
<1>3. CASE x \in deferred[i]
  <2>1. Aguarda(x) /\ i \notin respostasOK[x] /\ Pedidas(x, i) = {}
    BY <1>0, <1>3 DEF Par, Concedeu
  <2>2. Concedeu(i, x)'
    BY <1>2, <1>3 DEF Concedeu
  <2> QED
    BY <1>1, <1>2, <1>3, <2>1, <2>2 DEF Par
<1>4. CASE x \notin deferred[i]
  <2>1. Concedeu(i, x)' <=> Concedeu(i, x)
    BY <1>2, <1>4 DEF Concedeu
  <2> HIDE DEF Pedidas
  <2> QED
    BY <1>0, <1>1, <1>2, <1>4, <2>1 DEF Par
<1> QED
  BY <1>3, <1>4

(* The last step of entrarCS answers the requests that were deferred. *)
LEMMA OrdemAoSair ==
    ASSUME TypeOK, EmEspera, NEW i \in Brokers, NEW t \in tarefas[i], SairCS(i, t)
    PROVE  Mantem
<1>1. /\ t.op = "sair"
      /\ inCS' = [inCS EXCEPT ![i] = FALSE]
      /\ respostasOK' = [respostasOK EXCEPT ![i] = {}]
      /\ oks' = EnviarOKs(i, deferred[i])
      /\ deferred' = [deferred EXCEPT ![i] = {}]
      /\ tarefas' = [tarefas EXCEPT ![i] = @ \ {t}]
      /\ UNCHANGED <<relogioLocal, requesting, currentReqRA, connBrokers, rede>>
  BY DEF SairCS, LiberarAdiados
<1>2. Entrando(i)
  BY <1>1 DEF Entrando
<1>3. /\ ~ requesting[i]
      /\ \A j \in Brokers : oks[j][i] = 0
      /\ \A j \in Brokers \ {i} : Pedidas(i, j) = {} /\ i \notin deferred[j]
  BY <1>2, EntrandoNadaDeve
<1>4. tarefas'[i] = {} /\ inCS'[i] = FALSE /\ respostasOK'[i] = {} /\ deferred'[i] = {}
  <2>1. tarefas[i] = {t}
    BY DEF EmEspera, Fase
  <2> QED
    BY <1>1, <2>1 DEF TypeOK
<1>5. ~ Entrando(i)' /\ ~ Ativo(i)' /\ ~ Aguarda(i)'
  BY <1>1, <1>3, <1>4 DEF Entrando, Ativo, Aguarda
<1>6. connBrokers[i] = Brokers \ {i}
  BY DEF EmEspera, Fase
<1>7. /\ \A x, y \in Brokers : x # i => oks'[x][y] = oks[x][y]
      /\ oks'[i][i] = oks[i][i]
  BY <1>1, LiberarConcede
<1>8. \A k \in Brokers \ {i} : UNCHANGED raDe(k) /\ deferred'[k] = deferred[k]
  BY <1>1 DEF TypeOK, raDe
<1>9. \A x, y : Pedidas(x, y)' = Pedidas(x, y)
  BY <1>1 DEF Pedidas
<1>10. Fase(i)'
  <2>1. oks'[i][i] = 0 /\ Pedidas(i, i)' = {}
    BY <1>7, <1>9 DEF EmEspera, Fase
  <2> QED
    BY <1>1, <1>3, <1>4, <1>5, <1>6, <2>1 DEF Fase
<1>11. \A k \in Brokers : Fase(k)'
  BY <1>7, <1>8, <1>9, <1>10, FaseFica DEF EmEspera
<1>12. \A k \in Brokers \ {i} :
          UNCHANGED <<requesting[k], tarefas[k], currentReqRA[k], respostasOK[k]>>
  BY <1>8 DEF raDe
<1>13. ASSUME NEW y \in Brokers \ {i}
       PROVE  /\ Pedidas(i, y)' = {} /\ i \notin deferred'[y] /\ oks'[y][i] = 0
              /\ ~ Concedeu(y, i)'
  <2>1. Pedidas(i, y)' = {} /\ i \notin deferred'[y] /\ oks'[y][i] = 0
    BY <1>3, <1>7, <1>8, <1>9, <1>13
  <2> QED
    BY <1>4, <2>1 DEF Concedeu
<1>14. ASSUME NEW x \in Brokers, NEW y \in Brokers, x # y
       PROVE  Par(x, y)'
  <2>0. Par(x, y)
    BY <1>14 DEF EmEspera
  <2>1. CASE x # i /\ y # i
    BY <1>7, <1>8, <1>9, <2>0, <2>1, ParFica
  <2>2. CASE x = i
    BY <1>5, <1>13, <1>14, <2>2 DEF Par
  <2>3. CASE y = i
    BY <1>1, <1>4, <1>9, <1>12, <1>14, <2>3, ParAoLiberar
  <2> QED
    BY <2>1, <2>2, <2>3
<1>15. ASSUME EmOrdem, NEW x \in Brokers, NEW y \in Brokers, x # y
       PROVE  Ordenado(x, y)'
  <2>0. Ordenado(x, y)
    BY <1>15 DEF EmOrdem
  <2>1. CASE x # i /\ y # i
    BY <1>7, <1>8, <1>9, <2>0, <2>1, ParFica
  <2>2. CASE x = i
    BY <1>5, <1>13, <1>15, <2>2 DEF Ordenado
  <2>3. CASE y = i
    <3>1. /\ x \notin deferred[i] => (Concedeu(i, x)' <=> Concedeu(i, x))
          /\ Ativo(x)' <=> Ativo(x)
      BY <1>1, <1>4, <1>9, <1>12, <1>15, <2>3, ParAoLiberar
    <3>2. currentReqRA' = currentReqRA /\ relogioLocal' = relogioLocal
      BY <1>1
    <3> QED
      BY <1>4, <1>5, <2>0, <2>3, <3>1, <3>2 DEF Ordenado
  <2> QED
    BY <2>1, <2>2, <2>3
<1> QED
  BY <1>11, <1>14, <1>15 DEF Mantem, EmEspera, EmOrdem

(* The report of a drone answers what was deferred too.  The requests keep *)
(* their places; they keep their order if nothing was deferred.            *)
LEMMA OrdemAoRelatar ==
    ASSUME TypeOK, EmEspera, NEW m \in rede, HandleStatusDrone(m)
    PROVE  Mantem
<1> DEFINE i == m.para
<1>1. i \in Brokers
  BY DEF HandleStatusDrone, TypeOK, Mensagens
<1>2. /\ oks' = EnviarOKs(i, deferred[i])
      /\ deferred' = [deferred EXCEPT ![i] = {}]
      /\ deferred[i] # {} => furos' # {}
      /\ UNCHANGED <<requesting, tarefas, currentReqRA, respostasOK, relogioLocal, inCS,
                     connBrokers>>
      /\ rede' = rede \ {m} /\ m.tipo = "STATUS_DRONE"
  BY DEF HandleStatusDrone, LiberarAdiados
<1> HIDE DEF i
<1>3. \A x, y : Pedidas(x, y)' = Pedidas(x, y)
  BY <1>2 DEF Pedidas
<1>4. /\ deferred'[i] = {}
      /\ \A k \in Brokers \ {i} : deferred'[k] = deferred[k]
      /\ \A k : UNCHANGED raDe(k)
  BY <1>1, <1>2 DEF TypeOK, raDe
<1>5. /\ \A x, y \in Brokers : x # i => oks'[x][y] = oks[x][y]
      /\ oks'[i][i] = oks[i][i]
  BY <1>1, <1>2, LiberarConcede
<1>6. \A k \in Brokers : Fase(k)'
  BY <1>3, <1>4, <1>5, FaseFica DEF EmEspera
<1>7. ASSUME NEW x \in Brokers, NEW y \in Brokers, x # y
      PROVE  Par(x, y)'
  <2>0. Par(x, y)
    BY <1>7 DEF EmEspera
  <2>1. CASE y # i
    BY <1>3, <1>4, <1>5, <2>0, <2>1, ParFica
  <2>2. CASE y = i
    BY <1>1, <1>2, <1>3, <1>4, <1>7, <2>2, ParAoLiberar
  <2> QED
    BY <2>1, <2>2
<1>8. ASSUME EmOrdem, furos' = {}, NEW x \in Brokers, NEW y \in Brokers, x # y
      PROVE  Ordenado(x, y)'
  <2>0. Ordenado(x, y)
    BY <1>8 DEF EmOrdem
  <2>1. CASE y # i
    BY <1>3, <1>4, <1>5, <2>0, <2>1, ParFica
  <2>2. CASE y = i
    <3>1. deferred[i] = {} /\ deferred'[y] = deferred[y]
      BY <1>2, <1>4, <1>8, <2>2
    <3>2. oks'[y][x] = oks[y][x]
      BY <1>1, <1>2, <2>2, <3>1, LiberarConcede
    <3> QED
      BY <1>3, <1>4, <2>0, <3>1, <3>2, ParFica
  <2> QED
    BY <2>1, <2>2
<1> QED
  BY <1>6, <1>7, <1>8 DEF Mantem, EmEspera, EmOrdem

(* While no connection has dropped, none is dialled again and nothing that *)
(* was sent on one is lost.                                                *)
LEMMA NadaSePerde ==
    ASSUME TypeOK, EmEspera, MaxQuedas = 0, NEW i \in Brokers, NEW j \in Brokers
    PROVE  /\ ~ RemoverConexao(i, j) /\ ~ MonitorarPeers(i, j)
           /\ ~ ManterConexaoPeer(i, j) /\ ~ PerderOK(i, j)
<1>1. ~ (quedas < MaxQuedas)
  BY DEF TypeOK
<1>2. connBrokers[i] = Brokers \ {i} /\ connBrokers[j] = Brokers \ {j} /\ oks[i][i] = 0
  BY DEF EmEspera, Fase
<1> QED
  BY <1>1, <1>2 DEF RemoverConexao, MonitorarPeers, ManterConexaoPeer, PerderOK, Cortada

(* ... and no request is lost. *)
LEMMA PedidoNaoSePerde ==
    ASSUME TypeOK, EmEspera, NEW m \in rede, PerderMensagem(m)
    PROVE  m.tipo # "RA_REQUEST"
<1> SUFFICES ASSUME m.tipo = "RA_REQUEST" PROVE FALSE
  OBVIOUS
<1>1. m.de \in Brokers /\ m.para \in Brokers /\ m \in Pedidas(m.de, m.para)
  BY DEF TypeOK, Mensagens, Pedidas
<1>2. m.de # m.para
  BY <1>1 DEF EmEspera, Fase
<1>3. connBrokers[m.de] = Brokers \ {m.de} /\ connBrokers[m.para] = Brokers \ {m.para}
  BY <1>1 DEF EmEspera, Fase
<1> QED
  BY <1>1, <1>2, <1>3 DEF PerderMensagem, Cortada

(* Every action, as long as no request is made over the remains of another. *)
LEMMA OrdemAoPassar ==
    ASSUME TypeOK, EmEspera, MaxQuedas = 0, \A i \in Brokers : Brokers \ {i} # {},
           [Next]_vars, "sobreposicao" \notin furos'
    PROVE  Mantem
<1>1. CASE UNCHANGED vars
  BY <1>1, NadaOrdena DEF vars, raVars, redeVars
<1>2. ASSUME NEW i \in Brokers, Agir(i)
      PROVE  Mantem
  <2>1. CASE TentarDespachar(i)
    BY <2>1, OrdemAoTentar
  <2>2. ASSUME NEW t \in tarefas[i],
               EnviarPedidos(i, t) \/ EntrarCS(i, t) \/ DespacharDrone(i, t) \/ SairCS(i, t)
        PROVE  Mantem
    BY <2>2, OrdemAoEnviar, OrdemAoEntrar, OrdemAoSair
  <2>3. ASSUME NEW p \in pendentes[i], ConfirmarPagamento(i, p)
        PROVE  Mantem
    BY <2>3, NadaOrdena DEF ConfirmarPagamento, raVars, redeVars
  <2>4. ASSUME NEW c \in comandos[i], DecolarDrone(i, c) \/ RecolocarRecusada(i, c)
        PROVE  Mantem
    BY <2>4, NadaOrdena DEF DecolarDrone, RecolocarRecusada, raVars, redeVars
  <2>5. ASSUME NEW j \in Brokers, HandleRAOK(j, i)
        PROVE  Mantem
    BY <2>5, OrdemAoReceberOK
  <2>6. ASSUME NEW m \in rede, m.para = i,
               HandleRARequest(m) \/ HandleReserva(m) \/ HandleRegistro(m) \/ HandleStatusDrone(m)
        PROVE  Mantem
    <3>1. CASE HandleReserva(m) \/ HandleRegistro(m)
      BY <3>1, NadaOrdena DEF HandleReserva, HandleRegistro, raVars
    <3> QED
      BY <2>6, <3>1, OrdemAoPedirem, OrdemAoRelatar
  <2> QED
    BY <1>2, <2>1, <2>2, <2>3, <2>4, <2>5, <2>6 DEF Agir
<1>3. ASSUME NEW d \in Drones, ConcluirMissao(d) \/ Recarregar(d)
      PROVE  Mantem
  BY <1>3, NadaOrdena DEF ConcluirMissao, Recarregar, Status, Registro, raVars
<1>4. CASE Progresso
  BY <1>2, <1>3, <1>4 DEF Progresso, Vivos
<1>5. ASSUME NEW i \in Brokers, Falhar(i)
      PROVE  Mantem
  <2>1. ASSUME NEW p \in pendentes[i], RecusarPagamento(i, p)
        PROVE  Mantem
    BY <2>1, NadaOrdena DEF RecusarPagamento, raVars, redeVars
  <2>2. CASE MonitorarMempool(i)
    BY <2>2, NadaOrdena DEF MonitorarMempool, raVars, redeVars
  <2>3. ASSUME NEW c \in comandos[i], FalharComando(i, c)
        PROVE  Mantem
    BY <2>3, NadaOrdena DEF FalharComando, raVars, redeVars
  <2> QED
    BY <1>5, <2>1, <2>2, <2>3, NadaSePerde DEF Falhar
<1>6. CASE Ambiente
  <2>1. ASSUME NEW p \in novas, HandleOcorrencia(p)
        PROVE  Mantem
    BY <2>1, NadaOrdena DEF HandleOcorrencia, raVars, redeVars
  <2>2. ASSUME NEW m \in rede, PerderMensagem(m) \/ PerderAviso(m)
        PROVE  Mantem
    <3>1. m.tipo # "RA_REQUEST"
      BY <2>2, PedidoNaoSePerde DEF PerderAviso
    <3> QED
      BY <2>2, <3>1, NadaOrdena DEF PerderMensagem, PerderAviso, raVars
  <2> QED
    BY <1>5, <1>6, <2>1, <2>2, NadaSePerde DEF Ambiente, Vivos
<1> QED
  BY <1>1, <1>4, <1>6 DEF Next

(* A gap that was used is never forgotten. *)
LEMMA FurosFicam ==
    ASSUME [Next]_vars
    PROVE  furos \subseteq furos'
<1>1. CASE UNCHANGED vars
  BY <1>1 DEF vars
<1>2. ASSUME NEW i \in Brokers, Agir(i)
      PROVE  furos \subseteq furos'
  <2>1. CASE TentarDespachar(i)
    BY <2>1 DEF TentarDespachar
  <2>2. ASSUME NEW t \in tarefas[i],
               EnviarPedidos(i, t) \/ EntrarCS(i, t) \/ DespacharDrone(i, t) \/ SairCS(i, t)
        PROVE  furos \subseteq furos'
    BY <2>2 DEF EnviarPedidos, EntrarCS, DespacharDrone, SairCS
  <2>3. ASSUME NEW p \in pendentes[i], ConfirmarPagamento(i, p)
        PROVE  furos \subseteq furos'
    BY <2>3 DEF ConfirmarPagamento
  <2>4. ASSUME NEW c \in comandos[i], DecolarDrone(i, c) \/ RecolocarRecusada(i, c)
        PROVE  furos \subseteq furos'
    BY <2>4 DEF DecolarDrone, RecolocarRecusada
  <2>5. ASSUME NEW j \in Brokers, HandleRAOK(j, i)
        PROVE  furos \subseteq furos'
    BY <2>5 DEF HandleRAOK
  <2>6. ASSUME NEW m \in rede,
               HandleRARequest(m) \/ HandleReserva(m) \/ HandleRegistro(m) \/ HandleStatusDrone(m)
        PROVE  furos \subseteq furos'
    BY <2>6 DEF HandleRARequest, HandleReserva, HandleRegistro, HandleStatusDrone
  <2> QED
    BY <1>2, <2>1, <2>2, <2>3, <2>4, <2>5, <2>6 DEF Agir
<1>3. ASSUME NEW i \in Brokers, Falhar(i)
      PROVE  furos \subseteq furos'
  BY <1>3 DEF Falhar, RecusarPagamento, MonitorarMempool, FalharComando, RemoverConexao,
              MonitorarPeers, ManterConexaoPeer
<1>4. CASE Progresso
  BY <1>2, <1>4 DEF Progresso, Vivos, ConcluirMissao, Recarregar
<1>5. CASE Ambiente
  BY <1>3, <1>5 DEF Ambiente, Vivos, HandleOcorrencia, PerderMensagem, PerderAviso, PerderOK
<1> QED
  BY <1>1, <1>4, <1>5 DEF Next

(* Two brokers inside would each have granted the other before itself. *)
LEMMA OrdemExclui ==
    ASSUME TypeOK, EmOrdem, NEW i \in Brokers, NEW j \in Brokers, Entrando(i), Entrando(j)
    PROVE  i = j
<1> SUFFICES ASSUME i # j PROVE FALSE
  OBVIOUS
<1>0. EmEspera
  BY DEF EmOrdem
<1>1. Concedeu(j, i) /\ Concedeu(i, j) /\ Ativo(i) /\ Ativo(j)
  BY <1>0, EntrandoNadaDeve DEF Concedeu, Ativo
<1>2. Antes(i, j) /\ Antes(j, i)
  BY <1>1 DEF EmOrdem, Ordenado
<1>3. /\ currentReqRA[i].relogio \in Nat /\ currentReqRA[j].relogio \in Nat
      /\ i \in Nat /\ j \in Nat
  BY BrokersAssumption DEF TypeOK, RA
<1> QED
  BY <1>2, <1>3 DEF Antes

(* Nobody asks at the start.                                               *)
LEMMA OrdemInicial == Init => EmOrdem
BY DEF Init, EmOrdem, EmEspera, Fase, Par, Ordenado, Pedidas, Ativo, Aguarda, Entrando, Concedeu

(* What the exclusion keeps, with the connections that never drop.         *)
LEMMA OrdemSempre ==
    ASSUME MaxQuedas = 0, \A i \in Brokers : Brokers \ {i} # {}
    PROVE  Spec => [](Esperado /\ Ordem)
<1>1. TypeOK /\ Esperado /\ Ordem /\ [Next]_vars => (Esperado /\ Ordem)'
  <2> SUFFICES ASSUME TypeOK, Esperado, Ordem, [Next]_vars PROVE (Esperado /\ Ordem)'
    OBVIOUS
  <2>1. furos \subseteq furos'
    BY FurosFicam
  <2>2. ASSUME "sobreposicao" \notin furos' PROVE Mantem
    <3>1. EmEspera
      BY <2>1, <2>2 DEF Esperado
    <3> QED
      BY <2>2, <3>1, OrdemAoPassar
  <2>3. Esperado'
    BY <2>2 DEF Esperado, Mantem
  <2>4. ASSUME furos' = {} PROVE EmOrdem'
    <3>1. EmOrdem
      BY <2>1, <2>4 DEF Ordem
    <3> QED
      BY <2>2, <2>4, <3>1 DEF Mantem
  <2> QED
    BY <2>3, <2>4 DEF Ordem
<1>2. Init => Esperado /\ Ordem
  BY OrdemInicial DEF Esperado, Ordem, EmOrdem
<1> QED
  BY <1>1, <1>2, TipoSempre, PTL DEF Spec

(* One broker alone excludes itself and waits for nobody.                  *)
LEMMA UmSoExclui ==
    (\E i \in Brokers : Brokers \ {i} = {}) => ExclusaoMutua /\ EsperaTemMotivo
BY DEF ExclusaoMutua, EsperaTemMotivo

(* For any number of brokers, drones and occurrences, and any clocks: as   *)
(* long as connections hold, two brokers are in the critical section at    *)
(* once only after a gap that the module names was used (handleRARequest,  *)
(* handleRAOK, entrarCS).                                                  *)
THEOREM ExclusaoSempreSalvoFuros == Spec => []ExclusaoSalvoFuros
<1> SUFFICES ASSUME MaxQuedas = 0, \A i \in Brokers : Brokers \ {i} # {}
             PROVE  Spec => []ExclusaoSalvoFuros
  <2>1. CASE MaxQuedas # 0
    <3>1. ExclusaoSalvoFuros
      BY <2>1 DEF ExclusaoSalvoFuros
    <3> QED
      BY <3>1, PTL
  <2>2. CASE \E i \in Brokers : Brokers \ {i} = {}
    <3>1. ExclusaoSalvoFuros
      BY <2>2, UmSoExclui DEF ExclusaoSalvoFuros
    <3> QED
      BY <3>1, PTL
  <2> QED
    BY <2>1, <2>2
<1>1. TypeOK /\ Ordem => ExclusaoSalvoFuros
  <2> SUFFICES ASSUME TypeOK, EmOrdem PROVE ExclusaoMutua
    BY DEF Ordem, ExclusaoSalvoFuros
  <2>1. \A i \in Brokers : inCS[i] => Entrando(i)
    BY DEF EmOrdem, EmEspera, Fase
  <2> QED
    BY <2>1, OrdemExclui DEF ExclusaoMutua
<1>2. Spec => [](Esperado /\ Ordem)
  BY OrdemSempre
<1> QED
  BY <1>1, <1>2, TipoSempre, PTL

(* For any number of brokers: as long as connections hold and no request   *)
(* was made over the remains of another, the algorithm never waits for     *)
(* nothing.  What a broker still needs is on its way, or is held back by   *)
(* one that enters or whose claim is better, and never by two in a circle  *)
(* (handleRARequest, "evita deadlock infinito"; handleRAOK, entrarCS,      *)
(* liberarDeferred).                                                       *)
THEOREM EsperaSempreTemMotivo == Spec => []EsperaTemMotivo
<1> SUFFICES ASSUME MaxQuedas = 0, \A i \in Brokers : Brokers \ {i} # {}
             PROVE  Spec => []EsperaTemMotivo
  <2>1. CASE MaxQuedas # 0
    <3>1. EsperaTemMotivo
      BY <2>1 DEF EsperaTemMotivo
    <3> QED
      BY <3>1, PTL
  <2>2. CASE \E i \in Brokers : Brokers \ {i} = {}
    <3>1. EsperaTemMotivo
      BY <2>2, UmSoExclui
    <3> QED
      BY <3>1, PTL
  <2> QED
    BY <2>1, <2>2
<1>1. TypeOK /\ Esperado => EsperaTemMotivo
  <2> SUFFICES ASSUME TypeOK, EmEspera, NEW i \in Brokers, NEW j \in Brokers, i # j, Aguarda(i)
               PROVE  /\ \/ Concedeu(j, i)
                         \/ RARequest(i, j, currentReqRA[i]) \in rede
                         \/ /\ i \in deferred[j]
                            /\ Entrando(j) \/ (requesting[j] /\ Precede(j, i))
                      /\ respostasOK[i] # Brokers \ {i}
    BY DEF Esperado, EsperaTemMotivo, Aguarda, Concedeu
  <2>1. Par(i, j) /\ respostasOK[i] # Brokers \ {i}
    BY DEF EmEspera, Fase, Aguarda
  <2>2. ASSUME Pedidas(i, j) # {} PROVE RARequest(i, j, currentReqRA[i]) \in rede
    <3>1. PICK m : m \in Pedidas(i, j)
      BY <2>2
    <3>2. m = RARequest(i, j, currentReqRA[i])
      BY <3>1, PedidaEhUma
    <3> QED
      BY <3>1, <3>2 DEF Pedidas
  <2> QED
    BY <2>1, <2>2 DEF Par
<1>2. Spec => [](Esperado /\ Ordem)
  BY OrdemSempre
<1> QED
  BY <1>1, <1>2, TipoSempre, PTL

-----------------------------------------------------------------------------
(* The reservation.  A broker commits a drone to one mission at a time.    *)
Indo(i) == {c \in comandos[i] : c.fase = "indo"}

MissaoUnica ==
    \A i \in Brokers :
        /\ \A p, q \in pendentes[i] : p.drone = q.drone => p = q
        /\ \A c, e \in Indo(i) : c.drone = e.drone => c = e
        /\ \A p \in pendentes[i], c \in Indo(i) : p.drone # c.drone

(* A drone that is committed is not free for its broker, nor for another   *)
(* one that has handled its RESERVA_DRONE, and no other broker commits it. *)
Compromissos ==
    /\ MissaoUnica
    /\ \A i \in Brokers, d \in Drones : Reservou(i, d) => drones[i][d] # "disponivel"
    /\ \A i, j \in Brokers, d \in Drones :
          i # j /\ Reservou(j, d) => /\ ~ Reservou(i, d)
                                     /\ drones[i][d] = "disponivel" => Reserva(j, i, d) \in rede

(* Whoever counts the OK of a peer has handled its reservations. *)
Avisados ==
    \A i, j \in Brokers, d \in Drones :
        i # j /\ Ativo(i) /\ j \in respostasOK[i] => Reserva(j, i, d) \notin rede


(* What ends a commitment, or makes nobody's drone look free, keeps them.  *)
LEMMA CompromissosEncolhem ==
    ASSUME Compromissos, MissaoUnica',
           \A k \in Brokers, d \in Drones : Reservou(k, d)' => Reservou(k, d),
           \A k \in Brokers, d \in Drones :
              drones'[k][d] = "disponivel" /\ drones[k][d] # "disponivel"
                 => \A b \in Brokers : ~ Reservou(b, d)',
           \A i, j \in Brokers, d \in Drones :
              i # j /\ Reserva(j, i, d) \in rede
                 => Reserva(j, i, d) \in rede' \/ drones'[i][d] # "disponivel"
    PROVE  Compromissos'
<1>1. \A i \in Brokers, d \in Drones : Reservou(i, d)' => drones'[i][d] # "disponivel"
  BY DEF Compromissos
<1>2. ASSUME NEW i \in Brokers, NEW j \in Brokers, NEW d \in Drones, i # j, Reservou(j, d)'
      PROVE  /\ ~ Reservou(i, d)'
             /\ drones'[i][d] = "disponivel" => Reserva(j, i, d) \in rede'
  <2>1. Reservou(j, d)
    BY <1>2
  <2>2. ~ Reservou(i, d) /\ (drones[i][d] = "disponivel" => Reserva(j, i, d) \in rede)
    BY <1>2, <2>1 DEF Compromissos
  <2> QED
    BY <1>2, <2>2
<1> QED
  BY <1>1, <1>2 DEF Compromissos

(* What sends no RESERVA_DRONE, and adds no OK, keeps them handled in      *)
(* order.                                                                  *)
LEMMA AvisadosFicam ==
    ASSUME Avisados,
           \A i \in Brokers : Ativo(i)' => Ativo(i) \/ respostasOK'[i] = {},
           \A i \in Brokers : respostasOK'[i] \subseteq respostasOK[i],
           \A m \in rede' : m.tipo = "RESERVA_DRONE" => m \in rede
    PROVE  Avisados'
<1> SUFFICES ASSUME NEW i \in Brokers, NEW j \in Brokers, NEW d \in Drones,
                    i # j, Ativo(i)', j \in respostasOK'[i]
             PROVE  Reserva(j, i, d) \notin rede'
  BY DEF Avisados
<1>1. Reserva(j, i, d) \notin rede
  BY DEF Avisados
<1>2. Reserva(j, i, d).tipo = "RESERVA_DRONE"
  BY DEF Reserva
<1> QED
  BY <1>1, <1>2

(* Actions that commit nothing and release nothing. *)
LEMMA CompromissosFicam ==
    ASSUME Compromissos, UNCHANGED <<drones, pendentes, comandos>>,
           \A i, j \in Brokers, d \in Drones :
              i # j /\ Reserva(j, i, d) \in rede => Reserva(j, i, d) \in rede'
    PROVE  Compromissos'
<1>1. MissaoUnica'
  BY DEF Compromissos, MissaoUnica, Indo
<1>2. \A k \in Brokers, d \in Drones : Reservou(k, d)' => Reservou(k, d)
  BY DEF Reservou
<1> QED
  BY <1>1, <1>2, CompromissosEncolhem

(* Actions that leave the missions, the drones and the exclusion alone.    *)
LEMMA NadaReserva ==
    ASSUME Compromissos, Avisados,
           UNCHANGED <<drones, pendentes, comandos, requesting, tarefas, respostasOK>>,
           \A m \in rede : m.tipo = "RESERVA_DRONE" => m \in rede',
           \A m \in rede' : m.tipo = "RESERVA_DRONE" => m \in rede
    PROVE  Compromissos' /\ Avisados'
<1>1. \A i, j \in Brokers, d \in Drones : Reserva(j, i, d) \in rede => Reserva(j, i, d) \in rede'
  BY DEF Reserva
<1>2. \A i \in Brokers : Ativo(i)' => Ativo(i)
  BY DEF Ativo, Entrando
<1> QED
  BY <1>1, <1>2, CompromissosFicam, AvisadosFicam

(* The steps of the exclusion, the choice of a drone apart. *)
LEMMA ReservaAoTentar ==
    ASSUME TypeOK, Compromissos, Avisados, NEW i \in Brokers, TentarDespachar(i)
    PROVE  Compromissos' /\ Avisados'
<1>1. UNCHANGED <<drones, pendentes, comandos, rede>>
  BY DEF TentarDespachar, missaoVars, redeVars
<1>2. CASE ~ PodePedir(i)
  BY <1>1, <1>2, NadaReserva DEF TentarDespachar, raVars
<1>3. CASE PodePedir(i)
  <2>1. /\ requesting' = [requesting EXCEPT ![i] = TRUE]
        /\ respostasOK' = [respostasOK EXCEPT ![i] = {}]
        /\ \E T : tarefas' = [tarefas EXCEPT ![i] = T]
    BY <1>3 DEF TentarDespachar
  <2>2. \A k \in Brokers \ {i} : /\ tarefas'[k] = tarefas[k]
                                 /\ requesting'[k] = requesting[k]
                                 /\ respostasOK'[k] = respostasOK[k]
    BY <2>1 DEF TypeOK
  <2>3. respostasOK'[i] = {}
    BY <2>1 DEF TypeOK
  <2>4. \A k \in Brokers : Ativo(k)' => Ativo(k) \/ respostasOK'[k] = {}
    BY <2>2, <2>3 DEF Ativo, Entrando
  <2>5. \A k \in Brokers : respostasOK'[k] \subseteq respostasOK[k]
    BY <2>2, <2>3
  <2> QED
    BY <1>1, <2>4, <2>5, CompromissosFicam, AvisadosFicam
<1> QED
  BY <1>2, <1>3

(* The multicast: nobody has answered yet.                                 *)
LEMMA ReservaAoEnviar ==
    ASSUME TypeOK, Compromissos, Avisados, NEW i \in Brokers, NEW t \in tarefas[i],
           EnviarPedidos(i, t) \/ EntrarCS(i, t) \/ SairCS(i, t)
    PROVE  Compromissos' /\ Avisados'
<1>1. /\ UNCHANGED <<drones, pendentes, comandos>>
      /\ \A m \in rede : m \in rede'
      /\ \A m \in rede' : m.tipo = "RESERVA_DRONE" => m \in rede
  BY DEF EnviarPedidos, EntrarCS, SairCS, missaoVars, redeVars, RARequest
<1>2. \A k \in Brokers : respostasOK'[k] \subseteq respostasOK[k]
  BY DEF EnviarPedidos, EntrarCS, SairCS, raVars, TypeOK
<1>3. \A k \in Brokers : requesting'[k] => requesting[k]
  BY DEF EnviarPedidos, EntrarCS, SairCS, raVars, TypeOK
<1>4. \A k \in Brokers : Entrando(k)' => Entrando(k)
  <2>1. ASSUME NEW k \in Brokers, Entrando(k)' PROVE Entrando(k)
    <3>1. CASE EntrarCS(i, t)
      <4>1. t.op # "pedir"
        BY <3>1 DEF EntrarCS
      <4>2. k # i => tarefas'[k] = tarefas[k]
        BY <3>1 DEF EntrarCS, TypeOK
      <4> QED
        BY <2>1, <4>1, <4>2 DEF Entrando
    <3>2. CASE EnviarPedidos(i, t) \/ SairCS(i, t)
      <4>1. tarefas' = [tarefas EXCEPT ![i] = @ \ {t}]
        BY <3>2 DEF EnviarPedidos, SairCS
      <4>2. tarefas'[k] \subseteq tarefas[k]
        BY <4>1 DEF TypeOK
      <4> QED
        BY <2>1, <4>2 DEF Entrando
    <3> QED
      BY <3>1, <3>2
  <2> QED
    BY <2>1
<1>5. \A k \in Brokers : Ativo(k)' => Ativo(k)
  BY <1>3, <1>4 DEF Ativo
<1> QED
  BY <1>1, <1>2, <1>5, CompromissosFicam, AvisadosFicam

(* An OK is handled after the reservations its sender made before it. *)
LEMMA ReservaAoReceberOK ==
    ASSUME TypeOK, EmOrdem, Compromissos, Avisados, NEW i \in Brokers, NEW j \in Brokers,
           HandleRAOK(j, i)
    PROVE  Compromissos' /\ Avisados'
<1>1. /\ UNCHANGED <<drones, pendentes, comandos, rede>>
      /\ \A d \in Drones : Reserva(j, i, d) \notin rede
  BY DEF HandleRAOK, missaoVars
<1>2. Compromissos'
  BY <1>1, CompromissosFicam
<1>3. \A k \in Brokers : Ativo(k)' => Ativo(k)
  <2>1. i # j
    BY DEF HandleRAOK, EmOrdem, EmEspera, Fase
  <2>2. Ativo(i)
    BY <2>1 DEF HandleRAOK, EmOrdem, EmEspera, Par, Aguarda, Ativo
  <2>3. \A k \in Brokers \ {i} : requesting'[k] = requesting[k] /\ tarefas'[k] = tarefas[k]
    BY DEF HandleRAOK, TypeOK
  <2> QED
    BY <2>2, <2>3 DEF Ativo, Entrando
<1>4. \A k, l \in Brokers : l \in respostasOK'[k] => l \in respostasOK[k] \/ (k = i /\ l = j)
  BY DEF HandleRAOK, TypeOK
<1>5. Avisados'
  BY <1>1, <1>3, <1>4 DEF Avisados, Reserva
<1> QED
  BY <1>2, <1>5

(* despacharDrone: the drone that is free here is free everywhere.         *)
LEMMA ReservaAoDespachar ==
    ASSUME TypeOK, EmOrdem, Compromissos, Avisados, NEW i \in Brokers, NEW t \in tarefas[i],
           DespacharDrone(i, t)
    PROVE  Compromissos' /\ Avisados'
<1>1. /\ t.op = "despachar"
      /\ tarefas' = [tarefas EXCEPT ![i] = (@ \ {t}) \cup {NaCS("sair", t.oc)}]
      /\ UNCHANGED <<requesting, respostasOK>>
  BY DEF DespacharDrone, raVars
<1>2. Entrando(i)
  BY <1>1 DEF Entrando
<1>3. respostasOK[i] = Brokers \ {i} /\ connBrokers[i] = Brokers \ {i}
  BY <1>2, EntrandoNadaDeve DEF EmOrdem, EmEspera, Fase
<1>4. \A k \in Brokers : Ativo(k)' => Ativo(k)
  <2>1. \A k \in Brokers \ {i} : tarefas'[k] = tarefas[k]
    BY <1>1 DEF TypeOK
  <2> QED
    BY <1>1, <1>2, <2>1 DEF Ativo, Entrando
<1>5. CASE Livres(i) = {}
  <2>1. UNCHANGED <<drones, pendentes, comandos, rede>>
    BY <1>5 DEF DespacharDrone, missaoVars
  <2> QED
    BY <1>1, <1>4, <2>1, CompromissosFicam, AvisadosFicam
<1>6. CASE Livres(i) # {}
  <2>1. PICK d \in Livres(i) :
            /\ drones' = [drones EXCEPT ![i][d] = "em_missao"]
            /\ rede' = rede \cup Reservas(i, d)
            /\ IF t.oc.paga
               THEN /\ pendentes' = [pendentes EXCEPT ![i] = @ \cup {Missao(t.oc, d)}]
                    /\ UNCHANGED comandos
               ELSE /\ comandos' = [comandos EXCEPT ![i] = @ \cup {Comando(t.oc, d, "indo")}]
                    /\ UNCHANGED pendentes
    BY <1>6 DEF DespacharDrone
  <2>2. d \in Drones /\ drones[i][d] = "disponivel"
    BY DEF Livres
  <2>3. \A k \in Brokers : ~ Reservou(k, d)
    <3>1. ~ Reservou(i, d)
      BY <2>2 DEF Compromissos
    <3>2. ASSUME NEW k \in Brokers, k # i PROVE ~ Reservou(k, d)
      <4>1. Reserva(k, i, d) \notin rede
        BY <1>2, <1>3, <2>2, <3>2 DEF Avisados, Ativo
      <4> QED
        BY <2>2, <3>2, <4>1 DEF Compromissos
    <3> QED
      BY <3>1, <3>2
  <2>4. /\ drones'[i][d] = "em_missao"
        /\ \A k \in Brokers, e \in Drones : ~ (k = i /\ e = d) => drones'[k][e] = drones[k][e]
    BY <2>1, <2>2 DEF TypeOK
  <2>5. /\ \A k \in Brokers \ {i} : pendentes'[k] = pendentes[k] /\ comandos'[k] = comandos[k]
        /\ \/ /\ pendentes'[i] = pendentes[i] \cup {Missao(t.oc, d)}
              /\ comandos'[i] = comandos[i]
           \/ /\ comandos'[i] = comandos[i] \cup {Comando(t.oc, d, "indo")}
              /\ pendentes'[i] = pendentes[i]
    BY <2>1 DEF TypeOK
  <2>6. /\ Missao(t.oc, d).drone = d
        /\ Comando(t.oc, d, "indo").drone = d /\ Comando(t.oc, d, "indo").fase = "indo"
    BY DEF Missao, Comando
  <2>7. \A k \in Brokers, e \in Drones : ~ (k = i /\ e = d) => (Reservou(k, e)' => Reservou(k, e))
    BY <2>5, <2>6 DEF Reservou
  <2>8. MissaoUnica'
    <3>1. /\ \A p \in pendentes[i] : p.drone # d
          /\ \A c \in Indo(i) : c.drone # d
      BY <2>3 DEF Reservou, Indo
    <3>2. MissaoUnica
      BY DEF Compromissos
    <3>3. ASSUME NEW k \in Brokers
          PROVE  /\ \A p, q \in pendentes'[k] : p.drone = q.drone => p = q
                 /\ \A c, e \in Indo(k)' : c.drone = e.drone => c = e
                 /\ \A p \in pendentes'[k], c \in Indo(k)' : p.drone # c.drone
      <4>1. CASE k # i
        BY <2>5, <3>2, <4>1 DEF MissaoUnica, Indo
      <4>2. CASE /\ k = i
                 /\ pendentes'[i] = pendentes[i] \cup {Missao(t.oc, d)}
                 /\ comandos'[i] = comandos[i]
        BY <2>6, <3>1, <3>2, <4>2 DEF MissaoUnica, Indo
      <4>3. CASE /\ k = i
                 /\ comandos'[i] = comandos[i] \cup {Comando(t.oc, d, "indo")}
                 /\ pendentes'[i] = pendentes[i]
        <5>1. Indo(i)' = Indo(i) \cup {Comando(t.oc, d, "indo")}
          BY <2>6, <4>3 DEF Indo
        <5> QED
          BY <2>6, <3>1, <3>2, <4>3, <5>1 DEF MissaoUnica
      <4> QED
        BY <2>5, <4>1, <4>2, <4>3
    <3> QED
      BY <3>3 DEF MissaoUnica
  <2>9. ASSUME NEW k \in Brokers, NEW j \in Brokers, NEW e \in Drones, k # j, Reservou(j, e)'
        PROVE  /\ ~ Reservou(k, e)'
               /\ drones'[k][e] = "disponivel" => Reserva(j, k, e) \in rede'
    <3>1. CASE e # d
      <4>1. Reservou(j, e) /\ drones'[k][e] = drones[k][e]
        BY <2>4, <2>7, <2>9, <3>1
      <4>2. ~ Reservou(k, e) /\ (drones[k][e] = "disponivel" => Reserva(j, k, e) \in rede)
        BY <2>9, <4>1 DEF Compromissos
      <4> QED
        BY <2>1, <2>7, <3>1, <4>1, <4>2
    <3>2. CASE e = d
      <4>1. j = i
        BY <2>3, <2>7, <2>9, <3>2
      <4>2. Reserva(i, k, d) \in Reservas(i, d)
        BY <1>3, <2>9, <4>1 DEF Reservas
      <4> QED
        BY <2>1, <2>3, <2>7, <2>9, <3>2, <4>1, <4>2
    <3> QED
      BY <3>1, <3>2
  <2>10. \A k \in Brokers, e \in Drones : Reservou(k, e)' => drones'[k][e] # "disponivel"
    <3>1. ASSUME NEW k \in Brokers, NEW e \in Drones, Reservou(k, e)'
          PROVE  drones'[k][e] # "disponivel"
      <4>1. CASE k = i /\ e = d
        BY <2>4, <4>1
      <4>2. CASE ~ (k = i /\ e = d)
        BY <2>4, <2>7, <3>1, <4>2 DEF Compromissos
      <4> QED
        BY <4>1, <4>2
    <3> QED
      BY <3>1
  <2>11. Compromissos'
    BY <2>8, <2>9, <2>10 DEF Compromissos
  <2>12. ASSUME NEW k \in Brokers, NEW j \in Brokers, NEW e \in Drones,
                k # j, Ativo(k)', j \in respostasOK'[k]
         PROVE  Reserva(j, k, e) \notin rede'
    <3>1. Ativo(k) /\ j \in respostasOK[k]
      BY <1>1, <1>4, <2>12
    <3>2. Reserva(j, k, e) \notin rede
      BY <2>12, <3>1 DEF Avisados
    <3>3. j # i
      <4> SUFFICES ASSUME j = i PROVE FALSE
        OBVIOUS
      <4>1. Concedeu(i, k) /\ Concedeu(k, i) /\ Ativo(i)
        BY <1>2, <1>3, <2>12, <3>1 DEF Concedeu, Ativo
      <4>2. Antes(k, i) /\ Antes(i, k)
        BY <2>12, <3>1, <4>1 DEF EmOrdem, Ordenado
      <4>3. /\ currentReqRA[i].relogio \in Nat /\ currentReqRA[k].relogio \in Nat
            /\ i \in Nat /\ k \in Nat
        BY BrokersAssumption DEF TypeOK, RA
      <4> QED
        BY <2>12, <4>2, <4>3 DEF Antes
    <3>4. Reserva(j, k, e) \notin Reservas(i, d)
      BY <3>3 DEF Reservas, Reserva
    <3> QED
      BY <2>1, <3>2, <3>4
  <2>13. Avisados'
    BY <2>12 DEF Avisados
  <2> QED
    BY <2>11, <2>13
<1> QED
  BY <1>5, <1>6

(* A broker that handles a RESERVA_DRONE no longer takes the drone for     *)
(* free.                                                                   *)
LEMMA ReservaAoReservarem ==
    ASSUME TypeOK, Compromissos, Avisados, NEW m \in rede, HandleReserva(m)
    PROVE  Compromissos' /\ Avisados'
<1>1. /\ m.tipo = "RESERVA_DRONE"
      /\ drones' = [drones EXCEPT ![m.para][m.drone] = "em_missao"]
      /\ rede' = rede \ {m}
      /\ UNCHANGED <<pendentes, comandos, requesting, tarefas, respostasOK>>
  BY DEF HandleReserva, raVars
<1>2. m.para \in Brokers /\ m.drone \in Drones
  BY <1>1 DEF TypeOK, Mensagens
<1>3. /\ drones'[m.para][m.drone] = "em_missao"
      /\ \A k \in Brokers, d \in Drones :
            drones'[k][d] = "disponivel" => drones[k][d] = "disponivel"
  BY <1>1, <1>2 DEF TypeOK
<1>4. MissaoUnica' /\ \A k \in Brokers, d \in Drones : Reservou(k, d)' => Reservou(k, d)
  BY <1>1 DEF Compromissos, MissaoUnica, Indo, Reservou
<1>5. ASSUME NEW i \in Brokers, NEW j \in Brokers, NEW d \in Drones, Reserva(j, i, d) \in rede
      PROVE  Reserva(j, i, d) \in rede' \/ drones'[i][d] # "disponivel"
  <2>1. CASE Reserva(j, i, d) # m
    BY <1>1, <1>5, <2>1
  <2>2. CASE Reserva(j, i, d) = m
    <3>1. i = m.para /\ d = m.drone
      BY <2>2 DEF Reserva
    <3> QED
      BY <1>3, <3>1
  <2> QED
    BY <2>1, <2>2
<1>6. Compromissos'
  BY <1>3, <1>4, <1>5, CompromissosEncolhem
<1>7. \A i \in Brokers : Ativo(i)' => Ativo(i)
  BY <1>1 DEF Ativo, Entrando
<1> QED
  BY <1>1, <1>6, <1>7, AvisadosFicam

(* A drone that reports or registers is free for everybody, if nobody has  *)
(* a mission on it.                                                        *)
LEMMA ReservaAoLiberar ==
    ASSUME TypeOK, Compromissos, Avisados, NEW m \in rede,
           HandleRegistro(m) \/ HandleStatusDrone(m), furos' = {}
    PROVE  Compromissos' /\ Avisados'
<1>1. /\ m.tipo \in {"HANDSHAKE", "STATUS_DRONE"}
      /\ drones' = [drones EXCEPT ![m.para][m.de] = "disponivel"]
      /\ rede' = rede \ {m}
      /\ Donos(m.de) = {}
      /\ UNCHANGED <<pendentes, comandos, requesting, tarefas, respostasOK>>
  BY DEF HandleRegistro, HandleStatusDrone, Liberar, raVars
<1>2. m.para \in Brokers /\ m.de \in Drones
  BY <1>1 DEF TypeOK, Mensagens
<1>3. \A b \in Brokers : ~ Reservou(b, m.de)
  BY <1>1 DEF Donos, Reservou
<1>4. /\ MissaoUnica'
      /\ \A k \in Brokers, d \in Drones : Reservou(k, d)' <=> Reservou(k, d)
  BY <1>1 DEF Compromissos, MissaoUnica, Indo, Reservou
<1>5. \A k \in Brokers, d \in Drones : d # m.de => drones'[k][d] = drones[k][d]
  BY <1>1, <1>2 DEF TypeOK
<1>6. \A i, j \in Brokers, d \in Drones : Reserva(j, i, d) \in rede => Reserva(j, i, d) \in rede'
  BY <1>1 DEF Reserva
<1>7. \A k \in Brokers, d \in Drones :
         drones'[k][d] = "disponivel" /\ drones[k][d] # "disponivel"
            => \A b \in Brokers : ~ Reservou(b, d)'
  BY <1>3, <1>4, <1>5
<1>8. Compromissos'
  BY <1>4, <1>6, <1>7, CompromissosEncolhem
<1>9. \A i \in Brokers : Ativo(i)' => Ativo(i)
  BY <1>1 DEF Ativo, Entrando
<1> QED
  BY <1>1, <1>8, <1>9, AvisadosFicam

(* The mission goes from the mempool to its command. *)
LEMMA ReservaAoConfirmar ==
    ASSUME TypeOK, Compromissos, Avisados, NEW i \in Brokers, NEW p \in pendentes[i],
           ConfirmarPagamento(i, p)
    PROVE  Compromissos' /\ Avisados'
<1> DEFINE ordem == Comando(p.oc, p.drone, "indo")
<1>1. /\ pendentes' = [pendentes EXCEPT ![i] = @ \ {p}]
      /\ comandos' = [comandos EXCEPT ![i] = @ \cup {ordem}]
      /\ UNCHANGED <<drones, requesting, tarefas, respostasOK, rede>>
  BY DEF ConfirmarPagamento, raVars, redeVars
<1>2. ordem.drone = p.drone /\ ordem.fase = "indo"
  BY DEF Comando
<1> HIDE DEF ordem
<1>3. /\ pendentes'[i] = pendentes[i] \ {p}
      /\ comandos'[i] = comandos[i] \cup {ordem}
      /\ \A k \in Brokers \ {i} : pendentes'[k] = pendentes[k] /\ comandos'[k] = comandos[k]
  BY <1>1 DEF TypeOK
<1>4. Indo(i)' = Indo(i) \cup {ordem}
  BY <1>2, <1>3 DEF Indo
<1>5. MissaoUnica'
  <2>1. MissaoUnica
    BY DEF Compromissos
  <2>2. ASSUME NEW k \in Brokers
        PROVE  /\ \A q, r \in pendentes'[k] : q.drone = r.drone => q = r
               /\ \A c, e \in Indo(k)' : c.drone = e.drone => c = e
               /\ \A q \in pendentes'[k], c \in Indo(k)' : q.drone # c.drone
    <3>1. CASE k # i
      BY <1>3, <2>1, <3>1 DEF MissaoUnica, Indo
    <3>2. CASE k = i
      BY <1>2, <1>3, <1>4, <2>1, <3>2 DEF MissaoUnica
    <3> QED
      BY <3>1, <3>2
  <2> QED
    BY <2>2 DEF MissaoUnica
<1>6. \A k \in Brokers, d \in Drones : Reservou(k, d)' => Reservou(k, d)
  BY <1>2, <1>3 DEF Reservou
<1>7. Compromissos'
  BY <1>1, <1>5, <1>6, CompromissosEncolhem
<1>8. \A k \in Brokers : Ativo(k)' => Ativo(k)
  BY <1>1 DEF Ativo, Entrando
<1> QED
  BY <1>1, <1>7, <1>8, AvisadosFicam

(* A mission that ends in any other way than by a release. *)
LEMMA MissaoTermina ==
    ASSUME TypeOK, Compromissos, Avisados, NEW i \in Brokers,
           \A k \in Brokers : pendentes'[k] \subseteq pendentes[k],
           \A k \in Brokers : Indo(k)' \subseteq Indo(k),
           \A k \in Brokers, d \in Drones :
              drones'[k][d] = "disponivel" => drones[k][d] = "disponivel",
           UNCHANGED <<requesting, tarefas, respostasOK, rede>>
    PROVE  Compromissos' /\ Avisados'
<1>1. MissaoUnica'
  BY DEF Compromissos, MissaoUnica
<1>2. \A k \in Brokers, d \in Drones : Reservou(k, d)' => Reservou(k, d)
  BY DEF Reservou, Indo
<1>3. Compromissos'
  BY <1>1, <1>2, CompromissosEncolhem
<1>4. \A k \in Brokers : Ativo(k)' => Ativo(k)
  BY DEF Ativo, Entrando
<1> QED
  BY <1>3, <1>4, AvisadosFicam

(* The goroutine of a command: the drone takes off, refuses or fails.      *)
LEMMA ReservaDosComandos ==
    ASSUME TypeOK, Compromissos, Avisados, NEW i \in Brokers, NEW c \in comandos[i],
           DecolarDrone(i, c) \/ FalharComando(i, c) \/ RecolocarRecusada(i, c)
    PROVE  Compromissos' /\ Avisados'
<1>1. UNCHANGED <<pendentes, requesting, tarefas, respostasOK, rede>>
  BY DEF DecolarDrone, FalharComando, RecolocarRecusada, raVars, redeVars
<1>2. \A k \in Brokers : Indo(k)' \subseteq Indo(k)
  <2>1. CASE FalharComando(i, c) \/ RecolocarRecusada(i, c)
    <3>1. comandos' = [comandos EXCEPT ![i] = @ \ {c}]
      BY <2>1 DEF FalharComando, RecolocarRecusada
    <3> QED
      BY <3>1 DEF Indo, TypeOK
  <2>2. CASE DecolarDrone(i, c)
    <3> DEFINE recusado == [c EXCEPT !.fase = "recusado"]
    <3>1. recusado.fase = "recusado"
      <4>1. c \in [oc : Oc, drone : Drones, fase : {"indo", "recusado"}]
        BY DEF TypeOK
      <4> QED
        BY <4>1
    <3>2. \/ comandos' = [comandos EXCEPT ![i] = @ \ {c}]
          \/ comandos' = [comandos EXCEPT ![i] = (@ \ {c}) \cup {recusado}]
      BY <2>2 DEF DecolarDrone
    <3> HIDE DEF recusado
    <3>3. \A k \in Brokers : comandos'[k] \subseteq comandos[k] \cup {recusado}
      <4>1. comandos = [k \in Brokers |-> comandos[k]]
        BY DEF TypeOK
      <4>2. CASE comandos' = [comandos EXCEPT ![i] = @ \ {c}]
        BY <4>1, <4>2
      <4>3. CASE comandos' = [comandos EXCEPT ![i] = (@ \ {c}) \cup {recusado}]
        BY <4>1, <4>3
      <4> QED
        BY <3>2, <4>2, <4>3
    <3> QED
      BY <3>1, <3>3 DEF Indo
  <2> QED
    BY <2>1, <2>2
<1>3. \A k \in Brokers, d \in Drones : drones'[k][d] = "disponivel" => drones[k][d] = "disponivel"
  <2>1. CASE DecolarDrone(i, c)
    BY <2>1 DEF DecolarDrone
  <2>2. CASE FalharComando(i, c) \/ RecolocarRecusada(i, c)
    <3>1. PICK s : s # "disponivel" /\ drones' = [drones EXCEPT ![i][c.drone] = s]
      BY <2>2 DEF FalharComando, RecolocarRecusada, Recolocar
    <3> QED
      BY <3>1 DEF TypeOK
  <2> QED
    BY <2>1, <2>2
<1> QED
  BY <1>1, <1>2, <1>3, MissaoTermina

(* The refusal of a drone ends its mission.                                *)
LEMMA ReservaAoRecusar ==
    ASSUME TypeOK, Compromissos, Avisados, NEW i \in Brokers, NEW p \in pendentes[i],
           RecusarPagamento(i, p)
    PROVE  Compromissos' /\ Avisados'
<1>1. /\ UNCHANGED <<comandos, requesting, tarefas, respostasOK, rede>>
      /\ pendentes' = [pendentes EXCEPT ![i] = @ \ {p}]
      /\ drones' = [drones EXCEPT ![i][p.drone] = "indisponivel"]
  BY DEF RecusarPagamento, Recolocar, raVars, redeVars
<1>2. /\ \A k \in Brokers : pendentes'[k] \subseteq pendentes[k]
      /\ \A k \in Brokers : Indo(k)' \subseteq Indo(k)
      /\ \A k \in Brokers, d \in Drones :
            drones'[k][d] = "disponivel" => drones[k][d] = "disponivel"
  BY <1>1 DEF TypeOK, Indo
<1> QED
  BY <1>1, <1>2, MissaoTermina

(* The mempool's timer frees the drones of the missions it gives up, which *)
(* nobody else had.                                                        *)
LEMMA ReservaNaMempool ==
    ASSUME TypeOK, Compromissos, Avisados, NEW i \in Brokers, MonitorarMempool(i)
    PROVE  Compromissos' /\ Avisados'
<1>1. UNCHANGED <<comandos, requesting, tarefas, respostasOK, rede>>
  BY DEF MonitorarMempool, raVars, redeVars
<1>2. PICK velhas \in SUBSET pendentes[i] \ {{}} :
        /\ pendentes' = [pendentes EXCEPT ![i] = @ \ velhas]
        /\ drones' = [drones EXCEPT ![i] = [d \in Drones |->
                         IF d \in {p.drone : p \in velhas} THEN "disponivel" ELSE @[d]]]
  BY DEF MonitorarMempool
<1>3. /\ pendentes'[i] = pendentes[i] \ velhas
      /\ \A k \in Brokers \ {i} : pendentes'[k] = pendentes[k] /\ drones'[k] = drones[k]
      /\ \A d \in Drones : drones'[i][d] = IF d \in {p.drone : p \in velhas}
                                           THEN "disponivel" ELSE drones[i][d]
  BY <1>2 DEF TypeOK
<1>4. /\ \A k \in Brokers : pendentes'[k] \subseteq pendentes[k]
      /\ \A k \in Brokers : Indo(k)' = Indo(k)
  BY <1>1, <1>3 DEF Indo
<1>5. MissaoUnica'
  BY <1>4 DEF Compromissos, MissaoUnica
<1>6. \A k \in Brokers, d \in Drones : Reservou(k, d)' => Reservou(k, d)
  BY <1>1, <1>4 DEF Reservou
<1>7. ASSUME NEW k \in Brokers, NEW d \in Drones, NEW b \in Brokers,
             drones'[k][d] = "disponivel", drones[k][d] # "disponivel", Reservou(b, d)'
      PROVE  FALSE
  <2>1. PICK p \in velhas : k = i /\ p.drone = d
    BY <1>3, <1>7
  <2>2. Reservou(i, d)
    BY <2>1 DEF Reservou
  <2>3. b = i
    BY <1>6, <1>7, <2>2 DEF Compromissos
  <2>4. ~ (\E q \in pendentes'[i] : q.drone = d)
    BY <1>3, <2>1 DEF Compromissos, MissaoUnica
  <2>5. ~ (\E c \in comandos[i] : c.drone = d /\ c.fase = "indo")
    BY <2>1 DEF Compromissos, MissaoUnica, Indo
  <2> QED
    BY <1>1, <1>7, <2>3, <2>4, <2>5 DEF Reservou
<1>8. Compromissos'
  BY <1>1, <1>5, <1>6, <1>7, CompromissosEncolhem
<1>9. \A k \in Brokers : Ativo(k)' => Ativo(k)
  BY <1>1 DEF Ativo, Entrando
<1> QED
  BY <1>1, <1>8, <1>9, AvisadosFicam

(* While connections hold no RESERVA_DRONE is lost, and losing a request   *)
(* or a report commits nothing.                                            *)
LEMMA ReservaAoPerder ==
    ASSUME TypeOK, EmOrdem, Compromissos, Avisados, NEW m \in rede,
           PerderMensagem(m) \/ PerderAviso(m)
    PROVE  Compromissos' /\ Avisados'
<1>1. /\ UNCHANGED <<drones, pendentes, comandos, requesting, tarefas, respostasOK>>
      /\ rede' = rede \ {m}
  BY DEF PerderMensagem, PerderAviso, missaoVars, raVars
<1>2. CASE m.tipo = "RESERVA_DRONE"
  <2>1. m.de \in Brokers /\ m.para \in Brokers
    BY <1>2 DEF TypeOK, Mensagens
  <2>2. m.de = m.para
    BY <1>2, <2>1 DEF PerderMensagem, PerderAviso, Cortada, EmOrdem, EmEspera, Fase
  <2>3. \A i, j \in Brokers, d \in Drones :
           i # j /\ Reserva(j, i, d) \in rede => Reserva(j, i, d) \in rede'
    BY <1>1, <2>2 DEF Reserva
  <2>4. \A i \in Brokers : Ativo(i)' => Ativo(i)
    BY <1>1 DEF Ativo, Entrando
  <2> QED
    BY <1>1, <2>3, <2>4, CompromissosFicam, AvisadosFicam
<1>3. CASE m.tipo # "RESERVA_DRONE"
  BY <1>1, <1>3, NadaReserva
<1> QED
  BY <1>2, <1>3

(* Every action, as long as no gap is used.                                *)
LEMMA ReservaAoPassar ==
    ASSUME TypeOK, EmOrdem, Compromissos, Avisados, MaxQuedas = 0, [Next]_vars, furos' = {}
    PROVE  Compromissos' /\ Avisados'
<1> USE DEF missaoVars, raVars, redeVars
<1>1. CASE UNCHANGED vars
  BY <1>1, NadaReserva DEF vars
<1>2. ASSUME NEW i \in Brokers, Agir(i)
      PROVE  Compromissos' /\ Avisados'
  <2>1. CASE TentarDespachar(i)
    BY <2>1, ReservaAoTentar
  <2>2. ASSUME NEW t \in tarefas[i],
               EnviarPedidos(i, t) \/ EntrarCS(i, t) \/ DespacharDrone(i, t) \/ SairCS(i, t)
        PROVE  Compromissos' /\ Avisados'
    BY <2>2, ReservaAoEnviar, ReservaAoDespachar
  <2>3. ASSUME NEW p \in pendentes[i], ConfirmarPagamento(i, p)
        PROVE  Compromissos' /\ Avisados'
    BY <2>3, ReservaAoConfirmar
  <2>4. ASSUME NEW c \in comandos[i], DecolarDrone(i, c) \/ RecolocarRecusada(i, c)
        PROVE  Compromissos' /\ Avisados'
    BY <2>4, ReservaDosComandos
  <2>5. ASSUME NEW j \in Brokers, HandleRAOK(j, i)
        PROVE  Compromissos' /\ Avisados'
    BY <2>5, ReservaAoReceberOK
  <2>6. ASSUME NEW m \in rede, m.para = i,
               HandleRARequest(m) \/ HandleReserva(m) \/ HandleRegistro(m) \/ HandleStatusDrone(m)
        PROVE  Compromissos' /\ Avisados'
    <3>1. CASE HandleRARequest(m)
      BY <3>1, NadaReserva DEF HandleRARequest
    <3> QED
      BY <2>6, <3>1, ReservaAoReservarem, ReservaAoLiberar
  <2> QED
    BY <1>2, <2>1, <2>2, <2>3, <2>4, <2>5, <2>6 DEF Agir
<1>3. ASSUME NEW d \in Drones, ConcluirMissao(d) \/ Recarregar(d)
      PROVE  Compromissos' /\ Avisados'
  BY <1>3, NadaReserva DEF ConcluirMissao, Recarregar, Status, Registro
<1>4. CASE Progresso
  BY <1>2, <1>3, <1>4 DEF Progresso, Vivos
<1>5. ASSUME NEW i \in Brokers, Falhar(i)
      PROVE  Compromissos' /\ Avisados'
  BY <1>5, ReservaAoRecusar, ReservaNaMempool, ReservaDosComandos, NadaSePerde
  DEF Falhar, EmOrdem
<1>6. CASE Ambiente
  <2>1. ASSUME NEW p \in novas, HandleOcorrencia(p)
        PROVE  Compromissos' /\ Avisados'
    BY <2>1, NadaReserva DEF HandleOcorrencia
  <2> QED
    BY <1>5, <1>6, <2>1, ReservaAoPerder, NadaSePerde DEF Ambiente, Vivos, EmOrdem
<1> QED
  BY <1>1, <1>4, <1>6 DEF Next

(* For any number of brokers, drones and occurrences, with payments that   *)
(* are refused, forgotten or confirmed late, commands that are lost and    *)
(* drones that refuse them: as long as connections hold, two brokers       *)
(* commit one drone to two missions only after a gap the module names was  *)
(* used (despacharDrone, RESERVA_DRONE, recolocarOcorrenciaNaFila,         *)
(* monitorarMempool, handleStatusDrone).                                   *)
THEOREM ReservaSempreSalvoFuros == Spec => []ReservaSalvoFuros
<1> DEFINE Reservado == furos = {} => Compromissos /\ Avisados
<1> SUFFICES ASSUME MaxQuedas = 0, \A i \in Brokers : Brokers \ {i} # {}
             PROVE  Spec => []ReservaSalvoFuros
  <2>1. CASE MaxQuedas # 0
    <3>1. ReservaSalvoFuros
      BY <2>1 DEF ReservaSalvoFuros
    <3> QED
      BY <3>1, PTL
  <2>2. CASE \E i \in Brokers : Brokers \ {i} = {}
    <3>1. ReservaSalvoFuros
      BY <2>2 DEF ReservaSalvoFuros
    <3> QED
      BY <3>1, PTL
  <2> QED
    BY <2>1, <2>2
<1>1. Spec => [](Esperado /\ Ordem)
  BY OrdemSempre
<1>2. TypeOK /\ Ordem /\ Reservado /\ [Next]_vars => Reservado'
  <2> SUFFICES ASSUME TypeOK, Ordem, Reservado, [Next]_vars, furos' = {}
               PROVE  Compromissos' /\ Avisados'
    OBVIOUS
  <2>1. furos = {}
    BY FurosFicam
  <2> QED
    BY <2>1, ReservaAoPassar DEF Ordem
<1>3. Reservado => ReservaSalvoFuros
  BY DEF Compromissos, ReservaSalvoFuros
<1>4. Init => Reservado
  BY DEF Init, Compromissos, MissaoUnica, Indo, Reservou, Avisados
<1> HIDE DEF Reservado
<1> QED
  BY <1>1, <1>2, <1>3, <1>4, TipoSempre, PTL DEF Spec

-----------------------------------------------------------------------------
(* One place for an occurrence.  A token for each place of broker i where  *)
(* an occurrence is: not reported, queued, asked for, entering, waiting    *)
(* for its payment, commanded.  A request whose occurrence a goroutine     *)
(* already enters with is not a place of its own.                          *)
Ficha(onde, coisa, id) == [onde |-> onde, coisa |-> coisa, id |-> id]

Entradas(i) == {t \in tarefas[i] : t.op \in {"entrar", "entrarSo", "despachar"}}

FichaRA(i) == Ficha("ra", currentReqOc[i], currentReqOc[i].id)

FichasNovas(i)     == {Ficha("nova", p, p.id) : p \in {q \in novas : q.broker = i}}
FichasFila(i)      == {Ficha("fila", o, o.id) : o \in fila[i]}
FichasRA(i)        == {f \in {FichaRA(i)} : requesting[i] /\ ~ JaEntra(i)}
FichasTarefas(i)   == {Ficha("tarefa", t, t.oc.id) : t \in Entradas(i)}
FichasPendentes(i) == {Ficha("pendente", p, p.oc.id) : p \in pendentes[i]}
FichasComandos(i)  == {Ficha("comando", c, c.oc.id) : c \in comandos[i]}

Fichas(i) ==
    FichasNovas(i) \cup FichasFila(i) \cup FichasRA(i) \cup FichasTarefas(i)
        \cup FichasPendentes(i) \cup FichasComandos(i)

(* Two tokens of one occurrence are one token; 0 is the id of none.        *)
Unicas(F) == \A f, g \in F : f.id = g.id /\ f.id # 0 => f = g

IdsUnicos == \A p, q \in Pedidos : p.id = q.id /\ p.broker = q.broker => p = q

UmaFicha == "repetida" \notin furos => \A i \in Brokers : Unicas(Fichas(i))

(* A step that gives every token it leaves behind the place of one that    *)
(* was there: h says which, and the id is the same.                        *)
LEMMA FichasMudam ==
    ASSUME NEW F, NEW G, NEW h, Unicas(F),
           \A g \in G : g.id = 0 \/ \E f \in F : g = h[f] /\ g.id = f.id
    PROVE  Unicas(G)
<1> SUFFICES ASSUME NEW a \in G, NEW b \in G, a.id = b.id, a.id # 0 PROVE a = b
  BY DEF Unicas
<1>1. PICK x \in F : a = h[x] /\ a.id = x.id
  OBVIOUS
<1>2. PICK y \in F : b = h[y] /\ b.id = y.id
  OBVIOUS
<1>3. x = y
  BY <1>1, <1>2 DEF Unicas
<1> QED
  BY <1>1, <1>2, <1>3

(* In particular one that moves one token, and may drop others. *)
LEMMA UmaFichaMuda ==
    ASSUME NEW F, NEW G, NEW x \in F, NEW y, Unicas(F), y.id \in {x.id, 0},
           G \subseteq (F \ {x}) \cup {y}
    PROVE  Unicas(G)
BY DEF Unicas

LEMMA FichasSomem ==
    ASSUME NEW F, NEW G, Unicas(F), G \subseteq F
    PROVE  Unicas(G)
BY DEF Unicas

(* A broker whose part of the state does not change keeps its tokens. *)
LEMMA FichasFicam ==
    ASSUME NEW i, novas' \subseteq novas, fila'[i] = fila[i],
           requesting'[i] => requesting[i], currentReqOc'[i] = currentReqOc[i],
           tarefas'[i] = tarefas[i],
           pendentes'[i] \subseteq pendentes[i], comandos'[i] \subseteq comandos[i]
    PROVE  Fichas(i)' \subseteq Fichas(i)
<1>1. FichasNovas(i)' \subseteq FichasNovas(i) /\ FichasFila(i)' = FichasFila(i)
  BY DEF FichasNovas, FichasFila
<1>2. FichasRA(i)' \subseteq FichasRA(i) /\ FichasTarefas(i)' = FichasTarefas(i)
  BY DEF FichasRA, FichaRA, FichasTarefas, Entradas, JaEntra
<1>3. FichasPendentes(i)' \subseteq FichasPendentes(i)
      /\ FichasComandos(i)' \subseteq FichasComandos(i)
  BY DEF FichasPendentes, FichasComandos
<1> QED
  BY <1>1, <1>2, <1>3 DEF Fichas

(* So does one that only sends its multicast. *)
LEMMA FichasAoEnviar ==
    ASSUME TypeOK, NEW i \in Brokers, NEW t \in tarefas[i], EnviarPedidos(i, t), NEW k \in Brokers
    PROVE  Fichas(k)' \subseteq Fichas(k)
<1>1. UNCHANGED <<novas, fila, requesting, currentReqOc, pendentes, comandos>>
      /\ tarefas' = [tarefas EXCEPT ![i] = @ \ {t}] /\ t.op = "pedir"
  BY DEF EnviarPedidos, filaVars, missaoVars, raVars
<1>2. tarefas'[k] \subseteq tarefas[k] /\ \A u \in tarefas[k] \ {t} : u \in tarefas'[k]
  BY <1>1 DEF TypeOK
<1>3. Entradas(k)' = Entradas(k)
  BY <1>1, <1>2 DEF Entradas
<1>4. JaEntra(k)' <=> JaEntra(k)
  <2>1. NaCS("entrarSo", currentReqOc[k]) # t
    BY <1>1 DEF NaCS
  <2> QED
    BY <1>1, <1>2, <2>1 DEF JaEntra
<1>5. FichasTarefas(k)' = FichasTarefas(k) /\ FichasRA(k)' = FichasRA(k)
  BY <1>1, <1>3, <1>4 DEF FichasTarefas, FichasRA, FichaRA
<1> QED
  BY <1>1, <1>5 DEF Fichas, FichasNovas, FichasFila, FichasPendentes, FichasComandos
LEMMA FichaNula ==
    ASSUME NEW F, NEW G, NEW y, Unicas(F), y.id = 0, G \subseteq F \cup {y}
    PROVE  Unicas(G)
BY DEF Unicas

LEMMA CamposDaFicha ==
    \A a, b, c, d, e, f :
        /\ Ficha(a, b, c) = Ficha(d, e, f) <=> a = d /\ b = e /\ c = f
        /\ Ficha(a, b, c).onde = a /\ Ficha(a, b, c).coisa = b /\ Ficha(a, b, c).id = c
<1> SUFFICES ASSUME NEW a, NEW b, NEW c, NEW d, NEW e, NEW f
             PROVE  /\ Ficha(a, b, c) = Ficha(d, e, f) <=> a = d /\ b = e /\ c = f
                    /\ Ficha(a, b, c).onde = a /\ Ficha(a, b, c).coisa = b /\ Ficha(a, b, c).id = c
  OBVIOUS
<1>1. \A x, y, z : Ficha(x, y, z).onde = x /\ Ficha(x, y, z).coisa = y /\ Ficha(x, y, z).id = z
  BY DEF Ficha
<1> QED
  BY <1>1

LEMMA CamposDaTarefa ==
    \A op, oc : NaCS(op, oc).op = op /\ NaCS(op, oc).oc = oc
BY DEF NaCS

(* An occurrence that a queue ages, or takes back, is the same one. *)
LEMMA IdFica ==
    /\ \A o \in Oc : [o EXCEPT !.prio = 3].id = o.id /\ [o EXCEPT !.prio = @ + 1].id = o.id
    /\ \A p \in Pedidos : [id |-> p.id, prio |-> p.prio, paga |-> p.paga].id = p.id
BY DEF Oc

LEMMA FichasAoOcorrer ==
    ASSUME TypeOK, NEW p \in novas, HandleOcorrencia(p), NEW k \in Brokers, Unicas(Fichas(k))
    PROVE  Unicas(Fichas(k))'
<1> DEFINE i == p.broker
           o == [id |-> p.id, prio |-> p.prio, paga |-> p.paga]
           x == Ficha("nova", p, p.id)
           y == Ficha("fila", o, o.id)
<1>1. p \in Pedidos /\ i \in Brokers
  BY PedidosAssumption DEF TypeOK
<1>2. /\ novas' = novas \ {p} /\ fila' = [fila EXCEPT ![i] = @ \cup {o}]
      /\ UNCHANGED <<requesting, currentReqOc, tarefas, pendentes, comandos>>
  BY DEF HandleOcorrencia, missaoVars, raVars
<1> HIDE DEF o
<1>3. CASE k # i
  <2>1. Fichas(k)' \subseteq Fichas(k)
    BY <1>2, <1>3, FichasFicam DEF TypeOK
  <2> QED
    BY <2>1, FichasSomem DEF Unicas
<1>4. CASE k = i
  <2>1. x \in FichasNovas(k) /\ y.id = x.id
    BY <1>1, <1>4, IdFica, CamposDaFicha DEF FichasNovas, o
  <2>2. FichasNovas(k)' \subseteq FichasNovas(k) \ {x}
    BY <1>2, CamposDaFicha DEF FichasNovas
  <2>3. FichasFila(k)' = FichasFila(k) \cup {y}
    BY <1>2, <1>4 DEF FichasFila, TypeOK
  <2>4. /\ FichasRA(k)' = FichasRA(k) /\ FichasTarefas(k)' = FichasTarefas(k)
        /\ FichasPendentes(k)' = FichasPendentes(k) /\ FichasComandos(k)' = FichasComandos(k)
    BY <1>2 DEF FichasRA, FichaRA, JaEntra, FichasTarefas, Entradas, FichasPendentes,
       FichasComandos
  <2>5. x \notin FichasFila(k) \cup FichasRA(k) \cup FichasTarefas(k)
                   \cup FichasPendentes(k) \cup FichasComandos(k)
    BY CamposDaFicha DEF FichasFila, FichasRA, FichaRA, FichasTarefas, FichasPendentes,
       FichasComandos
  <2> HIDE DEF x, y
  <2>6. Fichas(k)' \subseteq (Fichas(k) \ {x}) \cup {y} /\ x \in Fichas(k)
    BY <2>1, <2>2, <2>3, <2>4, <2>5 DEF Fichas
  <2> QED
    BY <2>1, <2>6, UmaFichaMuda
<1> QED
  BY <1>3, <1>4

(* What a step does not touch. *)
LEMMA FichasQuietas ==
    ASSUME NEW k, novas' \subseteq novas, fila'[k] = fila[k],
           requesting'[k] => requesting[k], currentReqOc'[k] = currentReqOc[k],
           tarefas'[k] = tarefas[k],
           pendentes'[k] \subseteq pendentes[k], comandos'[k] \subseteq comandos[k],
           Unicas(Fichas(k))
    PROVE  Unicas(Fichas(k))'
<1>1. Fichas(k)' \subseteq Fichas(k)
  BY FichasFicam
<1> QED
  BY <1>1, FichasSomem DEF Unicas

(* In which part of the broker a token is. *)
LEMMA OndeEsta ==
    ASSUME NEW k, NEW f
    PROVE  /\ f \in FichasNovas(k) => f.onde = "nova"
           /\ f \in FichasFila(k) => f.onde = "fila"
           /\ f \in FichasRA(k) => f.onde = "ra"
           /\ f \in FichasTarefas(k) => f.onde = "tarefa"
           /\ f \in FichasPendentes(k) => f.onde = "pendente"
           /\ f \in FichasComandos(k) => f.onde = "comando"
BY CamposDaFicha DEF FichasNovas, FichasFila, FichasRA, FichaRA, FichasTarefas, FichasPendentes,
   FichasComandos

(* tentarDespachar: the occurrence leaves the queue, the others age. *)
LEMMA FichasAoTentar ==
    ASSUME TypeOK, NEW i \in Brokers, TentarDespachar(i), NEW k \in Brokers, Unicas(Fichas(k))
    PROVE  Unicas(Fichas(k))'
<1>1. CASE ~ PodePedir(i)
  <2>1. UNCHANGED <<novas, fila, requesting, currentReqOc, tarefas, pendentes, comandos>>
    BY <1>1 DEF TentarDespachar, raVars, missaoVars
  <2> QED
    BY <2>1, FichasQuietas
<1>2. CASE PodePedir(i)
  <2>1. PICK oc \in MaisUrgentes(fila[i]) :
            /\ fila' = [fila EXCEPT ![i] = AplicarAging(@ \ {oc})]
            /\ requesting' = [requesting EXCEPT ![i] = TRUE]
            /\ currentReqOc' = [currentReqOc EXCEPT ![i] = oc]
            /\ tarefas' = [tarefas EXCEPT ![i] = @ \cup
                 {IF connBrokers[i] = {} THEN NaCS("entrarSo", oc) ELSE Pedir(connBrokers[i])}]
    BY <1>2 DEF TentarDespachar
  <2>2. UNCHANGED <<novas, pendentes, comandos>>
    BY DEF TentarDespachar, missaoVars
  <2>3. CASE k # i
    BY <2>1, <2>2, <2>3, FichasQuietas DEF TypeOK
  <2>4. CASE k = i
    <3> DEFINE env(o) == [o EXCEPT !.prio = @ + 1]
               ra == Ficha("ra", oc, oc.id)
               ta == Ficha("tarefa", NaCS("entrarSo", oc), oc.id)
               so == connBrokers[i] = {}
               novo(f) == IF f.onde = "fila"
                          THEN IF f.coisa = oc THEN IF so THEN ta ELSE ra
                               ELSE Ficha("fila", env(f.coisa), f.id)
                          ELSE f
               h == [f \in Fichas(k) |-> novo(f)]
    <3>1. oc \in fila[i] /\ oc \in Oc /\ fila[i] \subseteq Oc
      BY DEF MaisUrgentes, TypeOK
    <3>2. ~ requesting[i]
      BY <1>2 DEF PodePedir
    <3>3. \A o \in fila[i] : env(o).id = o.id
      BY <3>1, IdFica
    <3>4. /\ fila'[k] = {env(o) : o \in fila[i] \ {oc}} /\ currentReqOc'[k] = oc
          /\ tarefas'[k] = tarefas[i] \cup {IF so THEN NaCS("entrarSo", oc)
                                                  ELSE Pedir(connBrokers[i])}
      BY <2>1, <2>4 DEF TypeOK, AplicarAging
    <3> HIDE DEF env
    <3>5. ASSUME NEW g \in FichasFila(k)' PROVE \E f \in Fichas(k) : g = h[f] /\ g.id = f.id
      <4>1. PICK o \in fila[i] \ {oc} : g = Ficha("fila", env(o), env(o).id)
        BY <3>4 DEF FichasFila
      <4> DEFINE f == Ficha("fila", o, o.id)
      <4>2. f \in Fichas(k)
        BY <2>4 DEF Fichas, FichasFila
      <4>3. f.onde = "fila" /\ f.coisa = o /\ f.id = o.id /\ g.id = env(o).id
        BY <4>1, CamposDaFicha
      <4>4. env(o).id = o.id
        BY <3>3
      <4> HIDE DEF f
      <4>5. h[f] = Ficha("fila", env(o), o.id)
        BY <4>2, <4>3
      <4> QED
        BY <4>1, <4>2, <4>3, <4>4, <4>5
    <3>6. ASSUME NEW g, g = IF so THEN ta ELSE ra
          PROVE  \E f \in Fichas(k) : g = h[f] /\ g.id = f.id
      <4> DEFINE f == Ficha("fila", oc, oc.id)
      <4>1. f \in Fichas(k)
        BY <2>4, <3>1 DEF Fichas, FichasFila
      <4>2. f.onde = "fila" /\ f.coisa = oc /\ f.id = oc.id
        BY CamposDaFicha
      <4>3. g.id = oc.id
        BY <3>6, CamposDaFicha
      <4> HIDE DEF f, ra, ta, so
      <4> QED
        BY <3>6, <4>1, <4>2, <4>3
    <3>7. ASSUME NEW g \in Fichas(k), g.onde # "fila"
          PROVE  \E f \in Fichas(k) : g = h[f] /\ g.id = f.id
      <4>1. h[g] = g
        BY <3>7
      <4> QED
        BY <4>1
    <3>8. FichasRA(k)' \subseteq {IF so THEN ta ELSE ra}
      <4>1. CASE so
        <5>1. JaEntra(k)'
          BY <3>4, <4>1 DEF JaEntra
        <5> QED
          BY <5>1 DEF FichasRA
      <4>2. CASE ~ so
        BY <3>4, <4>2 DEF FichasRA, FichaRA
      <4> QED
        BY <4>1, <4>2
    <3>9. FichasTarefas(k)' \subseteq FichasTarefas(k) \cup {IF so THEN ta ELSE ra}
      <4>1. CASE so
        <5>1. Entradas(k)' \subseteq Entradas(k) \cup {NaCS("entrarSo", oc)}
          BY <2>4, <3>4, <4>1 DEF Entradas
        <5> QED
          BY <4>1, <5>1, CamposDaTarefa DEF FichasTarefas
      <4>2. CASE ~ so
        <5>1. Entradas(k)' \subseteq Entradas(k)
          BY <2>4, <3>4, <4>2 DEF Entradas, Pedir
        <5> QED
          BY <5>1 DEF FichasTarefas
      <4> QED
        BY <4>1, <4>2
    <3>10. /\ FichasNovas(k)' = FichasNovas(k) /\ FichasPendentes(k)' = FichasPendentes(k)
           /\ FichasComandos(k)' = FichasComandos(k)
      BY <2>2 DEF FichasNovas, FichasPendentes, FichasComandos
    <3> HIDE DEF h, ra, ta, so
    <3>11. \A g \in Fichas(k)' : g.id = 0 \/ \E f \in Fichas(k) : g = h[f] /\ g.id = f.id
      <4> SUFFICES ASSUME NEW g \in Fichas(k)'
                   PROVE  \E f \in Fichas(k) : g = h[f] /\ g.id = f.id
        OBVIOUS
      <4>1. CASE g \in FichasFila(k)'
        BY <4>1, <3>5
      <4>2. CASE g = IF so THEN ta ELSE ra
        BY <4>2, <3>6
      <4>3. CASE g \in FichasNovas(k) \/ g \in FichasPendentes(k) \/ g \in FichasComandos(k)
                 \/ g \in FichasTarefas(k)
        <5>1. g \in Fichas(k) /\ g.onde # "fila"
          BY <4>3, OndeEsta DEF Fichas
        <5> QED
          BY <5>1, <3>7
      <4> QED
        BY <4>1, <4>2, <4>3, <3>8, <3>9, <3>10 DEF Fichas
    <3> QED
      BY <3>11, FichasMudam DEF Unicas
  <2> QED
    BY <2>3, <2>4
<1> QED
  BY <1>1, <1>2

(* handleRARequest: a grant ages the queue of a broker that is asking. *)
LEMMA FichasAoPedirem ==
    ASSUME TypeOK, NEW m \in rede, HandleRARequest(m), NEW k \in Brokers, Unicas(Fichas(k))
    PROVE  Unicas(Fichas(k))'
<1> DEFINE i == m.para
<1>1. /\ fila' = fila \/ fila' = [fila EXCEPT ![i] = AplicarAging(@)]
      /\ UNCHANGED <<novas, requesting, currentReqOc, tarefas, pendentes, comandos>>
  BY DEF HandleRARequest, missaoVars
<1>2. CASE fila'[k] = fila[k]
  BY <1>1, <1>2, FichasQuietas
<1>3. CASE fila'[k] = AplicarAging(fila[k])
  <2> DEFINE env(o) == [o EXCEPT !.prio = @ + 1]
             novo(f) == IF f.onde = "fila" THEN Ficha("fila", env(f.coisa), f.id) ELSE f
             h == [f \in Fichas(k) |-> novo(f)]
  <2>1. fila[k] \subseteq Oc /\ \A o \in fila[k] : env(o).id = o.id
    BY IdFica DEF TypeOK
  <2>2. fila'[k] = {env(o) : o \in fila[k]}
    BY <1>3 DEF AplicarAging
  <2> HIDE DEF env
  <2>3. ASSUME NEW g \in FichasFila(k)' PROVE \E f \in Fichas(k) : g = h[f] /\ g.id = f.id
    <3>1. PICK o \in fila[k] : g = Ficha("fila", env(o), env(o).id)
      BY <2>2 DEF FichasFila
    <3> DEFINE f == Ficha("fila", o, o.id)
    <3>2. f \in Fichas(k)
      BY DEF Fichas, FichasFila
    <3>3. f.onde = "fila" /\ f.coisa = o /\ f.id = o.id /\ g.id = env(o).id
      BY <3>1, CamposDaFicha
    <3> HIDE DEF f
    <3> QED
      BY <2>1, <3>1, <3>2, <3>3
  <2>4. ASSUME NEW g \in Fichas(k), g.onde # "fila"
        PROVE  \E f \in Fichas(k) : g = h[f] /\ g.id = f.id
    <3>1. h[g] = g
      BY <2>4
    <3> QED
      BY <3>1
  <2>5. /\ FichasNovas(k)' = FichasNovas(k) /\ FichasPendentes(k)' = FichasPendentes(k)
        /\ FichasComandos(k)' = FichasComandos(k) /\ FichasTarefas(k)' = FichasTarefas(k)
        /\ FichasRA(k)' = FichasRA(k)
    BY <1>1 DEF FichasNovas, FichasPendentes, FichasComandos, FichasTarefas, Entradas, FichasRA,
       FichaRA, JaEntra
  <2> HIDE DEF h
  <2>6. \A g \in Fichas(k)' : g.id = 0 \/ \E f \in Fichas(k) : g = h[f] /\ g.id = f.id
    <3> SUFFICES ASSUME NEW g \in Fichas(k)' PROVE \E f \in Fichas(k) : g = h[f] /\ g.id = f.id
      OBVIOUS
    <3>1. CASE g \in FichasFila(k)'
      BY <3>1, <2>3
    <3>2. CASE g \notin FichasFila(k)'
      <4>1. g \in Fichas(k) /\ g.onde # "fila"
        BY <2>5, <3>2, OndeEsta DEF Fichas
      <4> QED
        BY <4>1, <2>4
    <3> QED
      BY <3>1, <3>2
  <2> QED
    BY <2>6, FichasMudam DEF Unicas
<1> QED
  BY <1>1, <1>2, <1>3 DEF TypeOK

(* The request of a broker becomes a goroutine in entrarCS. *)
LEMMA FichasAoConceder ==
    ASSUME TypeOK, NEW k \in Brokers, Unicas(Fichas(k)), NEW oc, oc.id = currentReqOc[k].id,
           requesting[k], ~ JaEntra(k), ~ requesting'[k],
           tarefas'[k] = tarefas[k] \cup {NaCS("entrar", oc)},
           UNCHANGED <<novas, fila, pendentes, comandos>>
    PROVE  Unicas(Fichas(k))'
<1> DEFINE x == FichaRA(k)
           y == Ficha("tarefa", NaCS("entrar", oc), oc.id)
<1>1. x \in FichasRA(k) /\ FichasRA(k)' = {} /\ y.id = x.id
  BY CamposDaFicha DEF FichasRA, FichaRA
<1>2. Entradas(k)' \subseteq Entradas(k) \cup {NaCS("entrar", oc)}
  BY DEF Entradas
<1>3. FichasTarefas(k)' \subseteq FichasTarefas(k) \cup {y}
  BY <1>2, CamposDaTarefa DEF FichasTarefas
<1>4. /\ FichasNovas(k)' = FichasNovas(k) /\ FichasPendentes(k)' = FichasPendentes(k)
      /\ FichasComandos(k)' = FichasComandos(k) /\ FichasFila(k)' = FichasFila(k)
  BY DEF FichasNovas, FichasPendentes, FichasComandos, FichasFila
<1>5. x.onde = "ra"
  BY CamposDaFicha DEF FichaRA
<1> HIDE DEF x, y
<1>6. x \notin FichasNovas(k) \cup FichasFila(k) \cup FichasTarefas(k) \cup FichasPendentes(k)
              \cup FichasComandos(k)
  BY <1>5, OndeEsta
<1>7. Fichas(k)' \subseteq (Fichas(k) \ {x}) \cup {y} /\ x \in Fichas(k)
  BY <1>1, <1>3, <1>4, <1>6 DEF Fichas
<1> QED
  BY <1>1, <1>7, UmaFichaMuda DEF Unicas

LEMMA FichasAoReceberOK ==
    ASSUME TypeOK, NEW i \in Brokers, NEW j \in Brokers, HandleRAOK(j, i), "repetida" \notin furos',
           NEW k \in Brokers, Unicas(Fichas(k))
    PROVE  Unicas(Fichas(k))'
<1> DEFINE ativo == requesting[i] /\ ~ inCS[i]
           unanime == Cardinality(respostasOK[i] \cup {j}) >= Cardinality(connBrokers[i])
           entra == ativo /\ unanime
           tarefa == NaCS("entrar", currentReqOc[i])
<1>1. /\ requesting' = [requesting EXCEPT ![i] = @ /\ ~ entra]
      /\ tarefas' = IF entra THEN [tarefas EXCEPT ![i] = @ \cup {tarefa}] ELSE tarefas
      /\ furos' = furos \cup Repetida(i, entra)
      /\ UNCHANGED <<novas, fila, currentReqOc, pendentes, comandos>>
  BY DEF HandleRAOK, filaVars, missaoVars
<1>2. entra => requesting[i]
  OBVIOUS
<1> HIDE DEF ativo, unanime, entra
<1>3. CASE k = i /\ entra
  <2>1. ~ JaEntra(i)
    BY <1>1, <1>3 DEF Repetida
  <2>2. ~ requesting'[i] /\ tarefas'[i] = tarefas[i] \cup {tarefa}
    BY <1>1, <1>3 DEF TypeOK
  <2> QED
    BY <1>1, <1>2, <1>3, <2>1, <2>2, FichasAoConceder
<1>4. CASE ~ (k = i /\ entra)
  <2>1. tarefas'[k] = tarefas[k] /\ (requesting'[k] => requesting[k])
    BY <1>1, <1>4 DEF TypeOK
  <2> QED
    BY <1>1, <2>1, FichasQuietas
<1> QED
  BY <1>3, <1>4

(* monitorarPeers: the occurrence is rebuilt with its id. *)
LEMMA FichasAoCair ==
    ASSUME TypeOK, NEW i \in Brokers, NEW j \in Brokers, MonitorarPeers(i, j),
           "repetida" \notin furos', NEW k \in Brokers, Unicas(Fichas(k))
    PROVE  Unicas(Fichas(k))'
<1> DEFINE resta == connBrokers[i] \ {j}
           entra == requesting[i] /\ resta # {}
                    /\ Cardinality(respostasOK[i] \ {j}) >= Cardinality(resta)
           refeita == [id |-> currentReqOc[i].id, prio |-> currentReqRA[i].prio, paga |-> FALSE]
           tarefa == NaCS("entrar", refeita)
<1>1. /\ requesting' = [requesting EXCEPT ![i] = @ /\ ~ entra]
      /\ tarefas' = IF entra THEN [tarefas EXCEPT ![i] = @ \cup {tarefa}] ELSE tarefas
      /\ furos' = furos \cup Repetida(i, entra)
      /\ UNCHANGED <<novas, fila, currentReqOc, pendentes, comandos>>
  BY DEF MonitorarPeers, filaVars, missaoVars
<1>2. entra => requesting[i]
  OBVIOUS
<1>3. refeita.id = currentReqOc[i].id
  OBVIOUS
<1> HIDE DEF entra, refeita
<1>4. CASE k = i /\ entra
  <2>1. ~ JaEntra(i)
    BY <1>1, <1>4 DEF Repetida
  <2>2. ~ requesting'[i] /\ tarefas'[i] = tarefas[i] \cup {tarefa}
    BY <1>1, <1>4 DEF TypeOK
  <2> QED
    BY <1>1, <1>2, <1>3, <1>4, <2>1, <2>2, FichasAoConceder
<1>5. CASE ~ (k = i /\ entra)
  <2>1. tarefas'[k] = tarefas[k] /\ (requesting'[k] => requesting[k])
    BY <1>1, <1>5 DEF TypeOK
  <2> QED
    BY <1>1, <2>1, FichasQuietas
<1> QED
  BY <1>4, <1>5

(* entrarCS, its first critical section: requesting ends. *)
LEMMA FichasAoEntrar ==
    ASSUME TypeOK, NEW i \in Brokers, NEW t \in tarefas[i], EntrarCS(i, t), NEW k \in Brokers,
           Unicas(Fichas(k))
    PROVE  Unicas(Fichas(k))'
<1> DEFINE nova == NaCS("despachar", t.oc)
           x == Ficha("tarefa", t, t.oc.id)
           y == Ficha("tarefa", nova, t.oc.id)
<1>1. /\ t.op \in {"entrar", "entrarSo"}
      /\ requesting' = [requesting EXCEPT ![i] = FALSE]
      /\ tarefas' = [tarefas EXCEPT ![i] = (@ \ {t}) \cup {nova}]
      /\ UNCHANGED <<novas, fila, currentReqOc, pendentes, comandos>>
  BY DEF EntrarCS, filaVars, missaoVars
<1>2. CASE k # i
  BY <1>1, <1>2, FichasQuietas DEF TypeOK
<1>3. CASE k = i
  <2>1. FichasRA(k)' = {} /\ tarefas'[k] = (tarefas[k] \ {t}) \cup {nova}
    BY <1>1, <1>3 DEF TypeOK, FichasRA
  <2>2. Entradas(k)' = (Entradas(k) \ {t}) \cup {nova} /\ t \in Entradas(k)
    BY <1>1, <1>3, <2>1, CamposDaTarefa DEF Entradas
  <2>3. FichasTarefas(k)' \subseteq (FichasTarefas(k) \ {x}) \cup {y} /\ x \in FichasTarefas(k)
    BY <2>2, CamposDaTarefa, CamposDaFicha DEF FichasTarefas
  <2>4. /\ FichasNovas(k)' = FichasNovas(k) /\ FichasPendentes(k)' = FichasPendentes(k)
        /\ FichasComandos(k)' = FichasComandos(k) /\ FichasFila(k)' = FichasFila(k)
    BY <1>1 DEF FichasNovas, FichasPendentes, FichasComandos, FichasFila
  <2>5. y.id = x.id /\ x.onde = "tarefa"
    BY CamposDaFicha
  <2> HIDE DEF x, y
  <2>6. x \notin FichasNovas(k) \cup FichasFila(k) \cup FichasPendentes(k) \cup FichasComandos(k)
    BY <2>5, OndeEsta
  <2>7. Fichas(k)' \subseteq (Fichas(k) \ {x}) \cup {y} /\ x \in Fichas(k)
    BY <2>1, <2>3, <2>4, <2>6 DEF Fichas
  <2> QED
    BY <2>5, <2>7, UmaFichaMuda DEF Unicas
<1> QED
  BY <1>2, <1>3

(* despacharDrone: back to the queue, to the mempool or to the drone. *)
LEMMA FichasAoDespachar ==
    ASSUME TypeOK, NEW i \in Brokers, NEW t \in tarefas[i], DespacharDrone(i, t),
           NEW k \in Brokers, Unicas(Fichas(k))
    PROVE  Unicas(Fichas(k))'
<1> DEFINE saida == NaCS("sair", t.oc)
           volta == [t.oc EXCEPT !.prio = 3]
           x == Ficha("tarefa", t, t.oc.id)
<1>1. /\ t.op = "despachar" /\ t.oc # Nenhuma
      /\ tarefas' = [tarefas EXCEPT ![i] = (@ \ {t}) \cup {saida}]
      /\ UNCHANGED <<novas, requesting, currentReqOc>>
  BY DEF DespacharDrone, filaVars, raVars
<1>2. t.oc \in Oc
  <2>1. t \in Tarefas
    BY DEF TypeOK
  <2> QED
    BY <1>1, <2>1, PedidosSaoOc DEF Tarefas
<1>3. volta.id = t.oc.id
  BY <1>2, IdFica
<1>4. PICK d \in Drones \cup {0} :
         \/ fila' = [fila EXCEPT ![i] = @ \cup {volta}] /\ UNCHANGED <<pendentes, comandos>>
         \/ pendentes' = [pendentes EXCEPT ![i] = @ \cup {Missao(t.oc, d)}]
            /\ UNCHANGED <<fila, comandos>>
         \/ comandos' = [comandos EXCEPT ![i] = @ \cup {Comando(t.oc, d, "indo")}]
            /\ UNCHANGED <<fila, pendentes>>
  <2>1. CASE Livres(i) = {}
    <3>1. fila' = Devolver(i, {t.oc}) /\ UNCHANGED <<pendentes, comandos>>
      BY <2>1 DEF DespacharDrone, missaoVars
    <3>2. {[o EXCEPT !.prio = 3] : o \in {t.oc}} = {volta}
      OBVIOUS
    <3> HIDE DEF volta
    <3> QED
      BY <3>1, <3>2 DEF Devolver
  <2>2. CASE Livres(i) # {}
    <3>1. PICK d \in Livres(i) :
             /\ IF t.oc.paga
                THEN /\ pendentes' = [pendentes EXCEPT ![i] = @ \cup {Missao(t.oc, d)}]
                     /\ UNCHANGED comandos
                ELSE /\ comandos' = [comandos EXCEPT ![i] = @ \cup {Comando(t.oc, d, "indo")}]
                     /\ UNCHANGED pendentes
             /\ UNCHANGED fila
      BY <2>2, Zenon DEF DespacharDrone
    <3>2. d \in Drones \cup {0}
      BY DEF Livres
    <3> QED
      BY <3>1, <3>2
  <2> QED
    BY <2>1, <2>2
<1>5. CASE k # i
  <2>1. fila'[k] = fila[k] /\ pendentes'[k] = pendentes[k] /\ comandos'[k] = comandos[k]
        /\ tarefas'[k] = tarefas[k]
    BY <1>1, <1>4, <1>5 DEF TypeOK
  <2> QED
    BY <1>1, <2>1, FichasQuietas
<1>6. CASE k = i
  <2>1. tarefas'[k] = (tarefas[k] \ {t}) \cup {saida}
    BY <1>1, <1>6 DEF TypeOK
  <2>2. Entradas(k)' = Entradas(k) \ {t} /\ t \in Entradas(k)
    BY <1>1, <1>6, <2>1, CamposDaTarefa DEF Entradas
  <2>3. FichasTarefas(k)' \subseteq FichasTarefas(k) \ {x} /\ x \in FichasTarefas(k)
    BY <2>2, CamposDaFicha DEF FichasTarefas
  <2>4. JaEntra(k)' <=> JaEntra(k)
    BY <1>1, <2>1, CamposDaTarefa DEF JaEntra
  <2>5. FichasNovas(k)' = FichasNovas(k) /\ FichasRA(k)' = FichasRA(k)
    BY <1>1, <2>4 DEF FichasNovas, FichasRA, FichaRA
  <2>6. x.onde = "tarefa" /\ x.id = t.oc.id
    BY CamposDaFicha
  <2>7. x \notin FichasNovas(k) \cup FichasFila(k) \cup FichasPendentes(k) \cup FichasComandos(k)
               \cup FichasRA(k)
    BY <2>6, OndeEsta
  <2>8. PICK y : y.id = t.oc.id
                 /\ FichasFila(k)' \cup FichasPendentes(k)' \cup FichasComandos(k)'
                       \subseteq FichasFila(k) \cup FichasPendentes(k) \cup FichasComandos(k)
                                  \cup {y}
    <3>1. CASE fila' = [fila EXCEPT ![i] = @ \cup {volta}] /\ UNCHANGED <<pendentes, comandos>>
      <4> DEFINE y == Ficha("fila", volta, volta.id)
      <4> HIDE DEF volta
      <4>1. fila'[k] = fila[k] \cup {volta}
        BY <1>6, <3>1 DEF TypeOK
      <4>2. FichasFila(k)' \subseteq FichasFila(k) \cup {y}
        BY <4>1 DEF FichasFila
      <4>3. FichasPendentes(k)' = FichasPendentes(k) /\ FichasComandos(k)' = FichasComandos(k)
        BY <3>1 DEF FichasPendentes, FichasComandos
      <4>4. y.id = t.oc.id
        BY <1>3, CamposDaFicha
      <4> HIDE DEF y
      <4> QED
        BY <4>2, <4>3, <4>4
    <3>2. CASE pendentes' = [pendentes EXCEPT ![i] = @ \cup {Missao(t.oc, d)}]
               /\ UNCHANGED <<fila, comandos>>
      <4> DEFINE y == Ficha("pendente", Missao(t.oc, d), t.oc.id)
      <4>0. Missao(t.oc, d).oc = t.oc
        BY DEF Missao
      <4>1. pendentes'[k] = pendentes[k] \cup {Missao(t.oc, d)}
        BY <1>6, <3>2 DEF TypeOK
      <4>2. FichasPendentes(k)' \subseteq FichasPendentes(k) \cup {y}
        BY <4>0, <4>1 DEF FichasPendentes
      <4>3. FichasFila(k)' = FichasFila(k) /\ FichasComandos(k)' = FichasComandos(k)
        BY <3>2 DEF FichasFila, FichasComandos
      <4>4. y.id = t.oc.id
        BY CamposDaFicha
      <4> HIDE DEF y
      <4> QED
        BY <4>2, <4>3, <4>4
    <3>3. CASE comandos' = [comandos EXCEPT ![i] = @ \cup {Comando(t.oc, d, "indo")}]
               /\ UNCHANGED <<fila, pendentes>>
      <4> DEFINE y == Ficha("comando", Comando(t.oc, d, "indo"), t.oc.id)
      <4>0. Comando(t.oc, d, "indo").oc = t.oc
        BY DEF Comando
      <4>1. comandos'[k] = comandos[k] \cup {Comando(t.oc, d, "indo")}
        BY <1>6, <3>3 DEF TypeOK
      <4>2. FichasComandos(k)' \subseteq FichasComandos(k) \cup {y}
        BY <4>0, <4>1 DEF FichasComandos
      <4>3. FichasFila(k)' = FichasFila(k) /\ FichasPendentes(k)' = FichasPendentes(k)
        BY <3>3 DEF FichasFila, FichasPendentes
      <4>4. y.id = t.oc.id
        BY CamposDaFicha
      <4> HIDE DEF y
      <4> QED
        BY <4>2, <4>3, <4>4
    <3> QED
      BY <1>4, <3>1, <3>2, <3>3
  <2> HIDE DEF x
  <2>9. Fichas(k)' \subseteq (Fichas(k) \ {x}) \cup {y} /\ x \in Fichas(k)
    BY <2>3, <2>5, <2>7, <2>8 DEF Fichas
  <2> QED
    BY <2>6, <2>8, <2>9, UmaFichaMuda DEF Unicas
<1> QED
  BY <1>5, <1>6

(* entrarCS, its exit: currentReqOc is cleared. *)
LEMMA FichasAoSair ==
    ASSUME TypeOK, NEW i \in Brokers, NEW t \in tarefas[i], SairCS(i, t), NEW k \in Brokers,
           Unicas(Fichas(k))
    PROVE  Unicas(Fichas(k))'
<1>1. /\ t.op = "sair"
      /\ currentReqOc' = [currentReqOc EXCEPT ![i] = Nenhuma]
      /\ tarefas' = [tarefas EXCEPT ![i] = @ \ {t}]
      /\ UNCHANGED <<novas, fila, requesting, pendentes, comandos>>
  BY DEF SairCS, missaoVars
<1>2. CASE k # i
  BY <1>1, <1>2, FichasQuietas DEF TypeOK
<1>3. CASE k = i
  <2> DEFINE y == Ficha("ra", Nenhuma, Nenhuma.id)
  <2>1. currentReqOc'[k] = Nenhuma /\ tarefas'[k] = tarefas[k] \ {t}
    BY <1>1, <1>3 DEF TypeOK
  <2>2. FichasRA(k)' \subseteq {y}
    BY <2>1 DEF FichasRA, FichaRA
  <2>3. Entradas(k)' = Entradas(k)
    BY <1>1, <2>1 DEF Entradas
  <2>4. /\ FichasNovas(k)' = FichasNovas(k) /\ FichasPendentes(k)' = FichasPendentes(k)
        /\ FichasComandos(k)' = FichasComandos(k) /\ FichasFila(k)' = FichasFila(k)
        /\ FichasTarefas(k)' = FichasTarefas(k)
    BY <1>1, <2>3 DEF FichasNovas, FichasPendentes, FichasComandos, FichasFila, FichasTarefas
  <2>5. y.id = 0
    BY CamposDaFicha DEF Nenhuma
  <2> HIDE DEF y
  <2>6. Fichas(k)' \subseteq Fichas(k) \cup {y}
    BY <2>2, <2>4 DEF Fichas
  <2> QED
    BY <2>5, <2>6, FichaNula DEF Unicas
<1> QED
  BY <1>2, <1>3

(* A mission that ends goes back to the queue or, from the mempool, to the *)
(* drone: p leaves one set of the broker and something of the same id      *)
(* enters another.                                                         *)
LEMMA FichasDaMissao ==
    ASSUME TypeOK, NEW k \in Brokers, Unicas(Fichas(k)),
           UNCHANGED <<novas, requesting, currentReqOc, tarefas>>,
           NEW x \in FichasPendentes(k) \cup FichasComandos(k), NEW y, y.id = x.id,
           FichasPendentes(k)' \subseteq (FichasPendentes(k) \ {x}) \cup {y},
           FichasComandos(k)' \subseteq (FichasComandos(k) \ {x}) \cup {y},
           FichasFila(k)' \subseteq FichasFila(k) \cup {y}
    PROVE  Unicas(Fichas(k))'
<1>1. /\ FichasNovas(k)' = FichasNovas(k) /\ FichasRA(k)' = FichasRA(k)
      /\ FichasTarefas(k)' = FichasTarefas(k)
  BY DEF FichasNovas, FichasRA, FichaRA, JaEntra, FichasTarefas, Entradas
<1>2. x \notin FichasNovas(k) \cup FichasFila(k) \cup FichasRA(k) \cup FichasTarefas(k)
  BY OndeEsta
<1>3. Fichas(k)' \subseteq (Fichas(k) \ {x}) \cup {y} /\ x \in Fichas(k)
  BY <1>1, <1>2 DEF Fichas
<1> QED
  BY <1>3, UmaFichaMuda DEF Unicas

(* recolocarOcorrenciaNaFila. *)
LEMMA FilaAoRecolocar ==
    ASSUME TypeOK, NEW i \in Brokers, NEW oc \in Oc, fila' = Devolver(i, {oc})
    PROVE  /\ \A k \in Brokers \ {i} : fila'[k] = fila[k]
           /\ FichasFila(i)' = FichasFila(i) \cup {Ficha("fila", [oc EXCEPT !.prio = 3], oc.id)}
<1> DEFINE volta == [oc EXCEPT !.prio = 3]
<1>1. {[o EXCEPT !.prio = 3] : o \in {oc}} = {volta} /\ volta.id = oc.id
  BY IdFica
<1> HIDE DEF volta
<1>2. fila' = [fila EXCEPT ![i] = @ \cup {volta}]
  BY <1>1 DEF Devolver
<1>3. fila'[i] = fila[i] \cup {volta} /\ \A k \in Brokers \ {i} : fila'[k] = fila[k]
  BY <1>2 DEF TypeOK
<1>4. FichasFila(i)' = FichasFila(i) \cup {Ficha("fila", volta, oc.id)}
  BY <1>1, <1>3 DEF FichasFila
<1> QED
  BY <1>3, <1>4 DEF volta

(* commitarBloco confirms the payment: from the mempool to the drone. *)
LEMMA FichasAoConfirmar ==
    ASSUME TypeOK, NEW i \in Brokers, NEW p \in pendentes[i], ConfirmarPagamento(i, p),
           NEW k \in Brokers, Unicas(Fichas(k))
    PROVE  Unicas(Fichas(k))'
<1> DEFINE c == Comando(p.oc, p.drone, "indo")
           x == Ficha("pendente", p, p.oc.id)
           y == Ficha("comando", c, p.oc.id)
<1>1. /\ pendentes' = [pendentes EXCEPT ![i] = @ \ {p}]
      /\ comandos' = [comandos EXCEPT ![i] = @ \cup {c}]
      /\ UNCHANGED <<novas, fila, requesting, currentReqOc, tarefas>>
  BY DEF ConfirmarPagamento, filaVars, raVars
<1>2. CASE k # i
  BY <1>1, <1>2, FichasQuietas DEF TypeOK
<1>3. CASE k = i
  <2>1. pendentes'[k] = pendentes[k] \ {p} /\ comandos'[k] = comandos[k] \cup {c} /\ c.oc = p.oc
    BY <1>1, <1>3 DEF TypeOK, Comando
  <2>2. FichasPendentes(k)' \subseteq FichasPendentes(k) \ {x} /\ x \in FichasPendentes(k)
    BY <1>3, <2>1, CamposDaFicha DEF FichasPendentes
  <2>3. FichasComandos(k)' \subseteq FichasComandos(k) \cup {y} /\ FichasFila(k)' = FichasFila(k)
    BY <1>1, <2>1 DEF FichasComandos, FichasFila
  <2>4. x \notin FichasComandos(k) /\ y.id = x.id
    BY OndeEsta, CamposDaFicha
  <2> HIDE DEF x, y, c
  <2> QED
    BY <1>1, <2>2, <2>3, <2>4, FichasDaMissao
<1> QED
  BY <1>2, <1>3

(* A payment that fails: back to the queue. *)
LEMMA FichasAoRecusar ==
    ASSUME TypeOK, NEW i \in Brokers, NEW p \in pendentes[i], RecusarPagamento(i, p),
           NEW k \in Brokers, Unicas(Fichas(k))
    PROVE  Unicas(Fichas(k))'
<1> DEFINE x == Ficha("pendente", p, p.oc.id)
           y == Ficha("fila", [p.oc EXCEPT !.prio = 3], p.oc.id)
<1>0. p.oc \in Oc
  BY DEF TypeOK
<1>1. /\ pendentes' = [pendentes EXCEPT ![i] = @ \ {p}]
      /\ fila' = Devolver(i, {p.oc})
      /\ UNCHANGED <<novas, comandos, requesting, currentReqOc, tarefas>>
  BY DEF RecusarPagamento, Recolocar, raVars
<1>2. CASE k # i
  <2>1. fila'[k] = fila[k] /\ pendentes'[k] = pendentes[k]
    BY <1>0, <1>1, <1>2, FilaAoRecolocar DEF TypeOK
  <2> QED
    BY <1>1, <2>1, FichasQuietas
<1>3. CASE k = i
  <2>1. pendentes'[k] = pendentes[k] \ {p}
    BY <1>1, <1>3 DEF TypeOK
  <2>2. FichasPendentes(k)' \subseteq FichasPendentes(k) \ {x} /\ x \in FichasPendentes(k)
    BY <1>3, <2>1, CamposDaFicha DEF FichasPendentes
  <2>3. FichasComandos(k)' = FichasComandos(k) /\ FichasFila(k)' = FichasFila(k) \cup {y}
    BY <1>0, <1>1, <1>3, FilaAoRecolocar DEF FichasComandos
  <2>4. x \notin FichasComandos(k) /\ y.id = x.id
    BY OndeEsta, CamposDaFicha
  <2> HIDE DEF x, y
  <2> QED
    BY <1>1, <2>2, <2>3, <2>4, FichasDaMissao
<1> QED
  BY <1>2, <1>3

(* monitorarMempool: every mission of the sweep goes back to the queue.    *)
LEMMA FichasNaMempool ==
    ASSUME TypeOK, NEW i \in Brokers, MonitorarMempool(i), NEW k \in Brokers, Unicas(Fichas(k))
    PROVE  Unicas(Fichas(k))'
<1>1. PICK velhas \in SUBSET pendentes[i] :
         /\ pendentes' = [pendentes EXCEPT ![i] = @ \ velhas]
         /\ fila' = Devolver(i, {p.oc : p \in velhas})
  BY Zenon DEF MonitorarMempool
<1>2. UNCHANGED <<novas, comandos, requesting, currentReqOc, tarefas>>
  BY DEF MonitorarMempool, raVars
<1>3. CASE k # i
  <2>1. fila'[k] = fila[k] /\ pendentes'[k] = pendentes[k]
    BY <1>1, <1>3 DEF TypeOK, Devolver
  <2> QED
    BY <1>2, <2>1, FichasQuietas
<1>4. CASE k = i
  <2> DEFINE volta(o) == [o EXCEPT !.prio = 3]
             novo(f) == IF f.onde = "pendente" /\ f.coisa \in velhas
                        THEN Ficha("fila", volta(f.coisa.oc), f.id) ELSE f
             h == [f \in Fichas(k) |-> novo(f)]
  <2>1. \A p \in velhas : p.oc \in Oc
    BY DEF TypeOK
  <2>2. \A p \in velhas : volta(p.oc).id = p.oc.id
    BY <2>1, IdFica
  <2>3. /\ fila'[k] = fila[k] \cup {volta(p.oc) : p \in velhas}
        /\ pendentes'[k] = pendentes[k] \ velhas
    <3>1. {volta(o) : o \in {p.oc : p \in velhas}} = {volta(p.oc) : p \in velhas}
      OBVIOUS
    <3>2. fila' = [fila EXCEPT ![i] = @ \cup {volta(o) : o \in {p.oc : p \in velhas}}]
      BY <1>1 DEF Devolver
    <3> HIDE DEF volta
    <3>3. fila' = [fila EXCEPT ![i] = @ \cup {volta(p.oc) : p \in velhas}]
      BY <3>1, <3>2
    <3> QED
      BY <1>1, <1>4, <3>3 DEF TypeOK
  <2> HIDE DEF volta
  <2>4. ASSUME NEW g \in FichasFila(k)', g \notin FichasFila(k)
        PROVE  \E f \in Fichas(k) : g = h[f] /\ g.id = f.id
    <3>1. PICK p \in velhas : g = Ficha("fila", volta(p.oc), volta(p.oc).id)
      BY <2>3, <2>4 DEF FichasFila
    <3> DEFINE f == Ficha("pendente", p, p.oc.id)
    <3>2. f \in Fichas(k)
      BY <1>4 DEF Fichas, FichasPendentes
    <3>3. f.onde = "pendente" /\ f.coisa = p /\ f.id = p.oc.id /\ g.id = volta(p.oc).id
      BY <3>1, CamposDaFicha
    <3> HIDE DEF f
    <3> QED
      BY <2>2, <3>1, <3>2, <3>3
  <2>5. ASSUME NEW g \in Fichas(k), ~ (g.onde = "pendente" /\ g.coisa \in velhas)
        PROVE  \E f \in Fichas(k) : g = h[f] /\ g.id = f.id
    <3>1. h[g] = g
      BY <2>5
    <3> QED
      BY <3>1
  <2>6. ASSUME NEW g \in FichasPendentes(k)'
        PROVE  g \in FichasPendentes(k) /\ g.coisa \notin velhas
    BY <2>3, CamposDaFicha DEF FichasPendentes
  <2>7. /\ FichasNovas(k)' = FichasNovas(k) /\ FichasRA(k)' = FichasRA(k)
        /\ FichasTarefas(k)' = FichasTarefas(k) /\ FichasComandos(k)' = FichasComandos(k)
    BY <1>2 DEF FichasNovas, FichasComandos, FichasTarefas, Entradas, FichasRA, FichaRA, JaEntra
  <2> HIDE DEF h
  <2>8. \A g \in Fichas(k)' : g.id = 0 \/ \E f \in Fichas(k) : g = h[f] /\ g.id = f.id
    <3> SUFFICES ASSUME NEW g \in Fichas(k)' PROVE \E f \in Fichas(k) : g = h[f] /\ g.id = f.id
      OBVIOUS
    <3>1. CASE g \in FichasFila(k)' /\ g \notin FichasFila(k)
      BY <3>1, <2>4
    <3>2. CASE g \in FichasPendentes(k)'
      BY <3>2, <2>5, <2>6 DEF Fichas
    <3>3. CASE g \in FichasFila(k) \/ g \in FichasNovas(k) \/ g \in FichasRA(k)
               \/ g \in FichasTarefas(k) \/ g \in FichasComandos(k)
      <4>1. g \in Fichas(k) /\ g.onde # "pendente"
        BY <3>3, OndeEsta DEF Fichas
      <4> QED
        BY <4>1, <2>5
    <3> QED
      BY <3>1, <3>2, <3>3, <2>7 DEF Fichas
  <2> QED
    BY <2>8, FichasMudam DEF Unicas
<1> QED
  BY <1>3, <1>4

(* The command: the drone takes off or refuses ... *)
LEMMA FichasAoDecolar ==
    ASSUME TypeOK, NEW i \in Brokers, NEW c \in comandos[i], DecolarDrone(i, c),
           NEW k \in Brokers, Unicas(Fichas(k))
    PROVE  Unicas(Fichas(k))'
<1> DEFINE r == [c EXCEPT !.fase = "recusado"]
           x == Ficha("comando", c, c.oc.id)
           y == Ficha("comando", r, c.oc.id)
<1>1. r.oc = c.oc
  BY DEF TypeOK
<1> HIDE DEF r
<1>2. /\ \/ comandos' = [comandos EXCEPT ![i] = @ \ {c}]
         \/ comandos' = [comandos EXCEPT ![i] = (@ \ {c}) \cup {r}]
      /\ UNCHANGED <<novas, fila, requesting, currentReqOc, tarefas, pendentes>>
  BY DEF DecolarDrone, filaVars, raVars, r
<1>3. CASE k # i
  <2>1. comandos'[k] = comandos[k]
    BY <1>2, <1>3 DEF TypeOK
  <2> QED
    BY <1>2, <2>1, FichasQuietas
<1>4. CASE k = i
  <2>1. comandos'[k] \subseteq (comandos[k] \ {c}) \cup {r}
    BY <1>2, <1>4 DEF TypeOK
  <2>2. FichasComandos(k)' \subseteq (FichasComandos(k) \ {x}) \cup {y} /\ x \in FichasComandos(k)
    BY <1>1, <1>4, <2>1, CamposDaFicha DEF FichasComandos
  <2>3. FichasPendentes(k)' = FichasPendentes(k) /\ FichasFila(k)' = FichasFila(k)
    BY <1>2 DEF FichasPendentes, FichasFila
  <2>4. x \notin FichasPendentes(k) /\ y.id = x.id
    BY OndeEsta, CamposDaFicha
  <2> HIDE DEF x, y
  <2> QED
    BY <1>2, <2>2, <2>3, <2>4, FichasDaMissao
<1> QED
  BY <1>3, <1>4

(* ... and a command that failed, or was refused, goes back to the queue.  *)
LEMMA FichasDoComando ==
    ASSUME TypeOK, NEW i \in Brokers, NEW c \in comandos[i],
           FalharComando(i, c) \/ RecolocarRecusada(i, c), NEW k \in Brokers, Unicas(Fichas(k))
    PROVE  Unicas(Fichas(k))'
<1> DEFINE x == Ficha("comando", c, c.oc.id)
           y == Ficha("fila", [c.oc EXCEPT !.prio = 3], c.oc.id)
<1>0. c.oc \in Oc
  BY DEF TypeOK
<1>1. /\ comandos' = [comandos EXCEPT ![i] = @ \ {c}]
      /\ fila' = Devolver(i, {c.oc})
      /\ UNCHANGED <<novas, pendentes, requesting, currentReqOc, tarefas>>
  BY DEF FalharComando, RecolocarRecusada, Recolocar, raVars
<1>2. CASE k # i
  <2>1. fila'[k] = fila[k] /\ comandos'[k] = comandos[k]
    BY <1>0, <1>1, <1>2, FilaAoRecolocar DEF TypeOK
  <2> QED
    BY <1>1, <2>1, FichasQuietas
<1>3. CASE k = i
  <2>1. comandos'[k] = comandos[k] \ {c}
    BY <1>1, <1>3 DEF TypeOK
  <2>2. FichasComandos(k)' \subseteq FichasComandos(k) \ {x} /\ x \in FichasComandos(k)
    BY <1>3, <2>1, CamposDaFicha DEF FichasComandos
  <2>3. FichasPendentes(k)' = FichasPendentes(k) /\ FichasFila(k)' = FichasFila(k) \cup {y}
    BY <1>0, <1>1, <1>3, FilaAoRecolocar DEF FichasPendentes
  <2>4. x \notin FichasPendentes(k) /\ y.id = x.id
    BY OndeEsta, CamposDaFicha
  <2> HIDE DEF x, y
  <2> QED
    BY <1>1, <2>2, <2>3, <2>4, FichasDaMissao
<1> QED
  BY <1>2, <1>3

(* The messages, the drones and the connections: no occurrence moves.      *)
LEMMA FichasDosAvisos ==
    ASSUME NEW k \in Brokers, Unicas(Fichas(k)), NEW m \in rede,
           \/ HandleReserva(m) \/ HandleRegistro(m) \/ HandleStatusDrone(m)
           \/ PerderMensagem(m) \/ PerderAviso(m)
    PROVE  Unicas(Fichas(k))'
<1>1. UNCHANGED <<novas, fila, requesting, currentReqOc, tarefas, pendentes, comandos>>
  BY DEF HandleReserva, HandleRegistro, HandleStatusDrone, PerderMensagem, PerderAviso,
     filaVars, missaoVars, raVars
<1> QED
  BY <1>1, FichasQuietas

LEMMA FichasDosDrones ==
    ASSUME NEW k \in Brokers, Unicas(Fichas(k)), NEW d \in Drones,
           ConcluirMissao(d) \/ Recarregar(d)
    PROVE  Unicas(Fichas(k))'
<1>1. UNCHANGED <<novas, fila, requesting, currentReqOc, tarefas, pendentes, comandos>>
  BY DEF ConcluirMissao, Recarregar, filaVars, missaoVars, raVars
<1> QED
  BY <1>1, FichasQuietas

LEMMA FichasDasConexoes ==
    ASSUME NEW k \in Brokers, Unicas(Fichas(k)), NEW i \in Brokers, NEW j \in Brokers,
           RemoverConexao(i, j) \/ ManterConexaoPeer(i, j) \/ PerderOK(i, j)
    PROVE  Unicas(Fichas(k))'
<1>1. UNCHANGED <<novas, fila, requesting, currentReqOc, tarefas, pendentes, comandos>>
  BY DEF RemoverConexao, ManterConexaoPeer, PerderOK, filaVars, missaoVars, raVars
<1> QED
  BY <1>1, FichasQuietas

LEMMA FichasAoEnviarUnicas ==
    ASSUME TypeOK, NEW i \in Brokers, NEW t \in tarefas[i], EnviarPedidos(i, t),
           NEW k \in Brokers, Unicas(Fichas(k))
    PROVE  Unicas(Fichas(k))'
<1>1. Fichas(k)' \subseteq Fichas(k)
  BY FichasAoEnviar
<1> QED
  BY <1>1, FichasSomem DEF Unicas

(* Every action. *)
LEMMA FichasAoPassar ==
    ASSUME TypeOK, [Next]_vars, "repetida" \notin furos', NEW k \in Brokers, Unicas(Fichas(k))
    PROVE  Unicas(Fichas(k))'
<1>1. CASE UNCHANGED vars
  <2>1. UNCHANGED <<novas, fila, requesting, currentReqOc, tarefas, pendentes, comandos>>
    BY <1>1 DEF vars, filaVars, missaoVars, raVars
  <2> QED
    BY <2>1, FichasQuietas
<1>2. ASSUME NEW i \in Brokers, Agir(i)
      PROVE  Unicas(Fichas(k))'
  BY <1>2, FichasAoTentar, FichasAoEnviarUnicas, FichasAoEntrar, FichasAoDespachar, FichasAoSair,
     FichasAoConfirmar, FichasAoDecolar, FichasDoComando, FichasAoReceberOK, FichasAoPedirem,
     FichasDosAvisos
  DEF Agir
<1>3. ASSUME NEW i \in Brokers, Falhar(i)
      PROVE  Unicas(Fichas(k))'
  BY <1>3, FichasAoRecusar, FichasNaMempool, FichasDoComando, FichasAoCair, FichasDasConexoes
  DEF Falhar
<1>4. CASE Progresso
  BY <1>2, <1>4, FichasDosDrones DEF Progresso, Vivos
<1>5. CASE Ambiente
  BY <1>3, <1>5, FichasAoOcorrer, FichasDosAvisos, FichasDasConexoes DEF Ambiente, Vivos
<1> QED
  BY <1>1, <1>4, <1>5 DEF Next

LEMMA FichasIniciais ==
    ASSUME Init, IdsUnicos, NEW k \in Brokers
    PROVE  Unicas(Fichas(k))
<1>1. Fichas(k) = FichasNovas(k)
  BY DEF Init, Fichas, FichasFila, FichasRA, FichasTarefas, Entradas, FichasPendentes,
     FichasComandos
<1> SUFFICES ASSUME NEW f \in FichasNovas(k), NEW g \in FichasNovas(k), f.id = g.id
             PROVE  f = g
  BY <1>1 DEF Unicas
<1>2. PICK p \in Pedidos : p.broker = k /\ f = Ficha("nova", p, p.id)
  BY DEF FichasNovas, Init
<1>3. PICK q \in Pedidos : q.broker = k /\ g = Ficha("nova", q, q.id)
  BY DEF FichasNovas, Init
<1>4. p.id = q.id
  BY <1>2, <1>3, CamposDaFicha
<1>5. p = q
  BY <1>2, <1>3, <1>4 DEF IdsUnicos
<1> QED
  BY <1>2, <1>3, <1>5

(* An occurrence in two places of a broker would be two of its tokens.     *)
LEMMA FichasDizem ==
    ASSUME NEW k \in Brokers, NEW id, id # 0, Unicas(Fichas(k))
    PROVE  /\ ~ (NaFila(k, id) /\ (NoRA(k, id) \/ NaMissao(k, id)))
           /\ ~ (NoRA(k, id) /\ NaMissao(k, id))
<1>1. NaFila(k, id) => \E f \in Fichas(k) : f.id = id /\ f.onde = "fila"
  <2> SUFFICES ASSUME NEW o \in fila[k], o.id = id
               PROVE  \E f \in Fichas(k) : f.id = id /\ f.onde = "fila"
    BY DEF NaFila
  <2>1. Ficha("fila", o, o.id) \in Fichas(k)
    BY DEF Fichas, FichasFila
  <2> QED
    BY <2>1, CamposDaFicha
<1>2. NoRA(k, id) => \E f \in Fichas(k) : f.id = id /\ f.onde \in {"ra", "tarefa"}
  <2>1. ASSUME NEW t \in Entradas(k), t.oc.id = id
        PROVE  \E f \in Fichas(k) : f.id = id /\ f.onde \in {"ra", "tarefa"}
    <3>1. Ficha("tarefa", t, t.oc.id) \in Fichas(k)
      BY DEF Fichas, FichasTarefas
    <3> QED
      BY <2>1, <3>1, CamposDaFicha
  <2>2. ASSUME requesting[k], currentReqOc[k].id = id, JaEntra(k)
        PROVE  \E f \in Fichas(k) : f.id = id /\ f.onde \in {"ra", "tarefa"}
    <3> DEFINE t == NaCS("entrarSo", currentReqOc[k])
    <3>1. t.op = "entrarSo" /\ t.oc = currentReqOc[k]
      BY CamposDaTarefa
    <3> HIDE DEF t
    <3>2. t \in Entradas(k)
      BY <2>2, <3>1 DEF Entradas, JaEntra, t
    <3> QED
      BY <2>1, <2>2, <3>1, <3>2
  <2>3. ASSUME requesting[k], currentReqOc[k].id = id, ~ JaEntra(k)
        PROVE  \E f \in Fichas(k) : f.id = id /\ f.onde \in {"ra", "tarefa"}
    <3>1. FichaRA(k) \in Fichas(k)
      BY <2>3 DEF Fichas, FichasRA
    <3>2. FichaRA(k).onde = "ra" /\ FichaRA(k).id = id
      BY <2>3, CamposDaFicha DEF FichaRA
    <3> QED
      BY <3>1, <3>2
  <2> QED
    BY <2>1, <2>2, <2>3 DEF NoRA, Entradas
<1>3. NaMissao(k, id) => \E f \in Fichas(k) : f.id = id /\ f.onde \in {"pendente", "comando"}
  <2>1. ASSUME NEW p \in pendentes[k], p.oc.id = id
        PROVE  \E f \in Fichas(k) : f.id = id /\ f.onde \in {"pendente", "comando"}
    <3>1. Ficha("pendente", p, p.oc.id) \in Fichas(k)
      BY DEF Fichas, FichasPendentes
    <3> QED
      BY <2>1, <3>1, CamposDaFicha
  <2>2. ASSUME NEW c \in comandos[k], c.oc.id = id
        PROVE  \E f \in Fichas(k) : f.id = id /\ f.onde \in {"pendente", "comando"}
    <3>1. Ficha("comando", c, c.oc.id) \in Fichas(k)
      BY DEF Fichas, FichasComandos
    <3> QED
      BY <2>2, <3>1, CamposDaFicha
  <2> QED
    BY <2>1, <2>2 DEF NaMissao
<1>4. \A f, g \in Fichas(k) : f.id = id /\ g.id = id => f.onde = g.onde
  BY DEF Unicas
<1> QED
  BY <1>1, <1>2, <1>3, <1>4

(* Where no two occurrences of a broker have one id, as a sensor that      *)
(* numbers them (sensor.go, client.go) makes sure until it is started      *)
(* again, a broker keeps each in one place: queue, exclusion (one          *)
(* goroutine of it), mempool or command.  No rollback, refusal, timer or   *)
(* removed peer doubles one, in any order and at any number of brokers;    *)
(* only an OK or a removal that grants the request of a broker which       *)
(* enters alone does (tentarDespachar, handleRAOK, monitorarPeers).        *)
THEOREM SempreUmLugarSo == IdsUnicos => (Spec => []UmLugarSo)
<1> SUFFICES ASSUME IdsUnicos PROVE Spec => []UmLugarSo
  OBVIOUS
<1>1. Init => UmaFicha
  BY FichasIniciais DEF UmaFicha
<1>2. TypeOK /\ UmaFicha /\ [Next]_vars => UmaFicha'
  <2> SUFFICES ASSUME TypeOK, UmaFicha, [Next]_vars, "repetida" \notin furos', NEW k \in Brokers
               PROVE  Unicas(Fichas(k))'
    BY DEF UmaFicha
  <2>1. Unicas(Fichas(k))
    BY FurosFicam DEF UmaFicha
  <2> QED
    BY <2>1, FichasAoPassar
<1>3. UmaFicha => UmLugarSo
  <2>1. \A id \in Ids : id # 0
    BY PedidosAssumption DEF Ids
  <2> QED
    BY <2>1, FichasDizem DEF UmaFicha, UmLugarSo
<1> QED
  BY <1>1, <1>2, <1>3, TipoSempre, PTL DEF Spec

-----------------------------------------------------------------------------
(* What only an overlap loses.  Until tentarDespachar asks again over the  *)
(* remains of a request, a goroutine inside entrarCS while the broker asks *)
(* is the one that enters alone, for the very occurrence asked for.        *)
Sobra(i) ==
    \A t \in tarefas[i] :
        t.op # "pedir" /\ requesting[i] => t = NaCS("entrarSo", currentReqOc[i])

SemSobra == "sobreposicao" \notin furos => \A i \in Brokers : Sobra(i)

LEMMA SobraFica ==
    ASSUME NEW k, Sobra(k), tarefas'[k] \subseteq tarefas[k], requesting'[k] => requesting[k],
           currentReqOc'[k] = currentReqOc[k]
    PROVE  Sobra(k)'
BY DEF Sobra

(* A broker that does not ask has nothing over. *)
LEMMA NadaSobra ==
    ASSUME NEW k, ~ requesting'[k]
    PROVE  Sobra(k)'
BY DEF Sobra

LEMMA SobraAoTentar ==
    ASSUME TypeOK, NEW i \in Brokers, TentarDespachar(i), "sobreposicao" \notin furos',
           NEW k \in Brokers, Sobra(k)
    PROVE  Sobra(k)'
<1>1. CASE ~ PodePedir(i)
  <2>1. UNCHANGED <<requesting, currentReqOc, tarefas>>
    BY <1>1 DEF TentarDespachar, raVars
  <2> QED
    BY <2>1, SobraFica
<1>2. CASE PodePedir(i)
  <2>1. PICK oc \in MaisUrgentes(fila[i]) :
            /\ requesting' = [requesting EXCEPT ![i] = TRUE]
            /\ currentReqOc' = [currentReqOc EXCEPT ![i] = oc]
            /\ tarefas' = [tarefas EXCEPT ![i] = @ \cup
                 {IF connBrokers[i] = {} THEN NaCS("entrarSo", oc) ELSE Pedir(connBrokers[i])}]
            /\ furos' = furos \cup (IF Entrando(i) THEN {"sobreposicao"} ELSE {})
    BY <1>2 DEF TentarDespachar
  <2>2. CASE k # i
    BY <2>1, <2>2, SobraFica DEF TypeOK
  <2>3. CASE k = i
    <3>1. \A t \in tarefas[k] : t.op = "pedir"
      BY <2>1, <2>3 DEF Entrando
    <3>2. currentReqOc'[k] = oc
          /\ tarefas'[k] \subseteq tarefas[k] \cup {NaCS("entrarSo", oc), Pedir(connBrokers[i])}
      BY <2>1, <2>3 DEF TypeOK
    <3>3. Pedir(connBrokers[i]).op = "pedir"
      BY DEF Pedir
    <3> QED
      BY <3>1, <3>2, <3>3 DEF Sobra
  <2> QED
    BY <2>2, <2>3
<1> QED
  BY <1>1, <1>2

(* entrarCS takes the request away, and nothing else is asked for at its   *)
(* other steps.                                                            *)
LEMMA SobraNaCS ==
    ASSUME TypeOK, NEW i \in Brokers, NEW t \in tarefas[i],
           EnviarPedidos(i, t) \/ EntrarCS(i, t) \/ DespacharDrone(i, t) \/ SairCS(i, t),
           NEW k \in Brokers, Sobra(k)
    PROVE  Sobra(k)'
<1>1. CASE EnviarPedidos(i, t)
  BY <1>1, SobraFica DEF EnviarPedidos, raVars, TypeOK
<1>2. CASE EntrarCS(i, t)
  <2>1. CASE k = i
    BY <1>2, <2>1, NadaSobra DEF EntrarCS, TypeOK
  <2>2. CASE k # i
    BY <1>2, <2>2, SobraFica DEF EntrarCS, TypeOK
  <2> QED
    BY <2>1, <2>2
<1>3. CASE DespacharDrone(i, t) \/ SairCS(i, t)
  <2>1. t.op \in {"despachar", "sair"} /\ requesting' = requesting
    BY <1>3 DEF DespacharDrone, SairCS, raVars
  <2>2. CASE k = i
    <3>1. ~ requesting[k]
      BY <2>1, <2>2, CamposDaTarefa DEF Sobra
    <3> QED
      BY <2>1, <3>1, NadaSobra
  <2>3. CASE k # i
    <3>1. tarefas'[k] \subseteq tarefas[k] /\ currentReqOc'[k] = currentReqOc[k]
      <4>1. CASE DespacharDrone(i, t)
        BY <2>3, <4>1 DEF DespacharDrone, raVars, TypeOK
      <4>2. CASE SairCS(i, t)
        BY <2>3, <4>2 DEF SairCS, TypeOK
      <4> QED
        BY <1>3, <4>1, <4>2
    <3> QED
      BY <2>1, <3>1, SobraFica
  <2> QED
    BY <2>2, <2>3
<1> QED
  BY <1>1, <1>2, <1>3

(* A request that is granted is over. *)
LEMMA SobraAoConceder ==
    ASSUME TypeOK, NEW i \in Brokers, NEW j \in Brokers, HandleRAOK(j, i) \/ MonitorarPeers(i, j),
           NEW k \in Brokers, Sobra(k)
    PROVE  Sobra(k)'
<1>0. PICK entra \in BOOLEAN : \E tarefa :
         /\ requesting' = [requesting EXCEPT ![i] = @ /\ ~ entra]
         /\ tarefas' = IF entra THEN [tarefas EXCEPT ![i] = @ \cup {tarefa}] ELSE tarefas
         /\ currentReqOc' = currentReqOc
  <2>1. CASE HandleRAOK(j, i)
    <3> DEFINE unanime == Cardinality(respostasOK[i] \cup {j}) >= Cardinality(connBrokers[i])
               entra == (requesting[i] /\ ~ inCS[i]) /\ unanime
               tarefa == NaCS("entrar", currentReqOc[i])
    <3>1. /\ requesting' = [requesting EXCEPT ![i] = @ /\ ~ entra]
          /\ tarefas' = IF entra THEN [tarefas EXCEPT ![i] = @ \cup {tarefa}] ELSE tarefas
          /\ currentReqOc' = currentReqOc
      BY <2>1 DEF HandleRAOK
    <3>2. entra \in BOOLEAN
      OBVIOUS
    <3> HIDE DEF entra, tarefa
    <3> QED
      BY <3>1, <3>2
  <2>2. CASE MonitorarPeers(i, j)
    <3> DEFINE resta == connBrokers[i] \ {j}
               entra == requesting[i] /\ resta # {}
                        /\ Cardinality(respostasOK[i] \ {j}) >= Cardinality(resta)
               refeita == [id |-> currentReqOc[i].id, prio |-> currentReqRA[i].prio, paga |-> FALSE]
               tarefa == NaCS("entrar", refeita)
    <3>1. /\ requesting' = [requesting EXCEPT ![i] = @ /\ ~ entra]
          /\ tarefas' = IF entra THEN [tarefas EXCEPT ![i] = @ \cup {tarefa}] ELSE tarefas
          /\ currentReqOc' = currentReqOc
      BY <2>2 DEF MonitorarPeers
    <3>2. entra \in BOOLEAN
      OBVIOUS
    <3> HIDE DEF entra, tarefa
    <3> QED
      BY <3>1, <3>2
  <2> QED
    BY <2>1, <2>2
<1>1. PICK tarefa :
         /\ requesting' = [requesting EXCEPT ![i] = @ /\ ~ entra]
         /\ tarefas' = IF entra THEN [tarefas EXCEPT ![i] = @ \cup {tarefa}] ELSE tarefas
         /\ currentReqOc' = currentReqOc
  BY <1>0
<1>2. CASE k = i /\ entra
  <2>1. ~ requesting'[k]
    BY <1>1, <1>2 DEF TypeOK
  <2> QED
    BY <2>1, NadaSobra
<1>3. CASE ~ (k = i /\ entra)
  <2>1. tarefas'[k] = tarefas[k] /\ (requesting'[k] => requesting[k])
    BY <1>1, <1>3 DEF TypeOK
  <2> QED
    BY <1>1, <2>1, SobraFica
<1> QED
  BY <1>2, <1>3

LEMMA SobraAoPassar ==
    ASSUME TypeOK, [Next]_vars, "sobreposicao" \notin furos', NEW k \in Brokers, Sobra(k)
    PROVE  Sobra(k)'
<1>1. CASE UNCHANGED <<requesting, currentReqOc, tarefas>>
  BY <1>1, SobraFica
<1>2. ASSUME NEW i \in Brokers, Agir(i)
      PROVE  Sobra(k)'
  <2>1. ASSUME NEW p \in pendentes[i], ConfirmarPagamento(i, p) PROVE Sobra(k)'
    BY <1>1, <2>1 DEF ConfirmarPagamento, raVars
  <2>2. ASSUME NEW c \in comandos[i], DecolarDrone(i, c) \/ RecolocarRecusada(i, c)
        PROVE  Sobra(k)'
    BY <1>1, <2>2 DEF DecolarDrone, RecolocarRecusada, raVars
  <2>3. ASSUME NEW m \in rede,
               HandleRARequest(m) \/ HandleReserva(m) \/ HandleRegistro(m) \/ HandleStatusDrone(m)
        PROVE  Sobra(k)'
    BY <1>1, <2>3 DEF HandleRARequest, HandleReserva, HandleRegistro, HandleStatusDrone, raVars
  <2> QED
    BY <1>2, <2>1, <2>2, <2>3, SobraAoTentar, SobraNaCS, SobraAoConceder DEF Agir
<1>3. ASSUME NEW i \in Brokers, Falhar(i)
      PROVE  Sobra(k)'
  <2>1. ASSUME NEW p \in pendentes[i], RecusarPagamento(i, p) PROVE Sobra(k)'
    BY <1>1, <2>1 DEF RecusarPagamento, raVars
  <2>2. CASE MonitorarMempool(i)
    BY <1>1, <2>2 DEF MonitorarMempool, raVars
  <2>3. ASSUME NEW c \in comandos[i], FalharComando(i, c) PROVE Sobra(k)'
    BY <1>1, <2>3 DEF FalharComando, raVars
  <2>4. ASSUME NEW j \in Brokers, RemoverConexao(i, j) \/ ManterConexaoPeer(i, j) PROVE Sobra(k)'
    BY <1>1, <2>4 DEF RemoverConexao, ManterConexaoPeer, raVars
  <2> QED
    BY <1>3, <2>1, <2>2, <2>3, <2>4, SobraAoConceder DEF Falhar
<1>4. CASE Progresso
  BY <1>1, <1>2, <1>4 DEF Progresso, Vivos, ConcluirMissao, Recarregar, raVars
<1>5. CASE Ambiente
  BY <1>1, <1>3, <1>5 DEF Ambiente, Vivos, HandleOcorrencia, PerderMensagem, PerderAviso, PerderOK,
     raVars
<1>6. CASE UNCHANGED vars
  BY <1>1, <1>6 DEF vars, raVars
<1> QED
  BY <1>4, <1>5, <1>6 DEF Next

LEMMA SobraSempre ==
    ASSUME TypeOK, SemSobra, [Next]_vars
    PROVE  SemSobra'
<1> SUFFICES ASSUME "sobreposicao" \notin furos', NEW k \in Brokers
             PROVE  Sobra(k)'
  BY DEF SemSobra
<1>1. Sobra(k)
  BY FurosFicam DEF SemSobra
<1> QED
  BY <1>1, SobraAoPassar

(* Broker i has the occurrence somewhere. *)
Tem(i, id) == NaFila(i, id) \/ NoRA(i, id) \/ NaMissao(i, id)

LEMMA TemFica ==
    ASSUME NEW k, NEW id, Tem(k, id), fila'[k] = fila[k],
           requesting[k] => requesting'[k], currentReqOc'[k] = currentReqOc[k],
           Entradas(k) \subseteq Entradas(k)',
           pendentes[k] \subseteq pendentes'[k], comandos[k] \subseteq comandos'[k]
    PROVE  Tem(k, id)'
<1>1. NaFila(k, id) => NaFila(k, id)'
  BY DEF NaFila
<1>2. NoRA(k, id) => NoRA(k, id)'
  BY DEF NoRA, Entradas
<1>3. NaMissao(k, id) => NaMissao(k, id)'
  BY DEF NaMissao
<1> QED
  BY <1>1, <1>2, <1>3 DEF Tem

(* What a step does not touch stays. *)
LEMMA TemQuieto ==
    ASSUME NEW k, NEW id, Tem(k, id),
           fila'[k] = fila[k], requesting'[k] = requesting[k], currentReqOc'[k] = currentReqOc[k],
           tarefas'[k] = tarefas[k], pendentes'[k] = pendentes[k], comandos'[k] = comandos[k]
    PROVE  Tem(k, id)'
BY TemFica DEF Entradas

LEMMA TemAoTentar ==
    ASSUME TypeOK, NEW i \in Brokers, TentarDespachar(i), NEW k \in Brokers, NEW id, Tem(k, id)
    PROVE  Tem(k, id)'
<1>1. UNCHANGED <<pendentes, comandos>>
  BY DEF TentarDespachar, missaoVars
<1>2. CASE ~ PodePedir(i)
  BY <1>1, <1>2, TemQuieto DEF TentarDespachar, raVars
<1>3. CASE PodePedir(i)
  <2>1. PICK oc \in MaisUrgentes(fila[i]) :
            /\ fila' = [fila EXCEPT ![i] = AplicarAging(@ \ {oc})]
            /\ requesting' = [requesting EXCEPT ![i] = TRUE]
            /\ currentReqOc' = [currentReqOc EXCEPT ![i] = oc]
            /\ tarefas' = [tarefas EXCEPT ![i] = @ \cup
                 {IF connBrokers[i] = {} THEN NaCS("entrarSo", oc) ELSE Pedir(connBrokers[i])}]
    BY <1>3 DEF TentarDespachar
  <2>2. CASE k # i
    BY <1>1, <2>1, <2>2, TemQuieto DEF TypeOK
  <2>3. CASE k = i
    <3> DEFINE env(o) == [o EXCEPT !.prio = @ + 1]
    <3>1. ~ requesting[i] /\ fila[i] \subseteq Oc
      BY <1>3 DEF PodePedir, TypeOK
    <3>2. \A o \in fila[i] : env(o).id = o.id
      BY <3>1, IdFica
    <3>3. /\ fila'[k] = {env(o) : o \in fila[i] \ {oc}} /\ requesting'[k] /\ currentReqOc'[k] = oc
          /\ tarefas[k] \subseteq tarefas'[k]
      BY <2>1, <2>3 DEF TypeOK, AplicarAging
    <3> HIDE DEF env
    <3>4. NaFila(k, id) => Tem(k, id)'
      <4> SUFFICES ASSUME NEW o \in fila[k], o.id = id PROVE Tem(k, id)'
        BY DEF NaFila
      <4>1. CASE o = oc
        BY <3>3, <4>1 DEF Tem, NoRA
      <4>2. CASE o # oc
        <5>1. env(o) \in fila'[k] /\ env(o).id = id
          BY <2>3, <3>2, <3>3, <4>2
        <5> QED
          BY <5>1 DEF Tem, NaFila
      <4> QED
        BY <4>1, <4>2
    <3>5. NoRA(k, id) => NoRA(k, id)'
      BY <2>3, <3>1, <3>3 DEF NoRA
    <3>6. NaMissao(k, id) => NaMissao(k, id)'
      BY <1>1 DEF NaMissao
    <3> QED
      BY <3>4, <3>5, <3>6 DEF Tem
  <2> QED
    BY <2>2, <2>3
<1> QED
  BY <1>2, <1>3

LEMMA TemAoEnviar ==
    ASSUME TypeOK, NEW i \in Brokers, NEW t \in tarefas[i], EnviarPedidos(i, t),
           NEW k \in Brokers, NEW id, Tem(k, id)
    PROVE  Tem(k, id)'
<1>1. UNCHANGED <<fila, requesting, currentReqOc, pendentes, comandos>>
      /\ tarefas' = [tarefas EXCEPT ![i] = @ \ {t}] /\ t.op = "pedir"
  BY DEF EnviarPedidos, filaVars, missaoVars, raVars
<1>2. Entradas(k) \subseteq Entradas(k)'
  BY <1>1 DEF Entradas, TypeOK
<1> QED
  BY <1>1, <1>2, TemFica

LEMMA TemAoPedirem ==
    ASSUME TypeOK, NEW m \in rede, HandleRARequest(m), NEW k \in Brokers, NEW id, Tem(k, id)
    PROVE  Tem(k, id)'
<1> DEFINE i == m.para
<1>1. /\ fila' = fila \/ fila' = [fila EXCEPT ![i] = AplicarAging(@)]
      /\ UNCHANGED <<requesting, currentReqOc, tarefas, pendentes, comandos>>
  BY DEF HandleRARequest, missaoVars
<1>2. CASE fila'[k] = fila[k]
  BY <1>1, <1>2, TemQuieto
<1>3. CASE fila'[k] = AplicarAging(fila[k])
  <2> DEFINE env(o) == [o EXCEPT !.prio = @ + 1]
  <2>1. \A o \in fila[k] : env(o).id = o.id
    BY IdFica DEF TypeOK
  <2>2. \A o \in fila[k] : env(o) \in fila'[k]
    BY <1>3 DEF AplicarAging
  <2> HIDE DEF env
  <2>3. NaFila(k, id) => NaFila(k, id)'
    BY <2>1, <2>2 DEF NaFila
  <2>4. (NoRA(k, id) => NoRA(k, id)') /\ (NaMissao(k, id) => NaMissao(k, id)')
    BY <1>1 DEF NoRA, NaMissao
  <2> QED
    BY <2>3, <2>4 DEF Tem
<1> QED
  BY <1>1, <1>2, <1>3 DEF TypeOK

(* A request that is granted goes on in a goroutine, under its id. *)
LEMMA TemAoConceder ==
    ASSUME TypeOK, NEW i \in Brokers, NEW j \in Brokers, HandleRAOK(j, i) \/ MonitorarPeers(i, j),
           NEW k \in Brokers, NEW id, Tem(k, id)
    PROVE  Tem(k, id)'
<1>1. UNCHANGED <<fila, currentReqOc, pendentes, comandos>>
  BY DEF HandleRAOK, MonitorarPeers, filaVars, missaoVars
<1>0. PICK entra \in BOOLEAN : \E oc :
         /\ oc.id = currentReqOc[i].id
         /\ requesting' = [requesting EXCEPT ![i] = @ /\ ~ entra]
         /\ tarefas' = IF entra THEN [tarefas EXCEPT ![i] = @ \cup {NaCS("entrar", oc)}]
                       ELSE tarefas
  <2>1. CASE HandleRAOK(j, i)
    <3> DEFINE unanime == Cardinality(respostasOK[i] \cup {j}) >= Cardinality(connBrokers[i])
               entra == (requesting[i] /\ ~ inCS[i]) /\ unanime
    <3>1. /\ requesting' = [requesting EXCEPT ![i] = @ /\ ~ entra]
          /\ tarefas' = IF entra
                         THEN [tarefas EXCEPT ![i] = @ \cup {NaCS("entrar", currentReqOc[i])}]
                        ELSE tarefas
      BY <2>1 DEF HandleRAOK
    <3>2. entra \in BOOLEAN
      OBVIOUS
    <3> HIDE DEF entra
    <3> QED
      BY <3>1, <3>2
  <2>2. CASE MonitorarPeers(i, j)
    <3> DEFINE resta == connBrokers[i] \ {j}
               entra == requesting[i] /\ resta # {}
                        /\ Cardinality(respostasOK[i] \ {j}) >= Cardinality(resta)
               refeita == [id |-> currentReqOc[i].id, prio |-> currentReqRA[i].prio, paga |-> FALSE]
    <3>1. /\ requesting' = [requesting EXCEPT ![i] = @ /\ ~ entra]
          /\ tarefas' = IF entra THEN [tarefas EXCEPT ![i] = @ \cup {NaCS("entrar", refeita)}]
                        ELSE tarefas
      BY <2>2 DEF MonitorarPeers
    <3>2. entra \in BOOLEAN /\ refeita.id = currentReqOc[i].id
      OBVIOUS
    <3> HIDE DEF entra, refeita
    <3> QED
      BY <3>1, <3>2
  <2> QED
    BY <2>1, <2>2
<1>2. PICK oc :
         /\ oc.id = currentReqOc[i].id
         /\ requesting' = [requesting EXCEPT ![i] = @ /\ ~ entra]
         /\ tarefas' = IF entra THEN [tarefas EXCEPT ![i] = @ \cup {NaCS("entrar", oc)}]
                       ELSE tarefas
  BY <1>0
<1>3. CASE k = i /\ entra
  <2>1. tarefas'[k] = tarefas[k] \cup {NaCS("entrar", oc)}
    BY <1>2, <1>3 DEF TypeOK
  <2>2. NoRA(k, id) => NoRA(k, id)'
    <3>1. CASE currentReqOc[k].id = id
      <4>1. NaCS("entrar", oc) \in tarefas'[k] /\ NaCS("entrar", oc).op = "entrar"
            /\ NaCS("entrar", oc).oc.id = id
        BY <1>2, <1>3, <2>1, <3>1, CamposDaTarefa
      <4> QED
        BY <4>1 DEF NoRA
    <3>2. CASE currentReqOc[k].id # id
      BY <2>1, <3>2 DEF NoRA
    <3> QED
      BY <3>1, <3>2
  <2>3. (NaFila(k, id) => NaFila(k, id)') /\ (NaMissao(k, id) => NaMissao(k, id)')
    BY <1>1 DEF NaFila, NaMissao
  <2> QED
    BY <2>2, <2>3 DEF Tem
<1>4. CASE ~ (k = i /\ entra)
  <2>1. tarefas'[k] = tarefas[k] /\ requesting'[k] = requesting[k]
    BY <1>2, <1>4 DEF TypeOK
  <2> QED
    BY <1>1, <2>1, TemQuieto
<1> QED
  BY <1>3, <1>4

LEMMA TemAoEntrar ==
    ASSUME TypeOK, NEW i \in Brokers, Sobra(i), NEW t \in tarefas[i], EntrarCS(i, t),
           NEW k \in Brokers, NEW id, Tem(k, id)
    PROVE  Tem(k, id)'
<1> DEFINE nova == NaCS("despachar", t.oc)
<1>1. /\ t.op \in {"entrar", "entrarSo"}
      /\ requesting' = [requesting EXCEPT ![i] = FALSE]
      /\ tarefas' = [tarefas EXCEPT ![i] = (@ \ {t}) \cup {nova}]
      /\ UNCHANGED <<fila, currentReqOc, pendentes, comandos>>
  BY DEF EntrarCS, filaVars, missaoVars
<1>2. CASE k # i
  BY <1>1, <1>2, TemQuieto DEF TypeOK
<1>3. CASE k = i
  <2>1. tarefas'[k] = (tarefas[k] \ {t}) \cup {nova} /\ nova.op = "despachar" /\ nova.oc = t.oc
    BY <1>1, <1>3, CamposDaTarefa DEF TypeOK
  <2>2. requesting[k] => t.oc = currentReqOc[k]
    BY <1>1, <1>3, CamposDaTarefa DEF Sobra
  <2> HIDE DEF nova
  <2>3. t.oc.id = id => NoRA(k, id)'
    BY <2>1 DEF NoRA
  <2>4. NoRA(k, id) => NoRA(k, id)'
    <3>1. CASE requesting[k] /\ currentReqOc[k].id = id
      BY <2>2, <2>3, <3>1
    <3>2. ASSUME NEW u \in tarefas[k], u.op \in {"entrar", "entrarSo", "despachar"}, u.oc.id = id
          PROVE  NoRA(k, id)'
      BY <2>1, <2>3, <3>2 DEF NoRA
    <3> QED
      BY <3>1, <3>2 DEF NoRA
  <2>5. (NaFila(k, id) => NaFila(k, id)') /\ (NaMissao(k, id) => NaMissao(k, id)')
    BY <1>1 DEF NaFila, NaMissao
  <2> QED
    BY <2>4, <2>5 DEF Tem
<1> QED
  BY <1>2, <1>3

LEMMA TemAoSair ==
    ASSUME TypeOK, NEW i \in Brokers, Sobra(i), NEW t \in tarefas[i], SairCS(i, t),
           NEW k \in Brokers, NEW id, Tem(k, id)
    PROVE  Tem(k, id)'
<1>1. /\ t.op = "sair"
      /\ currentReqOc' = [currentReqOc EXCEPT ![i] = Nenhuma]
      /\ tarefas' = [tarefas EXCEPT ![i] = @ \ {t}]
      /\ UNCHANGED <<fila, requesting, pendentes, comandos>>
  BY DEF SairCS, missaoVars
<1>2. CASE k # i
  BY <1>1, <1>2, TemQuieto DEF TypeOK
<1>3. CASE k = i
  <2>1. ~ requesting[k]
    BY <1>1, <1>3, CamposDaTarefa DEF Sobra
  <2>2. NoRA(k, id) => NoRA(k, id)'
    BY <1>1, <1>3, <2>1 DEF NoRA, TypeOK
  <2>3. (NaFila(k, id) => NaFila(k, id)') /\ (NaMissao(k, id) => NaMissao(k, id)')
    BY <1>1 DEF NaFila, NaMissao
  <2> QED
    BY <2>2, <2>3 DEF Tem
<1> QED
  BY <1>2, <1>3

(* What goes back to the queue is there. *)
LEMMA NaFilaAoVoltar ==
    ASSUME TypeOK, NEW i \in Brokers, NEW ocs \in SUBSET Oc, fila' = Devolver(i, ocs), NEW id
    PROVE  /\ \A k \in Brokers : NaFila(k, id) => NaFila(k, id)'
           /\ \A o \in ocs : o.id = id => NaFila(i, id)'
<1> DEFINE volta(o) == [o EXCEPT !.prio = 3]
<1>1. \A o \in ocs : volta(o).id = o.id
  BY IdFica
<1>2. fila'[i] = fila[i] \cup {volta(o) : o \in ocs} /\ \A k \in Brokers \ {i} : fila'[k] = fila[k]
  BY DEF Devolver, TypeOK
<1> HIDE DEF volta
<1>3. \A k \in Brokers : fila[k] \subseteq fila'[k]
  BY <1>2
<1>4. \A o \in ocs : volta(o) \in fila'[i]
  BY <1>2
<1> QED
  BY <1>1, <1>3, <1>4 DEF NaFila

LEMMA TemAoDespachar ==
    ASSUME TypeOK, NEW i \in Brokers, NEW t \in tarefas[i], DespacharDrone(i, t),
           NEW k \in Brokers, NEW id, Tem(k, id)
    PROVE  Tem(k, id)'
<1>1. /\ t.op = "despachar"
      /\ tarefas' = [tarefas EXCEPT ![i] = (@ \ {t}) \cup {NaCS("sair", t.oc)}]
      /\ UNCHANGED <<requesting, currentReqOc>>
  BY DEF DespacharDrone, raVars
<1>2. t.oc \in Oc
  <2>1. t \in Tarefas
    BY DEF TypeOK
  <2> QED
    BY <1>1, <2>1, PedidosSaoOc DEF Tarefas
<1>3. /\ \A n \in Brokers : /\ pendentes[n] \subseteq pendentes'[n]
                            /\ comandos[n] \subseteq comandos'[n]
      /\ NaFila(k, id) => NaFila(k, id)'
      /\ t.oc.id = id => NaFila(i, id)' \/ NaMissao(i, id)'
  <2>1. CASE Livres(i) = {}
    <3>1. fila' = Devolver(i, {t.oc}) /\ UNCHANGED <<pendentes, comandos>>
      BY <2>1 DEF DespacharDrone, missaoVars
    <3> QED
      BY <1>2, <3>1, NaFilaAoVoltar
  <2>2. CASE Livres(i) # {}
    <3>1. PICK d \in Livres(i) :
             /\ IF t.oc.paga
                THEN /\ pendentes' = [pendentes EXCEPT ![i] = @ \cup {Missao(t.oc, d)}]
                     /\ UNCHANGED comandos
                ELSE /\ comandos' = [comandos EXCEPT ![i] = @ \cup {Comando(t.oc, d, "indo")}]
                     /\ UNCHANGED pendentes
             /\ UNCHANGED fila
      BY <2>2, Zenon DEF DespacharDrone
    <3>2. Missao(t.oc, d).oc = t.oc /\ Comando(t.oc, d, "indo").oc = t.oc
      BY DEF Missao, Comando
    <3>3. /\ \A n \in Brokers : /\ pendentes[n] \subseteq pendentes'[n]
                               /\ comandos[n] \subseteq comandos'[n]
          /\ Missao(t.oc, d) \in pendentes'[i] \/ Comando(t.oc, d, "indo") \in comandos'[i]
      <4> DEFINE nova == Missao(t.oc, d)
                 comando == Comando(t.oc, d, "indo")
      <4> HIDE DEF nova, comando
      <4>1. CASE t.oc.paga
        <5>1. pendentes' = [pendentes EXCEPT ![i] = @ \cup {nova}] /\ comandos' = comandos
          BY <3>1, <4>1 DEF nova
        <5> QED
          BY <5>1 DEF TypeOK, nova
      <4>2. CASE ~ t.oc.paga
        <5>1. comandos' = [comandos EXCEPT ![i] = @ \cup {comando}] /\ pendentes' = pendentes
          BY <3>1, <4>2 DEF comando
        <5> QED
          BY <5>1 DEF TypeOK, comando
      <4> QED
        BY <4>1, <4>2
    <3>4. t.oc.id = id => NaMissao(i, id)'
      BY <3>2, <3>3 DEF NaMissao
    <3>5. NaFila(k, id) => NaFila(k, id)'
      BY <3>1 DEF NaFila
    <3> QED
      BY <3>3, <3>4, <3>5
  <2> QED
    BY <2>1, <2>2
<1>4. NaMissao(k, id) => NaMissao(k, id)'
  BY <1>3 DEF NaMissao
<1>5. NoRA(k, id) => Tem(k, id)'
  <2>1. CASE requesting[k] /\ currentReqOc[k].id = id
    BY <1>1, <2>1 DEF Tem, NoRA
  <2>2. ASSUME NEW u \in tarefas[k], u.op \in {"entrar", "entrarSo", "despachar"}, u.oc.id = id
        PROVE  Tem(k, id)'
    <3>1. CASE k = i /\ u = t
      BY <1>3, <2>2, <3>1 DEF Tem
    <3>2. CASE ~ (k = i /\ u = t)
      <4>1. u \in tarefas'[k]
        BY <1>1, <3>2 DEF TypeOK
      <4> QED
        BY <2>2, <4>1 DEF Tem, NoRA
    <3> QED
      BY <3>1, <3>2
  <2> QED
    BY <2>1, <2>2 DEF NoRA
<1> QED
  BY <1>3, <1>4, <1>5 DEF Tem

(* A mission that ends goes back to the queue, to the drone, or flies. *)
LEMMA TemDasMissoes ==
    ASSUME TypeOK, NEW k \in Brokers, NEW id, Tem(k, id),
           NaFila(k, id) => NaFila(k, id)',
           UNCHANGED <<requesting, currentReqOc, tarefas>>,
           \A p \in pendentes[k] : p.oc.id = id => NaFila(k, id)' \/ NaMissao(k, id)',
           \A c \in comandos[k] : c.oc.id = id =>
               NaFila(k, id)' \/ NaMissao(k, id)' \/ \E d \in Drones : voo'[d] = id
    PROVE  Tem(k, id)' \/ \E d \in Drones : voo'[d] = id
<1>1. NoRA(k, id) => NoRA(k, id)'
  BY DEF NoRA
<1>2. NaMissao(k, id) => NaFila(k, id)' \/ NaMissao(k, id)' \/ \E d \in Drones : voo'[d] = id
  BY DEF NaMissao
<1> QED
  BY <1>1, <1>2 DEF Tem

LEMMA TemAoConfirmar ==
    ASSUME TypeOK, NEW i \in Brokers, NEW p \in pendentes[i], ConfirmarPagamento(i, p),
           NEW k \in Brokers, NEW id, Tem(k, id)
    PROVE  Tem(k, id)' \/ \E d \in Drones : voo'[d] = id
<1> DEFINE c == Comando(p.oc, p.drone, "indo")
<1>1. /\ pendentes' = [pendentes EXCEPT ![i] = @ \ {p}]
      /\ comandos' = [comandos EXCEPT ![i] = @ \cup {c}]
      /\ UNCHANGED <<fila, requesting, currentReqOc, tarefas>>
  BY DEF ConfirmarPagamento, filaVars, raVars
<1>2. c.oc = p.oc
  BY DEF Comando
<1> HIDE DEF c
<1>3. comandos[k] \subseteq comandos'[k]
  BY <1>1 DEF TypeOK
<1>4. \A q \in pendentes[k] : q \in pendentes'[k] \/ (q = p /\ c \in comandos'[k])
  BY <1>1 DEF TypeOK
<1>5. \A q \in pendentes[k] : q.oc.id = id => NaMissao(k, id)'
  BY <1>2, <1>4 DEF NaMissao
<1>6. \A q \in comandos[k] : q.oc.id = id => NaMissao(k, id)'
  BY <1>3 DEF NaMissao
<1>7. NaFila(k, id) => NaFila(k, id)'
  BY <1>1 DEF NaFila
<1> QED
  BY <1>1, <1>5, <1>6, <1>7, TemDasMissoes

LEMMA TemAoRecusar ==
    ASSUME TypeOK, NEW i \in Brokers,
           (\E p \in pendentes[i] : RecusarPagamento(i, p)) \/ MonitorarMempool(i),
           NEW k \in Brokers, NEW id, Tem(k, id)
    PROVE  Tem(k, id)' \/ \E d \in Drones : voo'[d] = id
<1>1. PICK velhas \in SUBSET pendentes[i] :
         /\ pendentes' = [pendentes EXCEPT ![i] = @ \ velhas]
         /\ fila' = Devolver(i, {p.oc : p \in velhas})
  <2>1. ASSUME NEW p \in pendentes[i], RecusarPagamento(i, p)
        PROVE  /\ pendentes' = [pendentes EXCEPT ![i] = @ \ {p}]
               /\ fila' = Devolver(i, {q.oc : q \in {p}})
    <3>1. {q.oc : q \in {p}} = {p.oc}
      OBVIOUS
    <3> QED
      BY <2>1, <3>1 DEF RecusarPagamento, Recolocar
  <2>2. CASE MonitorarMempool(i)
    BY <2>2, Zenon DEF MonitorarMempool
  <2> QED
    BY <2>1, <2>2
<1>2. UNCHANGED <<requesting, currentReqOc, tarefas, comandos>>
  BY DEF RecusarPagamento, MonitorarMempool, raVars
<1> DEFINE ocs == {p.oc : p \in velhas}
<1>3. ocs \in SUBSET Oc
  BY DEF TypeOK
<1>4. (NaFila(k, id) => NaFila(k, id)') /\ \A o \in ocs : o.id = id => NaFila(i, id)'
  BY <1>1, <1>3, NaFilaAoVoltar
<1>5. \A q \in pendentes[k] : q \in pendentes'[k] \/ (k = i /\ q \in velhas)
  BY <1>1 DEF TypeOK
<1>6. \A q \in pendentes[k] : q.oc.id = id => NaFila(k, id)' \/ NaMissao(k, id)'
  BY <1>4, <1>5 DEF NaMissao
<1>7. \A q \in comandos[k] : q.oc.id = id => NaMissao(k, id)'
  BY <1>2 DEF NaMissao
<1> QED
  BY <1>2, <1>4, <1>6, <1>7, TemDasMissoes

LEMMA TemDosComandos ==
    ASSUME TypeOK, NEW i \in Brokers, NEW c \in comandos[i],
           DecolarDrone(i, c) \/ FalharComando(i, c) \/ RecolocarRecusada(i, c),
           NEW k \in Brokers, NEW id, Tem(k, id)
    PROVE  Tem(k, id)' \/ \E d \in Drones : voo'[d] = id
<1>0. c.oc \in Oc /\ c.drone \in Drones
  BY DEF TypeOK
<1>1. UNCHANGED <<requesting, currentReqOc, tarefas, pendentes>>
  BY DEF DecolarDrone, FalharComando, RecolocarRecusada, raVars
<1>2. \A p \in pendentes[k] : p.oc.id = id => NaMissao(k, id)'
  BY <1>1 DEF NaMissao
<1>3. CASE DecolarDrone(i, c)
  <2> DEFINE r == [c EXCEPT !.fase = "recusado"]
  <2>1. r.oc = c.oc
    BY DEF TypeOK
  <2> HIDE DEF r
  <2>2. /\ \/ /\ comandos' = [comandos EXCEPT ![i] = @ \ {c}]
              /\ voo' = [voo EXCEPT ![c.drone] = c.oc.id]
           \/ comandos' = [comandos EXCEPT ![i] = (@ \ {c}) \cup {r}]
        /\ UNCHANGED fila
    BY <1>3 DEF DecolarDrone, filaVars, r
  <2>3. NaFila(k, id) => NaFila(k, id)'
    BY <2>2 DEF NaFila
  <2>4. CASE /\ comandos' = [comandos EXCEPT ![i] = @ \ {c}]
             /\ voo' = [voo EXCEPT ![c.drone] = c.oc.id]
    <3>1. voo'[c.drone] = c.oc.id
      BY <1>0, <2>4 DEF TypeOK
    <3>2. \A q \in comandos[k] : q # c => q \in comandos'[k]
      BY <2>4 DEF TypeOK
    <3>3. \A q \in comandos[k] : q.oc.id = id => NaMissao(k, id)' \/ \E d \in Drones : voo'[d] = id
      BY <1>0, <3>1, <3>2 DEF NaMissao
    <3> QED
      BY <1>1, <1>2, <2>3, <3>3, TemDasMissoes
  <2>5. CASE comandos' = [comandos EXCEPT ![i] = (@ \ {c}) \cup {r}]
    <3>1. comandos'[i] = (comandos[i] \ {c}) \cup {r} /\ (k # i => comandos'[k] = comandos[k])
      BY <2>5 DEF TypeOK
    <3>2. \A q \in comandos[k] : q.oc.id = id => NaMissao(k, id)'
      BY <2>1, <3>1 DEF NaMissao
    <3> QED
      BY <1>1, <1>2, <2>3, <3>2, TemDasMissoes
  <2> QED
    BY <2>2, <2>4, <2>5
<1>4. CASE FalharComando(i, c) \/ RecolocarRecusada(i, c)
  <2>1. /\ comandos' = [comandos EXCEPT ![i] = @ \ {c}]
        /\ fila' = Devolver(i, {c.oc})
    BY <1>4 DEF FalharComando, RecolocarRecusada, Recolocar
  <2>2. (NaFila(k, id) => NaFila(k, id)') /\ (c.oc.id = id => NaFila(i, id)')
    BY <1>0, <2>1, NaFilaAoVoltar
  <2>3. \A q \in comandos[k] : q \in comandos'[k] \/ (k = i /\ q = c)
    BY <2>1 DEF TypeOK
  <2>4. \A q \in comandos[k] : q.oc.id = id => NaFila(k, id)' \/ NaMissao(k, id)'
    BY <2>2, <2>3 DEF NaMissao
  <2> QED
    BY <1>1, <1>2, <2>2, <2>4, TemDasMissoes
<1> QED
  BY <1>3, <1>4

LEMMA TemAoOcorrer ==
    ASSUME TypeOK, NEW p \in novas, HandleOcorrencia(p), NEW id
    PROVE  /\ \A k \in Brokers : Tem(k, id) => Tem(k, id)'
           /\ (\E q \in novas : q.id = id) =>
                 (\E q \in novas' : q.id = id) \/ (\E k \in Brokers : Tem(k, id)')
<1> DEFINE o == [id |-> p.id, prio |-> p.prio, paga |-> p.paga]
<1>1. p.broker \in Brokers /\ o.id = p.id
  BY PedidosAssumption DEF TypeOK
<1>2. /\ novas' = novas \ {p} /\ fila' = [fila EXCEPT ![p.broker] = @ \cup {o}]
      /\ UNCHANGED <<requesting, currentReqOc, tarefas, pendentes, comandos>>
  BY DEF HandleOcorrencia, missaoVars, raVars
<1> HIDE DEF o
<1>3. o \in fila'[p.broker] /\ \A k \in Brokers : fila[k] \subseteq fila'[k]
  BY <1>1, <1>2 DEF TypeOK
<1>4. ASSUME NEW k \in Brokers, Tem(k, id) PROVE Tem(k, id)'
  <2>1. NaFila(k, id) => NaFila(k, id)'
    BY <1>3 DEF NaFila
  <2>2. (NoRA(k, id) => NoRA(k, id)') /\ (NaMissao(k, id) => NaMissao(k, id)')
    BY <1>2 DEF NoRA, NaMissao
  <2> QED
    BY <1>4, <2>1, <2>2 DEF Tem
<1>5. p.id = id => Tem(p.broker, id)'
  BY <1>1, <1>3 DEF Tem, NaFila
<1>6. \A q \in novas : q # p => q \in novas'
  BY <1>2
<1> QED
  BY <1>1, <1>4, <1>5, <1>6

(* The rest of the messages, the drones and the connections. *)
LEMMA TemDosAvisos ==
    ASSUME NEW k \in Brokers, NEW id, Tem(k, id),
           UNCHANGED <<fila, requesting, currentReqOc, tarefas, pendentes, comandos>>
    PROVE  Tem(k, id)'
BY TemQuieto

LEMMA TemAoPassar ==
    ASSUME TypeOK, \A i \in Brokers : Sobra(i), [Next]_vars, NEW k \in Brokers, NEW id, Tem(k, id)
    PROVE  Tem(k, id)' \/ \E d \in Drones : voo'[d] = id
<1>1. ASSUME NEW i \in Brokers, Agir(i)
      PROVE  Tem(k, id)' \/ \E d \in Drones : voo'[d] = id
  <2>1. ASSUME NEW m \in rede, HandleReserva(m) \/ HandleRegistro(m) \/ HandleStatusDrone(m)
        PROVE  Tem(k, id)'
    BY <2>1, TemDosAvisos DEF HandleReserva, HandleRegistro, HandleStatusDrone, filaVars, raVars
  <2> QED
    BY <1>1, <2>1, TemAoTentar, TemAoEnviar, TemAoEntrar, TemAoDespachar, TemAoSair,
       TemAoConfirmar, TemDosComandos, TemAoConceder, TemAoPedirem
    DEF Agir
<1>2. ASSUME NEW i \in Brokers, Falhar(i)
      PROVE  Tem(k, id)' \/ \E d \in Drones : voo'[d] = id
  <2>1. ASSUME NEW j \in Brokers, RemoverConexao(i, j) \/ ManterConexaoPeer(i, j)
        PROVE  Tem(k, id)'
    BY <2>1, TemDosAvisos DEF RemoverConexao, ManterConexaoPeer, filaVars, missaoVars, raVars
  <2> QED
    BY <1>2, <2>1, TemAoRecusar, TemDosComandos, TemAoConceder DEF Falhar
<1>3. CASE UNCHANGED vars
  BY <1>3, TemDosAvisos DEF vars, filaVars, missaoVars, raVars
<1>4. CASE Progresso
  <2>1. ASSUME NEW d \in Drones, ConcluirMissao(d) \/ Recarregar(d) PROVE Tem(k, id)'
    BY <2>1, TemDosAvisos DEF ConcluirMissao, Recarregar, filaVars, missaoVars, raVars
  <2> QED
    BY <1>1, <1>4, <2>1 DEF Progresso, Vivos
<1>5. CASE Ambiente
  <2>1. ASSUME NEW m \in rede, PerderMensagem(m) \/ PerderAviso(m) PROVE Tem(k, id)'
    BY <2>1, TemDosAvisos DEF PerderMensagem, PerderAviso, filaVars, missaoVars, raVars
  <2>2. ASSUME NEW i \in Brokers, NEW j \in Brokers, PerderOK(i, j) PROVE Tem(k, id)'
    BY <2>2, TemDosAvisos DEF PerderOK, filaVars, missaoVars, raVars
  <2> QED
    BY <1>2, <1>5, <2>1, <2>2, TemAoOcorrer DEF Ambiente, Vivos
<1> QED
  BY <1>3, <1>4, <1>5 DEF Next

(* Only the sensor's report takes an occurrence from those not reported.   *)
LEMMA NovasFicam ==
    ASSUME [Next]_vars, \A p \in novas : ~ HandleOcorrencia(p)
    PROVE  novas' = novas
<1>1. ASSUME NEW i \in Brokers, Agir(i)
      PROVE  novas' = novas
  <2>1. CASE TentarDespachar(i)
    BY <2>1 DEF TentarDespachar
  <2>2. ASSUME NEW t \in tarefas[i],
               EnviarPedidos(i, t) \/ EntrarCS(i, t) \/ DespacharDrone(i, t) \/ SairCS(i, t)
        PROVE  novas' = novas
    BY <2>2 DEF EnviarPedidos, EntrarCS, DespacharDrone, SairCS, filaVars
  <2>3. ASSUME NEW p \in pendentes[i], ConfirmarPagamento(i, p)
        PROVE  novas' = novas
    BY <2>3 DEF ConfirmarPagamento, filaVars
  <2>4. ASSUME NEW c \in comandos[i], DecolarDrone(i, c) \/ RecolocarRecusada(i, c)
        PROVE  novas' = novas
    BY <2>4 DEF DecolarDrone, RecolocarRecusada, filaVars
  <2>5. ASSUME NEW j \in Brokers, HandleRAOK(j, i)
        PROVE  novas' = novas
    BY <2>5 DEF HandleRAOK, filaVars
  <2>6. ASSUME NEW m \in rede,
               HandleRARequest(m) \/ HandleReserva(m) \/ HandleRegistro(m) \/ HandleStatusDrone(m)
        PROVE  novas' = novas
    BY <2>6 DEF HandleRARequest, HandleReserva, HandleRegistro, HandleStatusDrone, filaVars
  <2> QED
    BY <1>1, <2>1, <2>2, <2>3, <2>4, <2>5, <2>6 DEF Agir
<1>2. ASSUME NEW i \in Brokers, Falhar(i)
      PROVE  novas' = novas
  BY <1>2 DEF Falhar, RecusarPagamento, MonitorarMempool, FalharComando, RemoverConexao,
              MonitorarPeers, ManterConexaoPeer, filaVars
<1>3. CASE Progresso
  BY <1>1, <1>3 DEF Progresso, Vivos, ConcluirMissao, Recarregar, filaVars
<1>4. CASE Ambiente
  BY <1>2, <1>4 DEF Ambiente, Vivos, PerderMensagem, PerderAviso, PerderOK, filaVars
<1>5. CASE UNCHANGED vars
  BY <1>5 DEF vars, filaVars
<1> QED
  BY <1>3, <1>4, <1>5 DEF Next

LEMMA PresenteAoPassar ==
    ASSUME TypeOK, \A i \in Brokers : Sobra(i), [Next]_vars
    PROVE  NenhumaSome
<1> SUFFICES ASSUME NEW id \in Ids, Presente(id), ~ Presente(id)', \A d \in Drones : voo[d] # id
             PROVE  FALSE
  BY DEF NenhumaSome
<1>1. \A k \in Brokers : ~ Tem(k, id)
  <2> SUFFICES ASSUME NEW k \in Brokers, Tem(k, id) PROVE FALSE
    OBVIOUS
  <2>1. Tem(k, id)' \/ \E d \in Drones : voo'[d] = id
    BY TemAoPassar
  <2> QED
    BY <2>1 DEF Presente, Tem
<1>2. \E q \in novas : q.id = id
  BY <1>1 DEF Presente, Tem
<1>3. (\E q \in novas' : q.id = id) \/ (\E k \in Brokers : Tem(k, id)')
  <2>1. CASE \E p \in novas : HandleOcorrencia(p)
    BY <1>2, <2>1, TemAoOcorrer
  <2>2. CASE \A p \in novas : ~ HandleOcorrencia(p)
    BY <1>2, <2>2, NovasFicam
  <2> QED
    BY <2>1, <2>2
<1> QED
  BY <1>3 DEF Presente, Tem

(* The deferred.  An OK that is sent counts at a peer that is connected.   *)
LEMMA OKConta ==
    ASSUME TypeOK, NEW i \in Brokers, NEW alvos, NEW j \in alvos \cap connBrokers[i]
    PROVE  EnviarOKs(i, alvos)[i][j] > oks[i][j]
<1>1. j \in Brokers /\ oks[i][j] \in Nat
  BY DEF TypeOK
<1>2. EnviarOKs(i, alvos)[i][j] = oks[i][j] + 1
  BY <1>1 DEF EnviarOKs, TypeOK
<1> QED
  BY <1>1, <1>2

LEMMA AdiadosAoTentar ==
    ASSUME TypeOK, AdiadosEsperamAlguem, NEW i \in Brokers, TentarDespachar(i),
           "sobreposicao" \notin furos'
    PROVE  NenhumAdiadoEsquecido
<1>1. CASE ~ PodePedir(i)
  BY <1>1 DEF TentarDespachar, raVars, NenhumAdiadoEsquecido
<1>2. CASE PodePedir(i)
  <2>1. deferred' = [deferred EXCEPT ![i] = {}] /\ ~ Entrando(i)
    BY <1>2 DEF TentarDespachar
  <2>2. deferred[i] = {}
    BY <1>2, <2>1 DEF AdiadosEsperamAlguem, PodePedir
  <2>3. \A k \in Brokers : deferred'[k] = deferred[k]
    BY <2>1, <2>2 DEF TypeOK
  <2> QED
    BY <2>3 DEF NenhumAdiadoEsquecido
<1> QED
  BY <1>1, <1>2

LEMMA AdiadosAoPedirem ==
    ASSUME TypeOK, NEW m \in rede, m.para \in Brokers, HandleRARequest(m)
    PROVE  NenhumAdiadoEsquecido
<1> DEFINE i == m.para
<1>1. CASE DeveAdiar(i, m)
  <2>1. deferred' = [deferred EXCEPT ![i] = @ \cup {m.de}]
    BY <1>1 DEF HandleRARequest
  <2>2. \A k \in Brokers : deferred[k] \subseteq deferred'[k]
    BY <2>1 DEF TypeOK
  <2> QED
    BY <2>2 DEF NenhumAdiadoEsquecido
<1>2. CASE ~ DeveAdiar(i, m)
  <2>1. deferred' = [deferred EXCEPT ![i] = @ \ {m.de}] /\ oks' = EnviarOKs(i, {m.de})
    BY <1>2 DEF HandleRARequest
  <2> SUFFICES ASSUME NEW k \in Brokers, NEW j \in deferred[k] \cap connBrokers[k],
                      j \notin deferred'[k]
               PROVE  oks'[k][j] > oks[k][j]
    BY DEF NenhumAdiadoEsquecido
  <2>2. k = i /\ j = m.de
    BY <2>1 DEF TypeOK
  <2> QED
    BY <2>1, <2>2, OKConta
<1> QED
  BY <1>1, <1>2

(* entrarCS, at its exit, and the report of a drone. *)
LEMMA AdiadosAoLiberar ==
    ASSUME TypeOK, NEW i \in Brokers, deferred' = [deferred EXCEPT ![i] = {}],
           oks' = LiberarAdiados(i)
    PROVE  NenhumAdiadoEsquecido
<1> SUFFICES ASSUME NEW k \in Brokers, NEW j \in deferred[k] \cap connBrokers[k],
                    j \notin deferred'[k]
             PROVE  oks'[k][j] > oks[k][j]
  BY DEF NenhumAdiadoEsquecido
<1>1. k = i
  BY DEF TypeOK
<1> QED
  BY <1>1, OKConta DEF LiberarAdiados

LEMMA AdiadosAoRemover ==
    ASSUME TypeOK, NEW i \in Brokers, NEW j \in Brokers,
           RemoverConexao(i, j) \/ MonitorarPeers(i, j)
    PROVE  NenhumAdiadoEsquecido
<1>1. /\ connBrokers' = [connBrokers EXCEPT ![i] = @ \ {j}]
      /\ deferred' = deferred \/ deferred' = [deferred EXCEPT ![i] = @ \ {j}]
  BY DEF RemoverConexao, MonitorarPeers
<1> SUFFICES ASSUME NEW k \in Brokers, NEW q \in deferred[k] \cap connBrokers[k],
                    q \notin deferred'[k]
             PROVE  q \notin connBrokers'[k]
  BY DEF NenhumAdiadoEsquecido
<1>2. k = i /\ q = j
  <2>1. deferred' # deferred
    OBVIOUS
  <2> QED
    BY <1>1, <2>1 DEF TypeOK
<1> QED
  BY <1>1, <1>2 DEF TypeOK

LEMMA NenhumEsquecidoAoPassar ==
    ASSUME TypeOK, AdiadosEsperamAlguem, [Next]_vars, "sobreposicao" \notin furos'
    PROVE  NenhumAdiadoEsquecido
<1>1. CASE deferred' = deferred
  BY <1>1 DEF NenhumAdiadoEsquecido
<1>2. ASSUME NEW i \in Brokers, Agir(i)
      PROVE  NenhumAdiadoEsquecido
  <2>1. ASSUME NEW t \in tarefas[i],
               EnviarPedidos(i, t) \/ EntrarCS(i, t) \/ DespacharDrone(i, t) \/ SairCS(i, t)
        PROVE  NenhumAdiadoEsquecido
    BY <1>1, <2>1, AdiadosAoLiberar DEF EnviarPedidos, EntrarCS, DespacharDrone, SairCS, raVars
  <2>2. ASSUME NEW p \in pendentes[i], ConfirmarPagamento(i, p)
        PROVE  NenhumAdiadoEsquecido
    BY <1>1, <2>2 DEF ConfirmarPagamento, raVars
  <2>3. ASSUME NEW c \in comandos[i], DecolarDrone(i, c) \/ RecolocarRecusada(i, c)
        PROVE  NenhumAdiadoEsquecido
    BY <1>1, <2>3 DEF DecolarDrone, RecolocarRecusada, raVars
  <2>4. ASSUME NEW j \in Brokers, HandleRAOK(j, i)
        PROVE  NenhumAdiadoEsquecido
    BY <1>1, <2>4 DEF HandleRAOK
  <2>5. ASSUME NEW m \in rede, m.para = i, HandleReserva(m) \/ HandleRegistro(m)
        PROVE  NenhumAdiadoEsquecido
    BY <1>1, <2>5 DEF HandleReserva, HandleRegistro, raVars
  <2>6. ASSUME NEW m \in rede, m.para = i, HandleStatusDrone(m)
        PROVE  NenhumAdiadoEsquecido
    BY <2>6, AdiadosAoLiberar DEF HandleStatusDrone
  <2> QED
    BY <1>2, <2>1, <2>2, <2>3, <2>4, <2>5, <2>6, AdiadosAoTentar, AdiadosAoPedirem DEF Agir
<1>3. ASSUME NEW i \in Brokers, Falhar(i)
      PROVE  NenhumAdiadoEsquecido
  <2>1. ASSUME NEW p \in pendentes[i], RecusarPagamento(i, p)
        PROVE  NenhumAdiadoEsquecido
    BY <1>1, <2>1 DEF RecusarPagamento, raVars
  <2>2. CASE MonitorarMempool(i)
    BY <1>1, <2>2 DEF MonitorarMempool, raVars
  <2>3. ASSUME NEW c \in comandos[i], FalharComando(i, c)
        PROVE  NenhumAdiadoEsquecido
    BY <1>1, <2>3 DEF FalharComando, raVars
  <2>4. ASSUME NEW j \in Brokers, ManterConexaoPeer(i, j)
        PROVE  NenhumAdiadoEsquecido
    BY <1>1, <2>4 DEF ManterConexaoPeer, raVars
  <2> QED
    BY <1>3, <2>1, <2>2, <2>3, <2>4, AdiadosAoRemover DEF Falhar
<1>4. CASE Progresso
  BY <1>1, <1>2, <1>4 DEF Progresso, Vivos, ConcluirMissao, Recarregar, raVars
<1>5. CASE Ambiente
  BY <1>1, <1>3, <1>5 DEF Ambiente, Vivos, HandleOcorrencia, PerderMensagem, PerderAviso, PerderOK,
     raVars
<1>6. CASE UNCHANGED vars
  BY <1>1, <1>6 DEF vars, raVars
<1> QED
  BY <1>4, <1>5, <1>6 DEF Next

(* For any brokers, drones and occurrences, and with failures and lost     *)
(* connections: as long as no broker asks again over the remains of a      *)
(* request, no step takes an occurrence out of the system but the end of   *)
(* its flight, and no deferred request leaves the set of a broker that is  *)
(* still connected to it without an OK (tentarDespachar, entrarCS,         *)
(* despacharDrone, recolocarOcorrenciaNaFila, monitorarMempool).           *)
THEOREM SoSobreposicaoSemprePerde == Spec => SoSobreposicaoPerde
<1> DEFINE A == "sobreposicao" \notin furos' => NenhumaSome /\ NenhumAdiadoEsquecido
<1>1. Init => SemSobra
  BY DEF Init, SemSobra, Sobra
<1>2. TypeOK /\ SemSobra /\ [Next]_vars => SemSobra'
  BY SobraSempre
<1>3. TypeOK /\ SemSobra /\ AdiadosEsperamAlguem /\ [Next]_vars => A
  <2> SUFFICES ASSUME TypeOK, SemSobra, AdiadosEsperamAlguem, [Next]_vars,
                      "sobreposicao" \notin furos'
               PROVE  NenhumaSome /\ NenhumAdiadoEsquecido
    OBVIOUS
  <2>1. \A i \in Brokers : Sobra(i)
    BY FurosFicam DEF SemSobra
  <2> QED
    BY <2>1, PresenteAoPassar, NenhumEsquecidoAoPassar
<1> QED
  BY <1>1, <1>2, <1>3, TipoSempre, AdiadosSempreEsperamAlguem, PTL DEF Spec, SoSobreposicaoPerde

-----------------------------------------------------------------------------
(* The nil.  What a broker asks for, queues or enters with is an           *)
(* occurrence, and an occurrence has a priority.                           *)
Cheio(i) ==
    /\ requesting[i] => currentReqOc[i].prio > 0 /\ currentReqRA[i].prio > 0
    /\ \A o \in fila[i] : o.prio > 0
    /\ \A t \in tarefas[i] : t.op # "pedir" => t.oc.prio > 0

LEMMA CheioFica ==
    ASSUME NEW k, Cheio(k),
           requesting'[k] => /\ requesting[k] /\ currentReqOc'[k] = currentReqOc[k]
                             /\ currentReqRA'[k] = currentReqRA[k],
           \A o \in fila'[k] : o \in fila[k] \/ o.prio > 0,
           \A t \in tarefas'[k] : t \in tarefas[k] \/ t.op = "pedir" \/ t.oc.prio > 0
    PROVE  Cheio(k)'
BY DEF Cheio

LEMMA CheioQuieto ==
    ASSUME NEW k, Cheio(k), UNCHANGED <<requesting, currentReqOc, currentReqRA, fila, tarefas>>
    PROVE  Cheio(k)'
BY DEF Cheio

(* What goes back to the queue is critical. *)
LEMMA CheioAoVoltar ==
    ASSUME TypeOK, NEW i \in Brokers, NEW ocs \in SUBSET Oc, fila' = Devolver(i, ocs),
           NEW k \in Brokers
    PROVE  \A o \in fila'[k] : o \in fila[k] \/ o.prio > 0
<1> DEFINE volta(o) == [o EXCEPT !.prio = 3]
<1>1. \A o \in ocs : volta(o).prio = 3
  BY DEF Oc
<1>2. fila'[i] = fila[i] \cup {volta(o) : o \in ocs} /\ (k # i => fila'[k] = fila[k])
  BY DEF Devolver, TypeOK
<1> HIDE DEF volta
<1> QED
  BY <1>1, <1>2

LEMMA CheioAoOcorrer ==
    ASSUME TypeOK, NEW p \in novas, HandleOcorrencia(p), NEW k \in Brokers, Cheio(k)
    PROVE  Cheio(k)'
<1> DEFINE o == [id |-> p.id, prio |-> p.prio, paga |-> p.paga]
<1>1. p.broker \in Brokers /\ o.prio > 0
  BY PedidosAssumption DEF TypeOK
<1>2. fila' = [fila EXCEPT ![p.broker] = @ \cup {o}]
      /\ UNCHANGED <<requesting, currentReqOc, currentReqRA, tarefas>>
  BY DEF HandleOcorrencia, raVars
<1> HIDE DEF o
<1>3. \A q \in fila'[k] : q \in fila[k] \/ q.prio > 0
  BY <1>1, <1>2 DEF TypeOK
<1> QED
  BY <1>2, <1>3, CheioFica

(* A queue that ages has nothing less urgent than before. *)
LEMMA CheioEnvelhece ==
    ASSUME NEW q \in SUBSET Oc, \A o \in q : o.prio > 0
    PROVE  \A o \in AplicarAging(q) : o.prio > 0
BY DEF AplicarAging, Oc

LEMMA CheioAoTentar ==
    ASSUME TypeOK, NEW i \in Brokers, TentarDespachar(i), NEW k \in Brokers, Cheio(k)
    PROVE  Cheio(k)'
<1>1. CASE ~ PodePedir(i)
  BY <1>1, CheioQuieto DEF TentarDespachar, raVars
<1>2. CASE PodePedir(i)
  <2>1. PICK oc \in MaisUrgentes(fila[i]), salto \in 1..MaxSalto :
            /\ fila' = [fila EXCEPT ![i] = AplicarAging(@ \ {oc})]
            /\ requesting' = [requesting EXCEPT ![i] = TRUE]
            /\ currentReqOc' = [currentReqOc EXCEPT ![i] = oc]
            /\ currentReqRA' = [currentReqRA EXCEPT ![i] =
                                  [prio |-> oc.prio, relogio |-> relogioLocal[i] + salto]]
            /\ tarefas' = [tarefas EXCEPT ![i] = @ \cup
                 {IF connBrokers[i] = {} THEN NaCS("entrarSo", oc) ELSE Pedir(connBrokers[i])}]
    BY <1>2 DEF TentarDespachar
  <2>2. CASE k # i
    BY <2>1, <2>2, CheioFica DEF TypeOK
  <2>3. CASE k = i
    <3>1. oc \in fila[i] /\ oc.prio > 0 /\ fila[i] \in SUBSET Oc
      BY <2>3 DEF MaisUrgentes, Cheio, TypeOK
    <3>2. fila'[k] = AplicarAging(fila[i] \ {oc})
      BY <2>1, <2>3 DEF TypeOK
    <3>3. \A o \in fila'[k] : o.prio > 0
      BY <2>3, <3>1, <3>2, CheioEnvelhece DEF Cheio
    <3>4. currentReqOc'[k] = oc /\ currentReqRA'[k].prio = oc.prio
      BY <2>1, <2>3 DEF TypeOK
    <3>5. \A t \in tarefas'[k] : t \in tarefas[k] \/ t.op = "pedir" \/ t.oc.prio > 0
      <4>1. NaCS("entrarSo", oc).oc = oc /\ Pedir(connBrokers[i]).op = "pedir"
        BY CamposDaTarefa DEF Pedir
      <4>2. tarefas'[k] \subseteq tarefas[k] \cup {NaCS("entrarSo", oc), Pedir(connBrokers[i])}
        BY <2>1, <2>3 DEF TypeOK
      <4> QED
        BY <3>1, <4>1, <4>2
    <3> QED
      BY <3>1, <3>3, <3>4, <3>5 DEF Cheio
  <2> QED
    BY <2>2, <2>3
<1> QED
  BY <1>1, <1>2

LEMMA CheioAoPedirem ==
    ASSUME TypeOK, NEW m \in rede, m.para \in Brokers, HandleRARequest(m),
           NEW k \in Brokers, Cheio(k)
    PROVE  Cheio(k)'
<1>1. /\ fila' = fila \/ fila' = [fila EXCEPT ![m.para] = AplicarAging(@)]
      /\ UNCHANGED <<requesting, currentReqOc, currentReqRA, tarefas>>
  BY DEF HandleRARequest
<1>2. fila'[k] = fila[k] \/ fila'[k] = AplicarAging(fila[k])
  BY <1>1 DEF TypeOK
<1>3. \A o \in AplicarAging(fila[k]) : o.prio > 0
  BY CheioEnvelhece DEF Cheio, TypeOK
<1>4. \A o \in fila'[k] : o \in fila[k] \/ o.prio > 0
  BY <1>2, <1>3
<1> QED
  BY <1>1, <1>4, CheioFica

(* handleRAOK and monitorarPeers, which rebuilds the occurrence with the   *)
(* priority of the request.                                                *)
LEMMA CheioAoConceder ==
    ASSUME TypeOK, NEW i \in Brokers, NEW j \in Brokers, HandleRAOK(j, i) \/ MonitorarPeers(i, j),
           NEW k \in Brokers, Cheio(k)
    PROVE  Cheio(k)'
<1>1. UNCHANGED <<fila, currentReqOc, currentReqRA>>
  BY DEF HandleRAOK, MonitorarPeers, filaVars
<1>0. PICK entra \in BOOLEAN : \E oc :
         /\ entra => requesting[i] /\ oc.prio \in {currentReqOc[i].prio, currentReqRA[i].prio}
         /\ requesting' = [requesting EXCEPT ![i] = @ /\ ~ entra]
         /\ tarefas' = IF entra THEN [tarefas EXCEPT ![i] = @ \cup {NaCS("entrar", oc)}]
                       ELSE tarefas
  <2>1. CASE HandleRAOK(j, i)
    <3> DEFINE unanime == Cardinality(respostasOK[i] \cup {j}) >= Cardinality(connBrokers[i])
               entra == (requesting[i] /\ ~ inCS[i]) /\ unanime
    <3>1. /\ requesting' = [requesting EXCEPT ![i] = @ /\ ~ entra]
          /\ tarefas' = IF entra
                        THEN [tarefas EXCEPT ![i] = @ \cup {NaCS("entrar", currentReqOc[i])}]
                        ELSE tarefas
      BY <2>1 DEF HandleRAOK
    <3>2. entra \in BOOLEAN /\ (entra => requesting[i])
      OBVIOUS
    <3> HIDE DEF entra
    <3> QED
      BY <3>1, <3>2
  <2>2. CASE MonitorarPeers(i, j)
    <3> DEFINE resta == connBrokers[i] \ {j}
               entra == requesting[i] /\ resta # {}
                        /\ Cardinality(respostasOK[i] \ {j}) >= Cardinality(resta)
               refeita == [id |-> currentReqOc[i].id, prio |-> currentReqRA[i].prio, paga |-> FALSE]
    <3>1. /\ requesting' = [requesting EXCEPT ![i] = @ /\ ~ entra]
          /\ tarefas' = IF entra THEN [tarefas EXCEPT ![i] = @ \cup {NaCS("entrar", refeita)}]
                        ELSE tarefas
      BY <2>2 DEF MonitorarPeers
    <3>2. entra \in BOOLEAN /\ (entra => requesting[i]) /\ refeita.prio = currentReqRA[i].prio
      OBVIOUS
    <3> HIDE DEF entra, refeita
    <3> QED
      BY <3>1, <3>2
  <2> QED
    BY <2>1, <2>2
<1>2. PICK oc :
         /\ entra => requesting[i] /\ oc.prio \in {currentReqOc[i].prio, currentReqRA[i].prio}
         /\ requesting' = [requesting EXCEPT ![i] = @ /\ ~ entra]
         /\ tarefas' = IF entra THEN [tarefas EXCEPT ![i] = @ \cup {NaCS("entrar", oc)}]
                       ELSE tarefas
  BY <1>0
<1>3. CASE k = i /\ entra
  <2>1. tarefas'[k] = tarefas[k] \cup {NaCS("entrar", oc)} /\ ~ requesting'[k]
    BY <1>2, <1>3 DEF TypeOK
  <2>2. oc.prio > 0
    BY <1>2, <1>3 DEF Cheio
  <2>3. \A t \in tarefas'[k] : t \in tarefas[k] \/ t.oc.prio > 0
    BY <2>1, <2>2, CamposDaTarefa
  <2> QED
    BY <1>1, <2>1, <2>3, CheioFica
<1>4. CASE ~ (k = i /\ entra)
  <2>1. tarefas'[k] = tarefas[k] /\ (requesting'[k] => requesting[k])
    BY <1>2, <1>4 DEF TypeOK
  <2> QED
    BY <1>1, <2>1, CheioFica
<1> QED
  BY <1>3, <1>4

LEMMA CheioNaCS ==
    ASSUME TypeOK, NEW i \in Brokers, NEW t \in tarefas[i], Sobra(i),
           EnviarPedidos(i, t) \/ EntrarCS(i, t) \/ DespacharDrone(i, t) \/ SairCS(i, t),
           NEW k \in Brokers, Cheio(k)
    PROVE  Cheio(k)'
<1>1. CASE EnviarPedidos(i, t)
  BY <1>1, CheioFica DEF EnviarPedidos, filaVars, raVars, TypeOK
<1>2. CASE EntrarCS(i, t)
  <2> DEFINE nova == NaCS("despachar", t.oc)
  <2>1. /\ t.op # "pedir" /\ requesting' = [requesting EXCEPT ![i] = FALSE]
        /\ tarefas' = [tarefas EXCEPT ![i] = (@ \ {t}) \cup {nova}]
        /\ UNCHANGED <<fila, currentReqOc, currentReqRA>> /\ nova.oc = t.oc
    BY <1>2, CamposDaTarefa DEF EntrarCS, filaVars
  <2> HIDE DEF nova
  <2>2. requesting'[k] => requesting[k]
    BY <2>1 DEF TypeOK
  <2>3. \A u \in tarefas'[k] : u \in tarefas[k] \/ (k = i /\ u = nova)
    BY <2>1 DEF TypeOK
  <2>4. k = i => t.oc.prio > 0
    BY <2>1 DEF Cheio
  <2> QED
    BY <2>1, <2>2, <2>3, <2>4, CheioFica
<1>3. CASE DespacharDrone(i, t)
  <2> DEFINE nova == NaCS("sair", t.oc)
  <2>1. /\ t.op = "despachar" /\ tarefas' = [tarefas EXCEPT ![i] = (@ \ {t}) \cup {nova}]
        /\ UNCHANGED <<requesting, currentReqOc, currentReqRA>> /\ nova.oc = t.oc
    BY <1>3, CamposDaTarefa DEF DespacharDrone, raVars
  <2>2. t.oc \in Oc
    <3>1. t \in Tarefas
      BY DEF TypeOK
    <3> QED
      BY <2>1, <3>1, PedidosSaoOc DEF Tarefas
  <2>3. \A o \in fila'[k] : o \in fila[k] \/ o.prio > 0
    <3>1. CASE Livres(i) = {}
      <4>1. fila' = Devolver(i, {t.oc}) /\ {t.oc} \in SUBSET Oc
        BY <1>3, <2>2, <3>1 DEF DespacharDrone
      <4> QED
        BY <4>1, CheioAoVoltar
    <3>2. CASE Livres(i) # {}
      <4>1. fila' = fila
        BY <1>3, <3>2 DEF DespacharDrone
      <4> QED
        BY <4>1
    <3> QED
      BY <3>1, <3>2
  <2> HIDE DEF nova
  <2>4. \A u \in tarefas'[k] : u \in tarefas[k] \/ (k = i /\ u = nova)
    BY <2>1 DEF TypeOK
  <2>5. k = i => t.oc.prio > 0
    BY <2>1 DEF Cheio
  <2> QED
    BY <2>1, <2>3, <2>4, <2>5, CheioFica
<1>4. CASE SairCS(i, t)
  <2>1. /\ t.op = "sair" /\ tarefas' = [tarefas EXCEPT ![i] = @ \ {t}]
        /\ currentReqOc' = [currentReqOc EXCEPT ![i] = Nenhuma]
        /\ UNCHANGED <<requesting, currentReqRA, fila>>
    BY <1>4 DEF SairCS
  <2>2. ~ requesting[i]
    BY <2>1, CamposDaTarefa DEF Sobra
  <2>3. tarefas'[k] \subseteq tarefas[k] /\ (k # i => currentReqOc'[k] = currentReqOc[k])
    BY <2>1 DEF TypeOK
  <2> QED
    BY <2>1, <2>2, <2>3, CheioFica
<1> QED
  BY <1>1, <1>2, <1>3, <1>4

(* The missions give occurrences back, and nothing else. *)
LEMMA CheioDasMissoes ==
    ASSUME TypeOK, NEW i \in Brokers,
           \/ \E p \in pendentes[i] : ConfirmarPagamento(i, p) \/ RecusarPagamento(i, p)
           \/ \E c \in comandos[i] : DecolarDrone(i, c) \/ RecolocarRecusada(i, c)
                                     \/ FalharComando(i, c)
           \/ MonitorarMempool(i),
           NEW k \in Brokers, Cheio(k)
    PROVE  Cheio(k)'
<1>1. UNCHANGED <<requesting, currentReqOc, currentReqRA, tarefas>>
  BY DEF ConfirmarPagamento, RecusarPagamento, DecolarDrone, RecolocarRecusada, FalharComando,
     MonitorarMempool, raVars
<1>2. fila' = fila \/ \E ocs \in SUBSET Oc : fila' = Devolver(i, ocs)
  <2>1. ASSUME NEW p \in pendentes[i], ConfirmarPagamento(i, p) PROVE fila' = fila
    BY <2>1 DEF ConfirmarPagamento, filaVars
  <2>2. ASSUME NEW p \in pendentes[i], RecusarPagamento(i, p)
        PROVE  {p.oc} \in SUBSET Oc /\ fila' = Devolver(i, {p.oc})
    BY <2>2 DEF RecusarPagamento, Recolocar, TypeOK
  <2>3. ASSUME NEW c \in comandos[i], DecolarDrone(i, c) PROVE fila' = fila
    BY <2>3 DEF DecolarDrone, filaVars
  <2>4. ASSUME NEW c \in comandos[i], RecolocarRecusada(i, c) \/ FalharComando(i, c)
        PROVE  {c.oc} \in SUBSET Oc /\ fila' = Devolver(i, {c.oc})
    BY <2>4 DEF RecolocarRecusada, FalharComando, Recolocar, TypeOK
  <2>5. ASSUME MonitorarMempool(i)
        PROVE  \E ocs \in SUBSET Oc : fila' = Devolver(i, ocs)
    <3>1. PICK velhas \in SUBSET pendentes[i] : fila' = Devolver(i, {p.oc : p \in velhas})
      BY <2>5, Zenon DEF MonitorarMempool
    <3>2. {p.oc : p \in velhas} \in SUBSET Oc
      BY DEF TypeOK
    <3> QED
      BY <3>1, <3>2
  <2> QED
    BY <2>1, <2>2, <2>3, <2>4, <2>5
<1>3. \A o \in fila'[k] : o \in fila[k] \/ o.prio > 0
  BY <1>2, CheioAoVoltar
<1> QED
  BY <1>1, <1>3, CheioFica

LEMMA CheioAoPassar ==
    ASSUME TypeOK, \A i \in Brokers : Sobra(i), [Next]_vars, NEW k \in Brokers, Cheio(k)
    PROVE  Cheio(k)'
<1>1. ASSUME NEW i \in Brokers, Agir(i) PROVE Cheio(k)'
  <2>1. ASSUME NEW m \in rede, HandleReserva(m) \/ HandleRegistro(m) \/ HandleStatusDrone(m)
        PROVE  Cheio(k)'
    BY <2>1, CheioQuieto DEF HandleReserva, HandleRegistro, HandleStatusDrone, filaVars, raVars
  <2> QED
    BY <1>1, <2>1, CheioAoTentar, CheioNaCS, CheioDasMissoes, CheioAoConceder, CheioAoPedirem
       DEF Agir
<1>2. ASSUME NEW i \in Brokers, Falhar(i) PROVE Cheio(k)'
  <2>1. ASSUME NEW j \in Brokers, RemoverConexao(i, j) \/ ManterConexaoPeer(i, j) PROVE Cheio(k)'
    BY <2>1, CheioQuieto DEF RemoverConexao, ManterConexaoPeer, filaVars, raVars
  <2> QED
    BY <1>2, <2>1, CheioDasMissoes, CheioAoConceder DEF Falhar
<1>3. CASE Progresso
  <2>1. ASSUME NEW d \in Drones, ConcluirMissao(d) \/ Recarregar(d) PROVE Cheio(k)'
    BY <2>1, CheioQuieto DEF ConcluirMissao, Recarregar, filaVars, raVars
  <2> QED
    BY <1>1, <1>3, <2>1 DEF Progresso, Vivos
<1>4. CASE Ambiente
  <2>1. ASSUME NEW m \in rede, PerderMensagem(m) \/ PerderAviso(m) PROVE Cheio(k)'
    BY <2>1, CheioQuieto DEF PerderMensagem, PerderAviso, filaVars, raVars
  <2>2. ASSUME NEW i \in Brokers, NEW j \in Brokers, PerderOK(i, j) PROVE Cheio(k)'
    BY <2>2, CheioQuieto DEF PerderOK, filaVars, raVars
  <2> QED
    BY <1>2, <1>4, <2>1, <2>2, CheioAoOcorrer DEF Ambiente, Vivos
<1>5. CASE UNCHANGED vars
  BY <1>5, CheioQuieto DEF vars, filaVars, raVars
<1> QED
  BY <1>3, <1>4, <1>5 DEF Next

(* handleRAOK reads currentReqOc and entrarCS clears it: for any brokers   *)
(* and failures, despacharDrone is given an occurrence and never the nil,  *)
(* as long as no broker asks again over the remains of a request.  So the  *)
(* panic needs the overlap; late answers, removed peers and rebuilt        *)
(* occurrences do not reach it.                                            *)
THEOREM NilSempreComSobreposicao == Spec => []NilSoComSobreposicao
<1> DEFINE Cheios == "sobreposicao" \notin furos => \A i \in Brokers : Cheio(i)
<1>1. Init => SemSobra /\ Cheios
  BY DEF Init, SemSobra, Sobra, Cheio
<1>2. TypeOK /\ SemSobra /\ [Next]_vars => SemSobra'
  BY SobraSempre
<1>3. TypeOK /\ SemSobra /\ Cheios /\ [Next]_vars => Cheios'
  <2> SUFFICES ASSUME TypeOK, SemSobra, Cheios, [Next]_vars, "sobreposicao" \notin furos',
                      NEW k \in Brokers
               PROVE  Cheio(k)'
    OBVIOUS
  <2>1. Cheio(k) /\ \A i \in Brokers : Sobra(i)
    BY FurosFicam DEF SemSobra
  <2> QED
    BY <2>1, CheioAoPassar
<1>4. Cheios => NilSoComSobreposicao
  <2>1. NaCS("despachar", Nenhuma).op = "despachar"
        /\ NaCS("despachar", Nenhuma).oc.prio = 0
    BY CamposDaTarefa DEF Nenhuma
  <2>2. \A i \in Brokers : Cheio(i) => NaCS("despachar", Nenhuma) \notin tarefas[i]
    <3> SUFFICES ASSUME NEW i \in Brokers, Cheio(i), NaCS("despachar", Nenhuma) \in tarefas[i]
                 PROVE  FALSE
      OBVIOUS
    <3>1. NaCS("despachar", Nenhuma).oc.prio > 0
      BY <2>1 DEF Cheio
    <3> QED
      BY <2>1, <3>1
  <2> QED
    BY <2>2 DEF NilSoComSobreposicao, Vivos
<1> HIDE DEF Cheios
<1> QED
  BY <1>1, <1>2, <1>3, <1>4, TipoSempre, PTL DEF Spec

=============================================================================
