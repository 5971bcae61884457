-------------------------------- MODULE Drone -------------------------------
(***************************************************************************)
(* One drone (src/drone/drone.go): its status and battery, the goroutines  *)
(* that answer commands, fly, report, recharge and register, and what each *)
(* broker believes of it.  Drones share nothing, so one stands for all.    *)
(*                                                                         *)
(* A broker commands a drone it believes to be available; queue, exclusion *)
(* and payment are Despacho's.                                             *)
(***************************************************************************)
EXTENDS Integers, FiniteSets

CONSTANTS
    Brokers,
    Consumos,        \* of the 8 to 19 per cent that a flight takes
    MaxFalhas        \* bound: commands and news lost, and restarts of the drone

ASSUME DroneAssumption ==
    /\ Consumos \subseteq 8..19
    /\ MaxFalhas \in Nat

Cheia == 100
Minimo == 20

Passos ==
    {"voar", "pousar", "reportar", "reportar_e_docar", "recarregar", "reapresentar", "registrar"}

VARIABLES
    status,       \* Drone.Status
    bateria,      \* Drone.Bateria
    rotinas,      \* goroutines of the drone, by what they do next
    comandos,     \* commands a broker waits for the answer of
    avisos,       \* registrations, reports and reservations on their way
    crenca,       \* drones[id].Status at each broker
    retido,       \* history: the broker was refused, or told of a reservation,
                  \* since it last had news
    falhas        \* lost commands and news, and restarts so far

droneVars == <<status, bateria, rotinas>>
vars == <<droneVars, comandos, avisos, crenca, retido, falhas>>

(* bat is the local batAtual of executarMissao, from the flight to the     *)
(* landing.                                                                *)
Rotina(passo, bat) == [passo |-> passo, bat |-> bat]
Comando(i, fase) == [de |-> i, fase |-> fase]
Aviso(tipo, i) == [tipo |-> tipo, para |-> i]

TypeOK ==
    /\ status \in {"disponivel", "em_missao", "recarregando"}
    /\ bateria \in 0..Cheia
    /\ rotinas \subseteq [passo : Passos, bat : 0..Cheia]
    /\ comandos \subseteq [de : Brokers, fase : {"indo", "recusado"}]
    /\ avisos \subseteq [tipo : {"HANDSHAKE", "STATUS_DRONE", "RESERVA_DRONE"}, para : Brokers]
    /\ crenca \in [Brokers -> {"desconhecido", "disponivel", "em_missao", "indisponivel"}]
    /\ retido \in [Brokers -> BOOLEAN]
    /\ falhas \in 0..MaxFalhas

(* main: the drone listens, and will register with every broker. *)
Ligado ==
    /\ status' = "disponivel"
    /\ bateria' = Cheia
    /\ rotinas' = {Rotina("registrar", 0)}

Init ==
    /\ status = "disponivel"
    /\ bateria = Cheia
    /\ rotinas = {Rotina("registrar", 0)}
    /\ comandos = {}
    /\ avisos = {}
    /\ crenca = [i \in Brokers |-> "desconhecido"]
    /\ retido = [i \in Brokers |-> FALSE]
    /\ falhas = 0

-----------------------------------------------------------------------------
(***************************************************************************)
(* Commands                                                                *)
(***************************************************************************)

(* despacharDrone, which reserves the drone at the peers, and              *)
(* enviarComandoFisicoDrone, for an occurrence that needs no payment. News *)
(* that comes before a refusal lets the broker command again: the bound is *)
(* one command on its way and one refusal for each broker.                 *)
Comandar(i) ==
    /\ crenca[i] = "disponivel"
    /\ Comando(i, "indo") \notin comandos
    /\ crenca' = [crenca EXCEPT ![i] = "em_missao"]
    /\ avisos' = avisos \cup {Aviso("RESERVA_DRONE", j) : j \in Brokers \ {i}}
    /\ comandos' = comandos \cup {Comando(i, "indo")}
    /\ UNCHANGED <<droneVars, retido, falhas>>

AceitaForaDeVoo == status # "em_missao"      \* a mutant of Aceita

Aceita == status = "disponivel"

Decolar ==
    /\ status' = "em_missao"
    /\ rotinas' = rotinas \cup {Rotina("voar", 0)}
    /\ UNCHANGED bateria

(* processarComando: an ACK and a flight, or a refusal two seconds later. *)
ProcessarComando(c) ==
    /\ c.fase = "indo"
    /\ IF Aceita
       THEN /\ Decolar
            /\ comandos' = comandos \ {c}
       ELSE /\ Comando(c.de, "recusado") \notin comandos
            /\ comandos' = (comandos \ {c}) \cup {Comando(c.de, "recusado")}
            /\ UNCHANGED droneVars
    /\ UNCHANGED <<avisos, crenca, retido, falhas>>

(* recolocarOcorrenciaNaFila: the occurrence may be tried again. *)
Recolocar(c) ==
    /\ c.fase = "recusado"
    /\ comandos' = comandos \ {c}
    /\ crenca' = [crenca EXCEPT ![c.de] = "em_missao"]
    /\ retido' = [retido EXCEPT ![c.de] = TRUE]
    /\ UNCHANGED <<droneVars, avisos, falhas>>

(* The same without an answer in time: the command was lost, or the ACK    *)
(* was, or the refusal took more than the three seconds.                   *)
FalharComando(c) ==
    /\ falhas < MaxFalhas
    /\ falhas' = falhas + 1
    /\ comandos' = comandos \ {c}
    /\ crenca' = [crenca EXCEPT ![c.de] = "indisponivel"]
    /\ \/ UNCHANGED droneVars
       \/ c.fase = "indo" /\ Aceita /\ Decolar
    /\ UNCHANGED <<avisos, retido>>

(***************************************************************************)
(* Flight, report, recharge                                                *)
(***************************************************************************)
Seguir(r, proximas) == rotinas' = (rotinas \ {r}) \cup proximas

(* executarMissao, after the flight: the battery ... *)
Voar(r) ==
    /\ r.passo = "voar"
    /\ \E c \in Consumos :
          LET resto == IF bateria < c THEN 0 ELSE bateria - c IN
          /\ bateria' = resto
          /\ Seguir(r, {Rotina("pousar", resto)})
    /\ UNCHANGED <<status, comandos, avisos, crenca, retido, falhas>>

PrecisaVazia(bat) == bat = 0           \* a mutant of PrecisaRecarga

PrecisaRecarga(bat) == bat < Minimo

(* The next report waits for the last one: a flight takes five seconds or  *)
(* more and the dials of a report give up after four.                      *)
SemLaudoPendente == \A r \in rotinas : r.passo \notin {"reportar", "reportar_e_docar"}

(* ... and, under the lock again, the status. *)
Pousar(r) ==
    /\ r.passo = "pousar"
    /\ SemLaudoPendente
    /\ IF PrecisaRecarga(r.bat)
       THEN /\ status' = "recarregando"
            /\ Seguir(r, {Rotina("reportar_e_docar", 0)})
       ELSE /\ status' = "disponivel"
            /\ Seguir(r, {Rotina("reportar", 0)})
    /\ UNCHANGED <<bateria, comandos, avisos, crenca, retido, falhas>>

(* A mutant of EnviarATodos: who knows the drone is told nothing more. *)
EnviarANovos(tipo) ==
    avisos \cup {Aviso(tipo, i) : i \in {j \in Brokers : crenca[j] = "desconhecido"}}

(* enviarParaTodosBrokers: a connection and a goroutine for each. *)
EnviarATodos(tipo) == avisos \cup {Aviso(tipo, i) : i \in Brokers}

SemRecarga(r) == {}      \* a mutant of DepoisDoLaudo

DepoisDoLaudo(r) == IF r.passo = "reportar_e_docar" THEN {Rotina("recarregar", 0)} ELSE {}

Reportar(r) ==
    /\ r.passo \in {"reportar", "reportar_e_docar"}
    /\ avisos' = EnviarATodos("STATUS_DRONE")
    /\ Seguir(r, DepoisDoLaudo(r))
    /\ UNCHANGED <<status, bateria, comandos, crenca, retido, falhas>>

BateriaSomada == bateria + Cheia       \* a mutant of BateriaRecarregada

BateriaRecarregada == Cheia

(* recarregar: available again, then a registration and a report of none. *)
Recarregar(r) ==
    /\ r.passo = "recarregar"
    /\ bateria' = BateriaRecarregada
    /\ status' = "disponivel"
    /\ Seguir(r, {Rotina("reapresentar", 0)})
    /\ UNCHANGED <<comandos, avisos, crenca, retido, falhas>>

(* registrarNosBrokers, for recarregar and for main. *)
Registrar(r) ==
    /\ avisos' = EnviarATodos("HANDSHAKE")
    /\ \/ r.passo = "registrar" /\ Seguir(r, {})
       \/ r.passo = "reapresentar" /\ SemLaudoPendente /\ Seguir(r, {Rotina("reportar", 0)})
    /\ UNCHANGED <<status, bateria, comandos, crenca, retido, falhas>>

(***************************************************************************)
(* News                                                                    *)
(***************************************************************************)

(* handleConexao, handleStatusDrone and the reservation in despachar.      *)
(* Reports and reservations of a drone that has not registered yet change  *)
(* nothing.                                                                *)
Receber(a) ==
    /\ avisos' = avisos \ {a}
    /\ IF crenca[a.para] = "desconhecido" /\ a.tipo # "HANDSHAKE"
       THEN UNCHANGED <<crenca, retido>>
       ELSE LET reserva == a.tipo = "RESERVA_DRONE" IN
            /\ crenca' = [crenca EXCEPT ![a.para] = IF reserva THEN "em_missao" ELSE "disponivel"]
            /\ retido' = [retido EXCEPT ![a.para] = reserva]
    /\ UNCHANGED <<droneVars, comandos, falhas>>

(* tentarEnvio fails, and is not repeated. *)
PerderAviso(a) ==
    /\ falhas < MaxFalhas
    /\ falhas' = falhas + 1
    /\ avisos' = avisos \ {a}
    /\ UNCHANGED <<droneVars, comandos, crenca, retido>>

(* The process dies with its flight and starts again.  Who waited for a    *)
(* refusal finds the connection closed.                                    *)
Reiniciar ==
    LET esperavam == {c.de : c \in {c \in comandos : c.fase = "recusado"}} IN
    /\ falhas < MaxFalhas
    /\ falhas' = falhas + 1
    /\ Ligado
    /\ comandos' = {c \in comandos : c.fase = "indo"}
    /\ crenca' = [i \in Brokers |-> IF i \in esperavam THEN "indisponivel" ELSE crenca[i]]
    /\ UNCHANGED <<avisos, retido>>

-----------------------------------------------------------------------------
Executar(r) == Voar(r) \/ Pousar(r) \/ Reportar(r) \/ Recarregar(r) \/ Registrar(r)

Next ==
    \/ \E i \in Brokers : Comandar(i)
    \/ \E c \in comandos : ProcessarComando(c) \/ Recolocar(c) \/ FalharComando(c)
    \/ \E r \in rotinas : Executar(r)
    \/ \E a \in avisos : Receber(a) \/ PerderAviso(a)
    \/ Reiniciar

Spec == Init /\ [][Next]_vars

-----------------------------------------------------------------------------
(* Busy with the drone itself: flying, or on the way to a full battery. *)
Ocupa(r) == r.passo \in {"voar", "pousar", "reportar_e_docar", "recarregar"}

(* processarComando "trata concorrencia com missoes em paralelo": whatever *)
(* brokers command, at most one goroutine flies or recharges, although the *)
(* status is set before the report is sent and the battery in a lock of    *)
(* its own; and the drone says it is available when none does.             *)
UmVooPorVez ==
    \A r \in rotinas : Ocupa(r) =>
        /\ status # "disponivel"
        /\ \A q \in rotinas : Ocupa(q) => q = r

(* A drone that refuses commands has a goroutine that will bring it back,  *)
(* through the report and the recharge (executarMissao, recarregar).       *)
AlguemDevolve == status # "disponivel" => \E r \in rotinas : Ocupa(r)

(* The drone never flies its battery empty (executarMissao): the limit for *)
(* docking and the consumption of a flight fit, so the clamp at zero is    *)
(* never reached.                                                          *)
BateriaBasta == bateria > 0

(* A broker forgets a free drone only when a refusal, or a reservation by  *)
(* a peer, comes after the news of the end of the flight, or when commands *)
(* or news are lost: otherwise it believes the drone available, or waits   *)
(* for an answer, or news is on its way (enviarParaTodosBrokers,           *)
(* recolocarOcorrenciaNaFila, the reservation in despachar).               *)
SoEsqueceRetido ==
    \A i \in Brokers :
        (status = "disponivel" /\ falhas = 0 /\ ~ retido[i]) =>
            \/ crenca[i] = "disponivel"
            \/ \E c \in comandos : c.de = i
            \/ \E a \in avisos : a.para = i /\ a.tipo # "RESERVA_DRONE"
            \/ \E r \in rotinas : r.passo \in {"reportar", "reapresentar", "registrar"}

=============================================================================
