----------------------------- MODULE DroneProofs ----------------------------
(***************************************************************************)
(* What holds of a drone for every number of brokers, every consumption    *)
(* between 8 and 19 per cent and any number of losses and restarts.        *)
(*                                                                         *)
(* UmVooPorVez and AlguemDevolve together say that the status tells the    *)
(* truth about the goroutines.  BateriaBasta needs more: whoever takes off *)
(* has at least the minimum (Carga).  SoEsqueceRetido needs to know where  *)
(* the news is that makes a broker believe the drone free (Informados).    *)
(***************************************************************************)
EXTENDS Drone, TLAPS

(* The battery a drone flies with, and the batAtual it lands with. *)
Carga ==
    /\ bateria > 0
    /\ status = "disponivel" => bateria >= Minimo
    /\ \A r \in rotinas :
          /\ r.passo = "voar" => bateria >= Minimo
          /\ r.passo = "pousar" => r.bat = bateria

Corpo == UmVooPorVez /\ AlguemDevolve /\ Carga

IInv == TypeOK /\ Corpo

-----------------------------------------------------------------------------
(* The initial state satisfies the invariant. *)
LEMMA InicioIInv == Init => IInv
<1> SUFFICES ASSUME Init PROVE IInv
  OBVIOUS
<1>1. rotinas = {Rotina("registrar", 0)} /\ Rotina("registrar", 0).passo = "registrar"
  BY DEF Init, Rotina
<1>2. TypeOK
  <2>1. Rotina("registrar", 0) \in [passo : Passos, bat : 0..Cheia]
    BY DEF Rotina, Passos, Cheia
  <2>2. 0 \in 0..MaxFalhas /\ Cheia \in 0..Cheia
    BY DroneAssumption DEF Cheia
  <2> QED
    BY <2>1, <2>2 DEF Init, TypeOK
<1>3. Corpo
  BY <1>1 DEF Init, Corpo, UmVooPorVez, AlguemDevolve, Carga, Ocupa, Cheia, Minimo
<1> QED
  BY <1>2, <1>3 DEF IInv

(* Everything but the drone itself: the other variables keep their types.  *)
Fora ==
    /\ comandos \subseteq [de : Brokers, fase : {"indo", "recusado"}]
    /\ avisos \subseteq [tipo : {"HANDSHAKE", "STATUS_DRONE", "RESERVA_DRONE"}, para : Brokers]
    /\ crenca \in [Brokers -> {"desconhecido", "disponivel", "em_missao", "indisponivel"}]
    /\ retido \in [Brokers -> BOOLEAN]
    /\ falhas \in 0..MaxFalhas

Dentro ==
    /\ status \in {"disponivel", "em_missao", "recarregando"}
    /\ bateria \in 0..Cheia
    /\ rotinas \subseteq [passo : Passos, bat : 0..Cheia]

LEMMA ComandoTipo ==
    ASSUME NEW i \in Brokers, NEW f \in {"indo", "recusado"}
    PROVE  Comando(i, f) \in [de : Brokers, fase : {"indo", "recusado"}]
BY DEF Comando

LEMMA AvisoTipo ==
    ASSUME NEW i \in Brokers, NEW t \in {"HANDSHAKE", "STATUS_DRONE", "RESERVA_DRONE"}
    PROVE  Aviso(t, i) \in [tipo : {"HANDSHAKE", "STATUS_DRONE", "RESERVA_DRONE"}, para : Brokers]
BY DEF Aviso

(* Messages are sent to brokers, and beliefs are about this drone. *)
LEMMA ForaPasso ==
    ASSUME TypeOK, [Next]_vars
    PROVE  Fora'
<1> USE DEF TypeOK, Fora
<1>1. ASSUME NEW i \in Brokers, Comandar(i) PROVE Fora'
  BY <1>1, ComandoTipo, AvisoTipo DEF Comandar
<1>2. ASSUME NEW c \in comandos, ProcessarComando(c) PROVE Fora'
  BY <1>2, ComandoTipo DEF ProcessarComando
<1>3. ASSUME NEW c \in comandos, Recolocar(c) PROVE Fora'
  BY <1>3 DEF Recolocar
<1>4. ASSUME NEW c \in comandos, FalharComando(c) PROVE Fora'
  <2>1. falhas' \in 0..MaxFalhas
    BY <1>4, DroneAssumption DEF FalharComando
  <2> QED
    BY <2>1, <1>4 DEF FalharComando
<1>5. ASSUME NEW r \in rotinas, Executar(r) PROVE Fora'
  <2>1. \/ UNCHANGED avisos
        \/ avisos' = EnviarATodos("STATUS_DRONE")
        \/ avisos' = EnviarATodos("HANDSHAKE")
    BY <1>5 DEF Executar, Voar, Pousar, Reportar, Recarregar, Registrar
  <2>2. UNCHANGED <<comandos, crenca, retido, falhas>>
    BY <1>5 DEF Executar, Voar, Pousar, Reportar, Recarregar, Registrar
  <2> QED
    BY <2>1, <2>2, AvisoTipo DEF EnviarATodos
<1>6. ASSUME NEW a \in avisos, Receber(a) PROVE Fora'
  BY <1>6 DEF Receber
<1>7. ASSUME NEW a \in avisos, PerderAviso(a) PROVE Fora'
  <2>1. falhas' \in 0..MaxFalhas
    BY <1>7, DroneAssumption DEF PerderAviso
  <2> QED
    BY <2>1, <1>7 DEF PerderAviso
<1>8. CASE Reiniciar
  <2>1. falhas' \in 0..MaxFalhas
    BY <1>8, DroneAssumption DEF Reiniciar
  <2> QED
    BY <2>1, <1>8 DEF Reiniciar
<1>9. CASE UNCHANGED vars
  BY <1>9 DEF vars
<1> QED
  BY <1>1, <1>2, <1>3, <1>4, <1>5, <1>6, <1>7, <1>8, <1>9 DEF Next

-----------------------------------------------------------------------------
(* Of the brokers a drone hears of nothing but a command it accepts: any   *)
(* other step is one of its own goroutines, or a restart.                  *)
LEMMA PassosDoDrone ==
    ASSUME [Next]_vars
    PROVE  \/ UNCHANGED droneVars
           \/ Aceita /\ Decolar
           \/ \E r \in rotinas : Executar(r)
           \/ Ligado
<1>1. ASSUME NEW c \in comandos, ProcessarComando(c)
      PROVE  UNCHANGED droneVars \/ (Aceita /\ Decolar)
  BY <1>1 DEF ProcessarComando
<1>2. ASSUME NEW c \in comandos, FalharComando(c)
      PROVE  UNCHANGED droneVars \/ (Aceita /\ Decolar)
  BY <1>2 DEF FalharComando
<1>3. CASE UNCHANGED vars
  BY <1>3 DEF vars
<1> QED
  BY <1>1, <1>2, <1>3 DEF Next, Comandar, Recolocar, Receber, PerderAviso, Reiniciar

(* A command is accepted by a drone with nothing under way and a battery   *)
(* above the minimum.                                                      *)
LEMMA DecolarIInv ==
    ASSUME IInv, Aceita, Decolar
    PROVE  Dentro' /\ Corpo'
<1> DEFINE v == Rotina("voar", 0)
<1>1. v.passo = "voar" /\ v \in [passo : Passos, bat : 0..Cheia]
  BY DEF Rotina, Passos, Cheia
<1>2. /\ status = "disponivel"
      /\ status' = "em_missao"
      /\ rotinas' = rotinas \cup {v}
      /\ bateria' = bateria
  BY DEF Aceita, Decolar
<1>3. \A r \in rotinas : ~ Ocupa(r)
  BY <1>2 DEF IInv, Corpo, UmVooPorVez
<1> HIDE DEF v
<1>4. Dentro'
  BY <1>1, <1>2 DEF IInv, TypeOK, Dentro
<1>5. UmVooPorVez' /\ AlguemDevolve'
  BY <1>1, <1>2, <1>3 DEF UmVooPorVez, AlguemDevolve, Ocupa
<1>6. Carga'
  BY <1>1, <1>2, <1>3 DEF IInv, Corpo, Carga, Ocupa
<1> QED
  BY <1>4, <1>5, <1>6 DEF Corpo

(* The goroutine that has the drone hands it on, or gives it back.         *)
LEMMA VoarIInv ==
    ASSUME IInv, NEW r \in rotinas, Voar(r)
    PROVE  Dentro' /\ Corpo'
<1>1. PICK c \in Consumos :
        LET resto == IF bateria < c THEN 0 ELSE bateria - c IN
        /\ bateria' = resto
        /\ rotinas' = (rotinas \ {r}) \cup {Rotina("pousar", resto)}
  BY DEF Voar, Seguir
<1>2. c \in 8..19 /\ bateria \in 0..Cheia /\ bateria >= Minimo
  BY DroneAssumption DEF IInv, TypeOK, Corpo, Carga, Voar
<1>3. bateria' = bateria - c /\ bateria' \in 1..Cheia
  BY <1>1, <1>2 DEF Cheia, Minimo
<1> DEFINE p == Rotina("pousar", bateria')
<1>4. rotinas' = (rotinas \ {r}) \cup {p}
  BY <1>1
<1>5. p.passo = "pousar" /\ p.bat = bateria' /\ p \in [passo : Passos, bat : 0..Cheia]
  BY <1>3 DEF Rotina, Passos, Cheia
<1>6. status' = status /\ status # "disponivel" /\ \A q \in rotinas : Ocupa(q) => q = r
  BY DEF Voar, IInv, Corpo, UmVooPorVez, Ocupa
<1> HIDE DEF p
<1>7. Dentro'
  BY <1>3, <1>4, <1>5, <1>6 DEF IInv, TypeOK, Dentro, Cheia
<1>8. UmVooPorVez' /\ AlguemDevolve'
  BY <1>4, <1>5, <1>6 DEF UmVooPorVez, AlguemDevolve, Ocupa
<1>9. Carga'
  BY <1>3, <1>4, <1>5, <1>6 DEF Carga, Ocupa, Cheia
<1> QED
  BY <1>7, <1>8, <1>9 DEF Corpo

LEMMA PousarIInv ==
    ASSUME IInv, NEW r \in rotinas, Pousar(r)
    PROVE  Dentro' /\ Corpo'
<1>1. r.bat = bateria /\ bateria' = bateria
  BY DEF Pousar, IInv, Corpo, Carga
<1>2. \A q \in rotinas : Ocupa(q) => q = r
  BY DEF Pousar, IInv, Corpo, UmVooPorVez, Ocupa
<1>3. CASE PrecisaRecarga(r.bat)
  <2> DEFINE p == Rotina("reportar_e_docar", 0)
  <2>1. status' = "recarregando" /\ rotinas' = (rotinas \ {r}) \cup {p}
    BY <1>3 DEF Pousar, Seguir
  <2>2. p.passo = "reportar_e_docar" /\ p \in [passo : Passos, bat : 0..Cheia]
    BY DEF Rotina, Passos, Cheia
  <2> HIDE DEF p
  <2>3. Dentro'
    BY <1>1, <2>1, <2>2 DEF IInv, TypeOK, Dentro
  <2>4. UmVooPorVez' /\ AlguemDevolve'
    BY <1>2, <2>1, <2>2 DEF UmVooPorVez, AlguemDevolve, Ocupa
  <2>5. Carga'
    BY <1>1, <2>1, <2>2 DEF IInv, Corpo, Carga
  <2> QED
    BY <2>3, <2>4, <2>5 DEF Corpo
<1>4. CASE ~ PrecisaRecarga(r.bat)
  <2> DEFINE p == Rotina("reportar", 0)
  <2>1. status' = "disponivel" /\ rotinas' = (rotinas \ {r}) \cup {p}
    BY <1>4 DEF Pousar, Seguir
  <2>2. p.passo = "reportar" /\ p \in [passo : Passos, bat : 0..Cheia]
    BY DEF Rotina, Passos, Cheia
  <2>3. bateria >= Minimo
    BY <1>1, <1>4 DEF PrecisaRecarga, IInv, TypeOK, Minimo, Cheia
  <2> HIDE DEF p
  <2>4. Dentro'
    BY <1>1, <2>1, <2>2 DEF IInv, TypeOK, Dentro
  <2>5. UmVooPorVez' /\ AlguemDevolve'
    BY <1>2, <2>1, <2>2 DEF UmVooPorVez, AlguemDevolve, Ocupa
  <2>6. Carga'
    BY <1>1, <2>1, <2>2, <2>3 DEF IInv, Corpo, Carga
  <2> QED
    BY <2>4, <2>5, <2>6 DEF Corpo
<1> QED
  BY <1>3, <1>4

LEMMA ReportarIInv ==
    ASSUME IInv, NEW r \in rotinas, Reportar(r)
    PROVE  Dentro' /\ Corpo'
<1>1. status' = status /\ bateria' = bateria
  BY DEF Reportar
<1>2. CASE r.passo = "reportar_e_docar"
  <2> DEFINE p == Rotina("recarregar", 0)
  <2>1. rotinas' = (rotinas \ {r}) \cup {p}
    BY <1>2 DEF Reportar, Seguir, DepoisDoLaudo
  <2>2. p.passo = "recarregar" /\ p \in [passo : Passos, bat : 0..Cheia]
    BY DEF Rotina, Passos, Cheia
  <2>3. status # "disponivel" /\ \A q \in rotinas : Ocupa(q) => q = r
    BY <1>2 DEF IInv, Corpo, UmVooPorVez, Ocupa
  <2> HIDE DEF p
  <2>4. Dentro'
    BY <1>1, <2>1, <2>2 DEF IInv, TypeOK, Dentro
  <2>5. UmVooPorVez' /\ AlguemDevolve'
    BY <1>1, <2>1, <2>2, <2>3 DEF UmVooPorVez, AlguemDevolve, Ocupa
  <2>6. Carga'
    BY <1>1, <2>1, <2>2 DEF IInv, Corpo, Carga
  <2> QED
    BY <2>4, <2>5, <2>6 DEF Corpo
<1>3. CASE r.passo = "reportar"
  <2>1. rotinas' = rotinas \ {r} /\ ~ Ocupa(r)
    BY <1>3 DEF Reportar, Seguir, DepoisDoLaudo, Ocupa
  <2>2. Dentro'
    BY <1>1, <2>1 DEF IInv, TypeOK, Dentro
  <2>3. UmVooPorVez' /\ AlguemDevolve'
    BY <1>1, <2>1 DEF IInv, Corpo, UmVooPorVez, AlguemDevolve, Ocupa
  <2>4. Carga'
    BY <1>1, <2>1 DEF IInv, Corpo, Carga
  <2> QED
    BY <2>2, <2>3, <2>4 DEF Corpo
<1> QED
  BY <1>2, <1>3 DEF Reportar

LEMMA RecarregarIInv ==
    ASSUME IInv, NEW r \in rotinas, Recarregar(r)
    PROVE  Dentro' /\ Corpo'
<1> DEFINE p == Rotina("reapresentar", 0)
<1>1. /\ bateria' = Cheia
      /\ status' = "disponivel"
      /\ rotinas' = (rotinas \ {r}) \cup {p}
  BY DEF Recarregar, Seguir, BateriaRecarregada
<1>2. p.passo = "reapresentar" /\ p \in [passo : Passos, bat : 0..Cheia]
  BY DEF Rotina, Passos, Cheia
<1>3. \A q \in rotinas : Ocupa(q) => q = r
  BY DEF Recarregar, IInv, Corpo, UmVooPorVez, Ocupa
<1> HIDE DEF p
<1>4. Dentro'
  BY <1>1, <1>2 DEF IInv, TypeOK, Dentro, Cheia
<1>5. UmVooPorVez' /\ AlguemDevolve'
  BY <1>1, <1>2, <1>3 DEF UmVooPorVez, AlguemDevolve, Ocupa
<1>6. Carga'
  BY <1>1, <1>2, <1>3 DEF Carga, Ocupa, Cheia, Minimo
<1> QED
  BY <1>4, <1>5, <1>6 DEF Corpo

LEMMA RegistrarIInv ==
    ASSUME IInv, NEW r \in rotinas, Registrar(r)
    PROVE  Dentro' /\ Corpo'
<1> DEFINE p == Rotina("reportar", 0)
<1>1. status' = status /\ bateria' = bateria /\ ~ Ocupa(r)
  BY DEF Registrar, Ocupa
<1>2. rotinas' = rotinas \ {r} \/ rotinas' = (rotinas \ {r}) \cup {p}
  BY DEF Registrar, Seguir
<1>3. p.passo = "reportar" /\ p \in [passo : Passos, bat : 0..Cheia]
  BY DEF Rotina, Passos, Cheia
<1> HIDE DEF p
<1>4. Dentro'
  BY <1>1, <1>2, <1>3 DEF IInv, TypeOK, Dentro
<1>5. UmVooPorVez' /\ AlguemDevolve'
  BY <1>1, <1>2, <1>3 DEF IInv, Corpo, UmVooPorVez, AlguemDevolve, Ocupa
<1>6. Carga'
  BY <1>1, <1>2, <1>3 DEF IInv, Corpo, Carga
<1> QED
  BY <1>4, <1>5, <1>6 DEF Corpo

(* main again: nothing is under way and the battery is full. *)
LEMMA LigadoIInv ==
    ASSUME Ligado
    PROVE  Dentro' /\ Corpo'
<1> DEFINE p == Rotina("registrar", 0)
<1>1. p.passo = "registrar" /\ p \in [passo : Passos, bat : 0..Cheia]
  BY DEF Rotina, Passos, Cheia
<1>2. status' = "disponivel" /\ bateria' = Cheia /\ rotinas' = {p}
  BY DEF Ligado
<1> HIDE DEF p
<1> QED
  BY <1>1, <1>2
     DEF Dentro, Corpo, UmVooPorVez, AlguemDevolve, Carga, Ocupa, Cheia, Minimo

LEMMA PassoIInv == IInv /\ [Next]_vars => IInv'
<1> SUFFICES ASSUME IInv, [Next]_vars PROVE IInv'
  OBVIOUS
<1>1. Fora'
  BY ForaPasso DEF IInv
<1>2. Dentro' /\ Corpo'
  <2>1. CASE UNCHANGED droneVars
    BY <2>1 DEF IInv, TypeOK, Dentro, Corpo, UmVooPorVez, AlguemDevolve, Carga, Ocupa, droneVars
  <2>2. CASE Aceita /\ Decolar
    BY <2>2, DecolarIInv
  <2>3. ASSUME NEW r \in rotinas, Executar(r) PROVE Dentro' /\ Corpo'
    BY <2>3, VoarIInv, PousarIInv, ReportarIInv, RecarregarIInv, RegistrarIInv DEF Executar
  <2>4. CASE Ligado
    BY <2>4, LigadoIInv
  <2> QED
    BY <2>1, <2>2, <2>3, <2>4, PassosDoDrone
<1> QED
  BY <1>1, <1>2 DEF IInv, TypeOK, Dentro, Fora

LEMMA Invariante == Spec => []IInv
<1>1. IInv /\ [Next]_vars => IInv'
  BY PassoIInv
<1> QED
  BY InicioIInv, <1>1, PTL DEF Spec

-----------------------------------------------------------------------------
(* The variables keep their types: the battery stays between 0 and 100.    *)
THEOREM DroneTypeOK == Spec => []TypeOK
<1>1. IInv => TypeOK
  BY DEF IInv
<1> QED
  BY <1>1, Invariante, PTL

(* However many brokers command the drone at once, at most one goroutine   *)
(* flies or recharges, and the status says so (processarComando).          *)
THEOREM UmVoo == Spec => []UmVooPorVez
<1>1. IInv => UmVooPorVez
  BY DEF IInv, Corpo
<1> QED
  BY <1>1, Invariante, PTL

(* A drone that refuses commands has a goroutine that brings it back       *)
(* (executarMissao, recarregar).                                           *)
THEOREM DroneDevolvido == Spec => []AlguemDevolve
<1>1. IInv => AlguemDevolve
  BY DEF IInv, Corpo
<1> QED
  BY <1>1, Invariante, PTL

(* Whatever the flights take, the battery never runs empty: the clamp at   *)
(* zero in executarMissao is dead code.                                    *)
THEOREM BateriaNuncaAcaba == Spec => []BateriaBasta
<1>1. IInv => BateriaBasta
  BY DEF IInv, Corpo, Carga, BateriaBasta
<1> QED
  BY <1>1, Invariante, PTL

-----------------------------------------------------------------------------
(* What a broker knows of a drone nothing was lost of: if the drone is     *)
(* free and the broker was not refused, it believes so or will hear.       *)
Anuncia(r) == r.passo \in {"reportar", "reapresentar", "registrar"}

Saberao(i) ==
    \/ crenca[i] = "disponivel"
    \/ \E c \in comandos : c.de = i
    \/ \E a \in avisos : a.para = i /\ a.tipo # "RESERVA_DRONE"
    \/ \E r \in rotinas : Anuncia(r)

(* A broker that has not met the drone is still to be told of it: no other *)
(* news changes what it believes.                                          *)
Apresenta(i) ==
    crenca[i] = "desconhecido" =>
        \/ \E a \in avisos : a.para = i /\ a.tipo = "HANDSHAKE"
        \/ \E r \in rotinas : r.passo = "registrar"

Informados ==
    falhas = 0 =>
        /\ \A i \in Brokers : Apresenta(i)
        /\ status = "disponivel" => \A i \in Brokers : retido[i] \/ Saberao(i)

(* A loss, and a restart, are counted for ever. *)
LEMMA FalhasFicam ==
    ASSUME TypeOK, [Next]_vars, falhas' = 0
    PROVE  falhas = 0
<1>1. falhas \in Nat
  BY DroneAssumption DEF TypeOK
<1>2. CASE UNCHANGED vars
  BY <1>2 DEF vars
<1>3. CASE Next
  BY <1>1, <1>3 DEF Next, Executar, Comandar, ProcessarComando, Recolocar, FalharComando,
     Voar, Pousar, Reportar, Recarregar, Registrar, Receber, PerderAviso, Reiniciar
<1> QED
  BY <1>2, <1>3

(* Commands only add what a broker waits for. *)
LEMMA InformadosAoComandar ==
    ASSUME TypeOK, falhas = 0, Informados, NEW i \in Brokers, Comandar(i)
    PROVE  Informados'
<1>1. Comando(i, "indo").de = i /\ Comando(i, "indo") \in comandos'
  BY DEF Comandar, Comando
<1>2. /\ UNCHANGED <<status, rotinas, retido>>
      /\ avisos \subseteq avisos' /\ comandos \subseteq comandos'
  BY DEF Comandar, droneVars
<1>3. crenca' = [crenca EXCEPT ![i] = "em_missao"]
  BY DEF Comandar
<1>4. \A j \in Brokers : Apresenta(j)'
  BY <1>2, <1>3 DEF Informados, Apresenta, TypeOK
<1>5. \A j \in Brokers : Saberao(j) => Saberao(j)'
  BY <1>1, <1>2, <1>3 DEF Saberao, TypeOK
<1> QED
  BY <1>2, <1>4, <1>5 DEF Informados

LEMMA InformadosAoResponder ==
    ASSUME TypeOK, falhas = 0, Informados, NEW c \in comandos,
           ProcessarComando(c) \/ Recolocar(c)
    PROVE  Informados'
<1>1. c.de \in Brokers
  BY DEF TypeOK
<1>2. CASE ProcessarComando(c)
  <2>1. UNCHANGED <<avisos, crenca, retido>>
    BY <1>2 DEF ProcessarComando
  <2>2. CASE Aceita
    <3>1. rotinas \subseteq rotinas' /\ status' # "disponivel"
      BY <1>2, <2>2 DEF ProcessarComando, Decolar
    <3> QED
      BY <2>1, <3>1 DEF Informados, Apresenta
  <2>3. CASE ~ Aceita
    <3>1. comandos' = (comandos \ {c}) \cup {Comando(c.de, "recusado")} /\ UNCHANGED droneVars
      BY <1>2, <2>3 DEF ProcessarComando
    <3>2. Comando(c.de, "recusado").de = c.de
      BY DEF Comando
    <3> QED
      BY <2>1, <3>1, <3>2 DEF Informados, Apresenta, Saberao, droneVars
  <2> QED
    BY <2>2, <2>3
<1>3. CASE Recolocar(c)
  <2>1. /\ UNCHANGED <<status, rotinas, avisos>>
        /\ comandos' = comandos \ {c}
        /\ crenca' = [crenca EXCEPT ![c.de] = "em_missao"]
        /\ retido' = [retido EXCEPT ![c.de] = TRUE]
    BY <1>3 DEF Recolocar, droneVars
  <2>2. /\ crenca'[c.de] = "em_missao" /\ retido'[c.de]
        /\ \A j \in Brokers \ {c.de} : crenca'[j] = crenca[j] /\ retido'[j] = retido[j]
    BY <1>1, <2>1 DEF TypeOK
  <2>3. \A j \in Brokers : Apresenta(j)'
    BY <2>1, <2>2 DEF Informados, Apresenta
  <2>4. \A j \in Brokers \ {c.de} : Saberao(j) => Saberao(j)'
    BY <2>1, <2>2 DEF Saberao
  <2> QED
    BY <2>1, <2>2, <2>3, <2>4 DEF Informados
<1> QED
  BY <1>2, <1>3

(* The goroutines of the drone: who becomes free will say so, and a report *)
(* or a registration ends in news to every broker.                         *)
LEMMA InformadosAoExecutar ==
    ASSUME IInv, falhas = 0, Informados, NEW r \in rotinas, Executar(r)
    PROVE  Informados'
<1>1. UNCHANGED <<crenca, retido, comandos>> /\ avisos \subseteq avisos'
  BY DEF Executar, Voar, Pousar, Reportar, Recarregar, Registrar, EnviarATodos
<1>2. \A i \in Brokers : Aviso("HANDSHAKE", i).para = i /\ Aviso("HANDSHAKE", i).tipo = "HANDSHAKE"
  BY DEF Aviso
<1>3. \A i \in Brokers :
         Aviso("STATUS_DRONE", i).para = i /\ Aviso("STATUS_DRONE", i).tipo = "STATUS_DRONE"
  BY DEF Aviso
<1>4. \A i \in Brokers : Apresenta(i)'
  <2>1. CASE r.passo # "registrar"
    <3>1. \A q \in rotinas : q.passo = "registrar" => q \in rotinas'
      BY <2>1 DEF Executar, Voar, Pousar, Reportar, Recarregar, Registrar, Seguir
    <3> QED
      BY <1>1, <3>1 DEF Informados, Apresenta
  <2>2. CASE r.passo = "registrar"
    <3>1. \A i \in Brokers : Aviso("HANDSHAKE", i) \in avisos'
      BY <2>2 DEF Executar, Voar, Pousar, Reportar, Recarregar, Registrar, EnviarATodos
    <3> QED
      BY <1>2, <3>1 DEF Apresenta
  <2> QED
    BY <2>1, <2>2
<1>5. ASSUME status' = "disponivel", NEW i \in Brokers PROVE retido'[i] \/ Saberao(i)'
  <2>1. CASE Voar(r)
    <3>1. status # "disponivel"
      BY <2>1 DEF Voar, IInv, Corpo, UmVooPorVez, Ocupa
    <3> QED
      BY <1>5, <2>1, <3>1 DEF Voar
  <2>2. CASE Pousar(r)
    <3>1. Rotina("reportar", 0) \in rotinas'
      BY <1>5, <2>2 DEF Pousar, Seguir
    <3>2. Rotina("reportar", 0).passo = "reportar"
      BY DEF Rotina
    <3> QED
      BY <3>1, <3>2 DEF Saberao, Anuncia
  <2>3. CASE Reportar(r)
    <3>1. Aviso("STATUS_DRONE", i) \in avisos'
      BY <2>3 DEF Reportar, EnviarATodos
    <3> QED
      BY <1>3, <3>1 DEF Saberao
  <2>4. CASE Recarregar(r)
    <3>1. Rotina("reapresentar", 0) \in rotinas'
      BY <2>4 DEF Recarregar, Seguir
    <3>2. Rotina("reapresentar", 0).passo = "reapresentar"
      BY DEF Rotina
    <3> QED
      BY <3>1, <3>2 DEF Saberao, Anuncia
  <2>5. CASE Registrar(r)
    <3>1. Aviso("HANDSHAKE", i) \in avisos'
      BY <2>5 DEF Registrar, EnviarATodos
    <3> QED
      BY <1>2, <3>1 DEF Saberao
  <2> QED
    BY <2>1, <2>2, <2>3, <2>4, <2>5 DEF Executar
<1> QED
  BY <1>4, <1>5 DEF Informados

(* News: it makes the drone free for who receives it, or is a reservation, *)
(* or comes to a broker that is still to meet the drone.                   *)
LEMMA InformadosAoReceber ==
    ASSUME TypeOK, falhas = 0, Informados, NEW a \in avisos, Receber(a)
    PROVE  Informados'
<1>1. /\ a.para \in Brokers
      /\ avisos' = avisos \ {a} /\ UNCHANGED <<status, rotinas, comandos>>
  BY DEF TypeOK, Receber, droneVars
<1>2. ASSUME NEW j \in Brokers, j # a.para,
             crenca'[j] = crenca[j], retido'[j] = retido[j]
      PROVE  Apresenta(j)' /\ (status' = "disponivel" => retido'[j] \/ Saberao(j)')
  BY <1>1, <1>2 DEF Informados, Apresenta, Saberao
<1>3. CASE crenca[a.para] = "desconhecido" /\ a.tipo # "HANDSHAKE"
  <2>1. UNCHANGED <<crenca, retido>>
    BY <1>3 DEF Receber
  <2>2. Apresenta(a.para)' /\ Saberao(a.para)'
    BY <1>1, <1>3, <2>1 DEF Informados, Apresenta, Saberao, Anuncia
  <2> QED
    BY <1>2, <2>1, <2>2 DEF Informados
<1>4. CASE ~ (crenca[a.para] = "desconhecido" /\ a.tipo # "HANDSHAKE")
  <2>1. /\ crenca' = [crenca EXCEPT ![a.para] =
                        IF a.tipo = "RESERVA_DRONE" THEN "em_missao" ELSE "disponivel"]
        /\ retido' = [retido EXCEPT ![a.para] = (a.tipo = "RESERVA_DRONE")]
    BY <1>4 DEF Receber
  <2>2. /\ crenca'[a.para] # "desconhecido"
        /\ retido'[a.para] \/ crenca'[a.para] = "disponivel"
        /\ \A j \in Brokers \ {a.para} : crenca'[j] = crenca[j] /\ retido'[j] = retido[j]
    BY <1>1, <2>1 DEF TypeOK
  <2> QED
    BY <1>2, <2>2 DEF Informados, Apresenta, Saberao
<1> QED
  BY <1>3, <1>4

LEMMA InformadosAoPassar == IInv /\ Informados /\ [Next]_vars => Informados'
<1> SUFFICES ASSUME IInv, Informados, [Next]_vars, falhas' = 0 PROVE Informados'
  BY DEF Informados
<1>1. TypeOK /\ falhas = 0
  BY FalhasFicam DEF IInv
<1>2. CASE UNCHANGED vars
  BY <1>2 DEF vars, droneVars, Informados, Apresenta, Saberao
<1>3. ASSUME NEW c \in comandos, FalharComando(c) PROVE FALSE
  BY <1>1, <1>3 DEF FalharComando
<1>4. ASSUME NEW a \in avisos, PerderAviso(a) PROVE FALSE
  BY <1>1, <1>4 DEF PerderAviso
<1>5. ~ Reiniciar
  BY <1>1 DEF Reiniciar
<1> QED
  BY <1>1, <1>2, <1>3, <1>4, <1>5, InformadosAoComandar, InformadosAoResponder,
     InformadosAoExecutar, InformadosAoReceber DEF Next

(* For any number of brokers, and any flights: a broker forgets a free     *)
(* drone only after a refusal or a peer's reservation, or when a command,  *)
(* an answer or news was lost (enviarParaTodosBrokers,                     *)
(* recolocarOcorrenciaNaFila, handleStatusDrone).                          *)
THEOREM SoSeEsqueceRetido == Spec => []SoEsqueceRetido
<1>1. Init => Informados
  <2> SUFFICES ASSUME Init PROVE Informados
    OBVIOUS
  <2>1. Rotina("registrar", 0) \in rotinas /\ Rotina("registrar", 0).passo = "registrar"
    BY DEF Init, Rotina
  <2> QED
    BY <2>1 DEF Informados, Apresenta, Saberao, Anuncia
<1>2. Informados => SoEsqueceRetido
  BY DEF Informados, SoEsqueceRetido, Saberao, Anuncia
<1> QED
  BY <1>1, <1>2, InformadosAoPassar, Invariante, PTL DEF Spec

=============================================================================
