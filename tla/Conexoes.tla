------------------------------ MODULE Conexoes ------------------------------
(***************************************************************************)
(* The connections between brokers (src/broker/broker.go): every broker    *)
(* dials every other one and accepts what the others dial, keeps one entry *)
(* per peer in connBrokers whatever the number of sockets to that peer,    *)
(* and drops an entry when a reader ends or the heartbeat stops.           *)
(*                                                                         *)
(* Two brokers that dial each other at once hold two sockets between them, *)
(* and the entries at the two ends may name different ones.                *)
(***************************************************************************)
EXTENDS Integers, FiniteSets

CONSTANTS
    Brokers,      \* ids, compared as the code compares strings
    MaxSockets,   \* bound: sockets that exist at once; ended ones are reused
    MaxFalhas     \* bound: broken or silent sockets, and restarts

ASSUME BrokersAssumption == Brokers \subseteq Int /\ IsFiniteSet(Brokers)

ASSUME LimitesAssumption == MaxSockets \in Nat /\ MaxFalhas \in Nat

VARIABLES
    conexao,      \* each socket: who dialled, who accepted, open ends, silent?
    handshakes,   \* sockets whose handshake handleConexao has not read yet
    connBrokers,  \* the entries of each broker, by peer
    ultimoHB,     \* peers whose last heartbeat each broker remembers
    leitores,     \* sockets on which each broker runs lerMensagens
    discador,     \* where each goroutine of manterConexaoPeer is
    mortos,       \* peers monitorarPeers has found silent and not removed yet
    falhas        \* failures so far

vars == <<conexao, handshakes, connBrokers, ultimoHB, leitores, discador, mortos, falhas>>

Sockets == 1..MaxSockets
Nenhum == 0

Pares == {p \in Brokers \X Brokers : p[1] # p[2]}

(* The goroutine of manterConexaoPeer: about to look at the map, about to  *)
(* dial, about to store the socket it dialled, or reading from it.         *)
Discador == [passo : {"olhar", "discar"}, con : {Nenhum}]
                \cup [passo : {"guardar", "ler"}, con : Sockets]
Olhando == [passo |-> "olhar", con |-> Nenhum]
Discando == [passo |-> "discar", con |-> Nenhum]
Guardando(s) == [passo |-> "guardar", con |-> s]
Lendo(s) == [passo |-> "ler", con |-> s]

TypeOK ==
    /\ conexao \in [Sockets -> [pontas : SUBSET Brokers, abertas : SUBSET Brokers,
                                muda : BOOLEAN]]
    /\ handshakes \in [Pares -> SUBSET Sockets]
    /\ connBrokers \in [Pares -> Sockets \cup {Nenhum}]
    /\ ultimoHB \in [Pares -> BOOLEAN]
    /\ leitores \in [Brokers -> SUBSET Sockets]
    /\ discador \in [Pares -> Discador]
    /\ mortos \in [Brokers -> SUBSET Brokers]
    /\ falhas \in 0..MaxFalhas

(* Start-up: conectarPeers has started a goroutine per peer. *)
Init ==
    /\ conexao = [s \in Sockets |-> [pontas |-> {}, abertas |-> {}, muda |-> FALSE]]
    /\ handshakes = [p \in Pares |-> {}]
    /\ connBrokers = [p \in Pares |-> Nenhum]
    /\ ultimoHB = [p \in Pares |-> FALSE]
    /\ leitores = [i \in Brokers |-> {}]
    /\ discador = [p \in Pares |-> Olhando]
    /\ mortos = [i \in Brokers |-> {}]
    /\ falhas = 0

-----------------------------------------------------------------------------
(* Nothing refers to the socket any more: its number may be used again. *)
Livre(s) ==
    /\ \A i \in Brokers : s \notin leitores[i]
    /\ \A p \in Pares : /\ s \notin handshakes[p]
                        /\ connBrokers[p] # s
                        /\ discador[p].con # s

(* Bytes written at one end arrive at the other. *)
Passa(s) == conexao[s].abertas = conexao[s].pontas /\ ~ conexao[s].muda

(* What i sends to its entry for j is read by j. *)
Alcanca(i, j) ==
    LET s == connBrokers[<<i, j>>] IN
    s # Nenhum /\ Passa(s) /\ s \in leitores[j]

(* heartbeatLoop refreshes ultimoHB of j at i: the HEARTBEAT that j sends  *)
(* on its entry, or its PONG on the socket of the HEARTBEAT i sent.        *)
Ouve(i, j) ==
    \E s \in leitores[i] :
        /\ Passa(s)
        /\ \/ connBrokers[<<j, i>>] = s
           \/ connBrokers[<<i, j>>] = s /\ s \in leitores[j]

-----------------------------------------------------------------------------
(***************************************************************************)
(* manterConexaoPeer and handleConexao                                     *)
(***************************************************************************)

(* With an entry for the peer it looks again later; without one it dials. *)
Olhar(i, j) ==
    /\ discador[<<i, j>>] = Olhando
    /\ connBrokers[<<i, j>>] = Nenhum
    /\ discador' = [discador EXCEPT ![<<i, j>>] = Discando]
    /\ UNCHANGED <<conexao, handshakes, connBrokers, ultimoHB, leitores, mortos, falhas>>

(* The dial and the handshake, without the lock. *)
Discar(i, j) ==
    /\ discador[<<i, j>>] = Discando
    /\ \E s \in Sockets :
          /\ Livre(s)
          /\ \A t \in 1..(s - 1) : ~ Livre(t)
          /\ conexao' = [conexao EXCEPT ![s] =
                            [pontas |-> {i, j}, abertas |-> {i, j}, muda |-> FALSE]]
          /\ handshakes' = [handshakes EXCEPT ![<<i, j>>] = @ \cup {s}]
          /\ discador' = [discador EXCEPT ![<<i, j>>] = Guardando(s)]
    /\ UNCHANGED <<connBrokers, ultimoHB, leitores, mortos, falhas>>

(* The dialled socket becomes the entry, whether or not there is one by    *)
(* now, and the goroutine reads from it.                                   *)
Guardar(i, j) ==
    LET s == discador[<<i, j>>].con IN
    /\ discador[<<i, j>>].passo = "guardar"
    /\ connBrokers' = [connBrokers EXCEPT ![<<i, j>>] = s]
    /\ ultimoHB' = [ultimoHB EXCEPT ![<<i, j>>] = TRUE]
    /\ leitores' = [leitores EXCEPT ![i] = @ \cup {s}]
    /\ discador' = [discador EXCEPT ![<<i, j>>] = Lendo(s)]
    /\ UNCHANGED <<conexao, handshakes, mortos, falhas>>

(* A mutant of RecusaCruzada: both ends refuse. *)
RecusaSempre(i, j) == connBrokers[<<i, j>>] # Nenhum

(* Against crossed connections: with an entry for the peer, the broker of  *)
(* smaller id refuses the peer's socket, the other one prefers it.         *)
RecusaCruzada(i, j) == connBrokers[<<i, j>>] # Nenhum /\ i < j

(* handleConexao at i, for the socket s that j dialled. *)
HandleConexao(i, j, s) ==
    /\ s \in handshakes[<<j, i>>]
    /\ ~ conexao[s].muda
    /\ handshakes' = [handshakes EXCEPT ![<<j, i>>] = @ \ {s}]
    /\ IF RecusaCruzada(i, j)
       THEN /\ conexao' = [conexao EXCEPT ![s].abertas = @ \ {i}]
            /\ UNCHANGED <<connBrokers, ultimoHB, leitores>>
       ELSE /\ connBrokers' = [connBrokers EXCEPT ![<<i, j>>] = s]
            /\ ultimoHB' = [ultimoHB EXCEPT ![<<i, j>>] = TRUE]
            /\ leitores' = [leitores EXCEPT ![i] = @ \cup {s}]
            /\ UNCHANGED conexao
    /\ UNCHANGED <<discador, mortos, falhas>>

(***************************************************************************)
(* lerMensagens and removerConexao                                         *)
(***************************************************************************)

(* A mutant of EntradasSem: the entry goes only if it is the ended socket, *)
(* and another mutant, where it stays.                                     *)
EntradasSemSocket(i, j, s) ==
    [connBrokers EXCEPT ![<<i, j>>] = IF @ = s THEN Nenhum ELSE @]
EntradaFica(i, j, s) == connBrokers

(* delete(connBrokers, id): whichever socket the entry names. *)
EntradasSem(i, j, s) == [connBrokers EXCEPT ![<<i, j>>] = Nenhum]

(* A mutant of DepoisDeLer, which keeps the ended socket at hand. *)
DepoisDeLerGuarda(d, s) ==
    IF d = Lendo(s) THEN [d EXCEPT !.passo = "olhar"] ELSE d

(* The goroutine that was reading from s starts over. *)
DepoisDeLer(d, s) == IF d = Lendo(s) THEN Olhando ELSE d

(* Decode fails at i as one of the ends has closed the socket.  Silence    *)
(* closes nothing: only the own end is noticed then.                       *)
LeituraAcabou(i, j, s) ==
    /\ conexao[s].pontas = {i, j}
    /\ \/ i \notin conexao[s].abertas
       \/ j \notin conexao[s].abertas /\ ~ conexao[s].muda

(* The reader of s at i ends and takes the entry for the peer with it.     *)
(* Nobody at i uses its end any more.                                      *)
FimLeitura(i, j, s) ==
    /\ s \in leitores[i]
    /\ LeituraAcabou(i, j, s)
    /\ leitores' = [leitores EXCEPT ![i] = @ \ {s}]
    /\ connBrokers' = EntradasSem(i, j, s)
    /\ ultimoHB' = [ultimoHB EXCEPT ![<<i, j>>] = FALSE]
    /\ discador' = [discador EXCEPT ![<<i, j>>] = DepoisDeLer(@, s)]
    /\ conexao' = [conexao EXCEPT ![s].abertas = @ \ {i}]
    /\ UNCHANGED <<handshakes, mortos, falhas>>

(***************************************************************************)
(* Heartbeats                                                              *)
(***************************************************************************)

(* A HEARTBEAT or PONG from j, which needs no entry at i to be recorded. *)
RegistrarHB(i, j) ==
    /\ ~ ultimoHB[<<i, j>>]
    /\ Ouve(i, j)
    /\ ultimoHB' = [ultimoHB EXCEPT ![<<i, j>>] = TRUE]
    /\ UNCHANGED <<conexao, handshakes, connBrokers, leitores, discador, mortos, falhas>>

(* A socket not stored yet, a handshake on its way, an end not noticed yet: *)
(* the twelve seconds of timeoutHeartbeat do not pass while one is pending. *)
Pendente(i, j) ==
    \/ discador[<<i, j>>].passo = "guardar"
    \/ \E s \in handshakes[<<i, j>>] : ~ conexao[s].muda
    \/ \E s \in leitores[i] : LeituraAcabou(i, j, s)

(* monitorarPeers lists the peers that have been silent for too long ... *)
ListarMortos(i) ==
    LET silenciosos == {j \in Brokers \ {i} :
                          /\ ultimoHB[<<i, j>>]
                          /\ ~ Ouve(i, j)
                          /\ ~ Pendente(i, j)
                          /\ ~ Pendente(j, i)} IN
    /\ mortos[i] = {}
    /\ silenciosos # {}
    /\ mortos' = [mortos EXCEPT ![i] = silenciosos]
    /\ UNCHANGED <<conexao, handshakes, connBrokers, ultimoHB, leitores, discador, falhas>>

(* ... and removes them one by one, each under the lock again, without     *)
(* looking whether the entry is still the silent one.                      *)
RemoverMorto(i, j) ==
    LET s == connBrokers[<<i, j>>] IN
    /\ j \in mortos[i]
    /\ mortos' = [mortos EXCEPT ![i] = @ \ {j}]
    /\ conexao' = IF s = Nenhum THEN conexao
                  ELSE [conexao EXCEPT ![s].abertas = @ \ {i}]
    /\ connBrokers' = [connBrokers EXCEPT ![<<i, j>>] = Nenhum]
    /\ ultimoHB' = [ultimoHB EXCEPT ![<<i, j>>] = FALSE]
    /\ UNCHANGED <<handshakes, leitores, discador, falhas>>

(***************************************************************************)
(* Failures                                                                *)
(***************************************************************************)
EmUso == {s \in Sockets : ~ Livre(s)}

(* The network resets a connection: both ends notice. *)
Romper(s) ==
    /\ falhas < MaxFalhas
    /\ s \in EmUso
    /\ conexao[s].abertas # {}
    /\ conexao' = [conexao EXCEPT ![s].abertas = {}]
    /\ falhas' = falhas + 1
    /\ UNCHANGED <<handshakes, connBrokers, ultimoHB, leitores, discador, mortos>>

(* The network swallows what is sent on a connection: no end notices. *)
Emudecer(s) ==
    /\ falhas < MaxFalhas
    /\ s \in EmUso
    /\ ~ conexao[s].muda
    /\ conexao' = [conexao EXCEPT ![s].muda = TRUE]
    /\ falhas' = falhas + 1
    /\ UNCHANGED <<handshakes, connBrokers, ultimoHB, leitores, discador, mortos>>

(* A broker stops, which closes its sockets, and starts again. *)
Reiniciar(i) ==
    LET de(f, valor) == [p \in Pares |-> IF p[1] = i THEN valor ELSE f[p]] IN
    /\ falhas < MaxFalhas
    /\ conexao' = [s \in Sockets |-> [conexao[s] EXCEPT !.abertas = @ \ {i}]]
    /\ handshakes' = [p \in Pares |-> IF p[2] = i THEN {} ELSE handshakes[p]]
    /\ connBrokers' = de(connBrokers, Nenhum)
    /\ ultimoHB' = de(ultimoHB, FALSE)
    /\ discador' = de(discador, Olhando)
    /\ leitores' = [leitores EXCEPT ![i] = {}]
    /\ mortos' = [mortos EXCEPT ![i] = {}]
    /\ falhas' = falhas + 1

-----------------------------------------------------------------------------
Falha ==
    \/ \E s \in Sockets : Romper(s) \/ Emudecer(s)
    \/ \E i \in Brokers : Reiniciar(i)

Manter(i, j) == Olhar(i, j) \/ Discar(i, j) \/ Guardar(i, j)
Monitorar(i, j) == ListarMortos(i) \/ RemoverMorto(i, j)

Next ==
    \/ \E p \in Pares : \/ Manter(p[1], p[2])
                        \/ Monitorar(p[1], p[2])
                        \/ RegistrarHB(p[1], p[2])
                        \/ \E s \in Sockets : \/ HandleConexao(p[1], p[2], s)
                                              \/ FimLeitura(p[1], p[2], s)
    \/ Falha

(* Every goroutine runs: those that dial, accept, read and watch.  Nothing *)
(* is assumed of the failures.                                             *)
Justica ==
    \A p \in Pares :
        /\ WF_vars(Manter(p[1], p[2]))
        /\ SF_vars(Monitorar(p[1], p[2]))
        /\ WF_vars(RegistrarHB(p[1], p[2]))
        /\ \A s \in Sockets : /\ WF_vars(HandleConexao(p[1], p[2], s))
                              /\ WF_vars(FimLeitura(p[1], p[2], s))

Spec == Init /\ [][Next]_vars
SpecJusta == Spec /\ Justica

-----------------------------------------------------------------------------
(* What removes an entry is its socket's reader or the monitor, so an      *)
(* entry must have both: its socket joins the two brokers, is being read   *)
(* at this end (manterConexaoPeer, handleConexao), and the peer is among   *)
(* those monitorarPeers watches.  It has to hold although every reader     *)
(* that ends deletes the peer's entry, whichever socket that names, and    *)
(* although the monitor acts on a list made earlier.                       *)
EntradaComLeitor ==
    \A p \in Pares :
        connBrokers[p] # Nenhum =>
            /\ conexao[connBrokers[p]].pontas = {p[1], p[2]}
            /\ connBrokers[p] \in leitores[p[1]]
            /\ ultimoHB[p]

Silencio == \E s \in Sockets : conexao[s].muda

(* "tentando reconectar infinitamente caso um broker vizinho caia": when   *)
(* connections break or brokers restart, but none falls silent, two peers  *)
(* are never cut off for good - over and over one of them reaches the      *)
(* other (manterConexaoPeer, removerConexao).                              *)
AlguemVolta ==
    [](~ Silencio) => []<>(\E p \in Pares : Alcanca(p[1], p[2]))

(* An entry whose socket the peer or the network has closed does not stay: *)
(* the end of the reader or the next connection takes it away, unless the  *)
(* network falls silent before the end is noticed.                         *)
QuebraNotada ==
    \A p \in Pares : \A s \in Sockets :
        (connBrokers[p] = s /\ LeituraAcabou(p[1], p[2], s))
            ~> (connBrokers[p] # s \/ conexao[s].muda)

(* "heartbeat e reconexão automática" (README), and the refusal by id that *)
(* "evita criar conexões cruzadas": brokers that nothing disturbs come to  *)
(* reach each other for good.  The refusal closes the second socket; the   *)
(* dialler's reader ends and deletes the entry of the first one, so that   *)
(* it dials again and is refused again, for ever.                          *)
ConexaoDeVez == <>[](\A p \in Pares : Alcanca(p[1], p[2]))

=============================================================================
