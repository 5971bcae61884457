--------------------------- MODULE ConexoesProofs ---------------------------
(***************************************************************************)
(* Theorems about Conexoes, for any brokers, sockets and failures: types,  *)
(* and that every entry of connBrokers is read and watched.                *)
(***************************************************************************)
EXTENDS Conexoes, TLAPS

(* Sockets a goroutine still holds join the two brokers it holds them for, *)
(* so that no other reader's end and no other dial touches them.           *)
Juntam ==
    \A p \in Pares :
        /\ \A s \in handshakes[p] : conexao[s].pontas = {p[1], p[2]}
        /\ discador[p].con # Nenhum =>
               conexao[discador[p].con].pontas = {p[1], p[2]}

IInv == TypeOK /\ Juntam /\ EntradaComLeitor

LEMMA SocketNaoNenhum == Nenhum \notin Sockets
BY LimitesAssumption DEF Nenhum, Sockets

(* The initial state satisfies the invariant. *)
LEMMA InitIInv == Init => IInv
BY LimitesAssumption, SocketNaoNenhum
   DEF Init, IInv, TypeOK, Juntam, EntradaComLeitor, Discador, Olhando

LEMMA OlharIInv ==
    ASSUME IInv, NEW i \in Brokers, NEW j \in Brokers, i # j, Olhar(i, j)
    PROVE  IInv'
<1>1. <<i, j>> \in Pares
  BY DEF Pares
<1>3. TypeOK'
  BY <1>1 DEF Olhar, IInv, TypeOK, Discador, Discando
<1>4. Juntam'
  <2> SUFFICES ASSUME NEW p \in Pares
               PROVE  /\ \A t \in handshakes'[p] : conexao'[t].pontas = {p[1], p[2]}
                      /\ discador'[p].con # Nenhum =>
                             conexao'[discador'[p].con].pontas = {p[1], p[2]}
    BY DEF Juntam
  <2>1. discador'[p].con # Nenhum => discador'[p] = discador[p]
    BY <1>1 DEF Olhar, IInv, TypeOK, Discando
  <2> QED
    BY <2>1 DEF Olhar, IInv, Juntam
<1>5. EntradaComLeitor'
  BY DEF Olhar, IInv, EntradaComLeitor
<1> QED
  BY <1>3, <1>4, <1>5 DEF IInv

LEMMA DiscarIInv ==
    ASSUME IInv, NEW i \in Brokers, NEW j \in Brokers, i # j, Discar(i, j)
    PROVE  IInv'
<1>1. <<i, j>> \in Pares
  BY DEF Pares
<1>2. PICK s \in Sockets :
        /\ Livre(s)
        /\ conexao' = [conexao EXCEPT ![s] =
                          [pontas |-> {i, j}, abertas |-> {i, j}, muda |-> FALSE]]
        /\ handshakes' = [handshakes EXCEPT ![<<i, j>>] = @ \cup {s}]
        /\ discador' = [discador EXCEPT ![<<i, j>>] = Guardando(s)]
  BY DEF Discar
<1>3. TypeOK'
  <2>1. [pontas |-> {i, j}, abertas |-> {i, j}, muda |-> FALSE]
            \in [pontas : SUBSET Brokers, abertas : SUBSET Brokers, muda : BOOLEAN]
    OBVIOUS
  <2>2. conexao' \in [Sockets -> [pontas : SUBSET Brokers, abertas : SUBSET Brokers,
                                  muda : BOOLEAN]]
    BY <1>2, <2>1 DEF IInv, TypeOK
  <2>3. Guardando(s) \in Discador
    BY DEF Guardando, Discador
  <2>4. discador' \in [Pares -> Discador] /\ handshakes' \in [Pares -> SUBSET Sockets]
    BY <1>1, <1>2, <2>3 DEF IInv, TypeOK
  <2> QED
    BY <2>2, <2>4 DEF Discar, IInv, TypeOK
<1>4. Juntam'
  <2> SUFFICES ASSUME NEW p \in Pares
               PROVE  /\ \A t \in handshakes'[p] : conexao'[t].pontas = {p[1], p[2]}
                      /\ discador'[p].con # Nenhum =>
                             conexao'[discador'[p].con].pontas = {p[1], p[2]}
    BY DEF Juntam
  <2>1. \A t \in handshakes[p] : t \in Sockets /\ t # s
    BY <1>2 DEF Livre, IInv, TypeOK
  <2>2. discador[p].con # Nenhum => discador[p].con \in Sockets /\ discador[p].con # s
    BY <1>2 DEF Livre, IInv, TypeOK, Discador
  <2>3. conexao'[s].pontas = {i, j}
    BY <1>2 DEF IInv, TypeOK
  <2>4. \A t \in Sockets \ {s} : conexao'[t] = conexao[t]
    BY <1>2 DEF IInv, TypeOK
  <2>5. CASE p = <<i, j>>
    <3>1. handshakes'[p] = handshakes[p] \cup {s} /\ discador'[p].con = s
      BY <1>1, <1>2, <2>5 DEF IInv, TypeOK, Guardando
    <3>2. p[1] = i /\ p[2] = j
      BY <2>5
    <3> QED
      BY <2>1, <2>3, <2>4, <3>1, <3>2 DEF IInv, Juntam
  <2>6. CASE p # <<i, j>>
    <3>1. handshakes'[p] = handshakes[p] /\ discador'[p] = discador[p]
      BY <1>1, <1>2, <2>6 DEF IInv, TypeOK
    <3> QED
      BY <2>1, <2>2, <2>4, <3>1 DEF IInv, Juntam
  <2> QED
    BY <2>5, <2>6
<1>5. EntradaComLeitor'
  <2>1. \A p \in Pares : connBrokers[p] # Nenhum =>
            connBrokers[p] \in Sockets \ {s}
    BY <1>2 DEF Livre, IInv, TypeOK
  <2> QED
    BY <1>2, <2>1 DEF Discar, IInv, EntradaComLeitor, TypeOK
<1> QED
  BY <1>3, <1>4, <1>5 DEF IInv

LEMMA GuardarIInv ==
    ASSUME IInv, NEW i \in Brokers, NEW j \in Brokers, i # j, Guardar(i, j)
    PROVE  IInv'
<1> DEFINE s == discador[<<i, j>>].con
<1>1. <<i, j>> \in Pares
  BY DEF Pares
<1>2. s \in Sockets /\ conexao[s].pontas = {i, j}
  BY <1>1, SocketNaoNenhum DEF Guardar, IInv, TypeOK, Juntam, Discador
<1>4. TypeOK'
  BY <1>1, <1>2 DEF Guardar, IInv, TypeOK, Discador, Lendo
<1>5. Juntam'
  <2> SUFFICES ASSUME NEW p \in Pares
               PROVE  /\ \A t \in handshakes'[p] : conexao'[t].pontas = {p[1], p[2]}
                      /\ discador'[p].con # Nenhum =>
                             conexao'[discador'[p].con].pontas = {p[1], p[2]}
    BY DEF Juntam
  <2>1. discador'[p].con = discador[p].con
    BY <1>1 DEF Guardar, IInv, TypeOK, Lendo
  <2> QED
    BY <2>1 DEF Guardar, IInv, Juntam
<1>6. EntradaComLeitor'
  <2> SUFFICES ASSUME NEW p \in Pares, connBrokers'[p] # Nenhum
               PROVE  /\ conexao'[connBrokers'[p]].pontas = {p[1], p[2]}
                      /\ connBrokers'[p] \in leitores'[p[1]]
                      /\ ultimoHB'[p]
    BY DEF EntradaComLeitor
  <2>1. CASE p = <<i, j>>
    BY <1>1, <1>2, <2>1 DEF Guardar, IInv, TypeOK
  <2>2. CASE p # <<i, j>>
    <3>1. connBrokers'[p] = connBrokers[p] /\ ultimoHB'[p] = ultimoHB[p]
      BY <1>1, <2>2 DEF Guardar, IInv, TypeOK
    <3>2. leitores[p[1]] \subseteq leitores'[p[1]]
      BY DEF Guardar, IInv, TypeOK, Pares
    <3> QED
      BY <3>1, <3>2 DEF Guardar, IInv, EntradaComLeitor
  <2> QED
    BY <2>1, <2>2
<1> QED
  BY <1>4, <1>5, <1>6 DEF IInv

LEMMA HandleConexaoIInv ==
    ASSUME IInv, NEW i \in Brokers, NEW j \in Brokers, i # j, NEW s \in Sockets,
           HandleConexao(i, j, s)
    PROVE  IInv'
<1>1. <<i, j>> \in Pares /\ <<j, i>> \in Pares
  BY DEF Pares
<1>2. s \in handshakes[<<j, i>>] /\ conexao[s].pontas = {i, j}
  BY <1>1 DEF HandleConexao, IInv, Juntam
<1>3. handshakes' \in [Pares -> SUBSET Sockets]
      /\ \A p \in Pares : handshakes'[p] \subseteq handshakes[p]
  BY <1>1 DEF HandleConexao, IInv, TypeOK
<1>4. CASE RecusaCruzada(i, j)
  <2>1. conexao' = [conexao EXCEPT ![s].abertas = @ \ {i}]
        /\ UNCHANGED <<connBrokers, ultimoHB, leitores, discador, mortos, falhas>>
    BY <1>4 DEF HandleConexao
  <2>2. conexao' \in [Sockets -> [pontas : SUBSET Brokers, abertas : SUBSET Brokers,
                                  muda : BOOLEAN]]
        /\ \A t \in Sockets : conexao'[t].pontas = conexao[t].pontas
    BY <2>1 DEF IInv, TypeOK
  <2>3. TypeOK'
    BY <1>3, <2>1, <2>2 DEF IInv, TypeOK
  <2>4. Juntam'
    BY <1>3, <2>1, <2>2 DEF IInv, TypeOK, Juntam, Discador
  <2>5. EntradaComLeitor'
    BY <2>1, <2>2 DEF IInv, TypeOK, EntradaComLeitor
  <2> QED
    BY <2>3, <2>4, <2>5 DEF IInv
<1>5. CASE ~ RecusaCruzada(i, j)
  <2>1. /\ connBrokers' = [connBrokers EXCEPT ![<<i, j>>] = s]
        /\ ultimoHB' = [ultimoHB EXCEPT ![<<i, j>>] = TRUE]
        /\ leitores' = [leitores EXCEPT ![i] = @ \cup {s}]
        /\ UNCHANGED <<conexao, discador, mortos, falhas>>
    BY <1>5 DEF HandleConexao
  <2>2. TypeOK'
    BY <1>3, <2>1 DEF IInv, TypeOK
  <2>3. Juntam'
    BY <1>3, <2>1 DEF IInv, Juntam
  <2>4. EntradaComLeitor'
    <3> SUFFICES ASSUME NEW p \in Pares, connBrokers'[p] # Nenhum
                 PROVE  /\ conexao'[connBrokers'[p]].pontas = {p[1], p[2]}
                        /\ connBrokers'[p] \in leitores'[p[1]]
                        /\ ultimoHB'[p]
      BY DEF EntradaComLeitor
    <3>1. CASE p = <<i, j>>
      BY <1>1, <1>2, <2>1, <3>1 DEF IInv, TypeOK
    <3>2. CASE p # <<i, j>>
      <4>1. connBrokers'[p] = connBrokers[p] /\ ultimoHB'[p] = ultimoHB[p]
        BY <1>1, <2>1, <3>2 DEF IInv, TypeOK
      <4>2. leitores[p[1]] \subseteq leitores'[p[1]]
        BY <2>1 DEF IInv, TypeOK, Pares
      <4> QED
        BY <2>1, <4>1, <4>2 DEF IInv, EntradaComLeitor
    <3> QED
      BY <3>1, <3>2
  <2> QED
    BY <2>2, <2>3, <2>4 DEF IInv
<1> QED
  BY <1>4, <1>5

LEMMA FimLeituraIInv ==
    ASSUME IInv, NEW i \in Brokers, NEW j \in Brokers, i # j, NEW s \in Sockets,
           FimLeitura(i, j, s)
    PROVE  IInv'
<1>1. <<i, j>> \in Pares
  BY DEF Pares
<1>2. conexao[s].pontas = {i, j}
  BY DEF FimLeitura, LeituraAcabou
<1>3. conexao' \in [Sockets -> [pontas : SUBSET Brokers, abertas : SUBSET Brokers,
                                muda : BOOLEAN]]
      /\ \A t \in Sockets : conexao'[t].pontas = conexao[t].pontas
  BY DEF FimLeitura, IInv, TypeOK
<1>4. discador' \in [Pares -> Discador]
      /\ \A p \in Pares : discador'[p] = discador[p] \/ discador'[p] = Olhando
  <2>1. DepoisDeLer(discador[<<i, j>>], s) \in {discador[<<i, j>>], Olhando}
    BY DEF DepoisDeLer
  <2>2. Olhando \in Discador
    BY DEF Olhando, Discador
  <2> QED
    BY <1>1, <2>1, <2>2 DEF FimLeitura, IInv, TypeOK
<1>5. TypeOK'
  BY <1>1, <1>3, <1>4 DEF FimLeitura, EntradasSem, IInv, TypeOK
<1>6. Juntam'
  <2> SUFFICES ASSUME NEW p \in Pares
               PROVE  /\ \A t \in handshakes'[p] : conexao'[t].pontas = {p[1], p[2]}
                      /\ discador'[p].con # Nenhum =>
                             conexao'[discador'[p].con].pontas = {p[1], p[2]}
    BY DEF Juntam
  <2>1. discador'[p].con # Nenhum => discador'[p] = discador[p]
    BY <1>4 DEF Olhando
  <2>2. discador[p].con \in Sockets \cup {Nenhum} /\ handshakes[p] \subseteq Sockets
    BY DEF IInv, TypeOK, Discador
  <2> QED
    BY <1>3, <2>1, <2>2 DEF FimLeitura, IInv, Juntam
<1>7. EntradaComLeitor'
  <2> SUFFICES ASSUME NEW p \in Pares, connBrokers'[p] # Nenhum
               PROVE  /\ conexao'[connBrokers'[p]].pontas = {p[1], p[2]}
                      /\ connBrokers'[p] \in leitores'[p[1]]
                      /\ ultimoHB'[p]
    BY DEF EntradaComLeitor
  <2>1. p # <<i, j>> /\ connBrokers'[p] = connBrokers[p] /\ ultimoHB'[p] = ultimoHB[p]
    BY <1>1 DEF FimLeitura, EntradasSem, IInv, TypeOK
  <2>2. /\ connBrokers[p] \in Sockets
        /\ conexao[connBrokers[p]].pontas = {p[1], p[2]}
        /\ connBrokers[p] \in leitores[p[1]]
        /\ ultimoHB[p]
    BY <2>1 DEF IInv, TypeOK, EntradaComLeitor
  <2>3. connBrokers[p] # s \/ p[1] # i
    BY <1>2, <2>1, <2>2 DEF Pares
  <2>4. connBrokers[p] \in leitores'[p[1]]
    BY <2>2, <2>3 DEF FimLeitura, IInv, TypeOK, Pares
  <2> QED
    BY <1>3, <2>1, <2>2, <2>4
<1> QED
  BY <1>5, <1>6, <1>7 DEF IInv

LEMMA RegistrarHBIInv ==
    ASSUME IInv, NEW i \in Brokers, NEW j \in Brokers, i # j, RegistrarHB(i, j)
    PROVE  IInv'
<1>1. <<i, j>> \in Pares
  BY DEF Pares
<1>2. TypeOK'
  BY <1>1 DEF RegistrarHB, IInv, TypeOK
<1>3. Juntam'
  BY DEF RegistrarHB, IInv, Juntam
<1>4. EntradaComLeitor'
  BY <1>1 DEF RegistrarHB, IInv, TypeOK, EntradaComLeitor
<1> QED
  BY <1>2, <1>3, <1>4 DEF IInv

LEMMA ListarMortosIInv ==
    ASSUME IInv, NEW i \in Brokers, ListarMortos(i)
    PROVE  IInv'
<1>1. TypeOK'
  BY DEF ListarMortos, IInv, TypeOK
<1>2. Juntam' /\ EntradaComLeitor'
  BY DEF ListarMortos, IInv, Juntam, EntradaComLeitor
<1> QED
  BY <1>1, <1>2 DEF IInv

LEMMA RemoverMortoIInv ==
    ASSUME IInv, NEW i \in Brokers, NEW j \in Brokers, i # j, RemoverMorto(i, j)
    PROVE  IInv'
<1>1. <<i, j>> \in Pares
  BY DEF Pares
<1>2. connBrokers[<<i, j>>] \in Sockets \cup {Nenhum}
  BY <1>1 DEF IInv, TypeOK
<1>3. conexao' \in [Sockets -> [pontas : SUBSET Brokers, abertas : SUBSET Brokers,
                                muda : BOOLEAN]]
      /\ \A t \in Sockets : conexao'[t].pontas = conexao[t].pontas
  <2>1. CASE connBrokers[<<i, j>>] = Nenhum
    BY <2>1 DEF RemoverMorto, IInv, TypeOK
  <2>2. ASSUME NEW s \in Sockets, s = connBrokers[<<i, j>>], s # Nenhum
        PROVE  /\ conexao' \in [Sockets -> [pontas : SUBSET Brokers,
                                            abertas : SUBSET Brokers, muda : BOOLEAN]]
               /\ \A t \in Sockets : conexao'[t].pontas = conexao[t].pontas
    <3>1. conexao' = [conexao EXCEPT ![s].abertas = @ \ {i}]
      BY <2>2 DEF RemoverMorto
    <3> QED
      BY <3>1 DEF IInv, TypeOK
  <2> QED
    BY <1>2, <2>1, <2>2
<1>4. TypeOK'
  BY <1>1, <1>3 DEF RemoverMorto, IInv, TypeOK
<1>5. Juntam'
  BY <1>3 DEF RemoverMorto, IInv, TypeOK, Juntam, Discador
<1>6. EntradaComLeitor'
  <2> SUFFICES ASSUME NEW p \in Pares, connBrokers'[p] # Nenhum
               PROVE  /\ conexao'[connBrokers'[p]].pontas = {p[1], p[2]}
                      /\ connBrokers'[p] \in leitores'[p[1]]
                      /\ ultimoHB'[p]
    BY DEF EntradaComLeitor
  <2>1. connBrokers'[p] = connBrokers[p] /\ ultimoHB'[p] = ultimoHB[p]
    BY <1>1 DEF RemoverMorto, IInv, TypeOK
  <2>2. connBrokers[p] \in Sockets
    BY <2>1 DEF IInv, TypeOK
  <2> QED
    BY <1>3, <2>1, <2>2 DEF RemoverMorto, IInv, EntradaComLeitor
<1> QED
  BY <1>4, <1>5, <1>6 DEF IInv

LEMMA FalhaIInv ==
    ASSUME IInv, Falha
    PROVE  IInv'
<1>1. ASSUME NEW s \in Sockets, Romper(s) \/ Emudecer(s)
      PROVE  IInv'
  <2>1. conexao' \in [Sockets -> [pontas : SUBSET Brokers, abertas : SUBSET Brokers,
                                  muda : BOOLEAN]]
        /\ \A t \in Sockets : conexao'[t].pontas = conexao[t].pontas
    <3>1. CASE Romper(s)
      BY <3>1 DEF Romper, IInv, TypeOK
    <3>2. CASE Emudecer(s)
      <4>1. conexao' = [conexao EXCEPT ![s].muda = TRUE]
        BY <3>2 DEF Emudecer
      <4>2. conexao \in [Sockets -> [pontas : SUBSET Brokers, abertas : SUBSET Brokers,
                                     muda : BOOLEAN]]
        BY DEF IInv, TypeOK
      <4> QED
        BY <4>1, <4>2
    <3> QED
      BY <1>1, <3>1, <3>2
  <2>2. /\ UNCHANGED <<handshakes, connBrokers, ultimoHB, leitores, discador, mortos>>
        /\ falhas' = falhas + 1 /\ falhas < MaxFalhas
    BY <1>1 DEF Romper, Emudecer
  <2>3. TypeOK'
    BY <2>1, <2>2, LimitesAssumption DEF IInv, TypeOK
  <2>4. Juntam'
    BY <2>1, <2>2 DEF IInv, TypeOK, Juntam, Discador
  <2>5. EntradaComLeitor'
    BY <2>1, <2>2 DEF IInv, TypeOK, EntradaComLeitor
  <2> QED
    BY <2>3, <2>4, <2>5 DEF IInv
<1>2. ASSUME NEW i \in Brokers, Reiniciar(i)
      PROVE  IInv'
  <2>1. conexao' \in [Sockets -> [pontas : SUBSET Brokers, abertas : SUBSET Brokers,
                                  muda : BOOLEAN]]
        /\ \A t \in Sockets : conexao'[t].pontas = conexao[t].pontas
    <3>1. conexao' = [s \in Sockets |-> [conexao[s] EXCEPT !.abertas = @ \ {i}]]
      BY <1>2 DEF Reiniciar
    <3>2. conexao \in [Sockets -> [pontas : SUBSET Brokers, abertas : SUBSET Brokers,
                                   muda : BOOLEAN]]
      BY DEF IInv, TypeOK
    <3> QED
      BY <3>1, <3>2
  <2>2. Olhando \in Discador
    BY DEF Olhando, Discador
  <2>3. TypeOK'
    <3>1. handshakes' \in [Pares -> SUBSET Sockets] /\ ultimoHB' \in [Pares -> BOOLEAN]
      BY <1>2 DEF Reiniciar, IInv, TypeOK
    <3>2. connBrokers' \in [Pares -> Sockets \cup {Nenhum}]
      BY <1>2 DEF Reiniciar, IInv, TypeOK
    <3>3. discador' \in [Pares -> Discador]
      BY <1>2, <2>2 DEF Reiniciar, IInv, TypeOK
    <3>4. /\ leitores' \in [Brokers -> SUBSET Sockets]
          /\ mortos' \in [Brokers -> SUBSET Brokers]
      BY <1>2 DEF Reiniciar, IInv, TypeOK
    <3>5. falhas' \in 0..MaxFalhas
      BY <1>2, LimitesAssumption DEF Reiniciar, IInv, TypeOK
    <3> QED
      BY <2>1, <3>1, <3>2, <3>3, <3>4, <3>5 DEF TypeOK
  <2>4. Juntam'
    <3> SUFFICES ASSUME NEW p \in Pares
                 PROVE  /\ \A t \in handshakes'[p] : conexao'[t].pontas = {p[1], p[2]}
                        /\ discador'[p].con # Nenhum =>
                               conexao'[discador'[p].con].pontas = {p[1], p[2]}
      BY DEF Juntam
    <3>1. discador'[p].con # Nenhum => discador'[p] = discador[p]
      BY <1>2 DEF Reiniciar, Olhando
    <3>2. handshakes'[p] \subseteq handshakes[p]
      BY <1>2 DEF Reiniciar
    <3>3. discador[p].con \in Sockets \cup {Nenhum} /\ handshakes[p] \subseteq Sockets
      BY DEF IInv, TypeOK, Discador
    <3> QED
      BY <2>1, <3>1, <3>2, <3>3 DEF IInv, Juntam
  <2>5. EntradaComLeitor'
    <3> SUFFICES ASSUME NEW p \in Pares, connBrokers'[p] # Nenhum
                 PROVE  /\ conexao'[connBrokers'[p]].pontas = {p[1], p[2]}
                        /\ connBrokers'[p] \in leitores'[p[1]]
                        /\ ultimoHB'[p]
      BY DEF EntradaComLeitor
    <3>1. p[1] # i /\ connBrokers'[p] = connBrokers[p] /\ ultimoHB'[p] = ultimoHB[p]
      BY <1>2 DEF Reiniciar
    <3>2. leitores'[p[1]] = leitores[p[1]]
      BY <1>2, <3>1 DEF Reiniciar, IInv, TypeOK, Pares
    <3>3. connBrokers[p] \in Sockets
      BY <3>1 DEF IInv, TypeOK
    <3> QED
      BY <2>1, <3>1, <3>2, <3>3 DEF IInv, EntradaComLeitor
  <2> QED
    BY <2>3, <2>4, <2>5 DEF IInv
<1> QED
  BY <1>1, <1>2 DEF Falha

(* Every step preserves the invariant. *)
LEMMA NextIInv ==
    ASSUME IInv, [Next]_vars
    PROVE  IInv'
<1>1. ASSUME NEW p \in Pares, Manter(p[1], p[2]) \/ Monitorar(p[1], p[2])
                               \/ RegistrarHB(p[1], p[2])
      PROVE  IInv'
  <2>1. p[1] \in Brokers /\ p[2] \in Brokers /\ p[1] # p[2]
    BY DEF Pares
  <2> QED
    BY <1>1, <2>1, OlharIInv, DiscarIInv, GuardarIInv, RegistrarHBIInv, ListarMortosIInv,
       RemoverMortoIInv DEF Manter, Monitorar
<1>2. ASSUME NEW p \in Pares, NEW s \in Sockets,
             HandleConexao(p[1], p[2], s) \/ FimLeitura(p[1], p[2], s)
      PROVE  IInv'
  <2>1. p[1] \in Brokers /\ p[2] \in Brokers /\ p[1] # p[2]
    BY DEF Pares
  <2> QED
    BY <1>2, <2>1, HandleConexaoIInv, FimLeituraIInv
<1>3. CASE UNCHANGED vars
  BY <1>3 DEF vars, IInv, TypeOK, Juntam, EntradaComLeitor
<1> QED
  BY <1>1, <1>2, <1>3, FalhaIInv DEF Next

(* Types hold in every state. *)
THEOREM ConexoesTypeOK == Spec => []TypeOK
<1>1. IInv => TypeOK
  BY DEF IInv
<1> QED
  BY <1>1, InitIInv, NextIInv, PTL DEF Spec

(* Whatever sockets cross, break or fall silent, an entry of connBrokers   *)
(* is read by a goroutine and watched by monitorarPeers, the two that take *)
(* it away (manterConexaoPeer, handleConexao, removerConexao).             *)
THEOREM EntradasTemLeitor == Spec => []EntradaComLeitor
<1>1. IInv => EntradaComLeitor
  BY DEF IInv
<1> QED
  BY <1>1, InitIInv, NextIInv, PTL DEF Spec
=============================================================================
