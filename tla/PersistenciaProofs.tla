------------------------- MODULE PersistenciaProofs -------------------------
(***************************************************************************)
(* Theorems about Persistencia, for any number of savers, files, commits   *)
(* and stops: types; without two savers at once the file is whole and up   *)
(* to date; the balances are those of the chain unless one of three things *)
(* has happened; and what the restarts can lose is bounded.                *)
(***************************************************************************)
EXTENDS Persistencia, LedgerProofs, TLAPS

(* A stopped broker runs nothing. *)
ParadoSemGravador ==
    estado = "parado" => \A g \in Gravadores : gravador[g].passo = "livre"

Corrida == "corrida" \in furos

(* One saver at a time writes; its file is the temporary one, empty until  *)
(* it has written and its whole photograph afterwards.                     *)
UmEscreve == \A g, h \in Escrevendo : g = h

TmpDoGravador ==
    \A g \in Gravadores :
        /\ gravador[g].passo = "gravar" =>
               /\ nome.tmp # Nenhum
               /\ gravador[g].fd = nome.tmp
               /\ arquivo[nome.tmp].tipo = "vazio"
        /\ gravador[g].passo = "renomear" =>
               /\ nome.tmp # Nenhum
               /\ arquivo[nome.tmp] = gravador[g].foto

(* The two names are of two files, and the official one is whole. *)
NomesDistintos ==
    /\ nome.tmp # Nenhum => nome.tmp # nome.oficial
    /\ nome.oficial # Nenhum => arquivo[nome.oficial].tipo = "inteiro"

FotosInteiras == \A g \in Escrevendo : gravador[g].foto.tipo = "inteiro"

(* Unless a saver is still to take its photograph, the one that writes has *)
(* the chain in memory, and without one the file has it.                   *)
EmDia ==
    (estado # "parado" /\ \A g \in Gravadores : gravador[g].passo # "fotografar") =>
        /\ \A g \in Escrevendo : gravador[g].foto.blocos = blocos
        /\ Escrevendo = {} => Disco.blocos = blocos

Sozinho == UmEscreve /\ TmpDoGravador /\ NomesDistintos /\ FotosInteiras /\ EmDia

IInv == TypeOK /\ ParadoSemGravador /\ (~ Corrida => Sozinho)

LEMMA NenhumNaoEhInode == Nenhum \notin Inodes
BY InstanciaAssumption DEF Nenhum

LEMMA ConteudosBons ==
  /\ SaldosIniciais \in [Contas -> Int]
  /\ Vazio \in Conteudo
  /\ Misturado \in Conteudo
  /\ \A chain \in Seq(Bloco), s \in [Contas -> Int] : Foto(chain, s) \in Conteudo
<1>1. SaldosIniciais \in [Contas -> Int]
  BY CreditosAssumption DEF SaldosIniciais
<1>2. <<>> \in Seq(Bloco)
  OBVIOUS
<1> QED
  BY <1>1, <1>2 DEF Vazio, Misturado, Foto, Conteudo

LEMMA GravadoresBons ==
  /\ QualquerDado \in Propostas
  /\ Livre \in Gravador /\ Livre.passo = "livre"
  /\ \A depois \in {"nada", "aplicar", "sair", "ligar"}, d \in Propostas :
        /\ Salvar(depois, d) \in Gravador
        /\ Salvar(depois, d).passo = "fotografar"
<1>1. QualquerDado \in Propostas
  BY InstanciaAssumption DEF QualquerDado
<1>2. \A depois \in {"nada", "aplicar", "sair", "ligar"}, d \in Propostas :
        Salvar(depois, d) \in Gravador /\ Salvar(depois, d).passo = "fotografar"
  BY ConteudosBons DEF Salvar, Gravador
<1>3. Livre \in Gravador /\ Livre.passo = "livre"
  BY <1>1, ConteudosBons DEF Livre, Salvar, Gravador
<1> QED
  BY <1>1, <1>2, <1>3

(* Whatever a file held, it is a readable or an unreadable one afterwards; *)
(* an empty one holds the snapshot written.                                *)
LEMMA SobrescritoBom ==
  ASSUME NEW antigo \in Conteudo, NEW novo \in Conteudo
  PROVE  /\ Sobrescrito(antigo, novo) \subseteq Conteudo
         /\ antigo.tipo = "vazio" => Sobrescrito(antigo, novo) = {novo}
BY ConteudosBons DEF Sobrescrito

LEMMA InicioIInv == Init => IInv
<1> SUFFICES ASSUME Init PROVE IInv
  OBVIOUS
<1>1. TypeOK
  BY ConteudosBons, GravadoresBons, InstanciaAssumption DEF Init, TypeOK
<1>2. \A g \in Gravadores : gravador[g].passo = "livre"
  BY GravadoresBons DEF Init
<1>3. Escrevendo = {}
  BY <1>2 DEF Escrevendo
<1>4. Sozinho
  BY <1>2, <1>3 DEF Init, Sozinho, UmEscreve, TmpDoGravador, NomesDistintos,
     FotosInteiras, EmDia
<1> QED
  BY <1>1, <1>2, <1>4 DEF IInv, ParadoSemGravador

(* A change of the chain in memory, with a saver that is to photograph it. *)
LEMMA MudancaIInv ==
  ASSUME IInv, NEW g \in Gravadores, g \notin Ocupados, estado # "parado",
         NEW r \in Gravador, r.passo = "fotografar",
         gravador' = [gravador EXCEPT ![g] = r],
         blocos' \in Seq(Bloco), saldos' \in [Contas -> Int],
         proximo' \in 0..MaxCommits, paradas' \in 0..MaxParadas,
         estado' \in {"construindo", "ligado", "encerrando"},
         furos' \in {furos, furos \cup {"trocada"}},
         UNCHANGED discoVars
  PROVE  IInv'
<1> USE DEF discoVars
<1>1. TypeOK'
  BY DEF IInv, TypeOK
<1>2. gravador'[g].passo = "fotografar"
      /\ \A h \in Gravadores \ {g} : gravador'[h] = gravador[h]
  BY DEF IInv, TypeOK
<1>3. gravador[g].passo = "livre"
  BY DEF Ocupados
<1>4. Escrevendo' = Escrevendo /\ g \notin Escrevendo
  BY <1>2, <1>3 DEF Escrevendo
<1>5. ASSUME ~ Corrida' PROVE Sozinho'
  <2>1. Sozinho
    BY <1>5 DEF IInv, Corrida
  <2>2. UmEscreve' /\ FotosInteiras' /\ NomesDistintos'
    BY <1>2, <1>4, <2>1 DEF Sozinho, UmEscreve, FotosInteiras, NomesDistintos, Escrevendo
  <2>3. TmpDoGravador'
    BY <1>2, <2>1 DEF Sozinho, TmpDoGravador
  <2>4. EmDia'
    BY <1>2 DEF EmDia
  <2> QED
    BY <2>2, <2>3, <2>4 DEF Sozinho
<1> QED
  BY <1>1, <1>5 DEF IInv, ParadoSemGravador

LEMMA CommitarIInv ==
  ASSUME IInv, NEW g \in Gravadores, NEW d \in Propostas, CommitarBloco(g, d)
  PROVE  IInv'
<1> DEFINE b == [hash |-> proximo + 1, anterior |-> Ponta(blocos), dados |-> d,
                 autor |-> Autor, integro |-> TRUE]
           r == Salvar(IF d.tipo = "LAUDO" THEN "nada" ELSE "aplicar", d)
<1>1. blocos \in Seq(Bloco) /\ proximo \in 0..MaxCommits /\ MaxCommits \in 0..MaxBlocos
  BY InstanciaAssumption DEF IInv, TypeOK
<1>2. proximo + 1 \in 0..MaxCommits /\ proximo + 1 \in Hashes
  BY <1>1, MaxBlocosAssumption DEF CommitarBloco, Hashes
<1>3. b \in Bloco
  BY <1>1, <1>2, PontaEhHash, InstanciaAssumption DEF Bloco
<1>4. Append(blocos, b) \in Seq(Bloco)
  BY <1>1, <1>3
<1>5. r \in Gravador /\ r.passo = "fotografar"
  BY GravadoresBons
<1>6. /\ g \notin Ocupados /\ estado \in {"ligado", "encerrando"}
      /\ gravador' = [gravador EXCEPT ![g] = r]
      /\ blocos' = Append(blocos, b) /\ proximo' = proximo + 1
      /\ UNCHANGED <<saldos, discoVars, estado, paradas, furos>>
  BY DEF CommitarBloco, Funcionando, UmLivre
<1>7. saldos \in [Contas -> Int] /\ paradas \in 0..MaxParadas
  BY DEF IInv, TypeOK
<1> HIDE DEF b, r
<1> QED
  BY <1>2, <1>4, <1>5, <1>6, <1>7, MudancaIInv

LEMMA SubstituirIInv ==
  ASSUME IInv, NEW g \in Gravadores, NEW chain \in Recebidas, SubstituirChain(g, chain)
  PROVE  IInv'
<1> DEFINE r == Salvar("nada", QualquerDado)
<1>1. chain \in Seq(Bloco)
  BY InstanciaAssumption
<1>2. Replay(chain) \in [Contas -> Int]
  BY <1>1, ReplayEhInteiro
<1>3. r \in Gravador /\ r.passo = "fotografar"
  BY GravadoresBons
<1>4. /\ g \notin Ocupados /\ estado \in {"ligado", "encerrando"}
      /\ gravador' = [gravador EXCEPT ![g] = r]
      /\ blocos' = chain /\ saldos' = Replay(chain)
      /\ furos' \in {furos, furos \cup {"trocada"}}
      /\ UNCHANGED <<discoVars, proximo, estado, paradas>>
  BY DEF SubstituirChain, SalvarTroca, SaldosAoTrocar, Funcionando, UmLivre
<1>5. proximo \in 0..MaxCommits /\ paradas \in 0..MaxParadas
  BY DEF IInv, TypeOK
<1> HIDE DEF r
<1> QED
  BY <1>1, <1>2, <1>3, <1>4, <1>5, MudancaIInv

LEMMA EncerrarIInv ==
  ASSUME IInv, NEW g \in Gravadores, Encerrar(g)
  PROVE  IInv'
<1> DEFINE r == Salvar("sair", QualquerDado)
<1>1. r \in Gravador /\ r.passo = "fotografar"
  BY GravadoresBons
<1>2. paradas' \in 0..MaxParadas
  BY InstanciaAssumption DEF Encerrar, IInv, TypeOK
<1>3. /\ g \notin Ocupados /\ estado # "parado" /\ estado' = "encerrando"
      /\ gravador' = [gravador EXCEPT ![g] = r]
      /\ UNCHANGED <<blocos, saldos, proximo, discoVars, furos>>
  BY DEF Encerrar, UmLivre, memVars
<1>4. blocos \in Seq(Bloco) /\ saldos \in [Contas -> Int] /\ proximo \in 0..MaxCommits
  BY DEF IInv, TypeOK
<1> HIDE DEF r
<1> QED
  BY <1>1, <1>2, <1>3, <1>4, MudancaIInv

LEMMA IniciarDoZeroIInv ==
  ASSUME IInv, NEW g \in Gravadores, IniciarDoZero(g)
  PROVE  IInv'
<1> USE DEF discoVars
<1> DEFINE r == Salvar("ligar", QualquerDado)
<1>1. r \in Gravador /\ r.passo = "fotografar"
  BY GravadoresBons
<1>2. /\ gravador' = [gravador EXCEPT ![g] = r]
      /\ blocos' = <<>> /\ saldos' = SaldosIniciais /\ estado' = "construindo"
      /\ UNCHANGED <<proximo, discoVars, paradas, furos>>
  BY DEF IniciarDoZero
<1> HIDE DEF r
<1>3. <<>> \in Seq(Bloco)
  OBVIOUS
<1>4. TypeOK'
  BY <1>1, <1>2, <1>3, ConteudosBons DEF IInv, TypeOK
<1>5. gravador'[g].passo = "fotografar"
      /\ \A h \in Gravadores \ {g} : gravador'[h] = gravador[h]
  BY <1>1, <1>2 DEF IInv, TypeOK
<1>6. \A h \in Gravadores : gravador[h].passo = "livre"
  BY DEF IInv, ParadoSemGravador, IniciarDoZero
<1>7. Escrevendo' = {}
  BY <1>5, <1>6 DEF Escrevendo
<1>8. ASSUME ~ Corrida' PROVE Sozinho'
  <2>1. NomesDistintos
    BY <1>2, <1>8 DEF IInv, Corrida, Sozinho
  <2> QED
    BY <1>2, <1>5, <1>6, <1>7, <2>1 DEF Sozinho, UmEscreve, FotosInteiras, NomesDistintos,
       TmpDoGravador, EmDia
<1> QED
  BY <1>2, <1>4, <1>8 DEF IInv, ParadoSemGravador

(* Steps that stop every saver. *)
LEMMA PararIInv ==
  ASSUME IInv, estado' = "parado", gravador' = [g \in Gravadores |-> Livre],
         paradas' \in 0..MaxParadas, UNCHANGED <<memVars, arquivo, furos>>,
         nome' \in [{"tmp", "oficial"} -> Inodes \cup {Nenhum}],
         (~ Corrida) => NomesDistintos'
  PROVE  IInv'
<1> USE DEF memVars
<1>1. TypeOK'
  BY GravadoresBons DEF IInv, TypeOK
<1>2. \A g \in Gravadores : gravador'[g].passo = "livre"
  BY GravadoresBons
<1>3. Escrevendo' = {}
  BY <1>2 DEF Escrevendo
<1>4. ASSUME ~ Corrida' PROVE Sozinho'
  <2>1. NomesDistintos'
    BY <1>4 DEF Corrida
  <2> QED
    BY <1>2, <1>3, <2>1 DEF Sozinho, UmEscreve, FotosInteiras, TmpDoGravador, EmDia
<1> QED
  BY <1>1, <1>2, <1>4 DEF IInv, ParadoSemGravador

LEMMA CairIInv ==
  ASSUME IInv, Cair
  PROVE  IInv'
<1>1. paradas' \in 0..MaxParadas /\ nome \in [{"tmp", "oficial"} -> Inodes \cup {Nenhum}]
  BY InstanciaAssumption DEF Cair, IInv, TypeOK
<1>2. (~ Corrida) => NomesDistintos'
  BY DEF Cair, discoVars, IInv, Sozinho, NomesDistintos
<1> QED
  BY <1>1, <1>2, PararIInv DEF Cair, discoVars

LEMMA RestaurarIInv ==
  ASSUME IInv, Restaurar
  PROVE  IInv'
<1> USE DEF discoVars
<1>1. Disco \in Conteudo
  BY ConteudosBons DEF Disco, IInv, TypeOK
<1>2. TypeOK'
  BY <1>1 DEF Restaurar, SaldosRestaurados, Conteudo, IInv, TypeOK
<1>3. \A g \in Gravadores : gravador'[g].passo = "livre"
  BY DEF Restaurar, IInv, ParadoSemGravador
<1>4. Escrevendo' = {} /\ Disco' = Disco
  BY <1>3 DEF Escrevendo, Disco, Restaurar
<1>5. ASSUME ~ Corrida' PROVE Sozinho'
  <2>1. NomesDistintos
    BY <1>5 DEF Restaurar, Corrida, IInv, Sozinho
  <2> QED
    BY <1>3, <1>4, <2>1 DEF Restaurar, Sozinho, UmEscreve, FotosInteiras, TmpDoGravador,
       NomesDistintos, EmDia
<1> QED
  BY <1>2, <1>3, <1>5 DEF IInv, ParadoSemGravador

(* A saver that goes on: nobody else changes. *)
LEMMA FotografarIInv ==
  ASSUME IInv, NEW g \in Gravadores, Fotografar(g)
  PROVE  IInv'
<1> USE DEF memVars, discoVars
<1>1. Foto(blocos, saldos) \in Conteudo /\ Foto(blocos, saldos).tipo = "inteiro"
      /\ Foto(blocos, saldos).blocos = blocos
  BY ConteudosBons DEF Foto, IInv, TypeOK
<1>2. gravador[g] \in Gravador
  BY DEF IInv, TypeOK
<1>3. /\ gravador'[g].passo = "abrir" /\ gravador'[g].foto = Foto(blocos, saldos)
      /\ \A h \in Gravadores \ {g} : gravador'[h] = gravador[h]
      /\ gravador' \in [Gravadores -> Gravador]
  BY <1>1, <1>2 DEF Fotografar, Gravador, IInv, TypeOK
<1>4. furos' \in SUBSET {"corrida", "recusado", "trocada", "retomado"}
  BY DEF Fotografar, IInv, TypeOK
<1>5. TypeOK'
  BY <1>3, <1>4 DEF Fotografar, IInv, TypeOK
<1>6. ParadoSemGravador'
  BY DEF Fotografar, IInv, ParadoSemGravador
<1>7. ASSUME ~ Corrida' PROVE Sozinho'
  <2>1. Escrevendo = {} /\ ~ Corrida
    BY <1>7 DEF Fotografar, Corrida
  <2>2. Sozinho
    BY <2>1 DEF IInv
  <2>3. Escrevendo' = {g}
    BY <1>3, <2>1 DEF Escrevendo
  <2>4. \A h \in Gravadores : gravador'[h].passo \notin {"gravar", "renomear"}
    BY <1>3, <2>3 DEF Escrevendo
  <2>5. NomesDistintos'
    BY <2>2 DEF Sozinho, NomesDistintos, Fotografar
  <2>6. EmDia' /\ FotosInteiras' /\ UmEscreve'
    BY <1>1, <1>3, <2>3 DEF EmDia, FotosInteiras, UmEscreve, Fotografar
  <2> QED
    BY <2>4, <2>5, <2>6 DEF Sozinho, TmpDoGravador
<1> QED
  BY <1>5, <1>6, <1>7 DEF IInv

LEMMA AbrirIInv ==
  ASSUME IInv, NEW g \in Gravadores, Abrir(g)
  PROVE  IInv'
<1> USE DEF memVars, Destino
<1>1. PICK n \in Inodes :
        /\ IF nome.tmp # Nenhum THEN n = nome.tmp ELSE \A x \in DOMAIN nome : nome[x] # n
        /\ arquivo' = [arquivo EXCEPT ![n] = Vazio]
        /\ nome' = [nome EXCEPT !["tmp"] = n]
        /\ gravador' = [gravador EXCEPT ![g].passo = "gravar", ![g].fd = n]
  BY DEF Abrir
<1>2. gravador[g] \in Gravador /\ gravador[g].passo = "abrir" /\ n # Nenhum
  BY NenhumNaoEhInode DEF IInv, TypeOK, Abrir
<1>3. /\ gravador'[g].passo = "gravar" /\ gravador'[g].fd = n
      /\ gravador'[g].foto = gravador[g].foto
      /\ \A h \in Gravadores \ {g} : gravador'[h] = gravador[h]
      /\ gravador' \in [Gravadores -> Gravador]
  BY <1>1, <1>2 DEF Gravador, IInv, TypeOK
<1>4. /\ arquivo' \in [Inodes -> Conteudo]
      /\ nome' \in [{"tmp", "oficial"} -> Inodes \cup {Nenhum}]
      /\ nome'.tmp = n /\ nome'.oficial = nome.oficial
      /\ arquivo'[n].tipo = "vazio"
      /\ \A m \in Inodes \ {n} : arquivo'[m] = arquivo[m]
  BY <1>1, ConteudosBons DEF IInv, TypeOK, Vazio
<1>5. TypeOK'
  BY <1>3, <1>4 DEF Abrir, IInv, TypeOK
<1>6. ParadoSemGravador'
  BY DEF Abrir, IInv, ParadoSemGravador
<1>7. ASSUME ~ Corrida' PROVE Sozinho'
  <2>1. Sozinho
    BY <1>7 DEF Abrir, Corrida, IInv
  <2>2. Escrevendo = {g} /\ Escrevendo' = {g}
    BY <1>2, <1>3, <2>1 DEF Escrevendo, Sozinho, UmEscreve
  <2>3. UmEscreve' /\ FotosInteiras'
    BY <1>3, <2>1, <2>2 DEF Sozinho, UmEscreve, FotosInteiras
  <2>4. n # nome.oficial
    <3>1. DOMAIN nome = {"tmp", "oficial"}
      BY DEF IInv, TypeOK
    <3> QED
      BY <1>1, <2>1, <3>1 DEF Sozinho, NomesDistintos
  <2>5. nome.oficial \in Inodes \cup {Nenhum}
    BY DEF IInv, TypeOK
  <2>6. NomesDistintos'
    BY <1>4, <2>1, <2>4, <2>5 DEF Sozinho, NomesDistintos
  <2>7. \A h \in Gravadores : h # g => gravador'[h].passo \notin {"gravar", "renomear"}
    BY <2>2 DEF Escrevendo
  <2>8. TmpDoGravador'
    BY <1>2, <1>3, <1>4, <2>7 DEF TmpDoGravador
  <2>9. EmDia'
    <3>1. ASSUME (estado # "parado")',
                 (\A h \in Gravadores : gravador[h].passo # "fotografar")'
          PROVE  gravador'[g].foto.blocos = blocos'
      <4>1. \A h \in Gravadores : gravador[h].passo # "fotografar"
        BY <1>2, <1>3, <3>1
      <4> QED
        BY <1>3, <2>1, <2>2, <3>1, <4>1 DEF Sozinho, EmDia, Abrir
    <3> QED
      BY <2>2, <3>1 DEF EmDia
  <2> QED
    BY <2>3, <2>6, <2>8, <2>9 DEF Sozinho
<1> QED
  BY <1>5, <1>6, <1>7 DEF IInv

LEMMA GravarIInv ==
  ASSUME IInv, NEW g \in Gravadores, Gravar(g)
  PROVE  IInv'
<1> USE DEF memVars
<1> DEFINE n == gravador[g].fd
<1>1. PICK c \in Sobrescrito(arquivo[n], gravador[g].foto) :
        arquivo' = [arquivo EXCEPT ![n] = c]
  BY DEF Gravar
<1>2. gravador[g] \in Gravador /\ gravador[g].passo = "gravar"
  BY DEF IInv, TypeOK, Gravar
<1>3. /\ gravador'[g].passo = "renomear"
      /\ gravador'[g].foto = gravador[g].foto
      /\ \A h \in Gravadores \ {g} : gravador'[h] = gravador[h]
      /\ gravador' \in [Gravadores -> Gravador]
  BY <1>2 DEF Gravar, Gravador, IInv, TypeOK
<1>4. arquivo' \in [Inodes -> Conteudo]
  <2>1. CASE n \in Inodes
    <3>1. c \in Conteudo
      BY <1>1, <1>2, <2>1, SobrescritoBom DEF Gravador, IInv, TypeOK
    <3> QED
      BY <1>1, <3>1 DEF IInv, TypeOK
  <2>2. CASE n \notin Inodes
    BY <1>1, <2>2 DEF IInv, TypeOK
  <2> QED
    BY <2>1, <2>2
<1>5. TypeOK'
  BY <1>3, <1>4 DEF Gravar, IInv, TypeOK
<1>6. ParadoSemGravador'
  BY DEF Gravar, IInv, ParadoSemGravador
<1>7. ASSUME ~ Corrida' PROVE Sozinho'
  <2>1. Sozinho
    BY <1>7 DEF Gravar, Corrida, IInv
  <2>2. Escrevendo = {g} /\ Escrevendo' = {g}
    BY <1>2, <1>3, <2>1 DEF Escrevendo, Sozinho, UmEscreve
  <2>3. UmEscreve' /\ FotosInteiras'
    BY <1>3, <2>1, <2>2 DEF Sozinho, UmEscreve, FotosInteiras
  <2>4. n = nome.tmp /\ n # Nenhum /\ arquivo[n].tipo = "vazio"
    BY <1>2, <2>1 DEF Sozinho, TmpDoGravador
  <2>5. n \in Inodes
    BY <1>2, <2>4 DEF Gravador
  <2>6. c = gravador[g].foto
    BY <1>1, <1>2, <2>4, <2>5, SobrescritoBom DEF Gravador, IInv, TypeOK
  <2>7. arquivo'[n] = gravador[g].foto /\ \A m \in Inodes \ {n} : arquivo'[m] = arquivo[m]
    BY <1>1, <2>5, <2>6 DEF IInv, TypeOK
  <2>8. NomesDistintos'
    <3>1. nome.oficial \in Inodes \cup {Nenhum} /\ n # nome.oficial
      BY <2>1, <2>4 DEF IInv, TypeOK, Sozinho, NomesDistintos
    <3> QED
      BY <2>1, <2>7, <3>1 DEF Gravar, Sozinho, NomesDistintos
  <2>9. \A h \in Gravadores : h # g => gravador'[h].passo \notin {"gravar", "renomear"}
    BY <2>2 DEF Escrevendo
  <2>10. TmpDoGravador'
    BY <1>3, <2>4, <2>7, <2>9 DEF TmpDoGravador, Gravar
  <2>11. EmDia'
    <3>1. ASSUME (estado # "parado")',
                 (\A h \in Gravadores : gravador[h].passo # "fotografar")'
          PROVE  gravador'[g].foto.blocos = blocos'
      <4>1. \A h \in Gravadores : gravador[h].passo # "fotografar"
        BY <1>2, <1>3, <3>1
      <4> QED
        BY <1>3, <2>1, <2>2, <3>1, <4>1 DEF Sozinho, EmDia, Gravar
    <3> QED
      BY <2>2, <3>1 DEF EmDia
  <2> QED
    BY <2>3, <2>8, <2>10, <2>11 DEF Sozinho
<1> QED
  BY <1>5, <1>6, <1>7 DEF IInv

LEMMA RenomearIInv ==
  ASSUME IInv, NEW g \in Gravadores, Renomear(g)
  PROVE  IInv'
<1> USE DEF memVars
<1>1. /\ nome' \in [{"tmp", "oficial"} -> Inodes \cup {Nenhum}]
      /\ nome.tmp # Nenhum => nome'.tmp = Nenhum /\ nome'.oficial = nome.tmp
  BY DEF Renomear, IInv, TypeOK, Nenhum
<1>2. gravador[g] \in Gravador /\ gravador[g].passo = "renomear"
  BY DEF IInv, TypeOK, Renomear
<1>3. ASSUME ~ Corrida
      PROVE  /\ Sozinho /\ Escrevendo = {g} /\ nome.tmp # Nenhum
             /\ arquivo[nome.tmp] = gravador[g].foto
             /\ NomesDistintos'
  <2>1. Sozinho
    BY <1>3 DEF IInv
  <2>2. Escrevendo = {g}
    BY <1>2, <2>1 DEF Escrevendo, Sozinho, UmEscreve
  <2>3. nome.tmp # Nenhum /\ arquivo[nome.tmp] = gravador[g].foto
    BY <1>2, <2>1 DEF Sozinho, TmpDoGravador
  <2>4. gravador[g].foto.tipo = "inteiro"
    BY <2>1, <2>2 DEF Sozinho, FotosInteiras
  <2>5. NomesDistintos'
    BY <1>1, <2>3, <2>4 DEF NomesDistintos, Renomear
  <2> QED
    BY <2>1, <2>2, <2>3, <2>5
<1>4. CASE gravador[g].depois = "sair"
  <2>1. estado' = "parado" /\ gravador' = [h \in Gravadores |-> Livre]
    BY <1>4 DEF Renomear
  <2>2. paradas' \in 0..MaxParadas /\ UNCHANGED <<memVars, arquivo, furos>>
    BY DEF Renomear, IInv, TypeOK
  <2>3. (~ Corrida) => NomesDistintos'
    BY <1>3
  <2> QED
    BY <1>1, <2>1, <2>2, <2>3, PararIInv
<1>5. CASE gravador[g].depois # "sair"
  <2>1. /\ gravador'[g].passo \in {"livre", "aplicar"}
        /\ \A h \in Gravadores \ {g} : gravador'[h] = gravador[h]
        /\ gravador' \in [Gravadores -> Gravador]
    <3>1. CASE gravador[g].depois = "aplicar"
      <4>1. gravador' = [gravador EXCEPT ![g] = [gravador[g] EXCEPT !.passo = "aplicar"]]
        BY <3>1 DEF Renomear, Avancar, IInv, TypeOK
      <4>2. /\ [gravador[g] EXCEPT !.passo = "aplicar"] \in Gravador
            /\ [gravador[g] EXCEPT !.passo = "aplicar"].passo = "aplicar"
        BY <1>2 DEF Gravador
      <4> QED
        BY <4>1, <4>2 DEF IInv, TypeOK
    <3>2. CASE gravador[g].depois # "aplicar"
      BY <1>2, <1>5, <3>2, GravadoresBons DEF Renomear, IInv, TypeOK
    <3> QED
      BY <3>1, <3>2
  <2>2. estado # "parado"
    BY <1>2 DEF IInv, ParadoSemGravador
  <2>3. estado' \in {"parado", "construindo", "ligado", "encerrando"} /\ estado' # "parado"
    BY <1>5, <2>2 DEF Renomear, IInv, TypeOK
  <2>4. TypeOK'
    BY <1>1, <2>1, <2>3 DEF Renomear, IInv, TypeOK
  <2>5. ASSUME ~ Corrida' PROVE Sozinho'
    <3>1. ~ Corrida
      BY <2>5 DEF Renomear, Corrida
    <3>2. Escrevendo' = {}
      BY <1>3, <2>1, <3>1 DEF Escrevendo
    <3>3. TmpDoGravador'
      BY <2>1, <3>2 DEF TmpDoGravador, Escrevendo
    <3>4. EmDia'
      <4>1. ASSUME (\A h \in Gravadores : gravador[h].passo # "fotografar")'
            PROVE  Disco'.blocos = blocos'
        <5>1. \A h \in Gravadores : gravador[h].passo # "fotografar"
          BY <1>2, <2>1, <4>1
        <5>2. gravador[g].foto.blocos = blocos
          BY <1>3, <2>2, <3>1, <5>1 DEF Sozinho, EmDia
        <5>3. Disco' = gravador[g].foto
          BY <1>1, <1>3, <3>1 DEF Disco, Renomear
        <5> QED
          BY <5>2, <5>3 DEF Renomear
      <4> QED
        BY <3>2, <4>1 DEF EmDia
    <3> QED
      BY <1>3, <3>1, <3>2, <3>3, <3>4 DEF Sozinho, UmEscreve, FotosInteiras
  <2> QED
    BY <2>3, <2>4, <2>5 DEF IInv, ParadoSemGravador
<1> QED
  BY <1>4, <1>5

LEMMA AplicarIInv ==
  ASSUME IInv, NEW g \in Gravadores, AplicarTransacao(g)
  PROVE  IInv'
<1> USE DEF discoVars
<1>1. gravador[g] \in Gravador /\ gravador[g].passo = "aplicar"
  BY DEF IInv, TypeOK, AplicarTransacao
<1>2. /\ gravador'[g].passo = "livre"
      /\ \A h \in Gravadores \ {g} : gravador'[h] = gravador[h]
      /\ gravador' \in [Gravadores -> Gravador]
  BY GravadoresBons DEF AplicarTransacao, IInv, TypeOK
<1>3. gravador[g].dados \in Dados
  BY <1>1, InstanciaAssumption DEF Gravador
<1>4. saldos' \in [Contas -> Int]
  BY <1>3, AplicaEhInteiro DEF AplicarTransacao, IInv, TypeOK
<1>5. furos' \in {furos, furos \cup {"recusado"}}
  BY DEF AplicarTransacao
<1>6. TypeOK'
  BY <1>2, <1>4, <1>5 DEF AplicarTransacao, IInv, TypeOK
<1>7. Escrevendo' = Escrevendo /\ g \notin Escrevendo
  BY <1>1, <1>2 DEF Escrevendo
<1>8. ParadoSemGravador'
  BY <1>2 DEF AplicarTransacao, IInv, ParadoSemGravador
<1>9. ASSUME ~ Corrida' PROVE Sozinho'
  <2>1. Sozinho
    BY <1>5, <1>9 DEF IInv, Corrida
  <2>2. UmEscreve' /\ FotosInteiras' /\ NomesDistintos'
    BY <1>2, <1>7, <2>1 DEF Sozinho, UmEscreve, FotosInteiras, NomesDistintos,
       AplicarTransacao
  <2>3. TmpDoGravador'
    BY <1>2, <2>1 DEF Sozinho, TmpDoGravador, AplicarTransacao
  <2>4. \A h \in Gravadores : gravador'[h].passo = "fotografar" <=> gravador[h].passo = "fotografar"
    BY <1>1, <1>2
  <2>5. EmDia'
    BY <1>2, <1>7, <2>1, <2>4 DEF Sozinho, EmDia, Disco, AplicarTransacao
  <2> QED
    BY <2>2, <2>3, <2>5 DEF Sozinho
<1> QED
  BY <1>6, <1>8, <1>9 DEF IInv

LEMMA NextIInv == IInv /\ [Next]_vars => IInv'
<1> SUFFICES ASSUME IInv, [Next]_vars PROVE IInv'
  OBVIOUS
<1>1. CASE UNCHANGED vars
  BY <1>1 DEF vars, memVars, discoVars, IInv, TypeOK, ParadoSemGravador, Corrida, Sozinho,
     UmEscreve, TmpDoGravador, NomesDistintos, FotosInteiras, EmDia, Escrevendo, Disco
<1>2. ASSUME NEW g \in Gravadores,
             \/ \E d \in Propostas : CommitarBloco(g, d)
             \/ \E c \in Recebidas : SubstituirChain(g, c)
             \/ AplicarTransacao(g) \/ Encerrar(g) \/ IniciarDoZero(g)
      PROVE  IInv'
  BY <1>2, CommitarIInv, SubstituirIInv, AplicarIInv, EncerrarIInv, IniciarDoZeroIInv
<1>3. ASSUME NEW g \in Gravadores, SalvarChain(g)
      PROVE  IInv'
  BY <1>3, FotografarIInv, AbrirIInv, GravarIInv, RenomearIInv DEF SalvarChain
<1> QED
  BY <1>1, <1>2, <1>3, RestaurarIInv, CairIInv DEF Next

LEMMA SpecIInv == Spec => []IInv
BY InicioIInv, NextIInv, PTL DEF Spec

-----------------------------------------------------------------------------
(* Every variable keeps its type through commits, downloads, saves, stops  *)
(* and restarts (src/blockchain/blockchain.go).                            *)
THEOREM PersistenciaTypeOK == Spec => []TypeOK
<1>1. IInv => TypeOK
  BY DEF IInv
<1> QED
  BY <1>1, SpecIInv, PTL

(* SalvarChain: unless two savers were at work at once, chain_<id>.json is *)
(* whole after a crash at any of its steps.                                *)
THEOREM ArquivoInteiro == Spec => []ArquivoSalvoCorrida
<1>1. IInv => ArquivoSalvoCorrida
  BY DEF IInv, Corrida, Sozinho, NomesDistintos, ArquivoSalvoCorrida, Disco
<1> QED
  BY <1>1, SpecIInv, PTL

(* CommitarBloco, SubstituirChain and SalvarChain: unless two savers were  *)
(* at work at once, the file has the chain in memory once none is left.    *)
THEOREM DiscoEmDia == Spec => []DiscoAtual
<1>1. IInv => DiscoAtual
  <2> SUFFICES ASSUME IInv, estado = "ligado", ~ Corrida,
                      \A g \in Ocupados : gravador[g].passo = "aplicar"
               PROVE  Disco.blocos = blocos
    BY DEF DiscoAtual, Corrida
  <2>1. \A g \in Gravadores : gravador[g].passo \in {"livre", "aplicar"}
    BY DEF Ocupados
  <2>2. Escrevendo = {}
    BY <2>1 DEF Escrevendo
  <2> QED
    BY <2>1, <2>2 DEF IInv, Sozinho, EmDia
<1> QED
  BY <1>1, SpecIInv, PTL

-----------------------------------------------------------------------------
(* The balances.  Only a goroutine that has committed a transaction is     *)
(* about to apply it.                                                      *)
AplicaOQueComitou ==
    \A g \in Gravadores : gravador[g].passo = "aplicar" => gravador[g].depois = "aplicar"

(* The transactions of one type and wallet that wait, counted. *)
Esperando(tipo, c) ==
    {g \in SemAplicar : gravador[g].dados.tipo = tipo /\ gravador[g].dados.conta = c}

LEMMA EsperandoEhFinito ==
  ASSUME NEW tipo, NEW c
  PROVE  /\ IsFiniteSet(Esperando(tipo, c)) /\ Esperando(tipo, c) \subseteq Gravadores
         /\ NaoAplicadas(tipo, c) = Cardinality(Esperando(tipo, c))
         /\ NaoAplicadas(tipo, c) \in Nat
         /\ NaoAplicadas(tipo, c) <= Cardinality(Gravadores)
<1>1. Esperando(tipo, c) \subseteq Gravadores
  BY DEF Esperando, SemAplicar, Ocupados
<1>2. IsFiniteSet(Gravadores)
  BY InstanciaAssumption
<1>3. NaoAplicadas(tipo, c) = Cardinality(Esperando(tipo, c))
  BY DEF NaoAplicadas, Esperando
<1> QED
  BY <1>1, <1>2, <1>3, FS_Subset, FS_CardinalityType

(* What waits takes its whole effect into account. *)
Pendencia(c) ==
    Recompensa * NaoAplicadas("RENOVA", c) + Recarga * NaoAplicadas("RECARGA", c)
        - Custo * NaoAplicadas("TX", c)

DesvioSoma ==
    \A c \in Contas :
        /\ saldos[c] \in Int /\ Replay(blocos)[c] \in Int /\ Pendencia(c) \in Int
        /\ Desvio(c) = saldos[c] - Replay(blocos)[c] + Pendencia(c)

LEMMA DesvioEhSoma == TypeOK => DesvioSoma
<1> SUFFICES ASSUME TypeOK, NEW c \in Contas
             PROVE  /\ saldos[c] \in Int /\ Replay(blocos)[c] \in Int /\ Pendencia(c) \in Int
                    /\ Desvio(c) = saldos[c] - Replay(blocos)[c] + Pendencia(c)
  BY DEF DesvioSoma
<1>1. saldos[c] \in Int /\ Replay(blocos)[c] \in Int
  BY ReplayEhInteiro DEF TypeOK
<1>2. /\ Recompensa * NaoAplicadas("RENOVA", c) \in Int
      /\ Recarga * NaoAplicadas("RECARGA", c) \in Int
      /\ Custo * NaoAplicadas("TX", c) \in Int
  BY EsperandoEhFinito, CreditosAssumption
<1> QED
  BY <1>1, <1>2 DEF Pendencia, Desvio

LEMMA DesvioEhSomaDepois == TypeOK' => DesvioSoma'
BY DesvioEhSoma, PTL

(* A committed transaction that joins those that wait, or leaves them. *)
LEMMA PendenciaAoEntrar ==
  ASSUME NEW g \in Gravadores, g \notin SemAplicar, SemAplicar' = SemAplicar \cup {g},
         \A h \in SemAplicar : gravador'[h].dados = gravador[h].dados,
         NEW c \in Contas
  PROVE  Pendencia(c)' = Pendencia(c) + Efeito(gravador'[g].dados, c)
<1> DEFINE d == gravador'[g].dados
           n(t) == NaoAplicadas(t, c)
           um(t) == IF d.tipo = t /\ d.conta = c THEN 1 ELSE 0
<1>1. ASSUME NEW t PROVE n(t) \in Nat /\ n(t)' = n(t) + um(t)
  <2>1. /\ IsFiniteSet(Esperando(t, c)) /\ n(t) \in Nat
        /\ n(t) = Cardinality(Esperando(t, c))
        /\ n(t)' = Cardinality(Esperando(t, c)')
    <3>1. n(t)' = Cardinality(Esperando(t, c)')
      BY DEF NaoAplicadas, Esperando
    <3> QED
      BY <3>1, EsperandoEhFinito
  <2>2. g \notin Esperando(t, c)
    BY DEF Esperando
  <2>3. CASE d.tipo = t /\ d.conta = c
    <3>1. Esperando(t, c)' = Esperando(t, c) \cup {g}
      BY <2>3 DEF Esperando
    <3>2. Cardinality(Esperando(t, c)') = Cardinality(Esperando(t, c)) + 1
      BY <2>1, <2>2, <3>1, FS_AddElement
    <3> QED
      BY <2>1, <2>3, <3>2
  <2>4. CASE ~ (d.tipo = t /\ d.conta = c)
    <3>1. Esperando(t, c)' = Esperando(t, c)
      BY <2>4 DEF Esperando
    <3> QED
      BY <2>1, <2>4, <3>1
  <2> QED
    BY <2>3, <2>4
<1> HIDE DEF n
<1>2. /\ Custo * n("TX")' = Custo * n("TX") + Custo * um("TX")
      /\ Recompensa * n("RENOVA")' = Recompensa * n("RENOVA") + Recompensa * um("RENOVA")
      /\ Recarga * n("RECARGA")' = Recarga * n("RECARGA") + Recarga * um("RECARGA")
  BY <1>1, CreditosAssumption
<1>3. /\ Custo * n("TX") \in Int /\ Recompensa * n("RENOVA") \in Int
      /\ Recarga * n("RECARGA") \in Int
  BY <1>1, CreditosAssumption
<1>4. /\ Custo * um("TX") \in Int /\ Recompensa * um("RENOVA") \in Int
      /\ Recarga * um("RECARGA") \in Int
  BY CreditosAssumption
<1>5. Efeito(d, c) = Recompensa * um("RENOVA") + Recarga * um("RECARGA") - Custo * um("TX")
  BY CreditosAssumption DEF Efeito
<1>6. /\ Pendencia(c) = Recompensa * n("RENOVA") + Recarga * n("RECARGA") - Custo * n("TX")
      /\ Pendencia(c)' = Recompensa * n("RENOVA")' + Recarga * n("RECARGA")' - Custo * n("TX")'
  BY DEF Pendencia, n
<1> HIDE DEF um
<1> QED
  BY <1>2, <1>3, <1>4, <1>5, <1>6

LEMMA PendenciaAoSair ==
  ASSUME NEW g \in SemAplicar, SemAplicar' = SemAplicar \ {g},
         \A h \in SemAplicar' : gravador'[h].dados = gravador[h].dados,
         NEW c \in Contas
  PROVE  Pendencia(c)' = Pendencia(c) - Efeito(gravador[g].dados, c)
<1> DEFINE d == gravador[g].dados
           n(t) == NaoAplicadas(t, c)
           um(t) == IF d.tipo = t /\ d.conta = c THEN 1 ELSE 0
<1>1. ASSUME NEW t PROVE n(t) \in Nat /\ n(t)' \in Nat /\ n(t) = n(t)' + um(t)
  <2>1. /\ IsFiniteSet(Esperando(t, c)) /\ n(t) \in Nat
        /\ n(t) = Cardinality(Esperando(t, c))
        /\ n(t)' = Cardinality(Esperando(t, c)')
    <3>1. n(t)' = Cardinality(Esperando(t, c)')
      BY DEF NaoAplicadas, Esperando
    <3> QED
      BY <3>1, EsperandoEhFinito
  <2>2. CASE d.tipo = t /\ d.conta = c
    <3>1. Esperando(t, c)' = Esperando(t, c) \ {g} /\ g \in Esperando(t, c)
      BY <2>2 DEF Esperando
    <3>2. /\ Cardinality(Esperando(t, c)') = Cardinality(Esperando(t, c)) - 1
          /\ IsFiniteSet(Esperando(t, c)')
      BY <2>1, <3>1, FS_RemoveElement
    <3>3. Cardinality(Esperando(t, c)') \in Nat
      BY <3>2, FS_CardinalityType
    <3> QED
      BY <2>1, <2>2, <3>2, <3>3
  <2>3. CASE ~ (d.tipo = t /\ d.conta = c)
    <3>1. Esperando(t, c)' = Esperando(t, c)
      BY <2>3 DEF Esperando
    <3> QED
      BY <2>1, <2>3, <3>1
  <2> QED
    BY <2>2, <2>3
<1> HIDE DEF n
<1>2. /\ Custo * n("TX") = Custo * n("TX")' + Custo * um("TX")
      /\ Recompensa * n("RENOVA") = Recompensa * n("RENOVA")' + Recompensa * um("RENOVA")
      /\ Recarga * n("RECARGA") = Recarga * n("RECARGA")' + Recarga * um("RECARGA")
  BY <1>1, CreditosAssumption
<1>3. /\ Custo * n("TX")' \in Int /\ Recompensa * n("RENOVA")' \in Int
      /\ Recarga * n("RECARGA")' \in Int
  BY <1>1, CreditosAssumption
<1>4. /\ Custo * um("TX") \in Int /\ Recompensa * um("RENOVA") \in Int
      /\ Recarga * um("RECARGA") \in Int
  BY CreditosAssumption
<1>5. Efeito(d, c) = Recompensa * um("RENOVA") + Recarga * um("RECARGA") - Custo * um("TX")
  BY CreditosAssumption DEF Efeito
<1>6. /\ Pendencia(c) = Recompensa * n("RENOVA") + Recarga * n("RECARGA") - Custo * n("TX")
      /\ Pendencia(c)' = Recompensa * n("RENOVA")' + Recarga * n("RECARGA")' - Custo * n("TX")'
  BY DEF Pendencia, n
<1> HIDE DEF um
<1> QED
  BY <1>2, <1>3, <1>4, <1>5, <1>6
LEMMA NadaPendente ==
  ASSUME SemAplicar' = {}, NEW c \in Contas
  PROVE  Pendencia(c)' = 0
<1>1. ASSUME NEW t PROVE NaoAplicadas(t, c)' = 0
  <2>1. Esperando(t, c)' = {} /\ NaoAplicadas(t, c)' = Cardinality(Esperando(t, c)')
    BY DEF Esperando, NaoAplicadas
  <2> QED
    BY <2>1, FS_EmptySet
<1> QED
  BY <1>1, CreditosAssumption DEF Pendencia

LEMMA PendenciaFica ==
  ASSUME SemAplicar' = SemAplicar,
         \A h \in SemAplicar : gravador'[h].dados = gravador[h].dados,
         NEW c \in Contas
  PROVE  Pendencia(c)' = Pendencia(c)
<1>1. ASSUME NEW t PROVE NaoAplicadas(t, c)' = NaoAplicadas(t, c)
  BY DEF NaoAplicadas
<1> QED
  BY <1>1 DEF Pendencia

(* Who waits, seen from the one goroutine that takes a step. *)
LEMMA QuemEspera ==
  ASSUME NEW g \in Gravadores, \A h \in Gravadores \ {g} : gravador'[h] = gravador[h]
  PROVE  /\ SemAplicar' \ {g} = SemAplicar \ {g}
         /\ g \in SemAplicar <=> gravador[g].passo # "livre" /\ gravador[g].depois = "aplicar"
         /\ g \in SemAplicar' <=> gravador'[g].passo # "livre" /\ gravador'[g].depois = "aplicar"
         /\ \A h \in SemAplicar \ {g} : gravador'[h].dados = gravador[h].dados
BY DEF SemAplicar, Ocupados

LEMMA CamposDoGravador ==
  /\ \A depois, d : /\ Salvar(depois, d).passo = "fotografar"
                    /\ Salvar(depois, d).depois = depois
                    /\ Salvar(depois, d).dados = d
  /\ Livre.passo = "livre" /\ Livre.depois = "nada"
BY DEF Salvar, Livre

(* Saving, and stopping in order, leaves the difference as it is. *)
LEMMA DesvioAoSalvar ==
  ASSUME TypeOK, TypeOK', NEW g \in Gravadores, SalvarChain(g) \/ Encerrar(g),
         estado' # "parado", NEW c \in Contas
  PROVE  Desvio(c)' = Desvio(c)
<1>1. UNCHANGED <<blocos, saldos>>
  BY DEF SalvarChain, Fotografar, Abrir, Gravar, Renomear, Encerrar, memVars
<1>2. gravador[g] \in Gravador
  BY DEF TypeOK
<1>3. /\ \A h \in Gravadores \ {g} : gravador'[h] = gravador[h]
      /\ \/ /\ gravador[g].passo # "livre" /\ gravador'[g].passo # "livre"
            /\ gravador'[g].depois = gravador[g].depois
            /\ gravador'[g].dados = gravador[g].dados
         \/ /\ gravador[g].depois # "aplicar" \/ gravador[g].passo = "livre"
            /\ gravador'[g].depois # "aplicar"
  <2>1. CASE Fotografar(g)
    BY <1>2, <2>1 DEF Fotografar, TypeOK, Gravador
  <2>2. CASE Abrir(g)
    <3>1. PICK n \in Inodes : gravador' = [gravador EXCEPT ![g].passo = "gravar", ![g].fd = n]
      BY <2>2 DEF Abrir
    <3> QED
      BY <1>2, <2>2, <3>1 DEF Abrir, TypeOK, Gravador
  <2>3. CASE Gravar(g)
    BY <1>2, <2>3 DEF Gravar, TypeOK, Gravador
  <2>4. CASE Renomear(g)
    <3>1. gravador[g].depois # "sair"
      BY <2>4 DEF Renomear
    <3>2. CASE gravador[g].depois = "aplicar"
      <4>1. gravador' = [gravador EXCEPT ![g].passo = "aplicar"]
        BY <2>4, <3>2 DEF Renomear, Avancar
      <4> QED
        BY <1>2, <2>4, <4>1 DEF Renomear, TypeOK, Gravador
    <3>3. CASE gravador[g].depois # "aplicar"
      <4>1. gravador' = [gravador EXCEPT ![g] = Livre]
        BY <2>4, <3>1, <3>3 DEF Renomear
      <4> QED
        BY <3>3, <4>1, CamposDoGravador DEF TypeOK
    <3> QED
      BY <3>2, <3>3
  <2>5. CASE Encerrar(g)
    <3>1. gravador' = [gravador EXCEPT ![g] = Salvar("sair", QualquerDado)]
          /\ gravador[g].passo = "livre"
      BY <2>5 DEF Encerrar, UmLivre, Ocupados
    <3> QED
      BY <3>1, CamposDoGravador DEF TypeOK
  <2> QED
    BY <2>1, <2>2, <2>3, <2>4, <2>5 DEF SalvarChain
<1>4. /\ SemAplicar' = SemAplicar
      /\ \A h \in SemAplicar : gravador'[h].dados = gravador[h].dados
  <2>1. /\ SemAplicar' \ {g} = SemAplicar \ {g}
        /\ \A h \in SemAplicar \ {g} : gravador'[h].dados = gravador[h].dados
    BY <1>3, QuemEspera
  <2>2. g \in SemAplicar <=> g \in SemAplicar'
    BY <1>3, QuemEspera
  <2>3. g \in SemAplicar => gravador'[g].dados = gravador[g].dados
    BY <1>3, QuemEspera
  <2> QED
    BY <2>1, <2>2, <2>3
<1>5. Pendencia(c)' = Pendencia(c)
  BY <1>4, PendenciaFica
<1> QED
  BY <1>1, <1>5, DesvioEhSoma, DesvioEhSomaDepois DEF DesvioSoma

(* A commit: the block counts in the chain at once, and waits.             *)
LEMMA DesvioAoCommitar ==
  ASSUME IInv, TypeOK', NEW g \in Gravadores, NEW d \in Propostas, CommitarBloco(g, d),
         NEW c \in Contas
  PROVE  Desvio(c)' = Desvio(c)
<1> DEFINE b == [hash |-> proximo + 1, anterior |-> Ponta(blocos), dados |-> d,
                 autor |-> Autor, integro |-> TRUE]
           r == Salvar(IF d.tipo = "LAUDO" THEN "nada" ELSE "aplicar", d)
<1>1. /\ TypeOK /\ blocos \in Seq(Bloco) /\ saldos' = saldos
      /\ blocos' = Append(blocos, b)
      /\ gravador' = [gravador EXCEPT ![g] = r] /\ gravador[g].passo = "livre"
  BY DEF IInv, TypeOK, CommitarBloco, UmLivre, Ocupados
<1>2. b \in Bloco /\ b.dados = d
  <2>1. proximo \in 0..MaxCommits /\ MaxCommits \in 0..MaxBlocos
    BY InstanciaAssumption DEF IInv, TypeOK
  <2>2. proximo + 1 \in Hashes
    BY <2>1, MaxBlocosAssumption DEF CommitarBloco, Hashes
  <2> QED
    BY <1>1, <2>2, PontaEhHash, InstanciaAssumption DEF Bloco
<1>3. /\ r.passo = "fotografar" /\ r.dados = d
      /\ r.depois = IF d.tipo = "LAUDO" THEN "nada" ELSE "aplicar"
  BY CamposDoGravador
<1> HIDE DEF b, r
<1>4. Replay(blocos')[c] = Replay(blocos)[c] + Efeito(d, c)
  BY <1>1, <1>2, ReplayAoAnexar
<1>5. gravador'[g] = r /\ \A h \in Gravadores \ {g} : gravador'[h] = gravador[h]
  BY <1>1 DEF TypeOK
<1>6. g \notin SemAplicar /\ SemAplicar' \ {g} = SemAplicar \ {g}
      /\ \A h \in SemAplicar : gravador'[h].dados = gravador[h].dados
  BY <1>1, <1>5, QuemEspera
<1>7. Pendencia(c)' = Pendencia(c) + Efeito(d, c)
  <2>1. CASE d.tipo = "LAUDO"
    <3>1. SemAplicar' = SemAplicar
      <4>1. g \notin SemAplicar'
        BY <1>3, <1>5, <2>1 DEF SemAplicar
      <4> QED
        BY <1>6, <4>1
    <3>2. Pendencia(c)' = Pendencia(c) /\ Pendencia(c) \in Int
      BY <1>1, <1>6, <3>1, PendenciaFica, DesvioEhSoma DEF DesvioSoma
    <3>3. Efeito(d, c) = 0
      BY <2>1 DEF Efeito
    <3> QED
      BY <3>2, <3>3
  <2>2. CASE d.tipo # "LAUDO"
    <3>1. SemAplicar' = SemAplicar \cup {g}
      BY <1>3, <1>5, <1>6, <2>2, QuemEspera
    <3> QED
      BY <1>3, <1>5, <1>6, <3>1, PendenciaAoEntrar
  <2> QED
    BY <2>1, <2>2
<1>8. Efeito(d, c) \in Int
  BY CreditosAssumption DEF Efeito
<1> QED
  BY <1>1, <1>4, <1>7, <1>8, DesvioEhSoma, DesvioEhSomaDepois DEF DesvioSoma

(* What waited is applied: no debit refused, nothing changes.              *)
LEMMA DesvioAoAplicar ==
  ASSUME IInv, TypeOK', AplicaOQueComitou, NEW g \in Gravadores, AplicarTransacao(g),
         "recusado" \notin furos', NEW c \in Contas
  PROVE  Desvio(c)' = Desvio(c)
<1> DEFINE d == gravador[g].dados
<1>1. /\ TypeOK /\ gravador[g] \in Gravador /\ blocos' = blocos
      /\ gravador[g].passo = "aplicar" /\ gravador[g].depois = "aplicar"
      /\ saldos' = AplicaDados(saldos, d)
      /\ gravador' = [gravador EXCEPT ![g] = Livre]
  BY DEF IInv, TypeOK, AplicarTransacao, AplicaOQueComitou
<1>2. d \in Dados /\ ~ (d.tipo = "TX" /\ saldos[d.conta] < Custo)
  BY <1>1, InstanciaAssumption DEF AplicarTransacao, Gravador
<1> HIDE DEF d
<1>3. d.conta \in Contas /\ saldos \in [Contas -> Int]
  BY <1>1, <1>2 DEF Dados, TypeOK
<1>4. saldos'[c] = saldos[c] + Efeito(d, c)
  BY <1>1, <1>2, <1>3, CreditosAssumption DEF AplicaDados, Efeito
<1>5. gravador'[g].passo = "livre" /\ \A h \in Gravadores \ {g} : gravador'[h] = gravador[h]
  BY <1>1, CamposDoGravador DEF TypeOK
<1>6. g \in SemAplicar /\ SemAplicar' = SemAplicar \ {g}
      /\ \A h \in SemAplicar' : gravador'[h].dados = gravador[h].dados
  BY <1>1, <1>5, QuemEspera
<1>7. Pendencia(c)' = Pendencia(c) - Efeito(d, c)
  BY <1>6, PendenciaAoSair DEF d
<1>8. Efeito(d, c) \in Int
  BY CreditosAssumption DEF Efeito
<1> QED
  BY <1>1, <1>4, <1>7, <1>8, DesvioEhSoma, DesvioEhSomaDepois DEF DesvioSoma
(* A chain taken over, or begun, has the balances of its replay. *)
LEMMA DesvioAoTrocar ==
  ASSUME IInv, TypeOK', NEW c \in Contas,
         \/ "trocada" \notin furos' /\ \E g \in Gravadores, chain \in Recebidas :
                                          SubstituirChain(g, chain)
         \/ \E g \in Gravadores : IniciarDoZero(g)
  PROVE  Desvio(c)' = 0
<1>1. PICK g \in Gravadores : \/ \E chain \in Recebidas : SubstituirChain(g, chain)
                              \/ IniciarDoZero(g)
  OBVIOUS
<1>2. SemAplicar = {}
  <2>1. CASE \E chain \in Recebidas : SubstituirChain(g, chain)
    BY <2>1 DEF SubstituirChain, IniciarDoZero, IInv, ParadoSemGravador, SemAplicar, Ocupados
  <2>2. CASE IniciarDoZero(g)
    BY <2>2 DEF IniciarDoZero, IInv, ParadoSemGravador, SemAplicar, Ocupados
  <2> QED
    BY <1>1, <2>1, <2>2
<1>3. saldos'[c] = Replay(blocos')[c]
  <2>1. CASE \E chain \in Recebidas : SubstituirChain(g, chain)
    BY <2>1 DEF SubstituirChain, SaldosAoTrocar
  <2>2. CASE IniciarDoZero(g)
    BY <2>2, ReplayDoGenesis DEF IniciarDoZero, SaldosIniciais
  <2> QED
    BY <1>1, <2>1, <2>2
<1>4. SemAplicar' = {}
  <2>1. PICK x : x # "aplicar" /\ gravador' = [gravador EXCEPT ![g] = Salvar(x, QualquerDado)]
    BY <1>1 DEF SubstituirChain, SalvarTroca, IniciarDoZero
  <2>2. gravador'[g].depois # "aplicar"
        /\ \A h \in Gravadores \ {g} : gravador'[h] = gravador[h]
    BY <2>1, CamposDoGravador DEF IInv, TypeOK
  <2> QED
    BY <1>2, <2>2 DEF SemAplicar, Ocupados
<1>5. Pendencia(c)' = 0
  BY <1>4, NadaPendente
<1> QED
  BY <1>3, <1>5, DesvioEhSomaDepois DEF DesvioSoma

(* NovaChain takes the balances from the file. *)
DesvioDoDisco(c) == Disco.saldos[c] - Replay(Disco.blocos)[c]

LEMMA DesvioAoRestaurar ==
  ASSUME IInv, TypeOK', Restaurar, NEW c \in Contas
  PROVE  Desvio(c)' = DesvioDoDisco(c)
<1>1. SemAplicar' = {}
  BY DEF Restaurar, IInv, ParadoSemGravador, SemAplicar, Ocupados
<1>2. Pendencia(c)' = 0
  BY <1>1, NadaPendente
<1>3. saldos' = Disco.saldos /\ blocos' = Disco.blocos
  BY DEF Restaurar, SaldosRestaurados
<1> QED
  BY <1>2, <1>3, DesvioEhSomaDepois DEF DesvioSoma, DesvioDoDisco

LEMMA AplicaOQueComitouFica ==
  ASSUME IInv, AplicaOQueComitou, [Next]_vars
  PROVE  AplicaOQueComitou'
<1>1. TypeOK
  BY DEF IInv
<1>2. ASSUME NEW g \in Gravadores, NEW x, NEW d,
             gravador' = [gravador EXCEPT ![g] = Salvar(x, d)]
      PROVE  AplicaOQueComitou'
  BY <1>1, <1>2, CamposDoGravador DEF TypeOK, AplicaOQueComitou
<1>4. ASSUME NEW g \in Gravadores, NEW d \in Propostas, CommitarBloco(g, d)
      PROVE  AplicaOQueComitou'
  <2>1. PICK x : gravador' = [gravador EXCEPT ![g] = Salvar(x, d)]
    BY <1>4 DEF CommitarBloco
  <2> QED
    BY <1>2, <2>1
<1>5. ASSUME NEW g \in Gravadores, NEW c \in Recebidas, SubstituirChain(g, c)
      PROVE  AplicaOQueComitou'
  BY <1>2, <1>5 DEF SubstituirChain, SalvarTroca
<1>6. ASSUME NEW g \in Gravadores, Encerrar(g) \/ IniciarDoZero(g)
      PROVE  AplicaOQueComitou'
  BY <1>2, <1>6 DEF Encerrar, IniciarDoZero
<1>7. ASSUME NEW g \in Gravadores, NEW r,
             r.passo = "aplicar" => r.depois = "aplicar",
             gravador' = [gravador EXCEPT ![g] = r]
      PROVE  AplicaOQueComitou'
  BY <1>1, <1>7 DEF TypeOK, AplicaOQueComitou
<1>8. ASSUME NEW g \in Gravadores, SalvarChain(g)
      PROVE  AplicaOQueComitou'
  <2>1. gravador[g] \in Gravador
    BY <1>1 DEF TypeOK
  <2>2. CASE Fotografar(g)
    BY <1>1, <2>1, <2>2 DEF Fotografar, TypeOK, Gravador, AplicaOQueComitou
  <2>3. CASE Abrir(g)
    <3>1. PICK n \in Inodes : gravador' = [gravador EXCEPT ![g].passo = "gravar", ![g].fd = n]
      BY <2>3 DEF Abrir
    <3> QED
      BY <1>1, <2>1, <3>1 DEF TypeOK, Gravador, AplicaOQueComitou
  <2>4. CASE Gravar(g)
    BY <1>1, <2>1, <2>4 DEF Gravar, TypeOK, Gravador, AplicaOQueComitou
  <2>5. CASE Renomear(g)
    <3>1. CASE gravador[g].depois = "aplicar"
      <4>1. gravador' = [gravador EXCEPT ![g].passo = "aplicar"]
        BY <2>5, <3>1 DEF Renomear, Avancar
      <4> QED
        BY <1>1, <2>1, <3>1, <4>1 DEF TypeOK, Gravador, AplicaOQueComitou
    <3>2. CASE gravador[g].depois = "sair"
      <4>1. gravador' = [h \in Gravadores |-> Livre]
        BY <2>5, <3>2 DEF Renomear
      <4> QED
        BY <4>1, CamposDoGravador DEF AplicaOQueComitou
    <3>3. CASE gravador[g].depois \notin {"aplicar", "sair"}
      <4>1. gravador' = [gravador EXCEPT ![g] = Livre]
        BY <2>5, <3>3 DEF Renomear
      <4> QED
        BY <1>7, <4>1, CamposDoGravador
    <3> QED
      BY <3>1, <3>2, <3>3
  <2> QED
    BY <1>8, <2>2, <2>3, <2>4, <2>5 DEF SalvarChain
<1>9. ASSUME NEW g \in Gravadores, AplicarTransacao(g)
      PROVE  AplicaOQueComitou'
  BY <1>7, <1>9, CamposDoGravador DEF AplicarTransacao
<1>10. CASE Cair
  BY <1>10, CamposDoGravador DEF Cair, AplicaOQueComitou
<1>11. CASE Restaurar \/ UNCHANGED vars
  BY <1>11 DEF Restaurar, vars, AplicaOQueComitou
<1> QED
  BY <1>4, <1>5, <1>6, <1>8, <1>9, <1>10, <1>11 DEF Next

(* Every step of a broker that runs afterwards. *)
LEMMA DesvioAoPassar ==
  ASSUME IInv, TypeOK', AplicaOQueComitou, [Next]_vars, estado' # "parado",
         {"trocada", "recusado"} \cap furos' = {}
  PROVE  \/ estado # "parado" /\ \A c \in Contas : Desvio(c)' = Desvio(c)
         \/ \A c \in Contas : Desvio(c)' = 0
         \/ Restaurar /\ \A c \in Contas : Desvio(c)' = DesvioDoDisco(c)
<1>1. TypeOK /\ (estado = "parado" => \A g \in Gravadores : gravador[g].passo = "livre")
  BY DEF IInv, ParadoSemGravador
<1>2. ASSUME NEW g \in Gravadores, NEW d \in Propostas, CommitarBloco(g, d)
      PROVE  estado # "parado" /\ \A c \in Contas : Desvio(c)' = Desvio(c)
  <2>1. estado # "parado"
    BY <1>2 DEF CommitarBloco, Funcionando
  <2> QED
    BY <1>2, <2>1, DesvioAoCommitar
<1>3. ASSUME NEW g \in Gravadores, SalvarChain(g) \/ Encerrar(g)
      PROVE  estado # "parado" /\ \A c \in Contas : Desvio(c)' = Desvio(c)
  <2>1. estado # "parado"
    BY <1>1, <1>3 DEF SalvarChain, Fotografar, Abrir, Gravar, Renomear, Encerrar
  <2> QED
    BY <1>1, <1>3, <2>1, DesvioAoSalvar
<1>4. ASSUME NEW g \in Gravadores, AplicarTransacao(g)
      PROVE  estado # "parado" /\ \A c \in Contas : Desvio(c)' = Desvio(c)
  <2>1. estado # "parado"
    BY <1>1, <1>4 DEF AplicarTransacao
  <2> QED
    BY <1>4, <2>1, DesvioAoAplicar
<1>5. ASSUME NEW g \in Gravadores,
             IniciarDoZero(g) \/ \E chain \in Recebidas : SubstituirChain(g, chain)
      PROVE  \A c \in Contas : Desvio(c)' = 0
  BY <1>5, DesvioAoTrocar
<1>6. CASE Restaurar
  BY <1>6, DesvioAoRestaurar
<1>7. CASE UNCHANGED vars
  BY <1>7 DEF vars, memVars, Desvio, NaoAplicadas, SemAplicar, Ocupados
<1>8. ~ Cair
  BY DEF Cair
<1> QED
  BY <1>2, <1>3, <1>4, <1>5, <1>6, <1>7, <1>8 DEF Next

(* What has happened is not forgotten. *)
LEMMA FurosFicam == [Next]_vars => furos \subseteq furos'
BY DEF Next, vars, CommitarBloco, SubstituirChain, SalvarChain, Fotografar, Abrir, Gravar,
   Renomear, AplicarTransacao, Encerrar, IniciarDoZero, Restaurar, Cair

SaldosEmOrdem ==
    /\ AplicaOQueComitou
    /\ estado # "parado" /\ furos \subseteq {"corrida"} => \A c \in Contas : Desvio(c) = 0

(* For any number of savers, commits, downloads and stops: while a broker  *)
(* runs its balances are those its chain implies, commits in progress set  *)
(* aside, unless a debit was refused, a chain was exchanged under a commit *)
(* or a restart read a snapshot older than its last debit (commitarBloco,  *)
(* SubstituirChain, RestaurarChain).                                       *)
THEOREM SaldosSempreSalvoFuros == Spec => []SaldosSalvoFuros
<1>1. Init => SaldosEmOrdem
  BY CamposDoGravador DEF Init, SaldosEmOrdem, AplicaOQueComitou
<1>2. IInv /\ IInv' /\ SaldosEmOrdem /\ [Next]_vars => SaldosEmOrdem'
  <2> SUFFICES ASSUME IInv, IInv', SaldosEmOrdem, [Next]_vars PROVE SaldosEmOrdem'
    OBVIOUS
  <2>1. AplicaOQueComitou'
    BY AplicaOQueComitouFica DEF SaldosEmOrdem
  <2>2. ASSUME estado' # "parado", furos' \subseteq {"corrida"}
        PROVE  \A c \in Contas : Desvio(c)' = 0
    <3>1. furos \subseteq {"corrida"} /\ {"trocada", "recusado"} \cap furos' = {}
      BY <2>2, FurosFicam
    <3>2. TypeOK' /\ AplicaOQueComitou
      BY DEF IInv, SaldosEmOrdem
    <3>3. CASE estado # "parado" /\ \A c \in Contas : Desvio(c)' = Desvio(c)
      BY <3>1, <3>3 DEF SaldosEmOrdem
    <3>4. CASE Restaurar /\ \A c \in Contas : Desvio(c)' = DesvioDoDisco(c)
      <4>1. Disco.saldos = Replay(Disco.blocos)
        BY <2>2, <3>4 DEF Restaurar, SaldosRestaurados
      <4>2. Disco.blocos \in Seq(Bloco)
        BY ConteudosBons DEF Disco, IInv, TypeOK, Conteudo
      <4>3. Replay(Disco.blocos) \in [Contas -> Int]
        BY <4>2, ReplayEhInteiro
      <4> QED
        BY <3>4, <4>1, <4>3 DEF DesvioDoDisco
    <3> QED
      BY <2>2, <3>1, <3>2, <3>3, <3>4, DesvioAoPassar
  <2> QED
    BY <2>1, <2>2 DEF SaldosEmOrdem
<1>3. SaldosEmOrdem => SaldosSalvoFuros
  BY DEF SaldosEmOrdem, SaldosSalvoFuros, Funcionando
<1> QED
  BY <1>1, <1>2, <1>3, SpecIInv, PTL DEF Spec
-----------------------------------------------------------------------------
(* What stops can forget.  Between n transactions debited and n credited.  *)
Entre(x, n) == x \in (0 - n * (Recarga + Recompensa))..(n * Custo)

Muitos == Cardinality(Gravadores)

LEMMA MuitosEhNatural == Muitos \in Nat
BY InstanciaAssumption, FS_CardinalityType DEF Muitos

LEMMA ProdutoCresce ==
  ASSUME NEW k \in Nat, NEW n \in Nat, NEW m \in Nat, n <= m
  PROVE  n * k \in Nat /\ m * k \in Nat /\ n * k <= m * k
<1>1. PICK d \in Nat : m = n + d
  <2>1. m - n \in Nat /\ m = n + (m - n)
    OBVIOUS
  <2> QED
    BY <2>1
<1>2. m * k = n * k + d * k /\ d * k \in Nat /\ n * k \in Nat
  BY <1>1
<1> QED
  BY <1>2

LEMMA EntreCresce ==
  ASSUME NEW n \in Nat, NEW m \in Nat, n <= m, NEW x \in Int, Entre(x, n)
  PROVE  Entre(x, m)
<1>1. Recarga + Recompensa \in Nat /\ Custo \in Nat
  BY CreditosAssumption
<1> DEFINE k == Recarga + Recompensa
<1> HIDE DEF k
<1>2. /\ n * k \in Nat /\ m * k \in Nat /\ n * k <= m * k
      /\ n * Custo \in Nat /\ m * Custo \in Nat /\ n * Custo <= m * Custo
  <2>1. k \in Nat
    BY <1>1 DEF k
  <2> QED
    BY <1>1, <2>1, ProdutoCresce
<1>3. x \in (0 - n * k)..(n * Custo)
  BY DEF Entre, k
<1>4. x \in (0 - m * k)..(m * Custo)
  BY <1>2, <1>3
<1> QED
  BY <1>4 DEF Entre, k

LEMMA EntreZero == \A n \in Nat : Entre(0, n)
<1> SUFFICES ASSUME NEW n \in Nat PROVE Entre(0, n)
  OBVIOUS
<1>1. n * (Recarga + Recompensa) \in Nat /\ n * Custo \in Nat
  BY CreditosAssumption
<1> QED
  BY <1>1 DEF Entre

(* One transaction more for each goroutine. *)
LEMMA EntreFoto ==
  ASSUME NEW n \in Nat, NEW m \in Nat, NEW x \in Int, Entre(x, n),
         NEW a \in Nat, NEW b \in Nat, NEW e \in Nat, a <= m, b <= m, e <= m
  PROVE  Entre(x - (Recompensa * b + Recarga * e - Custo * a), n + m)
<1> DEFINE k == Recarga + Recompensa
<1>1. /\ n * k \in Nat /\ n * Custo \in Nat
      /\ n * k = n * Recarga + n * Recompensa
      /\ m * k = m * Recarga + m * Recompensa
      /\ (n + m) * k = n * k + m * k /\ (n + m) * Custo = n * Custo + m * Custo
  BY CreditosAssumption
<1>2. /\ Recompensa * b \in Nat /\ m * Recompensa \in Nat /\ Recompensa * b <= m * Recompensa
      /\ Recarga * e \in Nat /\ m * Recarga \in Nat /\ Recarga * e <= m * Recarga
      /\ Custo * a \in Nat /\ m * Custo \in Nat /\ Custo * a <= m * Custo
  <2>1. \A q \in Nat, r \in Nat : r <= m => /\ r * q \in Nat /\ m * q \in Nat
                                           /\ r * q <= m * q
    BY ProdutoCresce
  <2>2. /\ Recompensa * b = b * Recompensa /\ Recarga * e = e * Recarga
        /\ Custo * a = a * Custo
    BY CreditosAssumption
  <2> QED
    BY <2>1, <2>2, CreditosAssumption
<1>3. x \in (0 - n * k)..(n * Custo)
  BY DEF Entre
<1> HIDE DEF k
<1>4. x - (Recompensa * b + Recarga * e - Custo * a) \in (0 - (n + m) * k)..((n + m) * Custo)
  BY <1>1, <1>2, <1>3
<1> QED
  BY <1>4 DEF Entre, k

(* Who stops the broker, and who starts it.                                *)
Papeis ==
    /\ \A g \in Ocupados :
          /\ gravador[g].depois = "sair" => estado = "encerrando"
          /\ gravador[g].depois = "ligar" => estado = "construindo"
    /\ estado = "construindo" => \A g, h \in Ocupados : g = h
    /\ estado = "encerrando" => paradas >= 1

(* Stops that are over for the balances, and those a snapshot may meet.    *)
Piso == IF estado = "encerrando" THEN paradas - 1 ELSE paradas
Teto == IF estado \in {"parado", "encerrando"} THEN paradas ELSE paradas + 1

DesvioDe(foto, c) == foto.saldos[c] - Replay(foto.blocos)[c]

Perdas ==
    furos \subseteq {"retomado"} =>
        /\ estado # "parado" => \A c \in Contas : Entre(Desvio(c), Piso * Muitos)
        /\ \A c \in Contas : Entre(DesvioDe(Disco, c), Teto * Muitos)
        /\ \A g \in Escrevendo, c \in Contas : Entre(DesvioDe(gravador[g].foto, c), Teto * Muitos)

PerdaInv == AplicaOQueComitou /\ Papeis /\ Perdas

LEMMA DesvioDeEhInteiro ==
  ASSUME NEW foto \in Conteudo, NEW c \in Contas
  PROVE  DesvioDe(foto, c) \in Int
<1>1. foto.saldos \in [Contas -> Int] /\ foto.blocos \in Seq(Bloco)
  BY DEF Conteudo
<1>2. Replay(foto.blocos) \in [Contas -> Int]
  BY <1>1, ReplayEhInteiro
<1> QED
  BY <1>1, <1>2 DEF DesvioDe

LEMMA PapeisFicam ==
  ASSUME IInv, Papeis, [Next]_vars
  PROVE  Papeis'
<1>1. /\ TypeOK /\ paradas \in Nat
      /\ estado = "parado" => \A g \in Gravadores : gravador[g].passo = "livre"
  BY InstanciaAssumption DEF IInv, TypeOK, ParadoSemGravador
<1>2. ASSUME NEW g \in Gravadores, NEW d \in Propostas,
             \/ CommitarBloco(g, d)
             \/ \E chain \in Recebidas : SubstituirChain(g, chain)
      PROVE  Papeis'
  <2>1. PICK x, e : /\ x \in {"nada", "aplicar"}
                    /\ gravador' = [gravador EXCEPT ![g] = Salvar(x, e)]
    BY <1>2 DEF CommitarBloco, SubstituirChain, SalvarTroca
  <2>2. estado \in {"ligado", "encerrando"} /\ UNCHANGED <<estado, paradas>>
    BY <1>2 DEF CommitarBloco, SubstituirChain, Funcionando
  <2> QED
    BY <1>1, <2>1, <2>2, CamposDoGravador DEF TypeOK, Papeis, Ocupados
<1>3. ASSUME NEW g \in Gravadores, Encerrar(g) PROVE Papeis'
  <2>1. /\ gravador' = [gravador EXCEPT ![g] = Salvar("sair", QualquerDado)]
        /\ estado = "ligado" /\ estado' = "encerrando" /\ paradas' = paradas + 1
    BY <1>3 DEF Encerrar
  <2> QED
    BY <1>1, <2>1, CamposDoGravador DEF TypeOK, Papeis, Ocupados
<1>4. ASSUME NEW g \in Gravadores, IniciarDoZero(g) PROVE Papeis'
  <2>1. /\ gravador' = [gravador EXCEPT ![g] = Salvar("ligar", QualquerDado)]
        /\ estado = "parado" /\ estado' = "construindo" /\ paradas' = paradas
    BY <1>4 DEF IniciarDoZero
  <2>2. \A h \in Ocupados' : h = g
    BY <1>1, <2>1 DEF TypeOK, Ocupados
  <2> QED
    BY <1>1, <2>1, <2>2, CamposDoGravador DEF TypeOK, Papeis
<1>5. ASSUME NEW g \in Gravadores, SalvarChain(g) PROVE Papeis'
  <2>1. gravador[g] \in Gravador /\ paradas' = paradas
    BY <1>1, <1>5 DEF TypeOK, SalvarChain, Fotografar, Abrir, Gravar, Renomear
  <2>2. ASSUME estado' = estado, Ocupados' \subseteq Ocupados,
               \A h \in Ocupados' : gravador'[h].depois = gravador[h].depois
        PROVE  Papeis'
    BY <2>1, <2>2 DEF Papeis
  <2>3. CASE Fotografar(g)
    BY <1>1, <2>1, <2>2, <2>3 DEF Fotografar, TypeOK, Gravador, Ocupados
  <2>4. CASE Abrir(g)
    <3>1. PICK n \in Inodes : gravador' = [gravador EXCEPT ![g].passo = "gravar", ![g].fd = n]
      BY <2>4 DEF Abrir
    <3> QED
      BY <1>1, <2>1, <2>2, <2>4, <3>1 DEF Abrir, TypeOK, Gravador, Ocupados
  <2>5. CASE Gravar(g)
    BY <1>1, <2>1, <2>2, <2>5 DEF Gravar, TypeOK, Gravador, Ocupados
  <2>6. CASE Renomear(g)
    <3>1. g \in Ocupados
      BY <2>6 DEF Renomear, Ocupados
    <3>2. CASE gravador[g].depois = "aplicar"
      <4>1. gravador' = [gravador EXCEPT ![g].passo = "aplicar"] /\ estado' = estado
        BY <2>6, <3>2 DEF Renomear, Avancar
      <4> QED
        BY <1>1, <2>1, <2>2, <3>1, <4>1 DEF TypeOK, Gravador, Ocupados
    <3>3. CASE gravador[g].depois = "sair"
      <4>1. gravador' = [h \in Gravadores |-> Livre] /\ estado' = "parado"
        BY <2>6, <3>3 DEF Renomear
      <4> QED
        BY <4>1, CamposDoGravador DEF Papeis, Ocupados
    <3>4. CASE gravador[g].depois \notin {"aplicar", "sair"}
      <4>1. gravador' = [gravador EXCEPT ![g] = Livre]
        BY <2>6, <3>4 DEF Renomear
      <4>2. /\ Ocupados' \subseteq Ocupados \ {g}
            /\ \A h \in Ocupados' : gravador'[h].depois = gravador[h].depois
        BY <1>1, <4>1, CamposDoGravador DEF TypeOK, Ocupados
      <4>3. CASE gravador[g].depois = "ligar"
        <5>1. estado = "construindo" /\ estado' = "ligado"
          BY <2>6, <3>1, <4>3 DEF Papeis, Renomear
        <5>2. Ocupados' = {}
          BY <3>1, <4>2, <5>1 DEF Papeis
        <5> QED
          BY <5>1, <5>2 DEF Papeis
      <4>4. CASE gravador[g].depois # "ligar"
        <5>1. estado' = estado
          BY <2>6, <3>4, <4>4 DEF Renomear
        <5> QED
          BY <2>2, <4>2, <5>1
      <4> QED
        BY <4>3, <4>4
    <3> QED
      BY <3>2, <3>3, <3>4
  <2> QED
    BY <1>5, <2>3, <2>4, <2>5, <2>6 DEF SalvarChain
<1>6. ASSUME NEW g \in Gravadores, AplicarTransacao(g) PROVE Papeis'
  <2>1. gravador' = [gravador EXCEPT ![g] = Livre] /\ UNCHANGED <<estado, paradas>>
    BY <1>6 DEF AplicarTransacao
  <2>2. /\ Ocupados' \subseteq Ocupados
        /\ \A h \in Ocupados' : gravador'[h].depois = gravador[h].depois
    BY <1>1, <2>1, CamposDoGravador DEF TypeOK, Ocupados
  <2> QED
    BY <2>1, <2>2 DEF Papeis
<1>7. CASE Cair
  BY <1>7, CamposDoGravador DEF Cair, Papeis, Ocupados
<1>8. CASE Restaurar
  BY <1>1, <1>8 DEF Restaurar, Papeis, Ocupados
<1>9. CASE UNCHANGED vars
  BY <1>9 DEF vars, Papeis, Ocupados
<1> QED
  BY <1>2, <1>3, <1>4, <1>5, <1>6, <1>7, <1>8, <1>9, GravadoresBons DEF Next
LEMMA EstadoAoPassar ==
  ASSUME IInv, Papeis, [Next]_vars
  PROVE  \/ estado' = estado /\ paradas' = paradas
         \/ estado = "ligado" /\ estado' = "encerrando" /\ paradas' = paradas + 1
         \/ estado = "encerrando" /\ estado' = "parado" /\ paradas' = paradas
         \/ estado = "construindo" /\ estado' = "ligado" /\ paradas' = paradas
         \/ estado = "parado" /\ estado' \in {"construindo", "ligado"} /\ paradas' = paradas
         \/ estado # "parado" /\ estado' = "parado" /\ paradas' = paradas + 1
<1>1. ASSUME NEW g \in Gravadores, Renomear(g)
      PROVE  \/ estado' = estado /\ paradas' = paradas
             \/ estado = "encerrando" /\ estado' = "parado" /\ paradas' = paradas
             \/ estado = "construindo" /\ estado' = "ligado" /\ paradas' = paradas
  BY <1>1 DEF Renomear, Papeis, Ocupados
<1>2. ASSUME NEW g \in Gravadores,
             \/ \E d \in Propostas : CommitarBloco(g, d)
             \/ \E c \in Recebidas : SubstituirChain(g, c)
             \/ Fotografar(g) \/ Abrir(g) \/ Gravar(g) \/ AplicarTransacao(g)
      PROVE  estado' = estado /\ paradas' = paradas
  BY <1>2 DEF CommitarBloco, SubstituirChain, Fotografar, Abrir, Gravar, AplicarTransacao
<1>3. ASSUME NEW g \in Gravadores, Encerrar(g)
      PROVE  estado = "ligado" /\ estado' = "encerrando" /\ paradas' = paradas + 1
  BY <1>3 DEF Encerrar
<1>4. ASSUME (\E g \in Gravadores : IniciarDoZero(g)) \/ Restaurar
      PROVE  estado = "parado" /\ estado' \in {"construindo", "ligado"} /\ paradas' = paradas
  BY <1>4 DEF IniciarDoZero, Restaurar
<1>5. CASE Cair
  BY <1>5 DEF Cair
<1>6. CASE UNCHANGED vars
  BY <1>6 DEF vars
<1> QED
  BY <1>1, <1>2, <1>3, <1>4, <1>5, <1>6 DEF Next, SalvarChain

(* Stops only add up.                                                      *)
LEMMA ParadasCrescem ==
  ASSUME IInv, IInv', Papeis, Papeis', [Next]_vars
  PROVE  /\ Teto \in Nat /\ Teto' \in Nat /\ Teto <= Teto'
         /\ Piso \in Nat /\ Piso' \in Nat
         /\ estado # "parado" => Teto = Piso + 1 /\ (estado' # "parado" => Piso <= Piso')
         /\ estado = "parado" => Piso' = Teto
<1>1. paradas \in Nat /\ paradas' \in Nat
  BY InstanciaAssumption DEF IInv, TypeOK
<1>2. /\ estado = "encerrando" => paradas >= 1
      /\ estado' = "encerrando" => paradas' >= 1
  BY DEF Papeis
<1>3. /\ estado = "parado" => Teto = paradas /\ Piso = paradas
      /\ estado = "encerrando" => Teto = paradas /\ Piso = paradas - 1
      /\ estado \notin {"parado", "encerrando"} => Teto = paradas + 1 /\ Piso = paradas
  BY DEF Teto, Piso
<1>4. /\ estado' = "parado" => Teto' = paradas' /\ Piso' = paradas'
      /\ estado' = "encerrando" => Teto' = paradas' /\ Piso' = paradas' - 1
      /\ estado' \notin {"parado", "encerrando"} => Teto' = paradas' + 1 /\ Piso' = paradas'
  BY DEF Teto, Piso
<1>5. Teto \in Nat /\ Piso \in Nat /\ (estado # "parado" => Teto = Piso + 1)
  BY <1>1, <1>2, <1>3
<1>6. Teto' \in Nat /\ Piso' \in Nat
  BY <1>1, <1>2, <1>4
<1>7. /\ Teto <= Teto'
      /\ estado = "parado" => Piso' = Teto
      /\ estado # "parado" /\ estado' # "parado" => Piso <= Piso'
  BY <1>1, <1>2, <1>3, <1>4, EstadoAoPassar
<1> QED
  BY <1>5, <1>6, <1>7

(* Without two savers at once the file is what it was or what the saver    *)
(* that renames has photographed.                                          *)
LEMMA DiscoAoPassar ==
  ASSUME IInv, IInv', [Next]_vars, ~ Corrida'
  PROVE  Disco' = Disco \/ \E g \in Escrevendo : Disco' = gravador[g].foto
<1>1. ~ Corrida
  BY FurosFicam DEF Corrida
<1>2. Sozinho /\ TypeOK
  BY <1>1 DEF IInv
<1>3. CASE UNCHANGED discoVars
  BY <1>3 DEF discoVars, Disco
<1>4. ASSUME NEW g \in Gravadores, Abrir(g) PROVE Disco' = Disco
  <2>1. PICK n \in Inodes :
          /\ IF nome.tmp # Nenhum THEN n = nome.tmp ELSE \A x \in DOMAIN nome : nome[x] # n
          /\ arquivo' = [arquivo EXCEPT ![n] = Vazio]
          /\ nome' = [nome EXCEPT !["tmp"] = n]
    BY <1>4 DEF Abrir, Destino
  <2>2. n # nome.oficial
    <3>1. DOMAIN nome = {"tmp", "oficial"}
      BY <1>2 DEF TypeOK
    <3> QED
      BY <1>2, <2>1, <3>1 DEF Sozinho, NomesDistintos
  <2>3. nome'.oficial = nome.oficial
    BY <1>2, <2>1 DEF TypeOK
  <2>4. nome.oficial # Nenhum => arquivo'[nome.oficial] = arquivo[nome.oficial]
    BY <1>2, <2>1, <2>2 DEF TypeOK
  <2> QED
    BY <2>3, <2>4 DEF Disco
<1>5. ASSUME NEW g \in Gravadores, Gravar(g) PROVE Disco' = Disco
  <2>1. gravador[g].fd = nome.tmp /\ nome.tmp # Nenhum /\ nome.tmp # nome.oficial
    BY <1>2, <1>5 DEF Gravar, Sozinho, TmpDoGravador, NomesDistintos
  <2>2. PICK c : arquivo' = [arquivo EXCEPT ![nome.tmp] = c]
    BY <1>5, <2>1 DEF Gravar
  <2>3. nome' = nome
    BY <1>5 DEF Gravar
  <2>4. nome.oficial # Nenhum => arquivo'[nome.oficial] = arquivo[nome.oficial]
    BY <1>2, <2>1, <2>2 DEF TypeOK
  <2> QED
    BY <2>3, <2>4 DEF Disco
<1>6. ASSUME NEW g \in Gravadores, Renomear(g)
      PROVE  g \in Escrevendo /\ Disco' = gravador[g].foto
  <2>1. nome.tmp # Nenhum /\ arquivo[nome.tmp] = gravador[g].foto
    BY <1>2, <1>6 DEF Renomear, Sozinho, TmpDoGravador
  <2>2. nome'.oficial = nome.tmp /\ arquivo' = arquivo
    BY <1>6, <2>1 DEF Renomear
  <2> QED
    BY <1>6, <2>1, <2>2 DEF Disco, Renomear, Escrevendo
<1> QED
  BY <1>3, <1>4, <1>5, <1>6
     DEF Next, vars, SalvarChain, CommitarBloco, SubstituirChain, Fotografar,
         AplicarTransacao, Encerrar, IniciarDoZero, Restaurar, Cair

(* A photograph is kept until its saver ends, or is taken now. *)
LEMMA FotosAoPassar ==
  ASSUME IInv, [Next]_vars, NEW g \in Escrevendo'
  PROVE  \/ g \in Escrevendo /\ gravador'[g].foto = gravador[g].foto
         \/ estado # "parado" /\ gravador'[g].foto = Foto(blocos, saldos)
<1>1. /\ TypeOK /\ g \in Gravadores /\ gravador'[g].passo \in {"abrir", "gravar", "renomear"}
      /\ estado = "parado" => gravador[g].passo = "livre"
  BY DEF IInv, ParadoSemGravador, Escrevendo
<1>2. CASE gravador'[g] = gravador[g]
  BY <1>1, <1>2 DEF Escrevendo
<1>3. ASSUME NEW h \in Gravadores, NEW r, gravador' = [gravador EXCEPT ![h] = r],
             r.passo \notin {"abrir", "gravar", "renomear"}
      PROVE  gravador'[g] = gravador[g]
  BY <1>1, <1>3 DEF TypeOK
<1>4. ASSUME NEW h \in Gravadores, NEW x, NEW d,
             gravador' = [gravador EXCEPT ![h] = Salvar(x, d)]
      PROVE  gravador'[g] = gravador[g]
  BY <1>3, <1>4, CamposDoGravador
<1>5. ASSUME NEW h \in Gravadores,
             \/ \E d \in Propostas : CommitarBloco(h, d)
             \/ \E c \in Recebidas : SubstituirChain(h, c)
             \/ Encerrar(h) \/ IniciarDoZero(h)
      PROVE  gravador'[g] = gravador[g]
  <2>1. PICK x, d : gravador' = [gravador EXCEPT ![h] = Salvar(x, d)]
    BY <1>5 DEF CommitarBloco, SubstituirChain, SalvarTroca, Encerrar, IniciarDoZero
  <2> QED
    BY <1>4, <2>1
<1>6. ASSUME NEW h \in Gravadores, AplicarTransacao(h) PROVE gravador'[g] = gravador[g]
  BY <1>3, <1>6, CamposDoGravador DEF AplicarTransacao
<1>7. ASSUME NEW h \in Gravadores, Fotografar(h)
      PROVE  \/ gravador'[g] = gravador[g]
             \/ estado # "parado" /\ gravador'[g].foto = Foto(blocos, saldos)
  <2>1. gravador[h] \in Gravador
    BY <1>1 DEF TypeOK
  <2> QED
    BY <1>1, <1>7, <2>1 DEF Fotografar, TypeOK, Gravador
<1>8. ASSUME NEW h \in Gravadores, Abrir(h) \/ Gravar(h)
      PROVE  g \in Escrevendo /\ gravador'[g].foto = gravador[g].foto
  <2>1. gravador[h] \in Gravador /\ h \in Escrevendo
    BY <1>1, <1>8 DEF TypeOK, Abrir, Gravar, Escrevendo
  <2>2. PICK p, n : gravador' = [gravador EXCEPT ![h].passo = p, ![h].fd = n]
    BY <1>8 DEF Abrir, Gravar
  <2>3. gravador'[h].foto = gravador[h].foto
    BY <1>1, <2>1, <2>2 DEF TypeOK, Gravador
  <2>4. g # h => gravador'[g] = gravador[g]
    BY <1>1, <2>2 DEF TypeOK
  <2> QED
    BY <1>1, <2>1, <2>3, <2>4 DEF Escrevendo
<1>9. ASSUME NEW h \in Gravadores, Renomear(h) PROVE gravador'[g] = gravador[g]
  <2>1. CASE gravador[h].depois = "aplicar"
    <3>1. gravador' = [gravador EXCEPT ![h] = [gravador[h] EXCEPT !.passo = "aplicar"]]
      BY <1>1, <1>9, <2>1 DEF Renomear, Avancar, TypeOK
    <3>2. [gravador[h] EXCEPT !.passo = "aplicar"].passo = "aplicar"
      <4>1. gravador[h] \in Gravador
        BY <1>1 DEF TypeOK
      <4> QED
        BY <4>1 DEF Gravador
    <3> QED
      BY <1>3, <3>1, <3>2
  <2>2. CASE gravador[h].depois = "sair"
    <3>1. gravador' = [k \in Gravadores |-> Livre]
      BY <1>9, <2>2 DEF Renomear
    <3> QED
      BY <1>1, <3>1, CamposDoGravador
  <2>3. CASE gravador[h].depois \notin {"aplicar", "sair"}
    <3>1. gravador' = [gravador EXCEPT ![h] = Livre]
      BY <1>9, <2>3 DEF Renomear
    <3> QED
      BY <1>3, <3>1, CamposDoGravador
  <2> QED
    BY <2>1, <2>2, <2>3
<1>10. CASE Cair
  BY <1>1, <1>10, CamposDoGravador DEF Cair
<1>11. CASE Restaurar \/ UNCHANGED vars
  BY <1>2, <1>11 DEF Restaurar, vars
<1> QED
  BY <1>2, <1>5, <1>6, <1>7, <1>8, <1>9, <1>10, <1>11 DEF Next, SalvarChain

LEMMA PerdasAoPassar ==
  ASSUME IInv, IInv', PerdaInv, Papeis', [Next]_vars
  PROVE  Perdas'
<1> SUFFICES ASSUME furos' \subseteq {"retomado"}
    PROVE  /\ estado' # "parado" => \A c \in Contas : Entre(Desvio(c)', Piso' * Muitos)
           /\ \A c \in Contas : Entre(DesvioDe(Disco', c), Teto' * Muitos)
           /\ \A g \in Escrevendo', c \in Contas :
                 Entre(DesvioDe(gravador'[g].foto, c), Teto' * Muitos)
  BY DEF Perdas, Entre, DesvioDe, Muitos
<1>1. /\ TypeOK /\ TypeOK' /\ AplicaOQueComitou /\ Papeis
      /\ ~ Corrida' /\ {"trocada", "recusado"} \cap furos' = {} /\ furos \subseteq {"retomado"}
  BY FurosFicam DEF IInv, PerdaInv, Corrida
<1> DEFINE p == Piso * Muitos
           t == Teto * Muitos
           pn == Piso' * Muitos
           tn == Teto' * Muitos
<1>2. /\ estado # "parado" => \A c \in Contas : Entre(Desvio(c), p)
      /\ \A c \in Contas : Entre(DesvioDe(Disco, c), t)
      /\ \A g \in Escrevendo, c \in Contas : Entre(DesvioDe(gravador[g].foto, c), t)
  BY <1>1 DEF PerdaInv, Perdas
<1>3. /\ p \in Nat /\ t \in Nat /\ pn \in Nat /\ tn \in Nat /\ t <= tn
      /\ estado # "parado" => t = p + Muitos /\ (estado' # "parado" => p <= pn)
      /\ estado = "parado" => pn = t
  <2>1. /\ Teto \in Nat /\ Teto' \in Nat /\ Teto <= Teto'
        /\ Piso \in Nat /\ Piso' \in Nat
        /\ estado # "parado" => Teto = Piso + 1 /\ (estado' # "parado" => Piso <= Piso')
        /\ estado = "parado" => Piso' = Teto
    BY <1>1, ParadasCrescem
  <2>2. (Piso + 1) * Muitos = Piso * Muitos + Muitos
    BY <2>1, MuitosEhNatural
  <2>3. p \in Nat /\ t \in Nat /\ pn \in Nat /\ tn \in Nat
    <3>1. \A n \in Nat : n * Muitos \in Nat
      BY MuitosEhNatural
    <3> QED
      BY <2>1, <3>1
  <2>4. t <= tn
    BY <2>1, MuitosEhNatural, ProdutoCresce
  <2>5. estado # "parado" /\ estado' # "parado" => p <= pn
    BY <2>1, MuitosEhNatural, ProdutoCresce
  <2> QED
    BY <2>1, <2>2, <2>3, <2>4, <2>5
<1> HIDE DEF p, t, pn, tn
<1>4. Disco \in Conteudo /\ \A g \in Gravadores : gravador[g].foto \in Conteudo
  BY <1>1, ConteudosBons DEF Disco, TypeOK, Gravador
<1>5. \A c \in Contas : Desvio(c) \in Int
  BY <1>1, DesvioEhSoma DEF DesvioSoma
<1>6. ASSUME estado' # "parado", NEW c \in Contas PROVE Entre(Desvio(c)', pn)
  <2>1. CASE estado # "parado" /\ Desvio(c)' = Desvio(c)
    BY <1>2, <1>3, <1>5, <1>6, <2>1, EntreCresce
  <2>2. CASE Desvio(c)' = 0
    BY <1>3, <2>2, EntreZero
  <2>3. CASE Restaurar /\ Desvio(c)' = DesvioDoDisco(c)
    <3>1. estado = "parado"
      BY <2>3 DEF Restaurar
    <3> QED
      BY <1>2, <1>3, <2>3, <3>1 DEF DesvioDoDisco, DesvioDe
  <2> QED
    BY <1>1, <1>6, <2>1, <2>2, <2>3, DesvioAoPassar
<1>7. ASSUME NEW c \in Contas PROVE Entre(DesvioDe(Disco', c), tn)
  <2>1. CASE Disco' = Disco
    BY <1>2, <1>3, <1>4, <2>1, DesvioDeEhInteiro, EntreCresce
  <2>2. ASSUME NEW g \in Escrevendo, Disco' = gravador[g].foto
        PROVE  Entre(DesvioDe(Disco', c), tn)
    <3>1. g \in Gravadores
      BY DEF Escrevendo
    <3> QED
      BY <1>2, <1>3, <1>4, <2>2, <3>1, DesvioDeEhInteiro, EntreCresce
  <2> QED
    BY <1>1, <2>1, <2>2, DiscoAoPassar
<1>8. ASSUME NEW g \in Escrevendo', NEW c \in Contas
      PROVE  Entre(DesvioDe(gravador'[g].foto, c), tn)
  <2>1. g \in Gravadores
    BY DEF Escrevendo
  <2>2. CASE g \in Escrevendo /\ gravador'[g].foto = gravador[g].foto
    BY <1>2, <1>3, <1>4, <2>1, <2>2, DesvioDeEhInteiro, EntreCresce
  <2>3. CASE estado # "parado" /\ gravador'[g].foto = Foto(blocos, saldos)
    <3>1. DesvioDe(gravador'[g].foto, c) = saldos[c] - Replay(blocos)[c]
      BY <2>3 DEF DesvioDe, Foto
    <3>2. /\ saldos[c] \in Int /\ Replay(blocos)[c] \in Int /\ Pendencia(c) \in Int
          /\ Desvio(c) = saldos[c] - Replay(blocos)[c] + Pendencia(c)
      BY <1>1, DesvioEhSoma DEF DesvioSoma
    <3>3. saldos[c] - Replay(blocos)[c] = Desvio(c) - Pendencia(c)
      BY <3>2
    <3>4. Entre(Desvio(c) - Pendencia(c), p + Muitos)
      BY <1>2, <1>3, <1>5, <2>3, EsperandoEhFinito, MuitosEhNatural, EntreFoto
         DEF Pendencia, Muitos
    <3>5. Entre(Desvio(c) - Pendencia(c), t)
      BY <1>3, <2>3, <3>4
    <3> QED
      BY <1>3, <1>5, <3>1, <3>2, <3>3, <3>5, EntreCresce
  <2> QED
    BY <2>2, <2>3, FotosAoPassar
<1> QED
  BY <1>6, <1>7, <1>8 DEF pn, tn

(* For any number of savers and stops: what a stop makes the balances      *)
(* forget is at most one transaction for each goroutine that was between a *)
(* commit and its debit or credit when the last snapshot was taken, and    *)
(* stops add up (SalvarChain, RestaurarChain).                             *)
THEOREM PerdaSempreLimitada == Spec => []PerdaLimitada
<1>1. Init => PerdaInv
  <2> SUFFICES ASSUME Init PROVE PerdaInv
    OBVIOUS
  <2>1. Ocupados = {} /\ Escrevendo = {}
    BY CamposDoGravador DEF Init, Ocupados, Escrevendo
  <2>2. AplicaOQueComitou /\ Papeis
    BY <2>1, CamposDoGravador DEF Init, AplicaOQueComitou, Papeis
  <2>3. Disco = Vazio /\ Teto = 0 /\ estado = "parado"
    BY DEF Init, Disco, Teto
  <2>4. ASSUME NEW c \in Contas PROVE Entre(DesvioDe(Vazio, c), 0 * Muitos)
    <3>1. DesvioDe(Vazio, c) = 0
      BY ReplayDoGenesis, CreditosAssumption DEF DesvioDe, Vazio, SaldosIniciais
    <3> QED
      BY <3>1, EntreZero, MuitosEhNatural
  <2> QED
    BY <2>1, <2>2, <2>3, <2>4 DEF PerdaInv, Perdas
<1>2. IInv /\ IInv' /\ PerdaInv /\ [Next]_vars => PerdaInv'
  BY AplicaOQueComitouFica, PapeisFicam, PerdasAoPassar DEF PerdaInv
<1>3. IInv /\ PerdaInv => PerdaLimitada
  <2> SUFFICES ASSUME IInv, PerdaInv, Funcionando, furos \subseteq {"retomado"},
                      NEW c \in Contas
               PROVE  Entre(Desvio(c), paradas * Muitos)
    BY DEF PerdaLimitada, Entre, Muitos
  <2>1. Entre(Desvio(c), Piso * Muitos) /\ Desvio(c) \in Int
    BY DesvioEhSoma DEF IInv, PerdaInv, Perdas, Funcionando, DesvioSoma
  <2>2. paradas \in Nat /\ Piso \in Nat /\ Piso <= paradas
    BY InstanciaAssumption DEF IInv, TypeOK, PerdaInv, Papeis, Piso
  <2> QED
    BY <2>1, <2>2, ProdutoCresce, EntreCresce, MuitosEhNatural
<1> QED
  BY <1>1, <1>2, <1>3, SpecIInv, PTL DEF Spec

=============================================================================
