---------------------------- MODULE Persistencia ----------------------------
(***************************************************************************)
(* One broker's ledger in memory and on disk (src/blockchain): commits and *)
(* downloaded chains change the memory under Chain.mu, SalvarChain copies  *)
(* it and, without a lock, writes chain_<id>.tmp and renames it to         *)
(* chain_<id>.json, and NovaChain starts from that file.                   *)
(*                                                                         *)
(* A commit is debited after its SalvarChain has returned.  Several        *)
(* savers may be at work: commits, downloads and the shutdown.             *)
(***************************************************************************)
EXTENDS Ledger

CONSTANTS
    Gravadores,   \* bound: goroutines that may be saving at once
    Inodes,       \* bound: files that exist at once
    Autor,        \* validator of the blocks committed here
    MaxCommits,   \* bound: blocks committed here
    Propostas,    \* what the blocks of the instance carry
    Recebidas,    \* chains that peers may send
    MaxParadas    \* bound: crashes and shutdowns

VARIABLES
    blocos,       \* Chain.Blocos, without the genesis
    saldos,       \* Chain.Saldos
    estado,       \* is the broker running, starting, shutting down, stopped?
    gravador,     \* each goroutine between a change of the chain and its end
    arquivo,      \* the contents of each file
    nome,         \* which file, if any, has which name
    proximo,      \* blocks built so far, so the next one has a new hash
    paradas,      \* stops so far
    furos         \* history: what has happened that explains a difference

memVars == <<blocos, saldos, proximo>>
discoVars == <<arquivo, nome>>
vars == <<memVars, discoVars, estado, gravador, paradas, furos>>

ASSUME InstanciaAssumption ==
    /\ Gravadores \subseteq Int /\ IsFiniteSet(Gravadores)
    /\ Inodes \subseteq Nat \ {0}
    /\ Autor \in Brokers
    /\ MaxCommits \in 0..MaxBlocos
    /\ Propostas \subseteq Dados /\ Propostas # {}
    /\ Recebidas \subseteq Seq(Bloco)
    /\ MaxParadas \in Nat

SaldosIniciais == [c \in Contas |-> SaldoInicial]

(* A file is empty after O_TRUNC, a whole snapshot, or bytes of two of     *)
(* them; only the second can be parsed.                                    *)
Vazio == [tipo |-> "vazio", blocos |-> <<>>, saldos |-> SaldosIniciais]
Misturado == [Vazio EXCEPT !.tipo = "misturado"]
Foto(chain, s) == [tipo |-> "inteiro", blocos |-> chain, saldos |-> s]

Conteudo == [tipo : {"vazio", "inteiro", "misturado"}, blocos : Seq(Bloco),
             saldos : [Contas -> Int]]

Nenhum == 0

(* A goroutine that saves: its photograph, the open file, and what is left *)
(* to do with the block it committed, if any, once it has saved.           *)
Gravador == [passo : {"livre", "fotografar", "abrir", "gravar", "renomear", "aplicar"},
             foto : Conteudo,
             fd : Inodes \cup {Nenhum},
             depois : {"nada", "aplicar", "sair", "ligar"},
             dados : Propostas]

Salvar(depois, d) == [passo |-> "fotografar", foto |-> Vazio, fd |-> Nenhum,
                      depois |-> depois, dados |-> d]
QualquerDado == CHOOSE d \in Propostas : TRUE
Livre == [Salvar("nada", QualquerDado) EXCEPT !.passo = "livre"]

TypeOK ==
    /\ blocos \in Seq(Bloco)
    /\ saldos \in [Contas -> Int]
    /\ estado \in {"parado", "construindo", "ligado", "encerrando"}
    /\ gravador \in [Gravadores -> Gravador]
    /\ arquivo \in [Inodes -> Conteudo]
    /\ nome \in [{"tmp", "oficial"} -> Inodes \cup {Nenhum}]
    /\ proximo \in 0..MaxCommits
    /\ paradas \in 0..MaxParadas
    /\ furos \subseteq {"corrida", "recusado", "trocada", "retomado"}

(* A first start: NovaChain finds no file. *)
Init ==
    /\ blocos = <<>>
    /\ saldos = SaldosIniciais
    /\ estado = "parado"
    /\ gravador = [g \in Gravadores |-> Livre]
    /\ arquivo = [n \in Inodes |-> Vazio]
    /\ nome = [tmp |-> Nenhum, oficial |-> Nenhum]
    /\ proximo = 0
    /\ paradas = 0
    /\ furos = {}

-----------------------------------------------------------------------------
Ocupados == {g \in Gravadores : gravador[g].passo # "livre"}
Escrevendo == {g \in Gravadores : gravador[g].passo \in {"abrir", "gravar", "renomear"}}

(* Committed here and not debited or credited yet. *)
SemAplicar == {g \in Ocupados : gravador[g].depois = "aplicar"}

Funcionando == estado \in {"ligado", "encerrando"}

(* Any free goroutine will do. *)
UmLivre(g) == g \notin Ocupados /\ \A h \in Gravadores : h < g => h \in Ocupados

(***************************************************************************)
(* Changes of the chain in memory                                          *)
(***************************************************************************)

(* Chain.CommitarBloco for the next block, and commitarBloco around it. *)
CommitarBloco(g, d) ==
    LET b == [hash |-> proximo + 1, anterior |-> Ponta(blocos), dados |-> d,
              autor |-> Autor, integro |-> TRUE] IN
    /\ Funcionando
    /\ UmLivre(g)
    /\ proximo < MaxCommits
    /\ proximo' = proximo + 1
    /\ blocos' = Append(blocos, b)
    /\ gravador' = [gravador EXCEPT ![g] =
                      Salvar(IF d.tipo = "LAUDO" THEN "nada" ELSE "aplicar", d)]
    /\ UNCHANGED <<saldos, discoVars, estado, paradas, furos>>

(* A mutant of SaldosAoTrocar: the balances are not cleared first. *)
SaldosSemLimpar(chain) == [c \in Contas |-> saldos[c] + Replay(chain)[c] - SaldoInicial]

SaldosAoTrocar(chain) == Replay(chain)

(* A mutant of SalvarTroca: nothing is saved. *)
TrocaSemSalvar(g) == gravador

(* "Salva o novo estado em disco assincronamente". *)
SalvarTroca(g) == [gravador EXCEPT ![g] = Salvar("nada", QualquerDado)]

SubstituirChain(g, chain) ==
    /\ Funcionando
    /\ UmLivre(g)
    /\ AceitaSubstituir(chain, blocos)
    /\ blocos' = chain
    /\ saldos' = SaldosAoTrocar(chain)
    /\ gravador' = SalvarTroca(g)
    /\ furos' = IF SemAplicar = {} THEN furos ELSE furos \cup {"trocada"}
    /\ UNCHANGED <<discoVars, proximo, estado, paradas>>

(***************************************************************************)
(* SalvarChain                                                             *)
(***************************************************************************)
Avancar(g, passo) == gravador' = [gravador EXCEPT ![g].passo = passo]

(* The copy, under the read lock.  Two savers between their copies and     *)
(* their renames use one temporary file.                                   *)
Fotografar(g) ==
    /\ gravador[g].passo = "fotografar"
    /\ gravador' = [gravador EXCEPT ![g].passo = "abrir",
                                    ![g].foto = Foto(blocos, saldos)]
    /\ furos' = IF Escrevendo = {} THEN furos ELSE furos \cup {"corrida"}
    /\ UNCHANGED <<memVars, discoVars, estado, paradas>>

DestinoDireto == "oficial"      \* a mutant of Destino

Destino == "tmp"

(* os.WriteFile opens with O_CREATE and O_TRUNC ... *)
Abrir(g) ==
    /\ gravador[g].passo = "abrir"
    /\ \E n \in Inodes :
          /\ IF nome[Destino] # Nenhum THEN n = nome[Destino]
             ELSE /\ \A x \in DOMAIN nome : nome[x] # n
                  /\ \A h \in Gravadores : gravador[h].fd # n
                  /\ \A k \in Inodes :
                        k < n => \/ \E x \in DOMAIN nome : nome[x] = k
                                 \/ \E h \in Gravadores : gravador[h].fd = k
          /\ arquivo' = [arquivo EXCEPT ![n] = Vazio]
          /\ nome' = [nome EXCEPT ![Destino] = n]
          /\ gravador' = [gravador EXCEPT ![g].passo = "gravar", ![g].fd = n]
    /\ UNCHANGED <<memVars, estado, paradas, furos>>

(* What a file may hold after novo is written from its start: bytes of a   *)
(* longer snapshot remain behind it.  Of two with as many blocks either    *)
(* may be the longer text.                                                 *)
Sobrescrito(antigo, novo) ==
    IF antigo.tipo = "vazio" \/ antigo = novo THEN {novo}
    ELSE IF antigo.tipo = "misturado" \/ Len(antigo.blocos) = Len(novo.blocos)
         THEN {novo, Misturado}
    ELSE IF Len(antigo.blocos) < Len(novo.blocos) THEN {novo}
    ELSE {Misturado}

(* ... and writes, whatever names the file has by then. *)
Gravar(g) ==
    /\ gravador[g].passo = "gravar"
    /\ \E c \in Sobrescrito(arquivo[gravador[g].fd], gravador[g].foto) :
          arquivo' = [arquivo EXCEPT ![gravador[g].fd] = c]
    /\ gravador' = [gravador EXCEPT ![g].passo = "renomear", ![g].fd = Nenhum]
    /\ UNCHANGED <<memVars, nome, estado, paradas, furos>>

(* os.Rename, which fails if another saver has renamed the file already.   *)
(* What follows a failure is what follows a success.                       *)
Renomear(g) ==
    /\ gravador[g].passo = "renomear"
    /\ nome' = IF nome.tmp = Nenhum THEN nome ELSE [tmp |-> Nenhum, oficial |-> nome.tmp]
    /\ IF gravador[g].depois = "aplicar" THEN Avancar(g, "aplicar")
       ELSE IF gravador[g].depois = "sair"
            THEN gravador' = [h \in Gravadores |-> Livre]
       ELSE gravador' = [gravador EXCEPT ![g] = Livre]
    /\ estado' = IF gravador[g].depois = "sair" THEN "parado"
                 ELSE IF gravador[g].depois = "ligar" THEN "ligado" ELSE estado
    /\ UNCHANGED <<memVars, arquivo, paradas, furos>>

(* DebitarCreditos and CreditarSaldo. *)
AplicarTransacao(g) ==
    LET d == gravador[g].dados IN
    /\ gravador[g].passo = "aplicar"
    /\ saldos' = AplicaDados(saldos, d)
    /\ furos' = IF d.tipo = "TX" /\ saldos[d.conta] < Custo
                THEN furos \cup {"recusado"} ELSE furos
    /\ gravador' = [gravador EXCEPT ![g] = Livre]
    /\ UNCHANGED <<blocos, proximo, discoVars, estado, paradas>>

(***************************************************************************)
(* Stopping and starting                                                   *)
(***************************************************************************)

(* encerrarSistema saves, like everybody else, and exits. *)
Encerrar(g) ==
    /\ estado = "ligado"
    /\ UmLivre(g)
    /\ paradas < MaxParadas
    /\ paradas' = paradas + 1
    /\ estado' = "encerrando"
    /\ gravador' = [gravador EXCEPT ![g] = Salvar("sair", QualquerDado)]
    /\ UNCHANGED <<memVars, discoVars, furos>>

(* The process is killed; what was written stays. *)
Cair ==
    /\ estado # "parado"
    /\ paradas < MaxParadas
    /\ paradas' = paradas + 1
    /\ estado' = "parado"
    /\ gravador' = [g \in Gravadores |-> Livre]
    /\ UNCHANGED <<memVars, discoVars, furos>>

Disco == IF nome.oficial = Nenhum THEN Vazio ELSE arquivo[nome.oficial]

(* Mutants of SaldosRestaurados: the initial balances with the old chain,  *)
(* and a file without balances.                                            *)
SaldosDoZero == SaldosIniciais
SaldosAusentes == [c \in {} |-> 0]

SaldosRestaurados == Disco.saldos

(* NovaChain: CarregarChain, RestaurarChain, and ValidarChain on what they *)
(* find.                                                                   *)
Restaurar ==
    /\ estado = "parado"
    /\ Disco.tipo = "inteiro" /\ ChainValida(Disco.blocos)
    /\ blocos' = Disco.blocos
    /\ saldos' = SaldosRestaurados
    /\ estado' = "ligado"
    /\ furos' = IF SaldosRestaurados = Replay(Disco.blocos) THEN furos
                ELSE furos \cup {"retomado"}
    /\ UNCHANGED <<proximo, discoVars, gravador, paradas>>

(* NovaChain without a usable file: the genesis, saved at once. *)
IniciarDoZero(g) ==
    /\ estado = "parado"
    /\ UmLivre(g)
    /\ ~ (Disco.tipo = "inteiro" /\ ChainValida(Disco.blocos))
    /\ blocos' = <<>>
    /\ saldos' = SaldosIniciais
    /\ estado' = "construindo"
    /\ gravador' = [gravador EXCEPT ![g] = Salvar("ligar", QualquerDado)]
    /\ UNCHANGED <<proximo, discoVars, paradas, furos>>

-----------------------------------------------------------------------------
SalvarChain(g) == Fotografar(g) \/ Abrir(g) \/ Gravar(g) \/ Renomear(g)

Next ==
    \/ \E g \in Gravadores :
          \/ \E d \in Propostas : CommitarBloco(g, d)
          \/ \E c \in Recebidas : SubstituirChain(g, c)
          \/ SalvarChain(g)
          \/ AplicarTransacao(g)
          \/ Encerrar(g)
          \/ IniciarDoZero(g)
    \/ Restaurar
    \/ Cair

Spec == Init /\ [][Next]_vars

-----------------------------------------------------------------------------
(***************************************************************************)
(* Properties                                                              *)
(***************************************************************************)

(* A crash at any point of SalvarChain leaves the old file or the new one, *)
(* unless two savers were writing at once through the one temporary file.  *)
ArquivoSalvoCorrida ==
    (nome.oficial # Nenhum /\ "corrida" \notin furos) => Disco.tipo = "inteiro"

(* The comment in SalvarChain: "Isso garante que o arquivo chain_X.json    *)
(* nunca fique pela metade".                                               *)
NuncaPelaMetade == nome.oficial # Nenhum => Disco.tipo = "inteiro"

(* Once no saver is at work the file holds the chain in memory, unless two *)
(* savers overlapped: then an older snapshot may have been the last to be  *)
(* renamed.  In particular a block is on disk before it is debited         *)
(* (CommitarBloco, SubstituirChain, SalvarChain).                          *)
DiscoAtual ==
    (/\ estado = "ligado"
     /\ "corrida" \notin furos
     /\ \A g \in Ocupados : gravador[g].passo = "aplicar")
    => Disco.blocos = blocos

(* Transactions of one type for one wallet in the chain and not applied. *)
NaoAplicadas(tipo, c) ==
    Cardinality({g \in SemAplicar : /\ gravador[g].dados.tipo = tipo
                                    /\ gravador[g].dados.conta = c})

(* How much more a wallet has than the chain says, commits in progress set *)
(* aside.                                                                  *)
Desvio(c) ==
    saldos[c] - Replay(blocos)[c]
        - Custo * NaoAplicadas("TX", c)
        + Recompensa * NaoAplicadas("RENOVA", c)
        + Recarga * NaoAplicadas("RECARGA", c)

(* The balances in memory are those of the chain, whatever savers, commits *)
(* and downloads are in progress, unless a debit was refused, a chain was  *)
(* exchanged under a commit, or a restart read a snapshot older than its   *)
(* last debit.                                                             *)
SaldosSalvoFuros ==
    Funcionando /\ furos \subseteq {"corrida"} => \A c \in Contas : Desvio(c) = 0

(* What a stop can forget is bounded: for each commit that was in progress *)
(* at the last save one transaction, its snapshot being older than its     *)
(* debit or credit.                                                        *)
PerdaLimitada ==
    Funcionando /\ furos \subseteq {"retomado"} =>
        LET n == paradas * Cardinality(Gravadores) IN
        \A c \in Contas : Desvio(c) \in (0 - n * (Recarga + Recompensa))..(n * Custo)

(* The README on persistence: "recuperando o estado completo               *)
(* automaticamente ao reiniciar".  A restart alone makes no difference     *)
(* between the balances and the chain.                                     *)
EstadoRecuperado ==
    Funcionando /\ furos \subseteq {"retomado"} => \A c \in Contas : Desvio(c) = 0

=============================================================================
