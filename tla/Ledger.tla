------------------------------- MODULE Ledger -------------------------------
(***************************************************************************)
(* The ledger of one broker as values: blocks, chains and the balances a   *)
(* chain implies (src/blockchain/blockchain.go, and the audit rules that   *)
(* src/broker/broker.go applies to it).  The module has no state; Consenso *)
(* keeps one chain and one balance map per broker and changes them with    *)
(* the operators below.                                                    *)
(*                                                                         *)
(* A chain is a sequence of blocks; the genesis block, the same in every   *)
(* broker (fixed timestamp), is left out and stands for the empty chain.   *)
(* A SHA-256 hash is a number: what the code does with hashes is to        *)
(* compare them, for equality and lexicographically.                       *)
(***************************************************************************)
EXTENDS Integers, Sequences, FiniteSets

CONSTANTS
    Brokers,        \* ids of the brokers of config.json
    Contas,         \* wallets ("companhias")
    Ocorrencias,    \* ids of occurrences
    MaxBlocos,      \* bound: blocks ever built, so hashes are 1..MaxBlocos
    SaldoInicial,   \* creditosIniciais, or what is left of it
    Custo,          \* custoEscolta
    Recompensa,     \* credits of a RENOVA reward
    Recarga,        \* credits of a SYSTEM_RECHARGE
    LimiteRecarga   \* balance below which a wallet is recharged

ASSUME BrokersAssumption == IsFiniteSet(Brokers)

ASSUME CreditosAssumption ==
    /\ SaldoInicial \in Int
    /\ Custo \in Nat
    /\ Recompensa \in Nat
    /\ Recarga \in Nat
    /\ LimiteRecarga \in Nat

ASSUME MaxBlocosAssumption == MaxBlocos \in Nat

Hashes == 1..MaxBlocos
HashGenesis == 0
Deadbeef == -1      \* the HashAnterior of the structural fork attack

-----------------------------------------------------------------------------
(* The payload of a block: an escort paid by a wallet ("TX"), the reward   *)
(* for having let a rival pass ("RENOVA"), a protocol recharge ("RECARGA") *)
(* or the report of a mission ("LAUDO").                                   *)
Dados == [tipo : {"TX", "RENOVA", "RECARGA", "LAUDO"},
          conta : Contas,
          oc : Ocorrencias]

(* "integro" is the outcome of CalcularHash(bloco) = bloco.Hash: FALSE for *)
(* a block that was altered after its hash was computed.  Indice is left   *)
(* out: it is the position the predecessor's hash already determines.      *)
Bloco == [hash : Hashes,
          anterior : Hashes \cup {HashGenesis, Deadbeef},
          dados : Dados,
          autor : Brokers,
          integro : BOOLEAN]

HashNaoConferido(bloco) == TRUE     \* a mutant of HashConfere

HashConfere(bloco) == bloco.integro

(* UltimoBloco().Hash *)
Ponta(chain) == IF chain = <<>> THEN HashGenesis ELSE chain[Len(chain)].hash

(* The hashes of a chain, genesis excluded. *)
HashesDe(chain) == {chain[k].hash : k \in DOMAIN chain}

(* What ValidarChain and SubstituirChain verify of a whole chain: every    *)
(* block points at the one before it and has the hash of its contents.     *)
ChainValida(chain) ==
    \A k \in DOMAIN chain :
        /\ HashConfere(chain[k])
        /\ chain[k].anterior = IF k = 1 THEN HashGenesis ELSE chain[k-1].hash

CommitSemEncadeamento(chain, bloco) == HashConfere(bloco)   \* a mutant of AceitaCommit

(* The checks of Chain.CommitarBloco, under the chain's lock. *)
AceitaCommit(chain, bloco) ==
    /\ bloco.anterior = Ponta(chain)
    /\ HashConfere(bloco)

(* The fork choice of SubstituirChain: a longer chain, or one of the same  *)
(* length whose last block has the smaller hash.                           *)
VenceDisputa(nova, chain) ==
    \/ Len(nova) > Len(chain)
    \/ /\ Len(nova) = Len(chain)
       /\ Ponta(nova) < Ponta(chain)

SubstituirSemDisputa(nova, chain) == ChainValida(nova)  \* a mutant of AceitaSubstituir

AceitaSubstituir(nova, chain) ==
    /\ VenceDisputa(nova, chain)
    /\ ChainValida(nova)

-----------------------------------------------------------------------------
(* Blocks of a chain that carry a payload of one type for one wallet. *)
Quantos(chain, tipo, conta) ==
    Cardinality({k \in DOMAIN chain : /\ chain[k].dados.tipo = tipo
                                      /\ chain[k].dados.conta = conta})

(* The financial replay of SubstituirChain: every transaction of the chain *)
(* is applied to the initial balances.  The subtraction has no guard, so   *)
(* the order does not matter and a balance may become negative.            *)
Replay(chain) ==
    [c \in Contas |-> SaldoInicial
                        - Custo * Quantos(chain, "TX", c)
                        + Recompensa * Quantos(chain, "RENOVA", c)
                        + Recarga * Quantos(chain, "RECARGA", c)]

(* DebitarCreditos and CreditarSaldo, as commitarBloco calls them for the  *)
(* block it has appended.  A debit that the balance does not cover is      *)
(* refused (or, for a broker alone, forgiven): the balance stays.          *)
AplicaDados(saldo, d) ==
    LET efeito == IF d.tipo = "TX" /\ saldo[d.conta] >= Custo THEN 0 - Custo
                  ELSE IF d.tipo = "RENOVA"  THEN Recompensa
                  ELSE IF d.tipo = "RECARGA" THEN Recarga
                  ELSE 0
    IN [saldo EXCEPT ![d.conta] = @ + efeito]

(* The financial audit of handleNovoBloco, on the auditor's own ledger:    *)
(* funds for an escort, no earlier RENOVA of the same occurrence in the    *)
(* history, a recharge only for a wallet below the limit.  The amounts of  *)
(* rewards and recharges are the ones the rules allow in every proposal.   *)
AuditoriaFinanceira(chain, saldo, d) ==
    /\ d.tipo = "TX" => saldo[d.conta] >= Custo
    /\ d.tipo = "RENOVA" =>
          \A k \in DOMAIN chain : ~ /\ chain[k].dados.tipo = "RENOVA"
                                    /\ chain[k].dados.oc = d.oc
    /\ d.tipo = "RECARGA" => saldo[d.conta] < LimiteRecarga

=============================================================================
