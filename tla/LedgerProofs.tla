---------------------------- MODULE LedgerProofs ----------------------------
(***************************************************************************)
(* Lemmas about the operators of Ledger, for the proofs about the modules  *)
(* that keep a ledger.                                                     *)
(***************************************************************************)
EXTENDS Ledger, FiniteSetTheorems, WellFoundedInduction, TLAPS

(* The tip of a chain of blocks is a hash. *)
LEMMA PontaEhHash ==
  ASSUME NEW chain \in Seq(Bloco)
  PROVE  Ponta(chain) \in Hashes \cup {HashGenesis}
<1>1. CASE chain = <<>>
  BY <1>1 DEF Ponta
<1>2. CASE chain # <<>>
  <2>1. Len(chain) \in 1..Len(chain)
    BY <1>2
  <2>2. chain[Len(chain)] \in Bloco
    BY <2>1
  <2> QED
    BY <1>2, <2>2 DEF Ponta, Bloco
<1> QED
  BY <1>1, <1>2

(* How many blocks of a chain carry a payload is a number. *)
LEMMA QuantosEhNatural ==
  ASSUME NEW chain \in Seq(Bloco), NEW tipo, NEW conta
  PROVE  Quantos(chain, tipo, conta) \in Nat
<1> DEFINE K == {k \in DOMAIN chain : /\ chain[k].dados.tipo = tipo
                                      /\ chain[k].dados.conta = conta}
<1>1. IsFiniteSet(1..Len(chain)) /\ K \subseteq 1..Len(chain)
  BY FS_Interval
<1> HIDE DEF K
<1>2. Cardinality(K) \in Nat
  BY <1>1, FS_Subset, FS_CardinalityType
<1> QED
  BY <1>2 DEF Quantos, K

(* The replay of a chain yields an integer for every wallet. *)
LEMMA ReplayEhInteiro ==
  ASSUME NEW chain \in Seq(Bloco)
  PROVE  Replay(chain) \in [Contas -> Int]
<1>1. ASSUME NEW c \in Contas
      PROVE  SaldoInicial - Custo * Quantos(chain, "TX", c)
               + Recompensa * Quantos(chain, "RENOVA", c)
               + Recarga * Quantos(chain, "RECARGA", c) \in Int
  <2>1. /\ Quantos(chain, "TX", c) \in Nat
        /\ Quantos(chain, "RENOVA", c) \in Nat
        /\ Quantos(chain, "RECARGA", c) \in Nat
    BY QuantosEhNatural
  <2> QED
    BY <2>1, CreditosAssumption
<1> QED
  BY <1>1 DEF Replay

(* A debit or a credit keeps every balance an integer. *)
LEMMA AplicaEhInteiro ==
  ASSUME NEW s \in [Contas -> Int], NEW d \in Dados
  PROVE  AplicaDados(s, d) \in [Contas -> Int]
<1>1. d.conta \in Contas
  BY DEF Dados
<1> QED
  BY <1>1, CreditosAssumption DEF AplicaDados

(* A block that passes CommitarBloco's checks leaves a valid chain. *)
LEMMA AnexarMantemValida ==
  ASSUME NEW chain \in Seq(Bloco), NEW b \in Bloco,
         ChainValida(chain), AceitaCommit(chain, b)
  PROVE  ChainValida(Append(chain, b))
<1> DEFINE nova == Append(chain, b)
<1>1. /\ DOMAIN nova = 1..(Len(chain) + 1)
      /\ \A k \in DOMAIN chain : nova[k] = chain[k]
      /\ nova[Len(chain) + 1] = b
  OBVIOUS
<1>2. ASSUME NEW k \in DOMAIN nova
      PROVE  /\ HashConfere(nova[k])
             /\ nova[k].anterior = IF k = 1 THEN HashGenesis ELSE nova[k-1].hash
  <2>1. CASE k \in DOMAIN chain
    BY <1>1, <2>1 DEF ChainValida
  <2>2. CASE k = Len(chain) + 1 /\ chain = <<>>
    BY <1>1, <2>2 DEF AceitaCommit, Ponta
  <2>3. CASE k = Len(chain) + 1 /\ chain # <<>>
    <3>1. Len(chain) \in DOMAIN chain /\ k - 1 = Len(chain) /\ k # 1
      BY <2>3
    <3>2. nova[k-1].hash = chain[Len(chain)].hash
      BY <1>1, <3>1
    <3> QED
      BY <1>1, <2>3, <3>1, <3>2 DEF AceitaCommit, Ponta
  <2> QED
    BY <1>1, <2>1, <2>2, <2>3
<1> QED
  BY <1>2 DEF ChainValida

(* A set of natural numbers with an element has a least one. *)
LEMMA MenorNatural ==
  ASSUME NEW T \in SUBSET Nat, T # {}
  PROVE  \E x \in T : \A y \in T : x <= y
<1> DEFINE R == {ss \in Nat \X Nat : ss[1] < ss[2]}
<1>1. IsWellFoundedOn(R, Nat)
  BY NatLessThanWellFounded DEF OpToRel
<1>2. \A y, x \in Nat : y < x => <<y, x>> \in R
  OBVIOUS
<1> HIDE DEF R
<1>3. PICK x \in T : \A y \in T : ~ (<<y, x>> \in R)
  BY <1>1, WFMin
<1>4. \A y \in T : ~ (y < x)
  BY <1>2, <1>3
<1>5. \A y \in T : x <= y
  BY <1>4
<1> QED
  BY <1>5

(* Where two valid chains hold the same block they hold the same blocks    *)
(* before it, up to the genesis: hash_anterior leads back one way.         *)
LEMMA MesmoBlocoMesmoPassado ==
  ASSUME NEW c \in Seq(Bloco), NEW d \in Seq(Bloco), ChainValida(c), ChainValida(d),
         \A k \in DOMAIN c, l \in DOMAIN d : c[k].hash = d[l].hash => c[k] = d[l]
  PROVE  \A k \in DOMAIN c, l \in DOMAIN d :
            c[k].hash = d[l].hash => k = l /\ \A n \in 1..k : c[n] = d[n]
<1> DEFINE Igual(k, l) == k = l /\ \A n \in 1..k : c[n] = d[n]
           T == {k \in DOMAIN c : \E l \in DOMAIN d : c[k].hash = d[l].hash /\ ~ Igual(k, l)}
<1> SUFFICES ASSUME T # {} PROVE FALSE
  OBVIOUS
<1>0. DOMAIN c = 1..Len(c) /\ DOMAIN d = 1..Len(d) /\ Len(c) \in Nat /\ Len(d) \in Nat
  OBVIOUS
<1>1. PICK k \in T : \A j \in T : k <= j
  <2>1. T \in SUBSET Nat
    BY <1>0
  <2> HIDE DEF T
  <2> QED
    BY <2>1, MenorNatural
<1>2. PICK l \in DOMAIN d : c[k].hash = d[l].hash /\ ~ Igual(k, l)
  BY <1>1
<1>3. k \in 1..Len(c) /\ l \in 1..Len(d) /\ c[k] = d[l]
  BY <1>0, <1>1, <1>2
<1>4. /\ c[k].anterior = IF k = 1 THEN HashGenesis ELSE c[k-1].hash
      /\ d[l].anterior = IF l = 1 THEN HashGenesis ELSE d[l-1].hash
  BY <1>0, <1>3 DEF ChainValida
<1>5. ASSUME NEW e \in Seq(Bloco), NEW j \in DOMAIN e PROVE e[j].hash # HashGenesis
  <2>1. e[j] \in Bloco
    OBVIOUS
  <2> QED
    BY <2>1 DEF Bloco, Hashes, HashGenesis
<1>6. CASE k = 1
  <2>1. l = 1
    BY <1>0, <1>3, <1>4, <1>5, <1>6
  <2> QED
    BY <1>2, <1>3, <1>6, <2>1
<1>7. CASE k # 1
  <2>1. k - 1 \in DOMAIN c /\ k - 1 \in 1..Len(c)
    BY <1>0, <1>3, <1>7
  <2>2. l # 1 /\ l - 1 \in DOMAIN d
    BY <1>0, <1>3, <1>4, <1>5, <1>7, <2>1
  <2>3. c[k-1].hash = d[l-1].hash
    BY <1>3, <1>4, <1>7, <2>2
  <2>4. k - 1 \notin T
    <3> HIDE DEF T
    <3> QED
      BY <1>1, <1>3
  <2>5. Igual(k - 1, l - 1)
    BY <2>1, <2>2, <2>3, <2>4
  <2>6. k = l /\ \A n \in 1..k : n \in 1..(k - 1) \/ n = k
    BY <1>3, <2>5
  <2> QED
    BY <1>2, <1>3, <2>5, <2>6
<1> QED
  BY <1>6, <1>7

(* What the replay makes of one payload, for one wallet. *)
Efeito(d, c) ==
    IF d.conta # c THEN 0
    ELSE IF d.tipo = "TX" THEN 0 - Custo
    ELSE IF d.tipo = "RENOVA" THEN Recompensa
    ELSE IF d.tipo = "RECARGA" THEN Recarga
    ELSE 0

(* One block more is one transaction more, of its type and wallet. *)
LEMMA QuantosAoAnexar ==
  ASSUME NEW chain \in Seq(Bloco), NEW b \in Bloco, NEW tipo, NEW conta
  PROVE  Quantos(Append(chain, b), tipo, conta) =
           Quantos(chain, tipo, conta)
             + (IF b.dados.tipo = tipo /\ b.dados.conta = conta THEN 1 ELSE 0)
<1> DEFINE nova == Append(chain, b)
           n == Len(chain)
           K == {k \in DOMAIN chain : /\ chain[k].dados.tipo = tipo
                                      /\ chain[k].dados.conta = conta}
           L == {k \in DOMAIN nova : /\ nova[k].dados.tipo = tipo
                                     /\ nova[k].dados.conta = conta}
<1>1. /\ n \in Nat /\ DOMAIN chain = 1..n
      /\ DOMAIN nova = 1..(n + 1)
      /\ \A k \in 1..n : nova[k] = chain[k]
      /\ nova[n + 1] = b
  OBVIOUS
<1> HIDE DEF n, nova
<1>2. IsFiniteSet(K) /\ n + 1 \notin K
  <2>1. IsFiniteSet(1..n) /\ K \subseteq 1..n
    BY <1>1, FS_Interval
  <2>2. n + 1 \notin 1..n
    BY <1>1
  <2> QED
    BY <2>1, <2>2, FS_Subset
<1>3. 1..(n + 1) = (1..n) \cup {n + 1}
  BY <1>1
<1>4. Quantos(chain, tipo, conta) = Cardinality(K) /\ Quantos(nova, tipo, conta) = Cardinality(L)
  BY DEF Quantos
<1>5. Cardinality(K) \in Nat
  BY <1>2, FS_CardinalityType
<1>6. CASE b.dados.tipo = tipo /\ b.dados.conta = conta
  <2>1. L = K \cup {n + 1}
    BY <1>1, <1>3, <1>6
  <2>2. Cardinality(L) = Cardinality(K) + 1
    BY <1>2, <2>1, FS_AddElement
  <2> HIDE DEF K, L
  <2> QED
    BY <1>6, <1>4, <2>2 DEF nova
<1>7. CASE ~ (b.dados.tipo = tipo /\ b.dados.conta = conta)
  <2>1. L = K
    BY <1>1, <1>3, <1>7
  <2> HIDE DEF K, L
  <2> QED
    BY <1>7, <1>4, <1>5, <2>1 DEF nova
<1> QED
  BY <1>6, <1>7

(* So the replay of a chain with one block more differs by that block. *)
LEMMA ReplayAoAnexar ==
  ASSUME NEW chain \in Seq(Bloco), NEW b \in Bloco, NEW c \in Contas
  PROVE  Replay(Append(chain, b))[c] = Replay(chain)[c] + Efeito(b.dados, c)
<1> DEFINE q(t) == Quantos(chain, t, c)
           r(t) == Quantos(Append(chain, b), t, c)
           um(t) == IF b.dados.tipo = t /\ b.dados.conta = c THEN 1 ELSE 0
<1>1. /\ Replay(chain)[c] = SaldoInicial - Custo * q("TX") + Recompensa * q("RENOVA")
                              + Recarga * q("RECARGA")
      /\ Replay(Append(chain, b))[c] =
            SaldoInicial - Custo * r("TX") + Recompensa * r("RENOVA") + Recarga * r("RECARGA")
  BY DEF Replay
<1>2. \A t \in {"TX", "RENOVA", "RECARGA"} : q(t) \in Nat /\ r(t) = q(t) + um(t)
  BY QuantosEhNatural, QuantosAoAnexar
<1>0. \A t : um(t) \in {0, 1}
  OBVIOUS
<1> HIDE DEF q, r
<1>3. /\ Custo * r("TX") = Custo * q("TX") + Custo * um("TX")
      /\ Recompensa * r("RENOVA") = Recompensa * q("RENOVA") + Recompensa * um("RENOVA")
      /\ Recarga * r("RECARGA") = Recarga * q("RECARGA") + Recarga * um("RECARGA")
  <2> HIDE DEF um
  <2>1. ASSUME NEW a \in Nat, NEW t \in {"TX", "RENOVA", "RECARGA"}
        PROVE  a * r(t) = a * q(t) + a * um(t)
    <3>1. r(t) = q(t) + um(t) /\ q(t) \in Nat /\ um(t) \in {0, 1}
      BY <1>0, <1>2
    <3>2. a * 0 = 0 /\ a * 1 = a /\ a * (q(t) + 1) = a * q(t) + a /\ a * q(t) \in Nat
      BY <3>1
    <3> QED
      BY <3>1, <3>2
  <2> QED
    BY <2>1, CreditosAssumption
<1>4. /\ Custo * q("TX") \in Int /\ Recompensa * q("RENOVA") \in Int
      /\ Recarga * q("RECARGA") \in Int
  BY <1>2, CreditosAssumption
<1>5. Efeito(b.dados, c) =
         Recompensa * um("RENOVA") + Recarga * um("RECARGA") - Custo * um("TX")
  BY CreditosAssumption DEF Efeito
<1>6. /\ Custo * um("TX") \in Int /\ Recompensa * um("RENOVA") \in Int
      /\ Recarga * um("RECARGA") \in Int
  BY CreditosAssumption
<1> HIDE DEF um
<1> DEFINE a1 == Custo * q("TX")
           a2 == Recompensa * q("RENOVA")
           a3 == Recarga * q("RECARGA")
           u1 == Custo * um("TX")
           u2 == Recompensa * um("RENOVA")
           u3 == Recarga * um("RECARGA")
<1>7. /\ Replay(chain)[c] = SaldoInicial - a1 + a2 + a3
      /\ Replay(Append(chain, b))[c] = SaldoInicial - (a1 + u1) + (a2 + u2) + (a3 + u3)
      /\ Efeito(b.dados, c) = u2 + u3 - u1
  BY <1>1, <1>3, <1>5, Zenon
<1>8. a1 \in Int /\ a2 \in Int /\ a3 \in Int /\ u1 \in Int /\ u2 \in Int /\ u3 \in Int
  BY <1>4, <1>6
<1> HIDE DEF a1, a2, a3, u1, u2, u3
<1> QED
  BY <1>7, <1>8, CreditosAssumption

(* No block, no change. *)
LEMMA ReplayDoGenesis == Replay(<<>>) = [c \in Contas |-> SaldoInicial]
<1>1. ASSUME NEW tipo, NEW conta PROVE Quantos(<<>>, tipo, conta) = 0
  <2>1. {k \in DOMAIN <<>> : /\ <<>>[k].dados.tipo = tipo
                             /\ <<>>[k].dados.conta = conta} = {}
    OBVIOUS
  <2> QED
    BY <2>1, FS_EmptySet DEF Quantos
<1> QED
  BY <1>1, CreditosAssumption DEF Replay

=============================================================================
