----------------------------- MODULE FilaProofs -----------------------------
(***************************************************************************)
(* The queue of occurrences, for any number of entries and any time        *)
(* stamps: nobody starves in it, and its heap serves in the order of Less. *)
(*                                                                         *)
(* The loops of container/heap are recursive functions.  That they are     *)
(* defined where the code calls them, and what they return, is shown by    *)
(* the least counterexample: a bound falls with every turn of the loop, a  *)
(* set of numbers that is not empty has a least one, and the turn that     *)
(* follows the least bad one is bad too.                                   *)
(***************************************************************************)
EXTENDS Fila, FiniteSetTheorems, SequenceTheorems, WellFoundedInduction, TLAPS

Limite == Cardinality(Entradas) + Critico - 2

(* What may still be served before o. *)
NaoDepois(o) == {x \in Espera \ {o} : ~ Antes(Chaves, o, x)}

(* Every service an occurrence waits through makes it more urgent, and     *)
(* those it has waited through and those it may still have to are bounded  *)
(* together: once it is more urgent than anything new, the sum can only be *)
(* passed from the second to the first.                                    *)
EsperaPaga ==
    \A o \in Espera :
        /\ servidas[o] < prio[o]
        /\ servidas[o] + Cardinality(NaoDepois(o)) <= Limite

EsperaIInv == EsperaTypeOK /\ EsperaPaga

LEMMA LimiteEhInteiro == Cardinality(Entradas) \in Nat /\ Limite \in Int
<1>1. Cardinality(Entradas) \in Nat
  BY FilaAssumption, FS_CardinalityType
<1> QED
  BY <1>1 DEF Limite, Critico

(* The others are fewer than the entries. *)
LEMMA OutrosSaoMenos ==
  ASSUME NEW o \in Entradas, NEW S \in SUBSET (Entradas \ {o})
  PROVE  /\ IsFiniteSet(S) /\ Cardinality(S) \in Nat
         /\ Cardinality(S) <= Cardinality(Entradas) - 1
<1>1. IsFiniteSet(Entradas \ {o}) /\ Cardinality(Entradas \ {o}) = Cardinality(Entradas) - 1
  BY FilaAssumption, FS_RemoveElement
<1>2. IsFiniteSet(S) /\ Cardinality(S) <= Cardinality(Entradas \ {o})
  BY <1>1, FS_Subset
<1>3. Cardinality(S) \in Nat
  BY <1>2, FS_CardinalityType
<1> QED
  BY <1>1, <1>2, <1>3

(* Less, on the variables. *)
LEMMA AntesVale ==
  ASSUME NEW x \in Entradas, NEW y \in Entradas
  PROVE  /\ Antes(Chaves, x, y) <=>
              (prio[x] > prio[y] \/ (prio[x] = prio[y] /\ ts[x] < ts[y]))
         /\ Antes(Chaves, x, y)' <=>
              (prio'[x] > prio'[y] \/ (prio'[x] = prio'[y] /\ ts'[x] < ts'[y]))
BY DEF Antes, Chaves

(* What has waited for less than it takes to be the most urgent. *)
LEMMA AindaCabe ==
  ASSUME NEW o \in Entradas, NEW S \in SUBSET (Entradas \ {o}),
         NEW n \in Nat, n < Critico
  PROVE  n + Cardinality(S) <= Limite
BY OutrosSaoMenos, LimiteEhInteiro DEF Limite, Critico

LEMMA EntrarEsperaIInv ==
  ASSUME EsperaIInv, NEW o \in Entradas, NEW p \in 1..Critico, NEW t \in Instantes, Entrar(o, p, t)
  PROVE  EsperaIInv'
<1>1. p \in Nat /\ p > 0 /\ p <= Critico
  BY DEF Critico
<1>2. EsperaTypeOK'
  BY <1>1 DEF EsperaIInv, EsperaTypeOK, Entrar
<1>3. /\ prio'[o] = p /\ servidas'[o] = 0
      /\ \A x \in Entradas \ {o} :
            prio'[x] = prio[x] /\ ts'[x] = ts[x] /\ servidas'[x] = servidas[x]
  BY DEF EsperaIInv, EsperaTypeOK, Entrar
<1>4. Espera' = Espera \cup {o} /\ o \notin Espera
  BY <1>1, <1>3 DEF Espera, Entrar
<1>5. ASSUME NEW x \in Espera'
      PROVE  servidas'[x] < prio'[x] /\ servidas'[x] + Cardinality(NaoDepois(x)') <= Limite
  <2>1. x \in Entradas /\ NaoDepois(x)' \in SUBSET (Entradas \ {x})
    BY DEF Espera, NaoDepois
  <2>2. CASE x = o
    BY <1>1, <1>3, <2>1, <2>2, AindaCabe DEF Critico
  <2>3. CASE x # o /\ prio[x] <= Critico
    <3>1. x \in Espera /\ servidas[x] \in Nat /\ prio[x] \in Nat /\ servidas[x] < prio[x]
      BY <1>4, <2>1, <2>3 DEF EsperaIInv, EsperaTypeOK, EsperaPaga
    <3>2. servidas[x] < Critico
      BY <2>3, <3>1 DEF Critico
    <3>3. servidas'[x] = servidas[x] /\ prio'[x] = prio[x]
      BY <1>3, <2>1, <2>3
    <3> QED
      BY <2>1, <3>1, <3>2, <3>3, AindaCabe
  <2>4. CASE x # o /\ ~ (prio[x] <= Critico)
    <3>1. x \in Espera /\ prio[x] \in Nat
      BY <1>4, <2>1, <2>4 DEF EsperaIInv, EsperaTypeOK
    <3>2. prio'[x] = prio[x] /\ servidas'[x] = servidas[x]
      BY <1>3, <2>1, <2>4
    <3>3. prio[x] > p
      BY <1>1, <2>4, <3>1 DEF Critico
    <3>4. Antes(Chaves, x, o)'
      BY <1>3, <2>1, <3>2, <3>3, AntesVale
    <3>5. \A y \in Espera \ {x} : Antes(Chaves, x, y)' <=> Antes(Chaves, x, y)
      BY <1>3, <1>4, <2>1, <2>4, AntesVale DEF Espera
    <3>6. NaoDepois(x)' = NaoDepois(x)
      BY <1>4, <3>4, <3>5 DEF NaoDepois
    <3> QED
      BY <3>1, <3>2, <3>6 DEF EsperaIInv, EsperaPaga
  <2> QED
    BY <2>2, <2>3, <2>4
<1> QED
  BY <1>2, <1>5 DEF EsperaIInv, EsperaPaga, Limite

(* Aging keeps who precedes whom. *)
LEMMA AgingMantemOrdem ==
  ASSUME EsperaTypeOK, NEW S \in SUBSET Espera, prio' = Aging(S), UNCHANGED ts
  PROVE  /\ prio' \in [Entradas -> Nat] /\ Espera' = S
         /\ \A x \in S : prio'[x] = prio[x] + 1
         /\ \A x, y \in S : Antes(Chaves, x, y)' <=> Antes(Chaves, x, y)
<1>1. S \in SUBSET Entradas
  BY DEF Espera
<1>2. \A x \in Entradas : prio[x] \in Nat
                          /\ prio'[x] = IF x \in S THEN prio[x] + 1 ELSE 0
  BY DEF Aging, EsperaTypeOK
<1>3. prio' \in [Entradas -> Nat] /\ Espera' = S
  BY <1>1, <1>2 DEF Aging, Espera
<1>4. ASSUME NEW x \in S, NEW y \in S
      PROVE  Antes(Chaves, x, y)' <=> Antes(Chaves, x, y)
  <2>1. /\ prio[x] \in Nat /\ prio[y] \in Nat
        /\ prio'[x] = prio[x] + 1 /\ prio'[y] = prio[y] + 1
        /\ ts'[x] = ts[x] /\ ts'[y] = ts[y]
    BY <1>1, <1>2
  <2> QED
    BY <1>1, <2>1, AntesVale
<1> QED
  BY <1>1, <1>2, <1>3, <1>4

LEMMA SairEsperaIInv ==
  ASSUME EsperaIInv, NEW o \in Entradas, Sair(o)
  PROVE  EsperaIInv'
<1> DEFINE S == Espera \ {o}
<1>1. EsperaTypeOK /\ S \in SUBSET Espera /\ prio' = Aging(S) /\ UNCHANGED ts
  BY DEF EsperaIInv, Sair, Servir
<1>2. /\ prio' \in [Entradas -> Nat] /\ Espera' = S
      /\ \A x \in S : prio'[x] = prio[x] + 1
      /\ \A x, y \in S : Antes(Chaves, x, y)' <=> Antes(Chaves, x, y)
  BY <1>1, AgingMantemOrdem
<1>3. servidas' = [x \in Entradas |-> IF x \in S THEN servidas[x] + 1 ELSE 0]
  BY DEF Sair, Servir
<1>4. EsperaTypeOK'
  <2>1. \A x \in Entradas : (IF x \in S THEN servidas[x] + 1 ELSE 0) \in Nat
    BY <1>1 DEF EsperaTypeOK
  <2>2. servidas' \in [Entradas -> Nat]
    BY <1>3, <2>1
  <2> QED
    BY <1>1, <1>2, <2>2 DEF EsperaTypeOK
<1>5. ASSUME NEW x \in S
      PROVE  servidas'[x] < prio'[x] /\ servidas'[x] + Cardinality(NaoDepois(x)') <= Limite
  <2>1. x \in Entradas /\ x \in Espera /\ NaoDepois(x) \in SUBSET (Entradas \ {x})
    BY DEF Espera, NaoDepois
  <2>2. /\ servidas[x] \in Nat /\ prio[x] \in Nat /\ servidas[x] < prio[x]
        /\ servidas[x] + Cardinality(NaoDepois(x)) <= Limite
    BY <1>1, <2>1 DEF EsperaIInv, EsperaPaga, EsperaTypeOK
  <2>3. servidas'[x] = servidas[x] + 1 /\ prio'[x] = prio[x] + 1
    BY <1>2, <1>3, <2>1
  <2>4. o \in NaoDepois(x)
    <3>1. o \in Espera \ {x} /\ ~ Antes(Chaves, x, o)
      BY <2>1 DEF Sair
    <3> QED
      BY <3>1 DEF NaoDepois
  <2>5. NaoDepois(x)' = NaoDepois(x) \ {o}
    BY <1>2 DEF NaoDepois
  <2>6. IsFiniteSet(NaoDepois(x)) /\ Cardinality(NaoDepois(x)) \in Nat
    BY <2>1, OutrosSaoMenos
  <2>7. Cardinality(NaoDepois(x)') = Cardinality(NaoDepois(x)) - 1
    BY <2>4, <2>5, <2>6, FS_RemoveElement
  <2> QED
    BY <2>2, <2>3, <2>6, <2>7, LimiteEhInteiro
<1> QED
  BY <1>2, <1>4, <1>5 DEF EsperaIInv, EsperaPaga, Limite

LEMMA EnvelhecerEsperaIInv ==
  ASSUME EsperaIInv, Envelhecer
  PROVE  EsperaIInv'
<1>1. EsperaTypeOK /\ prio' = Aging(Espera) /\ UNCHANGED <<ts, servidas>>
  BY DEF EsperaIInv, Envelhecer
<1>2. /\ prio' \in [Entradas -> Nat] /\ Espera' = Espera
      /\ \A x \in Espera : prio'[x] = prio[x] + 1
      /\ \A x, y \in Espera : Antes(Chaves, x, y)' <=> Antes(Chaves, x, y)
  BY <1>1, AgingMantemOrdem
<1>3. \A x \in Espera : NaoDepois(x)' = NaoDepois(x)
  BY <1>2 DEF NaoDepois
<1>4. EsperaTypeOK'
  BY <1>1, <1>2 DEF EsperaTypeOK
<1>5. ASSUME NEW x \in Espera'
      PROVE  servidas'[x] < prio'[x] /\ servidas'[x] + Cardinality(NaoDepois(x)') <= Limite
  <2>1. x \in Espera /\ x \in Entradas /\ servidas'[x] = servidas[x] /\ prio'[x] = prio[x] + 1
    BY <1>1, <1>2 DEF Espera
  <2>2. servidas[x] \in Nat /\ prio[x] \in Nat
    BY <1>1, <2>1 DEF EsperaTypeOK
  <2> QED
    BY <1>3, <2>1, <2>2 DEF EsperaIInv, EsperaPaga
<1> QED
  BY <1>4, <1>5 DEF EsperaIInv, EsperaPaga, Limite

LEMMA EsperaSpecIInv == EsperaSpec => []EsperaIInv
<1>1. EsperaInit => EsperaIInv
  BY DEF EsperaInit, EsperaIInv, EsperaTypeOK, EsperaPaga, Espera
<1>2. EsperaIInv /\ [EsperaNext]_esperaVars => EsperaIInv'
  <2> SUFFICES ASSUME EsperaIInv, [EsperaNext]_esperaVars PROVE EsperaIInv'
    OBVIOUS
  <2>1. CASE UNCHANGED esperaVars
    BY <2>1 DEF esperaVars, EsperaIInv, EsperaTypeOK, EsperaPaga, Espera, NaoDepois, Antes, Chaves,
                Limite
  <2> QED
    BY <2>1, EntrarEsperaIInv, SairEsperaIInv, EnvelhecerEsperaIInv DEF EsperaNext
<1> QED
  BY <1>1, <1>2, PTL DEF EsperaSpec

-----------------------------------------------------------------------------
(* FilaComAging serves every occurrence: the aging of Pop and AplicarAging *)
(* lets at most Cardinality(Entradas) + 1 others go first, whatever        *)
(* arrives or is given back meanwhile (src/state/state.go).                *)
THEOREM SemStarvation == EsperaSpec => []EsperaLimitada
<1>1. EsperaIInv => EsperaLimitada
  <2> SUFFICES ASSUME EsperaIInv, NEW o \in Espera
               PROVE  servidas[o] <= Cardinality(Entradas) + Critico - 2
    BY DEF EsperaLimitada
  <2>1. o \in Entradas /\ NaoDepois(o) \in SUBSET (Entradas \ {o})
    BY DEF Espera, NaoDepois
  <2>2. Cardinality(NaoDepois(o)) \in Nat
    BY <2>1, OutrosSaoMenos
  <2>3. servidas[o] \in Nat /\ servidas[o] + Cardinality(NaoDepois(o)) <= Limite
    BY <2>1 DEF EsperaIInv, EsperaTypeOK, EsperaPaga
  <2> QED
    BY <2>2, <2>3, LimiteEhInteiro DEF Limite, Critico
<1> QED
  BY <1>1, EsperaSpecIInv, PTL


-----------------------------------------------------------------------------
(* A set of natural numbers with an element has a least one.               *)
LEMMA Menor ==
  ASSUME NEW T \in SUBSET Nat, T # {}
  PROVE  \E x \in T : \A y \in T : x <= y
<1> DEFINE R == {ss \in Nat \X Nat : ss[1] < ss[2]}
<1>1. IsWellFoundedOn(R, Nat)
  BY NatLessThanWellFounded DEF OpToRel
<1>2. \A y, x \in Nat : y < x => <<y, x>> \in R
  OBVIOUS
<1> HIDE DEF R
<1>3. PICK x \in T : \A y \in T : ~ (<<y, x>> \in R)
  BY <1>1, WFMin
<1>4. \A y \in T : ~ (y < x)
  BY <1>2, <1>3
<1>5. \A y \in T : x <= y
  BY <1>4
<1> QED
  BY <1>5

(* A loop over S leaves through P with r, and otherwise takes the step F,  *)
(* which brings m down.                                                    *)
Recua(S, P, F, m) ==
    /\ F \in [S -> S]
    /\ m \in [S -> Nat]
    /\ \A x \in S \ P : m[F[x]] < m[x]

Percorre(f, S, V, P, r, F) ==
    /\ f \in [S -> V]
    /\ \A x \in S : f[x] = IF x \in P THEN r[x] ELSE f[F[x]]

(* Such a loop can be defined.                                             *)
LEMMA RecursaoDeCauda ==
  ASSUME NEW S, NEW V, NEW P, NEW r, NEW F, NEW m, r \in [S -> V], Recua(S, P, F, m)
  PROVE  \E f : Percorre(f, S, V, P, r, F)
<1> USE DEF Recua
<1> DEFINE Ok(g, x) == g[x] = IF x \in P THEN r[x] ELSE g[F[x]]
           Ate(g, n) == \A x \in S : m[x] < n => Ok(g, x)
(* every prefix has one *)
<1>1. \A n \in Nat : \E g \in [S -> V] : Ate(g, n)
  <2> DEFINE T == {n \in Nat : ~ \E g \in [S -> V] : Ate(g, n)}
  <2> SUFFICES ASSUME T # {} PROVE FALSE
    OBVIOUS
  <2>1. PICK n \in T : \A y \in T : n <= y
    BY Menor
  <2>2. n # 0
    <3>1. Ate(r, 0)
      OBVIOUS
    <3> QED
      BY <3>1
  <2>3. n - 1 \in Nat /\ n - 1 \notin T
    BY <2>1, <2>2
  <2>4. PICK g \in [S -> V] : Ate(g, n - 1)
    BY <2>3
  <2> DEFINE h == [x \in S |-> IF x \in P THEN r[x] ELSE g[F[x]]]
  <2>5. h \in [S -> V]
    OBVIOUS
  <2>6. ASSUME NEW x \in S, m[x] < n PROVE Ok(h, x)
    <3>1. CASE x \in P
      BY <3>1
    <3>2. CASE x \notin P
      <4>1. F[x] \in S /\ m[F[x]] \in Nat /\ m[x] \in Nat /\ m[F[x]] < m[x]
        BY <3>2
      <4>2. m[F[x]] < n - 1
        BY <4>1, <2>3, <2>6
      <4>3. g[F[x]] = IF F[x] \in P THEN r[F[x]] ELSE g[F[F[x]]]
        BY <4>1, <4>2, <2>4
      <4>4. h[F[x]] = IF F[x] \in P THEN r[F[x]] ELSE g[F[F[x]]]
        BY <4>1
      <4>5. h[x] = g[F[x]]
        BY <3>2
      <4> QED
        BY <3>2, <4>3, <4>4, <4>5
    <3> QED
      BY <3>1, <3>2
  <2>7. Ate(h, n)
    BY <2>6
  <2> QED
    BY <2>1, <2>5, <2>7
<1> HIDE DEF Ate
<1> DEFINE G(n) == CHOOSE g \in [S -> V] : Ate(g, n)
<1>2. ASSUME NEW n \in Nat PROVE G(n) \in [S -> V] /\ Ate(G(n), n)
  BY <1>1
(* and any two of them agree *)
<1>3. ASSUME NEW a \in [S -> V], NEW b \in [S -> V], NEW n \in Nat, NEW k \in Nat,
             Ate(a, n), Ate(b, k)
      PROVE  \A x \in S : m[x] < n /\ m[x] < k => a[x] = b[x]
  <2> DEFINE T == {i \in Nat : \E x \in S : m[x] = i /\ m[x] < n /\ m[x] < k /\ a[x] # b[x]}
  <2> SUFFICES ASSUME T # {} PROVE FALSE
    OBVIOUS
  <2>1. PICK i \in T : \A y \in T : i <= y
    BY Menor
  <2>2. PICK x \in S : m[x] = i /\ m[x] < n /\ m[x] < k /\ a[x] # b[x]
    BY <2>1
  <2>3. Ok(a, x) /\ Ok(b, x)
    BY <1>3, <2>2 DEF Ate
  <2>4. x \notin P /\ a[F[x]] # b[F[x]]
    BY <2>2, <2>3
  <2>5. F[x] \in S /\ m[F[x]] \in Nat /\ m[F[x]] < i /\ i \in Nat
    BY <2>2, <2>4
  <2>6. m[F[x]] \in T
    BY <2>2, <2>4, <2>5
  <2> QED
    BY <2>1, <2>5, <2>6
<1> DEFINE f == [x \in S |-> G(m[x] + 1)[x]]
<1>4. f \in [S -> V]
  <2>1. \A x \in S : m[x] + 1 \in Nat
    OBVIOUS
  <2> QED
    BY <1>2, <2>1
<1>5. ASSUME NEW x \in S PROVE f[x] = IF x \in P THEN r[x] ELSE f[F[x]]
  <2>1. m[x] \in Nat /\ m[x] + 1 \in Nat /\ m[x] < m[x] + 1
    OBVIOUS
  <2>2. f[x] = G(m[x] + 1)[x]
    OBVIOUS
  <2>3. Ok(G(m[x] + 1), x)
    BY <1>2, <2>1 DEF Ate
  <2>4. CASE x \in P
    BY <2>2, <2>3, <2>4
  <2>5. CASE x \notin P
    <3>1. F[x] \in S /\ m[F[x]] \in Nat /\ m[F[x]] < m[x]
      BY <2>5
    <3>2. m[F[x]] + 1 \in Nat /\ m[F[x]] < m[F[x]] + 1 /\ m[F[x]] < m[x] + 1
      BY <3>1, <2>1
    <3>3. G(m[F[x]] + 1)[F[x]] = G(m[x] + 1)[F[x]]
      BY <1>2, <1>3, <2>1, <3>1, <3>2
    <3>4. f[F[x]] = G(m[F[x]] + 1)[F[x]]
      BY <3>1
    <3> QED
      BY <2>2, <2>3, <2>5, <3>3, <3>4
  <2> QED
    BY <2>4, <2>5
<1> HIDE DEF f
<1> QED
  BY <1>4, <1>5 DEF Percorre

-----------------------------------------------------------------------------
TodasAsChaves == [Entradas -> [prio : Nat, ts : Instantes]]

(* Less of FilaPrioridade is a strict weak order, for any keys.            *)
LEMMA LessOrdena ==
  ASSUME NEW c \in TodasAsChaves, NEW x \in Entradas, NEW y \in Entradas
  PROVE  /\ ~ Antes(c, x, x)
         /\ Antes(c, x, y) => ~ Antes(c, y, x)
<1>1. /\ c[x].prio \in Nat /\ c[x].ts \in Int
      /\ c[y].prio \in Nat /\ c[y].ts \in Int
  BY FilaAssumption DEF TodasAsChaves
<1> QED
  BY <1>1 DEF Antes

LEMMA LessTransitiva ==
  ASSUME NEW c \in TodasAsChaves, NEW x \in Entradas, NEW y \in Entradas, NEW z \in Entradas,
         ~ Antes(c, y, x), ~ Antes(c, z, y)
  PROVE  ~ Antes(c, z, x)
<1>1. /\ c[x].prio \in Nat /\ c[x].ts \in Int
      /\ c[y].prio \in Nat /\ c[y].ts \in Int
      /\ c[z].prio \in Nat /\ c[z].ts \in Int
  BY FilaAssumption DEF TodasAsChaves
<1> QED
  BY <1>1 DEF Antes

(* The arrays with these elements, each once, and what an exchange does.   *)
Filas(N, E) == {g \in Arranjos(N) : IsInjective(g) /\ Range(g) = E}

LEMMA TrocarTipo ==
  ASSUME NEW N \in Nat, NEW g \in Arranjos(N), NEW i \in 1..N, NEW j \in 1..N
  PROVE  /\ Trocar(g, i, j) \in Arranjos(N)
         /\ Trocar(g, i, j)[i] = g[j] /\ Trocar(g, i, j)[j] = g[i]
         /\ \A l \in (1..N) \ {i, j} : Trocar(g, i, j)[l] = g[l]
BY DEF Trocar, Arranjos

LEMMA TrocarPermuta ==
  ASSUME NEW N \in Nat, NEW E, NEW g \in Filas(N, E), NEW i \in 1..N, NEW j \in 1..N
  PROVE  Trocar(g, i, j) \in Filas(N, E)
<1> DEFINE t == Trocar(g, i, j)
<1>1. g \in Arranjos(N) /\ DOMAIN g = 1..N
  BY DEF Filas, Arranjos
<1>2. /\ t \in Arranjos(N) /\ DOMAIN t = 1..N
      /\ t[i] = g[j] /\ t[j] = g[i]
      /\ \A l \in (1..N) \ {i, j} : t[l] = g[l]
  <2>1. /\ t \in Arranjos(N)
        /\ t[i] = g[j] /\ t[j] = g[i]
        /\ \A l \in (1..N) \ {i, j} : t[l] = g[l]
    BY <1>1 DEF Trocar, Arranjos
  <2>2. DOMAIN t = 1..N
    BY <2>1 DEF Arranjos
  <2> QED
    BY <2>1, <2>2
<1> HIDE DEF t
<1>3. IsInjective(t)
  <2>1. \A a, b \in 1..N : g[a] = g[b] => a = b
    BY <1>1 DEF Filas, IsInjective
  <2>2. ASSUME NEW a \in 1..N, NEW b \in 1..N, t[a] = t[b] PROVE a = b
    <3>1. CASE a \notin {i, j} /\ b \notin {i, j}
      BY <1>2, <2>1, <2>2, <3>1
    <3>2. CASE a \notin {i, j} /\ b \in {i, j}
      BY <1>2, <2>1, <2>2, <3>2
    <3>3. CASE a \in {i, j} /\ b \notin {i, j}
      BY <1>2, <2>1, <2>2, <3>3
    <3>4. CASE a \in {i, j} /\ b \in {i, j}
      BY <1>2, <2>1, <2>2, <3>4
    <3> QED
      BY <3>1, <3>2, <3>3, <3>4
  <2> QED
    BY <1>2, <2>2 DEF IsInjective
<1>4. Range(t) = Range(g)
  <2>1. \A a \in 1..N : \E b \in 1..N : t[a] = g[b]
    BY <1>2
  <2>2. \A b \in 1..N : \E a \in 1..N : t[a] = g[b]
    BY <1>2
  <2>3. Range(t) = {t[a] : a \in 1..N} /\ Range(g) = {g[b] : b \in 1..N}
    BY <1>1, <1>2, Zenon DEF Range
  <2> HIDE DEF Range
  <2> QED
    BY <2>1, <2>2, <2>3
<1> QED
  BY <1>2, <1>3, <1>4 DEF Filas, t

(* An array is a sequence.                                                 *)
LEMMA Comprimento ==
  ASSUME NEW N \in Nat, NEW g \in Arranjos(N)
  PROVE  g \in Seq(Entradas) /\ Len(g) = N
<1>1. g \in Seq(Entradas)
  BY SeqDef DEF Arranjos
<1>2. Len(g) \in Nat /\ DOMAIN g = 1..Len(g)
  BY <1>1, LenProperties
<1>3. 1..Len(g) = 1..N
  BY <1>2 DEF Arranjos
<1>4. \A a, b \in Nat : 1..a = 1..b => ~ (a < b)
  <2> SUFFICES ASSUME NEW a \in Nat, NEW b \in Nat, 1..a = 1..b, a < b PROVE FALSE
    OBVIOUS
  <2>1. b \in 1..b
    OBVIOUS
  <2> QED
    BY <2>1
<1>5. \A a, b \in Nat : 1..a = 1..b => a = b
  BY <1>4
<1>6. Len(g) = N
  BY <1>2, <1>3, <1>5
<1> QED
  BY <1>1, <1>6

-----------------------------------------------------------------------------
(* The three loops satisfy their equations.                                *)
LEMMA SubirLaco ==
  ASSUME NEW N \in Nat, NEW h \in Arranjos(N), NEW c, NEW k \in 1..N
  PROVE  \E s :
            /\ \A g \in Arranjos(N), i \in 1..N :
                  s[<<g, i>>] = IF i = 1 \/ ~ Antes(c, g[i], g[i \div 2]) THEN g
                                ELSE s[<<Trocar(g, i, i \div 2), i \div 2>>]
            /\ Subir(h, c, k) = s[<<h, k>>]
<1> DEFINE S == Arranjos(N) \X (1..N)
           Para(g, i) == i = 1 \/ ~ Antes(c, g[i], g[i \div 2])
           P == {x \in S : Para(x[1], x[2])}
           r == [x \in S |-> x[1]]
           F == [x \in S |-> IF Para(x[1], x[2]) THEN x
                             ELSE <<Trocar(x[1], x[2], x[2] \div 2), x[2] \div 2>>]
           m == [x \in S |-> x[2]]
<1>1. r \in [S -> Arranjos(N)] /\ m \in [S -> Nat]
  OBVIOUS
<1>2. ASSUME NEW x \in S, ~ Para(x[1], x[2])
      PROVE  <<Trocar(x[1], x[2], x[2] \div 2), x[2] \div 2>> \in S /\ x[2] \div 2 < x[2]
  <2>1. x[1] \in Arranjos(N) /\ x[2] \in 1..N /\ x[2] # 1
    BY <1>2
  <2>2. x[2] \div 2 \in 1..N /\ x[2] \div 2 < x[2]
    BY <2>1
  <2> QED
    BY <2>1, <2>2, TrocarTipo
<1>3. Recua(S, P, F, m)
  <2>1. \A x \in S : F[x] \in S
    BY <1>2
  <2>2. ASSUME NEW x \in S \ P PROVE m[F[x]] < m[x]
    <3>1. F[x] = <<Trocar(x[1], x[2], x[2] \div 2), x[2] \div 2>> /\ ~ Para(x[1], x[2])
      OBVIOUS
    <3> QED
      BY <1>2, <3>1, <2>1
  <2>3. F \in [S -> S]
    BY <2>1
  <2> QED
    BY <1>1, <2>2, <2>3 DEF Recua
<1> HIDE DEF S, P, F, r, m
<1>4. PICK s : Percorre(s, S, Arranjos(N), P, r, F)
  BY <1>1, <1>3, RecursaoDeCauda
<1>5. s = [x \in S |-> LET g == x[1]  i == x[2] IN
              IF i = 1 \/ ~ Antes(c, g[i], g[i \div 2]) THEN g
              ELSE s[<<Trocar(g, i, i \div 2), i \div 2>>]]
  <2>1. ASSUME NEW x \in S
        PROVE  (IF x \in P THEN r[x] ELSE s[F[x]])
                  = (IF Para(x[1], x[2]) THEN x[1]
                     ELSE s[<<Trocar(x[1], x[2], x[2] \div 2), x[2] \div 2>>])
    BY DEF S, P, r, F
  <2> QED
    BY <1>4, <2>1 DEF S, Percorre
<1>6. Len(h) = N
  BY Comprimento
<1>7. \E f : /\ f = [x \in S |-> LET g == x[1]  i == x[2] IN
                        IF i = 1 \/ ~ Antes(c, g[i], g[i \div 2]) THEN g
                        ELSE f[<<Trocar(g, i, i \div 2), i \div 2>>]]
             /\ Subir(h, c, k) = f[<<h, k>>]
  BY <1>5, <1>6, Zenon DEF Subir, S
<1>8. \A g \in Arranjos(N), i \in 1..N : <<g, i>> \in S
  BY DEF S
<1> QED
  BY <1>7, <1>8

(* The child that down goes to: the more urgent of those within the heap.  *)
LEMMA FilhoEhUrgente ==
  ASSUME NEW c \in TodasAsChaves, NEW N \in Nat, NEW g \in Arranjos(N),
         NEW n \in 0..N, NEW i \in 1..N, 2 * i <= n
  PROVE  LET f == FilhoUrgente(g, c, i, n) IN
         /\ f \in 2..n /\ f \in 1..N /\ f > i /\ f \div 2 = i
         /\ \A j \in 2..n : j \div 2 = i => ~ Antes(c, g[j], g[f])
<1>1. /\ 2 * i \in 2..n /\ 2 * i \in 1..N /\ 2 * i > i /\ (2 * i) \div 2 = i
      /\ 2 * i < n => /\ 2 * i + 1 \in 2..n /\ 2 * i + 1 \in 1..N /\ 2 * i + 1 > i
                      /\ (2 * i + 1) \div 2 = i
  OBVIOUS
<1>2. \A j \in 2..n : j \div 2 = i => j = 2 * i \/ (j = 2 * i + 1 /\ 2 * i < n)
  OBVIOUS
<1>3. \A j \in 2..n : g[j] \in Entradas
  BY DEF Arranjos
<1>4. CASE 2 * i < n /\ Antes(c, g[2 * i + 1], g[2 * i])
  <2>1. FilhoUrgente(g, c, i, n) = 2 * i + 1
    BY <1>4 DEF FilhoUrgente
  <2>2. ~ Antes(c, g[2 * i + 1], g[2 * i + 1]) /\ ~ Antes(c, g[2 * i], g[2 * i + 1])
    BY <1>1, <1>3, <1>4, LessOrdena
  <2>3. \A j \in 2..n : j \div 2 = i => ~ Antes(c, g[j], g[2 * i + 1])
    BY <1>2, <2>2
  <2> QED
    BY <1>1, <1>4, <2>1, <2>3
<1>5. CASE ~ (2 * i < n /\ Antes(c, g[2 * i + 1], g[2 * i]))
  <2>1. FilhoUrgente(g, c, i, n) = 2 * i
    BY <1>5 DEF FilhoUrgente
  <2>2. ~ Antes(c, g[2 * i], g[2 * i])
    BY <1>1, <1>3, LessOrdena
  <2>3. \A j \in 2..n : j \div 2 = i => ~ Antes(c, g[j], g[2 * i])
    BY <1>2, <1>5, <2>2
  <2> QED
    BY <1>1, <2>1, <2>3
<1> QED
  BY <1>4, <1>5

LEMMA DescerLaco ==
  ASSUME NEW N \in Nat, NEW h \in Arranjos(N), NEW c \in TodasAsChaves, NEW k \in 1..N,
         NEW n \in 0..N
  PROVE  \E d :
            /\ \A g \in Arranjos(N), i \in 1..N :
                  LET f == FilhoUrgente(g, c, i, n) IN
                  d[<<g, i>>] = IF 2 * i > n \/ ~ Antes(c, g[f], g[i]) THEN g
                                ELSE d[<<Trocar(g, i, f), f>>]
            /\ Descer(h, c, k, n) = d[<<h, k>>]
<1> DEFINE S == Arranjos(N) \X (1..N)
           Filho(x) == FilhoUrgente(x[1], c, x[2], n)
           Para(x) == 2 * x[2] > n \/ ~ Antes(c, x[1][Filho(x)], x[1][x[2]])
           P == {x \in S : Para(x)}
           r == [x \in S |-> x[1]]
           F == [x \in S |-> IF Para(x) THEN x ELSE <<Trocar(x[1], x[2], Filho(x)), Filho(x)>>]
           m == [x \in S |-> N - x[2]]
<1>1. r \in [S -> Arranjos(N)] /\ m \in [S -> Nat]
  OBVIOUS
<1>2. ASSUME NEW x \in S, ~ Para(x)
      PROVE  /\ <<Trocar(x[1], x[2], Filho(x)), Filho(x)>> \in S
             /\ Filho(x) \in 1..N /\ Filho(x) > x[2]
  <2>1. x[1] \in Arranjos(N) /\ x[2] \in 1..N /\ 2 * x[2] <= n
    BY <1>2
  <2>2. Filho(x) \in 1..N /\ Filho(x) > x[2]
    BY <2>1, FilhoEhUrgente
  <2> HIDE DEF Filho
  <2> QED
    BY <2>1, <2>2, TrocarTipo
<1>3. Recua(S, P, F, m)
  <2> HIDE DEF Filho, Para
  <2>1. \A x \in S : F[x] \in S
    BY <1>2
  <2>2. ASSUME NEW x \in S \ P PROVE m[F[x]] < m[x]
    <3>1. F[x] = <<Trocar(x[1], x[2], Filho(x)), Filho(x)>> /\ ~ Para(x)
      OBVIOUS
    <3>2. x[2] \in 1..N
      OBVIOUS
    <3> QED
      BY <1>2, <3>1, <3>2, <2>1
  <2>3. F \in [S -> S]
    BY <2>1
  <2> QED
    BY <1>1, <2>2, <2>3 DEF Recua
<1> HIDE DEF S, P, F, r, m
<1>4. PICK d : Percorre(d, S, Arranjos(N), P, r, F)
  BY <1>1, <1>3, RecursaoDeCauda
<1>5. d = [x \in S |-> LET g == x[1]  i == x[2]  f == FilhoUrgente(g, c, i, n) IN
             IF 2 * i > n \/ ~ Antes(c, g[f], g[i]) THEN g ELSE d[<<Trocar(g, i, f), f>>]]
  <2>1. ASSUME NEW x \in S
        PROVE  (IF x \in P THEN r[x] ELSE d[F[x]])
                  = (IF Para(x) THEN x[1] ELSE d[<<Trocar(x[1], x[2], Filho(x)), Filho(x)>>])
    BY DEF S, P, r, F
  <2> QED
    BY <1>4, <2>1 DEF S, Percorre
<1>6. Len(h) = N
  BY Comprimento
<1>7. \E e : /\ e = [x \in S |-> LET g == x[1]  i == x[2]  f == FilhoUrgente(g, c, i, n) IN
                        IF 2 * i > n \/ ~ Antes(c, g[f], g[i]) THEN g
                        ELSE e[<<Trocar(g, i, f), f>>]]
             /\ Descer(h, c, k, n) = e[<<h, k>>]
  BY <1>5, <1>6, Zenon DEF Descer, S
<1>8. \A g \in Arranjos(N), i \in 1..N : <<g, i>> \in S
  BY DEF S
<1> QED
  BY <1>7, <1>8

LEMMA OrganizarLaco ==
  ASSUME NEW N \in Nat, NEW h \in Arranjos(N), NEW c \in TodasAsChaves,
         \A g \in Arranjos(N), i \in 1..N : Descer(g, c, i, N) \in Arranjos(N)
  PROVE  \E o :
            /\ \A g \in Arranjos(N), i \in 0..N :
                  o[<<g, i>>] = IF i = 0 THEN g ELSE o[<<Descer(g, c, i, N), i - 1>>]
            /\ Organizar(h, c) = o[<<h, N \div 2>>]
<1> DEFINE S == Arranjos(N) \X (0..N)
           P == {x \in S : x[2] = 0}
           r == [x \in S |-> x[1]]
           F == [x \in S |-> IF x[2] = 0 THEN x ELSE <<Descer(x[1], c, x[2], N), x[2] - 1>>]
           m == [x \in S |-> x[2]]
<1>1. r \in [S -> Arranjos(N)] /\ m \in [S -> Nat]
  OBVIOUS
<1>2. ASSUME NEW x \in S, x[2] # 0
      PROVE  <<Descer(x[1], c, x[2], N), x[2] - 1>> \in S /\ x[2] - 1 < x[2]
  <2>1. x[1] \in Arranjos(N) /\ x[2] \in 1..N /\ x[2] - 1 \in 0..N
    BY <1>2
  <2>2. Descer(x[1], c, x[2], N) \in Arranjos(N)
    BY <2>1
  <2> QED
    BY <2>1, <2>2
<1>3. Recua(S, P, F, m)
  <2>1. \A x \in S : F[x] \in S
    BY <1>2
  <2>2. ASSUME NEW x \in S \ P PROVE m[F[x]] < m[x]
    <3>1. F[x] = <<Descer(x[1], c, x[2], N), x[2] - 1>> /\ x[2] # 0
      OBVIOUS
    <3> QED
      BY <1>2, <3>1, <2>1
  <2>3. F \in [S -> S]
    BY <2>1
  <2> QED
    BY <1>1, <2>2, <2>3 DEF Recua
<1> HIDE DEF S, P, F, r, m
<1>4. PICK o : Percorre(o, S, Arranjos(N), P, r, F)
  BY <1>1, <1>3, RecursaoDeCauda
<1>5. o = [x \in S |-> LET g == x[1]  i == x[2] IN
             IF i = 0 THEN g ELSE o[<<Descer(g, c, i, N), i - 1>>]]
  <2>1. ASSUME NEW x \in S
        PROVE  (IF x \in P THEN r[x] ELSE o[F[x]])
                  = (IF x[2] = 0 THEN x[1] ELSE o[<<Descer(x[1], c, x[2], N), x[2] - 1>>])
    BY DEF S, P, r, F
  <2>2. /\ o \in [S -> Arranjos(N)]
        /\ \A x \in S : o[x] = IF x \in P THEN r[x] ELSE o[F[x]]
    BY <1>4 DEF Percorre
  <2>3. o = [x \in S |-> IF x[2] = 0 THEN x[1] ELSE o[<<Descer(x[1], c, x[2], N), x[2] - 1>>]]
    BY <2>1, <2>2
  <2> QED
    BY <2>3, Zenon DEF S
<1>6. Len(h) = N
  BY Comprimento
<1>7. o = [x \in Arranjos(Len(h)) \X (0..Len(h)) |-> LET g == x[1]  i == x[2] IN
             IF i = 0 THEN g ELSE o[<<Descer(g, c, i, Len(h)), i - 1>>]]
  BY <1>5, <1>6, Zenon DEF S
<1>8. \E e : /\ e = [x \in Arranjos(Len(h)) \X (0..Len(h)) |-> LET g == x[1]  i == x[2] IN
                        IF i = 0 THEN g ELSE e[<<Descer(g, c, i, Len(h)), i - 1>>]]
             /\ Organizar(h, c) = e[<<h, Len(h) \div 2>>]
  BY <1>7, Zenon DEF Organizar
<1> QED
  BY <1>6, <1>8

-----------------------------------------------------------------------------
(* Each parent within the first n is no less urgent than its children.     *)
Ordenada(c, g, n) == \A j \in 2..n : ~ Antes(c, g[j], g[j \div 2])

(* The heap is in order but for i and its parent.                          *)
QuaseSubida(c, g, N, i) ==
    /\ \A j \in 2..N : j # i => ~ Antes(c, g[j], g[j \div 2])
    /\ i > 1 => \A j \in 2..N : j \div 2 = i => ~ Antes(c, g[j], g[i \div 2])

LEMMA Metade ==
  ASSUME NEW j \in Nat, j > 1
  PROVE  j \div 2 \in Nat /\ j \div 2 >= 1 /\ j \div 2 < j
OBVIOUS

LEMMA SubirPasso ==
  ASSUME NEW c \in TodasAsChaves, NEW N \in Nat, NEW g \in Arranjos(N),
         NEW i \in 1..N, NEW p \in 1..N,
         i > 1, p = i \div 2, QuaseSubida(c, g, N, i), Antes(c, g[i], g[p])
  PROVE  QuaseSubida(c, Trocar(g, i, p), N, p)
<1> DEFINE t == Trocar(g, i, p)
<1>1. p \in 1..N /\ p < i
  BY Metade
<1>2. /\ t \in Arranjos(N) /\ t[i] = g[p] /\ t[p] = g[i]
      /\ \A l \in (1..N) \ {i, p} : t[l] = g[l]
  <2>1. t \in Arranjos(N)
    BY TrocarTipo
  <2>2. t[i] = g[p] /\ t[p] = g[i]
    BY TrocarTipo
  <2>3. ASSUME NEW l \in (1..N) \ {i, p} PROVE t[l] = g[l]
    BY DEF Trocar, Arranjos
  <2> QED
    BY <2>1, <2>2, <2>3
<1>3. \A l \in 1..N : g[l] \in Entradas
  BY DEF Arranjos
<1>4. \A j \in 2..N : j \in 1..N /\ j \div 2 \in 1..N /\ j \div 2 < j
  BY Metade
<1>5. Antes(c, g[i], g[p]) /\ ~ Antes(c, g[p], g[i])
  BY <1>1, <1>3, LessOrdena
<1>6. /\ \A j \in 2..N : j # i => ~ Antes(c, g[j], g[j \div 2])
      /\ \A j \in 2..N : j \div 2 = i => ~ Antes(c, g[j], g[p])
  BY DEF QuaseSubida
<1> HIDE DEF t
<1>7. ASSUME NEW j \in 2..N, j # p
      PROVE  ~ Antes(c, t[j], t[j \div 2])
  <2>1. CASE j = i
    BY <1>2, <1>5, <2>1
  <2>2. CASE j # i /\ j \div 2 = i
    BY <1>1, <1>2, <1>4, <1>6, <1>7, <2>2
  <2>3. CASE j # i /\ j \div 2 = p
    <3>1. t[j] = g[j] /\ t[j \div 2] = g[i]
      BY <1>1, <1>2, <1>4, <1>7, <2>3
    <3>2. ~ Antes(c, g[j], g[p])
      BY <1>6, <2>3
    <3>3. g[i] \in Entradas /\ g[p] \in Entradas /\ g[j] \in Entradas
      BY <1>1, <1>3, <1>4
    <3>4. ~ Antes(c, g[j], g[i])
      BY <1>5, <3>2, <3>3, LessTransitiva
    <3> QED
      BY <3>1, <3>4
  <2>4. CASE j # i /\ j \div 2 # i /\ j \div 2 # p
    BY <1>2, <1>4, <1>6, <1>7, <2>4
  <2> QED
    BY <2>1, <2>2, <2>3, <2>4
<1>8. ASSUME p > 1, NEW j \in 2..N, j \div 2 = p
      PROVE  ~ Antes(c, t[j], t[p \div 2])
  <2>1. p \in 2..N /\ p \div 2 \in 1..N /\ p \div 2 < p
    BY <1>1, <1>4, <1>8
  <2>2. t[p \div 2] = g[p \div 2] /\ ~ Antes(c, g[p], g[p \div 2])
    BY <1>1, <1>2, <1>6, <2>1
  <2>3. CASE j = i
    BY <1>2, <2>2, <2>3
  <2>4. CASE j # i
    <3>1. t[j] = g[j] /\ ~ Antes(c, g[j], g[p])
      BY <1>2, <1>4, <1>6, <1>8, <2>4
    <3>2. g[p \div 2] \in Entradas /\ g[p] \in Entradas /\ g[j] \in Entradas
      BY <1>1, <1>3, <1>4, <2>1
    <3>3. ~ Antes(c, g[j], g[p \div 2])
      BY <2>2, <3>1, <3>2, LessTransitiva
    <3> QED
      BY <2>2, <3>1, <3>3
  <2> QED
    BY <2>3, <2>4
<1> QED
  BY <1>7, <1>8 DEF QuaseSubida, t

(* up puts the heap in order, with the same occurrences.                   *)
LEMMA SubirOrdena ==
  ASSUME NEW c \in TodasAsChaves, NEW N \in Nat, NEW E, NEW h \in Filas(N, E), NEW k \in 1..N,
         QuaseSubida(c, h, N, k)
  PROVE  Subir(h, c, k) \in Filas(N, E) /\ Ordenada(c, Subir(h, c, k), N)
<1>1. Filas(N, E) \subseteq Arranjos(N)
  BY DEF Filas
<1>2. PICK s :
         /\ \A g \in Arranjos(N), i \in 1..N :
               s[<<g, i>>] = IF i = 1 \/ ~ Antes(c, g[i], g[i \div 2]) THEN g
                             ELSE s[<<Trocar(g, i, i \div 2), i \div 2>>]
         /\ Subir(h, c, k) = s[<<h, k>>]
  BY <1>1, SubirLaco
<1> DEFINE Mau(g, i) == /\ QuaseSubida(c, g, N, i)
                        /\ ~ (s[<<g, i>>] \in Filas(N, E) /\ Ordenada(c, s[<<g, i>>], N))
           T == {i \in 1..N : \E g \in Filas(N, E) : Mau(g, i)}
<1>3. T = {}
  <2> SUFFICES ASSUME T # {} PROVE FALSE
    OBVIOUS
  <2>1. PICK i \in T : \A j \in T : i <= j
    <3>1. T \in SUBSET Nat
      OBVIOUS
    <3> QED
      BY <3>1, Menor
  <2>2. PICK g \in Filas(N, E) : Mau(g, i)
    OBVIOUS
  <2>3. i \in 1..N /\ g \in Arranjos(N)
    BY <1>1
  <2>4. CASE i = 1 \/ ~ Antes(c, g[i], g[i \div 2])
    <3>1. s[<<g, i>>] = g
      BY <1>2, <2>3, <2>4
    <3>2. Ordenada(c, g, N)
      BY <2>2, <2>3, <2>4 DEF QuaseSubida, Ordenada
    <3> QED
      BY <2>2, <3>1, <3>2
  <2>5. CASE ~ (i = 1 \/ ~ Antes(c, g[i], g[i \div 2]))
    <3> DEFINE t == Trocar(g, i, i \div 2)
    <3>1. i \div 2 \in 1..N /\ i \div 2 < i
      BY <2>3, <2>5, Metade
    <3>2. s[<<g, i>>] = s[<<t, i \div 2>>]
      BY <1>2, <2>3, <2>5
    <3>3. t \in Filas(N, E)
      BY <2>3, <3>1, TrocarPermuta
    <3>4. QuaseSubida(c, t, N, i \div 2)
      BY <2>2, <2>3, <2>5, <3>1, SubirPasso
    <3> HIDE DEF t
    <3>5. Mau(t, i \div 2)
      BY <2>2, <3>2, <3>4
    <3>6. i \div 2 \in T
      BY <3>1, <3>3, <3>5
    <3> QED
      BY <2>1, <2>3, <3>1, <3>6
  <2> QED
    BY <2>4, <2>5
<1>4. k \notin T
  BY <1>3
<1> QED
  BY <1>2, <1>4

-----------------------------------------------------------------------------
(* Below k0 the first n are in order, but for i and its children.          *)
QuaseDescida(c, g, k0, n, i) ==
    /\ \A j \in 2..n : j \div 2 >= k0 /\ j \div 2 # i => ~ Antes(c, g[j], g[j \div 2])
    /\ i \div 2 >= k0 => \A j \in 2..n : j \div 2 = i => ~ Antes(c, g[j], g[i \div 2])

LEMMA DescerPasso ==
  ASSUME NEW c \in TodasAsChaves, NEW N \in Nat, NEW g \in Arranjos(N), NEW n \in 0..N,
         NEW k0 \in 1..N, NEW i \in 1..N, i >= k0, NEW f \in 2..n,
         f \in 1..N, f > i, f \div 2 = i,
         \A j \in 2..n : j \div 2 = i => ~ Antes(c, g[j], g[f]),
         QuaseDescida(c, g, k0, n, i), Antes(c, g[f], g[i])
  PROVE  QuaseDescida(c, Trocar(g, i, f), k0, n, f)
<1> DEFINE t == Trocar(g, i, f)
<1>1. /\ t[i] = g[f] /\ t[f] = g[i]
      /\ \A l \in 1..N : l # i /\ l # f => t[l] = g[l]
  <2>1. t[i] = g[f] /\ t[f] = g[i]
    BY TrocarTipo
  <2>2. ASSUME NEW l \in 1..N, l # i, l # f PROVE t[l] = g[l]
    BY <2>2 DEF Trocar, Arranjos
  <2> QED
    BY <2>1, <2>2
<1>2. \A l \in 1..N : g[l] \in Entradas
  BY DEF Arranjos
<1>3. \A j \in 2..n : j \in 1..N /\ j \div 2 \in 1..N /\ j \div 2 < j
  BY Metade
<1>4. ~ Antes(c, g[i], g[f])
  BY <1>2, LessOrdena
<1>5. /\ \A j \in 2..n : j \div 2 >= k0 /\ j \div 2 # i => ~ Antes(c, g[j], g[j \div 2])
      /\ i \div 2 >= k0 => ~ Antes(c, g[f], g[i \div 2])
  BY DEF QuaseDescida
<1> HIDE DEF t
<1>6. ASSUME NEW j \in 2..n, j \div 2 >= k0, j \div 2 # f
      PROVE  ~ Antes(c, t[j], t[j \div 2])
  <2>1. CASE j = f
    BY <1>1, <1>4, <2>1
  <2>2. CASE j # f /\ j \div 2 = i
    <3>1. t[j] = g[j] /\ t[j \div 2] = g[f]
      BY <1>1, <1>3, <2>2
    <3> QED
      BY <2>2, <3>1
  <2>3. CASE j # f /\ j = i
    <3>1. t[j] = g[f] /\ t[j \div 2] = g[i \div 2]
      BY <1>1, <1>3, <1>6, <2>3
    <3> QED
      BY <1>5, <1>6, <2>3, <3>1
  <2>4. CASE j # f /\ j # i /\ j \div 2 # i
    <3>1. t[j] = g[j] /\ t[j \div 2] = g[j \div 2]
      BY <1>1, <1>3, <1>6, <2>4
    <3> QED
      BY <1>5, <1>6, <2>4, <3>1
  <2> QED
    BY <2>1, <2>2, <2>3, <2>4
<1>7. ASSUME NEW j \in 2..n, j \div 2 = f
      PROVE  ~ Antes(c, t[j], t[f \div 2])
  <2>1. j > f /\ j \in 1..N
    BY <1>3, <1>7
  <2>2. t[j] = g[j] /\ t[f \div 2] = g[f]
    BY <1>1, <2>1
  <2>3. j \div 2 >= k0 /\ j \div 2 # i
    BY <1>7
  <2>4. ~ Antes(c, g[j], g[j \div 2])
    BY <1>5, <2>3
  <2> QED
    BY <1>7, <2>2, <2>4
<1> QED
  BY <1>6, <1>7 DEF QuaseDescida, t

(* Among the first n, every parent past k precedes its children.           *)
OrdenadaAlem(c, g, k, n) ==
    \A j \in 2..n : j \div 2 > k => ~ Antes(c, g[j], g[j \div 2])

(* down adds k to the parents in order, with the same occurrences, and     *)
(* leaves what is past n alone.                                            *)
LEMMA DescerOrdena ==
  ASSUME NEW c \in TodasAsChaves, NEW N \in Nat, NEW E, NEW h \in Filas(N, E), NEW k \in 1..N,
         NEW n \in 0..N, OrdenadaAlem(c, h, k, n)
  PROVE  /\ Descer(h, c, k, n) \in Filas(N, E)
         /\ OrdenadaAlem(c, Descer(h, c, k, n), k - 1, n)
         /\ \A j \in (n + 1)..N : Descer(h, c, k, n)[j] = h[j]
<1>1. Filas(N, E) \subseteq Arranjos(N)
  BY DEF Filas
<1>2. PICK d :
         /\ \A g \in Arranjos(N), i \in 1..N :
               LET f == FilhoUrgente(g, c, i, n) IN
               d[<<g, i>>] = IF 2 * i > n \/ ~ Antes(c, g[f], g[i]) THEN g
                             ELSE d[<<Trocar(g, i, f), f>>]
         /\ Descer(h, c, k, n) = d[<<h, k>>]
  BY <1>1, DescerLaco
<1> DEFINE Bom(x) == /\ x \in Filas(N, E)
                     /\ \A j \in 2..n : j \div 2 >= k => ~ Antes(c, x[j], x[j \div 2])
                     /\ \A j \in (n + 1)..N : x[j] = h[j]
           Parte(g, i) == /\ i \in 1..N /\ i >= k /\ g \in Filas(N, E)
                          /\ \A j \in (n + 1)..N : g[j] = h[j]
                          /\ QuaseDescida(c, g, k, n, i)
           T == {l \in Nat : \E g \in Filas(N, E), i \in 1..N :
                                l = N - i /\ Parte(g, i) /\ ~ Bom(d[<<g, i>>])}
<1>3. T = {}
  <2> SUFFICES ASSUME T # {} PROVE FALSE
    OBVIOUS
  <2>1. PICK l \in T : \A j \in T : l <= j
    <3>1. T \in SUBSET Nat
      OBVIOUS
    <3> QED
      BY <3>1, Menor
  <2>2. PICK g \in Filas(N, E), i \in 1..N : l = N - i /\ Parte(g, i) /\ ~ Bom(d[<<g, i>>])
    BY <2>1
  <2> DEFINE f == FilhoUrgente(g, c, i, n)
  <2>3. g \in Arranjos(N) /\ i \in 1..N /\ i >= k
    BY <1>1, <2>2
  <2>4. CASE 2 * i > n
    <3>1. d[<<g, i>>] = g
      BY <1>2, <2>3, <2>4
    <3>2. \A j \in 2..n : j \div 2 # i
      BY <2>3, <2>4
    <3>3. \A j \in 2..n : j \div 2 >= k => ~ Antes(c, g[j], g[j \div 2])
      BY <2>2, <3>2 DEF QuaseDescida
    <3> QED
      BY <2>2, <3>1, <3>3
  <2>5. CASE ~ (2 * i > n)
    <3>1. /\ f \in 2..n /\ f \in 1..N /\ f > i /\ f \div 2 = i
          /\ \A j \in 2..n : j \div 2 = i => ~ Antes(c, g[j], g[f])
      BY <2>3, <2>5, FilhoEhUrgente
    <3> HIDE DEF f
    <3>2. CASE ~ Antes(c, g[f], g[i])
      <4>1. d[<<g, i>>] = g
        BY <1>2, <2>3, <3>2 DEF f
      <4>2. ASSUME NEW j \in 2..n, j \div 2 = i PROVE ~ Antes(c, g[j], g[i])
        <5>1. g[j] \in Entradas /\ g[f] \in Entradas /\ g[i] \in Entradas
          BY <2>3, <3>1 DEF Arranjos
        <5> QED
          BY <3>1, <3>2, <4>2, <5>1, LessTransitiva
      <4>3. \A j \in 2..n : j \div 2 >= k => ~ Antes(c, g[j], g[j \div 2])
        BY <2>2, <4>2 DEF QuaseDescida
      <4> QED
        BY <2>2, <4>1, <4>3
    <3>3. CASE Antes(c, g[f], g[i])
      <4> DEFINE t == Trocar(g, i, f)
      <4>1. d[<<g, i>>] = d[<<t, f>>]
        BY <1>2, <2>3, <2>5, <3>3 DEF f
      <4>2. t \in Filas(N, E)
        BY <2>3, <3>1, TrocarPermuta
      <4>3. \A j \in (n + 1)..N : t[j] = h[j]
        <5> SUFFICES ASSUME NEW j \in (n + 1)..N PROVE t[j] = h[j]
          OBVIOUS
        <5>1. j \in 1..N /\ j # i /\ j # f /\ g[j] = h[j]
          BY <2>2, <2>3, <2>5, <3>1
        <5> QED
          BY <2>3, <3>1, <5>1 DEF Trocar, Arranjos
      <4>4. QuaseDescida(c, t, k, n, f)
        BY <2>2, <2>3, <3>1, <3>3, DescerPasso
      <4> HIDE DEF t
      <4>5. Parte(t, f) /\ ~ Bom(d[<<t, f>>])
        <5>1. ~ Bom(d[<<t, f>>])
          BY <2>2, <4>1
        <5>2. Parte(t, f)
          BY <2>3, <3>1, <4>2, <4>3, <4>4
        <5> QED
          BY <5>1, <5>2
      <4>6. N - f \in Nat /\ l \in Nat /\ N - f < l
        BY <2>2, <2>3, <3>1
      <4>7. N - f \in T
        BY <3>1, <4>2, <4>5, <4>6
      <4> HIDE DEF T
      <4>8. l <= N - f
        BY <2>1, <4>7
      <4> QED
        BY <4>6, <4>8
    <3> QED
      BY <3>2, <3>3
  <2> QED
    BY <2>4, <2>5
<1>4. Parte(h, k)
  <2>1. \A j \in 2..n : j \div 2 >= k /\ j \div 2 # k => ~ Antes(c, h[j], h[j \div 2])
    BY DEF OrdenadaAlem
  <2>2. ~ (k \div 2 >= k)
    OBVIOUS
  <2> QED
    BY <2>1, <2>2 DEF QuaseDescida
<1>5. Bom(d[<<h, k>>])
  <2>1. N - k \in Nat
    OBVIOUS
  <2>2. N - k \notin T
    BY <1>3, Zenon
  <2> HIDE DEF Parte, Bom
  <2> QED
    BY <1>4, <2>1, <2>2
<1> QED
  BY <1>2, <1>5 DEF OrdenadaAlem

(* ... on any array, whatever is in it.                                    *)
LEMMA DescerTipo ==
  ASSUME NEW c \in TodasAsChaves, NEW N \in Nat, NEW h \in Arranjos(N), NEW k \in 1..N,
         NEW n \in 0..N
  PROVE  Descer(h, c, k, n) \in Arranjos(N)
<1>1. PICK d :
         /\ \A g \in Arranjos(N), i \in 1..N :
               LET f == FilhoUrgente(g, c, i, n) IN
               d[<<g, i>>] = IF 2 * i > n \/ ~ Antes(c, g[f], g[i]) THEN g
                             ELSE d[<<Trocar(g, i, f), f>>]
         /\ Descer(h, c, k, n) = d[<<h, k>>]
  BY DescerLaco
<1> DEFINE T == {l \in Nat : \E g \in Arranjos(N), i \in 1..N :
                                l = N - i /\ d[<<g, i>>] \notin Arranjos(N)}
<1>2. T = {}
  <2> SUFFICES ASSUME T # {} PROVE FALSE
    OBVIOUS
  <2>1. PICK l \in T : \A j \in T : l <= j
    <3>1. T \in SUBSET Nat
      OBVIOUS
    <3> QED
      BY <3>1, Menor
  <2>2. PICK g \in Arranjos(N), i \in 1..N : l = N - i /\ d[<<g, i>>] \notin Arranjos(N)
    BY <2>1
  <2> DEFINE f == FilhoUrgente(g, c, i, n)
  <2>3. ~ (2 * i > n) /\ d[<<g, i>>] = d[<<Trocar(g, i, f), f>>]
    BY <1>1, <2>2
  <2>4. f \in 1..N /\ f > i
    BY <2>3, FilhoEhUrgente
  <2> HIDE DEF f
  <2>5. Trocar(g, i, f) \in Arranjos(N)
    BY <2>4, TrocarTipo
  <2>6. N - f \in Nat /\ l \in Nat /\ N - f < l
    BY <2>2, <2>4
  <2>7. N - f \in T
    BY <2>2, <2>3, <2>4, <2>5, <2>6
  <2> HIDE DEF T
  <2>8. l <= N - f
    BY <2>1, <2>7
  <2> QED
    BY <2>6, <2>8
<1>3. N - k \in Nat
  OBVIOUS
<1>4. N - k \notin T
  BY <1>2, Zenon
<1> QED
  BY <1>1, <1>3, <1>4

(* heap.Init puts the whole array in order, whatever order it was in.      *)
LEMMA OrganizarOrdena ==
  ASSUME NEW c \in TodasAsChaves, NEW N \in Nat, NEW E, NEW h \in Filas(N, E)
  PROVE  Organizar(h, c) \in Filas(N, E) /\ Ordenada(c, Organizar(h, c), N)
<1>1. Filas(N, E) \subseteq Arranjos(N)
  BY DEF Filas
<1>2. ASSUME NEW g \in Arranjos(N), NEW i \in 1..N
      PROVE  Descer(g, c, i, N) \in Arranjos(N)
  <2>1. N \in 0..N
    OBVIOUS
  <2> QED
    BY <2>1, DescerTipo
<1>3. PICK o :
         /\ \A g \in Arranjos(N), i \in 0..N :
               o[<<g, i>>] = IF i = 0 THEN g ELSE o[<<Descer(g, c, i, N), i - 1>>]
         /\ Organizar(h, c) = o[<<h, N \div 2>>]
  BY <1>1, <1>2, OrganizarLaco
<1> DEFINE Bom(x) == x \in Filas(N, E) /\ Ordenada(c, x, N)
           T == {i \in 0..N : \E g \in Filas(N, E) :
                                 OrdenadaAlem(c, g, i, N) /\ ~ Bom(o[<<g, i>>])}
<1>4. T = {}
  <2> SUFFICES ASSUME T # {} PROVE FALSE
    OBVIOUS
  <2>1. PICK i \in T : \A j \in T : i <= j
    <3>1. T \in SUBSET Nat
      OBVIOUS
    <3> QED
      BY <3>1, Menor
  <2>2. PICK g \in Filas(N, E) : OrdenadaAlem(c, g, i, N) /\ ~ Bom(o[<<g, i>>])
    BY <2>1
  <2>3. g \in Arranjos(N) /\ i \in 0..N
    BY <1>1, <2>2
  <2>4. CASE i = 0
    <3>1. o[<<g, i>>] = g
      BY <1>3, <2>3, <2>4
    <3>2. \A j \in 2..N : j \div 2 > i
      BY <2>4, Metade
    <3> QED
      BY <2>2, <3>1, <3>2 DEF Ordenada, OrdenadaAlem
  <2>5. CASE i # 0
    <3> DEFINE d == Descer(g, c, i, N)
    <3>1. i \in 1..N /\ i - 1 \in 0..N /\ N \in 0..N
      BY <2>3, <2>5
    <3>2. o[<<g, i>>] = o[<<d, i - 1>>]
      BY <1>3, <2>3, <2>5
    <3>3. d \in Filas(N, E) /\ OrdenadaAlem(c, d, i - 1, N)
      BY <2>2, <3>1, DescerOrdena
    <3> HIDE DEF d
    <3>4. i - 1 \in T
      BY <2>2, <3>1, <3>2, <3>3
    <3> HIDE DEF T
    <3>5. i <= i - 1
      BY <2>1, <3>4
    <3> QED
      BY <3>1, <3>5
  <2> QED
    BY <2>4, <2>5
<1>5. N \div 2 \in 0..N /\ \A j \in 2..N : ~ (j \div 2 > N \div 2)
  OBVIOUS
<1>6. N \div 2 \notin T
  BY <1>4, Zenon
<1> QED
  BY <1>3, <1>5, <1>6 DEF OrdenadaAlem

-----------------------------------------------------------------------------
(* The first of a heap in order precedes all.                              *)
LEMMA PrimeiraEhMaisUrgente ==
  ASSUME NEW c \in TodasAsChaves, NEW N \in Nat, NEW g \in Arranjos(N), Ordenada(c, g, N)
  PROVE  \A j \in 1..N : ~ Antes(c, g[j], g[1])
<1> DEFINE T == {j \in 1..N : Antes(c, g[j], g[1])}
<1> SUFFICES ASSUME T # {} PROVE FALSE
  OBVIOUS
<1>1. PICK j \in T : \A l \in T : j <= l
  <2>1. T \in SUBSET Nat
    OBVIOUS
  <2> QED
    BY <2>1, Menor
<1>2. \A l \in 1..N : g[l] \in Entradas
  BY DEF Arranjos
<1>3. j \in 2..N
  <2>1. ~ Antes(c, g[1], g[1])
    BY <1>1, <1>2, LessOrdena
  <2> QED
    BY <1>1, <2>1
<1>4. j \div 2 \in 1..N /\ j \div 2 < j /\ j \div 2 \notin T
  <2>1. j \div 2 \in 1..N /\ j \div 2 < j
    BY <1>3, Metade
  <2> HIDE DEF T
  <2> QED
    BY <1>1, <1>3, <2>1
<1>5. ~ Antes(c, g[j], g[j \div 2]) /\ ~ Antes(c, g[j \div 2], g[1])
  BY <1>3, <1>4 DEF Ordenada
<1>6. ~ Antes(c, g[j], g[1])
  <2>1. g[1] \in Entradas /\ g[j] \in Entradas /\ g[j \div 2] \in Entradas
    BY <1>2, <1>3, <1>4
  <2> QED
    BY <1>5, <2>1, LessTransitiva
<1> QED
  BY <1>1, <1>6

LEMMA HeapPushOrdena ==
  ASSUME NEW c \in TodasAsChaves, NEW N \in Nat, NEW E, NEW h \in Filas(N, E),
         NEW o \in Entradas \ E, Ordenada(c, h, N)
  PROVE  /\ HeapPush(h, c, o) \in Filas(N + 1, E \cup {o})
         /\ Ordenada(c, HeapPush(h, c, o), N + 1)
<1> DEFINE a == Append(h, o)
<1>1. h \in Arranjos(N) /\ h \in Seq(Entradas) /\ Len(h) = N
  BY Comprimento DEF Filas
<1>2. /\ a \in Seq(Entradas) /\ Len(a) = N + 1
      /\ \A j \in 1..N : a[j] = h[j]
      /\ a[N + 1] = o
  BY <1>1, AppendProperties
<1>3. a \in Arranjos(N + 1) /\ DOMAIN a = 1..(N + 1)
  BY <1>2, LenProperties DEF Arranjos
<1> HIDE DEF a
<1>4. h \in [1..N -> Entradas] /\ Range(h) = E /\ Range(h) = {h[j] : j \in 1..N}
  BY Zenon DEF Filas, Arranjos, Range
<1>5. \A j \in 1..N : h[j] \in E
  BY <1>4
<1>6. IsInjective(a)
  <2>1. \A x, y \in 1..N : h[x] = h[y] => x = y
    BY <1>4 DEF Filas, IsInjective
  <2>2. ASSUME NEW x \in 1..(N + 1), NEW y \in 1..(N + 1), a[x] = a[y] PROVE x = y
    <3>1. CASE x \in 1..N /\ y \in 1..N
      BY <1>2, <2>1, <2>2, <3>1
    <3>2. CASE x = N + 1 /\ y \in 1..N
      BY <1>2, <1>5, <2>2, <3>2
    <3>3. CASE x \in 1..N /\ y = N + 1
      BY <1>2, <1>5, <2>2, <3>3
    <3> QED
      BY <3>1, <3>2, <3>3
  <2> QED
    BY <1>3, <2>2 DEF IsInjective
<1>7. Range(a) = E \cup {o}
  <2>1. Range(a) = {a[j] : j \in 1..(N + 1)}
    BY <1>3, Zenon DEF Range
  <2>2. \A j \in 1..(N + 1) : a[j] \in E \cup {o}
    BY <1>2, <1>5
  <2>3. \A x \in E \cup {o} : \E j \in 1..(N + 1) : a[j] = x
    <3>1. \A x \in E : \E j \in 1..N : h[j] = x
      BY <1>4
    <3> QED
      BY <1>2, <3>1
  <2> QED
    BY <2>1, <2>2, <2>3
<1>8. a \in Filas(N + 1, E \cup {o})
  BY <1>3, <1>6, <1>7 DEF Filas
<1>9. QuaseSubida(c, a, N + 1, N + 1)
  <2>1. ASSUME NEW j \in 2..(N + 1), j # N + 1 PROVE ~ Antes(c, a[j], a[j \div 2])
    <3>1. j \in 2..N /\ j \in 1..N /\ j \div 2 \in 1..N
      BY <2>1, Metade
    <3> QED
      BY <1>2, <3>1 DEF Ordenada
  <2>2. \A j \in 2..(N + 1) : j \div 2 # N + 1
    BY Metade
  <2> QED
    BY <2>1, <2>2 DEF QuaseSubida
<1>10. N + 1 \in Nat /\ N + 1 \in 1..(N + 1)
  OBVIOUS
<1>11. HeapPush(h, c, o) = Subir(a, c, N + 1)
  BY <1>1 DEF HeapPush, a
<1> QED
  BY <1>8, <1>9, <1>10, <1>11, SubirOrdena

(* Pop leaves behind everything but the first.                             *)
LEMMA SemTopoRetira ==
  ASSUME NEW c \in TodasAsChaves, NEW N \in Nat, N > 0, NEW E, NEW h \in Filas(N, E),
         Ordenada(c, h, N)
  PROVE  SemTopo(h, c) \in Filas(N - 1, E \ {h[1]})
<1> DEFINE n == N - 1
           t == Trocar(h, 1, N)
           d == Descer(t, c, 1, n)
           s == SubSeq(d, 1, n)
<1>1. h \in Arranjos(N) /\ Len(h) = N
  BY Comprimento DEF Filas
<1>2. 1 \in 1..N /\ N \in 1..N /\ n \in 0..N /\ n \in Nat /\ N = n + 1
  OBVIOUS
<1>3. t \in Filas(N, E) /\ t[N] = h[1]
  BY <1>1, <1>2, TrocarTipo, TrocarPermuta
<1>4. OrdenadaAlem(c, t, 1, n)
  <2> SUFFICES ASSUME NEW j \in 2..n, j \div 2 > 1 PROVE ~ Antes(c, t[j], t[j \div 2])
    BY DEF OrdenadaAlem
  <2>1. /\ j \in 2..N /\ j \in 1..N /\ j # 1 /\ j # N
        /\ j \div 2 \in 1..N /\ j \div 2 # 1 /\ j \div 2 # N
    BY <1>2, Metade
  <2>2. t[j] = h[j] /\ t[j \div 2] = h[j \div 2]
    BY <1>1, <1>2, <2>1 DEF Trocar, Arranjos
  <2> QED
    BY <2>1, <2>2 DEF Ordenada
<1> HIDE DEF t, n
<1>5. d \in Filas(N, E) /\ d[N] = h[1]
  <2>1. t \in Filas(N, E) /\ 1 \in 1..N /\ n \in 0..N
    BY <1>2, <1>3
  <2>2. d \in Filas(N, E) /\ \A j \in (n + 1)..N : d[j] = t[j]
    BY <1>4, <2>1, DescerOrdena
  <2> QED
    BY <1>2, <1>3, <2>2
<1> HIDE DEF d
<1>6. /\ d \in [1..N -> Entradas] /\ Range(d) = E /\ Range(d) = {d[j] : j \in 1..N}
      /\ \A x, y \in 1..N : d[x] = d[y] => x = y
  <2>1. d \in [1..N -> Entradas] /\ DOMAIN d = 1..N
    BY <1>5 DEF Filas, Arranjos
  <2> QED
    BY <1>5, <2>1, Zenon DEF Filas, Range, IsInjective
<1>7. \A j \in 1..n : j \in 1..N /\ j # N /\ d[j] \in Entradas
  BY <1>2, <1>6
<1>8. /\ s \in Seq(Entradas) /\ Len(s) = n
      /\ \A j \in 1..n : s[j] = d[j]
  <2>1. /\ s \in Seq(Entradas)
        /\ Len(s) = IF 1 <= n THEN n - 1 + 1 ELSE 0
        /\ \A j \in 1..(n - 1 + 1) : s[j] = d[1 + j - 1]
    BY <1>2, <1>7, SubSeqProperties
  <2>2. n - 1 + 1 = n /\ \A j \in 1..n : 1 + j - 1 = j
    BY <1>2
  <2> QED
    BY <1>2, <2>1, <2>2
<1> HIDE DEF s
<1>9. s \in Arranjos(n) /\ DOMAIN s = 1..n
  BY <1>8, LenProperties DEF Arranjos
<1>10. IsInjective(s)
  BY <1>6, <1>7, <1>8, <1>9 DEF IsInjective
<1>11. Range(s) = E \ {h[1]}
  <2>1. Range(s) = {s[j] : j \in 1..n}
    BY <1>9, Zenon DEF Range
  <2>2. \A j \in 1..n : s[j] \in E \ {h[1]}
    BY <1>2, <1>5, <1>6, <1>7, <1>8
  <2>3. ASSUME NEW x \in E \ {h[1]} PROVE \E j \in 1..n : s[j] = x
    <3>1. PICK j \in 1..N : d[j] = x
      BY <1>6
    <3>2. j \in 1..n
      BY <1>2, <1>5, <3>1
    <3> QED
      BY <1>8, <3>1, <3>2
  <2> QED
    BY <2>1, <2>2, <2>3
<1>12. SemTopo(h, c) = s
  BY <1>1 DEF SemTopo, s, d, t, n
<1>13. s \in Filas(n, E \ {h[1]})
  BY <1>9, <1>10, <1>11 DEF Filas
<1> QED
  BY <1>12, <1>13 DEF n

-----------------------------------------------------------------------------
(* What every broker's queue keeps: the heap holds what waits, each once,  *)
(* in the order of Less, and what is being asked for is not in it.         *)
FilaIInv ==
    /\ TypeOK
    /\ pedindo \notin Espera
    /\ Ordenada(Chaves, fila, Len(fila))

LEMMA FilaForma ==
  ASSUME TypeOK
  PROVE  /\ Len(fila) \in Nat /\ fila \in Filas(Len(fila), Espera)
         /\ Chaves \in TodasAsChaves
         /\ fila \in Arranjos(Len(fila))
<1>1. Len(fila) \in Nat /\ fila \in Arranjos(Len(fila))
  BY LenProperties DEF TypeOK, Arranjos
<1>2. fila \in Filas(Len(fila), Espera)
  BY <1>1 DEF TypeOK, Filas
<1>3. Chaves \in TodasAsChaves
  BY DEF TypeOK, EsperaTypeOK, Chaves, TodasAsChaves
<1> QED
  BY <1>1, <1>2, <1>3

LEMMA FormaDaFila ==
  ASSUME NEW N \in Nat, NEW E, NEW g \in Filas(N, E)
  PROVE  g \in Seq(Entradas) /\ Len(g) = N /\ IsInjective(g) /\ Range(g) = E
BY Comprimento DEF Filas

(* The keys of those who wait are what orders the heap.                    *)
LEMMA OrdemDeQuemEspera ==
  ASSUME NEW c, NEW d, NEW N \in Nat, NEW E \in SUBSET Entradas, NEW g \in Filas(N, E),
         \A x \in E : c[x] = d[x], Ordenada(c, g, N)
  PROVE  Ordenada(d, g, N)
<1>1. \A j \in 1..N : g[j] \in E
  <2>1. g \in [1..N -> Entradas] /\ Range(g) = E
    BY DEF Filas, Arranjos
  <2>2. Range(g) = {g[j] : j \in 1..N}
    BY <2>1, Zenon DEF Range
  <2> QED
    BY <2>1, <2>2
<1>2. \A j \in 2..N : j \in 1..N /\ j \div 2 \in 1..N
  BY Metade
<1>3. ASSUME NEW j \in 2..N PROVE ~ Antes(d, g[j], g[j \div 2])
  <2>1. c[g[j]] = d[g[j]] /\ c[g[j \div 2]] = d[g[j \div 2]]
    BY <1>1, <1>2
  <2>2. ~ Antes(c, g[j], g[j \div 2])
    BY DEF Ordenada
  <2> QED
    BY <2>1, <2>2 DEF Antes
<1> QED
  BY <1>3 DEF Ordenada

LEMMA EntrarTipo ==
  ASSUME EsperaTypeOK, NEW o \in Entradas, NEW p \in 1..Critico, NEW t \in Instantes,
         Entrar(o, p, t)
  PROVE  /\ EsperaTypeOK' /\ Espera' = Espera \cup {o} /\ o \notin Espera
         /\ \A x \in Espera : Chaves'[x] = Chaves[x]
<1>1. p \in Nat /\ p > 0
  BY DEF Critico
<1>2. EsperaTypeOK'
  BY <1>1 DEF EsperaTypeOK, Entrar
<1>3. /\ prio'[o] = p
      /\ \A x \in Entradas \ {o} : prio'[x] = prio[x] /\ ts'[x] = ts[x]
  BY DEF EsperaTypeOK, Entrar
<1>4. Espera' = Espera \cup {o} /\ o \notin Espera
  BY <1>1, <1>3 DEF Espera, Entrar
<1>5. \A x \in Espera : Chaves'[x] = Chaves[x]
  BY <1>3, <1>4 DEF Chaves, Espera
<1> QED
  BY <1>2, <1>4, <1>5

(* Push keeps the heap.                                                    *)
LEMMA PushOrdena ==
  ASSUME FilaIInv, NEW o \in Entradas, NEW p \in 1..Critico, NEW t \in Instantes, Push(o, p, t)
  PROVE  /\ EsperaTypeOK' /\ Espera' = Espera \cup {o}
         /\ fila' \in Seq(Entradas) /\ IsInjective(fila') /\ Range(fila') = Espera'
         /\ Ordenada(Chaves, fila, Len(fila))'
<1> DEFINE N == Len(fila)
           c == Chaves'
<1>1. /\ EsperaTypeOK' /\ Espera' = Espera \cup {o} /\ o \notin Espera
      /\ \A x \in Espera : Chaves'[x] = Chaves[x]
  BY EntrarTipo DEF FilaIInv, TypeOK, Push
<1>2. N \in Nat /\ fila \in Filas(N, Espera) /\ Espera \in SUBSET Entradas
  BY FilaForma DEF FilaIInv, Espera
<1>3. c \in TodasAsChaves
  BY <1>1 DEF EsperaTypeOK, Chaves, TodasAsChaves
<1>4. Ordenada(c, fila, N)
  BY <1>1, <1>2, OrdemDeQuemEspera DEF FilaIInv
<1>5. fila' = HeapPush(fila, c, o)
  BY DEF Push
<1> HIDE DEF N, c
<1>6. fila' \in Filas(N + 1, Espera \cup {o}) /\ Ordenada(c, fila', N + 1)
  BY <1>1, <1>2, <1>3, <1>4, <1>5, HeapPushOrdena
<1>7. /\ fila' \in Seq(Entradas) /\ IsInjective(fila') /\ Range(fila') = Espera \cup {o}
      /\ Len(fila') = N + 1
  BY <1>2, <1>6, FormaDaFila
<1> QED
  BY <1>1, <1>6, <1>7 DEF c

(* Aging, of everybody or of those a Pop leaves.                           *)
LEMMA AgingOrdena ==
  ASSUME EsperaTypeOK, NEW S \in SUBSET Espera, prio' = Aging(S), UNCHANGED ts,
         servidas' \in [Entradas -> Nat],
         NEW N \in Nat, NEW g \in Filas(N, S), fila' = Organizar(g, Chaves')
  PROVE  /\ EsperaTypeOK' /\ Espera' = S
         /\ fila' \in Seq(Entradas) /\ IsInjective(fila') /\ Range(fila') = Espera'
         /\ Ordenada(Chaves, fila, Len(fila))'
<1> DEFINE c == Chaves'
<1>1. EsperaTypeOK' /\ Espera' = S
  BY AgingMantemOrdem DEF EsperaTypeOK
<1>2. c \in TodasAsChaves
  BY <1>1 DEF EsperaTypeOK, Chaves, TodasAsChaves
<1>3. fila' = Organizar(g, c)
  OBVIOUS
<1> HIDE DEF c
<1>4. fila' \in Filas(N, S) /\ Ordenada(c, fila', N)
  BY <1>2, <1>3, OrganizarOrdena
<1>5. fila' \in Seq(Entradas) /\ IsInjective(fila') /\ Range(fila') = S /\ Len(fila') = N
  BY <1>4, FormaDaFila
<1> QED
  BY <1>1, <1>4, <1>5 DEF c

(* tentarDespachar serves one that none precedes.                          *)
LEMMA DespacharServe ==
  ASSUME FilaIInv, Despachar
  PROVE  /\ fila[1] \in Espera /\ Sair(fila[1])
         /\ SemTopo(fila, Chaves) \in Filas(Len(fila) - 1, Espera \ {fila[1]})
         /\ Len(fila) - 1 \in Nat
<1> DEFINE N == Len(fila)
<1>1. /\ N \in Nat /\ fila \in Filas(N, Espera) /\ fila \in Arranjos(N)
      /\ Chaves \in TodasAsChaves /\ Ordenada(Chaves, fila, N)
  BY FilaForma DEF FilaIInv
<1>2. N > 0 /\ N - 1 \in Nat
  BY <1>1, EmptySeq DEF Despachar, FilaIInv, TypeOK
<1>3. /\ fila \in [1..N -> Entradas] /\ Range(fila) = Espera
      /\ Range(fila) = {fila[j] : j \in 1..N}
  BY <1>1, Zenon DEF Filas, Arranjos, Range
<1> HIDE DEF N
<1>4. fila[1] \in Espera
  BY <1>2, <1>3, <1>1
<1>5. \A x \in Espera : ~ Antes(Chaves, x, fila[1])
  <2>1. \A j \in 1..N : ~ Antes(Chaves, fila[j], fila[1])
    BY <1>1, PrimeiraEhMaisUrgente
  <2> QED
    BY <1>3, <2>1
<1>6. SemTopo(fila, Chaves) \in Filas(N - 1, Espera \ {fila[1]})
  BY <1>1, <1>2, SemTopoRetira
<1> QED
  BY <1>2, <1>4, <1>5, <1>6 DEF Sair, Despachar, N

LEMMA ChegarFilaIInv ==
  ASSUME FilaIInv, NEW o \in Entradas, NEW p \in 1..Critico, NEW t \in Instantes, Chegar(o, p, t)
  PROVE  FilaIInv' /\ Entrar(o, p, t)
<1>1. Push(o, p, t) /\ o \notin missoes \cup {pedindo} /\ UNCHANGED <<pedindo, missoes>>
  BY DEF Chegar, EmCurso
<1>2. /\ EsperaTypeOK' /\ Espera' = Espera \cup {o}
      /\ fila' \in Seq(Entradas) /\ IsInjective(fila') /\ Range(fila') = Espera'
      /\ Ordenada(Chaves, fila, Len(fila))'
  BY <1>1, PushOrdena
<1>3. /\ pedindo' \in Entradas \cup {Nenhuma} /\ pedindo' \notin Espera'
      /\ missoes' \subseteq Entradas \ (Espera' \cup {pedindo'})
  BY <1>1, <1>2 DEF FilaIInv, TypeOK
<1> QED
  BY <1>1, <1>2, <1>3 DEF FilaIInv, TypeOK, Push

LEMMA SemDroneFilaIInv ==
  ASSUME FilaIInv, NEW t \in Instantes, SemDrone(t)
  PROVE  FilaIInv' /\ \E o \in Entradas, p \in 1..Critico : Entrar(o, p, t)
<1>1. /\ pedindo \in Entradas /\ Push(pedindo, Critico, t) /\ Critico \in 1..Critico
      /\ pedindo' = Nenhuma /\ missoes' = missoes
  BY DEF SemDrone, FilaIInv, TypeOK, Critico
<1>2. /\ EsperaTypeOK' /\ Espera' = Espera \cup {pedindo}
      /\ fila' \in Seq(Entradas) /\ IsInjective(fila') /\ Range(fila') = Espera'
      /\ Ordenada(Chaves, fila, Len(fila))'
  BY <1>1, PushOrdena
<1>3. /\ pedindo' \in Entradas \cup {Nenhuma} /\ pedindo' \notin Espera'
      /\ missoes' \subseteq Entradas \ (Espera' \cup {pedindo'})
  BY <1>1, <1>2, EntradasAssumption DEF FilaIInv, TypeOK, Espera
<1> QED
  BY <1>1, <1>2, <1>3 DEF FilaIInv, TypeOK, Push

LEMMA RecolocarFilaIInv ==
  ASSUME FilaIInv, NEW o \in Entradas, Recolocar(o)
  PROVE  FilaIInv' /\ \E p \in 1..Critico, t \in Instantes : Entrar(o, p, t)
<1>1. /\ o \in missoes /\ ts[o] \in Instantes /\ Push(o, Critico, ts[o])
      /\ Critico \in 1..Critico /\ pedindo' = pedindo /\ missoes' = missoes \ {o}
  BY DEF Recolocar, FilaIInv, TypeOK, EsperaTypeOK, Critico
<1>2. /\ EsperaTypeOK' /\ Espera' = Espera \cup {o}
      /\ fila' \in Seq(Entradas) /\ IsInjective(fila') /\ Range(fila') = Espera'
      /\ Ordenada(Chaves, fila, Len(fila))'
  BY <1>1, PushOrdena
<1>3. /\ pedindo' \in Entradas \cup {Nenhuma} /\ pedindo' \notin Espera'
      /\ missoes' \subseteq Entradas \ (Espera' \cup {pedindo'})
  BY <1>1, <1>2 DEF FilaIInv, TypeOK
<1> QED
  BY <1>1, <1>2, <1>3 DEF FilaIInv, TypeOK, Push

LEMMA DespacharFilaIInv ==
  ASSUME FilaIInv, Despachar
  PROVE  FilaIInv' /\ \E o \in Entradas : Sair(o)
<1> DEFINE S == Espera \ {fila[1]}
           g == SemTopo(fila, Chaves)
           N == Len(fila) - 1
<1>1. fila[1] \in Espera /\ Sair(fila[1]) /\ g \in Filas(N, S) /\ N \in Nat
  BY DespacharServe
<1>2. /\ S \in SUBSET Espera /\ prio' = Aging(S) /\ UNCHANGED ts
      /\ servidas' = [x \in Entradas |-> IF x \in S THEN servidas[x] + 1 ELSE 0]
      /\ fila' = Organizar(g, Chaves')
  BY DEF Despachar, Servir
<1>3. servidas' \in [Entradas -> Nat]
  <2>1. \A x \in Entradas : servidas[x] \in Nat
    BY DEF FilaIInv, TypeOK, EsperaTypeOK
  <2> HIDE DEF S
  <2> QED
    BY <1>2, <2>1
<1>4. EsperaTypeOK
  BY DEF FilaIInv, TypeOK
<1> HIDE DEF S, g, N
<1>5. /\ EsperaTypeOK' /\ Espera' = S
      /\ fila' \in Seq(Entradas) /\ IsInjective(fila') /\ Range(fila') = Espera'
      /\ Ordenada(Chaves, fila, Len(fila))'
  BY <1>1, <1>2, <1>3, <1>4, AgingOrdena
<1>6. /\ fila[1] \in Entradas /\ pedindo' = fila[1] /\ missoes' = missoes
      /\ missoes \subseteq Entradas \ Espera
  BY <1>1 DEF Despachar, Espera, FilaIInv, TypeOK
<1>7. /\ pedindo' \in Entradas \cup {Nenhuma} /\ pedindo' \notin Espera'
      /\ missoes' \subseteq Entradas \ (Espera' \cup {pedindo'})
  BY <1>1, <1>5, <1>6 DEF S
<1> QED
  BY <1>1, <1>5, <1>6, <1>7 DEF FilaIInv, TypeOK

LEMMA PerderDisputaFilaIInv ==
  ASSUME FilaIInv, PerderDisputa
  PROVE  FilaIInv' /\ Envelhecer
<1>1. /\ prio' = Aging(Espera) /\ UNCHANGED ts /\ servidas' = servidas
      /\ fila' = Organizar(fila, Chaves') /\ UNCHANGED <<pedindo, missoes>>
  BY DEF PerderDisputa, Envelhecer
<1>2. EsperaTypeOK /\ Len(fila) \in Nat /\ fila \in Filas(Len(fila), Espera)
  BY FilaForma DEF FilaIInv, TypeOK
<1>3. /\ EsperaTypeOK' /\ Espera' = Espera
      /\ fila' \in Seq(Entradas) /\ IsInjective(fila') /\ Range(fila') = Espera'
      /\ Ordenada(Chaves, fila, Len(fila))'
  BY <1>1, <1>2, AgingOrdena DEF EsperaTypeOK
<1> QED
  BY <1>1, <1>3 DEF FilaIInv, TypeOK, PerderDisputa

(* What does not touch the queue.                                          *)
LEMMA ForaDaFilaIInv ==
  ASSUME FilaIInv, UNCHANGED <<esperaVars, fila>>,
         pedindo' \in Entradas \cup {Nenhuma}, pedindo' \notin Espera,
         missoes' \subseteq Entradas \ (Espera \cup {pedindo'})
  PROVE  FilaIInv'
<1>1. Espera' = Espera /\ Chaves' = Chaves /\ EsperaTypeOK'
  BY DEF esperaVars, Espera, Chaves, EsperaTypeOK, FilaIInv, TypeOK
<1> QED
  BY <1>1 DEF FilaIInv, TypeOK

LEMMA FilaPasso ==
  ASSUME FilaIInv, [Next]_vars
  PROVE  FilaIInv' /\ [EsperaNext]_esperaVars
<1>1. CASE UNCHANGED vars
  <2>1. UNCHANGED <<esperaVars, fila, pedindo, missoes>>
    BY <1>1 DEF vars
  <2> QED
    BY <2>1, ForaDaFilaIInv DEF FilaIInv, TypeOK
<1>2. CASE \E o \in Entradas, p \in 1..Critico, t \in Instantes : Chegar(o, p, t)
  BY <1>2, ChegarFilaIInv DEF EsperaNext
<1>3. CASE \E o \in Entradas : Recolocar(o)
  BY <1>3, RecolocarFilaIInv DEF EsperaNext
<1>4. CASE \E o \in Entradas : Concluir(o)
  <2>1. /\ UNCHANGED <<esperaVars, fila>> /\ pedindo' = pedindo
        /\ missoes' \subseteq missoes
    BY <1>4 DEF Concluir
  <2> QED
    BY <2>1, ForaDaFilaIInv DEF FilaIInv, TypeOK
<1>5. CASE \E t \in Instantes : SemDrone(t)
  BY <1>5, SemDroneFilaIInv DEF EsperaNext
<1>6. CASE Despachar
  BY <1>6, DespacharFilaIInv DEF EsperaNext
<1>7. CASE PerderDisputa
  BY <1>7, PerderDisputaFilaIInv DEF EsperaNext
<1>8. CASE ComDrone
  <2>1. /\ UNCHANGED <<esperaVars, fila>> /\ pedindo' = Nenhuma
        /\ missoes' = missoes \cup {pedindo} /\ pedindo \in Entradas
    BY <1>8 DEF ComDrone, EmCurso, FilaIInv, TypeOK
  <2>2. /\ pedindo' \notin Espera
        /\ missoes' \subseteq Entradas \ (Espera \cup {pedindo'})
    BY <2>1, EntradasAssumption DEF FilaIInv, TypeOK, Espera
  <2> QED
    BY <2>1, <2>2, ForaDaFilaIInv
<1> QED
  BY <1>1, <1>2, <1>3, <1>4, <1>5, <1>6, <1>7, <1>8 DEF Next

LEMMA FilaComeca == Init => FilaIInv /\ EsperaInit
<1> SUFFICES ASSUME Init PROVE FilaIInv /\ EsperaInit
  OBVIOUS
<1>1. EsperaInit /\ fila = <<>> /\ pedindo = Nenhuma /\ missoes = {}
  BY DEF Init
<1>2. EsperaTypeOK /\ Espera = {}
  BY <1>1 DEF EsperaInit, EsperaTypeOK, Espera
<1>3. fila \in Seq(Entradas) /\ Len(fila) = 0 /\ DOMAIN fila = {}
  BY <1>1, EmptySeq
<1>4. IsInjective(fila) /\ Range(fila) = {}
  BY <1>3 DEF IsInjective, Range
<1>5. Ordenada(Chaves, fila, Len(fila))
  BY <1>3 DEF Ordenada
<1> QED
  BY <1>1, <1>2, <1>3, <1>4, <1>5 DEF FilaIInv, TypeOK

LEMMA FilaSpecIInv == Spec => []FilaIInv
<1>1. Init => FilaIInv
  BY FilaComeca
<1>2. FilaIInv /\ [Next]_vars => FilaIInv'
  BY FilaPasso
<1> QED
  BY <1>1, <1>2, PTL DEF Spec

-----------------------------------------------------------------------------
(* The array of FilaComAging holds each occurrence that waits, once, and   *)
(* none of those being asked for or on a mission (src/state/state.go).     *)
THEOREM FilaTipos == Spec => []TypeOK
<1>1. FilaIInv => TypeOK
  BY DEF FilaIInv
<1> QED
  BY <1>1, FilaSpecIInv, PTL

(* FilaComAging with its heap is a priority queue with aging: for any      *)
(* occurrences, Push, Pop and AplicarAging in any order, Pop returns one   *)
(* that no other precedes, and loses none (src/state/state.go).            *)
THEOREM HeapServeAMaisUrgente == Spec => ImplementaEspera
<1>1. Init => EsperaInit
  BY FilaComeca
<1>2. FilaIInv /\ [Next]_vars => [EsperaNext]_esperaVars
  BY FilaPasso
<1> QED
  BY <1>1, <1>2, FilaSpecIInv, PTL DEF Spec, ImplementaEspera, EsperaSpec

(* The heap too lets at most Cardinality(Entradas) + 1 others go before an *)
(* occurrence that waits: what AplicarAging is for (src/state/state.go).   *)
THEOREM FilaSemStarvation == Spec => []EsperaLimitada
BY HeapServeAMaisUrgente, SemStarvation, PTL DEF ImplementaEspera

=============================================================================
