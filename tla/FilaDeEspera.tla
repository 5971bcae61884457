---------------------------- MODULE FilaDeEspera ----------------------------
(***************************************************************************)
(* What the queue of occurrences promises (src/state/state.go), without    *)
(* the heap: the most urgent entry is served, those left behind become     *)
(* more urgent, and a new entry has priority 1, 2 or 3.                    *)
(***************************************************************************)
EXTENDS Integers, FiniteSets

CONSTANTS
    Entradas,     \* the *Ocorrencia the queue may point at
    Instantes     \* time stamps

ASSUME FilaAssumption == IsFiniteSet(Entradas) /\ Instantes \subseteq Int

Critico == 3      \* the highest priority of a new entry

VARIABLES
    prio,         \* Prioridade of what waits; 0 for what does not
    ts,           \* Timestamp
    servidas      \* history: entries served while this one waited

esperaVars == <<prio, ts, servidas>>

EsperaTypeOK ==
    /\ prio \in [Entradas -> Nat]
    /\ ts \in [Entradas -> Instantes]
    /\ servidas \in [Entradas -> Nat]

Espera == {o \in Entradas : prio[o] > 0}

(* Less: the larger priority first, then the older time stamp. *)
Chaves == [o \in Entradas |-> [prio |-> prio[o], ts |-> ts[o]]]
Antes(c, x, y) == c[x].prio > c[y].prio \/ (c[x].prio = c[y].prio /\ c[x].ts < c[y].ts)

SemAging(quem) == [o \in Entradas |-> IF o \in quem THEN prio[o] ELSE 0]    \* a mutant of Aging

(* Prioridade++ for everybody who is left in the queue. *)
Aging(quem) == [o \in Entradas |-> IF o \in quem THEN prio[o] + 1 ELSE 0]

EsperaInit ==
    /\ prio = [o \in Entradas |-> 0]
    /\ ts \in [Entradas -> Instantes]
    /\ servidas = [o \in Entradas |-> 0]

Entrar(o, p, t) ==
    /\ o \notin Espera
    /\ prio' = [prio EXCEPT ![o] = p]
    /\ ts' = [ts EXCEPT ![o] = t]
    /\ servidas' = [servidas EXCEPT ![o] = 0]

(* o is served: the others age. *)
Servir(o) ==
    /\ prio' = Aging(Espera \ {o})
    /\ servidas' = [x \in Entradas |-> IF x \in Espera \ {o} THEN servidas[x] + 1 ELSE 0]
    /\ UNCHANGED ts

Sair(o) ==
    /\ o \in Espera
    /\ \A x \in Espera : ~ Antes(Chaves, x, o)
    /\ Servir(o)

Envelhecer ==
    /\ prio' = Aging(Espera)
    /\ UNCHANGED <<ts, servidas>>

EsperaNext ==
    \/ \E o \in Entradas : Sair(o) \/ \E p \in 1..Critico, t \in Instantes : Entrar(o, p, t)
    \/ Envelhecer

EsperaSpec == EsperaInit /\ [][EsperaNext]_esperaVars

-----------------------------------------------------------------------------
(* Aging "prevenindo starvation de ocorrências de baixa prioridade": while *)
(* an occurrence waits, a bounded number of others is served, although     *)
(* occurrences keep arriving and those given back are critical and old.    *)
EsperaLimitada ==
    \A o \in Espera : servidas[o] <= Cardinality(Entradas) + Critico - 2

=============================================================================
