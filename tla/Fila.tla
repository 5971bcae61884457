-------------------------------- MODULE Fila --------------------------------
(***************************************************************************)
(* FilaComAging (src/state/state.go) as a broker uses it: the heap of Go's *)
(* container/heap in its array, pushes of new and of returned occurrences, *)
(* and the aging after every Pop and after every request lost to a rival.  *)
(***************************************************************************)
EXTENDS FilaDeEspera, Sequences, Functions

CONSTANT Teto     \* bound: no aging by a rival's request above this priority

VARIABLES
    fila,         \* FilaComAging.fila, the array of the heap
    pedindo,      \* the occurrence of currentReqOc, if any
    missoes       \* occurrences on their way to a drone or with one

vars == <<esperaVars, fila, pedindo, missoes>>

ASSUME TetoAssumption == Teto \in Nat

Nenhuma == "nenhuma"

ASSUME EntradasAssumption == Nenhuma \notin Entradas

TypeOK ==
    /\ EsperaTypeOK
    /\ fila \in Seq(Entradas)
    /\ IsInjective(fila)
    /\ Range(fila) = Espera
    /\ pedindo \in Entradas \cup {Nenhuma}
    /\ missoes \subseteq Entradas \ (Espera \cup {pedindo})

Init ==
    /\ EsperaInit
    /\ fila = <<>>
    /\ pedindo = Nenhuma
    /\ missoes = {}

-----------------------------------------------------------------------------
(* container/heap, from 1: the children of k are 2k and 2k + 1, and c are  *)
(* the keys that Less compares when it is called.  A loop is a function of *)
(* the array and the position it has come to.                              *)
Arranjos(n) == [1..n -> Entradas]

Trocar(h, i, j) == [h EXCEPT ![i] = h[j], ![j] = h[i]]

Subir(h, c, k) ==
    LET s[x \in Arranjos(Len(h)) \X (1..Len(h))] ==
            LET g == x[1]  i == x[2] IN
            IF i = 1 \/ ~ Antes(c, g[i], g[i \div 2]) THEN g
            ELSE s[<<Trocar(g, i, i \div 2), i \div 2>>]
    IN  s[<<h, k>>]

FilhoEsquerdo(h, c, k, n) == 2 * k      \* a mutant of FilhoUrgente

(* The more urgent of the children of k within the first n. *)
FilhoUrgente(h, c, k, n) ==
    IF 2 * k < n /\ Antes(c, h[2 * k + 1], h[2 * k]) THEN 2 * k + 1 ELSE 2 * k

Descer(h, c, k, n) ==
    LET d[x \in Arranjos(Len(h)) \X (1..Len(h))] ==
            LET g == x[1]  i == x[2]  f == FilhoUrgente(g, c, i, n) IN
            IF 2 * i > n \/ ~ Antes(c, g[f], g[i]) THEN g ELSE d[<<Trocar(g, i, f), f>>]
    IN  d[<<h, k>>]

(* heap.Init: the parents, from the last to the first. *)
Organizar(h, c) ==
    LET o[x \in Arranjos(Len(h)) \X (0..Len(h))] ==
            LET g == x[1]  i == x[2] IN
            IF i = 0 THEN g ELSE o[<<Descer(g, c, i, Len(h)), i - 1>>]
    IN  o[<<h, Len(h) \div 2>>]

HeapPush(h, c, o) == Subir(Append(h, o), c, Len(h) + 1)

SemRetirar(h, c) == Descer(Trocar(h, 1, Len(h)), c, 1, Len(h) - 1)   \* a mutant of SemTopo

(* heap.Pop: what it leaves behind; it returns what was the first. *)
SemTopo(h, c) ==
    LET n == Len(h) - 1 IN
    SubSeq(Descer(Trocar(h, 1, Len(h)), c, 1, n), 1, n)

-----------------------------------------------------------------------------
(* FilaComAging.Push, of an occurrence with these fields. *)
Push(o, p, t) ==
    /\ Entrar(o, p, t)
    /\ fila' = HeapPush(fila, Chaves', o)

EmCurso == missoes \cup {pedindo}

(* handleOcorrencia: a new occurrence, stamped by whoever sends it.        *)
Chegar(o, p, t) ==
    /\ o \notin EmCurso
    /\ Push(o, p, t)
    /\ UNCHANGED <<pedindo, missoes>>

(* tentarDespachar: FilaComAging.Pop, which ages the others, and a request *)
(* for the critical section.                                               *)
Despachar ==
    /\ fila # <<>>
    /\ pedindo = Nenhuma
    /\ pedindo' = fila[1]
    /\ Servir(fila[1])
    /\ fila' = Organizar(SemTopo(fila, Chaves), Chaves')
    /\ UNCHANGED missoes

(* handleRARequest, for a rival that wins: AplicarAging. *)
PerderDisputa ==
    /\ pedindo # Nenhuma
    /\ fila # <<>>
    /\ \A o \in Espera : prio[o] < Teto
    /\ Envelhecer
    /\ fila' = Organizar(fila, Chaves')
    /\ UNCHANGED <<pedindo, missoes>>

(* despacharDrone, with a drone or without one.  In the second case the    *)
(* occurrence returns to the queue; one that monitorarPeers has rebuilt    *)
(* has the time stamp of the request.                                      *)
ComDrone ==
    /\ pedindo # Nenhuma
    /\ missoes' = EmCurso
    /\ pedindo' = Nenhuma
    /\ UNCHANGED <<esperaVars, fila>>

SemDrone(t) ==
    /\ pedindo # Nenhuma
    /\ Push(pedindo, Critico, t)
    /\ pedindo' = Nenhuma
    /\ UNCHANGED missoes

(* recolocarOcorrenciaNaFila and monitorarMempool: back to the queue with  *)
(* the time stamp it had.                                                  *)
Recolocar(o) ==
    /\ o \in missoes
    /\ Push(o, Critico, ts[o])
    /\ missoes' = missoes \ {o}
    /\ UNCHANGED pedindo

(* The mission is over. *)
Concluir(o) ==
    /\ o \in missoes
    /\ missoes' = missoes \ {o}
    /\ UNCHANGED <<esperaVars, fila, pedindo>>

Next ==
    \/ \E o \in Entradas :
          \/ \E p \in 1..Critico, t \in Instantes : Chegar(o, p, t)
          \/ Recolocar(o)
          \/ Concluir(o)
    \/ \E t \in Instantes : SemDrone(t)
    \/ Despachar
    \/ PerderDisputa
    \/ ComDrone

Spec == Init /\ [][Next]_vars

-----------------------------------------------------------------------------
(* The heap serves in the order Less promises: whatever was pushed and     *)
(* aged, no Pop returns an occurrence that another one precedes, and none  *)
(* is lost or served twice.                                                *)
ImplementaEspera == EsperaSpec

=============================================================================
