------------------------------- MODULE Livro --------------------------------
(***************************************************************************)
(* What the replicated ledger promises, whatever the messages, votes and   *)
(* time-outs that bring it about: a broker's chain changes by one block    *)
(* that fits its tip, or is exchanged for a chain that some broker had     *)
(* when it was asked and that wins the fork choice.  Nothing else ever     *)
(* enters a chain, so no answer needs to be believed beyond that.          *)
(*                                                                         *)
(* Consenso implements this specification (ImplementaLivro).               *)
(***************************************************************************)
EXTENDS Ledger

VARIABLES
    livro,      \* the chain of each broker
    ofertas     \* chains that brokers had and that others may still take

vars == <<livro, ofertas>>

Init ==
    /\ livro = [i \in Brokers |-> <<>>]
    /\ ofertas = {}

(* CommitarBloco: an unaltered block on the present tip. *)
Crescer(i) ==
    /\ \E b \in Bloco :
          /\ b.integro
          /\ b.anterior = Ponta(livro[i])
          /\ livro' = [livro EXCEPT ![i] = Append(@, b)]
    /\ UNCHANGED ofertas

(* handleReqChain: the chain as it is now. *)
Oferecer(i) ==
    /\ ofertas' = ofertas \cup {livro[i]}
    /\ UNCHANGED livro

(* SubstituirChain.  Another broker may have been offered the same chain.  *)
Adotar(i) ==
    \E c \in ofertas :
        /\ VenceDisputa(c, livro[i])
        /\ livro' = [livro EXCEPT ![i] = c]
        /\ ofertas' \in {ofertas, ofertas \ {c}}

(* An offer refused, too late or lost. *)
Esquecer ==
    /\ \E c \in ofertas : ofertas' = ofertas \ {c}
    /\ UNCHANGED livro

Next == (\E i \in Brokers : Crescer(i) \/ Oferecer(i) \/ Adotar(i)) \/ Esquecer

Spec == Init /\ [][Next]_vars

=============================================================================
