------------------------------- MODULE MCDrone ------------------------------
(***************************************************************************)
(* Instances of Drone for TLC.  Brokers are interchangeable.               *)
(***************************************************************************)
EXTENDS Drone, TLC

Simetria == Permutations(Brokers)

=============================================================================
