-------------------------- MODULE MCServingBackend --------------------------
(* The serving backend on small instances: two clients that share one      *)
(* place in the command queue and one command of quota per turn.           *)
EXTENDS ServingBackend
=============================================================================
