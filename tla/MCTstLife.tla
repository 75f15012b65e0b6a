------------------------------ MODULE MCTstLife ------------------------------
(* An instance of TstLife.                                                  *)
EXTENDS TstLife

CONSTANTS n1, n2

MCWorkers == 0..1

MCConns == {n1, n2}

=============================================================================
