----------------------------- MODULE DurableMap -----------------------------
(***************************************************************************)
(* What the persistent side of tstdb promises, whatever the interleaving   *)
(* of workers, crashes and restarts: a map from keys to signs.             *)
(*                                                                         *)
(* A sign is the position of a value's record in the append-only data      *)
(* file (0 is "no value").  The map changes one key at a time, a sign      *)
(* enters the map at most once, and the last sign handed out is the only   *)
(* one that may enter it, so a sign seen twice names the same value and a  *)
(* compare-and-swap on signs is free of the ABA problem.  A crash changes  *)
(* no binding: at most it wastes a sign.                                   *)
(***************************************************************************)
EXTENDS Naturals

CONSTANT Keys           \* the keys the map is defined over

VARIABLES m,            \* [Keys -> Nat], the sign each key is bound to
          top,          \* the last sign handed out
          open          \* whether top may still enter the map

vars == <<m, top, open>>

TypeOK ==
    /\ m \in [Keys -> Nat]
    /\ top \in Nat
    /\ open \in BOOLEAN

Init ==
    /\ m = [k \in Keys |-> 0]
    /\ top = 0
    /\ open = FALSE

\* A writer appends a value record and so takes the next sign.
Reserve ==
    /\ ~open
    /\ top' = top + 1
    /\ open' = TRUE
    /\ UNCHANGED m

\* The reserved sign becomes the binding of one key.
Publish(k) ==
    /\ open
    /\ m' = [m EXCEPT ![k] = top]
    /\ open' = FALSE
    /\ UNCHANGED top

\* A binding is removed.  Removing a key that has none is allowed: two
\* workers may both find the same record expired.
Remove(k) ==
    /\ ~open
    /\ m' = [m EXCEPT ![k] = 0]
    /\ UNCHANGED <<top, open>>

\* A crash gives up the reserved sign, or leaves a half-written record whose
\* sign no one will ever use.
Lose ==
    /\ open' = FALSE
    /\ top' \in IF open THEN {top} ELSE {top, top + 1}
    /\ UNCHANGED m

Next ==
    \/ Reserve
    \/ Lose
    \/ \E k \in Keys : Publish(k) \/ Remove(k)

Spec == Init /\ [][Next]_vars
=============================================================================
