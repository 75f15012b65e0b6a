----------------------------- MODULE MCTstFaults -----------------------------
(* A small instance of TstFaults: two keys, written, deleted and read.     *)
EXTENDS TstFaults, TLC

CONSTANTS k1, k2,       \* the keys
          w1, w2        \* the workers

Cmd(o, ks, e) == [op |-> o, keys |-> ks, val |-> 1, exp |-> e, sign |-> 0]

FaultTraffic ==
    {Cmd("set", <<k1>>, 0), Cmd("set", <<k1>>, 1), Cmd("set", <<k2>>, 0),
     Cmd("get", <<k1, k2>>, 0), Cmd("prefix", <<k1>>, 0), Cmd("delete", <<k1>>, 0)}

Symmetry == Permutations(Workers)
=============================================================================
