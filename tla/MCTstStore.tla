----------------------------- MODULE MCTstStore -----------------------------
(***************************************************************************)
(* Small instances of TstStore.  Each operator below is one kind of client *)
(* traffic; a .cfg picks one as Requests.                                  *)
(***************************************************************************)
EXTENDS TstStore, TLC

CONSTANTS k1, k2,       \* the keys
          w1, w2        \* the workers

Cmd(o, ks, v, e, s) == [op |-> o, keys |-> ks, val |-> v, exp |-> e, sign |-> s]

Set(k, e)       == Cmd("set", <<k>>, 1, e, 0)
Get(ks)         == Cmd("get", ks, 0, 0, 0)
Scan(k)         == Cmd("prefix", <<k>>, 0, 0, 0)
Delete(k)       == Cmd("delete", <<k>>, 0, 0, 0)
Cas(k, e, s)    == Cmd("cas", <<k>>, 2, e, s)
Incr(k)         == Cmd("incr", <<k>>, 1, 0, 0)
Decr(k)         == Cmd("decr", <<k>>, 2, 0, 0)

\* Values and deletions only, for the recovery of the files.
FileTraffic == {Set(k1, 0), Set(k2, 0), Delete(k1)}

\* The commands that read, decide and write.
SignTraffic ==
    {Set(k1, 0), Incr(k1), Decr(k1), Delete(k1)} \cup {Cas(k1, 0, s) : s \in 0..2}

\* And the commands that only read, with a value that expires.
LiveTraffic == SignTraffic \cup {Cas(k1, 2, 0), Get(<<k1>>), Scan(k1)}

\* A value that expires is replaced by one that does not.
ExpiryTraffic == {Set(k1, 0), Set(k1, 1), Get(<<k1>>)}

Symmetry == Permutations(Workers)
=============================================================================
