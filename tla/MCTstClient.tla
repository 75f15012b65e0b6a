----------------------------- MODULE MCTstClient -----------------------------
(* Client traffic for instances of TstClient.                               *)
EXTENDS TstClient, TLC

CONSTANTS c1, c2, k1, k2

On(op, k) == [op |-> op, keys |-> <<k>>, big |-> {}]
Multiple(op, big) == [op |-> op, keys |-> <<k1, k2>>, big |-> big]

\* One client fetches, compares and swaps (without an id that is a set), and
\* sets two keys at once, one of them to a value that is not sent; the other one
\* counts, deletes and reads, and sets a value that is not sent.
MCCalls ==
    (c1 :> {On("gets", k1), On("cas", k1), Multiple("set_multi", {k1}),
            On("disconnect_all", k1)})
 @@ (c2 :> {On("incr", k1), On("delete", k1), On("get", k1),
            [On("set", k1) EXCEPT !.big = {k1}]})

=============================================================================
