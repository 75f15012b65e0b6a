----------------------------- MODULE MCV1Server -----------------------------
(* Commands for the instance of V1Server.                                   *)
EXTENDS V1Server

CONSTANTS f1, f2, f3, k1, k2

R(op, k, total) ==
    [op |-> op, key |-> k, head |-> 2, total |-> total, huge |-> FALSE, expires |-> FALSE]

\* Values that fit a buffer with their header and line end, that fit but for
\* the line end, that do not, and whose length is not accepted.
MCRequests ==
    {R("set", k1, 1), R("set", k2, 4), [R("set", k1, 3) EXCEPT !.expires = TRUE],
     [R("set", k1, 1) EXCEPT !.huge = TRUE], R("get", k1, 0), R("delete", k2, 0)}

=============================================================================
