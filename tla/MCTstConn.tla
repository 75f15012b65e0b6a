------------------------------ MODULE MCTstConn ------------------------------
(***************************************************************************)
(* Small instances of TstConn: what clients send.                          *)
(***************************************************************************)
EXTENDS TstConn

CONSTANTS f1, f2        \* the descriptors

Cmd(w, q, h, b, n, r) ==
    [write |-> w, quit |-> q, head |-> h, body |-> b, nl |-> n, reply |-> r]

\* A set whose body is a line break, and one with an empty body.
Set      == Cmd(TRUE, FALSE, 1, 1, 1, 1)
SetEmpty == Cmd(TRUE, FALSE, 1, 0, 0, 1)

\* A get with a reply longer than a buffer.
Get      == Cmd(FALSE, FALSE, 1, 0, 0, 4)

Quit     == Cmd(FALSE, TRUE, 1, 0, 0, 0)

Sets     == {Set}
AllKinds == {Set, SetEmpty, Get, Quit}
==============================================================================
