----------------------------- MODULE MCTstIndex -----------------------------
(***************************************************************************)
(* Small instances of TstIndex and TstScans: which keys there are decides  *)
(* which shapes the tree takes.                                            *)
(***************************************************************************)
EXTENDS TstScans

\* Three siblings, one of which is also a prefix of a longer key.
BranchKeys == {<<1>>, <<2>>, <<3>>, <<2, 1>>}

\* Branches on two levels, with keys that are prefixes of others.
DeepKeys == {<<2>>, <<2, 1>>, <<2, 2>>, <<2, 3>>, <<1, 1>>, <<3, 2>>}

\* Keys, their prefixes and their extensions.
DeepProbes == DeepKeys \cup {<<1>>, <<3>>, <<2, 2, 1>>, <<4>>}
=============================================================================
