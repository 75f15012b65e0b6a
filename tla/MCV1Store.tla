------------------------------ MODULE MCV1Store ------------------------------
(* Keys for the instance of V1Store.                                        *)
EXTENDS V1Store

\* On both sides of a node and below it; none is the beginning of another.
ThreeKeys == {<<2, 1>>, <<1>>, <<2, 3>>}

=============================================================================
