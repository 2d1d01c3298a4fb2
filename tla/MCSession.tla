------------------------------ MODULE MCSession ------------------------------
EXTENDS Session, TLC

CONSTANTS p1, p2, p3, A, B

(* A connects as p1 and, when that is over, as p3.                         *)
Connections == {p1, p2, p3}
AConnects == {p1, p3}
Once == {p1, p2}
Names == p1 :> A @@ p2 :> B @@ p3 :> A
=============================================================================
