------------------------- MODULE MCSessionWriteLock -------------------------
(***************************************************************************)
(* Instances of SessionWriteLock for TLC.                                  *)
(***************************************************************************)
EXTENDS SessionWriteLock, TLC

CONSTANTS p1, p2, p3, c1, c2, c3, c4

FourCallers == {c1, c2, c3, c4}
ThreeProcs == c1 :> p1 @@ c2 :> p1 @@ c3 :> p2 @@ c4 :> p3

TwoCallers == {c1, c3}
TwoProcs == c1 :> p1 @@ c3 :> p2

=============================================================================
