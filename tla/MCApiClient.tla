---------------------------- MODULE MCApiClient ----------------------------
(* A placement, a cancel and a close, each with one retry.                  *)
EXTENDS ApiClient

CONSTANTS p1, c1, x1
P == {p1}
C == {c1}
X == {x1}
Ds == <<1>>
=============================================================================
