------------------------------- MODULE MCScope -------------------------------
(* Two windows of one app and one of another.                               *)
EXTENDS ScopeListener

CONSTANTS w1, w2, w3, a, b

MCAppAtStart == w1 :> a @@ w2 :> b @@ w3 :> a
=============================================================================
