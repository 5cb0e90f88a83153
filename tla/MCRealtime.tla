------------------------------ MODULE MCRealtime ------------------------------
(***************************************************************************)
(* Two sockets of one user on two instances, and a call of two users.      *)
(***************************************************************************)
EXTENDS Realtime, TLC

CONSTANTS s1, s2, i1, i2, c1, c2, u1, u2

MCHome == (s1 :> i1) @@ (s2 :> i2)
MCUserOf == (c1 :> u1) @@ (c2 :> u2)
================================================================================
