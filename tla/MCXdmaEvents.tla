---------------------------- MODULE MCXdmaEvents ----------------------------
(***************************************************************************)
(* Two readers of one event file and one of another, for TLC.             *)
(***************************************************************************)
EXTENDS XdmaEvents, TLC

CONSTANTS u1, u2, h2c, c2h, p1, p2, p3

MCLine == (p1 :> u1) @@ (p2 :> u1) @@ (p3 :> u2)
=============================================================================
