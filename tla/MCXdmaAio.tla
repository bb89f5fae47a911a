----------------------------- MODULE MCXdmaAio -----------------------------
(***************************************************************************)
(* The character device with one asynchronous call of two segments and one *)
(* blocking call, for TLC.                                                 *)
(***************************************************************************)
EXTENDS XdmaAio

CONSTANTS Long, Blocking1   \* an iocb, a blocking call
CONSTANTS s1, s2            \* the segments of Long

MCSegments == [i \in Iocbs |-> <<s1, s2>>]
MCSize == [r \in Requests |-> IF r = s1 THEN 1 ELSE 2]
=============================================================================
