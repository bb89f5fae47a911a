---------------------------- MODULE MCXdmaEngine ----------------------------
(***************************************************************************)
(* The DMA engine with requests of two or three descriptors, for TLC.     *)
(***************************************************************************)
EXTENDS XdmaEngine

CONSTANTS Small, Large   \* requests of two and of three descriptors

MCRequests == Small \cup Large
MCSize == [r \in MCRequests |-> IF r \in Large THEN 3 ELSE 2]
=============================================================================
