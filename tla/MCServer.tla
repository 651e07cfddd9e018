------------------------------ MODULE MCServer ------------------------------
(* One server with two workers.                                            *)
EXTENDS Server

CONSTANTS s1, w1, w2

MCServerOf == [w \in Workers |-> s1]
=============================================================================
