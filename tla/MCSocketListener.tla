-------------------------- MODULE MCSocketListener --------------------------
(* A socket with two connections: one for two lines or one too long, one   *)
(* for one byte.                                                           *)
EXTENDS SocketListener

MCAt == [c \in Conns |-> "s"]

MCMaxSent == [c \in Conns |-> IF c = "c1" THEN 3 ELSE 1]
=============================================================================
