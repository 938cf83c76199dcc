------------------------------ MODULE MCRelay -------------------------------
(* A relay with two sockets and a file for sources; a sender connects to   *)
(* the first socket and may send one byte.                                 *)
EXTENDS Relay

MCTransports == <<"socket", "socket", "file">>

MCAt == [c \in Conns |-> 1]

MCMaxSent == [c \in Conns |-> 1]
=============================================================================
