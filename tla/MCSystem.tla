------------------------------ MODULE MCSystem ------------------------------
(***************************************************************************)
(* Model-checking instance of System: two connections, one of which may   *)
(* stream, through a pipe that blocks its writer, in a process that may be *)
(* told to stop at any time; and a second process told to listen on the    *)
(* same path.                                                              *)
(***************************************************************************)
EXTENDS System

CONSTANTS c1, c2, b1, p1, p2, owner, proxy, stranger

MCConns == {c1, c2}
MCStreaming == {c1}
MCBuffers == {b1}
MCProcs == {p1, p2}
MCUsers == {owner, proxy, stranger}
MCPermitted == {owner, proxy}
=============================================================================
