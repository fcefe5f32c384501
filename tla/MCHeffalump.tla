---------------------------- MODULE MCHeffalump ----------------------------
(***************************************************************************)
(* Model-checking instance of Heffalump: two responses share the pool, one *)
(* of them may panic, and the pipe is shorter than what a client reads, so *)
(* that writers block on it and unblock by a read or by a cut.             *)
(***************************************************************************)
EXTENDS Heffalump

CONSTANTS s1, s2, b1, b2

MCStreams == {s1, s2}
MCBuffers == {b1, b2}
MCMayPanic == {s2}
=============================================================================
