----------------------------- MODULE MCStartup -----------------------------
(***************************************************************************)
(* Model-checking instances of Startup: two instances that may start at    *)
(* the same time, with every failure; the operator works on the locations  *)
(* that are searched, or on the one a host without HOME writes.            *)
(***************************************************************************)
EXTENDS Startup

CONSTANTS i1, i2

MCInstances == {i1, i2}
MCEdited == {"etc", "user", "cwd"}
MCEditedNoHome == {"cwd", "dotconfig"}
=============================================================================
