--------------------------- MODULE MCConfigLayers ---------------------------
(***************************************************************************)
(* Model-checking instance of ConfigLayers: files and environments that    *)
(* set the same and different keys, good and bad lists and permissions, a  *)
(* whole section, and the written default, in any order of calls with any  *)
(* options.  The platform is the one whose default is the exception.       *)
(***************************************************************************)
EXTENDS ConfigLayers

MCFiles == {
  <<>>,
  Unparsable,
  DefaultConfigTOML,
  [bind_addr |-> "file", paths |-> "file list", debug |-> "false",
   max_workers |-> "7", restrict_concurrency |-> "true"],
  [use_unix_socket |-> "true", unix_socket_permissions |-> "0660",
   trusted_proxies |-> "file list", docker_logging |-> "true"],
  [trusted_proxies |-> "bad list", trace |-> "true"],
  [use_unix_socket |-> "true", unix_socket_permissions |-> "rw"]}

MCEnvironments == {
  <<>>,
  [bind_addr |-> "env", debug |-> "false", directory |-> "env"],
  [use_unix_socket |-> "true", unix_socket_path |-> "env", router |-> "env text"],
  [max_workers |-> "9", trace |-> "true", nocolor |-> "true",
   use_unix_socket |-> "false"],
  [paths |-> "env text", trusted_proxies |-> "env text",
   unix_socket_permissions |-> "0600", logger |-> "env text"]}
=============================================================================
