---------------------------- MODULE ConfigLayers ----------------------------
(***************************************************************************)
(* What internal/config.Init makes of its inputs: the defaults, the file,  *)
(* the environment and the command line, laid over one another and copied  *)
(* into exported variables, once per call of Init or GenerateConfig in one *)
(* process; and what StartLogger and getSrv take from them.             *)
(*                                                                         *)
(* A key goes by the last part of its name.  A value is a name: a list of  *)
(* the file and a text of the environment are different values even for    *)
(* the same key, and a variable of the environment is always a text.  A    *)
(* layer may also give a value to a section of keys, which takes the place *)
(* of them all.                                                            *)
(***************************************************************************)
CONSTANTS
  Windows,      (* runtime.GOOS *)
  Files,        (* the files Init may load: partial functions on Name *)
  Environments, (* the environments it may run in, likewise *)
  Unparsable    (* stands for a file that is missing or no TOML *)

Router == {"catchall", "makerobots", "paths"}
Http == Router \cup
  {"use_unix_socket", "unix_socket_path", "unix_socket_permissions", "bind_addr",
   "bind_port", "real_ip_header", "trusted_proxies", "uagent_string_blacklist"}
Logger == {"debug", "trace", "directory", "nocolor", "use_date_filename",
           "docker_logging", "console_time_format"}
Performance == {"restrict_concurrency", "max_workers"}

Key == Http \cup Logger \cup Performance \cup {"server_name"}

(* configSections, and the one that is nested. *)
Within == [http |-> Http, router |-> Router, logger |-> Logger,
           performance |-> Performance, deception |-> {"server_name"}]

Name == Key \cup DOMAIN Within

Lists == {"paths", "uagent_string_blacklist", "trusted_proxies"}
Ints  == {"max_workers"}
Bools == {"restrict_concurrency", "use_unix_socket", "debug", "trace", "nocolor",
          "docker_logging", "makerobots", "catchall"}

(* Keys processOpts exports.  The others are read where they are used.     *)
ReadLater == {"unix_socket_path", "unix_socket_permissions", "use_date_filename"}
Exported == Key \ ReadLater

OnOff(b) == IF b THEN "true" ELSE "false"

Defaults ==
  [debug |-> "true", trace |-> "false", directory |-> "",
   nocolor |-> OnOff(Windows), use_date_filename |-> "true",
   docker_logging |-> "false", console_time_format |-> "3:04PM",
   use_unix_socket |-> "false", unix_socket_path |-> "/var/run/hellpot",
   unix_socket_permissions |-> "0600", bind_addr |-> "127.0.0.1",
   bind_port |-> "8080", real_ip_header |-> "X-Real-IP",
   trusted_proxies |-> "empty list", catchall |-> "false",
   makerobots |-> "true", paths |-> "wp-login list",
   uagent_string_blacklist |-> "Cloudflare list",
   restrict_concurrency |-> "false", max_workers |-> "256",
   server_name |-> "nginx"]

(* Mutant: {{NOCOLOR}} is replaced by false on every platform. *)
DefaultConfigTOMLOnePlatform ==
  [server_name |-> "nginx",
   bind_addr |-> "127.0.0.1", bind_port |-> "8080",
   real_ip_header |-> "X-Real-IP", trusted_proxies |-> "empty list",
   uagent_string_blacklist |-> "Cloudflare list",
   use_unix_socket |-> "false", unix_socket_path |-> "/var/run/hellpot",
   unix_socket_permissions |-> "0600",
   catchall |-> "false", makerobots |-> "true", paths |-> "wp-login list",
   debug |-> "true", trace |-> "false", directory |-> "",
   nocolor |-> "false", use_date_filename |-> "true",
   docker_logging |-> "false", console_time_format |-> "3:04PM",
   restrict_concurrency |-> "false", max_workers |-> "256"]

(* The file writeDefaultConfig writes, from a text of its own. *)
DefaultConfigTOML ==
  [server_name |-> "nginx",
   bind_addr |-> "127.0.0.1", bind_port |-> "8080",
   real_ip_header |-> "X-Real-IP", trusted_proxies |-> "empty list",
   uagent_string_blacklist |-> "Cloudflare list",
   use_unix_socket |-> "false", unix_socket_path |-> "/var/run/hellpot",
   unix_socket_permissions |-> "0600",
   catchall |-> "false", makerobots |-> "true", paths |-> "wp-login list",
   debug |-> "true", trace |-> "false", directory |-> "",
   nocolor |-> OnOff(Windows), use_date_filename |-> "true",
   docker_logging |-> "false", console_time_format |-> "3:04PM",
   restrict_concurrency |-> "false", max_workers |-> "256"]

ListValues == {"wp-login list", "Cloudflare list", "empty list", "file list", "bad list"}
IntValues  == {"0", "256", "7", "9", "262144"}
BoolValues == {"true", "false"}
OctalValues == {"0600", "0660"}

(* fasthttp's, 256 * 1024. *)
DefaultConcurrency == "262144"

ASSUME ConfigAssumption ==
  /\ Windows \in BOOLEAN
  /\ \A l \in (Files \ {Unparsable}) \cup Environments :
       /\ DOMAIN l \subseteq Name
       /\ \A x \in DOMAIN l \cap DOMAIN Within : DOMAIN l \cap Within[x] = {}
  /\ \A e \in Environments : \A k \in DOMAIN e : e[k] \notin ListValues

(* The command line: --debug, --trace, --nocolor. *)
Options == [debug : BOOLEAN, trace : BOOLEAN, nocolor : BOOLEAN]

VARIABLES
  pc,       (* between calls "idle", "ready", "failed" or "serving", else the next step *)
  inputs,   (* of the call: its file, environment and options *)
  snek,     (* the key store: a partial function on Name *)
  exported, (* the exported variables of the keys *)
  proxies,  (* TrustedProxies *)
  perms,    (* UnixSocketPermissions *)
  level,    (* zerolog's global level *)
  logs,     (* where the logger writes, and whether its file name is dated *)
  workers   (* the server's Concurrency *)

configVars == <<snek, exported, proxies, perms, level>>
vars == <<pc, inputs, configVars, logs, workers>>

-----------------------------------------------------------------------------
(* Mutant: a value is exported as it stands in the store. *)
ConvertNothing(k, v) == v

(* koanf's String, Strings, Int and Bool: a value of the wrong kind gives  *)
(* the zero value of the kind, and so does a key that is not there.        *)
Convert(k, v) ==
  CASE k \in Lists -> IF v \in ListValues THEN v ELSE "empty list"
    [] k \in Ints  -> IF v \in IntValues THEN v ELSE "0"
    [] k \in Bools -> IF v \in BoolValues THEN v ELSE "false"
    [] OTHER -> v

Absent == ""
ValueIn(layer, k) == IF k \in DOMAIN layer THEN layer[k] ELSE Absent

(* koanf's Load: a layer's values replace those of the same name; that of  *)
(* a section replaces its keys.                                            *)
Overlay(layer, below) ==
  LET gone == UNION {Within[x] : x \in DOMAIN layer \cap DOMAIN Within} IN
  [k \in DOMAIN layer \cup (DOMAIN below \ gone) |->
     IF k \in DOMAIN layer THEN layer[k] ELSE below[k]]

ZeroValue ==
  [k \in Exported \cup {"unix_socket_path"} |->
     CASE k \in Lists -> "empty list"
       [] k \in Ints  -> "0"
       [] k \in Bools -> "false"
       [] OTHER -> ""]

Init ==
  /\ pc = "idle"
  /\ inputs = [file |-> <<>>, env |-> <<>>,
               opts |-> [debug |-> FALSE, trace |-> FALSE, nocolor |-> FALSE]]
  /\ snek = <<>>
  /\ exported = ZeroValue
  /\ proxies = "empty list"
  /\ perms = "0"
  /\ level = "info"
  /\ logs = [to |-> "none", dated |-> FALSE]
  /\ workers = "none"

(* Mutant: the exported variables of the last call are left alone. *)
ResetStateKeepsExported ==
  /\ snek' = Defaults
  /\ proxies' = "empty list"
  /\ perms' = "0"
  /\ level' = "info"
  /\ UNCHANGED exported

(* Every exported variable is cleared, but not logDir, logger.go:19. *)
Cleared == [ZeroValue EXCEPT !["directory"] = exported["directory"]]

(* resetState, first thing in Init and in GenerateConfig, then setDefaults. *)
ResetState ==
  /\ snek' = Defaults
  /\ exported' = Cleared
  /\ proxies' = "empty list"
  /\ perms' = "0"
  /\ level' = "info"

CallInit(file, env, opts) ==
  /\ pc \in {"idle", "ready", "failed", "serving"}
  /\ inputs' = [file |-> file, env |-> env, opts |-> opts]
  /\ ResetState
  /\ pc' = "file"
  /\ UNCHANGED <<logs, workers>>

CallGenerateConfig(opts) ==
  /\ pc \in {"idle", "ready", "failed", "serving"}
  /\ inputs' = [inputs EXCEPT !.opts = opts]
  /\ ResetState
  /\ pc' = "idle"
  /\ UNCHANGED <<logs, workers>>

(* snek.Load(file.Provider(...)) *)
LoadFile ==
  /\ pc = "file"
  /\ IF inputs.file = Unparsable
     THEN pc' = "failed" /\ UNCHANGED snek
     ELSE pc' = "env" /\ snek' = Overlay(inputs.file, snek)
  /\ UNCHANGED <<inputs, exported, proxies, perms, level, logs, workers>>

(* snek.Load(env.Provider(...)) and processOpts. *)
LoadEnv ==
  /\ pc = "env"
  /\ LET all == Overlay(inputs.env, snek) IN
       /\ snek' = all
       /\ exported' = [k \in DOMAIN exported |->
                         IF k \in Exported THEN Convert(k, ValueIn(all, k)) ELSE exported[k]]
  /\ pc' = "proxies"
  /\ UNCHANGED <<inputs, proxies, perms, level, logs, workers>>

(* Every trusted_proxies entry must be a prefix; then the --nocolor force. *)
ParseProxies ==
  /\ pc = "proxies"
  /\ IF exported["trusted_proxies"] = "bad list"
     THEN pc' = "failed" /\ UNCHANGED <<proxies, exported>>
     ELSE /\ pc' = "socket"
          /\ proxies' = exported["trusted_proxies"]
          /\ exported' = IF inputs.opts.nocolor
                         THEN [exported EXCEPT !["nocolor"] = "true"] ELSE exported
  /\ UNCHANGED <<inputs, snek, perms, level, logs, workers>>

(* if UseUnixSocket: the path, and permissions that must be octal. *)
UnixSocket ==
  /\ pc = "socket"
  /\ \/ /\ exported["use_unix_socket"] = "false"
        /\ pc' = "level"
        /\ UNCHANGED <<exported, perms>>
     \/ /\ exported["use_unix_socket"] = "true"
        /\ exported' = [exported EXCEPT !["unix_socket_path"] = ValueIn(snek, "unix_socket_path")]
        /\ IF ValueIn(snek, "unix_socket_permissions") \in OctalValues
           THEN pc' = "level" /\ perms' = ValueIn(snek, "unix_socket_permissions")
           ELSE pc' = "failed" /\ UNCHANGED perms
  /\ UNCHANGED <<inputs, snek, proxies, level, logs, workers>>

(* if Debug || forceDebug, then if Trace || forceTrace. *)
SetLevel ==
  /\ pc = "level"
  /\ LET debug == exported["debug"] = "true" \/ inputs.opts.debug
         trace == exported["trace"] = "true" \/ inputs.opts.trace
     IN /\ level' = IF trace THEN "trace" ELSE IF debug THEN "debug" ELSE level
        /\ exported' = [exported EXCEPT
                          !["debug"] = IF debug THEN "true" ELSE @,
                          !["trace"] = IF trace THEN "true" ELSE @]
  /\ pc' = "ready"
  /\ UNCHANGED <<inputs, snek, proxies, perms, logs, workers>>

(* In run: DockerLogging means stdout and NoColor; else StartLogger opens  *)
(* a file, in a directory of its own if none is given.                     *)
StartLogger ==
  /\ pc = "ready"
  /\ LET docker == exported["docker_logging"] = "true" IN
       /\ exported' = IF docker THEN [exported EXCEPT !["nocolor"] = "true"] ELSE exported
       /\ logs' = [to |-> IF docker THEN "stdout"
                          ELSE IF ValueIn(snek, "directory") = "" THEN "home"
                          ELSE ValueIn(snek, "directory"),
                   dated |-> ValueIn(snek, "use_date_filename") = "true"]
  /\ pc' = "logging"
  /\ UNCHANGED <<inputs, snek, proxies, perms, level, workers>>

(* getSrv overwrites config.MaxWorkers unless concurrency is restricted. *)
GetSrv ==
  /\ pc = "logging"
  /\ exported' = IF exported["restrict_concurrency"] = "true" THEN exported
                 ELSE [exported EXCEPT !["max_workers"] = DefaultConcurrency]
  /\ workers' = exported'["max_workers"]
  /\ pc' = "serving"
  /\ UNCHANGED <<inputs, snek, proxies, perms, level, logs>>

Next ==
  \/ \E file \in Files, env \in Environments, opts \in Options :
       CallInit(file, env, opts)
  \/ \E opts \in Options : CallGenerateConfig(opts)
  \/ LoadFile
  \/ LoadEnv
  \/ ParseProxies
  \/ UnixSocket
  \/ SetLevel
  \/ StartLogger
  \/ GetSrv

Spec == Init /\ [][Next]_vars

-----------------------------------------------------------------------------
(* The types of the variables. *)
TypeOK ==
  /\ pc \in {"idle", "file", "env", "proxies", "socket", "level", "ready",
             "failed", "logging", "serving"}
  /\ DOMAIN snek \subseteq Name
  /\ DOMAIN exported = Exported \cup {"unix_socket_path"}
  /\ \A k \in Lists : exported[k] \in ListValues
  /\ \A k \in Bools : exported[k] \in BoolValues
  /\ \A k \in Ints : exported[k] \in IntValues
  /\ proxies \in ListValues
  /\ perms \in OctalValues \cup {"0"}
  /\ level \in {"info", "debug", "trace"}
  /\ logs.dated \in BOOLEAN
  /\ workers \in IntValues \cup {"none"}

(* The value the documented order gives a key: of environment, file and    *)
(* defaults the first that speaks of the key or of a section it is in.     *)
Speaks(layer, k) ==
  \E x \in DOMAIN layer : x = k \/ (x \in DOMAIN Within /\ k \in Within[x])

Layered(file, k) ==
  ValueIn(IF Speaks(inputs.env, k) THEN inputs.env
          ELSE IF Speaks(file, k) THEN file ELSE Defaults, k)

Forced(k) == k \in DOMAIN inputs.opts /\ inputs.opts[k]

(* What comes of a file with this call's environment and options. *)
Setting(file, k) == IF Forced(k) THEN "true" ELSE Convert(k, Layered(file, k))

SettingsOf(file) ==
  /\ \A k \in Exported : exported[k] = Setting(file, k)
  /\ proxies = Setting(file, "trusted_proxies") /\ proxies # "bad list"
  /\ IF Setting(file, "use_unix_socket") = "true"
     THEN /\ exported["unix_socket_path"] = Layered(file, "unix_socket_path")
          /\ perms = Layered(file, "unix_socket_permissions")
     ELSE exported["unix_socket_path"] = "" /\ perms = "0"
  /\ level = IF Setting(file, "trace") = "true" THEN "trace"
             ELSE IF Setting(file, "debug") = "true" THEN "debug" ELSE "info"

(* The outcome of Init is a function of the inputs of this call: nothing   *)
(* of an earlier call in the same process, finished, failed or broken off  *)
(* by GenerateConfig, nor of a server that was made of it, shows in the    *)
(* settings, the trusted proxies, the socket or the log level; and an      *)
(* option of the command line is above every layer.                        *)
InputsDecide == pc = "ready" => SettingsOf(inputs.file)

(* The text of the written default config and the table of defaults are    *)
(* kept apart in the code, and agree: a first start, which loads the file  *)
(* it has just written, runs with the settings of an empty one.            *)
WrittenDefaultNeutral ==
  pc = "ready" /\ inputs.file = DefaultConfigTOML => SettingsOf(<<>>)

(* README.md:206, "Every config key can be overridden with an environment  *)
(* variable": the exported value of a key in the environment is the one    *)
(* given there.                                                            *)
EnvOverridesEveryKey ==
  pc = "ready" =>
    \A k \in Exported \cap DOMAIN inputs.env :
      ~ Forced(k) => exported[k] = inputs.env[k]
=============================================================================
