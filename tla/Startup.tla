------------------------------ MODULE Startup ------------------------------
(***************************************************************************)
(* From the command line to a running server: run (cmd/HellPot), Init,     *)
(* writeConfig and GenerateConfig (internal/config) and the config files   *)
(* they search, create, overwrite and load, over many starts.  Instances   *)
(* share the file system with each other and with an operator who edits    *)
(* files; an instance may be killed at any step of its start.              *)
(*                                                                         *)
(* A file is "absent", "default" (the template), "edited" (an operator's   *)
(* settings), "invalid" (an operator's mistake), "empty" (truncated, the   *)
(* text not yet written; it loads, as all defaults) or "partial" (the      *)
(* write broke off; it may load or not).                                   *)
(***************************************************************************)

CONSTANTS
  Instances,     (* the processes that may run at one time *)
  UserDirKnown,  (* XDG_CONFIG_HOME or HOME is set *)
  MayFail,       (* what may fail: a subset of Failures *)
  Edited         (* bound: the locations the operator works on *)

Failures == {"truncate", "write", "logger", "server"}

(* /etc/HellPot, the user's config directory, the working directory and    *)
(* its subdirectory .config/HellPot, each with its config.toml.            *)
Locations == {"etc", "user", "cwd", "dotconfig"}

ASSUME StartupAssumption ==
  /\ UserDirKnown \in BOOLEAN
  /\ MayFail \subseteq Failures
  /\ Edited \subseteq Locations

VARIABLES
  files,  (* the content of each location *)
  inst    (* for each instance a record of
               pc      where its start stands,
               gen     --genconfig was given,
               chosen  the file it writes or loads,
               found   what that file held when it was chosen,
               loaded  what it held when it was loaded *)

vars == <<files, inst>>

Contents == {"absent", "default", "edited", "invalid", "empty", "partial"}
OperatorsOwn == {"edited", "invalid"}
Starting == {"search", "truncate", "write", "load", "logger", "server"}

(* No process: nothing of an earlier one is left. *)
Off == [pc |-> "off", gen |-> FALSE, chosen |-> "cwd",
        found |-> "absent", loaded |-> "absent"]

Init ==
  /\ files = [l \in Locations |-> "absent"]
  /\ inst = [i \in Instances |-> Off]

-----------------------------------------------------------------------------
Exit(i) == inst' = [inst EXCEPT ![i] = Off]
Goto(i, next) == inst' = [inst EXCEPT ![i].pc = next]

Choose(i, l, next) ==
  inst' = [inst EXCEPT ![i].chosen = l, ![i].found = files[l], ![i].pc = next]

(* The operation goes well, or it fails, and run prints its error and      *)
(* returns 1.                                                              *)
OrFails(i, op, next) == Goto(i, next) \/ (op \in MayFail /\ Exit(i))

(* Arguments that reach the configuration.  Help, version, banner and an   *)
(* unknown flag end run before it touches a file.                          *)
(* Mutant: --genconfig writes where the search would. *)
LaunchGenConfigUser(i) ==
  /\ inst[i].pc = "off"
  /\ inst' = [inst EXCEPT ![i].gen = TRUE, ![i].pc = "truncate",
                          ![i].chosen = "user", ![i].found = files["user"]]
  /\ UNCHANGED files

LaunchGenConfig(i) ==
  /\ inst[i].pc = "off"
  /\ inst' = [inst EXCEPT ![i].gen = TRUE, ![i].pc = "truncate",
                          ![i].chosen = "cwd", ![i].found = files["cwd"]]
  /\ UNCHANGED files

LaunchCustom(i, l) ==
  /\ inst[i].pc = "off"
  /\ Choose(i, l, "load")
  /\ UNCHANGED files

LaunchSearch(i) ==
  /\ inst[i].pc = "off"
  /\ Goto(i, "search")
  /\ UNCHANGED files

Exists(l) == files[l] # "absent"

(* Where Init looks: /etc first, then one place more. *)
SearchResult ==
  IF Exists("etc") THEN "etc" ELSE IF UserDirKnown THEN "user" ELSE "cwd"

(* Mutant: exists is set for /etc only. *)
SearchFoundEtcOnly == SearchResult = "etc"

(* Init's exists. *)
SearchFound == Exists(SearchResult)

(* Where writeConfig puts the default, whatever Init looked at and whether *)
(* or not there is a file: without a user directory not ./config.toml.     *)
DefaultLocation == IF UserDirKnown THEN "user" ELSE "dotconfig"

Search(i) ==
  /\ inst[i].pc = "search"
  /\ IF SearchFound THEN Choose(i, SearchResult, "load")
     ELSE Choose(i, DefaultLocation, "truncate")
  /\ UNCHANGED files

(* Mutant: a failed open goes back to the search. *)
TruncateRetries(i) ==
  /\ inst[i].pc = "truncate"
  /\ \/ files' = [files EXCEPT ![inst[i].chosen] = "empty"] /\ Goto(i, "write")
     \/ "truncate" \in MayFail /\ Goto(i, "search") /\ UNCHANGED files

(* os.WriteFile opens with O_TRUNC and O_CREATE ... *)
Truncate(i) ==
  /\ inst[i].pc = "truncate"
  /\ \/ files' = [files EXCEPT ![inst[i].chosen] = "empty"] /\ Goto(i, "write")
     \/ "truncate" \in MayFail /\ Exit(i) /\ UNCHANGED files

(* Mutant: --genconfig goes on to load what it wrote. *)
WriteDefaultGoesOn(i) ==
  /\ inst[i].pc = "write"
  /\ \/ /\ files' = [files EXCEPT ![inst[i].chosen] = "default"]
        /\ Goto(i, "load")
     \/ /\ "write" \in MayFail
        /\ files' = [files EXCEPT ![inst[i].chosen] = "partial"]
        /\ Exit(i)

(* ... and then writes; --genconfig ends here. *)
WriteDefault(i) ==
  /\ inst[i].pc = "write"
  /\ \/ /\ files' = [files EXCEPT ![inst[i].chosen] = "default"]
        /\ IF inst[i].gen THEN Exit(i) ELSE Goto(i, "load")
     \/ /\ "write" \in MayFail
        /\ files' = [files EXCEPT ![inst[i].chosen] = "partial"]
        /\ Exit(i)

(* snek.Load of the chosen file, then associateExportedVariables: an       *)
(* operator's mistake fails in one of them.                                *)
LoadConfig(i) ==
  /\ inst[i].pc = "load"
  /\ LET c == files[inst[i].chosen] IN
       \/ /\ c \in {"default", "edited", "empty", "partial"}
          /\ inst' = [inst EXCEPT ![i].loaded = c, ![i].pc = "logger"]
       \/ c \in {"absent", "invalid", "partial"} /\ Exit(i)
  /\ UNCHANGED files

StartLogger(i) ==
  /\ inst[i].pc = "logger"
  /\ OrFails(i, "logger", "server")
  /\ UNCHANGED files

NewServer(i) ==
  /\ inst[i].pc = "server"
  /\ OrFails(i, "server", "running")
  /\ UNCHANGED files

StartStep(i) ==
  \/ Search(i)
  \/ Truncate(i)
  \/ WriteDefault(i)
  \/ LoadConfig(i)
  \/ StartLogger(i)
  \/ NewServer(i)

(* The server ends (Lifecycle), or the process is killed during its start. *)
Ends(i) ==
  /\ inst[i].pc # "off"
  /\ Exit(i)
  /\ UNCHANGED files

(* The operator writes or removes a file, but not while an instance is     *)
(* starting: between Stat and WriteFile nothing would protect the edit.    *)
Edit(l) ==
  /\ \A i \in Instances : inst[i].pc \notin Starting
  /\ \E c \in {"absent", "edited", "invalid"} \ {files[l]} :
       files' = [files EXCEPT ![l] = c]
  /\ UNCHANGED inst

Next ==
  \/ \E i \in Instances :
       \/ LaunchGenConfig(i)
       \/ \E l \in Locations : LaunchCustom(i, l)
       \/ LaunchSearch(i)
       \/ StartStep(i)
       \/ Ends(i)
  \/ \E l \in Edited : Edit(l)

Spec == Init /\ [][Next]_vars

(* A start that is not killed goes on to its end. *)
FairSpec == Spec /\ \A i \in Instances : WF_vars(StartStep(i))

-----------------------------------------------------------------------------
(* The types of the variables; an instance with --genconfig writes         *)
(* ./config.toml and does nothing else.                                    *)
TypeOK ==
  /\ files \in [Locations -> Contents]
  /\ inst \in [Instances -> [pc : {"off", "running"} \cup Starting,
                             gen : BOOLEAN,
                             chosen : Locations,
                             found : Contents,
                             loaded : Contents]]
  /\ \A i \in Instances :
       inst[i].gen => inst[i].chosen = "cwd" /\ inst[i].pc \in {"truncate", "write"}

(* README.md:201-202, "If the chosen default config file is missing,       *)
(* HellPot writes a default config to that location": no start of the      *)
(* program changes a file an operator has written, over any number of      *)
(* restarts, kills and failed writes; only --genconfig replaces the        *)
(* ./config.toml it is asked to write.                                     *)
EditsSurvive ==
  [][\A l \in Locations :
       files[l] \in OperatorsOwn /\ files'[l] # files[l] /\ inst' # inst
         => l = "cwd" /\ \E i \in Instances :
              inst[i].gen /\ inst[i].pc = "truncate"]_vars

(* A server that found an operator's settings runs with them, not with an  *)
(* empty or half-written file that another instance is just putting in     *)
(* their place; --genconfig in the directory of a -c ./config.toml, or of  *)
(* a search that comes down to it, is the one exception.                   *)
SettingsHonoured ==
  \A i \in Instances :
    inst[i].pc = "running" /\ inst[i].found = "edited" /\ inst[i].chosen # "cwd"
      => inst[i].loaded = "edited"

(* Every start ends: as a server, or with an exit code. *)
StartEnds ==
  \A i \in Instances : inst[i].pc \in Starting ~> inst[i].pc \notin Starting
=============================================================================
