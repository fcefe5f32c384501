----------------------------- MODULE UnixSocket -----------------------------
(***************************************************************************)
(* listenOnUnixSocket (internal/http/router_unix.go): the file at          *)
(* unix_socket_path, which several processes may be told to listen on,     *)
(* which a killed one leaves behind, and which an operator may remove.     *)
(*                                                                         *)
(* Only the permission to connect is modelled, as the set of users that    *)
(* the file's mode gives it to.                                            *)
(***************************************************************************)
CONSTANTS
  Procs,     (* the processes told to listen on the path; not "nothing" or "foreign" *)
  Users,     (* those who may try to connect *)
  Owner,     (* the user HellPot runs under *)
  Permitted  (* those unix_socket_permissions lets connect *)

Nothing == "nothing"
Foreign == "foreign"  (* a file that no HellPot has made *)

VARIABLES
  at,        (* what is at the path; a process stands for its socket *)
  allowed,   (* the users its mode lets connect *)
  sock,      (* of each process: "off", "bound" or "serving" *)
  connected  (* history: the users who have got a connection *)

vars == <<at, allowed, sock, connected>>

Init ==
  /\ at \in {Nothing, Foreign}
  /\ allowed = {}
  /\ sock = [p \in Procs |-> "off"]
  /\ connected = {}

Live(p) == sock[p] # "off"

-----------------------------------------------------------------------------
(* Mutant: the process keeps its own umask, which takes nothing away. *)
ListenUnixOwnMask(p) ==
  /\ ~ Live(p)
  /\ at = Nothing
  /\ at' = p
  /\ allowed' = Users
  /\ sock' = [sock EXCEPT ![p] = "bound"]
  /\ UNCHANGED connected

(* Mutant: what is at the path is removed first. *)
ListenUnixAnyway(p) ==
  /\ ~ Live(p)
  /\ at' = p
  /\ allowed' = {Owner}
  /\ sock' = [sock EXCEPT ![p] = "bound"]
  /\ UNCHANGED connected

(* net.ListenUnix between the two calls of Umask; from here on clients can *)
(* connect.  It fails, and changes nothing, if there is anything at the    *)
(* path.                                                                   *)
ListenUnix(p) ==
  /\ ~ Live(p)
  /\ at = Nothing
  /\ at' = p
  /\ allowed' = {Owner}
  /\ sock' = [sock EXCEPT ![p] = "bound"]
  /\ UNCHANGED connected

(* os.Chmod goes by the name: it changes what is at the path now. *)
Chmod(p) ==
  /\ sock[p] = "bound"
  /\ at # Nothing
  /\ allowed' = IF at = Foreign THEN allowed ELSE Permitted
  /\ sock' = [sock EXCEPT ![p] = "serving"]
  /\ UNCHANGED <<at, connected>>

(* unixListener.Close, by Shutdown or when Chmod has failed: it unlinks    *)
(* the path, again by its name, whatever becomes of the call after that.   *)
CloseListener(p) ==
  /\ Live(p)
  /\ at' = Nothing
  /\ allowed' = {}
  /\ sock' = [sock EXCEPT ![p] = "off"]
  /\ UNCHANGED connected

(* The process ends without closing its listener. *)
Dies(p) ==
  /\ sock' = [sock EXCEPT ![p] = "off"]
  /\ UNCHANGED <<at, allowed, connected>>

Proc(p) == ListenUnix(p) \/ Chmod(p) \/ CloseListener(p) \/ Dies(p)

-----------------------------------------------------------------------------
(* A connection, which outlasts a change of the mode. *)
Connect(u) ==
  /\ at \in Procs
  /\ Live(at)
  /\ u \in allowed
  /\ connected' = connected \cup {u}
  /\ UNCHANGED <<at, allowed, sock>>

(* The operator removes a stale socket, or moves a file there or away; as  *)
(* README.md:340-341 says, never the socket of a running process.          *)
Operator ==
  /\ at \in Procs => ~ Live(at)
  /\ at' \in {Nothing, Foreign} \ {at}
  /\ allowed' = {}
  /\ UNCHANGED <<sock, connected>>

Next ==
  \/ \E p \in Procs : Proc(p)
  \/ \E u \in Users : Connect(u)
  \/ Operator

Spec == Init /\ [][Next]_vars

-----------------------------------------------------------------------------
(* README.md:35, 337-338: nobody connects whom the configured permissions  *)
(* keep out, other than HellPot's own user, at no time of the listener's   *)
(* life, the time between its creation and its chmod included.             *)
OnlyPermitted == connected \subseteq Permitted \cup {Owner}

(* README.md:340, "HellPot never removes an existing path before           *)
(* listening": what a process finds at the path it leaves there, whether   *)
(* it comes up, fails, shuts down or dies; it removes its own socket only, *)
(* while that is still the one at the path.                                *)
PathRespected ==
  [][at # Nothing /\ at' # at /\ sock' # sock
       => at \in Procs /\ Live(at) /\ sock'[at] = "off"]_vars
=============================================================================
