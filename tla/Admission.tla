----------------------------- MODULE Admission -----------------------------
(***************************************************************************)
(* Who gets the stream, and under which name (internal/http/router.go and  *)
(* robots.go): NewServer registers its routes one after the other, then    *)
(* requests are dispatched to robotsTXT, to hellPot or to nobody.          *)
(*                                                                         *)
(* A path is a sequence of symbols: a space, a slash, or a name.  A user   *)
(* agent is the set of the substrings it contains.  An address is a host   *)
(* in one of the forms "v4", "v6" and "mapped" (the host's IPv4 address    *)
(* written as IPv6: a listener for both families reports it so).           *)
(*                                                                         *)
(* The configuration does not change while the server runs and a request   *)
(* is decided by it alone, so a request is one action; what happens to a   *)
(* stream after that is in Heffalump, fasthttp's limits are left out.      *)
(***************************************************************************)
EXTENDS Integers, SequencesExt

CONSTANTS
  Configs,  (* the configurations NewServer may find *)
  Clients,  (* hosts that send requests *)
  Proxy,    (* a host that passes requests on, with the real_ip_header *)
  Requests, (* the paths that are asked for *)
  Agents    (* the user agents *)

RobotsPath == <<"/", "robots.txt">>

(* The peer of a request over a Unix socket: fasthttp's RemoteIP gives     *)
(* 0.0.0.0 for an address that is not TCP.                                 *)
Unspecified == [form |-> "v4", host |-> "0.0.0.0"]

Hosts == Clients \cup {Proxy, Unspecified.host}
Addresses == [form : {"v4", "v6", "mapped"}, host : Hosts]
NoAddress == [form |-> "none", host |-> "nobody"]

ASSUME AdmissionAssumption ==
  /\ Proxy \notin Clients
  /\ \A c \in Configs :
       /\ c.listener \in {"tcp", "unix", "unixNoPath"}
       /\ c.paths \in Seq(Seq(STRING))

VARIABLES
  cfg,    (* the configuration: makerobots, catchall, paths, denied,
             trusted (a set of prefixes) and listener *)
  phase,  (* "robots", "paths", then "serving", "failed" or "panicked" *)
  todo,   (* the entries of cfg.paths still to be registered *)
  routes, (* the handlers of the static routes *)
  last,   (* history: the request answered last, and how *)
  told    (* history: for each client, what robots.txt disallowed to it *)

vars == <<cfg, phase, todo, routes, last, told>>

Nothing == [answer |-> "none"]
Untold == {<<"untold">>}

Init ==
  /\ cfg \in Configs
  /\ phase = "robots"
  /\ todo = cfg.paths
  /\ routes = <<>>
  /\ last = Nothing
  /\ told = [c \in Clients |-> Untold]

-----------------------------------------------------------------------------
(* strings.TrimSpace *)
TrimSpace(p) ==
  LET text == {i \in 1 .. Len(p) : p[i] # "space"}
  IN IF text = {} THEN <<>> ELSE SubSeq(p, Min(text), Max(text))

(* Mutant: an entry without its slash is left without. *)
RoutePathAsWritten(p) == TrimSpace(p)

RoutePath(p) ==
  LET t == TrimSpace(p)
  IN IF t # <<>> /\ t[1] = "/" THEN t ELSE <<"/">> \o t

(* Mutant: robots.txt is registered in catch-all mode too. *)
RegisterRobotsAlways ==
  /\ phase = "robots"
  /\ routes' = IF cfg.makerobots THEN [r \in {RobotsPath} |-> "robotsTXT"] ELSE routes
  /\ phase' = "paths"
  /\ UNCHANGED <<cfg, todo, last, told>>

(* if config.MakeRobots && !config.CatchAll *)
RegisterRobots ==
  /\ phase = "robots"
  /\ routes' = IF cfg.makerobots /\ ~ cfg.catchall
               THEN [r \in {RobotsPath} |-> "robotsTXT"] ELSE routes
  /\ phase' = "paths"
  /\ UNCHANGED <<cfg, todo, last, told>>

(* r.GET(routePath(p), hellPot); the router panics at a route it has. *)
RegisterPath ==
  /\ phase = "paths"
  /\ ~ cfg.catchall
  /\ todo # <<>>
  /\ LET route == RoutePath(Head(todo)) IN
       IF route \in DOMAIN routes
       THEN phase' = "panicked" /\ UNCHANGED <<routes, todo>>
       ELSE /\ routes' = [r \in {route} \cup DOMAIN routes |->
                          IF r = route THEN "hellPot" ELSE routes[r]]
            /\ todo' = Tail(todo)
            /\ UNCHANGED phase
  /\ UNCHANGED <<cfg, last, told>>

(* All registered (or the one catch-all route): the server is returned. *)
ReturnServer ==
  /\ phase = "paths"
  /\ cfg.catchall \/ todo = <<>>
  /\ phase' = IF cfg.listener = "unixNoPath" THEN "failed" ELSE "serving"
  /\ UNCHANGED <<cfg, todo, routes, last, told>>

-----------------------------------------------------------------------------
Unmap(a) == IF a.form = "mapped" THEN [a EXCEPT !.form = "v4"] ELSE a

(* netip.Prefix.Contains: an IPv4 address is in no IPv6 prefix. *)
PrefixContains(prefix, a) ==
  /\ prefix.family = (IF a.form = "v4" THEN "v4" ELSE "v6")
  /\ a.host \in prefix.hosts

(* Mutant: a header is believed as it is written. *)
GetRealRemoteAsWritten(remote, header) ==
  IF /\ \E trusted \in cfg.trusted : PrefixContains(trusted, Unmap(remote))
     /\ header # NoAddress
  THEN header
  ELSE Unmap(remote)

(* Both net.IP and netip print an IPv4 address alike in either form; what  *)
(* is logged is the address without its form "mapped".  NoAddress is a     *)
(* header that is missing or does not parse as one address.                *)
GetRealRemote(remote, header) ==
  IF /\ \E trusted \in cfg.trusted : PrefixContains(trusted, Unmap(remote))
     /\ header # NoAddress
  THEN Unmap(header)
  ELSE Unmap(remote)

Denied(agent) == cfg.denied \cap agent # {}

(* What the router finds for the path of a GET; /{path:*} comes last. *)
Handler(path) ==
  IF path \in DOMAIN routes THEN routes[path]
  ELSE IF cfg.catchall THEN "hellPot" ELSE "none"

Answer(path, agent) ==
  CASE Handler(path) = "robotsTXT" -> "robots.txt"
    [] Handler(path) = "hellPot" ->
         IF Denied(agent) THEN "notFound" ELSE "stream"
    [] OTHER -> "notFound"

(* Mutant: robots.txt puts a slash before every entry. *)
DisallowsWithSlash == {<<"/">> \o TrimSpace(cfg.paths[i]) : i \in 1 .. Len(cfg.paths)}

(* What robotsTXT writes. *)
Disallows == {RoutePath(cfg.paths[i]) : i \in 1 .. Len(cfg.paths)}

(* A request of client c from the address remote.  A request that is not   *)
(* a GET has no route and gets a short answer too.                         *)
Handle(c, remote, header, path, agent) ==
  /\ phase = "serving"
  /\ last' = [answer |-> Answer(path, agent), client |-> c, remote |-> remote,
              header |-> header, path |-> path, agent |-> agent,
              logged |-> GetRealRemote(remote, header)]
  /\ told' = IF Answer(path, agent) = "robots.txt"
             THEN [told EXCEPT ![c] = Disallows] ELSE told
  /\ UNCHANGED <<cfg, phase, todo, routes>>

(* A client that connects itself writes any header it likes. *)
DirectRequest(c) ==
  /\ cfg.listener = "tcp"
  /\ \E form \in {"v4", "v6", "mapped"}, forged \in Clients \ {c},
        path \in Requests, agent \in Agents :
       \E header \in {NoAddress, [form |-> form, host |-> forged]} :
         Handle(c, [form |-> form, host |-> c], header, path, agent)

(* The proxy sets the header to the client's address, in either form, or   *)
(* to a list of addresses.                                                 *)
ProxiedRequest(c) ==
  \E form \in {"v4", "v6", "mapped"}, path \in Requests, agent \in Agents :
    \E header \in {NoAddress, [form |-> form, host |-> c]} :
      Handle(c, IF cfg.listener = "tcp" THEN [form |-> form, host |-> Proxy]
                ELSE Unspecified,
             header, path, agent)

Next ==
  \/ RegisterRobots
  \/ RegisterPath
  \/ ReturnServer
  \/ \E c \in Clients : DirectRequest(c) \/ ProxiedRequest(c)

Spec == Init /\ [][Next]_vars

-----------------------------------------------------------------------------
(* The types of the variables; a route starts with a slash, or the router  *)
(* would not take it.                                                      *)
TypeOK ==
  /\ cfg \in Configs
  /\ phase \in {"robots", "paths", "serving", "failed", "panicked"}
  /\ \A r \in DOMAIN routes :
       r # <<>> /\ r[1] = "/" /\ routes[r] \in {"hellPot", "robotsTXT"}
  /\ last.answer \in {"none", "stream", "robots.txt", "notFound"}
  /\ last # Nothing => last.logged \in Addresses
  /\ DOMAIN told = Clients

(* README.md:3, clients that ignore robots.txt: one that has read it, and  *)
(* asks for nothing it disallows, never gets the stream.                   *)
PoliteNeverTrapped ==
  last.answer = "stream" /\ told[last.client] # Untold
    => \E d \in told[last.client] : IsPrefix(d, last.path)

(* robots.txt gives the traps away exactly: what it disallows is what the  *)
(* router hands to hellPot, whichever way the entries are written.         *)
RobotsExact ==
  \A c \in Clients : told[c] # Untold =>
    \A path \in Requests \cup DOMAIN routes :
      path \in told[c] <=> Handler(path) = "hellPot"

(* The name in the log: the peer's own address whatever the header says,   *)
(* unless the peer is one the operator trusts; what that one said if it    *)
(* said one address; and one notation for an IPv4 address wherever it is   *)
(* from, so that a client has one name in all its lines.                   *)
Trusts(a) ==
  \E t \in cfg.trusted :
    a.host \in t.hosts /\ t.family = (IF a.form = "v6" THEN "v6" ELSE "v4")

NamedTruly ==
  last # Nothing =>
    /\ last.logged.form # "mapped"
    /\ last.logged.host =
         IF Trusts(last.remote) /\ last.header # NoAddress THEN last.header.host
         ELSE last.remote.host

(* The configuration's comment, defaults.go:69-70: "Matching clients       *)
(* receive "Not found" for every request."                                 *)
DeniedGetNotFound ==
  last # Nothing /\ Denied(last.agent) => last.answer = "notFound"
=============================================================================
