-------------------------- MODULE Admission_proofs --------------------------
(***************************************************************************)
(* Proofs about Admission: robots.txt and the router agree, for every      *)
(* configuration and every way of writing its paths, so that a client that *)
(* obeys robots.txt is never trapped; every route begins with a slash; and *)
(* the log names a client truly.                                           *)
(***************************************************************************)
EXTENDS Admission, WellFoundedInduction, TLAPS

HellRoutes == {r \in DOMAIN routes : routes[r] = "hellPot"}

RoutesOf(paths) == {RoutePath(paths[i]) : i \in 1 .. Len(paths)}

(* What is registered and what is still to be make up what robots.txt      *)
(* will say; who has read it was served by a router that is complete.      *)
AInv ==
  /\ cfg \in Configs
  /\ todo \in Seq(Seq(STRING))
  /\ phase \in {"robots", "paths", "serving", "failed", "panicked"}
  /\ ~ cfg.catchall => Disallows = HellRoutes \cup RoutesOf(todo)
  /\ phase = "robots" => routes = <<>>
  /\ phase = "serving" /\ ~ cfg.catchall => todo = <<>>
  /\ cfg.catchall => \A r \in DOMAIN routes : routes[r] = "hellPot"
  /\ DOMAIN told = Clients
  /\ \A c \in Clients : told[c] # Untold =>
       phase = "serving" /\ ~ cfg.catchall /\ told[c] = Disallows
  /\ last.answer = "stream" =>
       /\ phase = "serving"
       /\ last.client \in Clients
       /\ Handler(last.path) = "hellPot"

(* Taking the first entry off takes its route off the set.                 *)
LEMMA RoutesOfTail ==
  ASSUME NEW paths \in Seq(Seq(STRING)), paths # <<>>
  PROVE  RoutesOf(paths) = {RoutePath(Head(paths))} \cup RoutesOf(Tail(paths))
<1>1. /\ Len(paths) \in Nat \ {0}
      /\ Head(paths) = paths[1]
      /\ Len(Tail(paths)) = Len(paths) - 1
      /\ \A i \in 1 .. Len(Tail(paths)) : Tail(paths)[i] = paths[i + 1]
  OBVIOUS
<1>2. ASSUME NEW r \in RoutesOf(paths)
      PROVE  r = RoutePath(Head(paths)) \/ r \in RoutesOf(Tail(paths))
  <2>1. PICK i \in 1 .. Len(paths) : r = RoutePath(paths[i])
    BY DEF RoutesOf
  <2>2. CASE i = 1
    BY <1>1, <2>1, <2>2
  <2>3. CASE i # 1
    <3>1. i - 1 \in 1 .. Len(Tail(paths)) /\ Tail(paths)[i - 1] = paths[i]
      BY <1>1, <2>1, <2>3
    <3> QED BY <2>1, <3>1 DEF RoutesOf
  <2> QED BY <2>2, <2>3
<1>3. RoutePath(Head(paths)) \in RoutesOf(paths)
  <2>1. 1 \in 1 .. Len(paths)
    BY <1>1
  <2> QED BY <1>1, <2>1 DEF RoutesOf
<1>4. ASSUME NEW r \in RoutesOf(Tail(paths)) PROVE r \in RoutesOf(paths)
  <2>1. PICK i \in 1 .. Len(Tail(paths)) : r = RoutePath(Tail(paths)[i])
    BY DEF RoutesOf
  <2>2. i + 1 \in 1 .. Len(paths) /\ Tail(paths)[i] = paths[i + 1]
    BY <1>1, <2>1
  <2> QED BY <2>1, <2>2 DEF RoutesOf
<1> QED BY <1>2, <1>3, <1>4

LEMMA NoRoutesLeft == RoutesOf(<<>>) = {}
  BY DEF RoutesOf

LEMMA RobotsInit == Init => AInv
<1> SUFFICES ASSUME Init PROVE AInv
  OBVIOUS
<1>1. HellRoutes = {}
  BY DEF Init, HellRoutes
<1>2. Disallows = RoutesOf(todo)
  BY DEF Init, Disallows, RoutesOf
<1>3. todo \in Seq(Seq(STRING))
  <2>1. cfg \in Configs /\ todo = cfg.paths
    BY DEF Init
  <2> QED BY <2>1, AdmissionAssumption DEF AdmissionAssumption
<1>4. DOMAIN routes = {}
  <2>1. routes = <<>>
    BY DEF Init
  <2> QED BY <2>1
<1>5. DOMAIN told = Clients
  BY DEF Init
<1>6. last.answer # "stream" /\ \A c \in Clients : told[c] = Untold
  BY DEF Init, Nothing
<1> QED BY <1>1, <1>2, <1>3, <1>4, <1>5, <1>6 DEF Init, AInv

LEMMA RobotsNext == AInv /\ [Next]_vars => AInv'
<1> SUFFICES ASSUME AInv, [Next]_vars PROVE AInv'
  OBVIOUS
<1>1. CASE UNCHANGED vars
  BY <1>1 DEF vars, AInv, Disallows, HellRoutes, Handler
<1>2. CASE RegisterRobots
  <2>1. HellRoutes = {} /\ HellRoutes' = {}
    BY <1>2 DEF AInv, RegisterRobots, HellRoutes, RobotsPath
  <2>2. cfg.catchall => DOMAIN routes' = {}
    BY <1>2 DEF AInv, RegisterRobots
  <2>3. Disallows' = Disallows
    BY <1>2 DEF RegisterRobots, Disallows
  <2>4. /\ cfg' = cfg /\ todo' = todo /\ last' = last /\ told' = told
        /\ phase = "robots" /\ phase' = "paths"
    BY <1>2 DEF RegisterRobots
  <2> QED BY <2>1, <2>2, <2>3, <2>4 DEF AInv
<1>3. CASE RegisterPath
  <2> DEFINE route == RoutePath(Head(todo))
  <2>1. /\ phase = "paths" /\ phase' \in {"paths", "panicked"}
        /\ ~ cfg.catchall /\ todo # <<>>
        /\ cfg' = cfg /\ last' = last /\ told' = told
    BY <1>3 DEF RegisterPath
  <2>2. Disallows' = Disallows
    BY <2>1 DEF Disallows
  <2>3. CASE route \in DOMAIN routes
    <3>1. routes' = routes /\ todo' = todo /\ phase' = "panicked"
      BY <1>3, <2>3 DEF RegisterPath
    <3> QED BY <2>1, <2>2, <3>1 DEF AInv, HellRoutes
  <2>4. CASE route \notin DOMAIN routes
    <3>1. /\ routes' = [r \in {route} \cup DOMAIN routes |->
                          IF r = route THEN "hellPot" ELSE routes[r]]
          /\ todo' = Tail(todo)
      BY <1>3, <2>4 DEF RegisterPath
    <3>2. HellRoutes' = HellRoutes \cup {route}
      BY <2>4, <3>1 DEF HellRoutes
    <3>3. RoutesOf(todo) = {route} \cup RoutesOf(todo') /\ todo' \in Seq(Seq(STRING))
      BY <2>1, <3>1, RoutesOfTail DEF AInv
    <3>4. phase' = "paths"
      BY <1>3, <2>4 DEF RegisterPath
    <3> QED BY <2>1, <2>2, <3>2, <3>3, <3>4 DEF AInv
  <2> QED BY <2>3, <2>4
<1>4. CASE ReturnServer
  <2>1. /\ phase = "paths" /\ phase' \in {"failed", "serving"}
        /\ cfg.catchall \/ todo = <<>>
        /\ cfg' = cfg /\ todo' = todo /\ routes' = routes
        /\ last' = last /\ told' = told
    BY <1>4 DEF ReturnServer
  <2> QED BY <2>1 DEF AInv, Disallows, HellRoutes
<1>5. ASSUME NEW c \in Clients, NEW remote, NEW header, NEW path, NEW agent,
             Handle(c, remote, header, path, agent)
      PROVE  AInv'
  <2>1. /\ phase = "serving"
        /\ cfg' = cfg /\ phase' = phase /\ todo' = todo /\ routes' = routes
        /\ last'.answer = Answer(path, agent)
        /\ last'.client = c /\ last'.path = path
        /\ told' = IF Answer(path, agent) = "robots.txt"
                   THEN [told EXCEPT ![c] = Disallows] ELSE told
    BY <1>5 DEF Handle
  <2>2. Disallows' = Disallows /\ HellRoutes' = HellRoutes
    BY <2>1 DEF Disallows, HellRoutes
  <2>3. Answer(path, agent) = "stream" => Handler(path) = "hellPot"
    BY DEF Answer
  <2>4. Handler(last.path)' = Handler(path)
    BY <2>1 DEF Handler
  <2>5. Answer(path, agent) = "robots.txt" => ~ cfg.catchall
    BY DEF Answer, Handler, AInv
  <2>6. /\ DOMAIN told' = Clients
        /\ \A d \in Clients : told'[d] # Untold =>
             phase' = "serving" /\ ~ cfg'.catchall /\ told'[d] = Disallows'
    BY <2>1, <2>2, <2>5 DEF AInv
  <2>7. last'.answer = "stream" => Handler(last.path)' = "hellPot"
    BY <2>1, <2>3, <2>4
  <2> QED BY <2>1, <2>2, <2>6, <2>7 DEF AInv
<1> QED
  BY <1>1, <1>2, <1>3, <1>4, <1>5 DEF Next, DirectRequest, ProxiedRequest

LEMMA RobotsInvariant == Spec => []AInv
  BY RobotsInit, RobotsNext, PTL DEF Spec

(* robots.txt disallows exactly the traps, for every configuration.        *)
THEOREM RobotsAgree == Spec => []RobotsExact
<1>1. AInv => RobotsExact
  <2> SUFFICES ASSUME AInv, NEW c \in Clients, told[c] # Untold,
                      NEW path \in Requests \cup DOMAIN routes
               PROVE  path \in told[c] <=> Handler(path) = "hellPot"
    BY DEF RobotsExact
  <2>1. ~ cfg.catchall /\ told[c] = HellRoutes
    BY NoRoutesLeft DEF AInv
  <2> QED BY <2>1 DEF HellRoutes, Handler
<1> QED BY <1>1, RobotsInvariant, PTL

(* A client that keeps to the robots.txt it has read gets no stream.       *)
THEOREM PoliteClientsSafe == Spec => []PoliteNeverTrapped
<1>1. AInv => PoliteNeverTrapped
  <2> SUFFICES ASSUME AInv, last.answer = "stream", told[last.client] # Untold
               PROVE  \E d \in told[last.client] : IsPrefix(d, last.path)
    BY DEF PoliteNeverTrapped
  <2>1. ~ cfg.catchall /\ told[last.client] = HellRoutes
    BY NoRoutesLeft DEF AInv
  <2>2. last.path \in HellRoutes
    BY <2>1 DEF AInv, Handler, HellRoutes
  <2>3. IsPrefix(last.path, last.path)
    BY DEF IsPrefix
  <2> QED BY <2>1, <2>2, <2>3
<1> QED BY <1>1, RobotsInvariant, PTL
-----------------------------------------------------------------------------
(* A set of naturals has a least element: the order on them is well        *)
(* founded.  If it is bounded it has a greatest one, too.                  *)
LEMMA Least ==
  ASSUME NEW S \in SUBSET Nat, S # {}
  PROVE  \E x \in S : \A y \in S : x <= y
<1>1. \E x \in S : \A y \in S : ~ (<<y, x>> \in OpToRel(<, Nat))
  BY NatLessThanWellFounded, WFMin, Zenon
<1>2. \A x, y \in Nat : x < y => <<x, y>> \in OpToRel(<, Nat)
  BY Zenon DEF OpToRel
<1>3. \E x \in S : \A y \in S : ~ (y < x)
  BY <1>1, <1>2, Zenon
<1> QED BY <1>3

LEMMA MinAndMax ==
  ASSUME NEW n \in Nat, NEW S \in SUBSET (1 .. n), S # {}
  PROVE  Min(S) \in S /\ Max(S) \in S
<1>1. \E x \in S : \A y \in S : x <= y
  BY Least
<1>2. \E x \in S : \A y \in S : x >= y
  <2> DEFINE R == {i \in Nat : n - i \in S}
  <2>1. PICK s \in S : TRUE
    OBVIOUS
  <2>2. n - s \in R
    <3>1. s \in 1 .. n
      OBVIOUS
    <3>2. n - s \in Nat /\ n - (n - s) = s
      BY <3>1
    <3> QED BY <3>2
  <2>3. PICK i \in R : \A j \in R : i <= j
    <3>1. R \in SUBSET Nat /\ R # {}
      BY <2>2
    <3> HIDE DEF R
    <3> QED BY <3>1, Least
  <2>4. ASSUME NEW y \in S PROVE n - i >= y
    <3>1. y \in 1 .. n
      OBVIOUS
    <3>2. n - y \in Nat /\ n - (n - y) = y
      BY <3>1
    <3>3. n - y \in R
      BY <3>2
    <3>4. i <= n - y /\ i \in Nat
      BY <2>3, <3>3
    <3> QED BY <3>1, <3>4
  <2> QED BY <2>3, <2>4
<1> QED BY <1>1, <1>2 DEF Min, Max

(* However an entry is written, its route begins with a slash.             *)
LEMMA RouteHasSlash ==
  ASSUME NEW p \in Seq(STRING)
  PROVE  RoutePath(p) # <<>> /\ RoutePath(p)[1] = "/"
<1>1. TrimSpace(p) \in Seq(STRING)
  <2> DEFINE text == {i \in 1 .. Len(p) : p[i] # "space"}
  <2>1. CASE text = {}
    BY <2>1 DEF TrimSpace
  <2>2. CASE text # {}
    <3>1. Min(text) \in 1 .. Len(p) /\ Max(text) \in 1 .. Len(p)
      <4>1. Len(p) \in Nat /\ text \in SUBSET (1 .. Len(p))
        OBVIOUS
      <4> HIDE DEF text
      <4> QED BY <2>2, <4>1, MinAndMax
    <3>2. SubSeq(p, Min(text), Max(text)) \in Seq(STRING)
      <4> HIDE DEF text
      <4> QED BY <3>1
    <3> QED BY <2>2, <3>2 DEF TrimSpace
  <2> QED BY <2>1, <2>2
<1>2. PICK t \in Seq(STRING) : t = TrimSpace(p)
  BY <1>1
<1>3. CASE t # <<>> /\ t[1] = "/"
  BY <1>2, <1>3 DEF RoutePath
<1>4. CASE ~ (t # <<>> /\ t[1] = "/")
  <2>1. RoutePath(p) = <<"/">> \o t
    BY <1>2, <1>4 DEF RoutePath
  <2>2. Len(<<"/">> \o t) = 1 + Len(t) /\ (<<"/">> \o t)[1] = "/"
    OBVIOUS
  <2>3. <<"/">> \o t # <<>>
    BY <2>2
  <2> QED BY <2>1, <2>2, <2>3
<1> QED BY <1>3, <1>4

(* The types of the variables; every route begins with a slash.            *)
THEOREM AdmissionTypes == Spec => []TypeOK
<1>1. Init => TypeOK
  <2> SUFFICES ASSUME Init PROVE TypeOK
    OBVIOUS
  <2>1. DOMAIN routes = {}
    BY DEF Init
  <2>2. last = Nothing /\ last.answer = "none"
    BY DEF Init, Nothing
  <2> QED BY <2>1, <2>2 DEF Init, TypeOK
<1>2. TypeOK /\ AInv /\ [Next]_vars => TypeOK'
  <2> SUFFICES ASSUME TypeOK, AInv, [Next]_vars PROVE TypeOK'
    OBVIOUS
  <2>1. CASE UNCHANGED vars
    BY <2>1 DEF vars, TypeOK, Nothing
  <2>2. CASE RegisterRobots
    <3>1. \A r \in DOMAIN routes' :
            r # <<>> /\ r[1] = "/" /\ routes'[r] \in {"hellPot", "robotsTXT"}
      <4>1. RobotsPath # <<>> /\ RobotsPath[1] = "/"
        BY DEF RobotsPath
      <4>2. CASE routes' = routes
        BY <4>2 DEF TypeOK
      <4>3. CASE routes' = [r \in {RobotsPath} |-> "robotsTXT"]
        BY <4>1, <4>3
      <4> QED BY <2>2, <4>2, <4>3 DEF RegisterRobots
    <3>2. cfg' = cfg /\ phase' = "paths" /\ last' = last /\ told' = told
      BY <2>2 DEF RegisterRobots
    <3> QED BY <3>1, <3>2 DEF TypeOK, Nothing
  <2>3. CASE RegisterPath
    <3> DEFINE route == RoutePath(Head(todo))
    <3>1. route # <<>> /\ route[1] = "/"
      <4>1. Head(todo) \in Seq(STRING)
        BY <2>3 DEF RegisterPath, AInv
      <4> QED BY <4>1, RouteHasSlash
    <3>2. cfg' = cfg /\ phase' \in {"paths", "panicked"} /\ last' = last /\ told' = told
      BY <2>3 DEF RegisterPath
    <3>3. \A r \in DOMAIN routes' :
            r # <<>> /\ r[1] = "/" /\ routes'[r] \in {"hellPot", "robotsTXT"}
      <4> HIDE DEF route
      <4>1. CASE routes' = routes
        BY <4>1 DEF TypeOK
      <4>2. CASE routes' = [r \in {route} \cup DOMAIN routes |->
                              IF r = route THEN "hellPot" ELSE routes[r]]
        BY <3>1, <4>2 DEF TypeOK
      <4> QED BY <2>3, <4>1, <4>2 DEF RegisterPath, route
    <3> QED BY <3>2, <3>3 DEF TypeOK, Nothing
  <2>4. CASE ReturnServer
    <3>1. /\ phase' \in {"failed", "serving"}
          /\ cfg' = cfg /\ routes' = routes /\ last' = last /\ told' = told
      BY <2>4 DEF ReturnServer
    <3> QED BY <3>1 DEF TypeOK, Nothing
  <2>5. ASSUME NEW c \in Clients, NEW remote \in Addresses,
               NEW header \in Addresses \cup {NoAddress}, NEW path, NEW agent,
               Handle(c, remote, header, path, agent)
        PROVE  TypeOK'
    <3>1. last'.answer \in {"none", "stream", "robots.txt", "notFound"}
      BY <2>5 DEF Handle, Answer
    <3>2. last'.logged \in Addresses
      <4>1. \A a \in Addresses : Unmap(a) \in Addresses
        BY DEF Unmap, Addresses
      <4>2. last'.logged = GetRealRemote(remote, header)
        BY <2>5 DEF Handle
      <4> QED BY <4>1, <4>2 DEF GetRealRemote
    <3>3. DOMAIN told' = Clients
      BY <2>5 DEF Handle, TypeOK
    <3>4. cfg' = cfg /\ phase' = phase /\ routes' = routes
      BY <2>5 DEF Handle
    <3> QED BY <3>1, <3>2, <3>3, <3>4 DEF TypeOK
  <2>6. ASSUME NEW c \in Clients, DirectRequest(c) PROVE TypeOK'
    BY <2>5, <2>6 DEF DirectRequest, Addresses, Hosts
  <2>7. ASSUME NEW c \in Clients, ProxiedRequest(c) PROVE TypeOK'
    BY <2>5, <2>7 DEF ProxiedRequest, Addresses, Hosts, Unspecified
  <2> QED BY <2>1, <2>2, <2>3, <2>4, <2>6, <2>7 DEF Next
<1> QED BY <1>1, <1>2, RobotsInvariant, PTL DEF Spec
-----------------------------------------------------------------------------
(* The name GetRealRemote finds, whatever the trusted prefixes are.        *)
LEMMA NameFound ==
  ASSUME NEW remote \in Addresses, NEW header \in Addresses \cup {NoAddress},
         NEW name, name = GetRealRemote(remote, header)
  PROVE  /\ name.form # "mapped"
         /\ name.host = IF Trusts(remote) /\ header # NoAddress
                        THEN header.host ELSE remote.host
<1>1. \A a \in Addresses : /\ Unmap(a).form # "mapped"
                           /\ Unmap(a).host = a.host
                           /\ Unmap(a).form = "v4" <=> a.form # "v6"
  BY DEF Unmap, Addresses
<1>2. (\E t \in cfg.trusted : PrefixContains(t, Unmap(remote))) <=> Trusts(remote)
  BY <1>1 DEF PrefixContains, Trusts
<1> QED BY <1>1, <1>2 DEF GetRealRemote

(* The log's name of a client is what the peer or a trusted proxy said.    *)
THEOREM ClientsNamedTruly == Spec => []NamedTruly
<1>1. Init => NamedTruly
  BY DEF Init, NamedTruly
<1>2. NamedTruly /\ [Next]_vars => NamedTruly'
  <2> SUFFICES ASSUME NamedTruly, [Next]_vars PROVE NamedTruly'
    OBVIOUS
  <2>1. CASE cfg' = cfg /\ last' = last
    BY <2>1 DEF NamedTruly, Trusts
  <2>2. ASSUME NEW c \in Clients, NEW remote \in Addresses,
               NEW header \in Addresses \cup {NoAddress}, NEW path, NEW agent,
               Handle(c, remote, header, path, agent)
        PROVE  NamedTruly'
    <3>1. /\ last'.logged = GetRealRemote(remote, header)
          /\ last'.remote = remote /\ last'.header = header /\ cfg' = cfg
      BY <2>2 DEF Handle
    <3> QED BY <3>1, NameFound DEF NamedTruly, Trusts
  <2>3. ASSUME NEW c \in Clients, DirectRequest(c) PROVE NamedTruly'
    BY <2>2, <2>3 DEF DirectRequest, Addresses, Hosts
  <2>4. ASSUME NEW c \in Clients, ProxiedRequest(c) PROVE NamedTruly'
    BY <2>2, <2>4 DEF ProxiedRequest, Addresses, Hosts, Unspecified
  <2> QED BY <2>1, <2>3, <2>4
    DEF Next, vars, RegisterRobots, RegisterPath, ReturnServer
<1> QED BY <1>1, <1>2, PTL DEF Spec
=============================================================================
