------------------------ MODULE ConfigLayers_proofs ------------------------
(***************************************************************************)
(* Proofs about ConfigLayers, for any files and environments: whatever was *)
(* called before, Init's outcome is what its own inputs say.               *)
(***************************************************************************)
EXTENDS ConfigLayers, TLAPS

LEMMA DefaultsTotal == DOMAIN Defaults = Key
BY DEF Defaults, Key, Http, Router, Logger, Performance

LEMMA WithinKeys == \A x \in DOMAIN Within : Within[x] \subseteq Key
BY DEF Within, Key, Http, Router, Logger, Performance

LEMMA SectionsNotKeys == DOMAIN Within \cap Key = {}
BY DEF Within, Key, Http, Router, Logger, Performance

Layer(l) == \A x \in DOMAIN l \cap DOMAIN Within : DOMAIN l \cap Within[x] = {}

LEMMA OverlayOnce ==
  ASSUME NEW layer, NEW below, NEW k \in Key, Layer(layer)
  PROVE  ValueIn(Overlay(layer, below), k) =
           IF Speaks(layer, k) THEN ValueIn(layer, k) ELSE ValueIn(below, k)
BY DEF Overlay, ValueIn, Speaks, Layer

LEMMA StoreIsLayered ==
  ASSUME inputs.env \in Environments, NEW file \in Files \ {Unparsable}, NEW k \in Key
  PROVE  ValueIn(Overlay(inputs.env, Overlay(file, Defaults)), k) = Layered(file, k)
BY OverlayOnce, ConfigAssumption DEF Layered, Layer

-----------------------------------------------------------------------------
(* What each step of Init has come to, in terms of the inputs. *)
FromFile == inputs.file \in Files \ {Unparsable}
Untouched == proxies = "empty list" /\ perms = "0" /\ level = "info"
Stored == FromFile /\ snek = Overlay(inputs.env, Overlay(inputs.file, Defaults))

Value(k) == Convert(k, Layered(inputs.file, k))

(* The exported variables but for the socket's path: those of done have    *)
(* been forced on where the command line says so.                          *)
ExportedUpTo(done) ==
  /\ DOMAIN exported = Exported \cup {"unix_socket_path"}
  /\ \A k \in Exported :
       exported[k] = IF k \in done /\ Forced(k) THEN "true" ELSE Value(k)

ProxiesParsed ==
  /\ proxies = Value("trusted_proxies")
  /\ proxies # "bad list"

SocketRead ==
  IF Value("use_unix_socket") = "true"
  THEN /\ exported["unix_socket_path"] = Layered(inputs.file, "unix_socket_path")
       /\ perms = Layered(inputs.file, "unix_socket_permissions")
  ELSE exported["unix_socket_path"] = "" /\ perms = "0"

CInv ==
  /\ inputs = [file |-> inputs.file, env |-> inputs.env, opts |-> inputs.opts]
  /\ inputs.opts \in Options
  /\ pc \in {"file", "env", "proxies", "socket", "level"} => inputs.env \in Environments
  /\ pc = "file" =>
       /\ inputs.file \in Files
       /\ snek = Defaults /\ exported = Cleared /\ Untouched
  /\ pc = "env" =>
       /\ FromFile /\ snek = Overlay(inputs.file, Defaults)
       /\ exported = Cleared /\ Untouched
  /\ pc = "proxies" =>
       /\ Stored /\ Untouched /\ ExportedUpTo({})
       /\ exported["unix_socket_path"] = ""
  /\ pc = "socket" =>
       /\ Stored /\ perms = "0" /\ level = "info"
       /\ ExportedUpTo({"nocolor"}) /\ ProxiesParsed
       /\ exported["unix_socket_path"] = ""
  /\ pc = "level" =>
       /\ Stored /\ level = "info"
       /\ ExportedUpTo({"nocolor"}) /\ ProxiesParsed /\ SocketRead
  /\ InputsDecide

LEMMA CInit == Init => CInv
<1> SUFFICES ASSUME Init PROVE CInv
  OBVIOUS
<1>1. inputs = [file |-> <<>>, env |-> <<>>,
                opts |-> [debug |-> FALSE, trace |-> FALSE, nocolor |-> FALSE]]
  BY DEF Init
<1>2. inputs.opts \in Options
  BY <1>1 DEF Options
<1> QED BY <1>1, <1>2 DEF Init, CInv, InputsDecide

LEMMA ForcedOnly ==
  ASSUME inputs.opts \in Options, NEW k, Forced(k)
  PROVE  k \in {"debug", "trace", "nocolor"}
BY DEF Options, Forced

(* What is cleared is cleared once and for all. *)
LEMMA ClearedOnce == exported' = Cleared => exported' = Cleared'
<1> SUFFICES ASSUME exported' = Cleared PROVE exported' = Cleared'
  OBVIOUS
<1>1. exported'["directory"] = exported["directory"]
  BY DEF Cleared, ZeroValue, Exported, Key, Logger, ReadLater
<1> QED BY <1>1 DEF Cleared

(* Both calls forget everything but the inputs, and logDir until it is     *)
(* read anew.                                                              *)
LEMMA CallInitInv ==
  ASSUME CInv, NEW file \in Files, NEW env \in Environments, NEW opts \in Options,
         CallInit(file, env, opts)
  PROVE  CInv'
BY ClearedOnce DEF CallInit, ResetState, CInv, Untouched, InputsDecide

LEMMA CallGenerateConfigInv ==
  ASSUME CInv, NEW opts \in Options, CallGenerateConfig(opts)
  PROVE  CInv'
BY DEF CallGenerateConfig, ResetState, CInv, InputsDecide

LEMMA FileInv == CInv /\ LoadFile => CInv'
BY DEF LoadFile, CInv, Cleared, FromFile, Untouched, InputsDecide

LEMMA EnvInv == CInv /\ LoadEnv => CInv'
<1> SUFFICES ASSUME CInv, LoadEnv PROVE CInv'
  OBVIOUS
<1>1. /\ FromFile /\ inputs.env \in Environments
      /\ exported = Cleared /\ Untouched
      /\ snek' = Overlay(inputs.env, Overlay(inputs.file, Defaults))
      /\ exported' = [k \in DOMAIN exported |->
           IF k \in Exported THEN Convert(k, ValueIn(snek', k)) ELSE exported[k]]
      /\ inputs' = inputs /\ UNCHANGED <<proxies, perms, level>>
      /\ pc' = "proxies"
  BY DEF LoadEnv, CInv
<1>2. DOMAIN exported = Exported \cup {"unix_socket_path"}
  BY <1>1 DEF Cleared, ZeroValue
<1>3. "unix_socket_path" \notin Exported
  BY DEF Exported, ReadLater
<1>4. exported["unix_socket_path"] = ""
  BY <1>1 DEF Cleared, ZeroValue, Exported, ReadLater, Lists, Ints, Bools
<1>5. ASSUME NEW k \in Exported PROVE exported'[k] = Value(k)
  <2>1. k \in Key
    BY DEF Exported
  <2>2. ValueIn(snek', k) = Layered(inputs.file, k)
    BY <1>1, <2>1, StoreIsLayered DEF FromFile
  <2> QED BY <1>1, <1>2, <2>2 DEF Value
<1>6. ExportedUpTo({})'
  BY <1>1, <1>2, <1>5 DEF ExportedUpTo, Value, Layered
<1>7. exported'["unix_socket_path"] = ""
  BY <1>1, <1>2, <1>3, <1>4
<1>8. Stored' /\ Untouched'
  BY <1>1 DEF Stored, FromFile, Untouched
<1> QED BY <1>1, <1>6, <1>7, <1>8 DEF CInv, InputsDecide

LEMMA ProxiesInv == CInv /\ ParseProxies => CInv'
<1> SUFFICES ASSUME CInv, ParseProxies PROVE CInv'
  OBVIOUS
<1>1. /\ Stored /\ Untouched /\ ExportedUpTo({})
      /\ exported["unix_socket_path"] = ""
      /\ inputs' = inputs /\ UNCHANGED <<snek, perms, level>>
      /\ inputs.opts \in Options /\ inputs.env \in Environments
  BY DEF ParseProxies, CInv
<1>2. CASE exported["trusted_proxies"] = "bad list"
  BY <1>1, <1>2 DEF ParseProxies, CInv, InputsDecide
<1>3. CASE exported["trusted_proxies"] # "bad list"
  <2>1. /\ pc' = "socket" /\ proxies' = exported["trusted_proxies"]
        /\ exported' = IF inputs.opts.nocolor
                       THEN [exported EXCEPT !["nocolor"] = "true"] ELSE exported
    BY <1>3 DEF ParseProxies
  <2>2. "trusted_proxies" \in Exported /\ "unix_socket_path" # "nocolor"
    BY DEF Exported, ReadLater, Key, Http
  <2>3. Stored'
    BY <1>1 DEF Stored, FromFile
  <2>4. ProxiesParsed'
    BY <1>1, <1>3, <2>1, <2>2 DEF ProxiesParsed, ExportedUpTo, Value, Layered
  <2>5. Forced("nocolor") <=> inputs.opts.nocolor
    BY <1>1 DEF Forced, Options
  <2>6. ExportedUpTo({"nocolor"})'
    BY <1>1, <2>1, <2>5 DEF ExportedUpTo, Value, Layered, Forced
  <2>7. exported'["unix_socket_path"] = ""
    BY <1>1, <2>1, <2>2 DEF ExportedUpTo
  <2> QED BY <1>1, <2>1, <2>3, <2>4, <2>6, <2>7 DEF CInv, InputsDecide, Untouched
<1> QED BY <1>2, <1>3

LEMMA SocketInv == CInv /\ UnixSocket => CInv'
<1> SUFFICES ASSUME CInv, UnixSocket PROVE CInv'
  OBVIOUS
<1>1. /\ Stored /\ perms = "0" /\ level = "info"
      /\ ExportedUpTo({"nocolor"}) /\ ProxiesParsed
      /\ exported["unix_socket_path"] = ""
      /\ inputs' = inputs /\ UNCHANGED <<snek, proxies, level>>
      /\ inputs.opts \in Options /\ inputs.env \in Environments
      /\ pc' \in {"level", "failed"}
  BY DEF UnixSocket, CInv
<1>2. Stored' /\ ProxiesParsed'
  BY <1>1 DEF Stored, FromFile, ProxiesParsed, Value, Layered
<1>3. /\ "use_unix_socket" \in Exported /\ "unix_socket_path" \notin Exported
      /\ "unix_socket_path" \in Key /\ "unix_socket_permissions" \in Key
  BY DEF Exported, ReadLater, Key, Http
<1>4. exported["use_unix_socket"] = Value("use_unix_socket")
  BY <1>1, <1>3 DEF ExportedUpTo
<1>5. /\ ValueIn(snek, "unix_socket_path") = Layered(inputs.file, "unix_socket_path")
      /\ ValueIn(snek, "unix_socket_permissions")
            = Layered(inputs.file, "unix_socket_permissions")
  BY <1>1, <1>3, StoreIsLayered DEF Stored, FromFile
<1>6. ExportedUpTo({"nocolor"})'
  BY <1>1, <1>3 DEF UnixSocket, ExportedUpTo, Value, Layered, Forced
<1>7. CASE pc' = "failed"
  BY <1>1, <1>7 DEF CInv, InputsDecide
<1>8. CASE pc' = "level"
  <2>1. SocketRead'
    BY <1>1, <1>4, <1>5, <1>8 DEF UnixSocket, SocketRead, Value, Layered, ExportedUpTo
  <2> QED BY <1>1, <1>2, <1>6, <1>8, <2>1 DEF CInv, InputsDecide
<1> QED BY <1>1, <1>7, <1>8

LEMMA LevelInv == CInv /\ SetLevel => CInv'
<1> SUFFICES ASSUME CInv, SetLevel PROVE CInv'
  OBVIOUS
<1>1. /\ Stored /\ level = "info"
      /\ ExportedUpTo({"nocolor"}) /\ ProxiesParsed /\ SocketRead
      /\ inputs' = inputs /\ UNCHANGED <<snek, proxies, perms>>
      /\ inputs.opts \in Options /\ inputs.env \in Environments
      /\ pc' = "ready"
  BY DEF SetLevel, CInv
<1>2. /\ Forced("debug") <=> inputs.opts.debug
      /\ Forced("trace") <=> inputs.opts.trace
  BY <1>1 DEF Forced, Options
<1>3. /\ {"debug", "trace", "trusted_proxies", "use_unix_socket"} \subseteq Exported
      /\ "unix_socket_path" \notin Exported
  BY DEF Exported, ReadLater, Key, Http, Logger
<1>4. /\ ~ Forced("trusted_proxies") /\ ~ Forced("use_unix_socket")
  BY <1>1, ForcedOnly
<1> DEFINE debug == exported["debug"] = "true" \/ inputs.opts.debug
           trace == exported["trace"] = "true" \/ inputs.opts.trace
<1>5. /\ debug <=> Setting(inputs.file, "debug") = "true"
      /\ trace <=> Setting(inputs.file, "trace") = "true"
  BY <1>1, <1>2, <1>3 DEF ExportedUpTo, Setting, Value
<1>6. /\ level' = IF trace THEN "trace" ELSE IF debug THEN "debug" ELSE level
      /\ exported' = [exported EXCEPT
           !["debug"] = IF debug THEN "true" ELSE @,
           !["trace"] = IF trace THEN "true" ELSE @]
  BY DEF SetLevel
<1>7. ASSUME NEW k \in Exported PROVE exported'[k] = Setting(inputs.file, k)
  <2>1. CASE k \in {"debug", "trace"}
    BY <1>1, <1>2, <1>3, <1>5, <1>6, <2>1 DEF ExportedUpTo, Setting, Value
  <2>2. CASE k \notin {"debug", "trace"}
    <3>1. exported'[k] = exported[k]
      BY <1>1, <1>6, <2>2 DEF ExportedUpTo
    <3>2. Forced(k) => k = "nocolor"
      BY <1>1, <2>2, ForcedOnly
    <3> QED BY <1>1, <3>1, <3>2 DEF ExportedUpTo, Setting, Value
  <2> QED BY <2>1, <2>2
<1>8. exported'["unix_socket_path"] = exported["unix_socket_path"]
  BY <1>1, <1>6 DEF ExportedUpTo
<1>9. SettingsOf(inputs.file)'
  BY <1>1, <1>4, <1>5, <1>6, <1>7, <1>8
  DEF SettingsOf, Setting, Layered, Forced, Value, ProxiesParsed, SocketRead
<1> QED BY <1>1, <1>9 DEF CInv, InputsDecide

LEMMA CNext == CInv /\ [Next]_vars => CInv'
<1> SUFFICES ASSUME CInv, [Next]_vars PROVE CInv'
  OBVIOUS
<1>1. CASE StartLogger
  BY <1>1 DEF StartLogger, CInv, InputsDecide
<1>2. CASE GetSrv
  BY <1>2 DEF GetSrv, CInv, InputsDecide
<1>3. CASE UNCHANGED vars
  BY <1>3 DEF vars, configVars, CInv, Cleared, FromFile, Untouched, Stored, ExportedUpTo,
              Value, Layered, Forced, ProxiesParsed, SocketRead, InputsDecide,
              SettingsOf, Setting
<1> QED BY <1>1, <1>2, <1>3, CallInitInv, CallGenerateConfigInv,
           FileInv, EnvInv, ProxiesInv, SocketInv, LevelInv
        DEF Next

LEMMA CCorrect == Spec => []CInv
BY CInit, CNext, PTL DEF Spec

(* After any calls of Init and GenerateConfig in one process, the next one *)
(* gives the settings its own file, environment and options determine.     *)
THEOREM InputsDecideAll == Spec => []InputsDecide
<1>1. CInv => InputsDecide
  BY DEF CInv
<1> QED BY <1>1, CCorrect, PTL

LEMMA TablesAgree == ASSUME NEW k \in Key PROVE DefaultConfigTOML[k] = Defaults[k]
BY DEF DefaultConfigTOML, Defaults, Key, Http, Router, Logger, Performance

LEMMA FileOfDefaults ==
  ASSUME NEW k \in Key
  PROVE  Layered(DefaultConfigTOML, k) = Layered(<<>>, k)
<1>1. DOMAIN DefaultConfigTOML = Key
  BY DEF DefaultConfigTOML, Key, Http, Router, Logger, Performance
<1>2. Speaks(DefaultConfigTOML, k) /\ ~ Speaks(<<>>, k)
  BY <1>1 DEF Speaks
<1> QED BY <1>1, <1>2, TablesAgree, DefaultsTotal DEF Layered, ValueIn

(* The written default config says what the table of defaults says, in any *)
(* environment, on either platform.                                        *)
THEOREM WrittenDefaultsNeutral == Spec => []WrittenDefaultNeutral
<1>1. ASSUME NEW k \in Key PROVE Setting(DefaultConfigTOML, k) = Setting(<<>>, k)
  BY <1>1, FileOfDefaults DEF Setting
<1>2. {"trusted_proxies", "use_unix_socket", "trace", "debug", "unix_socket_path",
       "unix_socket_permissions"} \subseteq Key /\ Exported \subseteq Key
  BY DEF Key, Http, Logger, Exported
<1>3. InputsDecide => WrittenDefaultNeutral
  BY <1>1, <1>2, FileOfDefaults DEF InputsDecide, WrittenDefaultNeutral, SettingsOf
<1> QED BY <1>3, InputsDecideAll, PTL

-----------------------------------------------------------------------------
LEMMA Converted ==
  ASSUME NEW k, NEW v
  PROVE  /\ k \in Lists => Convert(k, v) \in ListValues
         /\ k \in Ints => Convert(k, v) \in IntValues
         /\ k \in Bools => Convert(k, v) \in BoolValues
BY DEF Convert, Lists, Ints, Bools, ListValues, IntValues, BoolValues

Kinds(e) ==
  /\ DOMAIN e = Exported \cup {"unix_socket_path"}
  /\ \A k \in Lists : e[k] \in ListValues
  /\ \A k \in Bools : e[k] \in BoolValues
  /\ \A k \in Ints : e[k] \in IntValues

LEMMA KindsApart ==
  /\ Lists \cup Ints \cup Bools \subseteq Exported
  /\ Lists \cap Bools = {} /\ Ints \cap Bools = {} /\ Lists \cap Ints = {}
  /\ "unix_socket_path" \notin Lists \cup Ints \cup Bools
  /\ {"nocolor", "debug", "trace"} \subseteq Bools
  /\ "true" \in BoolValues
BY DEF Lists, Ints, Bools, Exported, ReadLater, Key, Http, Router, Logger,
       Performance, BoolValues

LEMMA ZeroKinds == Kinds(ZeroValue)
BY KindsApart DEF ZeroValue, Kinds, ListValues, IntValues, BoolValues

LEMMA KindsForced ==
  ASSUME NEW e, Kinds(e), NEW k \in Bools, NEW v \in BoolValues
  PROVE  Kinds([e EXCEPT ![k] = v])
BY KindsApart DEF Kinds

LEMMA OverlayNames ==
  ASSUME NEW layer, NEW below, DOMAIN layer \subseteq Name, DOMAIN below \subseteq Name
  PROVE  DOMAIN Overlay(layer, below) \subseteq Name
BY DEF Overlay

LEMMA TNext == CInv /\ TypeOK /\ [Next]_vars => TypeOK'
<1> SUFFICES ASSUME CInv, TypeOK, [Next]_vars PROVE TypeOK'
  OBVIOUS
<1>0. Kinds(exported)
  BY DEF TypeOK, Kinds
<1>1. ASSUME ResetState, pc' \in {"file", "idle"}, UNCHANGED <<logs, workers>>
      PROVE  TypeOK'
  <2>1. Kinds(Cleared)
    BY ZeroKinds, KindsApart DEF Kinds, Cleared, Lists, Ints, Bools
  <2> QED BY <1>1, <2>1, DefaultsTotal DEF ResetState, TypeOK, Kinds, Name, ListValues
<1>2. CASE LoadFile
  <2>1. inputs.file # Unparsable => DOMAIN Overlay(inputs.file, snek) \subseteq Name
    BY <1>2, ConfigAssumption, OverlayNames DEF LoadFile, CInv, TypeOK
  <2> QED BY <1>2, <2>1 DEF LoadFile, TypeOK
<1>3. CASE LoadEnv
  <2>1. DOMAIN snek' \subseteq Name
    BY <1>3, ConfigAssumption, OverlayNames DEF LoadEnv, CInv, TypeOK
  <2>2. Kinds(exported')
    BY <1>0, <1>3, Converted, KindsApart DEF LoadEnv, Kinds
  <2> QED BY <1>3, <2>1, <2>2 DEF LoadEnv, TypeOK, Kinds
<1>4. CASE ParseProxies
  <2>1. Kinds(exported')
    <3>1. exported' = exported \/ exported' = [exported EXCEPT !["nocolor"] = "true"]
      BY <1>4 DEF ParseProxies
    <3>2. Kinds([exported EXCEPT !["nocolor"] = "true"])
      BY <1>0, KindsForced, KindsApart
    <3>3. CASE exported' = exported
      BY <3>3, <1>0
    <3>4. CASE exported' = [exported EXCEPT !["nocolor"] = "true"]
      BY <3>4, <3>2
    <3> QED BY <3>1, <3>3, <3>4
  <2>2. proxies' \in ListValues
    BY <1>4 DEF ParseProxies, TypeOK, Lists
  <2> QED BY <1>4, <2>1, <2>2 DEF ParseProxies, TypeOK, Kinds
<1>5. CASE UnixSocket
  <2>1. Kinds(exported')
    BY <1>0, <1>5, KindsApart DEF UnixSocket, Kinds
  <2> QED BY <1>5, <2>1 DEF UnixSocket, TypeOK, Kinds
<1>6. CASE SetLevel
  <2>1. PICK d, t \in BoolValues :
          exported' = [[exported EXCEPT !["debug"] = d] EXCEPT !["trace"] = t]
    BY <1>0, <1>6, KindsApart DEF SetLevel, Kinds
  <2>2. Kinds(exported')
    BY <1>0, <2>1, KindsForced, KindsApart
  <2>3. level' \in {"info", "debug", "trace"}
    BY <1>6 DEF SetLevel, TypeOK
  <2> QED BY <1>6, <2>2, <2>3 DEF SetLevel, TypeOK, Kinds
<1>7. CASE StartLogger
  <2>1. Kinds(exported')
    BY <1>0, <1>7, KindsForced, KindsApart DEF StartLogger
  <2>2. logs'.dated \in BOOLEAN
    BY <1>7 DEF StartLogger
  <2> QED BY <1>7, <2>1, <2>2 DEF StartLogger, TypeOK, Kinds
<1>8. CASE GetSrv
  <2>1. Kinds(exported') /\ workers' \in IntValues
    BY <1>0, <1>8, KindsApart DEF GetSrv, Kinds, DefaultConcurrency, IntValues, Ints
  <2> QED BY <1>8, <2>1 DEF GetSrv, TypeOK, Kinds
<1>9. CASE UNCHANGED vars
  BY <1>9 DEF vars, configVars, TypeOK
<1> QED BY <1>1, <1>2, <1>3, <1>4, <1>5, <1>6, <1>7, <1>8, <1>9
        DEF Next, CallInit, CallGenerateConfig

(* Every setting has its kind in every state, whatever texts the layers    *)
(* give it.                                                                *)
THEOREM ConfigTypes == Spec => []TypeOK
<1>1. Init => TypeOK
  <2> SUFFICES ASSUME Init PROVE TypeOK
    OBVIOUS
  <2>1. DOMAIN snek \subseteq Name
    <3>1. snek = <<>>
      BY DEF Init
    <3>2. DOMAIN <<>> = {}
      OBVIOUS
    <3> QED BY <3>1, <3>2
  <2> QED BY <2>1, ZeroKinds DEF Init, TypeOK, Kinds, ListValues
<1> QED BY <1>1, CCorrect, TNext, PTL DEF Spec
=============================================================================
