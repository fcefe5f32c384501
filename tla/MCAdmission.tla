---------------------------- MODULE MCAdmission ----------------------------
(***************************************************************************)
(* Model-checking instance of Admission: entries written with and without  *)
(* slash and spaces, empty, doubled, and the path of robots.txt itself;    *)
(* every mode and listener; a proxy that is trusted, trusted as an         *)
(* IPv4-mapped prefix, or not; a socket whose peer is trusted or not.      *)
(***************************************************************************)
EXTENDS Admission

CONSTANTS alice, bob, proxy

MCClients == {alice, bob}

MCPaths == {
  <<>>,
  << <<"wp">>, <<"/", "admin">> >>,
  << <<"space", "wp", "space">>, <<"/">> >>,
  << <<"space">>, <<"/", "/", "wp">> >>,
  << <<"wp">>, <<"/", "wp">> >>,
  << <<"robots.txt">> >> }

MCTrusted == {
  {},
  {[family |-> "v4", hosts |-> {proxy, "0.0.0.0"}]},
  {[family |-> "v6", hosts |-> {proxy}], [family |-> "v4", hosts |-> {alice}]}}

MCConfigs ==
  [makerobots : BOOLEAN, catchall : BOOLEAN, paths : MCPaths,
   denied : {{"curl"}}, trusted : MCTrusted,
   listener : {"tcp", "unix", "unixNoPath"}]

MCRequests == {<<"/">>, <<"/", "wp">>, <<"/", "admin">>, <<"/", "/", "wp">>,
               <<"/", "robots.txt">>, <<"/", "other">>}
MCAgents == {{"Mozilla"}, {"curl", "Mozilla"}}
=============================================================================
