---------------------------- MODULE MCProxyFiles ----------------------------
(* Two services that may claim the same host, two sets of servers.         *)
EXTENDS ProxyFiles, TLC

CONSTANTS s1, s2, r1, r2

MCHostsOf == r1 :> {"app"} @@ r2 :> {"www", "preview"}
MCPreviewHosts == r1 :> {"app"} @@ r2 :> {"app", "preview"}
MCUps == {<<"blue", "down">>, <<"green", "blue">>}
Config(u, r) == [up |-> u, route |-> r]
MCConfigs == {Config(<<"blue", "down">>, r1), Config(<<"green", "blue">>, r1), Config(<<"green", "blue">>, r2)}
=============================================================================
