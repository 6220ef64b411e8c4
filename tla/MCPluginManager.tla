-------------------------- MODULE MCPluginManager --------------------------
(* PluginManager with a session of one call and two gRPC requests, one of  *)
(* them for the plugin version and dataset the session profiles.           *)
EXTENDS PluginManager, TLC

CONSTANTS s1, g1, g2

MCExecs == {s1, g1, g2}
MCTarget == s1 :> "a" @@ g1 :> "a" @@ g2 :> "b"
MCFiles == s1 :> 1 @@ g1 :> 2 @@ g2 :> 1
============================================================================
