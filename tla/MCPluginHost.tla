---------------------------- MODULE MCPluginHost -----------------------------
(* Instances of PluginHost: three plugins, two native modules.               *)
EXTENDS PluginHost, TLC

CONSTANTS v1, v2, v3, m1, m2

HostSymmetry == Permutations({v1, v2, v3}) \cup Permutations({m1, m2})
=============================================================================
