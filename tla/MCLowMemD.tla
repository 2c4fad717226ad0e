----------------------------- MODULE MCLowMemD ------------------------------
(* A system of init, the daemon and up to three processes that compete for *)
(* three units of memory; the programs of two of them are named with -x,   *)
(* and there is room for one name.                                         *)
EXTENDS LowMemD

MCProg == <<"init", "lowmemd", "desktop", "browser", "game">>
TwoNames == <<"desktop", "game">>
=============================================================================
