--------------------------- MODULE MCBenchClient ---------------------------
(* Instantiates BenchClient for TLC: one worker thread with two           *)
(* connections, two requests each, messages of two parts and socket       *)
(* buffers of three parts, so sends and receives are split and both       *)
(* directions can fill up.                                                *)
EXTENDS BenchClient

MCNConns == 2
MCNReq == 2
MCP == 2
MCCap == 3
MCFailPoints == {"connect", "thread", "epoll"}
====
