---------------------------- MODULE MCMPSCQueue ----------------------------
EXTENDS MPSCQueue
====
