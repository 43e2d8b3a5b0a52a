-------------------------- MODULE MCServerLifecycle --------------------------
EXTENDS ServerLifecycle
====
