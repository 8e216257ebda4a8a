--------------------------- MODULE MCUnixSession ---------------------------
(* The runs of UnixSession: which faults each of them allows.              *)
EXTENDS UnixSession

Troubled    == {"io", "supervisor", "waiter"}
Orderly     == {"isolate", "gc", "kill", "spawn", "setup", "reactor", "closer"}
=============================================================================
