------------------------- MODULE MCServiceLifecycle -------------------------
(* Two processes on one data directory, and a client. *)
EXTENDS ServiceLifecycle
CONSTANTS i1, i2, c1
MCInstances == {i1, i2}
MCClients == {c1}
=============================================================================
