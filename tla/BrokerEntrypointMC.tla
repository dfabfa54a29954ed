---- MODULE BrokerEntrypointMC ----
(* Instances of BrokerEntrypoint for TLC: the constants are in the .cfg file. *)
EXTENDS BrokerEntrypoint
====
