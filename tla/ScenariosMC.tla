---- MODULE ScenariosMC ----
(* Instances of Scenarios for TLC: the constants are in the .cfg files. *)
EXTENDS Scenarios
====
