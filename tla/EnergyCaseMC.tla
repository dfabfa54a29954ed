---- MODULE EnergyCaseMC ----
(* An instance of EnergyCase for TLC: the constants are in the .cfg file. *)
EXTENDS EnergyCase, EnergyWindowInv
====
