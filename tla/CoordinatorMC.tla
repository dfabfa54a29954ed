---- MODULE CoordinatorMC ----
(* Coordinator with few scenarios and campaigns. *)
EXTENDS Coordinator

AllButTheLast == 1..(MaxCampaigns - 1)
====
