---- MODULE MicroCampaignMC ----
(* An instance of MicroCampaign and its invariant: the constants are in the .cfg file. *)
EXTENDS MicroCampaignInv
====
