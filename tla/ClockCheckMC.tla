---- MODULE ClockCheckMC ----
(* Instances of ClockCheck for TLC. *)
EXTENDS ClockCheckInv

Behind == -1
====
