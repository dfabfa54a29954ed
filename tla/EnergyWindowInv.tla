---- MODULE EnergyWindowInv ----
(* The inductive invariant of EnergyWindow, conjunct by conjunct. *)
EXTENDS EnergyWindow

Active == laptop \in {"Sleeping", "Reading", "Waiting"}

\* Neither the sleep nor the start-up takes longer than its bound.
OnTime ==
  /\ laptop = "Sleeping" => now <= WarmupDuration + MaxLate
  /\ device = "Starting" => now <= MaxStartup

\* What is known of the loop of the program that was launched last.
LoopKnown ==
  /\ Active => device # "Off"
  /\ device \in {"Looping", "Ended"} => loop.from <= MaxStartup
  /\ device = "Ended" => loop.to >= loop.from + Duration

\* The window opened after the sleep, and its readings are inside it.
WindowKnown ==
  /\ laptop \in {"Reading", "Waiting"} => WarmupDuration <= start /\ start <= WarmupDuration + MaxLate
  /\ laptop = "Reading" => start <= asked
  /\ laptop = "Sleeping" => samples = {}
  /\ laptop \in {"Reading", "Waiting"} =>
       \A s \in samples : start <= s.asked /\ s.answered < start + MeasurementDuration

IInv == TypeOK /\ OnTime /\ LoopKnown /\ WindowKnown /\ RowsAreOfTheLoop
====
