---- MODULE EnergyCase ----
(***************************************************************************)
(* A case of the energy stage with its heat: wait_for_cooldown runs on the  *)
(* device before each workload, and the workload's exit code says whether   *)
(* the firmware throttled its loop.  The seconds are those of EnergyWindow, *)
(* the sensor and the bits those of Thermal; here each goes on only when    *)
(* the other lets it.                                                       *)
(***************************************************************************)
EXTENDS EnergyWindow

CONSTANTS Threshold, MaxTemp, MaxPolls, Live

ASSUME ThermalAssumption ==
  /\ Threshold \in 1 .. MaxTemp /\ MaxTemp \in Nat /\ MaxPolls \in Nat \ {0}
  /\ Live \subseteq 0 .. 3 /\ 3 \in Live

VARIABLES
  word, step, polls, last, bits, readable, limited, throttled,
  written   \* the throttled column that was written, with what it stands for

heat == <<word, step, polls, last, bits, readable, limited, throttled>>
caseVars == <<vars, heat, written>>

T == INSTANCE Thermal

CaseInit == Init /\ T!Init /\ written = {}

----
\* ssh runs the cooldown binary, and subprocess.run waits for it.
CoolsDown ==
  /\ laptop = "Cool" /\ T!WaitForCooldown
  /\ UNCHANGED <<vars, written>>

Launches == step = "begin" /\ Launch /\ UNCHANGED <<heat, written>>

\* The bits are read before the deadline is set, and again when the loop has ended.
WatchBegins ==
  /\ device = "Starting" /\ T!Begin
  /\ UNCHANGED <<vars, written>>

LoopBegins == step = "measure" /\ BeginLoop /\ UNCHANGED <<heat, written>>

LoopEnds == EndLoop /\ UNCHANGED <<heat, written>>

WatchEnds ==
  /\ device = "Ended" /\ T!End
  /\ UNCHANGED <<vars, written>>

Fails ==
  /\ Fail /\ step' = "done"
  /\ UNCHANGED <<word, polls, last, bits, readable, limited, throttled, written>>

\* Exit code 3 of a throttled workload goes into every row of its repetition.
Writes ==
  /\ step = "done" /\ WaitReturns
  /\ written' = written \cup {[throttled |-> throttled, limited |-> limited,
                              readable |-> readable]}
  /\ IF run < Runs THEN T!Restart ELSE UNCHANGED heat

Waits ==
  /\ CooldownRaises \/ OpenWindow \/ Answer \/ MeterDies \/ Timeout \/ WaitRaises \/ Tick
  /\ UNCHANGED <<heat, written>>

FirmwareActs == laptop # "Raised" /\ T!LimitChanges /\ UNCHANGED <<vars, written>>

CaseStep ==
  \/ CoolsDown \/ Launches \/ WatchBegins \/ LoopBegins \/ LoopEnds \/ WatchEnds
  \/ Fails \/ Writes \/ Waits

CaseNext == CaseStep \/ FirmwareActs

\* Time goes on, and the script and the programs act when they are due; nothing is
\* assumed of the device.
CaseSpec == CaseInit /\ [][CaseNext]_caseVars /\ WF_caseVars(CaseStep)

----
(* Properties. *)

\* A workload begins hot, with a sensor that shows it, only after the whole timeout
\* (WaitForCooldown); a sensor that fails, even once, ends the wait.
HotOnlyAfterTheTimeout ==
  step \notin {"start", "wait"} /\ last.ok /\ last.temp >= Threshold => polls = MaxPolls

\* Rows are marked as throttled only if the soft limit was on between the two looks of
\* their own program, just before its loop and just after it: neither another repetition,
\* nor other bits, nor what the firmware remembers marks them (readThrottleBits,
\* IsThrottled, run_energy_case).
NoFalseMark == \A r \in written : r.throttled => TRUE \in r.limited

\* And if it was on throughout, they are, provided vcgencmd answered at both ends.
NoLostMark == \A r \in written : r.limited = {TRUE} /\ r.readable => r.throttled

\* The throttled column of energy.csv says what it should.
MarkIsTrue == NoFalseMark /\ NoLostMark
====
