---- MODULE EnergyWindow ----
(***************************************************************************)
(* The seconds of run_energy_case: the laptop starts a workload on the     *)
(* device, sleeps, reads the meter for a while and waits for the workload. *)
(* The two sides share no signal.  That the readings are of the workload's *)
(* loop rests on the durations alone: the program counts its own from the  *)
(* end of its start-up, the laptop from the launch.  Time is a counter     *)
(* that starts at each launch; MicroCampaign has the rest of the campaign. *)
(***************************************************************************)
EXTENDS Integers

CONSTANTS
  Runs,                \* RUNS: repetitions of the case
  WarmupDuration,      \* WARMUP_DURATION
  MeasurementDuration, \* MEASUREMENT_DURATION
  TailDuration,        \* TAIL_DURATION
  MaxStartup,          \* bound: from the launch to the program's loop: ssh, fixtures, keys
  MaxLate,             \* bound: how late a sleep on the laptop ends
  MaxRead,             \* bound: how long the meter takes to answer, at most until the socket times out
  MaxOperation         \* bound: how long an operation goes on after the deadline

ASSUME EnergyWindowAssumption ==
  /\ Runs \in Nat \ {0} /\ MeasurementDuration \in Nat \ {0} /\ MaxRead \in Nat \ {0}
  /\ WarmupDuration \in Nat /\ TailDuration \in Nat
  /\ MaxStartup \in Nat /\ MaxLate \in Nat /\ MaxOperation \in Nat

\* TOTAL_WORKLOAD_DURATION
Duration == WarmupDuration + MeasurementDuration + TailDuration

VARIABLES
  now,       \* time since the launch
  run,       \* the repetition
  laptop,    \* where run_energy_case is
  start,     \* when meter.sample was called
  asked,     \* when the reading under way was requested
  samples,   \* the readings of the window
  meter,     \* whether the meter answers
  device,    \* where the workload program is
  loop,      \* when its loop began and ended
  rows       \* the rows of energy.csv, with the loop of their program

watch == <<start, asked, samples>>
program == <<device, loop>>
vars == <<now, run, laptop, watch, meter, program, rows>>

Times == [from : Nat, to : Nat]
Sample == [asked : Nat, answered : Nat]

Init ==
  /\ now = 0 /\ run = 1 /\ laptop = "Cool"
  /\ start = 0 /\ asked = 0 /\ samples = {} /\ meter = "on"
  /\ device = "Off" /\ loop = [from |-> 0, to |-> 0]
  /\ rows = {}

----
(* The laptop. *)

\* wait_for_cooldown raises when its ssh fails (check=True).
CooldownRaises ==
  /\ laptop = "Cool" /\ laptop' = "Raised"
  /\ UNCHANGED <<now, run, watch, meter, program, rows>>

\* wait_for_cooldown has returned, and Popen does so at once.
Launch ==
  /\ laptop = "Cool" /\ laptop' = "Sleeping" /\ device' = "Starting"
  /\ now' = 0 /\ samples' = {} /\ loop' = [from |-> 0, to |-> 0]
  /\ UNCHANGED <<run, start, asked, meter, rows>>

\* meter.sample asks for its first reading at once.
OpenWindow ==
  /\ laptop = "Sleeping" /\ now >= WarmupDuration
  /\ laptop' = "Reading" /\ start' = now /\ asked' = now
  /\ UNCHANGED <<now, run, samples, meter, program, rows>>

\* A reading that comes after the window is dropped; the loop asks for the next.
Answer ==
  /\ laptop = "Reading" /\ meter = "on" /\ now > asked
  /\ samples' = IF now - start < MeasurementDuration
                THEN samples \cup {[asked |-> asked, answered |-> now]} ELSE samples
  /\ IF now < start + MeasurementDuration THEN laptop' = laptop /\ asked' = now
                                  ELSE laptop' = "Waiting" /\ asked' = asked
  /\ UNCHANGED <<now, run, start, meter, program, rows>>

MeterDies ==
  /\ meter = "on" /\ meter' = "off"
  /\ UNCHANGED <<now, run, laptop, watch, program, rows>>

\* Mutant: the socket has no timeout.
TimeoutNever == FALSE /\ UNCHANGED vars

\* recv raises at the socket's timeout, or before it when the connection is closed, and
\* the campaign ends without waiting for the program.
Timeout ==
  /\ laptop = "Reading" /\ meter = "off"
  /\ laptop' = "Raised"
  /\ UNCHANGED <<now, run, watch, meter, program, rows>>

\* Mutant: the return code is not looked at.
WaitReturnsAnyCode ==
  /\ laptop = "Waiting" /\ device \in {"Ended", "Failed"}
  /\ rows' = rows \cup {[sample |-> s, loop |-> loop] : s \in samples}
  /\ IF run < Runs THEN run' = run + 1 /\ laptop' = "Cool" ELSE run' = run /\ laptop' = "Done"
  /\ UNCHANGED <<now, watch, meter, program>>

\* The program ended with code 0 or 3: its rows are written, and the next one is due.
WaitReturns ==
  /\ laptop = "Waiting" /\ device = "Ended"
  /\ rows' = rows \cup {[sample |-> s, loop |-> loop] : s \in samples}
  /\ IF run < Runs THEN run' = run + 1 /\ laptop' = "Cool" ELSE run' = run /\ laptop' = "Done"
  /\ UNCHANGED <<now, watch, meter, program>>

\* Any other code raises, and the readings are lost.
WaitRaises ==
  /\ laptop = "Waiting" /\ device = "Failed" /\ laptop' = "Raised"
  /\ UNCHANGED <<now, run, watch, meter, program, rows>>

----
(* The device. *)

\* The fixtures are loaded and the throttle bits read: the deadline is set.
BeginLoop ==
  /\ device = "Starting" /\ device' = "Looping" /\ loop' = [from |-> now, to |-> now]
  /\ UNCHANGED <<now, run, laptop, watch, meter, rows>>

EndLoop ==
  /\ device = "Looping" /\ now >= loop.from + Duration
  /\ device' = "Ended" /\ loop' = [loop EXCEPT !.to = now]
  /\ UNCHANGED <<now, run, laptop, watch, meter, rows>>

\* A panic, or ssh that loses the program (code 255), at any moment.
Fail ==
  /\ device \in {"Starting", "Looping"} /\ device' = "Failed"
  /\ loop' = [loop EXCEPT !.to = now]
  /\ UNCHANGED <<now, run, laptop, watch, meter, rows>>

----
(* Time passes while nobody is overdue. *)

Overdue ==
  \/ laptop = "Sleeping" /\ now >= WarmupDuration + MaxLate
  \/ laptop = "Reading" /\ now >= asked + MaxRead
  \/ device = "Starting" /\ now >= MaxStartup
  \/ device = "Looping" /\ now >= loop.from + Duration + MaxOperation

Tick ==
  /\ \/ laptop \in {"Sleeping", "Reading"}
     \/ laptop = "Waiting" /\ device \notin {"Ended", "Failed"}
  /\ ~Overdue
  /\ now' = now + 1
  /\ UNCHANGED <<run, laptop, watch, meter, program, rows>>

Next ==
  \/ CooldownRaises \/ Launch \/ OpenWindow \/ Answer \/ MeterDies \/ Timeout
  \/ WaitReturns \/ WaitRaises \/ BeginLoop \/ EndLoop \/ Fail \/ Tick

\* Time goes on, and the script, the program and the timeout act when they are due.
Spec == Init /\ [][Next]_vars /\ WF_vars(Next)

----
(* Properties. *)

TypeOK ==
  /\ now \in Nat /\ run \in 1..Runs /\ start \in Nat /\ asked \in Nat
  /\ laptop \in {"Cool", "Sleeping", "Reading", "Waiting", "Done", "Raised"}
  /\ device \in {"Off", "Starting", "Looping", "Ended", "Failed"}
  /\ meter \in {"on", "off"} /\ loop \in Times
  /\ samples \in SUBSET Sample /\ rows \in SUBSET [sample : Sample, loop : Times]

\* Start-up fits into the warm-up and a late sleep into the tail.
Timely == MaxStartup <= WarmupDuration /\ MaxLate <= TailDuration

\* Every row of energy.csv is a reading that was asked for and answered while the loop
\* of its own program ran, to its own deadline: never of the start-up, of the idle
\* device or of a program that crashed under the meter (run_energy_case).
RowsAreOfTheLoop ==
  \A r \in rows :
    /\ r.loop.from <= r.sample.asked /\ r.sample.answered <= r.loop.to
    /\ r.loop.to - r.loop.from >= Duration

\* A case comes to its end, with all its repetitions or with an exception, even if the
\* meter dies under a reading or the program fails: each side's waiting is bounded,
\* the meter's by the socket's timeout and process.wait by the program's own deadline.
CaseEnds == <>(laptop \in {"Done", "Raised"})
====
