---- MODULE Thermal ----
(***************************************************************************)
(* What keeps heat out of the numbers, or marks it: WaitForCooldown before  *)
(* a benchmark, and the ThrottleWatch that looks at the firmware's bits     *)
(* before and after it.  The device heats, cools and limits itself, and its *)
(* sensor and vcgencmd fail, at any moment; time is counted in intervals.   *)
(* EnergyCase runs these steps with the program they protect.               *)
(***************************************************************************)
EXTENDS Integers

CONSTANTS
  Threshold,   \* TEMPERATURE_THRESHOLD
  MaxTemp,     \* bound of the temperature, in steps as coarse as a poll sees
  MaxPolls,    \* cooldownTimeout / cooldownPollInterval
  Live         \* the bits of the moment that the firmware changes, of 0..3

\* Bit 3 is the soft temperature limit, bit 19 says that it has been on since the boot.
SoftLimit == 3
Since == 16

VARIABLES
  word,       \* the number that get_throttled shows
  step,       \* where the program is
  polls,      \* intervals that have passed in WaitForCooldown
  last,       \* its last reading
  bits,       \* those of NewThrottleWatch
  readable,   \* whether vcgencmd answered at both ends
  limited,    \* whether the limit has been on in the measurement, and off
  throttled   \* what IsThrottled returned

wait == <<polls, last>>
marks == <<bits, readable, limited, throttled>>

----
(* readThrottleBits: hexadecimal, to a number, to binary digits, padded and reversed. *)

IsOn(bit, number) == (number \div 2 ^ bit) % 2 = 1

\* FormatUint(number, 2) has as many digits as the number needs, "0" for zero.
Width(number) == CHOOSE w \in 1 .. 20 : number < 2 ^ w /\ (w = 1 \/ number >= 2 ^ (w - 1))

\* Digit k, from the left and from 1, after 20 - width zeroes are put before the digits.
Digit(number, width, k) == k > 20 - width /\ IsOn(20 - k, number)

Unreadable == {-1}

\* The indices with a "1": index i of the reversed string is digit 20 - i.
Bits == LET width == Width(word) IN {i \in 0 .. 19 : Digit(word, width, 20 - i)}

\* vcgencmd answers, or it does not.
ReadBits == {Bits, Unreadable}

----
(* WaitForCooldown. *)

NoReading == [ok |-> FALSE, temp |-> 0]

\* readCPUTemperature, of a device as hot as it may be by now: 0 degrees stands for a
\* reading that failed.
Readings == {NoReading} \cup [ok : {TRUE}, temp : 0 .. MaxTemp]

\* Mutant: the threshold itself is cool enough.
IsCoolAtThreshold(reading) == reading.temp <= Threshold

IsCool(reading) == reading.temp < Threshold

\* There is no wait when the sensor cannot be read, or the device is cool.
FirstReading ==
  /\ step = "start" /\ last' \in Readings
  /\ step' = IF ~last'.ok \/ IsCool(last') THEN "begin" ELSE "wait"
  /\ UNCHANGED <<word, polls, marks>>

\* A sleep takes an interval, or more on a busy device; only then is the deadline looked
\* at again.  Whether the sensor was read is not looked at here.
Poll ==
  /\ step = "wait" /\ polls < MaxPolls
  /\ polls' \in (polls + 1) .. MaxPolls /\ last' \in Readings
  /\ step' = IF IsCool(last') THEN "begin" ELSE step
  /\ UNCHANGED <<word, marks>>

TimesOut ==
  /\ step = "wait" /\ polls = MaxPolls /\ step' = "begin"
  /\ UNCHANGED <<word, wait, marks>>

WaitForCooldown == FirstReading \/ Poll \/ TimesOut

----
(* The firmware, and the ThrottleWatch. *)

Limit(number) == IsOn(SoftLimit, number)

\* A live bit comes, with the bit that remembers it, or goes; what the limit is while
\* the benchmark measures is noted.
LimitChanges ==
  /\ step \in {"begin", "measure"}
  /\ \E b \in Live :
       word' = IF IsOn(b, word) THEN word - 2 ^ b
               ELSE word + 2 ^ b + IF IsOn(b + Since, word) THEN 0 ELSE 2 ^ (b + Since)
  /\ limited' = IF step = "measure" THEN limited \cup {Limit(word')} ELSE limited
  /\ UNCHANGED <<step, wait, bits, readable, throttled>>

\* NewThrottleWatch; the wait's readings have been logged, and are forgotten.
Begin ==
  /\ step = "begin" /\ step' = "measure" /\ bits' \in ReadBits /\ limited' = {Limit(word)}
  /\ polls' = 0 /\ last' = NoReading
  /\ UNCHANGED <<word, readable, throttled>>

\* Mutant: what the firmware remembers counts, from before the measurement too.
IsThrottledEver(begin, end) ==
  Unreadable \notin {begin, end} /\ (SoftLimit \in begin \cup end \/ SoftLimit + Since \in end)

IsThrottled(begin, end) ==
  Unreadable \notin {begin, end} /\ SoftLimit \in begin \cup end

End ==
  /\ step = "measure" /\ step' = "done"
  /\ \E end \in ReadBits :
       /\ readable' = (Unreadable \notin {bits, end})
       /\ throttled' = IsThrottled(bits, end)
  /\ UNCHANGED <<word, wait, bits, limited>>

----
\* Since the boot nothing has been limited, or the voltage has been low.
Init ==
  /\ word \in {0, 2 ^ Since} /\ step = "start" /\ polls = 0 /\ last = NoReading
  /\ bits = {} /\ readable = FALSE /\ limited = {} /\ throttled = FALSE

\* The next program on the device.
Restart ==
  /\ step' = "start" /\ polls' = 0 /\ last' = NoReading
  /\ bits' = {} /\ readable' = FALSE /\ limited' = {} /\ throttled' = FALSE
  /\ UNCHANGED word
====
