# MQTT-Thesis in TLA+

This directory is the verification development of the benchmark system in this
repository: TLA+ modules translated from its Go, Python and shell sources, TLC
configurations that check them on small instances, and theorems checked by TLAPS.

    tlc -config MacroSessionFaults.cfg MacroSessionMC.tla    # one run
    tlapm CoordinatorProofs.tla                              # one module of proofs

`PROJECT.json` maps every definition that models code to the lines it models and
lists the runs, the mutants that show each property can fail, the hazards and the
theorems.

## The system

The program measures what it costs to protect MQTT payloads. It has two halves.

* **Macro benchmark** (Go). A coordinator on a laptop provisions keys, copies them
  and the broker's CA to two other machines, and for each of eight scenarios (no
  envelope, pre-shared key, RSA, CP-ABE, each with a standard and a light
  serialization and cipher) builds, starts and drives a *publisher* and a
  *subscriber* process over ssh. The two exchange MQTT 3.1.1 messages of QoS 0 over
  TLS through a Mosquitto broker; each counts its own CPU cycles with a `perf` child
  and writes a CSV file, which the coordinator fetches. A report joins the files.
* **Micro benchmarks** (Go binaries driven by Python). For each experiment an
  orchestrator builds the binaries on one device, provisions key fixtures, and takes
  memory, energy (with an external power meter) and timing figures of one
  cryptographic operation at a time; a report joins the three.

### Inventory

| Part | Source | State | Operations | What is hard |
|---|---|---|---|---|
| Session orchestration | `orchestrate/orchestrate_macro.go` (`orchestrateMacro`, `runCommunicationSignals`) | its place in the protocol, the pipes of two ssh clients | start, GO, READY, DONE, FINISH, wait | three processes in lockstep without timeouts; an endpoint or the orchestrator may end at any point |
| Endpoint loops | `benchmark/cmd/macro/shared/runner.go` | loop indices, result tables, the CSV files | connect, run, write results | nested loops that must agree with the orchestrator's flat count; slot arithmetic |
| Macro benchmarks | `benchmark/macro/runner.go` | message index, tokens, result channel, closure of the handler | publish, subscribe, handle, wait | the handler runs on another goroutine and counts every message of the topic |
| MQTT client and broker | `internal/mqtt`, `broker/` | connection, route, subscription, messages in transit | connect, subscribe, publish, disconnect | QoS 0 loss, lost connections that only print a line |
| Cycle counter | `benchmark/cpu/cpu_perf.go` | perf child, control and ack pipes | start, enable, stop, abort | parent and child over two pipes; every return path must release child and pipes |
| Campaign | `orchestrate/orchestrate_macro.go` (`runCoordinator` and the file transfers) | fixtures, binaries and result files on three machines | provision, distribute, build, session, transfer, report | a step that fails half-way, a second campaign over what the first left |
| Scenarios | `benchmark/macro/tls*`, `benchmark/cmd/macro/command` | the keys in the cache | publish, consume | sixteen functions that must agree in pairs |
| Fixtures | `benchmark/cmd/provision`, `utility/golang/cache` | files of the cache directory | store, load | keys of different generations on different machines |
| Thermal control | `benchmark/thermal`, `orchestrate/shared/cooldown.py` | temperature, throttle bits | cool down, detect throttling | sensor errors, timeouts, sticky bits |
| Micro orchestrators | `orchestrate/orchestrate_{aes_ascon,json_cbor,cpabe_rsa,full_schema}.py` | stage, case and repetition, text and CSV files; programs and cache on the device | build, provision, memory, energy and timing stages, report | a killed script leaves its program on the device; two environment files |
| Energy measurement | `utility/python/um24c`, `benchmark/cmd/energy` | readings of a window, the loop of the workload | launch, sample, wait, write | the meter's window against the workload's, without a signal between them |
| Result files and reports | `orchestrate/shared/csv.py`, `report/` | rows and cases | convert, load, join, analyze, render | joins that must be total, stale files, positions in lists |
| Clock check | `benchmark/micro/clock` | exchanges of a burst, sums | request, answer, select, print | datagrams that are lost, late or doubled |
| Broker container | `broker/` | certificates, password file, ACL in a volume | start | a start interrupted between two files; an environment edited between starts |

### How the parts interact

    runCoordinator --files--> laptop cache, endpoints, results directory
          |  one orchestrateMacro per scenario
          v
    orchestrateMacro --GO/FINISH--> stdin of publisher, subscriber
          ^--READY/DONE-- stdout of publisher, subscriber
    publisher --QoS 0--> broker --QoS 0--> handler goroutine of the subscriber
    publisher, subscriber --enable/disable--> perf --ack, cycles--> each of them

    orchestrate_*.py --ssh--> provisioner, benchmark, workload on the device --cache files-->
          |                   benchmark processes
          +--request/reading--> meter;  text and rows --> *.txt, *.csv --> report process

### What makes each part correct

* A session: messages of one run never reach the handler of another; the publisher
  sends into a granted subscription only; no process meets a signal it does not
  expect; the orchestrator's loop and the endpoints' loops stay in step; measured
  means counted; success means two complete files that join.
* The counter: every return path leaves neither a process nor a pipe; no call blocks
  for ever; the cycles returned are those of the work between Enable and Stop.
* The macro campaign: a session starts with keys, CA and binaries that belong together; a
  result is filed where it was measured and deleted only when it is kept; a report is
  whole; a rerun works over whatever a failed campaign left; a message is consumed by its
  own scenario and campaign only.
* A micro campaign: its report shows that campaign and all of it; keys and ciphertexts are
  of one provisioner; a window measures one workload, in its loop; what the laptop plans is
  what the device runs, or there is no report.
* A report: each number stands under the heading of what it was measured from, nothing
  measured is left out, a gap raises, throttling is marked where it was.
* The broker serves what its environment says with a certificate of its CA; the clock check
  is off by at most half its round trip; a wait for the device to cool ends.

## The modules

| Module | Models | Level |
|---|---|---|
| `MacroSession` | one session: `orchestrateMacro`, both endpoint processes, the handler, the client, the broker | one action per signal, call that can block or fail, message hop, and crash |
| `MacroResults` | the result tables, `resultIndex` and the rows of the CSV files | operators |
| `MacroSessionInv` | the inductive invariants of the session | |
| `MacroSessionMC` | instances | |
| `CPUCounter` | the interface `CPU` as its callers rely on it | one step per call |
| `PerfControl` | `CPUPerf` and its perf child, pipe by pipe | one action per system call; implements `CPUCounter` |
| `Coordinator` | `runCoordinator` over several campaigns: files on three machines | one action per file or process started |
| `MacroRerun` | a session that starts alone or beside the publisher of a killed one | `MacroSession` with one more publisher |
| `Envelopes` | codecs, ciphers, and the four pairs of `PublishMessage` and `ConsumeMessage` in both variants | operators on symbolic payloads |
| `Scenarios` | the eight scenarios in campaigns: keys, the settings of two machines, an orphaned publisher | one action per process start, message and kill |
| `BrokerEntrypoint` | `entrypoint.sh` over the life of its volume | one action per command |
| `MicroCampaign` | the stages of an `orchestrate_*.py`, with what they leave in files and on the device | one action per command, window and file |
| `MicroCampaignInv` | its inductive invariant | |
| `EnergyWindow`, `EnergyWindowInv` | the seconds of `run_energy_case`, in discrete time, and its invariant | one action per reading, sleep and end |
| `MicroCases`, `AESASCON`, `JSONCBOR`, `CPABERSA`, `FullSchema` | the cases of each script: what it plans, what the device's programs accept, the fixtures, the tables of the report | operators |
| `MicroEnvironment` | campaigns of the four scripts over two environment files | one action per stage |
| `MicroResults` | lines to rows to cases: `csv.py`, `load_summary.py`, the join of the analyses | operators |
| `MicroReports` | a campaign's output on its way to the numbers of its report | one action per line, row and case |
| `Thermal` | `WaitForCooldown` and `ThrottleWatch` | one action per poll and per reading of the bits |
| `EnergyCase` | `EnergyWindow` and `Thermal` together: a case of the energy stage with its cooldown and its throttled column | their steps, joined |
| `ClockCheck`, `ClockCheckInv` | `clock_sync_check.py` over UDP, in discrete time, and its invariant | one action per datagram and timestamp |
| `*MC` | the instances of a module for TLC | |
| `*Proofs` | theorems: `MeasurementProofs` of `PerfControl`, `EnergyWindow` and `EnergyCase`, `DeploymentProofs` of `BrokerEntrypoint` and `ClockCheck`, `MacroSessionProofs` of `MacroRerun` too, the others of the module they are named after | |

**MacroSession.** `orch` is the orchestrator's place between its calls, `pc[e]` that of
an endpoint's main goroutine, `payloadIndex` and `run` its nested loops. `stdin` and
`stdout` are the pipes. `handler` is the callback that `Subscribe` installed with its
closure (the run it was made for, `messageIndex`, `benchmarkResult`): as in the code,
it counts whatever message arrives while it is installed. `uplink` and `downlink` are
the two TCP connections, so order is kept and a lost connection loses a suffix; the
broker may also drop a message (QoS 0). A message is the run it was built for with its
index, which stands for its UUID. Every error return of the code is an action or a
disjunct, guarded by a kind of failure in `Faults`: a process that does not start, a
connection or a counter that fails, a payload that cannot be encoded or decoded, a full
disk, a crash, a killed orchestrator, a lost message, a lost connection. The counter is
the interface `CPU`. A signal that an endpoint writes once the orchestrator is gone fails or stays in
the buffers of ssh, so the endpoint may notice only at its next read or write.

**PerfControl** opens that interface up. `fds` holds the pipe ends open in the
benchmark's process, `control` and `acks` what is in the pipes. perf obeys, refuses,
prints on SIGINT, dies by SIGKILL, or exits on its own at any point. That perf also ends
when the process it watches ends is left out: the modules stop at the process.

**Coordinator.** A file is what it was written for (campaign and scenario) and how much of
it is there; a step that fails leaves the old file, the new one or a part. Keys and CA
are tagged with the campaign they were made in, so keys of two generations differ. A
session is one step that leaves both files complete when it succeeds, which is what
`SuccessIsComplete` shows of `MacroSession`; when it fails, each endpoint may have
written its file or not and may still be alive (`orphans`). An orphan that has read
FINISH writes its file after at most a disconnect (250 ms), and a new campaign provisions,
copies and builds before its first session: `OrphanExits` therefore happens before that
session only. This is the one timing assumption of the module. `Joins` is the join of
the report: `load_macro_summary` and `macro_latency_statistics` look up each message of
one file in the other and fail with a missing key, so files of two sessions do not load.

**MacroRerun** is `MacroSession`, action by action, beside the publisher that a killed
orchestrator left in the middle of a run. It learns of the kill at its next signal, after its
messages; until then it sends to the same topic. The broker drops it when the new publisher
connects under the same client identifier (`Takeover`). With no old message left this is a session that
starts alone. `spotless` is a history variable: it stays true as long as each step is one of
`Faultless`, which is `MacroSession` with `Faults <- {}`, so that one run says both what failures may do and that
without them the session succeeds. `PerfControlMC` does the same for the counter.

**Scenarios** looks at the payloads that `MacroSession` keeps as indices. A payload is a term:
a record under a codec, a ciphertext under a key. `Envelopes` says for each decoder what it
accepts, and for each cipher whether a wrong key, size or policy is an error or a panic. JSON and
CBOR take an envelope for a message without known fields, hence the *zero message*, which is
modelled and not wished away. Keys carry the campaign and settings they were made with; the
publisher's machine has a settings file of its own, from which it builds the CP-ABE policy.

**MicroCampaign.** `device` is the set of programs running on the device: a script that is killed, or
whose ssh client fails, leaves its program there, and so may a second campaign find it. `cache` is
the set of campaigns whose provisioner has stored into the cache directory since the last `rm -rf`.
`seen` is what ran during the meter's window, and `quiet` whether the device was idle when the
campaign started: nothing in the code checks it, and the properties that need it say so.
`text` and `table` are the files of the laptop with the campaign that wrote each and its rows. A conversion may be
interrupted before its first row, between two and after the last, and the text is unlinked only behind it. That is all
`TextDeletedOnlyWhenConverted` says of kept output: the next campaign opens texts and tables anew.

**MicroEnvironment** composes the four scripts with two environment files that are edited
between campaigns. Here a stage is one step; what matters is which cases a command asks for, which
the device's binary has, which fixtures it loads from which directory, and what the report,
which reads the laptop's file again, then looks for. The four scenario modules give each script's plan,
the cases registered by its Go benchmarks, the fixtures of its provisioner and the tables of its
report, so that one definition is translated from each side and the run compares them.

**MicroReports** follows every line of a campaign in which all commands succeeded to the number in
a table, a chart or a sentence, for each of the four scripts. A number is the *measurements it is computed from, in their order*, so a
mean over the wrong rows is a wrong sequence; the arithmetic itself is left out. `world` fixes which repetitions
were throttled, which windows had no reading and which memory processes could not read their peak. A window
without a reading writes no row, so that it was throttled is recorded nowhere; `Throttled` says so.

**EnergyWindow** and **ClockCheck** count time from the launch of a workload and from a request. Time
passes only while nothing is overdue, so that a bound (the meter answers within `MaxRead`, the sleep
ends within `MaxLate`) is a bound and not a hope. A reading that fails raises at its timeout, or at any moment
before it when the connection closes.

**EnergyCase** lets a workload start only when `Thermal`'s wait has ended, and writes the rows with the mark. The program
looks at the throttle bits just before its loop and just after it, in steps of their own; a mark speaks of the time
between the two looks. The wait is counted in intervals between polls, and a sleep may take several of them, so that the
timeout may come after a few polls. A reading of the temperature is any value the sensor can show by then, or none; `word` is the firmware's, with the soft limit (bit 3) and the bit that remembers it (19), which come and
go at any moment.

**BrokerEntrypoint** keeps what each file of the volume was made from (`ca`, its key, `broker.crt` and what
signed it, users, ACL) or that it was cut off. `set -e` ends the script at the first command that
fails, and a kill may come between any two. The host in the certificate is that of the first start of the volume and is not
kept: whether clients accept it is not part of `BrokerIsTrue`.

## The runs

| Run | Bounds | Question |
|---|---|---|
| `session_faults` | 2 payload sizes, 1 warm-up and 2 measured runs, 3 messages, all failures | the safety of a session, and whether the endpoints exit once the orchestrator has |
| `session_mismatch` | publisher 2 runs and 3 messages, subscriber 3 and 2, orchestrator 4 rounds | what happens when `benchmark.env` differs |
| `rerun_local_faults` | 2 payload sizes, 1 + 2 runs, 2 messages; up to 2 old messages; failures of processes and calls | does the orchestrator return, does a session without failures succeed, and what does an old publisher do to a new session |
| `perf_faults` | 3 runs of 2 units of work, all failures | leaks, refinement, termination, and whether every run is measured without them |
| `coordinator_faults` | 2 scenarios, 3 campaigns, the first two failing anywhere | what outlives a failed campaign, and does a rerun recover |
| `scenario_campaigns` | 8 scenarios, 2 campaigns, 2 messages, two values of each setting | do the pairs agree, is a foreign payload told apart |
| `broker_restarts` | 2 environments, 3 kills, 2 volumes | what an interrupted start leaves |
| `micro_campaign_faults` | 2 timing cases and 1 of each other kind, 2 repetitions, 3 campaigns, the first two failing anywhere | whose rows a report shows, who runs under the meter, and does a rerun recover |
| `micro_environments` | 5 environment files, 2 edits, 2 campaigns of any scenario | what differing files do to a report |
| `micro_reports` | 2 algorithms by 2 values, 2 repetitions, any of the repetitions of one case (`Troubles = 1`) throttled, silent or unreadable | from lines to numbers |
| `energy_case` | 2 repetitions, start-up within the warm-up, a late sleep within the tail; temperatures 0 to 3, 2 polls, the soft limit with a word that shows an earlier low voltage or nothing | are the rows of the loop and truly marked, when does a workload start hot, does a case end |
| `clock_network` | 2 bursts of 2 exchanges, timeout 3, a server clock behind | the error of the printed offset |

Two payload sizes, a warm-up and two measured runs are the least in which a run has a
successor of each kind (warm-up to measured, measured to measured, last of a payload size
to the warm-up of the next), and three messages the least with a first, a middle and a
last. Two units of work and three runs let an answer or a count of one run be taken for
one of the next. Three campaigns let files of two failed ones meet in a third, and two
scenarios let a file be filed under the wrong one. Two campaigns let a program, a
file or a publisher of a killed one meet a second; eight scenarios in their order are what the
coordinator has. The third campaign is the one without failures that shows a rerun to recover; the
second is the one that both finds what a failed campaign left and fails itself. One case in trouble has neighbours before and
after it that are not, and may lose or mark any of its repetitions, the first, the last or all. The five
environment files are the repository's in small and one edit of each kind that a list or a size can have. Durations of two and three units let every order of sleep, start-up,
reading and deadline happen. Deadlock checking is off throughout: a session, a benchmark and a
series of campaigns come to an end.

### What they show

* A session's guarantees hold under every failure. What does not hold is that a session
  always ends: a message of QoS 0 that is lost, or a connection of the subscriber that
  is, leaves `WaitMessages` and the orchestrator's read of the subscriber's DONE waiting,
  for neither has a timeout. `OrchestratorReturns` is therefore checked without these two
  failures (`LocalFaults`), and `SubscriberExitsOrWaits`, a part of `OrphansExit`, says exactly where an
  orphaned subscriber may stay.
* With differing configurations the session never reports success (`SuccessMeansAgreement`
  for the rounds).
* A campaign that fails between the transfers of `publisher.csv` and `subscriber.csv` leaves
  files of two campaigns side by side. No report mixes them (`ReportsArePaired`). A report
  made by hand may still set *scenarios* of two campaigns side by side.
* A campaign restarted within a run of a killed one counts messages of the old publisher. They
  never reach a measured row (the first run is a warm-up), but they end that warm-up early, and
  what it leaves shifts later runs: `SuccessIsComplete` does not hold beside an old publisher. The
  report cannot be made from such files, because a message of one file is missing in the other:
  `ReportedRerunIsComplete`, a part of `RerunMeasuresItself`.
* A payload of another scenario or campaign is never taken for a message of this one: it is an
  error, or, for the scenarios without envelope, the zero message. An attribute count on the
  publisher smaller than the laptop's is not noticed by anything.
* With one environment file on laptop and device every microbenchmark reports; with two that
  differ, it reports what is true or raises. That the label of an RSA energy row is not checked
  against the device's key size costs nothing only because the memory table lacks the row.
* A broker volume whose first start was interrupted between CA and certificate is the one state no
  later start repairs.

Four things a reader of the results should know, which the models reproduce and no property forbids:

* `WaitForCooldown` discards the availability of a reading inside its loop (`cooldown.go:42`): a sensor that fails once is taken
  for 0 degrees, "Cooled Down To: 0.0" is logged, and a device as hot as before goes on. `HotOnlyAfterTheTimeout` therefore
  speaks of sensors that were read.
* The same line shadows the outer variable, so the temperature of "Cooldown Timed Out At" is that at which the wait *began*.
* Nothing looks for a program that a killed campaign left on the device, not even before the idle baseline, and such a
  program may go on storing keys. `WindowsSeeOneWorkload` and `FixturesAreOfOneProvision` therefore speak of campaigns that
  began on an idle device (`quiet`).
* A start-up that outlasts `WARMUP_DURATION` would be sampled as workload: `RowsAreOfTheLoop` needs `Timely`, the theorem
  assumes it and the run's durations satisfy it.

### Fairness

`MacroSession`'s liveness assumes weak fairness of the orchestrator, of each endpoint's main
goroutine, of the handler goroutine and of the broker's forwarding: operating system and Go
scheduler run what can run, and TCP delivers. No failure is ever fair. `PerfControl` assumes
it of the benchmark and of perf. `Coordinator` assumes it of the coordinator's steps,
among them that the operator starts it again after an error: `RerunRecovers` is about what
happens if he does. `MicroCampaign`'s liveness assumes it of the
script and of the programs on the device, each of which has a deadline or a fixed amount of
work; `MicroEnvironment`'s of the script's stages. `BrokerEntrypoint` assumes that the operator starts
a broker that is down, and that a script nobody kills goes on. `EnergyCase` assumes
that the programs run and time passes, and nothing of the device or its sensor. `MicroReports` assumes
that the report's process runs. `ClockCheck` and `Scenarios` are checked for safety and assume nothing.

## The proofs

TLC shows each property on the instance above; the theorems hold for every value of the
constants, from the named assumptions alone (`ConfigAssumption`, `PerfAssumption`,
`CoordinatorAssumption`, `MicroCampaignAssumption`, `EnergyWindowAssumption`, `ThermalAssumption`,
`BrokerAssumption`, `ScenariosAssumption`, `ClockAssumption`, `RerunAssumption`,
`MicroEnvironmentAssumption`, `MicroReportsAssumption`), or from the hypothesis that is named beside
the theorem.

| Theorem | Says |
|---|---|
| `SessionTypeCorrect` | `TypeOK`, for every configuration of the three processes, agreeing or not |
| `RunsAreIsolated` | `RunIsolation`, when both endpoints have the same configuration (`EndpointsAgree`) |
| `PublisherWaitsForReady` | `PublishOnlyWhenReady`, under the same assumption |
| `SuccessIsAgreed` | `SuccessMeansAgreement`, whatever the three processes were configured with |
| `NobodyRunsAhead` | `Lockstep`, one half of `InStep`, whatever they were configured with |
| `ProcessesStayInStep` | `InStep`, when all three agree (`Agreement`) |
| `MessagesMeasuredOnce` | `MeasuredOnceWhileCounting`, under `EndpointsAgree` |
| `SuccessFilesComplete` | `SuccessIsComplete`, under the same assumption |
| `RerunsMeasureThemselves` | `RerunMeasuresItself`, under `EndpointsAgree`, for every number of messages the old publisher has left of a run |
| `BrokerServesTruly` | `BrokerIsTrue` |
| `PerfNeverLeaks` | `NothingLeaks` |
| `PerfKeepsCPUPromise` | `PerfControl` implements `CPUCounter` |
| `SessionsArePrepared` | `SessionIsPrepared` |
| `CampaignReportsAreWhole` | `CampaignReportIsWhole` |
| `ResultsKeepTheirSession` | `ResultsAreOfTheirSession` |
| `NothingDeletedUnkept` | `DeletedOnlyWhenKept` |
| `ReportsPairOneSession` | `ReportsArePaired` |
| `CampaignTypeCorrect`, `TypeCorrect`, `ClockTypeCorrect` | `TypeOK` of `MicroCampaign` and `EnergyWindow`, `ClockTypeOK` of `ClockCheck` |
| `CampaignReportsItself` | `CampaignReportIsWhole` of `MicroCampaign` |
| `WindowsAreQuiet` | `WindowsSeeOneWorkload` |
| `FixturesBelongTogether` | `FixturesAreOfOneProvision` |
| `NothingUnconvertedIsDeleted` | `TextDeletedOnlyWhenConverted` |
| `ReportsTellTheTruth` | `CampaignReportIsTrue` of `MicroEnvironment`, for every set of environment files; it needs that their numbers of runs are positive (`RunsAreCounted`) |
| `AgreeingFilesSuffice` | `AgreeingStagesSucceed` of `MicroEnvironment`, the part of `AgreeingCampaignReports` that is not liveness; it needs that the lists name nothing twice (`ListsAreDistinct`) |
| `NumbersStayInPlace` | `NumbersAreInPlace`, for every environment file, number of repetitions and number of cases in trouble |
| `MarksTellTheTruth` | `MarksAreTrue` of `MicroReports`, for the same |
| `RowsAreMeasured` | `RowsAreOfTheLoop`, if start-up fits into the warm-up and a late sleep into the tail (`Timely`) |
| `CaseRowsAreMeasured` | the same of `EnergyCase`, whose steps are steps of `EnergyWindow` |
| `HotIsTimedOut` | `HotOnlyAfterTheTimeout` |
| `MarksAreTrue` | `MarkIsTrue`, the mark of a row of `energy.csv` |
| `MessagesAreNotMistaken` | `ConsumedBelongsToTheScenario` |
| `EverySessionDelivers` | `SessionsDeliver` |
| `MeanIsBounded` | `MeanIsWithinHalfTheRTT` |

*Isolation.* `RunIsolation` is not inductive: that no message is left over when a run ends
depends on how many were sent, counted and are in transit, and that a message is not sent
too late depends on who holds the round. `IInv` (in `MacroSessionInv`) follows the round from
hand to hand: the subscriber opens it, the publisher uses it after READY, and it is closed
when the handler has counted `MessageCount` messages. `CountInv` says that messages counted
and in transit never exceed those the publisher has sent, so once all are counted none is
left. The orchestrator may fail at any point, so the invariant speaks of what is in the
pipes and constrains a running orchestrator only. `EndpointsAgree` is needed: a publisher
with more messages than the subscriber leaves some in transit when the run ends.

*The handshake.* `HandshakeInv` looks at the orchestrator and one endpoint at a time: every GO an endpoint
reads is one round of its two loops and one DONE, so the rounds an endpoint has completed are those whose DONE was read, or
one more if it has written the next. An endpoint that is in a round has completed exactly those (`ReadInv`), and this
still holds when the orchestrator has failed, while the endpoint goes on with the round it was released for. FINISH is sent after `Repetitions` rounds and
accepted only behind the last round, so on success both loops ended there. No agreement is assumed. That a pipe
never holds READY *and* DONE needs it: the subscriber finishes a round only with the publisher's messages, which wait
for READY to be read; `OneSignal` takes this from `IInv`.

*The tables.* The handler counts messages and fills slots, and knows no message by its number. `RecordInv` (in
`MacroSessionInv`) says that the queues hold the publisher's messages in the order of their numbers (`OrderInv`) and that entry n of
the slot that is being filled is message n, or one as many numbers later as messages of this round have been lost before it
(`Missing`, `Slack`). Within a round `Missing` only grows; a round that is counted to its end has none, so each message is at its own place,
and stays there when the next slot is begun (`EntryInv`). With `CyclesInv`, which ties the number of cycle counts
to the slots, `SuccessIsComplete` follows from the handshake: on success both loops have ended, so every slot is full.

*Beside an old publisher.* Its identifiers are none of the session's, so `TypeOK` does not hold there; the lemmas of the session rest on
`TypeInv`, which takes any three numbers for a message (`AnyID`), and `TypeOK` is proved at the end from what a session alone has in
its queues and tables. `OldInv` (in `MacroRerun`) follows the old messages: none is delivered before the first callback is installed
(`Unopened`); the first callback is that of a warm-up, and has a place for each one in transit or to come, for a run has no more
messages than it counts (`Counting`); it ends when it has counted a full run, and then none is left (`Cleared`). `CountInv` and `OrderInv` are lost, so
nothing says that the subscriber's table is right. That of the publisher still is (`TablesInv`), and its entries in a slot are all
different; if each of them is found in the subscriber's slot, which has as many places, the two hold the same (`EveryValueIsTaken`).

*The broker.* Its entrypoint makes the certificates only if `ca.crt` is missing, and makes that file last of those that a later start
takes on trust; users and ACL are written anew at every start. `CertifiedInv` says that once `ca.crt` is there, all it vouches for is
there and whole, and `WrittenInv` what the start that is running has written so far. A kill tears only the file
that is being written.

*The counter.* Three parts, each by the place of the benchmark: which pipe ends and which
child exist (`NothingLeaks` is its case for the places outside a run), which commands and
answers are in the pipes, and how perf's count relates to the work done. A step of the
benchmark is then a step of `CPUCounter` exactly when it returns from a call, and a stutter
otherwise.

*The campaign.* `IInv` in `Coordinator` says what the campaign has put in place by the time it
is where it is: the keys before `next` are stored, those before `next` copied, and so on to
the results of the scenarios before `scenario`. Failures lead out of the campaign, so they
cost nothing, and that each stage writes *all* it needs, whatever was there, carries the
argument. `ReportsArePaired` needs another one, for a report made by hand reads whatever files
failed campaigns left: every file names the scenario it is filed under, and a report is made only of
pairs whose rows join.

*A micro campaign.* `IInv` in `MicroCampaignInv` says by stage what the text files and tables of this
campaign hold and, if it started on an idle device, which of its programs runs there: at most the one the
script waits for. Nothing is said of the stage `Stopped`, because the next campaign relies on nothing it finds:
that each stage opens its files anew, and `rm -rf` precedes the provisioner, carries the argument.

*The two environment files.* `IInv` in `MicroEnvironment` says that no file is edited during a campaign and that the table of a stage that is over has
rows of this campaign only, each as often as the orchestrator read. The label of an RSA decryption's energy is the laptop's and its value the
device's; that the two are one in a report follows from `memory.csv` (`FixedSizeIsChecked`): the report shows the case there too, and the
device's binary has a memory benchmark for its own fixed size only. The lemmas of
`MicroEnvironmentProofs` name which part of `MicroEnvironmentAssumption` they need, `RunsAreCounted` or `ListsAreDistinct`.

That no stage fails by itself when the files agree (`AgreeingFilesSuffice`) has two halves. `PlaceInv` says what a running campaign has put in
place: its binaries, the fixtures of the device's file, and in the table of a stage that is over a row of every case that was asked for and that the device
knows. The other half is about the plans alone, list by list (`GridElements`, `ConcatenationElements`) and script by script (`Fits`): every command names
a binary that is built, a kind that the energy program accepts and fixtures that the provisioner stores, and looks for them in the project's directory;
every case that the report shows is in the plan and registered on the device. The third script needs `Sound` for it: the subscribers'
keys are provisioned for the last count only, so the counts have to ascend, and of ascending different counts the last is positive
(`LastCountIsPositive`), so the first subscriber's private key exists.

*The numbers of a report.* `ReportInvariant` in `MicroReportsProofs` has four parts: what the campaign ran, where the pipeline is and
what its tables and summary hold there (`Progress`), that the results are true once `Analyze` has made them, and that the report is what `ReportOf`
makes of them. Because a plan names every case once, the rows of a table after k lines are the rows of the first k repetitions
(`First`), and the number that `csv.py` gives the next row by counting the matching ones is the repetition's own (`NumbersBefore`).
A table is described whole at each line rather than folded, so one more line is one more step and no induction over data is needed. The same holds of the aggregations
of `load_summary.py`: after k rows each holds the rows of its own case among the first k, in order. Windows in which the meter did not answer have no rows,
so the windows of a case are those that were heard (`IsHeard`). When all rows are loaded every case has all its repetitions (`AllTheCases`, `AllTheWindows`), `analyze_case`
finds for each value the one aggregation of that case (`ResultsAreTrue`), and it remains to show, script by script, that each place of the
report is filled from the index of its own heading (`Fits`) and that a place shows each of the flags a legend may warn of (`Covered`). For
`cpabe_rsa` this needs that the fixed key size is in the list, which `rsa_key_bits.index` checks by raising (`FixedIsFound`).
The marks follow the same rows: `load_summary.py` takes the flag of a window's first row, and every row of a window has the same.

*The energy window.* A reading is asked for no earlier than the warm-up and answered before its end plus the
measurement, both counted from the launch; the loop begins within the start-up and lasts
the whole duration. `IInv` keeps these bounds with the place of each side, and `Timely` closes the gap
between them. Without it a start-up longer than the warm-up is a counterexample.

*The heat.* A step of `EnergyCase` is one of `EnergyWindow` or leaves its variables alone, so the window's invariant is the case's.
`StepsAgree` ties the place of the program in its seconds to its place in its heat; with it a workload that fails cannot
end a wait, and the limit noted between the two looks (`MarkIsNoted`) is that of the rows that are written. That no mark is lost (`MarkIsKept`)
needs the digits: a limited word is written with at least four of the twenty (`WordInRange`, `LimitIsShown`), so index 3 of the
padded and reversed digits is bit 3, and bits that were read without it stand for a moment without the limit.

*The scenarios.* `ScenariosProofs` first settles the terms: a decoder refuses another codec's bytes and leaves a field it does not find zero; a
seal opens only under the cipher and key that made it; so a PSK, RSA or CP-ABE subscriber gets from a payload the message that its
own scenario and campaign put there, the zero message or an error, and a TLS subscriber takes an envelope for the zero message.
`IInv` then ties the connected publisher to the session (`OwnPublisher`) and says that what it has sent
has been consumed (`AllConsumed`).

*The clock check.* For one exchange, the server's timestamps lie between the client's, shifted by the skew, so
its offset is off by at most half its delay (`Stamped`, `Bounded`); the sums of both sides keep the inequality.
The bound needs `Numbered`: a reply is used only on the socket of its own request.

The inductive invariants were themselves checked with TLC on these instances while they were written; of `ReportInvariant`, which quantifies over
unbounded sequences, TLC checks the two properties that follow.

Only model-checked:

* Liveness (`SessionSucceeds`, `OrchestratorReturns`, `OrphansExit`, `CallsReturn`, `AllRunsMeasured`, both
  `RerunRecovers`, `AgreeingCampaignReports` but for the part above, `ReportIsWhole`, `ServesAgain`, `CaseEnds`), which needs fairness and
  ENABLED and is out of the prover's reach.

## Plan

Done, in this order: `MacroSession` with `MacroResults`; its type correctness and the proof of
isolation; `PerfControl` and its refinement; `Coordinator` and its proofs; `MicroCampaign` and the modules of
the four scripts; `MicroReports`; `EnergyWindow`, `ClockCheck` and `MicroCampaign` with their proofs; `MacroRerun`;
`BrokerEntrypoint`; `Thermal` and `EnergyCase` with its proofs; `Scenarios`; proofs of the tables of the session, the
broker, the marks of the energy rows, the scenarios, of a session beside an old publisher and of the reports over
two environment files and of their campaigns when the files agree; proofs of the numbers and the marks of
`MicroReports`. Every safety property that a run checks is now a theorem; what is left is liveness.

## Not modelled

* The drawing of charts, wording and layout of the reports, and the arithmetic of means, confidence intervals,
  percentiles and regressions: output and real numbers. `MicroReports` says which measurements each
  number is computed from.
* Key generation, the inside of the ciphers, OAEP's size limit: libraries. They are symbols in `Envelopes`.
* The TLS handshake and the broker beyond routing, loss of QoS 0 messages and takeover.
* ssh and scp beyond the pipes, copies and orphans they give rise to.
* The parsing of environment values: the processes' constants are what it yields. Lists are taken to be
  without repetitions, and a file is edited between campaigns, not during one.
* Bluetooth's connection to the meter, and the decoding of a reading.
