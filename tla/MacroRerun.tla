---- MODULE MacroRerun ----
(***************************************************************************)
(* A macro session that begins while the publisher of a killed one is still *)
(* sending.  That publisher learns of the end of its orchestrator only at   *)
(* its next signal, after the messages of its run; until then it publishes  *)
(* to the same topic, under the same client identifier.  The new session is *)
(* MacroSession, unchanged; the broker drops the old connection when the    *)
(* new publisher connects.  A session that begins alone is the case in      *)
(* which the old publisher has nothing left.                                *)
(***************************************************************************)
EXTENDS MacroSession

CONSTANT MaxLeft   \* bound: messages the old publisher has left in its run

\* A run has MessageCount messages, and the first run of a session is a warm-up.
ASSUME RerunAssumption ==
  MaxLeft \in 0 .. MessageCount[Publisher] /\ \A e \in Endpoint : WarmupRuns[e] > 0

VARIABLES
  left,      \* the messages the old publisher will still send
  spotless   \* whether the session began alone and nothing in it has failed

rerunVars == <<vars, left, spotless>>

\* MacroSession where nothing fails.
Faultless == INSTANCE MacroSession WITH Faults <- {}

OldID(k) == <<-1, 0, k>>
IsOld(id) == id # Untouched /\ id[1] = -1

RerunInit == Init /\ left \in 0 .. MaxLeft /\ spotless = (left = 0)

\* Mutation: each campaign has a client identifier of its own.
TakeoverOfNobody == left

\* The connection of a client ends when another connects under its identifier; with no
\* reconnection, the old publisher's next publishes fail and it exits.
Takeover == IF ~connected[Publisher] /\ connected'[Publisher] THEN 0 ELSE left

\* The old publisher sends, and the broker routes, to whoever is subscribed now.
OldPublishes ==
  /\ left > 0 /\ left' = left - 1
  /\ downlink' = IF subscribed THEN Append(downlink, OldID(left)) ELSE downlink
  /\ UNCHANGED <<orchVars, pipeVars, endVars, connected, brokerVars, uplink, spotless>>

SessionSteps == Next /\ left' = Takeover /\ spotless' = (spotless /\ Faultless!Next)

RerunNext == SessionSteps \/ OldPublishes

RerunSpec == RerunInit /\ [][RerunNext]_rerunVars /\ Fairness

----------------------------------------------------------------------------
(* Properties *)

\* What the subscriber measured in a slot.
Measured(e, slot) == {results[e][slot][i] : i \in DOMAIN results[e][slot]}

\* macro_latency_statistics looks every message of the publisher up among the arrivals of
\* the same payload and repetition, and raises where one is missing.
Joins == \A slot \in DOMAIN results[Publisher] : Measured(Publisher, slot) \subseteq Measured(Subscriber, slot)

\* The messages of the killed campaign, though counted by the new subscriber, end in its
\* warm-up: no row of subscriber.csv is of another campaign.
OldIsNeverMeasured ==
  \A slot \in DOMAIN results[Subscriber] : \A id \in Measured(Subscriber, slot) : ~IsOld(id)

\* Old messages end a warm-up early, and the new ones that it leaves shift every later run:
\* the session may succeed with rows of other runs.  But then the report cannot be made: if
\* it can, both files are complete and each repetition has its own messages and cycles.
ReportedRerunIsComplete == Joins => SuccessIsComplete

\* A session beside an old publisher measures itself or has no report.
RerunMeasuresItself == OldIsNeverMeasured /\ ReportedRerunIsComplete

\* A session comes to its end with success, unless something fails or an old publisher is
\* there: no order of the three processes, the handler and the broker stops it.
SessionSucceeds == <>(orch = "succeeded" \/ ~spotless)

----------------------------------------------------------------------------
(* The inductive invariant of OldIsNeverMeasured.  Before the first callback is    *)
(* installed nothing is delivered, and the first callback is that of a warm-up,    *)
(* which ends only when as many messages were counted as the old publisher ever    *)
(* had.  When the next callback is installed, none of its messages is left.        *)

\* Nothing will come from the old publisher any more.
Cleared == left = 0 /\ \A i \in DOMAIN downlink : ~IsOld(downlink[i])

FirstRound == payloadIndex[Subscriber] = 0 /\ run[Subscriber] = 0

\* The subscriber has not installed its first callback.
Unopened ==
  /\ pc[Subscriber] \in {"absent", "connect", "readGo", "subscribe"} /\ FirstRound
  /\ ~subscribed /\ suback = "idle" /\ downlink = <<>> /\ handler = NoHandler

\* The first callback counts, and has a place for every old message in transit or to come.
Counting ==
  /\ pc[Subscriber] \in {"suback", "ready", "wait"} /\ FirstRound
  /\ handler.warmup /\ handler.channel # <<"nil">>
  /\ \A i \in DOMAIN downlink : IsOld(downlink[i]) => handler.index + i <= MessageCount[Subscriber]
  /\ left > 0 => handler.index + Len(downlink) + left <= MessageCount[Subscriber]

\* An old publisher that still sends has not met the new one, which has sent nothing.
BeforeTakeover ==
  left > 0 => pc[Publisher] \in {"absent", "connect", "failed"} /\ ~connected[Publisher] /\ uplink = <<>>

OldInv ==
  /\ left \in 0 .. MaxLeft /\ BeforeTakeover /\ \A i \in DOMAIN uplink : ~IsOld(uplink[i])
  /\ Cleared \/ Unopened \/ Counting \/ Ended(Subscriber)
  /\ OldIsNeverMeasured
====
