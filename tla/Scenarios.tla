---- MODULE Scenarios ----
(***************************************************************************)
(* The eight macro scenarios, run one after another by campaigns that may  *)
(* be killed and started again.  All sessions share one topic and one       *)
(* client identifier per role, and each machine has an environment file of  *)
(* its own.  A publisher whose orchestrator was killed goes on to the end   *)
(* of its run: until the next publisher connects, whoever is subscribed     *)
(* receives the payloads of another scenario, made with other keys.  What   *)
(* the loss of messages and the signals do is in MacroSession and           *)
(* MacroRerun, and that a session has the keys of its campaign is           *)
(* SessionIsPrepared of Coordinator.                                        *)
(***************************************************************************)
EXTENDS Envelopes, FiniteSets, Sequences

CONSTANTS
  SymmetricKeySizes,   \* values of SYMMETRIC_KEY_SIZE
  AttributeCounts,     \* values of MACRO_ATTRIBUTE_COUNT
  MessageCount,        \* messages of a session, over all its runs
  MaxCampaigns         \* bound: how often the coordinator is started

ASSUME ScenariosAssumption ==
  /\ SymmetricKeySizes \subseteq Nat /\ AttributeCounts \subseteq Nat \ {0}
  /\ MessageCount \in Nat \ {0} /\ MaxCampaigns \in Nat \ {0}

Settings == [symmetricKeySize : SymmetricKeySizes, attributeCount : AttributeCounts]
Machines == {"laptop", "publisher"}

Row(codec, cipher, keys) == [codec |-> codec, cipher |-> cipher, keys |-> keys]
scenarios ==
  << Row("JSON", "none", "none"), Row("CBOR", "none", "none"),
     Row("JSON", "AES", "PSK"),   Row("CBOR", "ASCON", "PSK"),
     Row("JSON", "AES", "RSA"),   Row("CBOR", "ASCON", "RSA"),
     Row("JSON", "AES", "CPABE"), Row("CBOR", "ASCON", "CPABE") >>

VARIABLES
  env,           \* the environment file of each machine that the keys depend on
  campaign,      \* the number of the campaign
  provisioned,   \* the settings of the laptop when the keys were made
  stage,         \* where the coordinator is
  scenario,      \* the scenario of its last session, 0 before the first
  publisher,     \* the publisher process that is connected, if any
  consumed,      \* the messages that the session's subscriber has consumed
  regular,       \* whether the session has one environment file and no other publisher
  outcome        \* why the last session ended

vars == <<env, campaign, provisioned, stage, scenario, publisher, consumed, regular, outcome>>

\* A publisher process keeps what it read when it started; it numbers what it has left.
Nobody == [left |-> 0]

Init ==
  /\ env \in [Machines -> Settings]
  /\ campaign = 0 /\ provisioned = env["laptop"] /\ scenario = 0
  /\ stage = "Idle" /\ publisher = Nobody
  /\ consumed = {} /\ regular = TRUE /\ outcome = "none"

----
(* Payloads. *)

\* The cached symmetric key of a cipher: a new one in each campaign.
SymmetricKey(c, size, cipher) == GenerateRandomBytes(<<c, cipher>>, size)
Scheme(c, row) == [campaign |-> c, keys |-> row.keys]

\* The identity of a message, by who sends it and how many it has left.
Identity(p) == [is |-> "id", campaign |-> p.campaign, scenario |-> p.scenario, left |-> p.left]
NewMessage(p) == [id |-> Identity(p), payload |-> [is |-> "payload"]]

PublishMessage(p) ==
  LET row == scenarios[p.scenario]
      msg == NewMessage(p)
      fresh == GenerateRandomBytes(<<Identity(p), "key">>, p.settings.symmetricKeySize)
      nonce == GenerateRandomBytes(<<Identity(p), "nonce">>, 0)
      policy == IF row.keys = "CPABE" THEN Policy(p.settings.attributeCount) ELSE 0
  IN CASE row.keys = "none" -> PublishTLS(row.codec, msg)
       [] row.keys = "PSK" ->
            PublishPSK(row.codec, row.cipher,
                       SymmetricKey(p.campaign, p.symmetricKeySize, row.cipher), nonce, msg)
       [] OTHER ->
            PublishAsymmetric(row.codec, row.cipher, Scheme(p.campaign, row), policy, fresh, nonce, msg)

\* By the subscriber of the session, with the private keys of its campaign.
ConsumeMessage(payload) ==
  LET row == scenarios[scenario]
  IN CASE row.keys = "none" -> ConsumeTLS(row.codec, payload)
       [] row.keys = "PSK" ->
            ConsumePSK(row.codec, row.cipher,
                       SymmetricKey(campaign, provisioned.symmetricKeySize, row.cipher), payload)
       [] OTHER ->
            ConsumeAsymmetric(row.codec, row.cipher, Scheme(campaign, row),
                              provisioned.attributeCount, payload)

----
(* Steps. *)

EditEnvironment ==
  /\ \E m \in Machines, s \in Settings : env' = [env EXCEPT ![m] = s]
  /\ UNCHANGED <<campaign, provisioned, stage, scenario, publisher, consumed, regular, outcome>>

\* LoadEnvironment, ProvisionFixtures, DistributeFixtures.
StartCampaign ==
  /\ stage \in {"Idle", "Stopped", "Done"} /\ campaign < MaxCampaigns
  /\ campaign' = campaign + 1 /\ provisioned' = env["laptop"]
  /\ stage' = "Between" /\ scenario' = 0 /\ outcome' = "none"
  /\ consumed' = {} /\ regular' = TRUE
  /\ UNCHANGED <<env, publisher>>

\* The endpoint processes are started; a cached key that NewAES or NewASCON refuses
\* ends both.
StartSession ==
  /\ stage = "Between" /\ scenario' = scenario + 1
  /\ LET row == scenarios[scenario']
     IN IF row.keys = "PSK" /\ provisioned.symmetricKeySize \notin KeySizes[row.cipher]
        THEN stage' = "Stopped" /\ outcome' = "panic"
        ELSE stage' = "Subscribed" /\ outcome' = "none"
  /\ consumed' = {} /\ regular' = TRUE
  /\ UNCHANGED <<env, campaign, provisioned, publisher>>

\* The broker drops the connection that had the client identifier.
PublisherConnects ==
  /\ stage = "Subscribed" /\ stage' = "Connected"
  /\ publisher' = [campaign |-> campaign, scenario |-> scenario, settings |-> env["publisher"],
                   symmetricKeySize |-> provisioned.symmetricKeySize, left |-> MessageCount]
  /\ regular' = (regular /\ env["publisher"] = provisioned)
  /\ UNCHANGED <<env, campaign, provisioned, scenario, consumed, outcome>>

Sends == publisher.left > 0
Listening == stage \in {"Subscribed", "Connected"}

\* PublishMessage panics, and the publisher with it.
PublisherPanics ==
  /\ Sends /\ Raised(PublishMessage(publisher)) /\ publisher' = Nobody
  /\ IF stage = "Connected" THEN stage' = "Stopped" /\ outcome' = "panic"
                            ELSE UNCHANGED <<stage, outcome>>
  /\ UNCHANGED <<env, campaign, provisioned, scenario, consumed, regular>>

\* A message is published and consumed: the handler hands an error on, and a panic ends
\* the process.
Deliver ==
  /\ Sends /\ Listening
  /\ LET payload == PublishMessage(publisher)
         msg == ConsumeMessage(payload)
     IN /\ ~Raised(payload)
        /\ IF Raised(msg)
           THEN stage' = "Stopped" /\ outcome' = msg.is /\ UNCHANGED consumed
           ELSE consumed' = consumed \cup {msg.of} /\ UNCHANGED <<stage, outcome>>
  /\ publisher' = [publisher EXCEPT !.left = @ - 1]
  /\ regular' = (regular /\ stage = "Connected")
  /\ UNCHANGED <<env, campaign, provisioned, scenario>>

PublishUnheard ==
  /\ Sends /\ ~Listening /\ ~Raised(PublishMessage(publisher))
  /\ publisher' = [publisher EXCEPT !.left = @ - 1]
  /\ UNCHANGED <<env, campaign, provisioned, stage, scenario, consumed, regular, outcome>>

\* The orphan learns at the end of its run that its orchestrator is gone.
OrphanExits ==
  /\ publisher # Nobody /\ stage # "Connected" /\ publisher' = Nobody
  /\ UNCHANGED <<env, campaign, provisioned, stage, scenario, consumed, regular, outcome>>

EndSession ==
  /\ stage = "Connected" /\ publisher.left = 0
  /\ publisher' = Nobody /\ outcome' = "success"
  /\ stage' = IF scenario < Len(scenarios) THEN "Between" ELSE "Done"
  /\ UNCHANGED <<env, campaign, provisioned, scenario, consumed, regular>>

\* The coordinator is killed, or a step of it fails: the publisher is told nothing.
Kill ==
  /\ stage \notin {"Idle", "Stopped", "Done"} /\ stage' = "Stopped" /\ outcome' = "killed"
  /\ UNCHANGED <<env, campaign, provisioned, scenario, publisher, consumed, regular>>

Next ==
  \/ EditEnvironment \/ StartCampaign \/ StartSession \/ PublisherConnects
  \/ PublisherPanics \/ Deliver \/ PublishUnheard \/ OrphanExits \/ EndSession \/ Kill

Spec == Init /\ [][Next]_vars

----
(* Properties. *)

ZeroMessage == [f \in MessageFields |-> Zero]
\* ConsumeMessage never takes one message for another: what it returns was published by its
\* own scenario, and where there are keys in its own campaign, or it is the zero message,
\* which no publisher sends and which the report therefore refuses to join.  (An orphan
\* meets the first session of the next campaign, whatever scenario it is from.)
ConsumedBelongsToTheScenario ==
  \A msg \in consumed \ {ZeroMessage} :
    /\ msg.id.scenario = scenario
    /\ scenarios[scenario].keys # "none" => msg.id.campaign = campaign

\* The sixteen functions agree in pairs: with one environment file on all machines, the
\* 16 bytes of its SYMMETRIC_KEY_SIZE and no other publisher, every scenario's messages are
\* consumed, whatever ran before.
OneEnvironmentDelivers ==
  provisioned.symmetricKeySize = 16 /\ regular => outcome \notin {"error", "panic"}

\* A session that succeeds has got back every message its publisher made: none was taken
\* for the zero message, which the decoders return without an error when fields are missing.
SuccessConsumesAll ==
  outcome = "success" =>
    \A n \in 1..MessageCount : \E msg \in consumed \ {ZeroMessage} :
      msg.id.campaign = campaign /\ msg.id.left = n

\* With one environment a session delivers, and a success is one.
SessionsDeliver == OneEnvironmentDelivers /\ SuccessConsumesAll
====
