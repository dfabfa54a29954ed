---- MODULE ScenariosProofs ----
(***************************************************************************)
(* What a subscriber gets out of a payload, whoever published it, and from  *)
(* that the properties of Scenarios: for every set of key sizes and         *)
(* attribute counts, every number of messages and of campaigns.             *)
(***************************************************************************)
EXTENDS Scenarios, TLAPS

----
(* Envelopes. *)

LEMMA RaisedByKind ==
  /\ Raised(Panic) /\ Raised(Error) /\ Panic.is = "panic" /\ Error.is = "error"
  /\ \A value : value.is \notin {"panic", "error"} => ~Raised(value)
BY DEF Raised, Panic, Error

\* A decoder refuses another codec's bytes.
LEMMA OtherCodec ==
  ASSUME NEW codec, NEW other, codec # other, NEW value, NEW fields
  PROVE  Deserialize(codec, Serialize(other, value), fields) = Error
BY DEF Deserialize, Serialize

\* Of its own codec it takes the fields it knows, and leaves absent ones zero.
Field(value, f) == IF f \in DOMAIN value THEN value[f] ELSE Zero
Decoded(value, fields) == [f \in fields |-> Field(value, f)]

LEMMA OwnCodec ==
  ASSUME NEW codec, NEW value, NEW fields
  PROVE  LET got == Deserialize(codec, Serialize(codec, value), fields)
         IN ~Raised(got) /\ got.of = Decoded(value, fields)
<1>1. Deserialize(codec, Serialize(codec, value), fields)
      = [is |-> "value", of |-> Decoded(value, fields)]
  BY DEF Deserialize, Serialize, Decoded, Field
<1>2. ~Raised([is |-> "value", of |-> Decoded(value, fields)])
  BY RaisedByKind
<1>3. QED BY <1>1, <1>2

\* What Encrypt makes, and when Decrypt opens it.
Sealed(cipher, key, nonce, text) ==
  [is |-> "sealed", cipher |-> cipher, key |-> key, nonce |-> nonce, text |-> text]

LEMMA SealOpens ==
  ASSUME NEW cipher, NEW key, NEW nonce, NEW text, NEW cipher2, NEW key2, NEW nonce2
  PROVE  LET got == Decrypt(cipher2, key2, nonce2, Sealed(cipher, key, nonce, text))
         IN /\ got = text \/ got = Panic
            /\ got # Panic => cipher2 = cipher /\ key2 = key
            /\ Accepts(cipher, key) /\ cipher2 = cipher /\ key2 = key /\ nonce2 = nonce => got = text
BY DEF Decrypt, Sealed

LEMMA ZeroDoesNotOpen ==
  ASSUME NEW cipher, NEW key, NEW nonce PROVE Decrypt(cipher, key, nonce, Zero) = Panic
BY DEF Decrypt, Zero

LEMMA EncryptSeals ==
  ASSUME NEW cipher, NEW key, NEW nonce, NEW text
  PROVE  LET sealed == Encrypt(cipher, key, nonce, text)
         IN IF Accepts(cipher, key)
            THEN sealed = Sealed(cipher, key, nonce, text) /\ ~Raised(sealed)
            ELSE sealed = Panic
<1>1. Sealed(cipher, key, nonce, text).is = "sealed" BY DEF Sealed
<1>2. ~Raised(Sealed(cipher, key, nonce, text)) BY <1>1, RaisedByKind
<1>3. QED BY <1>2 DEF Encrypt, Sealed

\* What is published is data of the scenario's codec, with the fields of its kind.
LEMMA PSKPublishes ==
  ASSUME NEW codec, NEW cipher, NEW key, NEW nonce, NEW msg
  PROVE  LET text == Serialize(codec, msg)
         IN PublishPSK(codec, cipher, key, nonce, msg)
            = IF Accepts(cipher, key)
              THEN Serialize(codec, [nonce |-> nonce, ciphertext |-> Sealed(cipher, key, nonce, text)])
              ELSE Panic
BY EncryptSeals, RaisedByKind DEF PublishPSK

LEMMA AsymmetricPublishes ==
  ASSUME NEW codec, NEW cipher, NEW scheme, NEW policy, NEW key, NEW nonce, NEW msg
  PROVE  LET text == Serialize(codec, msg)
         IN PublishAsymmetric(codec, cipher, scheme, policy, key, nonce, msg)
            = IF Accepts(cipher, key)
              THEN Serialize(codec, [asymmetricCiphertext |-> Wrap(scheme, policy, key),
                                     nonce |-> nonce,
                                     symmetricCiphertext |-> Sealed(cipher, key, nonce, text)])
              ELSE Panic
BY EncryptSeals, RaisedByKind DEF PublishAsymmetric

LEMMA PSKConsumes ==
  ASSUME NEW codec, NEW cipher, NEW key, NEW other, NEW value
  PROVE  ConsumePSK(codec, cipher, key, Serialize(other, value))
         = IF codec = other
           THEN Opened(codec, Decrypt(cipher, key, Field(value, "nonce"), Field(value, "ciphertext")))
           ELSE Error
<1>1. CASE codec # other BY <1>1, OtherCodec, RaisedByKind DEF ConsumePSK
<1>2. CASE codec = other
  <2> DEFINE got == Deserialize(codec, Serialize(codec, value), SymmetricEnvelope)
  <2>1. ~Raised(got) /\ got.of = Decoded(value, SymmetricEnvelope)
    BY OwnCodec
  <2>2. got.of.nonce = Field(value, "nonce") /\ got.of.ciphertext = Field(value, "ciphertext")
    BY <2>1 DEF SymmetricEnvelope, Decoded
  <2>3. ConsumePSK(codec, cipher, key, Serialize(codec, value))
        = IF Raised(got) THEN got
          ELSE Opened(codec, Decrypt(cipher, key, got.of.nonce, got.of.ciphertext))
    BY DEF ConsumePSK
  <2> HIDE DEF got
  <2>4. QED BY <1>2, <2>1, <2>2, <2>3
<1>3. QED BY <1>1, <1>2

LEMMA AsymmetricConsumes ==
  ASSUME NEW codec, NEW cipher, NEW scheme, NEW attributes, NEW other, NEW value
  PROVE  LET key == Unwrap(scheme, attributes, Field(value, "asymmetricCiphertext"))
         IN ConsumeAsymmetric(codec, cipher, scheme, attributes, Serialize(other, value))
            = IF codec # other THEN Error
              ELSE IF Raised(key) THEN key
              ELSE Opened(codec, Decrypt(cipher, key, Field(value, "nonce"),
                                         Field(value, "symmetricCiphertext")))
<1>1. CASE codec # other BY <1>1, OtherCodec, RaisedByKind DEF ConsumeAsymmetric
<1>2. CASE codec = other
  <2> DEFINE got == Deserialize(codec, Serialize(codec, value), AsymmetricEnvelope)
             key == Unwrap(scheme, attributes, got.of.asymmetricCiphertext)
  <2>1. ~Raised(got) /\ got.of = Decoded(value, AsymmetricEnvelope)
    BY OwnCodec
  <2>2. /\ got.of.nonce = Field(value, "nonce")
        /\ got.of.asymmetricCiphertext = Field(value, "asymmetricCiphertext")
        /\ got.of.symmetricCiphertext = Field(value, "symmetricCiphertext")
    BY <2>1 DEF AsymmetricEnvelope, Decoded
  <2>3. ConsumeAsymmetric(codec, cipher, scheme, attributes, Serialize(codec, value))
        = IF Raised(got) THEN got
          ELSE IF Raised(key) THEN key
          ELSE Opened(codec, Decrypt(cipher, key, got.of.nonce, got.of.symmetricCiphertext))
    BY DEF ConsumeAsymmetric
  <2> HIDE DEF got
  <2>4. QED BY <1>2, <2>1, <2>2, <2>3
<1>3. QED BY <1>1, <1>2

\* A message is the fields of a message; the envelopes have other fields.
LEMMA MessageIsDecoded ==
  ASSUME NEW codec, NEW id, NEW payload
  PROVE  LET msg == [id |-> id, payload |-> payload]
             got == Deserialize(codec, Serialize(codec, msg), MessageFields)
         IN ~Raised(got) /\ got.of = msg
<1> DEFINE msg == [id |-> id, payload |-> payload]
<1>1. Decoded(msg, MessageFields) = msg
  BY DEF Decoded, Field, MessageFields
<1> HIDE DEF msg
<1>2. QED BY <1>1, OwnCodec DEF msg

LEMMA EnvelopeIsNoMessage ==
  ASSUME NEW codec, NEW value, DOMAIN value \cap MessageFields = {}
  PROVE  LET got == ConsumeTLS(codec, Serialize(codec, value))
         IN ~Raised(got) /\ got.of = ZeroMessage
<1>1. Decoded(value, MessageFields) = ZeroMessage
  BY DEF Decoded, Field, ZeroMessage
<1>2. QED BY <1>1, OwnCodec DEF ConsumeTLS

LEMMA PanicIsNotOpened ==
  ASSUME NEW codec PROVE Raised(Opened(codec, Panic))
BY RaisedByKind DEF Opened

LEMMA TextIsOpened ==
  ASSUME NEW codec, NEW id, NEW payload
  PROVE  LET msg == [id |-> id, payload |-> payload]
             got == Opened(codec, Serialize(codec, msg))
         IN ~Raised(got) /\ got.of = msg
<1> DEFINE msg == [id |-> id, payload |-> payload]
<1>1. Serialize(codec, msg).is = "data" BY DEF Serialize
<1>2. ~Raised(Serialize(codec, msg)) BY <1>1, RaisedByKind
<1>3. Opened(codec, Serialize(codec, msg)) = Deserialize(codec, Serialize(codec, msg), MessageFields)
  BY <1>2 DEF Opened
<1>4. QED BY <1>3, MessageIsDecoded

\* A private key unwraps what was wrapped for it.
LEMMA WrapUnwraps ==
  ASSUME NEW scheme, NEW policy, NEW text, NEW scheme2, NEW attributes
  PROVE  LET got == Unwrap(scheme2, attributes, Wrap(scheme, policy, text))
         IN /\ got = text \/ got = Panic
            /\ got # Panic => scheme2 = scheme
            /\ scheme2 = scheme /\ policy <= attributes => got = text
BY DEF Wrap, Unwrap

LEMMA ZeroDoesNotUnwrap ==
  ASSUME NEW scheme, NEW attributes PROVE Unwrap(scheme, attributes, Zero) = Panic
BY DEF Unwrap, Zero

----
(* The eight scenarios. *)

ScenarioKeys == {"none", "PSK", "RSA", "CPABE"}

LEMMA RowTypes ==
  ASSUME NEW k \in 1 .. 8
  PROVE  /\ scenarios[k].codec \in {"JSON", "CBOR"} /\ scenarios[k].keys \in ScenarioKeys
         /\ scenarios[k].keys # "none" => scenarios[k].cipher \in {"AES", "ASCON"}
BY DEF scenarios, Row, ScenarioKeys

\* Two scenarios with the same keys have different codecs.
LEMMA RowsDiffer ==
  ASSUME NEW j \in 1 .. 8, NEW k \in 1 .. 8,
         scenarios[j].codec = scenarios[k].codec, scenarios[j].keys = scenarios[k].keys
  PROVE  j = k
BY DEF scenarios, Row

\* The publishers that there may be, and what each puts into a payload.
Publishers == [campaign : Nat, scenario : 1 .. 8, settings : Settings, symmetricKeySize : Nat,
               left : 0 .. MessageCount]

RowOf(p) == scenarios[p.scenario]
KeyOf(p) ==
  IF RowOf(p).keys = "PSK" THEN SymmetricKey(p.campaign, p.symmetricKeySize, RowOf(p).cipher)
  ELSE GenerateRandomBytes(<<Identity(p), "key">>, p.settings.symmetricKeySize)
NonceOf(p) == GenerateRandomBytes(<<Identity(p), "nonce">>, 0)
PolicyOf(p) == IF RowOf(p).keys = "CPABE" THEN Policy(p.settings.attributeCount) ELSE 0
SealedOf(p) == Sealed(RowOf(p).cipher, KeyOf(p), NonceOf(p), Serialize(RowOf(p).codec, NewMessage(p)))

SymmetricOf(p) == [nonce |-> NonceOf(p), ciphertext |-> SealedOf(p)]
AsymmetricOf(p) ==
  [asymmetricCiphertext |-> Wrap(Scheme(p.campaign, RowOf(p)), PolicyOf(p), KeyOf(p)),
   nonce |-> NonceOf(p), symmetricCiphertext |-> SealedOf(p)]
EnvelopeOf(p) ==
  CASE RowOf(p).keys = "none" -> NewMessage(p)
    [] RowOf(p).keys = "PSK" -> SymmetricOf(p)
    [] OTHER -> AsymmetricOf(p)

LEMMA Published ==
  ASSUME NEW p
  PROVE  PublishMessage(p) = IF RowOf(p).keys = "none" \/ Accepts(RowOf(p).cipher, KeyOf(p))
                             THEN Serialize(RowOf(p).codec, EnvelopeOf(p)) ELSE Panic
<1> DEFINE row == RowOf(p)
<1>1. CASE row.keys = "none"
  BY <1>1 DEF PublishMessage, PublishTLS, RowOf, EnvelopeOf
<1>2. CASE row.keys = "PSK"
  <2>1. PublishMessage(p) = PublishPSK(row.codec, row.cipher, KeyOf(p), NonceOf(p), NewMessage(p))
    BY <1>2 DEF PublishMessage, RowOf, KeyOf, NonceOf
  <2>2. EnvelopeOf(p) = SymmetricOf(p) BY <1>2 DEF EnvelopeOf
  <2>3. QED BY <1>2, <2>1, <2>2, PSKPublishes DEF SymmetricOf, SealedOf
<1>3. CASE row.keys \notin {"none", "PSK"}
  <2>1. PublishMessage(p)
        = PublishAsymmetric(row.codec, row.cipher, Scheme(p.campaign, row), PolicyOf(p), KeyOf(p),
                            NonceOf(p), NewMessage(p))
    BY <1>3 DEF PublishMessage, RowOf, KeyOf, NonceOf, PolicyOf
  <2>2. EnvelopeOf(p) = AsymmetricOf(p) BY <1>3 DEF EnvelopeOf
  <2>3. QED BY <1>3, <2>1, <2>2, AsymmetricPublishes DEF AsymmetricOf, SealedOf
<1>4. QED BY <1>1, <1>2, <1>3

LEMMA EnvelopeFields ==
  ASSUME NEW p
  PROVE  /\ DOMAIN SymmetricOf(p) = SymmetricEnvelope
         /\ SymmetricOf(p).nonce = NonceOf(p) /\ SymmetricOf(p).ciphertext = SealedOf(p)
         /\ DOMAIN AsymmetricOf(p) = AsymmetricEnvelope
         /\ AsymmetricOf(p).nonce = NonceOf(p) /\ AsymmetricOf(p).symmetricCiphertext = SealedOf(p)
         /\ AsymmetricOf(p).asymmetricCiphertext
              = Wrap(Scheme(p.campaign, RowOf(p)), PolicyOf(p), KeyOf(p))
         /\ DOMAIN NewMessage(p) = MessageFields
BY DEF SymmetricOf, AsymmetricOf, NewMessage, SymmetricEnvelope, AsymmetricEnvelope, MessageFields

\* A decoded or opened message of p.
LEMMA MessageOf ==
  ASSUME NEW p, NEW codec
  PROVE  /\ ~Raised(ConsumeTLS(codec, Serialize(codec, NewMessage(p))))
         /\ ConsumeTLS(codec, Serialize(codec, NewMessage(p))).of = NewMessage(p)
         /\ ~Raised(Opened(codec, Serialize(codec, NewMessage(p))))
         /\ Opened(codec, Serialize(codec, NewMessage(p))).of = NewMessage(p)
BY MessageIsDecoded, TextIsOpened DEF NewMessage, ConsumeTLS

\* What the subscriber of a scenario gets out of a payload: its own message or, without
\* keys and from a scenario with them, the zero message.
LEMMA TLSGets ==
  ASSUME NEW p \in Publishers, NEW k \in 1 .. 8, scenarios[k].keys = "none"
  PROVE  LET got == ConsumeTLS(scenarios[k].codec, Serialize(RowOf(p).codec, EnvelopeOf(p)))
         IN ~Raised(got) => \/ p.scenario = k /\ got.of = NewMessage(p)
                            \/ p.scenario # k /\ got.of = ZeroMessage
<1> DEFINE codec == scenarios[k].codec
           got == ConsumeTLS(codec, Serialize(RowOf(p).codec, EnvelopeOf(p)))
<1>0. p.scenario \in 1 .. 8 BY DEF Publishers
<1>1. CASE codec # RowOf(p).codec BY <1>1, OtherCodec, RaisedByKind DEF ConsumeTLS
<1>2. CASE codec = RowOf(p).codec /\ RowOf(p).keys = "none"
  <2>1. p.scenario = k BY <1>0, <1>2, RowsDiffer DEF RowOf
  <2>2. EnvelopeOf(p) = NewMessage(p) BY <1>2 DEF EnvelopeOf
  <2>3. QED BY <1>2, <2>1, <2>2, MessageOf
<1>3. CASE codec = RowOf(p).codec /\ RowOf(p).keys # "none"
  <2>1. p.scenario # k BY <1>3 DEF RowOf
  <2>2. EnvelopeOf(p) \in {SymmetricOf(p), AsymmetricOf(p)} BY <1>3 DEF EnvelopeOf
  <2>3. DOMAIN EnvelopeOf(p) \in {SymmetricEnvelope, AsymmetricEnvelope}
    BY <2>2, EnvelopeFields
  <2>4. DOMAIN EnvelopeOf(p) \cap MessageFields = {}
    BY <2>3 DEF SymmetricEnvelope, AsymmetricEnvelope, MessageFields
  <2>5. got.of = ZeroMessage BY <1>3, <2>4, EnvelopeIsNoMessage
  <2>6. QED BY <2>1, <2>5
<1>4. QED BY <1>1, <1>2, <1>3

LEMMA PSKGets ==
  ASSUME NEW p \in Publishers, NEW k \in 1 .. 8, scenarios[k].keys = "PSK", NEW c, NEW size
  PROVE  LET got == ConsumePSK(scenarios[k].codec, scenarios[k].cipher,
                               SymmetricKey(c, size, scenarios[k].cipher),
                               Serialize(RowOf(p).codec, EnvelopeOf(p)))
         IN ~Raised(got) => p.scenario = k /\ p.campaign = c /\ got.of = NewMessage(p)
<1> DEFINE codec == scenarios[k].codec
           cipher == scenarios[k].cipher
           key == SymmetricKey(c, size, cipher)
           value == EnvelopeOf(p)
           text == Decrypt(cipher, key, Field(value, "nonce"), Field(value, "ciphertext"))
           got == ConsumePSK(codec, cipher, key, Serialize(RowOf(p).codec, value))
<1>0. p.scenario \in 1 .. 8 BY DEF Publishers
<1>1. got = IF codec = RowOf(p).codec THEN Opened(codec, text) ELSE Error BY PSKConsumes
<1>2. CASE codec # RowOf(p).codec BY <1>1, <1>2, RaisedByKind
<1>3. CASE codec = RowOf(p).codec /\ RowOf(p).keys # "PSK"
  <2>1. value \in {NewMessage(p), AsymmetricOf(p)} BY <1>3 DEF EnvelopeOf
  <2>2. "ciphertext" \notin DOMAIN value
    <3>1. DOMAIN value \in {MessageFields, AsymmetricEnvelope} BY <2>1, EnvelopeFields
    <3>2. QED BY <3>1 DEF MessageFields, AsymmetricEnvelope
  <2>3. text = Panic BY <2>2, ZeroDoesNotOpen DEF Field
  <2>4. Raised(got) BY <1>1, <1>3, <2>3, PanicIsNotOpened
  <2>5. QED BY <2>4
<1>4. CASE codec = RowOf(p).codec /\ RowOf(p).keys = "PSK"
  <2>1. p.scenario = k BY <1>0, <1>4, RowsDiffer DEF RowOf
  <2>2. value = SymmetricOf(p) BY <1>4 DEF EnvelopeOf
  <2>3. text = Decrypt(cipher, key, NonceOf(p), SealedOf(p))
    BY <2>2, EnvelopeFields DEF Field, SymmetricEnvelope
  <2>4. \/ text = Panic
        \/ key = KeyOf(p) /\ text = Serialize(RowOf(p).codec, NewMessage(p))
    BY <2>3, SealOpens DEF SealedOf
  <2>5. CASE text = Panic
    <3>1. Raised(got) BY <1>1, <1>4, <2>5, PanicIsNotOpened
    <3>2. QED BY <3>1
  <2>6. CASE key = KeyOf(p) /\ text = Serialize(RowOf(p).codec, NewMessage(p))
    <3>1. <<c, cipher>> = <<p.campaign, RowOf(p).cipher>>
      <4>1. KeyOf(p) = SymmetricKey(p.campaign, p.symmetricKeySize, RowOf(p).cipher)
        BY <1>4 DEF KeyOf
      <4>2. key.name = KeyOf(p).name BY <2>6
      <4>3. QED BY <4>1, <4>2 DEF SymmetricKey, GenerateRandomBytes
    <3>2. c = p.campaign BY <3>1
    <3>3. got.of = NewMessage(p) BY <1>1, <1>4, <2>6, MessageOf
    <3>4. QED BY <2>1, <3>2, <3>3
  <2>7. QED BY <2>4, <2>5, <2>6
<1>5. QED BY <1>2, <1>3, <1>4

LEMMA AsymmetricGets ==
  ASSUME NEW p \in Publishers, NEW k \in 1 .. 8, scenarios[k].keys \notin {"none", "PSK"},
         NEW c, NEW attributes
  PROVE  LET got == ConsumeAsymmetric(scenarios[k].codec, scenarios[k].cipher,
                                      Scheme(c, scenarios[k]), attributes,
                                      Serialize(RowOf(p).codec, EnvelopeOf(p)))
         IN ~Raised(got) => p.scenario = k /\ p.campaign = c /\ got.of = NewMessage(p)
<1> DEFINE codec == scenarios[k].codec
           cipher == scenarios[k].cipher
           value == EnvelopeOf(p)
           key == Unwrap(Scheme(c, scenarios[k]), attributes, Field(value, "asymmetricCiphertext"))
           text == Decrypt(cipher, key, Field(value, "nonce"), Field(value, "symmetricCiphertext"))
           got == ConsumeAsymmetric(codec, cipher, Scheme(c, scenarios[k]), attributes,
                                    Serialize(RowOf(p).codec, value))
<1>0. p.scenario \in 1 .. 8 BY DEF Publishers
<1>1. got = IF codec # RowOf(p).codec THEN Error
            ELSE IF Raised(key) THEN key ELSE Opened(codec, text)
  BY AsymmetricConsumes
<1>2. CASE codec # RowOf(p).codec BY <1>1, <1>2, RaisedByKind
<1>3. CASE codec = RowOf(p).codec /\ RowOf(p).keys \in {"none", "PSK"}
  <2>1. value \in {NewMessage(p), SymmetricOf(p)} BY <1>3 DEF EnvelopeOf
  <2>2. "asymmetricCiphertext" \notin DOMAIN value
    <3>1. DOMAIN value \in {MessageFields, SymmetricEnvelope} BY <2>1, EnvelopeFields
    <3>2. QED BY <3>1 DEF MessageFields, SymmetricEnvelope
  <2>3. key = Panic BY <2>2, ZeroDoesNotUnwrap DEF Field
  <2>4. Raised(got) BY <1>1, <1>3, <2>3, RaisedByKind
  <2>5. QED BY <2>4
<1>4. CASE codec = RowOf(p).codec /\ RowOf(p).keys \notin {"none", "PSK"}
  <2>1. value = AsymmetricOf(p) BY <1>4 DEF EnvelopeOf
  <2>2. /\ key = Unwrap(Scheme(c, scenarios[k]), attributes,
                        Wrap(Scheme(p.campaign, RowOf(p)), PolicyOf(p), KeyOf(p)))
        /\ text = Decrypt(cipher, key, NonceOf(p), SealedOf(p))
    BY <2>1, EnvelopeFields DEF Field, AsymmetricEnvelope
  <2>3. CASE key = Panic BY <1>1, <1>4, <2>3, RaisedByKind
  <2>4. CASE key # Panic /\ text = Panic
    <3>1. Raised(got) BY <1>1, <1>4, <2>4, PanicIsNotOpened
    <3>2. QED BY <3>1
  <2>5. CASE key # Panic /\ text # Panic
    <3>1. Scheme(c, scenarios[k]) = Scheme(p.campaign, RowOf(p)) /\ key = KeyOf(p)
      BY <2>2, <2>5, WrapUnwraps
    <3>2. c = p.campaign /\ scenarios[k].keys = RowOf(p).keys
      <4>1. /\ Scheme(c, scenarios[k]).campaign = Scheme(p.campaign, RowOf(p)).campaign
            /\ Scheme(c, scenarios[k]).keys = Scheme(p.campaign, RowOf(p)).keys
        BY <3>1
      <4>2. QED BY <4>1 DEF Scheme
    <3>3. p.scenario = k BY <1>0, <1>4, <3>2, RowsDiffer DEF RowOf
    <3>4. text = Serialize(codec, NewMessage(p)) BY <1>4, <2>2, <2>5, SealOpens DEF SealedOf
    <3>5. ~Raised(key)
      <4>1. KeyOf(p).is = "random" BY DEF KeyOf, SymmetricKey, GenerateRandomBytes
      <4>2. QED BY <3>1, <4>1, RaisedByKind
    <3>6. got.of = NewMessage(p) BY <1>1, <1>4, <3>4, <3>5, MessageOf
    <3>7. QED BY <3>2, <3>3, <3>6
  <2>6. QED BY <2>3, <2>4, <2>5
<1>5. QED BY <1>2, <1>3, <1>4

----
(* The inductive invariant. *)

TypeOK ==
  /\ env \in [Machines -> Settings] /\ provisioned \in Settings /\ campaign \in Nat
  /\ scenario \in 0 .. 8 /\ regular \in BOOLEAN
  /\ publisher \in Publishers \cup {Nobody}

\* A session has one of the eight scenarios.
StageInv ==
  /\ stage \in {"Subscribed", "Connected"} => scenario \in 1 .. 8
  /\ stage = "Between" => scenario \in 0 .. 7

\* The publisher that is connected in a session is its own, and in a regular one it has the
\* settings that the keys were made for.
OwnPublisher ==
  stage = "Connected" =>
    /\ publisher \in Publishers
    /\ publisher.campaign = campaign /\ publisher.scenario = scenario
    /\ publisher.symmetricKeySize = provisioned.symmetricKeySize
    /\ regular => publisher.settings = provisioned

\* The subscriber has consumed the n-th last message.
Consumed(n) ==
  \E msg \in consumed \ {ZeroMessage} : msg.id.campaign = campaign /\ msg.id.left = n

\* What the publisher has sent, the subscriber has consumed.
AllConsumed ==
  stage = "Connected" => \A n \in 1 .. MessageCount : publisher.left < n => Consumed(n)

IInv ==
  /\ TypeOK /\ StageInv /\ OwnPublisher /\ AllConsumed
  /\ ConsumedBelongsToTheScenario /\ SessionsDeliver

LEMMA InitInv == Init => IInv
BY DEF Init, IInv, TypeOK, StageInv, OwnPublisher, AllConsumed, ConsumedBelongsToTheScenario,
       SessionsDeliver, OneEnvironmentDelivers, SuccessConsumesAll, Machines

LEMMA SendersAreTyped ==
  ASSUME TypeOK, Sends PROVE publisher \in Publishers
BY DEF TypeOK, Sends, Nobody

LEMMA MessageIsNotZero ==
  ASSUME NEW p PROVE NewMessage(p) # ZeroMessage
<1>1. NewMessage(p).payload.is = "payload" BY DEF NewMessage
<1>2. ZeroMessage.payload.is = "zero" BY DEF ZeroMessage, MessageFields, Zero
<1>3. QED BY <1>1, <1>2

\* What the session's subscriber makes of a message of whoever publishes.
LEMMA SubscriberGets ==
  ASSUME publisher \in Publishers, scenario \in 1 .. 8, ~Raised(PublishMessage(publisher))
  PROVE  LET got == ConsumeMessage(PublishMessage(publisher))
         IN ~Raised(got) =>
              \/ publisher.scenario # scenario /\ got.of = ZeroMessage
              \/ /\ publisher.scenario = scenario /\ got.of = NewMessage(publisher)
                 /\ scenarios[scenario].keys # "none" => publisher.campaign = campaign
<1> DEFINE payload == Serialize(RowOf(publisher).codec, EnvelopeOf(publisher))
           row == scenarios[scenario]
<1>1. PublishMessage(publisher) = payload BY Published, RaisedByKind
<1>2. CASE row.keys = "none"
  <2>1. ConsumeMessage(payload) = ConsumeTLS(row.codec, payload) BY <1>2 DEF ConsumeMessage
  <2>2. QED BY <1>1, <1>2, <2>1, TLSGets
<1>3. CASE row.keys = "PSK"
  <2>1. ConsumeMessage(payload)
        = ConsumePSK(row.codec, row.cipher,
                     SymmetricKey(campaign, provisioned.symmetricKeySize, row.cipher), payload)
    BY <1>3 DEF ConsumeMessage
  <2>2. QED BY <1>1, <1>3, <2>1, PSKGets
<1>4. CASE row.keys \notin {"none", "PSK"}
  <2> DEFINE got == ConsumeAsymmetric(row.codec, row.cipher, Scheme(campaign, row),
                                      provisioned.attributeCount, payload)
  <2>1. ConsumeMessage(payload) = got BY <1>4 DEF ConsumeMessage
  <2>2. ~Raised(got) => /\ publisher.scenario = scenario /\ publisher.campaign = campaign
                        /\ got.of = NewMessage(publisher)
    BY <1>4, AsymmetricGets
  <2> HIDE DEF got
  <2>3. QED BY <1>1, <2>1, <2>2
<1>5. QED BY <1>2, <1>3, <1>4

\* With one environment and 16 bytes of key nothing is raised on the way.
LEMMA RegularSessionsDeliver ==
  ASSUME TypeOK, publisher \in Publishers, scenario \in 1 .. 8,
         publisher.scenario = scenario, publisher.campaign = campaign,
         publisher.settings = provisioned, publisher.symmetricKeySize = 16,
         provisioned.symmetricKeySize = 16
  PROVE  /\ ~Raised(PublishMessage(publisher))
         /\ ~Raised(ConsumeMessage(PublishMessage(publisher)))
<1> DEFINE p == publisher
           row == RowOf(p)
           payload == Serialize(row.codec, EnvelopeOf(p))
           text == Serialize(row.codec, NewMessage(p))
<1>0. row = scenarios[scenario] BY DEF RowOf
<1>1. row.keys = "none" \/ Accepts(row.cipher, KeyOf(p))
  <2>1. row.keys # "none" => row.cipher \in {"AES", "ASCON"} BY <1>0, RowTypes
  <2>2. KeyOf(p).is = "random" /\ KeyOf(p).size = 16
    BY DEF KeyOf, SymmetricKey, GenerateRandomBytes
  <2>3. QED BY <2>1, <2>2 DEF Accepts, KeySizes
<1>2. PublishMessage(p) = payload BY <1>1, Published
<1>3. ~Raised(payload)
  <2>1. payload.is = "data" BY DEF Serialize
  <2>2. QED BY <2>1, RaisedByKind
<1>4. CASE row.keys = "none"
  <2>1. ConsumeMessage(payload) = ConsumeTLS(row.codec, text)
    BY <1>0, <1>4 DEF ConsumeMessage, EnvelopeOf
  <2>2. QED BY <1>2, <1>3, <2>1, MessageOf
<1>5. CASE row.keys = "PSK"
  <2>1. ConsumeMessage(payload)
        = ConsumePSK(row.codec, row.cipher, KeyOf(p), Serialize(row.codec, SymmetricOf(p)))
    BY <1>0, <1>5 DEF ConsumeMessage, EnvelopeOf, KeyOf
  <2>2. ConsumeMessage(payload)
        = Opened(row.codec, Decrypt(row.cipher, KeyOf(p), NonceOf(p), SealedOf(p)))
    BY <2>1, PSKConsumes, EnvelopeFields DEF Field, SymmetricEnvelope
  <2>3. Decrypt(row.cipher, KeyOf(p), NonceOf(p), SealedOf(p)) = text
    BY <1>1, <1>5, SealOpens DEF SealedOf
  <2>4. QED BY <1>2, <1>3, <2>2, <2>3, MessageOf
<1>6. CASE row.keys \notin {"none", "PSK"}
  <2> DEFINE key == Unwrap(Scheme(p.campaign, row), provisioned.attributeCount,
                           Wrap(Scheme(p.campaign, row), PolicyOf(p), KeyOf(p)))
  <2>1. ConsumeMessage(payload)
        = ConsumeAsymmetric(row.codec, row.cipher, Scheme(p.campaign, row),
                            provisioned.attributeCount, Serialize(row.codec, AsymmetricOf(p)))
    BY <1>0, <1>6 DEF ConsumeMessage, EnvelopeOf
  <2>2. ConsumeMessage(payload)
        = IF Raised(key) THEN key
          ELSE Opened(row.codec, Decrypt(row.cipher, key, NonceOf(p), SealedOf(p)))
    <3> DEFINE value == AsymmetricOf(p)
               key2 == Unwrap(Scheme(p.campaign, row), provisioned.attributeCount,
                              Field(value, "asymmetricCiphertext"))
    <3>1. ConsumeMessage(payload)
          = IF Raised(key2) THEN key2
            ELSE Opened(row.codec, Decrypt(row.cipher, key2, Field(value, "nonce"),
                                           Field(value, "symmetricCiphertext")))
      BY <2>1, AsymmetricConsumes
    <3>2. /\ Field(value, "nonce") = NonceOf(p)
          /\ Field(value, "symmetricCiphertext") = SealedOf(p)
          /\ Field(value, "asymmetricCiphertext")
               = Wrap(Scheme(p.campaign, RowOf(p)), PolicyOf(p), KeyOf(p))
      BY EnvelopeFields DEF Field, AsymmetricEnvelope
    <3>3. QED BY <3>1, <3>2
  <2>3. PolicyOf(p) <= provisioned.attributeCount
    <3>1. provisioned.attributeCount \in Nat BY ScenariosAssumption DEF TypeOK, Settings
    <3>2. QED BY <3>1 DEF PolicyOf, Policy
  <2>4. key = KeyOf(p) BY <2>3, WrapUnwraps
  <2>5. ~Raised(KeyOf(p))
    <3>1. KeyOf(p).is = "random" BY DEF KeyOf, SymmetricKey, GenerateRandomBytes
    <3>2. QED BY <3>1, RaisedByKind
  <2>6. Decrypt(row.cipher, KeyOf(p), NonceOf(p), SealedOf(p)) = text
    BY <1>1, <1>6, SealOpens DEF SealedOf
  <2>7. QED BY <1>2, <1>3, <2>2, <2>4, <2>5, <2>6, MessageOf
<1>7. QED BY <1>4, <1>5, <1>6

----
(* The steps. *)

LEMMA EightScenarios == Len(scenarios) = 8
BY DEF scenarios, Row

\* The properties look at the session only.
LEMMA PropertiesFrame ==
  ASSUME ConsumedBelongsToTheScenario, SessionsDeliver,
         UNCHANGED <<campaign, provisioned, scenario, consumed, outcome>>, regular' => regular
  PROVE  ConsumedBelongsToTheScenario' /\ SessionsDeliver'
BY DEF ConsumedBelongsToTheScenario, SessionsDeliver, OneEnvironmentDelivers, SuccessConsumesAll

LEMMA EditEnvironmentStep == IInv /\ EditEnvironment => IInv'
<1> SUFFICES ASSUME IInv, EditEnvironment PROVE IInv'
  OBVIOUS
<1>1. /\ env' \in [Machines -> Settings]
      /\ UNCHANGED <<campaign, provisioned, stage, scenario, publisher, consumed, regular, outcome>>
  BY DEF IInv, TypeOK, EditEnvironment
<1>2. TypeOK' BY <1>1 DEF IInv, TypeOK
<1>3. StageInv' /\ OwnPublisher' BY <1>1 DEF IInv, StageInv, OwnPublisher
<1>4. AllConsumed' BY <1>1 DEF IInv, AllConsumed, Consumed
<1>5. QED BY <1>1, <1>2, <1>3, <1>4, PropertiesFrame DEF IInv

LEMMA StartCampaignStep == IInv /\ StartCampaign => IInv'
<1> SUFFICES ASSUME IInv, StartCampaign PROVE IInv'
  OBVIOUS
<1>1. /\ campaign' = campaign + 1 /\ provisioned' = env["laptop"] /\ stage' = "Between"
      /\ scenario' = 0 /\ outcome' = "none" /\ consumed' = {} /\ regular' = TRUE
      /\ UNCHANGED <<env, publisher>>
  BY DEF StartCampaign
<1>2. TypeOK' BY <1>1 DEF IInv, TypeOK, Machines
<1>3. StageInv' /\ OwnPublisher' /\ AllConsumed' BY <1>1 DEF StageInv, OwnPublisher, AllConsumed
<1>4. ConsumedBelongsToTheScenario' /\ SessionsDeliver'
  BY <1>1 DEF ConsumedBelongsToTheScenario, SessionsDeliver, OneEnvironmentDelivers, SuccessConsumesAll
<1>5. QED BY <1>2, <1>3, <1>4 DEF IInv

\* Sixteen bytes are a key of both ciphers.
LEMMA StartSessionStep == IInv /\ StartSession => IInv'
<1> SUFFICES ASSUME IInv, StartSession PROVE IInv'
  OBVIOUS
<1>1. /\ stage = "Between" /\ scenario' = scenario + 1 /\ consumed' = {} /\ regular' = TRUE
      /\ UNCHANGED <<env, campaign, provisioned, publisher>>
  BY DEF StartSession
<1>2. scenario' \in 1 .. 8 BY <1>1 DEF IInv, StageInv
<1>3. \/ stage' = "Subscribed" /\ outcome' = "none"
      \/ /\ stage' = "Stopped" /\ outcome' = "panic"
         /\ provisioned.symmetricKeySize \notin KeySizes[scenarios[scenario'].cipher]
         /\ scenarios[scenario'].keys = "PSK"
  BY DEF StartSession
<1>4. TypeOK' BY <1>1, <1>2 DEF IInv, TypeOK
<1>5. StageInv' /\ OwnPublisher' /\ AllConsumed'
  BY <1>2, <1>3 DEF StageInv, OwnPublisher, AllConsumed
<1>6. provisioned.symmetricKeySize = 16 => outcome' = "none"
  BY <1>2, <1>3, RowTypes DEF KeySizes
<1>7. ConsumedBelongsToTheScenario' BY <1>1 DEF ConsumedBelongsToTheScenario
<1>8. SessionsDeliver'
  BY <1>1, <1>3, <1>6 DEF SessionsDeliver, OneEnvironmentDelivers, SuccessConsumesAll
<1>9. QED BY <1>4, <1>5, <1>7, <1>8 DEF IInv

LEMMA PublisherConnectsStep == IInv /\ PublisherConnects => IInv'
<1> SUFFICES ASSUME IInv, PublisherConnects PROVE IInv'
  OBVIOUS
<1> DEFINE new == [campaign |-> campaign, scenario |-> scenario, settings |-> env["publisher"],
                   symmetricKeySize |-> provisioned.symmetricKeySize, left |-> MessageCount]
<1>1. /\ stage = "Subscribed" /\ stage' = "Connected" /\ publisher' = new
      /\ regular' = (regular /\ env["publisher"] = provisioned)
      /\ UNCHANGED <<env, campaign, provisioned, scenario, consumed, outcome>>
  BY DEF PublisherConnects
<1>2. scenario \in 1 .. 8 BY <1>1 DEF IInv, StageInv
<1>3. new \in Publishers
  <2>1. env["publisher"] \in Settings /\ campaign \in Nat /\ provisioned \in Settings
    BY DEF IInv, TypeOK, Machines
  <2>2. provisioned.symmetricKeySize \in Nat BY <2>1, ScenariosAssumption DEF Settings
  <2>3. MessageCount \in 0 .. MessageCount BY ScenariosAssumption
  <2>4. QED BY <1>2, <2>1, <2>2, <2>3 DEF Publishers
<1>4. /\ new.campaign = campaign /\ new.scenario = scenario /\ new.settings = env["publisher"]
      /\ new.symmetricKeySize = provisioned.symmetricKeySize /\ new.left = MessageCount
  OBVIOUS
<1> HIDE DEF new
<1>5. TypeOK' BY <1>1, <1>3 DEF IInv, TypeOK
<1>6. StageInv' /\ OwnPublisher' BY <1>1, <1>2, <1>3, <1>4 DEF StageInv, OwnPublisher
<1>7. AllConsumed' BY <1>1, <1>4, ScenariosAssumption DEF AllConsumed
<1>8. QED BY <1>1, <1>5, <1>6, <1>7, PropertiesFrame DEF IInv

LEMMA PublisherPanicsStep == IInv /\ PublisherPanics => IInv'
<1> SUFFICES ASSUME IInv, PublisherPanics PROVE IInv'
  OBVIOUS
<1>1. /\ Sends /\ Raised(PublishMessage(publisher)) /\ publisher' = Nobody
      /\ UNCHANGED <<env, campaign, provisioned, scenario, consumed, regular>>
  BY DEF PublisherPanics
<1>2. TypeOK' BY <1>1 DEF IInv, TypeOK
<1>3. CASE stage = "Connected"
  <2>1. stage' = "Stopped" /\ outcome' = "panic" BY <1>3 DEF PublisherPanics
  <2>2. StageInv' /\ OwnPublisher' /\ AllConsumed'
    BY <2>1 DEF StageInv, OwnPublisher, AllConsumed
  <2>3. ~(provisioned.symmetricKeySize = 16 /\ regular)
    BY <1>1, <1>3, RegularSessionsDeliver DEF IInv, StageInv, OwnPublisher
  <2>4. ConsumedBelongsToTheScenario' BY <1>1 DEF IInv, ConsumedBelongsToTheScenario
  <2>5. SessionsDeliver'
    BY <1>1, <2>1, <2>3 DEF SessionsDeliver, OneEnvironmentDelivers, SuccessConsumesAll
  <2>6. QED BY <1>2, <2>2, <2>4, <2>5 DEF IInv
<1>4. CASE stage # "Connected"
  <2>1. UNCHANGED <<stage, outcome>> BY <1>4 DEF PublisherPanics
  <2>2. StageInv' /\ OwnPublisher' /\ AllConsumed'
    BY <1>1, <1>4, <2>1 DEF IInv, StageInv, OwnPublisher, AllConsumed
  <2>3. QED BY <1>1, <1>2, <2>1, <2>2, PropertiesFrame DEF IInv
<1>5. QED BY <1>3, <1>4

\* One message less to send.
LEMMA OneLess ==
  ASSUME publisher \in Publishers, Sends, publisher' = [publisher EXCEPT !.left = @ - 1]
  PROVE  /\ publisher' \in Publishers /\ publisher'.left = publisher.left - 1
         /\ publisher.left \in 1 .. MessageCount
         /\ publisher'.campaign = publisher.campaign /\ publisher'.scenario = publisher.scenario
         /\ publisher'.settings = publisher.settings
         /\ publisher'.symmetricKeySize = publisher.symmetricKeySize
BY ScenariosAssumption DEF Publishers, Sends

LEMMA PublishUnheardStep == IInv /\ PublishUnheard => IInv'
<1> SUFFICES ASSUME IInv, PublishUnheard PROVE IInv'
  OBVIOUS
<1>1. /\ Sends /\ ~Listening /\ publisher' = [publisher EXCEPT !.left = @ - 1]
      /\ UNCHANGED <<env, campaign, provisioned, stage, scenario, consumed, regular, outcome>>
  BY DEF PublishUnheard
<1>2. publisher' \in Publishers BY <1>1, SendersAreTyped, OneLess DEF IInv
<1>3. TypeOK' BY <1>1, <1>2 DEF IInv, TypeOK
<1>4. StageInv' /\ OwnPublisher' /\ AllConsumed'
  BY <1>1 DEF IInv, StageInv, OwnPublisher, AllConsumed, Listening
<1>5. QED BY <1>1, <1>3, <1>4, PropertiesFrame DEF IInv

LEMMA OrphanExitsStep == IInv /\ OrphanExits => IInv'
<1> SUFFICES ASSUME IInv, OrphanExits PROVE IInv'
  OBVIOUS
<1>1. /\ stage # "Connected" /\ publisher' = Nobody
      /\ UNCHANGED <<env, campaign, provisioned, stage, scenario, consumed, regular, outcome>>
  BY DEF OrphanExits
<1>2. TypeOK' BY <1>1 DEF IInv, TypeOK
<1>3. StageInv' /\ OwnPublisher' /\ AllConsumed'
  BY <1>1 DEF IInv, StageInv, OwnPublisher, AllConsumed
<1>4. QED BY <1>1, <1>2, <1>3, PropertiesFrame DEF IInv

LEMMA EndSessionStep == IInv /\ EndSession => IInv'
<1> SUFFICES ASSUME IInv, EndSession PROVE IInv'
  OBVIOUS
<1>1. /\ stage = "Connected" /\ publisher.left = 0 /\ publisher' = Nobody /\ outcome' = "success"
      /\ stage' = IF scenario < 8 THEN "Between" ELSE "Done"
      /\ UNCHANGED <<env, campaign, provisioned, scenario, consumed, regular>>
  BY EightScenarios DEF EndSession
<1>2. TypeOK' BY <1>1 DEF IInv, TypeOK
<1>3. StageInv' /\ OwnPublisher' /\ AllConsumed'
  BY <1>1 DEF IInv, TypeOK, StageInv, OwnPublisher, AllConsumed
<1>4. ConsumedBelongsToTheScenario' BY <1>1 DEF IInv, ConsumedBelongsToTheScenario
<1>5. SuccessConsumesAll'
  <2>1. \A n \in 1 .. MessageCount : Consumed(n) BY <1>1 DEF IInv, AllConsumed
  <2>2. QED BY <1>1, <2>1 DEF SuccessConsumesAll, Consumed
<1>6. OneEnvironmentDelivers' BY <1>1 DEF OneEnvironmentDelivers
<1>7. QED BY <1>2, <1>3, <1>4, <1>5, <1>6 DEF IInv, SessionsDeliver

LEMMA KillStep == IInv /\ Kill => IInv'
<1> SUFFICES ASSUME IInv, Kill PROVE IInv'
  OBVIOUS
<1>1. /\ stage' = "Stopped" /\ outcome' = "killed"
      /\ UNCHANGED <<env, campaign, provisioned, scenario, publisher, consumed, regular>>
  BY DEF Kill
<1>2. TypeOK' BY <1>1 DEF IInv, TypeOK
<1>3. StageInv' /\ OwnPublisher' /\ AllConsumed' BY <1>1 DEF StageInv, OwnPublisher, AllConsumed
<1>4. ConsumedBelongsToTheScenario' BY <1>1 DEF IInv, ConsumedBelongsToTheScenario
<1>5. SessionsDeliver'
  BY <1>1 DEF SessionsDeliver, OneEnvironmentDelivers, SuccessConsumesAll
<1>6. QED BY <1>2, <1>3, <1>4, <1>5 DEF IInv

\* A message that was consumed is the publisher's: of this campaign and as many as it has
\* left, if it is the session's own, and otherwise the zero message or of its scenario.
LEMMA DeliverStep == IInv /\ Deliver => IInv'
<1> SUFFICES ASSUME IInv, Deliver PROVE IInv'
  OBVIOUS
<1> DEFINE payload == PublishMessage(publisher)
           msg == ConsumeMessage(payload)
<1>1. /\ Sends /\ Listening /\ ~Raised(payload)
      /\ publisher' = [publisher EXCEPT !.left = @ - 1]
      /\ regular' = (regular /\ stage = "Connected")
      /\ UNCHANGED <<env, campaign, provisioned, scenario>>
      /\ \/ Raised(msg) /\ stage' = "Stopped" /\ outcome' = msg.is /\ UNCHANGED consumed
         \/ ~Raised(msg) /\ consumed' = consumed \cup {msg.of} /\ UNCHANGED <<stage, outcome>>
  BY DEF Deliver
<1>2. publisher \in Publishers /\ scenario \in 1 .. 8
  BY <1>1, SendersAreTyped DEF IInv, StageInv, Listening
<1>3. /\ publisher' \in Publishers /\ publisher'.left = publisher.left - 1
      /\ publisher.left \in 1 .. MessageCount
      /\ publisher'.campaign = publisher.campaign /\ publisher'.scenario = publisher.scenario
      /\ publisher'.settings = publisher.settings
      /\ publisher'.symmetricKeySize = publisher.symmetricKeySize
  BY <1>1, <1>2, OneLess
<1>4. ~Raised(msg) =>
        \/ publisher.scenario # scenario /\ msg.of = ZeroMessage
        \/ /\ publisher.scenario = scenario /\ msg.of = NewMessage(publisher)
           /\ scenarios[scenario].keys # "none" => publisher.campaign = campaign
  BY <1>1, <1>2, SubscriberGets
<1>5. stage = "Connected" /\ regular /\ provisioned.symmetricKeySize = 16 => ~Raised(msg)
  BY <1>2, RegularSessionsDeliver DEF IInv, OwnPublisher
<1> HIDE DEF payload, msg
<1>6. TypeOK'
  <2>1. regular' \in BOOLEAN BY <1>1
  <2>2. QED BY <1>1, <1>3, <2>1 DEF IInv, TypeOK
<1>7. CASE Raised(msg)
  <2>1. /\ stage' = "Stopped" /\ outcome' = msg.is /\ consumed' = consumed
    BY <1>1, <1>7
  <2>2. outcome' \in {"panic", "error"} BY <1>7, <2>1 DEF Raised, Panic, Error
  <2>3. StageInv' /\ OwnPublisher' /\ AllConsumed'
    BY <2>1 DEF StageInv, OwnPublisher, AllConsumed
  <2>4. ConsumedBelongsToTheScenario' BY <1>1, <2>1 DEF IInv, ConsumedBelongsToTheScenario
  <2>5. SessionsDeliver'
    BY <1>1, <1>5, <1>7, <2>2 DEF SessionsDeliver, OneEnvironmentDelivers, SuccessConsumesAll
  <2>6. QED BY <1>6, <2>3, <2>4, <2>5 DEF IInv
<1>8. CASE ~Raised(msg)
  <2>1. consumed' = consumed \cup {msg.of} /\ UNCHANGED <<stage, outcome>>
    BY <1>1, <1>8
  <2>2. /\ NewMessage(publisher) # ZeroMessage
        /\ NewMessage(publisher).id.scenario = publisher.scenario
        /\ NewMessage(publisher).id.campaign = publisher.campaign
        /\ NewMessage(publisher).id.left = publisher.left
    BY MessageIsNotZero DEF NewMessage, Identity
  <2>3. StageInv' BY <1>1, <2>1 DEF IInv, StageInv
  <2>4. OwnPublisher' BY <1>1, <1>3, <2>1 DEF IInv, OwnPublisher
  <2>5. AllConsumed'
    <3> SUFFICES ASSUME stage = "Connected", NEW n \in 1 .. MessageCount, publisher.left - 1 < n
                 PROVE  Consumed(n)'
      BY <1>3, <2>1 DEF AllConsumed
    <3>1. CASE publisher.left < n
      <4>1. Consumed(n) BY <3>1 DEF IInv, AllConsumed
      <4>2. QED BY <1>1, <2>1, <4>1 DEF Consumed
    <3>2. CASE publisher.left = n
      <4>1. publisher.scenario = scenario /\ publisher.campaign = campaign
        BY DEF IInv, OwnPublisher
      <4>2. msg.of = NewMessage(publisher) BY <1>4, <1>8, <4>1
      <4>3. /\ msg.of \in consumed' \ {ZeroMessage} /\ msg.of.id.campaign = campaign'
            /\ msg.of.id.left = n
        BY <1>1, <2>1, <2>2, <3>2, <4>1, <4>2
      <4>4. QED BY <4>3 DEF Consumed
    <3>3. QED BY <1>3, <3>1, <3>2
  <2>6. ConsumedBelongsToTheScenario'
    <3> SUFFICES ASSUME NEW m \in consumed' \ {ZeroMessage}
                 PROVE  /\ m.id.scenario = scenario
                        /\ scenarios[scenario].keys # "none" => m.id.campaign = campaign
      BY <1>1 DEF ConsumedBelongsToTheScenario
    <3>1. CASE m \in consumed BY <3>1 DEF IInv, ConsumedBelongsToTheScenario
    <3>2. CASE m = msg.of BY <1>4, <1>8, <2>2, <3>2
    <3>3. QED BY <2>1, <3>1, <3>2
  <2>7. SessionsDeliver'
    <3>1. OneEnvironmentDelivers'
      BY <1>1, <2>1 DEF IInv, SessionsDeliver, OneEnvironmentDelivers
    <3>2. SuccessConsumesAll'
      BY <1>1, <2>1 DEF IInv, SessionsDeliver, SuccessConsumesAll
    <3>3. QED BY <3>1, <3>2 DEF SessionsDeliver
  <2>8. QED BY <1>6, <2>3, <2>4, <2>5, <2>6, <2>7 DEF IInv
<1>9. QED BY <1>7, <1>8

LEMMA IInvStep == IInv /\ [Next]_vars => IInv'
<1> SUFFICES ASSUME IInv, [Next]_vars PROVE IInv'
  OBVIOUS
<1>1. CASE UNCHANGED vars
  <2>1. UNCHANGED <<env, campaign, provisioned, stage, scenario, publisher, consumed, regular, outcome>>
    BY <1>1 DEF vars
  <2>2. TypeOK' /\ StageInv' /\ OwnPublisher' BY <2>1 DEF IInv, TypeOK, StageInv, OwnPublisher
  <2>3. AllConsumed' BY <2>1 DEF IInv, AllConsumed, Consumed
  <2>4. QED BY <2>1, <2>2, <2>3, PropertiesFrame DEF IInv
<1>2. CASE Next
  BY <1>2, EditEnvironmentStep, StartCampaignStep, StartSessionStep, PublisherConnectsStep,
     PublisherPanicsStep, DeliverStep, PublishUnheardStep, OrphanExitsStep, EndSessionStep,
     KillStep DEF Next
<1>3. QED BY <1>1, <1>2

\* ConsumeMessage never takes one message for another: whatever it returns is the zero
\* message, or was published by its own scenario and, where there are keys, in its own
\* campaign; for every set of environments, number of messages and of campaigns.
THEOREM MessagesAreNotMistaken == Spec => []ConsumedBelongsToTheScenario
<1>1. IInv => ConsumedBelongsToTheScenario BY DEF IInv
<1>2. QED BY <1>1, InitInv, IInvStep, PTL DEF Spec

\* With one environment of 16-byte keys and no other publisher no session ends in a panic
\* or an error, and a session that succeeds has got back every message of its publisher.
THEOREM EverySessionDelivers == Spec => []SessionsDeliver
<1>1. IInv => SessionsDeliver BY DEF IInv
<1>2. QED BY <1>1, InitInv, IInvStep, PTL DEF Spec
====
