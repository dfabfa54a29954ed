---- MODULE Envelopes ----
(***************************************************************************)
(* What the eight scenarios put into a payload and take out of it.  Bytes   *)
(* are symbols: what they were made from, and with which key.  The ciphers  *)
(* and codecs are libraries; what the code relies on is that a seal opens   *)
(* under its own key and nonce only, that a private key unwraps what was    *)
(* wrapped for it, and that a decoder refuses another codec's bytes but     *)
(* ignores fields it does not know and leaves absent ones zero.             *)
(***************************************************************************)
EXTENDS Naturals

\* Every value says what it is; two results are not bytes: a Go panic and an error.
Zero == [is |-> "zero"]
Panic == [is |-> "panic"]
Error == [is |-> "error"]
Raised(value) == value \in {Panic, Error}

GenerateRandomBytes(name, count) == [is |-> "random", name |-> name, size |-> count]

----
(* Serialization. *)

MessageFields == {"id", "payload"}
SymmetricEnvelope == {"nonce", "ciphertext"}
AsymmetricEnvelope == {"asymmetricCiphertext", "nonce", "symmetricCiphertext"}

Serialize(codec, value) == [is |-> "data", codec |-> codec, fields |-> value]

\* The value of a Go struct with these fields.
Deserialize(codec, data, fields) ==
  IF data.is = "data" /\ data.codec = codec
  THEN [is |-> "value",
        of |-> [f \in fields |-> IF f \in DOMAIN data.fields THEN data.fields[f] ELSE Zero]]
  ELSE Error

----
(* Cryptography: each function panics where its library returns an error. *)

KeySizes == [AES |-> {16, 24, 32}, ASCON |-> {16}]

\* NewAES and NewASCON.
Accepts(cipher, key) == key.is = "random" /\ key.size \in KeySizes[cipher]

Encrypt(cipher, key, nonce, text) ==
  IF Accepts(cipher, key)
  THEN [is |-> "sealed", cipher |-> cipher, key |-> key, nonce |-> nonce, text |-> text]
  ELSE Panic

Decrypt(cipher, key, nonce, sealed) ==
  IF /\ Accepts(cipher, key) /\ sealed.is = "sealed"
     /\ sealed.cipher = cipher /\ sealed.key = key /\ sealed.nonce = nonce
  THEN sealed.text
  ELSE Panic

\* Mutant: the policy has an attribute more than the key.
PolicyOneMore(attributeCount) == attributeCount + 1

\* The policy asks for all attributes from attr0 up to this many.
Policy(attributeCount) == attributeCount

\* A scheme is RSA or CP-ABE with the campaign that provisioned its keys; for CP-ABE a
\* public key comes with a policy and a private key with a number of attributes.
Wrap(scheme, policy, text) ==
  [is |-> "wrapped", scheme |-> scheme, policy |-> policy, text |-> text]

Unwrap(scheme, attributes, wrapped) ==
  IF wrapped.is = "wrapped" /\ wrapped.scheme = scheme /\ wrapped.policy <= attributes
  THEN wrapped.text
  ELSE Panic

----
(* PublishMessage of the scenarios, by what they have in common: the payload, or Panic. *)

\* Mutant: the light scenario takes over the serializer of the standard one.
PublishTLSStandard(codec, msg) == Serialize("JSON", msg)

PublishTLS(codec, msg) == Serialize(codec, msg)

PublishPSK(codec, cipher, key, nonce, msg) ==
  LET ciphertext == Encrypt(cipher, key, nonce, Serialize(codec, msg))
  IN IF Raised(ciphertext) THEN ciphertext
     ELSE Serialize(codec, [nonce |-> nonce, ciphertext |-> ciphertext])

\* RSA and CP-ABE: the key is a new one in every message.
PublishAsymmetric(codec, cipher, scheme, policy, key, nonce, msg) ==
  LET sealed == Encrypt(cipher, key, nonce, Serialize(codec, msg))
  IN IF Raised(sealed) THEN sealed
     ELSE Serialize(codec, [asymmetricCiphertext |-> Wrap(scheme, policy, key),
                            nonce |-> nonce, symmetricCiphertext |-> sealed])

----
(* ConsumeMessage: the message, or the panic or error. *)

ConsumeTLS(codec, payload) == Deserialize(codec, payload, MessageFields)

\* The message inside what a cipher has opened.
Opened(codec, text) ==
  IF Raised(text) THEN text ELSE Deserialize(codec, text, MessageFields)

ConsumePSK(codec, cipher, key, payload) ==
  LET env == Deserialize(codec, payload, SymmetricEnvelope)
  IN IF Raised(env) THEN env
     ELSE Opened(codec, Decrypt(cipher, key, env.of.nonce, env.of.ciphertext))

ConsumeAsymmetric(codec, cipher, scheme, attributes, payload) ==
  LET env == Deserialize(codec, payload, AsymmetricEnvelope)
  IN IF Raised(env) THEN env
     ELSE LET key == Unwrap(scheme, attributes, env.of.asymmetricCiphertext)
          IN IF Raised(key) THEN key
             ELSE Opened(codec, Decrypt(cipher, key, env.of.nonce, env.of.symmetricCiphertext))
====
