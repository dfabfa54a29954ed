---- MODULE BrokerEntrypoint ----
(***************************************************************************)
(* entrypoint.sh over the life of the volume /state: the certificates are   *)
(* made once, if ca.crt is missing, the users and the ACL at every start.   *)
(* The shell stops at the first command that fails (set -e), and a start    *)
(* may be killed at any command, leaving the file of that command cut off;  *)
(* compose does not restart the container, the operator does.               *)
(***************************************************************************)
EXTENDS Integers

CONSTANTS
  Environments,  \* contents of benchmark.env: users and topic
  MaxKills,      \* bound: starts and runs that are cut short
  MaxVolumes,    \* bound: volumes made, the first included
  Missing, Torn  \* contents of a file that is not there, or was cut off

\* A key pair is known by the volume it was made on and the start that made it; a
\* certificate by its signer and its key.  The host in it, that of the first start for as
\* long as the volume lives, is left out: what a client makes of it is not in this script.
KeyPairs == (1 .. MaxVolumes) \X (0 .. MaxKills)
Certificates == [ca : KeyPairs, key : KeyPairs]

\* What is missing or was cut off is told apart from what is complete.
ASSUME BrokerAssumption ==
  /\ Environments # {} /\ MaxKills \in Nat /\ MaxVolumes \in Nat \ {0}
  /\ \A content \in {Missing, Torn} :
       content \notin KeyPairs /\ content \notin Certificates /\ content \notin Environments

VARIABLES
  step,     \* the command of the script, "running" the broker, or "down"
  env,      \* the environment file
  here,     \* the environment this container was started with
  volume,   \* how many volumes there have been
  kills,    \* how often the container was killed or a command failed
  files,    \* what /state holds
  caKey,    \* /tmp/ca.key: the CA it belongs to
  served    \* the CA of a broker that has run on this volume

vars == <<step, env, here, volume, kills, files, caKey, served>>

Commands == {"ca", "key", "sign", "clean", "passwords", "acl", "permissions", "exec"}
Names == {"ca", "key", "crt", "passwords", "acl"}

\* The file a command writes.
Output == [c \in {"ca", "key", "sign", "passwords", "acl"} |-> IF c = "sign" THEN "crt" ELSE c]

Empty == [n \in Names |-> Missing]

Init ==
  /\ step = "down" /\ env \in Environments /\ here = env
  /\ volume = 1 /\ kills = 0 /\ files = Empty /\ caKey = Missing /\ served = Missing

----
(* The script. *)

\* What a command needs: openssl the key of the CA, chmod every file it names, mosquitto
\* a key and a certificate that it can load.
Possible ==
  /\ step = "sign" => caKey = files["ca"]
  /\ step = "permissions" => \A n \in Names : files[n] # Missing
  /\ step = "exec" => Torn \notin {files["key"], files["crt"]} /\ files["crt"].key = files["key"]

\* A command ends: its output is complete, and the next command is due.
Writes(command, content, next) ==
  /\ step = command /\ step' = next
  /\ files' = [files EXCEPT ![Output[command]] = content]
  /\ UNCHANGED <<env, here, volume, kills, served>>

\* Mutant: the certificate is made again, the CA is not.
StartAtKey ==
  /\ step = "down" /\ step' = IF files["ca"] = Missing THEN "ca" ELSE "key"
  /\ here' = env
  /\ UNCHANGED <<env, volume, kills, files, caKey, served>>

\* docker compose up: set -a of the environment, and the test for ca.crt.
Start ==
  /\ step = "down" /\ step' = IF files["ca"] = Missing THEN "ca" ELSE "passwords"
  /\ here' = env
  /\ UNCHANGED <<env, volume, kills, files, caKey, served>>

\* What openssl makes now is like nothing that it made before.
Fresh == <<volume, kills>>

MakeCA  == Writes("ca", Fresh, "key") /\ caKey' = Fresh
MakeKey == Writes("key", Fresh, "sign") /\ UNCHANGED caKey
Sign ==
  /\ Possible /\ Writes("sign", [ca |-> caKey, key |-> files["key"]], "clean")
  /\ UNCHANGED caKey

CleanUp ==
  /\ step = "clean" /\ step' = "passwords" /\ caKey' = Missing
  /\ UNCHANGED <<env, here, volume, kills, files, served>>

\* Mutant: the users are only made when there are none.
MakePasswordsOnce ==
  Writes("passwords", IF files["passwords"] = Missing THEN here ELSE files["passwords"], "acl")
    /\ UNCHANGED caKey

\* rm -f, then both users: what an earlier start left does not matter.
MakePasswords == Writes("passwords", here, "acl") /\ UNCHANGED caKey
MakeACL == Writes("acl", here, "permissions") /\ UNCHANGED caKey

SetPermissions ==
  /\ step = "permissions" /\ Possible
  /\ step' = "exec"
  /\ UNCHANGED <<env, here, volume, kills, files, caKey, served>>

\* The certificate is that of the key and was signed by the CA.
Certified ==
  /\ {files[n] : n \in {"ca", "key", "crt"}} \cap {Missing, Torn} = {}
  /\ files["crt"].ca = files["ca"] /\ files["crt"].key = files["key"]

Exec ==
  /\ step = "exec" /\ Possible
  /\ step' = "running" /\ served' = files["ca"]
  /\ UNCHANGED <<env, here, volume, kills, files, caKey>>

Script ==
  \/ MakeCA \/ MakeKey \/ Sign \/ CleanUp \/ MakePasswords \/ MakeACL
  \/ SetPermissions \/ Exec

\* A command that cannot succeed ends the script, and with it the container.
Aborts ==
  /\ step \in Commands /\ ~Possible
  /\ step' = "down"
  /\ UNCHANGED <<env, here, volume, kills, files, caKey, served>>

----
(* What happens to it. *)

\* docker stop, a power cut or a full disk; the file being written may be cut off.
Kill ==
  /\ step # "down" /\ kills < MaxKills
  /\ step' = "down" /\ kills' = kills + 1
  /\ \/ files' = files
     \/ step \in DOMAIN Output /\ files' = [files EXCEPT ![Output[step]] = Torn]
  /\ UNCHANGED <<env, here, volume, caKey, served>>

\* The operator edits benchmark.env.
Edit ==
  /\ env' \in Environments
  /\ UNCHANGED <<step, here, volume, kills, files, caKey, served>>

\* docker compose down -v; the next container has an empty /tmp as well.
RemoveVolume ==
  /\ step = "down" /\ volume < MaxVolumes
  /\ volume' = volume + 1 /\ files' = Empty /\ caKey' = Missing /\ served' = Missing
  /\ UNCHANGED <<step, env, here, kills>>

Next == Start \/ Script \/ Aborts \/ Kill \/ Edit \/ RemoveVolume

\* The operator starts what is down, and a script that is not killed goes on.
Spec == Init /\ [][Next]_vars /\ WF_vars(Start) /\ WF_vars(Script \/ Aborts)

----
(* Properties. *)

\* A broker that serves has a certificate of its own key, signed by the CA that the
\* coordinator copies to the endpoints, and the users and topics of the environment it was
\* started with, whatever interrupted starts have left in the volume (entrypoint.sh).
ServesWhatItWasToldTo ==
  step = "running" => Certified /\ files["passwords"] = here /\ files["acl"] = here

\* The CA of a broker that has served stays that of its volume: restarts, interrupted ones
\* too, do not invalidate the copies on the endpoints (the test for ca.crt).
ServedCAStays == served # Missing => served = files["ca"] /\ Certified

\* A broker that serves is the one that its clients know.
BrokerIsTrue == ServesWhatItWasToldTo /\ ServedCAStays

\* The first start on the volume was cut short between the CA and the certificate.
Interrupted == served = Missing /\ files["ca"] # Missing /\ ~Certified

\* A broker that is started again serves, unless an interrupted first start left a CA
\* without a certificate: the one state that no later start repairs.
ServesAgain == (step = "down" /\ ~Interrupted) ~> (step = "running" \/ Interrupted)

----
(* The inductive invariant: a certificate is written last and of what lies beside it, and    *)
(* neither of the three is touched once ca.crt is there; the users and the ACL are written   *)
(* in every start, after the environment was read.                                           *)

TypeOK ==
  /\ step \in Commands \union {"down", "running"}
  /\ env \in Environments /\ here \in Environments
  /\ volume \in 1 .. MaxVolumes /\ kills \in 0 .. MaxKills
  /\ DOMAIN files = Names
  /\ \A n \in {"ca", "key"} : files[n] \in KeyPairs \union {Missing, Torn}
  /\ files["crt"] \in Certificates \union {Missing, Torn}
  /\ \A n \in {"passwords", "acl"} : files[n] \in Environments \union {Missing, Torn}
  /\ caKey \in KeyPairs \union {Missing}
  /\ served \in KeyPairs \union {Missing}

\* While they are made, nothing has been served and there is no certificate.
MakingInv ==
  /\ step \in {"ca", "key", "sign"} => served = Missing /\ files["crt"] = Missing
  /\ files["ca"] = Missing => step \in {"down", "ca"} /\ files["crt"] = Missing
  /\ step \in {"key", "sign"} => files["ca"] = caKey /\ caKey \in KeyPairs
  /\ step = "sign" => files["key"] \in KeyPairs

\* A certificate that was not cut off belongs to what lies beside it, and so does that of
\* a broker that has served.
CertifiedInv ==
  /\ files["crt"] \in Certificates => Certified
  /\ served # Missing => served = files["ca"] /\ Certified
  /\ step \in {"exec", "running"} => files["crt"] # Missing
  /\ step = "running" => Certified

\* The users and the ACL are those of this start's environment once they are written.
WrittenInv ==
  /\ step \in {"acl", "permissions", "exec", "running"} => files["passwords"] = here
  /\ step \in {"permissions", "exec", "running"} => files["acl"] = here

IInv == TypeOK /\ MakingInv /\ CertifiedInv /\ WrittenInv
====
