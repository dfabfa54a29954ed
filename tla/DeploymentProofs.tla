---- MODULE DeploymentProofs ----
(***************************************************************************)
(* What a macro session takes for granted of its machines: the broker       *)
(* serves with what its clients were given (BrokerIsTrue), for every set of *)
(* environments, every number of volumes and of interrupted starts, and the *)
(* clocks are as near as the clock check prints (MeanIsWithinHalfTheRTT),   *)
(* for every skew, number of exchanges and timeout.  The two have nothing   *)
(* in common; each is proved from its own inductive invariant.              *)
(***************************************************************************)
EXTENDS BrokerEntrypoint, ClockCheckInv, TLAPS

----------------------------------------------------------------------------
(* The broker's entrypoint, from IInv. *)

USE BrokerAssumption

LEMMA CertifiedMeans ==
  Certified <=> /\ \A n \in {"ca", "key", "crt"} : files[n] \notin {Missing, Torn}
                /\ files["crt"].ca = files["ca"] /\ files["crt"].key = files["key"]
BY DEF Certified

\* The certificate and its CA are left alone.
LEMMA CertifiedFrame ==
  ASSUME \A n \in {"ca", "key", "crt"} : files'[n] = files[n]
  PROVE  Certified' <=> Certified
BY DEF Certified

LEMMA InitInv == Init => IInv
BY DEF Init, Empty, Names, Commands, IInv, TypeOK, MakingInv, CertifiedInv, WrittenInv

\* What a command writes into its file.
LEMMA OneFile ==
  ASSUME DOMAIN files = Names, NEW command \in DOMAIN Output, NEW content, NEW next, Writes(command, content, next)
  PROVE  /\ step = command /\ step' = next /\ DOMAIN files' = Names
         /\ files'[Output[command]] = content
         /\ \A n \in Names \ {Output[command]} : files'[n] = files[n]
         /\ UNCHANGED <<env, here, volume, kills, served>>
BY DEF Writes, Output, Names

LEMMA FreshIsKeyPair == TypeOK => Fresh \in KeyPairs
BY DEF TypeOK, Fresh, KeyPairs

LEMMA MakeCAInv == IInv /\ MakeCA => IInv'
<1> SUFFICES ASSUME IInv, MakeCA PROVE IInv'
  OBVIOUS
<1>1. /\ step = "ca" /\ step' = "key" /\ DOMAIN files' = Names /\ files'["ca"] = Fresh /\ caKey' = Fresh
      /\ \A n \in Names \ {"ca"} : files'[n] = files[n]
      /\ UNCHANGED <<env, here, volume, kills, served>>
  BY OneFile DEF MakeCA, IInv, TypeOK, Output
<1>2. Fresh \in KeyPairs
  BY FreshIsKeyPair DEF IInv
<1>3. TypeOK'
  BY <1>1, <1>2 DEF IInv, TypeOK, Names, Commands
<1>4. MakingInv' /\ CertifiedInv' /\ WrittenInv'
  BY <1>1, <1>2 DEF IInv, TypeOK, MakingInv, CertifiedInv, WrittenInv, Names
<1> QED BY <1>3, <1>4 DEF IInv

LEMMA MakeKeyInv == IInv /\ MakeKey => IInv'
<1> SUFFICES ASSUME IInv, MakeKey PROVE IInv'
  OBVIOUS
<1>1. /\ step = "key" /\ step' = "sign" /\ DOMAIN files' = Names /\ files'["key"] = Fresh
      /\ \A n \in Names \ {"key"} : files'[n] = files[n]
      /\ UNCHANGED <<env, here, volume, kills, caKey, served>>
  BY OneFile DEF MakeKey, IInv, TypeOK, Output
<1>2. Fresh \in KeyPairs
  BY FreshIsKeyPair DEF IInv
<1>3. TypeOK'
  BY <1>1, <1>2 DEF IInv, TypeOK, Names, Commands
<1>4. MakingInv' /\ CertifiedInv' /\ WrittenInv'
  BY <1>1, <1>2 DEF IInv, TypeOK, MakingInv, CertifiedInv, WrittenInv, Names
<1> QED BY <1>3, <1>4 DEF IInv

\* The certificate is of the CA and the key that lie beside it.
LEMMA SignInv == IInv /\ Sign => IInv'
<1> SUFFICES ASSUME IInv, Sign PROVE IInv'
  OBVIOUS
<1> DEFINE certificate == [ca |-> caKey, key |-> files["key"]]
<1>1. /\ step = "sign" /\ step' = "clean" /\ DOMAIN files' = Names /\ files'["crt"] = certificate
      /\ \A n \in Names \ {"crt"} : files'[n] = files[n]
      /\ UNCHANGED <<env, here, volume, kills, caKey, served>>
  BY OneFile DEF Sign, IInv, TypeOK, Output
<1>2. files["ca"] = caKey /\ caKey \in KeyPairs /\ files["key"] \in KeyPairs /\ here \in Environments
  BY <1>1 DEF IInv, TypeOK, MakingInv
<1>3. certificate \in Certificates /\ certificate.ca = files["ca"] /\ certificate.key = files["key"]
  BY <1>2 DEF Certificates
<1> HIDE DEF certificate
<1>4. TypeOK'
  BY <1>1, <1>3 DEF IInv, TypeOK, Names, Commands
<1>5. Certified'
  BY <1>1, <1>2, <1>3 DEF Certified, Names
<1>6. MakingInv' /\ CertifiedInv' /\ WrittenInv'
  BY <1>1, <1>2, <1>3, <1>5 DEF IInv, TypeOK, MakingInv, CertifiedInv, WrittenInv, Names
<1> QED BY <1>4, <1>6 DEF IInv

\* The users and the ACL, and the commands that write no file.
LEMMA LaterInv ==
  ASSUME IInv, MakePasswords \/ MakeACL \/ CleanUp \/ SetPermissions
  PROVE  IInv'
<1>1. /\ DOMAIN files' = Names /\ \A n \in {"ca", "key", "crt"} : files'[n] = files[n]
      /\ UNCHANGED <<env, here, volume, kills, served>> /\ caKey' \in {caKey, Missing}
      /\ \/ step = "clean" /\ step' = "passwords" /\ files' = files
         \/ step = "passwords" /\ step' = "acl" /\ files'["passwords"] = here /\ files'["acl"] = files["acl"]
         \/ step = "acl" /\ step' = "permissions" /\ files'["acl"] = here
              /\ files'["passwords"] = files["passwords"]
         \/ step = "permissions" /\ step' = "exec" /\ files' = files /\ Possible
  <2>1. CASE MakePasswords
    BY <2>1, OneFile DEF MakePasswords, IInv, TypeOK, Output, Names
  <2>2. CASE MakeACL
    BY <2>2, OneFile DEF MakeACL, IInv, TypeOK, Output, Names
  <2>3. CASE CleanUp \/ SetPermissions
    BY <2>3 DEF CleanUp, SetPermissions, IInv, TypeOK
  <2> QED BY <2>1, <2>2, <2>3
<1>2. Certified' <=> Certified
  BY <1>1, CertifiedFrame
<1>3. step = "permissions" => files["crt"] # Missing
  BY <1>1 DEF Possible, Names
<1>4. TypeOK'
  BY <1>1 DEF IInv, TypeOK, Commands
<1>5. MakingInv'
  BY <1>1 DEF IInv, MakingInv
<1>6. CertifiedInv'
  BY <1>1, <1>2, <1>3 DEF IInv, CertifiedInv
<1>7. WrittenInv'
  BY <1>1 DEF IInv, WrittenInv
<1> QED BY <1>4, <1>5, <1>6, <1>7 DEF IInv

\* mosquitto runs only with a certificate that it can load, which is then Certified.
LEMMA ExecInv == IInv /\ Exec => IInv'
<1> SUFFICES ASSUME IInv, Exec PROVE IInv'
  OBVIOUS
<1>1. /\ step = "exec" /\ step' = "running" /\ served' = files["ca"] /\ Possible
      /\ UNCHANGED <<env, here, volume, kills, files, caKey>>
  BY DEF Exec
<1>2. files["crt"] \in Certificates
  BY <1>1 DEF IInv, TypeOK, CertifiedInv, Possible
<1>3. Certified
  BY <1>2 DEF IInv, CertifiedInv
<1>4. Certified' <=> Certified
  BY <1>1, CertifiedFrame
<1>5. served' \in KeyPairs
  BY <1>1, <1>3, CertifiedMeans DEF IInv, TypeOK
<1>6. TypeOK'
  BY <1>1, <1>5 DEF IInv, TypeOK
<1>7. MakingInv' /\ CertifiedInv' /\ WrittenInv'
  BY <1>1, <1>3, <1>4 DEF IInv, MakingInv, CertifiedInv, WrittenInv
<1> QED BY <1>6, <1>7 DEF IInv

\* A CA that is there is never made again, so a CA that has served stays.
LEMMA StartInv == IInv /\ Start => IInv'
<1> SUFFICES ASSUME IInv, Start PROVE IInv'
  OBVIOUS
<1>1. /\ step = "down" /\ step' = IF files["ca"] = Missing THEN "ca" ELSE "passwords"
      /\ here' = env /\ UNCHANGED <<env, volume, kills, files, caKey, served>>
  BY DEF Start
<1>2. Certified' <=> Certified
  BY <1>1, CertifiedFrame
<1>3. files["ca"] = Missing => served = Missing /\ files["crt"] = Missing
  BY CertifiedMeans DEF IInv, MakingInv, CertifiedInv
<1>4. TypeOK'
  BY <1>1 DEF IInv, TypeOK, Commands
<1>5. MakingInv' /\ CertifiedInv' /\ WrittenInv'
  BY <1>1, <1>2, <1>3 DEF IInv, MakingInv, CertifiedInv, WrittenInv
<1> QED BY <1>4, <1>5 DEF IInv

\* A kill may cut off the file that is being written, which has not been served from.
LEMMA KillInv == IInv /\ Kill => IInv'
<1> SUFFICES ASSUME IInv, Kill PROVE IInv'
  OBVIOUS
<1>1. /\ step' = "down" /\ kills' \in 0 .. MaxKills /\ UNCHANGED <<env, here, volume, caKey, served>>
  BY DEF Kill, IInv, TypeOK
<1>2. CASE files' = files
  <2>1. Certified' <=> Certified
    BY <1>2, CertifiedFrame
  <2>2. TypeOK' /\ MakingInv' /\ CertifiedInv' /\ WrittenInv'
    BY <1>1, <1>2, <2>1 DEF IInv, TypeOK, MakingInv, CertifiedInv, WrittenInv
  <2> QED BY <2>2 DEF IInv
<1>3. CASE step \in DOMAIN Output /\ files' = [files EXCEPT ![Output[step]] = Torn]
  <2>1. /\ DOMAIN files' = Names /\ Output[step] \in Names /\ files'[Output[step]] = Torn
        /\ \A n \in Names \ {Output[step]} : files'[n] = files[n]
    BY <1>3 DEF IInv, TypeOK, Output, Names
  <2>2. TypeOK'
    BY <1>1, <2>1 DEF IInv, TypeOK, Names, Commands
  <2>3. CASE step \in {"passwords", "acl"}
    <3>1. \A n \in {"ca", "key", "crt"} : files'[n] = files[n]
      BY <2>1, <2>3 DEF Output, Names
    <3>2. Certified' <=> Certified
      BY <3>1, CertifiedFrame
    <3>3. MakingInv' /\ CertifiedInv' /\ WrittenInv'
      BY <1>1, <2>3, <3>1, <3>2 DEF IInv, MakingInv, CertifiedInv, WrittenInv
    <3> QED BY <2>2, <3>3 DEF IInv
  <2>4. CASE step \in {"ca", "key", "sign"}
    <3>1. served = Missing /\ files["crt"] = Missing
      BY <2>4 DEF IInv, MakingInv
    <3>2. files'["crt"] \in {Missing, Torn} /\ (files'["ca"] = Missing => files'["crt"] = Missing)
      BY <2>1, <2>4, <3>1 DEF IInv, MakingInv, Output, Names
    <3>3. MakingInv' /\ CertifiedInv' /\ WrittenInv'
      BY <1>1, <3>1, <3>2 DEF MakingInv, CertifiedInv, WrittenInv
    <3> QED BY <2>2, <3>3 DEF IInv
  <2> QED BY <1>3, <2>3, <2>4 DEF Output
<1> QED BY <1>2, <1>3 DEF Kill

\* The operator, and a script that stops.
LEMMA OtherInv ==
  ASSUME IInv, Edit \/ RemoveVolume \/ Aborts \/ UNCHANGED vars
  PROVE  IInv'
<1>1. CASE Edit \/ Aborts \/ UNCHANGED vars
  <2>1. /\ UNCHANGED <<here, volume, kills, files, caKey, served>> /\ step' \in {step, "down"} /\ env' \in Environments
    BY <1>1 DEF Edit, Aborts, vars, IInv, TypeOK
  <2>2. Certified' <=> Certified
    BY <2>1, CertifiedFrame
  <2>3. TypeOK' /\ MakingInv' /\ CertifiedInv' /\ WrittenInv'
    BY <2>1, <2>2 DEF IInv, TypeOK, MakingInv, CertifiedInv, WrittenInv
  <2> QED BY <2>3 DEF IInv
<1>2. CASE RemoveVolume
  <2>1. /\ step' = "down" /\ files' = Empty /\ caKey' = Missing /\ served' = Missing
        /\ volume' \in 1 .. MaxVolumes /\ UNCHANGED <<env, here, kills>>
    BY <1>2 DEF RemoveVolume, IInv, TypeOK
  <2>2. TypeOK' /\ MakingInv' /\ CertifiedInv' /\ WrittenInv'
    BY <2>1 DEF IInv, TypeOK, MakingInv, CertifiedInv, WrittenInv, Empty, Names
  <2> QED BY <2>2 DEF IInv
<1> QED BY <1>1, <1>2

LEMMA StepInv == IInv /\ [Next]_vars => IInv'
BY StartInv, MakeCAInv, MakeKeyInv, SignInv, LaterInv, ExecInv, KillInv, OtherInv DEF Next, Script

\* A broker that serves is the one its clients know: certified by the CA that was copied to
\* them, with the users and the ACL of its environment, and its CA stays for the life of the
\* volume, whichever starts were interrupted at whichever command.
THEOREM BrokerServesTruly == Spec => []BrokerIsTrue
<1>1. IInv => BrokerIsTrue
  BY DEF IInv, CertifiedInv, WrittenInv, BrokerIsTrue, ServesWhatItWasToldTo, ServedCAStays
<1> QED BY <1>1, InitInv, StepInv, PTL DEF Spec

----------------------------------------------------------------------------
(* The clock check, from ClockInv: each selected exchange is off by at most half its *)
(* round trip, and the sums keep it.                                                 *)

HIDE BrokerAssumption
USE ClockAssumption

LEMMA ClockInitially == ClockInit => ClockInv
BY DEF ClockInit, ClockInv, ClockTypeOK, Numbered, Stamped, Bounded, Counted, MeanIsWithinHalfTheRTT,
   Work, Reply, NoReply

\* What Receive computes is a result, off by at most half its round trip.
LEMMA ReceivedIsBounded ==
  ASSUME ClockTypeOK, Stamped, asked # 0, reply.id = asked
  PROVE  /\ Received \in Result
         /\ Received.offset - 2 * Skew <= Received.delay
         /\ 2 * Skew - Received.offset <= Received.delay
<1>1. now \in Nat /\ reply.received \in Int /\ reply.sent \in Int BY DEF ClockTypeOK, Reply
<1>2. Skew <= reply.received /\ reply.received <= reply.sent /\ reply.sent <= now + Skew
  BY DEF Stamped
<1>3. /\ Received.offset = reply.received + reply.sent - now
      /\ Received.delay = now - (reply.sent - reply.received)
  BY DEF Received
<1>4. Received \in Result BY <1>1 DEF Received, Result
<1>5. QED BY <1>1, <1>2, <1>3, <1>4

LEMMA ReceiveStep == ClockInv /\ Receive => ClockInv'
<1> SUFFICES ASSUME ClockInv, Receive PROVE ClockInv'
  OBVIOUS
<1>1. UNCHANGED <<now, asked, request, reply, server, burst, offsets, rtts>>
  BY DEF Receive, net, sums
<1>2. asked # 0 /\ client = "wait" /\ done < Exchanges /\ burst < Bursts
  BY DEF ClockInv, Counted, Receive
<1>3. /\ Received \in Result
      /\ Received.offset - 2 * Skew <= Received.delay
      /\ 2 * Skew - Received.offset <= Received.delay
  BY <1>2, ReceivedIsBounded DEF ClockInv, Receive
<1>4. exchanges' \subseteq exchanges \cup {Received} BY DEF Receive
<1>5. exchanges' \in SUBSET Result BY <1>3, <1>4 DEF ClockInv, ClockTypeOK
<1>6. Bounded' BY <1>3, <1>4 DEF ClockInv, Bounded
<1>7. /\ done' \in 0 .. Exchanges /\ client' \in {"ask", "burst", "raised"}
      /\ client' = "ask" => done' < Exchanges
  BY <1>2 DEF Receive, ClockInv, ClockTypeOK
<1>8. ClockTypeOK' BY <1>1, <1>5, <1>7 DEF ClockInv, ClockTypeOK
<1>9. Numbered' /\ Stamped' /\ MeanIsWithinHalfTheRTT'
  BY <1>1 DEF ClockInv, Numbered, Stamped, MeanIsWithinHalfTheRTT
<1>10. Counted' BY <1>1, <1>2, <1>7 DEF Counted
<1>11. QED BY <1>6, <1>8, <1>9, <1>10 DEF ClockInv

LEMMA CloseBurstStep == ClockInv /\ CloseBurst => ClockInv'
<1> SUFFICES ASSUME ClockInv, CloseBurst PROVE ClockInv'
  OBVIOUS
<1>1. PICK e \in exchanges : offsets' = offsets + e.offset /\ rtts' = rtts + e.delay
  BY DEF CloseBurst
<1>2. e.offset \in Int /\ e.delay \in Int BY DEF ClockInv, ClockTypeOK, Result
<1>3. e.offset - 2 * Skew <= e.delay /\ 2 * Skew - e.offset <= e.delay
  BY DEF ClockInv, Bounded
<1>4. burst' = burst + 1 /\ burst \in Nat /\ offsets \in Int /\ rtts \in Int
  BY DEF CloseBurst, ClockInv, ClockTypeOK
<1>5. 2 * burst' * Skew = 2 * burst * Skew + 2 * Skew /\ 2 * burst * Skew \in Int BY <1>4
<1>6. MeanIsWithinHalfTheRTT'
  <2>1. offsets - 2 * burst * Skew <= rtts /\ 2 * burst * Skew - offsets <= rtts
    BY DEF ClockInv, MeanIsWithinHalfTheRTT
  <2>2. offsets' - 2 * burst' * Skew <= rtts' /\ 2 * burst' * Skew - offsets' <= rtts'
    <3> DEFINE truth == 2 * burst * Skew
               truthNext == 2 * burst' * Skew
    <3>1. truth \in Int /\ truthNext = truth + 2 * Skew BY <1>5
    <3>2. offsets - truth <= rtts /\ truth - offsets <= rtts BY <2>1
    <3> HIDE DEF truth, truthNext
    <3>3. offsets' - truthNext <= rtts' /\ truthNext - offsets' <= rtts'
      BY <1>1, <1>2, <1>3, <1>4, <3>1, <3>2
    <3>4. QED BY <3>3 DEF truthNext
  <2>3. QED BY <2>2 DEF MeanIsWithinHalfTheRTT
<1>7. UNCHANGED <<now, asked, request, reply, server>> BY DEF CloseBurst, net
<1>8. Numbered' /\ Stamped' BY <1>7 DEF ClockInv, Numbered, Stamped
<1>9. client = "burst" /\ burst < Bursts BY DEF CloseBurst, ClockInv, Counted
<1>10. /\ done' = 0 /\ exchanges' = {} /\ client' \in {"ask", "printed"}
       /\ client' = "ask" => burst' < Bursts
  BY <1>4 DEF CloseBurst
<1>11. ClockTypeOK' BY <1>1, <1>2, <1>4, <1>7, <1>9, <1>10 DEF ClockInv, ClockTypeOK
<1>12. Bounded' /\ Counted' BY <1>10 DEF Bounded, Counted
<1>13. QED BY <1>6, <1>8, <1>11, <1>12 DEF ClockInv

LEMMA ServerReceivesStep == ClockInv /\ ServerReceives => ClockInv'
<1> SUFFICES ASSUME ClockInv, ServerReceives PROVE ClockInv'
  OBVIOUS
<1>1. UNCHANGED <<now, client, asked, request, reply, done, exchanges, burst, offsets, rtts>>
  BY DEF ServerReceives, sums
<1>2. server' = [id |-> request, received |-> now + Skew] BY DEF ServerReceives
<1>3. ClockTypeOK' BY <1>1, <1>2 DEF ClockInv, ClockTypeOK, Work
<1>4. Numbered' /\ Stamped' BY <1>1, <1>2 DEF ClockInv, ClockTypeOK, Numbered, Stamped
<1>5. Bounded' /\ Counted' /\ MeanIsWithinHalfTheRTT'
  BY <1>1 DEF ClockInv, Bounded, Counted, MeanIsWithinHalfTheRTT
<1>6. QED BY <1>3, <1>4, <1>5 DEF ClockInv

LEMMA ServerAnswersStep == ClockInv /\ ServerAnswers => ClockInv'
<1> SUFFICES ASSUME ClockInv, ServerAnswers PROVE ClockInv'
  OBVIOUS
<1> DEFINE answer == [id |-> server.id, received |-> server.received, sent |-> now + Skew]
<1>1. UNCHANGED <<now, client, asked, request, done, exchanges, burst, offsets, rtts>>
  BY DEF ServerAnswers, sums
<1>2. server' = [id |-> 0, received |-> 0] /\ reply' \in {reply, answer} BY DEF ServerAnswers
<1>3. answer \in Reply BY DEF ClockInv, ClockTypeOK, Work, Reply
<1>4. ClockTypeOK' BY <1>1, <1>2, <1>3 DEF ClockInv, ClockTypeOK, Work
<1>5. Numbered' BY <1>1, <1>2 DEF ClockInv, ClockTypeOK, Numbered
<1>6. Stamped'
  <2>1. CASE reply' = reply BY <1>1, <1>2, <2>1 DEF ClockInv, Stamped
  <2>2. CASE reply' = answer
    BY <1>1, <1>2, <2>2 DEF ClockInv, ClockTypeOK, Work, Stamped
  <2>3. QED BY <1>2, <2>1, <2>2
<1>7. Bounded' /\ Counted' /\ MeanIsWithinHalfTheRTT'
  BY <1>1 DEF ClockInv, Bounded, Counted, MeanIsWithinHalfTheRTT
<1>8. QED BY <1>4, <1>5, <1>6, <1>7 DEF ClockInv

LEMMA AskStep == ClockInv /\ Ask => ClockInv'
<1> SUFFICES ASSUME ClockInv, Ask PROVE ClockInv'
  OBVIOUS
<1>1. UNCHANGED <<server, done, exchanges, burst, offsets, rtts>> BY DEF Ask, sums
<1>2. /\ now' = 0 /\ asked' = asked + 1 /\ request' = asked + 1 /\ reply' = NoReply
      /\ client = "ask" /\ client' = "wait"
  BY DEF Ask
<1>3. ClockTypeOK' BY <1>1, <1>2 DEF ClockInv, ClockTypeOK, NoReply, Reply
<1>4. Numbered' /\ Stamped' BY <1>1, <1>2 DEF ClockInv, ClockTypeOK, Numbered, Stamped, NoReply, Work
<1>5. Counted' BY <1>1, <1>2 DEF ClockInv, ClockTypeOK, Counted
<1>6. Bounded' /\ MeanIsWithinHalfTheRTT' BY <1>1 DEF ClockInv, Bounded, MeanIsWithinHalfTheRTT
<1>7. QED BY <1>3, <1>4, <1>5, <1>6 DEF ClockInv

\* A datagram lost, a tick and the timeout leave the results alone.
LEMMA OtherStep == ClockInv /\ (TimesOut \/ Lose \/ Tick \/ UNCHANGED clockVars) => ClockInv'
<1> SUFFICES ASSUME ClockInv, TimesOut \/ Lose \/ Tick \/ UNCHANGED clockVars PROVE ClockInv'
  OBVIOUS
<1>1. UNCHANGED <<asked, server, done, exchanges, burst, offsets, rtts>>
  BY DEF TimesOut, Lose, Tick, clockVars, net, sums
<1>2. /\ now' \in {now, now + 1} /\ client' \in {client, "raised"}
      /\ request' \in {request, 0} /\ reply' \in {reply, NoReply}
  BY DEF TimesOut, Lose, Tick, clockVars, net
<1>3. ClockTypeOK' BY <1>1, <1>2 DEF ClockInv, ClockTypeOK, NoReply, Reply
<1>4. Numbered' BY <1>1, <1>2 DEF ClockInv, ClockTypeOK, Numbered, NoReply
<1>5. Stamped'
  BY <1>1, <1>2 DEF ClockInv, ClockTypeOK, Stamped, NoReply, Work, Reply
<1>6. Counted' BY <1>1, <1>2 DEF ClockInv, Counted
<1>7. Bounded' /\ MeanIsWithinHalfTheRTT' BY <1>1 DEF ClockInv, Bounded, MeanIsWithinHalfTheRTT
<1>8. QED BY <1>3, <1>4, <1>5, <1>6, <1>7 DEF ClockInv

LEMMA ClockStep == ClockInv /\ [ClockNext]_clockVars => ClockInv'
BY AskStep, ReceiveStep, CloseBurstStep, ServerReceivesStep, ServerAnswersStep, OtherStep
   DEF ClockNext, Client, Server

\* The mean offset printed is off by at most half the mean round trip printed with it, for
\* every skew of the clocks and whatever the network does.
THEOREM MeanIsBounded == ClockSpec => []MeanIsWithinHalfTheRTT
<1>1. ClockInv => MeanIsWithinHalfTheRTT BY DEF ClockInv
<1>2. QED BY ClockInitially, ClockStep, <1>1, PTL DEF ClockSpec

\* The variables keep their types: the loops end at BURSTS and EXCHANGES_PER_BURST.
THEOREM ClockTypeCorrect == ClockSpec => []ClockTypeOK
<1>1. ClockInv => ClockTypeOK BY DEF ClockInv
<1>2. QED BY ClockInitially, ClockStep, <1>1, PTL DEF ClockSpec
====
