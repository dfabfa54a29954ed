---- MODULE ClockCheck ----
(***************************************************************************)
(* clock_sync_check.py: bursts of timestamp exchanges over UDP, of which    *)
(* the fastest of each burst is kept, and the mean offset of the two clocks *)
(* that is printed.  Datagrams are lost, delayed and duplicated.  Time is   *)
(* that since the request: the client's clock shows now, the server's       *)
(* now + Skew; the packets and the sockets are those of ntplib.             *)
(***************************************************************************)
EXTENDS Integers

CONSTANTS
  Bursts,      \* BURSTS
  Exchanges,   \* EXCHANGES_PER_BURST
  Timeout,     \* of the client's socket
  Skew         \* what the server's clock is ahead of the client's

ASSUME ClockAssumption ==
  Bursts \in Nat \ {0} /\ Exchanges \in Nat \ {0} /\ Timeout \in Nat /\ Skew \in Int

VARIABLES
  now,        \* time since the request of this exchange
  client,     \* where measure is
  asked,      \* requests sent: each has a socket of its own
  request,    \* the request on the way, or its duplicate; 0 if none
  reply,      \* the reply on the way; its id is 0 if there is none
  server,     \* the request serve is answering, and when it was received; 0 if none
  done,       \* exchanges of this burst
  burst,      \* bursts closed
  exchanges,  \* the results of this burst: twice the offset, and the round trip
  offsets,    \* the sum of twice the selected offsets
  rtts        \* the sum of the selected round trips

net == <<request, reply, server>>
sums == <<burst, offsets, rtts>>
clockVars == <<now, client, asked, net, done, exchanges, sums>>

Work == [id : Nat, received : Int]
Reply == [id : Nat, received : Int, sent : Int]
NoReply == [id |-> 0, received |-> 0, sent |-> 0]
Result == [offset : Int, delay : Int]

ClockInit ==
  /\ now = 0 /\ client = "ask" /\ asked = 0
  /\ request = 0 /\ reply = NoReply /\ server = [id |-> 0, received |-> 0]
  /\ done = 0 /\ burst = 0 /\ exchanges = {} /\ offsets = 0 /\ rtts = 0

----
(* The client. *)

\* A new socket: late datagrams of an earlier exchange have nowhere to go; what they may
\* still do is keep the server busy.
Ask ==
  /\ client = "ask" /\ client' = "wait"
  /\ now' = 0 /\ asked' = asked + 1
  /\ request' = asked + 1 /\ reply' = NoReply
  /\ UNCHANGED <<server, done, exchanges, sums>>

\* The timestamps of the client are 0 and now.
Received ==
  [offset |-> reply.received + reply.sent - now, delay |-> now - (reply.sent - reply.received)]

Receive ==
  /\ client = "wait" /\ reply.id = asked
  /\ IF Received.delay < 0
     THEN client' = "raised" /\ UNCHANGED <<done, exchanges>>
     ELSE /\ exchanges' = exchanges \cup {Received} /\ done' = done + 1
          /\ client' = IF done + 1 = Exchanges THEN "burst" ELSE "ask"
  /\ UNCHANGED <<now, asked, net, sums>>

TimesOut ==
  /\ client = "wait" /\ now >= Timeout /\ client' = "raised"
  /\ UNCHANGED <<now, asked, net, done, exchanges, sums>>

\* The exchange with the lowest round trip, then the sleep before the next burst.
CloseBurst ==
  /\ client = "burst"
  /\ \E e \in exchanges :
       /\ \A f \in exchanges : e.delay <= f.delay
       /\ offsets' = offsets + e.offset /\ rtts' = rtts + e.delay
  /\ burst' = burst + 1 /\ done' = 0 /\ exchanges' = {}
  /\ client' = IF burst + 1 < Bursts THEN "ask" ELSE "printed"
  /\ UNCHANGED <<now, asked, net>>

----
(* The server, and the network between. *)

\* Mutant: the time is taken before recvfrom returns.
ServerReceivesBefore ==
  /\ request # 0 /\ server.id = 0 /\ server' = [id |-> request, received |-> now + Skew - 1]
  /\ UNCHANGED <<now, client, asked, request, reply, done, exchanges, sums>>

\* A duplicate of the request may still be on the way.
ServerReceives ==
  /\ request # 0 /\ server.id = 0 /\ server' = [id |-> request, received |-> now + Skew]
  /\ UNCHANGED <<now, client, asked, request, reply, done, exchanges, sums>>

\* The answer to a duplicate may be behind the reply that is already on the way.
ServerAnswers ==
  /\ server.id # 0 /\ server' = [id |-> 0, received |-> 0]
  /\ reply' \in {reply, [id |-> server.id, received |-> server.received, sent |-> now + Skew]}
  /\ UNCHANGED <<now, client, asked, request, done, exchanges, sums>>

Lose ==
  /\ \/ request' = 0 /\ reply' = reply
     \/ reply' = NoReply /\ request' = request
  /\ UNCHANGED <<now, client, asked, server, done, exchanges, sums>>

Tick ==
  /\ client = "wait" /\ now < Timeout /\ now' = now + 1
  /\ UNCHANGED <<client, asked, net, done, exchanges, sums>>

Client == Ask \/ Receive \/ TimesOut \/ CloseBurst
Server == ServerReceives \/ ServerAnswers

ClockNext == Client \/ Server \/ Lose \/ Tick

ClockSpec == ClockInit /\ [][ClockNext]_clockVars

----
(* Properties. *)

ClockTypeOK ==
  /\ now \in Nat /\ asked \in Nat /\ done \in 0 .. Exchanges /\ burst \in 0 .. Bursts
  /\ client \in {"ask", "wait", "burst", "printed", "raised"}
  /\ request \in Nat /\ reply \in Reply /\ server \in Work
  /\ exchanges \in SUBSET Result /\ offsets \in Int /\ rtts \in Int

\* The mean offset that is printed is off by at most half the mean round trip printed with
\* it, whatever the network does to the datagrams and the server's loop to its replies.
MeanIsWithinHalfTheRTT ==
  /\ offsets - 2 * burst * Skew <= rtts
  /\ 2 * burst * Skew - offsets <= rtts
====
