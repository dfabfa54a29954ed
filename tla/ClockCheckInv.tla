---- MODULE ClockCheckInv ----
(* The inductive invariant of ClockCheck, conjunct by conjunct. *)
EXTENDS ClockCheck

\* Nothing on the way is of a request not yet made.
Numbered == request <= asked /\ server.id <= asked /\ reply.id <= asked

\* The server's timestamps of this exchange are in their order, between those of the client.
Stamped ==
  /\ server.id = asked /\ asked # 0 =>
       Skew <= server.received /\ server.received <= now + Skew
  /\ reply.id = asked /\ asked # 0 =>
       Skew <= reply.received /\ reply.received <= reply.sent /\ reply.sent <= now + Skew

\* Each exchange is off by at most half its round trip.
Bounded ==
  \A e \in exchanges : e.offset - 2 * Skew <= e.delay /\ 2 * Skew - e.offset <= e.delay

\* The bursts are counted as the loop counts them.
Counted ==
  /\ client = "wait" => asked # 0
  /\ client \in {"ask", "wait"} => done < Exchanges
  /\ client \in {"ask", "wait", "burst"} => burst < Bursts

ClockInv == ClockTypeOK /\ Numbered /\ Stamped /\ Bounded /\ Counted /\ MeanIsWithinHalfTheRTT
====
