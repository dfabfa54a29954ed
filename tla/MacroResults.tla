---- MODULE MacroResults ----
(***************************************************************************)
(* The layout of the result tables of the macro benchmark: how a measured   *)
(* run is mapped to a slot of the results slice (runPublisher and           *)
(* runSubscriber), how the flat, preallocated measurement memory is cut     *)
(* into those slots (preparePublisherResults), and how a slot is turned     *)
(* back into the payload and repetition columns of the CSV files            *)
(* (writePublisherResults and writeSubscriberResults).                      *)
(*                                                                         *)
(* The operators take the configuration of one endpoint as arguments:       *)
(* publisher and subscriber each source their own benchmark.env.            *)
(***************************************************************************)
EXTENDS Integers, Sequences

Publisher  == "publisher"
Subscriber == "subscriber"
Endpoint   == {Publisher, Subscriber}

\* An unwritten measurement: touchMemory leaves StartTime / EndTime at -1.
Untouched == <<>>

\* Mutation: the warm-up runs are not discounted.
ResultIndexWithWarmups(payload, run, runs, warmups) == payload * runs + run

\* The slot of results used by measured run `run` of payload `payload`.
ResultIndex(payload, run, runs, warmups) == payload * runs + run - warmups

Slots(payloads, runs) == 0 .. payloads * runs - 1

\* results[slot].Measurements: one entry per message, all of them touched.
Prepared(payloads, runs, count) ==
  [slot \in Slots(payloads, runs) |-> [message \in 0 .. count - 1 |-> Untouched]]

\* The CSV rows of a results table: the columns payload_size, repetition and
\* message_id, one row for every preallocated measurement, written or not.
CsvRow(results, runs, slot, message) ==
  [payload    |-> slot \div runs,
   repetition |-> (slot % runs) + 1,
   id         |-> results[slot][message]]

CsvRows(results, runs) ==
  UNION {{CsvRow(results, runs, slot, message) : message \in DOMAIN results[slot]}
           : slot \in DOMAIN results}
====
