---- MODULE MicroReportsMC ----
EXTENDS MicroReports

MCEnvironment ==
  [runs |-> [s \in {"aes_ascon", "json_cbor", "cpabe_rsa", "full_schema"} |-> 2],
   payloads |-> <<16, 64>>, schemaPayloads |-> <<256>>,
   attributes |-> <<1, 2>>, subscribers |-> <<1, 2>>, keyBits |-> <<2, 3>>, fixed |-> 3]
====
