---------------------------- MODULE MCBrokerSlot ----------------------------
(* Instances of BrokerSlot for TLC.                                        *)
EXTENDS BrokerSlot

\* Two versions of one tenancy under one passphrase, a third under another,
\* and a tenancy of another host.
TwoHosts == [d \in Descriptors |-> IF d = "other" THEN "h2" ELSE "h1"]
TwoHashes == [d \in Descriptors |-> IF d \in {"v1", "v2"} THEN "k1" ELSE "k2"]
=============================================================================
