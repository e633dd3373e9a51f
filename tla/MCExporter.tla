----------------------------- MODULE MCExporter -----------------------------
(* Exporter for TLC: one attempt counter and a histogram of two buckets.   *)
EXTENDS Exporter

CONSTANTS attempts, le1, leInf

MCSeries == {attempts, le1, leInf}

MCObservations == {"failed", "fast", "slow"}

\* A failed attempt has no first output; a fast one falls in both buckets.
MCFeeds ==
    [o \in MCObservations |->
        CASE o = "failed" -> {attempts}
          [] o = "fast"   -> {le1, leInf}
          [] o = "slow"   -> {leInf}]

MCFamilies == {{attempts}, {le1, leInf}}

\* One counter alone, counted further.
OneSeries == {attempts}
OneObservation == {"failed"}
OneFeeds == [o \in OneObservation |-> {attempts}]
OneFamily == {{attempts}}
=============================================================================
