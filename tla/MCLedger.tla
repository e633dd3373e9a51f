------------------------------- MODULE MCLedger -------------------------------
(* Ledger for TLC: a handful of attempts that differ where the code tells  *)
(* attempts apart.                                                         *)
EXTENDS Ledger

MCBounds == <<1, 3>>

\* A streamed success on the first edge, half of its input read from a cache.
Fast ==
    [alias |-> 1, provider |-> 1, model |-> 1, streaming |-> TRUE,
     error |-> "none", firstOutputTimeout |-> FALSE, phase |-> 0, wait |-> 1,
     input |-> 2, output |-> 1, cacheRead |-> 1, cacheWrite |-> 0,
     cacheReadReported |-> TRUE, estimated |-> FALSE]

\* A success beyond the last edge, of another provider of the same model; it
\* reports cache writes only.
Slow ==
    [Fast EXCEPT !.provider = 2, !.wait = 4, !.cacheRead = 0, !.cacheWrite = 1,
                 !.cacheReadReported = FALSE]

\* A leg abandoned in the queue after its budget.
Queued ==
    [Fast EXCEPT !.error = "other", !.firstOutputTimeout = TRUE, !.phase = 1,
                 !.wait = 3, !.output = 0, !.cacheRead = 0,
                 !.cacheReadReported = FALSE, !.estimated = TRUE]

\* A caller that hung up on a blocking call of the alias's other model.
HungUp ==
    [Queued EXCEPT !.error = "canceled", !.firstOutputTimeout = FALSE, !.phase = 0,
                   !.wait = 0, !.model = 2, !.streaming = FALSE]

\* A success on Fast's leg whose first output nobody timed.
Untimed == [Fast EXCEPT !.wait = 0]

MCCalls == {Fast, Slow, Queued, HungUp, Untimed}
=============================================================================
