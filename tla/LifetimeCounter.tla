--------------------------- MODULE LifetimeCounter ---------------------------
(***************************************************************************)
(* What the exporter promises of every counter series it rewrites: the     *)
(* value Prometheus reads never exceeds what really happened and never     *)
(* drops, unless the exporter lost its state in between; then it may drop  *)
(* once, still without exceeding what happened.                            *)
(***************************************************************************)
EXTENDS Naturals

CONSTANT Series

VARIABLES
    count,  \* how often the counted thing really happened
    shown,  \* the value Prometheus read last
    kept    \* FALSE from a loss of state to the next value read

LCvars == <<count, shown, kept>>

LCInit ==
    /\ count = [s \in Series |-> 0]
    /\ shown = [s \in Series |-> 0]
    /\ kept = [s \in Series |-> TRUE]

Grow ==
    /\ count' \in [Series -> Nat]
    /\ \A s \in Series : count'[s] >= count[s]
    /\ UNCHANGED <<shown, kept>>

Show ==
    /\ shown' \in [Series -> Nat]
    /\ kept' \in [Series -> BOOLEAN]
    /\ \A s \in Series :
        \/ shown'[s] = shown[s] /\ kept'[s] = kept[s]
        \/ /\ shown'[s] <= count[s]
           /\ kept[s] => shown'[s] >= shown[s]
           /\ kept'[s]
    /\ UNCHANGED count

Lose ==
    /\ kept' \in [Series -> BOOLEAN]
    /\ \A s \in Series : kept'[s] => kept[s]
    /\ UNCHANGED <<count, shown>>

LCNext == Grow \/ Show \/ Lose

LCSpec == LCInit /\ [][LCNext]_LCvars
=============================================================================
