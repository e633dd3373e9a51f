---------------------------- MODULE AttemptEvents ----------------------------
(***************************************************************************)
(* The events the smolllm-go library reports, one per upstream attempt,    *)
(* and what the server reads out of one: the outcome the ledger files it   *)
(* under (ledger.go, recordAttemptLocked) and the debit the credit tally   *)
(* takes from it (credit.go, record).  Amounts of credit are small         *)
(* naturals here; CreditTally.tla models their decimals.                   *)
(***************************************************************************)
EXTENDS Naturals

CONSTANTS
    Debits,     \* the amounts an attempt may be billed
    NoCredit    \* the usage carries no credit the tally accepts

ASSUME DebitsAssumption == Debits \subseteq Nat /\ NoCredit \notin Nat

Outcomes == {"ok", "first_output_timeout", "error", "canceled"}

Errors == {"none", "canceled", "other"}

\* An attempt abandoned for want of a first output also carries an error.
Events ==
    {e \in [error : Errors, firstOutputTimeout : BOOLEAN,
            credit : Debits \cup {NoCredit}] :
        e.firstOutputTimeout => e.error = "other"}

Succeeded(e) == e.error = "none"

OutcomeOf(e) ==
    IF e.firstOutputTimeout THEN "first_output_timeout"
    ELSE IF e.error = "canceled" THEN "canceled"
    ELSE IF e.error # "none" THEN "error"
    ELSE "ok"

-----------------------------------------------------------------------------
(* The tally of one request: how many attempts it made, how many of them   *)
(* were billed an amount, and the sum of those amounts.                    *)

Tallies == [attempts : Nat, known : Nat, total : Nat]

EmptyTally == [attempts |-> 0, known |-> 0, total |-> 0]

\* Mutant: an attempt without a credit is not counted at all.
Billed_KnownOnly(t, credit) ==
    IF credit = NoCredit
    THEN t
    ELSE [attempts |-> t.attempts + 1, known |-> t.known + 1,
          total |-> t.total + credit]

Billed(t, credit) ==
    IF credit = NoCredit
    THEN [t EXCEPT !.attempts = @ + 1]
    ELSE [attempts |-> t.attempts + 1, known |-> t.known + 1,
          total |-> t.total + credit]

\* What apply writes into the usage object, or errorHeaders into the headers.
\* Without a known debit the credit is absent, never zero.
Report(t) ==
    [credit   |-> IF t.known > 0 THEN <<t.total>> ELSE <<>>,
     attempts |-> t.attempts,
     known    |-> t.known,
     complete |-> t.attempts > 0 /\ t.known = t.attempts]
=============================================================================
