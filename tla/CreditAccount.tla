----------------------------- MODULE CreditAccount -----------------------------
(***************************************************************************)
(* What a chat turn promises about credits, in amounts without decimals:   *)
(* every attempt is counted, every debit the tally accepts is added, and a *)
(* report is exactly the tally of the moment.  ChatTurn.tla is written     *)
(* over these tallies.                                                     *)
(***************************************************************************)
EXTENDS AttemptEvents

VARIABLES
    tally,    \* the turn's tally
    report    \* what the client was told, or nothing yet

CAvars == <<tally, report>>

CAInit == tally = EmptyTally /\ report = <<>>

Open == tally' = EmptyTally /\ report' = <<>>

Bill ==
    /\ report = <<>>
    /\ \E credit \in Debits \cup {NoCredit} : tally' = Billed(tally, credit)
    /\ UNCHANGED report

Tell == report' = <<Report(tally)>> /\ UNCHANGED tally

CANext == Open \/ Bill \/ Tell

CASpec == CAInit /\ [][CANext]_CAvars
=============================================================================
