----------------------------- MODULE MCChatTurn -----------------------------
(* ChatTurn for TLC.                                                       *)
EXTENDS ChatTurn, TLC

\* Every request.
AnyAsk == AskType

\* Deadlines matter to liveness alone, and who asked for usage to the tail.
BilledAsk == {a \in AskType : a.timed /\ a.includeUsage}

\* Every way a provider may end a turn.
AnyResult == [reason : {"", "length", "tool_calls"}, tools : BOOLEAN]

\* One is enough where the frames of the answer do not matter.
OneResult == {[reason |-> "length", tools |-> FALSE]}

TurnSymmetry == Permutations(Requests)
=============================================================================
