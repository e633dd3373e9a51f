--------------------------- MODULE MCChatAdmission ---------------------------
(* ConfigStore and ChatAdmission for TLC.                                  *)
EXTENDS ChatAdmission

CONSTANTS k1, k2, none

\* A long chain with a short budget and a short chain with a long one, each
\* within the clients' patience, which the long chain with the long budget is
\* not; a level no logger has; a misspelt alias; and a file caught half-written.
LongChain  == [decodes |-> TRUE, key |-> k1, level |-> "info",
               legs |-> 3, budget |-> 1, limit |-> 4, spelt |-> TRUE]
LongBudget == [decodes |-> TRUE, key |-> k2, level |-> "debug",
               legs |-> 1, budget |-> 3, limit |-> 4, spelt |-> TRUE]
TooLong    == [decodes |-> TRUE, key |-> k1, level |-> "info",
               legs |-> 3, budget |-> 3, limit |-> 4, spelt |-> TRUE]
BadLevel   == [LongChain EXCEPT !.level = "invalid"]
BadAlias   == [LongChain EXCEPT !.spelt = FALSE]
HalfWritten == [LongChain EXCEPT !.decodes = FALSE]

MCContents == {LongChain, LongBudget, TooLong, BadLevel, BadAlias, HalfWritten}
TwoContents == {LongChain, LongBudget}

MCEnvFiles == {none, k2}
NoEnvFile == {none}
=============================================================================
