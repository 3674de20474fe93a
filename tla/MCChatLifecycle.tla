--------------------------- MODULE MCChatLifecycle ---------------------------
EXTENDS ChatLifecycle, TLC

CONSTANTS p1, p2

TwoRequests == {p1, p2}

\* requests are interchangeable (safety runs only)
Symmetric == Permutations(Procs)

AllOperations == Ops \cup Instant

\* what the chat window itself can do, in any number of tabs
BrowserOperations == {"send", "endUi", "reactivate", "delete", "start", "crash"}

\* without the unguarded gist generation and the re-creation of a deleted id
GuardedOperations == {"send", "endUi", "endApi", "consolidate", "reactivate",
                      "delete", "crash"}

RequestsOnly == Ops
TurnAndRestEnd == {"send", "endApi"}
SendAndConsolidate == {"send", "consolidate"}
=============================================================================
