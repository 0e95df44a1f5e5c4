--------------------------- MODULE HistoryBrowsing ---------------------------
(***************************************************************************)
(* Clients that page through an account's history: every page request goes *)
(* through the rate limiter, and one that gets 429 is sent again.  Rows    *)
(* are inserted meanwhile.                                                 *)
(***************************************************************************)
EXTENDS RateLimiter, TransactionHistory

CONSTANT MaxRows   \* bound on the rows inserted

\* Whoever sends requests reads the history.
ASSUME BrowsingAssumption == Readers = Clients /\ MaxRows \in Nat

vars == <<limiterVars, historyVars>>

Init == LimiterInit /\ HistoryInit

\* A client asks for its next page until a page has no next_cursor.
Request(c) == ~finished[c] /\ Arrive(c) /\ UNCHANGED historyVars

Limit429(c) == (getLimiter(c) \/ Allow(c)) /\ UNCHANGED historyVars

GetPage(c) == Served(c) /\ ListByAccount(c)

\* The session, the account or the page could not be read: an error answer.
ReadFails(c) == Served(c) /\ UNCHANGED historyVars

Insert ==
    /\ Cardinality(rows) < MaxRows
    /\ \E x \in Row : InsertTransaction(x)
    /\ UNCHANGED limiterVars

Pass == Tick /\ UNCHANGED historyVars

Next ==
    \/ \E c \in Clients : Request(c) \/ Limit429(c) \/ GetPage(c) \/ ReadFails(c)
    \/ Insert
    \/ Pass

Spec == Init /\ [][Next]_vars

\* Clients go on, handlers run, time passes, and reads do not fail for ever.
FairSpec ==
    /\ Spec
    /\ \A c \in Clients : WF_vars(Request(c)) /\ WF_vars(Limit429(c)) /\ SF_vars(GetPage(c))
    /\ WF_vars(Pass)

-----------------------------------------------------------------------------
TypeOK == LimiterTypeOK /\ HistoryTypeOK

\* Every client reaches the end of the history in spite of 429 answers, failed reads and full last pages.
HistoryEnds == \A c \in Clients : <>finished[c]
=============================================================================
