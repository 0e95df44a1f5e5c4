------------------------- MODULE TransactionHistory -------------------------
(***************************************************************************)
(* Cursor-paginated transaction history of one account                     *)
(* (HistoryService.ListByAccount and ListTransactionsByAccountID), read    *)
(* page by page by several clients while rows are inserted.                *)
(*                                                                         *)
(* A row is its created_at and its id.  Ids are random UUIDs, so any order *)
(* between the ids of two rows may occur, and several rows may share a     *)
(* created_at.  A row may become visible after a row that is younger:      *)
(* NOW() is when the inserting statement began.  Encoding a cursor and     *)
(* decoding it again loses nothing (RFC 3339 to the nanosecond; PostgreSQL *)
(* keeps microseconds), so a cursor is the row it names.                   *)
(***************************************************************************)
EXTENDS Naturals, Sequences, FiniteSets, SequencesExt

CONSTANTS Readers,     \* clients reading the history
          Times,       \* created_at values, a set of naturals
          Ids,         \* row ids, a set of naturals
          Limit,       \* page size
          NoCursor     \* the request has no cursor

Row == [at : Times, id : Ids]

ASSUME HistoryAssumption ==
    /\ Times \subseteq Nat /\ Ids \subseteq Nat
    /\ Limit \in Nat \ {0}
    /\ NoCursor \notin Row

VARIABLES rows,       \* the account's transactions
          cursor,     \* cursor[r]: next_cursor of reader r's last page
          read,       \* read[r]: the rows reader r got, in order
          baseline,   \* baseline[r]: the rows there were at r's first page
          finished    \* finished[r]: r's last page had no next_cursor

historyVars == <<rows, cursor, read, baseline, finished>>

\* ORDER BY created_at DESC, id DESC
Newer(x, y) == x.at > y.at \/ (x.at = y.at /\ x.id > y.id)

\* Mutant: the tie-break on id is forgotten.
BeyondByTimeOnly(x, c) == c = NoCursor \/ x.at < c.at

\* Mutant: the cursor's own row is not excluded.
BeyondInclusive(x, c) == c = NoCursor \/ x.at < c.at \/ (x.at = c.at /\ x.id <= c.id)

\* The WHERE clause on the cursor.
Beyond(x, c) == c = NoCursor \/ x.at < c.at \/ (x.at = c.at /\ x.id < c.id)

\* How many rows of S come before x.
Rank(x, S) == Cardinality({y \in S : Newer(y, x)})

\* The first Limit rows of S in that order.
Page(S) ==
    LET n == Cardinality(S)
    IN  [i \in 1..(IF n < Limit THEN n ELSE Limit) |-> CHOOSE x \in S : Rank(x, S) = i - 1]

ListTransactionsByAccountID(c) == Page({x \in rows : Beyond(x, c)})

\* Mutant: every page, the empty one included, has a next_cursor.
NextCursorAlways(page, c) == IF page = <<>> THEN c ELSE Last(page)

\* A full page may have a successor.
NextCursor(page, c) == IF Len(page) = Limit THEN Last(page) ELSE NoCursor

HistoryInit ==
    /\ rows = {}
    /\ cursor = [r \in Readers |-> NoCursor]
    /\ read = [r \in Readers |-> <<>>]
    /\ baseline = [r \in Readers |-> {}]
    /\ finished = [r \in Readers |-> FALSE]

\* CreateTransaction: ids are unique.
InsertTransaction(x) ==
    /\ \A y \in rows : y.id # x.id
    /\ rows' = rows \cup {x}
    /\ UNCHANGED <<cursor, read, baseline, finished>>

ListByAccount(r) ==
    /\ ~finished[r]
    /\ LET page == ListTransactionsByAccountID(cursor[r])
           next == NextCursor(page, cursor[r])
       IN  /\ read' = [read EXCEPT ![r] = @ \o page]
           /\ cursor' = [cursor EXCEPT ![r] = next]
           /\ finished' = [finished EXCEPT ![r] = (next = NoCursor)]
    /\ baseline' = [baseline EXCEPT ![r] = IF cursor[r] = NoCursor THEN rows ELSE @]
    /\ UNCHANGED rows

-----------------------------------------------------------------------------
HistoryTypeOK ==
    /\ rows \subseteq Row
    /\ cursor \in [Readers -> Row \cup {NoCursor}]
    /\ read \in [Readers -> Seq(Row)]
    /\ baseline \in [Readers -> SUBSET Row]
    /\ finished \in [Readers -> BOOLEAN]

\* The pages of one reader, put together, run strictly from newer to older: no row is repeated
\* or out of order, whatever is inserted between two pages.
PagesDescend ==
    \A r \in Readers : \A i, j \in 1..Len(read[r]) : i < j => Newer(read[r][i], read[r][j])

\* A reader that reaches the end has seen every row there was when it began, rows with equal
\* created_at at a page boundary included.
NothingSkipped ==
    \A r \in Readers : finished[r] => baseline[r] \subseteq ToSet(read[r])
=============================================================================
