------------------------ MODULE HistoryBrowsingProofs ------------------------
(***************************************************************************)
(* Proofs about HistoryBrowsing, for any clients, addresses, burst, page   *)
(* size, rows and order of inserts: an address never gets more than one    *)
(* bucket's worth of requests, and the pages a client reads are in order,  *)
(* without repetition and, in the end, complete.                           *)
(***************************************************************************)
EXTENDS HistoryBrowsing, FiniteSetTheorems, TLAPS

-----------------------------------------------------------------------------
(* The order of the rows *)

\* ORDER BY created_at DESC, id DESC is a strict total order of the rows.
LEMMA NewerIsAnOrder ==
    ASSUME NEW x \in Row, NEW y \in Row, NEW z \in Row
    PROVE  /\ ~Newer(x, x)
           /\ Newer(x, y) /\ Newer(y, z) => Newer(x, z)
           /\ x # y => Newer(x, y) \/ Newer(y, x)
           /\ Beyond(x, y) <=> Newer(y, x)
<1>1. {x.at, y.at, z.at, x.id, y.id, z.id} \subseteq Nat /\ y # NoCursor
  BY HistoryAssumption DEF Row
<1>2. x.at = y.at /\ x.id = y.id => x = y
  BY DEF Row
<1>. QED
  BY <1>1, <1>2 DEF Newer, Beyond

\* A row's rank is less than the number of rows, and a newer row has a smaller one.
LEMMA RankFacts ==
    ASSUME NEW S \in SUBSET Row, IsFiniteSet(S), NEW x \in S
    PROVE  /\ Rank(x, S) \in Nat /\ Rank(x, S) < Cardinality(S)
           /\ \A y \in S : Newer(x, y) <=> Rank(x, S) < Rank(y, S)
<1>. DEFINE Before(w) == {v \in S : Newer(v, w)}
<1>1. ASSUME NEW w \in S
      PROVE  /\ IsFiniteSet(Before(w)) /\ Cardinality(Before(w)) \in Nat
             /\ w \notin Before(w)
             /\ Cardinality(Before(w)) < Cardinality(S)
  <2>1. w \notin Before(w)
    BY NewerIsAnOrder
  <2>. QED
    BY <2>1, FS_Subset, FS_CardinalityType
<1>2. ASSUME NEW v \in S, NEW w \in S, Newer(v, w)
      PROVE  Cardinality(Before(v)) < Cardinality(Before(w))
  <2>1. Before(v) \subseteq Before(w)
    BY <1>2, NewerIsAnOrder
  <2>2. v \in Before(w) /\ v \notin Before(v)
    BY <1>1, <1>2
  <2>3. /\ Cardinality(Before(v)) <= Cardinality(Before(w))
        /\ Cardinality(Before(w)) = Cardinality(Before(v)) => Before(w) = Before(v)
    <3>. HIDE DEF Before
    <3>. QED
      BY <1>1, <2>1, FS_Subset
  <2>4. Cardinality(Before(v)) \in Nat /\ Cardinality(Before(w)) \in Nat
    BY <1>1
  <2>5. Before(w) # Before(v)
    BY <2>2
  <2>. HIDE DEF Before
  <2>. QED
    BY <2>3, <2>4, <2>5
<1>3. ASSUME NEW y \in S PROVE Newer(x, y) <=> Cardinality(Before(x)) < Cardinality(Before(y))
  <2>1. x = y \/ Newer(x, y) \/ Newer(y, x)
    BY NewerIsAnOrder
  <2>2. Cardinality(Before(x)) \in Nat /\ Cardinality(Before(y)) \in Nat
    BY <1>1
  <2>3. x = y => ~Newer(x, y)
    BY NewerIsAnOrder
  <2>4. /\ Newer(x, y) => Cardinality(Before(x)) < Cardinality(Before(y))
        /\ Newer(y, x) => Cardinality(Before(y)) < Cardinality(Before(x))
    BY <1>2
  <2>. HIDE DEF Before
  <2>. QED
    BY <2>1, <2>2, <2>3, <2>4
<1>. QED
  BY <1>1, <1>3 DEF Rank

\* Every rank is taken: there are as many ranks as rows, and no two rows share one.
LEMMA RankExists ==
    ASSUME NEW S \in SUBSET Row, IsFiniteSet(S), NEW k \in Nat, k < Cardinality(S)
    PROVE  \E x \in S : Rank(x, S) = k
<1>. SUFFICES ASSUME \A x \in S : Rank(x, S) # k PROVE FALSE
  OBVIOUS
<1>. DEFINE n == Cardinality(S)
            T == (0..(n - 1)) \ {k}
            f == [x \in S |-> Rank(x, S)]
<1>1. n \in Nat
  BY FS_CardinalityType
<1>2. IsFiniteSet(T) /\ Cardinality(T) = n - 1
  <2>1. IsFiniteSet(0..(n - 1)) /\ Cardinality(0..(n - 1)) = n
    <3>1. 0 \in Int /\ n - 1 \in Int
      BY <1>1
    <3>2. /\ IsFiniteSet(0..(n - 1))
          /\ Cardinality(0..(n - 1)) = IF 0 > n - 1 THEN 0 ELSE (n - 1) - 0 + 1
      <4>. HIDE DEF n
      <4>. QED
        BY <3>1, FS_Interval
    <3>. QED
      BY <1>1, <3>2
  <2>2. k \in 0..(n - 1)
    BY <1>1
  <2>. QED
    BY <2>1, <2>2, FS_RemoveElement
<1>3. f \in [S -> T]
  BY <1>1, RankFacts
<1>4. PICK x \in S, y \in S : x # y /\ f[x] = f[y]
  <2>1. Cardinality(T) < Cardinality(S)
    BY <1>1, <1>2
  <2>. HIDE DEF f, T
  <2>. QED
    BY <1>2, <1>3, <2>1, FS_PigeonHole
<1>5. Newer(x, y) \/ Newer(y, x)
  BY <1>4, NewerIsAnOrder
<1>6. Rank(x, S) < Rank(y, S) \/ Rank(y, S) < Rank(x, S)
  BY <1>5, RankFacts
<1>7. Rank(x, S) \in Nat /\ Rank(y, S) \in Nat
  BY RankFacts
<1>. QED
  BY <1>4, <1>6, <1>7

PageLen(S) == IF Cardinality(S) < Limit THEN Cardinality(S) ELSE Limit

\* A page holds the rows of ranks 0, 1, ... up to the limit.
LEMMA PageRows ==
    ASSUME NEW S \in SUBSET Row, IsFiniteSet(S)
    PROVE  /\ PageLen(S) \in Nat /\ PageLen(S) <= Limit
           /\ Page(S) \in Seq(S) /\ Len(Page(S)) = PageLen(S)
           /\ \A i \in 1..PageLen(S) : Page(S)[i] \in S /\ Rank(Page(S)[i], S) = i - 1
<1>1. Cardinality(S) \in Nat /\ Limit \in Nat
  BY FS_CardinalityType, HistoryAssumption
<1>2. PageLen(S) \in Nat /\ PageLen(S) <= Limit /\ PageLen(S) <= Cardinality(S)
  BY <1>1 DEF PageLen
<1>3. Page(S) = [i \in 1..PageLen(S) |-> CHOOSE x \in S : Rank(x, S) = i - 1]
  BY DEF Page, PageLen
<1>4. ASSUME NEW i \in 1..PageLen(S)
      PROVE  Page(S)[i] \in S /\ Rank(Page(S)[i], S) = i - 1
  <2>1. i - 1 \in Nat /\ i - 1 < Cardinality(S)
    BY <1>1, <1>2
  <2>2. \E x \in S : Rank(x, S) = i - 1
    BY <2>1, RankExists
  <2>3. Page(S)[i] = CHOOSE x \in S : Rank(x, S) = i - 1
    BY <1>3
  <2>. QED
    BY <2>2, <2>3
<1>5. Page(S) \in [1..PageLen(S) -> S]
  BY <1>3, <1>4
<1>. QED
  BY <1>2, <1>4, <1>5

\* A page runs from newer to older rows; one that is not full holds every row, and one that is
\* holds every row that is not older than its last.
LEMMA PageFacts ==
    ASSUME NEW S \in SUBSET Row, IsFiniteSet(S)
    PROVE  LET page == Page(S) IN
           /\ page \in Seq(S) /\ Len(page) <= Limit
           /\ \A i, j \in 1..Len(page) : i < j => Newer(page[i], page[j])
           /\ \A x \in S : \/ \E i \in 1..Len(page) : x = page[i]
                           \/ Len(page) = Limit /\ Newer(page[Limit], x)
<1>. DEFINE page == Page(S)
<1>1. /\ Len(page) \in Nat /\ Len(page) <= Limit /\ page \in Seq(S)
      /\ Len(page) = PageLen(S)
      /\ \A i \in 1..Len(page) : page[i] \in S /\ Rank(page[i], S) = i - 1
  BY PageRows
<1>2. ASSUME NEW i \in 1..Len(page), NEW j \in 1..Len(page), i < j
      PROVE  Newer(page[i], page[j])
  <2>1. Rank(page[i], S) < Rank(page[j], S)
    BY <1>1, <1>2
  <2>. QED
    BY <1>1, <2>1, RankFacts
<1>3. ASSUME NEW x \in S, \A i \in 1..Len(page) : x # page[i]
      PROVE  Len(page) = Limit /\ Newer(page[Limit], x)
  <2>1. Rank(x, S) \in Nat /\ Rank(x, S) < Cardinality(S)
    BY RankFacts
  <2>2. Rank(x, S) >= Len(page)
    <3>. SUFFICES ASSUME Rank(x, S) < Len(page) PROVE FALSE
      BY <1>1, <2>1
    <3>. DEFINE i == Rank(x, S) + 1
    <3>1. i \in 1..Len(page)
      BY <1>1, <2>1
    <3>2. page[i] \in S /\ Rank(page[i], S) = Rank(x, S)
      BY <1>1, <2>1, <3>1
    <3>3. ~Newer(page[i], x) /\ ~Newer(x, page[i])
      BY <2>1, <3>2, RankFacts
    <3>4. page[i] = x
      BY <3>2, <3>3, NewerIsAnOrder
    <3>. QED
      BY <1>3, <3>1, <3>4
  <2>3. Cardinality(S) \in Nat /\ Limit \in Nat \ {0}
    BY FS_CardinalityType, HistoryAssumption
  <2>4. Len(page) = Limit
    BY <1>1, <2>1, <2>2, <2>3 DEF PageLen
  <2>5. page[Limit] \in S /\ Rank(page[Limit], S) = Limit - 1
    BY <1>1, <2>3, <2>4
  <2>6. Rank(page[Limit], S) < Rank(x, S)
    BY <2>1, <2>2, <2>3, <2>4, <2>5
  <2>. QED
    BY <2>4, <2>5, <2>6, RankFacts
<1>. QED
  BY <1>1, <1>2, <1>3

-----------------------------------------------------------------------------
(* The invariant *)

\* An address without a limiter has its whole budget; a limiter was made by a request of its
\* own address, and holds what is left of the budget.
LimiterKeepsBudget ==
    \A a \in Addresses :
        /\ limiters[a] = NoLimiter => budget[a] = Burst
        /\ limiters[a] # NoLimiter =>
              AddressOf[limiters[a]] = a /\ budget[a] = tokens[limiters[a]]

\* A request that is about to ask its limiter holds the one that is stored.
HoldsStored ==
    \A c \in Clients :
        gate[c] = "limited" => holds[c] # NoLimiter /\ holds[c] = limiters[AddressOf[c]]

LimiterInv == LimiterTypeOK /\ LimiterKeepsBudget /\ HoldsStored

\* The rows a client has read exist and run from newer to older.
ReadDescends(r) ==
    /\ \A i \in 1..Len(read[r]) : read[r][i] \in rows
    /\ \A i, j \in 1..Len(read[r]) : i < j => Newer(read[r][i], read[r][j])

\* A client is before its first page, after its last one, or goes on after the last row it read.
CursorIsLast(r) ==
    /\ finished[r] => cursor[r] = NoCursor
    /\ cursor[r] = NoCursor /\ ~finished[r] => read[r] = <<>>
    /\ cursor[r] # NoCursor => Len(read[r]) > 0 /\ cursor[r] = read[r][Len(read[r])]

\* Of the rows there were at the first page, what is not read yet is beyond the cursor.
RestIsBeyond(r) ==
    \A x \in baseline[r] :
        \/ \E i \in 1..Len(read[r]) : x = read[r][i]
        \/ ~finished[r] /\ cursor[r] # NoCursor /\ Beyond(x, cursor[r])

ReaderInv(r) == ReadDescends(r) /\ CursorIsLast(r) /\ baseline[r] \subseteq rows /\ RestIsBeyond(r)

BrowsingInv ==
    TypeOK /\ IsFiniteSet(rows) /\ LimiterInv /\ \A r \in Readers : ReaderInv(r)

\* Before anything is inserted or asked for, the invariant holds.
LEMMA InitBrowsing == Init => BrowsingInv
<1>. SUFFICES ASSUME Init PROVE BrowsingInv
  OBVIOUS
<1>1. LimiterTypeOK
  BY LimiterAssumption DEF Init, LimiterInit, LimiterTypeOK, GateStates
<1>2. HistoryTypeOK
  BY DEF Init, HistoryInit, HistoryTypeOK
<1>3. LimiterKeepsBudget /\ HoldsStored
  BY DEF Init, LimiterInit, LimiterKeepsBudget, HoldsStored
<1>4. IsFiniteSet(rows)
  BY FS_EmptySet DEF Init, HistoryInit
<1>5. ASSUME NEW r \in Readers PROVE ReaderInv(r)
  BY DEF Init, HistoryInit, ReaderInv, ReadDescends, CursorIsLast, RestIsBeyond
<1>. QED
  BY <1>1, <1>2, <1>3, <1>4, <1>5 DEF BrowsingInv, LimiterInv, TypeOK

-----------------------------------------------------------------------------
(* The rate limiter *)

\* A step of one request, or the passing of time, keeps the limiters and the budgets together.
LEMMA LimiterStep ==
    ASSUME LimiterInv,
           \/ \E c \in Clients : Arrive(c) \/ getLimiter(c) \/ Allow(c) \/ Served(c)
           \/ Tick
    PROVE  LimiterInv'
<1>0. /\ NoLimiter \notin Clients /\ Burst \in Nat \ {0}
      /\ \A d \in Clients : AddressOf[d] \in Addresses
  BY LimiterAssumption DEF Addresses
<1>. USE <1>0 DEF LimiterInv, LimiterTypeOK, GateStates
<1>1. ASSUME NEW c \in Clients, Arrive(c) \/ Served(c) PROVE LimiterInv'
  <2>1. LimiterTypeOK'
    BY <1>1 DEF Arrive, Served
  <2>2. LimiterKeepsBudget' /\ HoldsStored'
    BY <1>1 DEF Arrive, Served, LimiterKeepsBudget, HoldsStored
  <2>. QED
    BY <2>1, <2>2
<1>2. ASSUME NEW c \in Clients, getLimiter(c) PROVE LimiterInv'
  <2>1. LimiterTypeOK'
    BY <1>2 DEF getLimiter
  <2>2. LimiterKeepsBudget'
    BY <1>2 DEF getLimiter, LimiterKeepsBudget
  <2>3. HoldsStored'
    BY <1>2 DEF getLimiter, HoldsStored
  <2>. QED
    BY <2>1, <2>2, <2>3
<1>3. ASSUME NEW c \in Clients, Allow(c) PROVE LimiterInv'
  <2>1. holds[c] \in Clients /\ holds[c] = limiters[AddressOf[c]]
    BY <1>3 DEF Allow, HoldsStored
  <2>2. LimiterTypeOK'
    BY <1>3, <2>1 DEF Allow
  <2>3. LimiterKeepsBudget'
    BY <1>3, <2>1 DEF Allow, LimiterKeepsBudget
  <2>4. HoldsStored'
    BY <1>3 DEF Allow, HoldsStored
  <2>. QED
    BY <2>2, <2>3, <2>4
<1>4. CASE Tick
  <2>1. LimiterTypeOK'
    BY <1>4 DEF Tick, Refill
  <2>2. LimiterKeepsBudget'
    BY <1>4 DEF Tick, Refill, LimiterKeepsBudget
  <2>3. HoldsStored'
    BY <1>4 DEF Tick, HoldsStored
  <2>. QED
    BY <2>1, <2>2, <2>3
<1>. QED
  BY <1>1, <1>2, <1>3, <1>4

-----------------------------------------------------------------------------
(* Paging *)

\* The next page continues what the client has read: every row of it is older than the cursor,
\* and what it leaves out is older than its last row.
LEMMA ListStep ==
    ASSUME HistoryTypeOK, IsFiniteSet(rows), NEW r \in Readers, ReaderInv(r), ListByAccount(r)
    PROVE  /\ HistoryTypeOK'
           /\ ReaderInv(r)'
           /\ \A q \in Readers \ {r} :
                 /\ cursor'[q] = cursor[q] /\ read'[q] = read[q]
                 /\ baseline'[q] = baseline[q] /\ finished'[q] = finished[q]
<1>. DEFINE S == {x \in rows : Beyond(x, cursor[r])}
            page == Page(S)
            next == NextCursor(page, cursor[r])
            old == read[r]
            n == Len(old)
            m == Len(page)
<1>1. /\ read' = [read EXCEPT ![r] = old \o page]
      /\ cursor' = [cursor EXCEPT ![r] = next]
      /\ finished' = [finished EXCEPT ![r] = (next = NoCursor)]
      /\ baseline' = [baseline EXCEPT ![r] = IF cursor[r] = NoCursor THEN rows ELSE @]
      /\ UNCHANGED rows /\ ~finished[r]
  BY DEF ListByAccount, ListTransactionsByAccountID
<1>2. S \in SUBSET Row /\ IsFiniteSet(S)
  <2>1. S \subseteq rows /\ rows \subseteq Row
    BY DEF HistoryTypeOK
  <2>. HIDE DEF S
  <2>. QED
    BY <2>1, FS_Subset
<1>3. /\ page \in Seq(S) /\ m <= Limit
      /\ \A i, j \in 1..m : i < j => Newer(page[i], page[j])
      /\ \A x \in S : \/ \E i \in 1..m : x = page[i]
                      \/ m = Limit /\ Newer(page[Limit], x)
  <2>. HIDE DEF S
  <2>. QED
    BY <1>2, PageFacts
<1>4. old \in Seq(Row) /\ Limit \in Nat \ {0}
  BY HistoryAssumption DEF HistoryTypeOK
<1>5. page \in Seq(Row) /\ \A i \in 1..m : page[i] \in S /\ page[i] \in Row
  <2>. HIDE DEF S, page
  <2>. QED
    BY <1>2, <1>3
<1>6. /\ m = Limit => next = page[Limit] /\ next \in Row /\ next # NoCursor
      /\ m # Limit => next = NoCursor
  <2>. HIDE DEF page, S
  <2>. QED
    BY <1>4, <1>5, HistoryAssumption DEF NextCursor, Last
<1>7. /\ old \o page \in Seq(Row) /\ Len(old \o page) = n + m /\ n \in Nat /\ m \in Nat
      /\ \A i \in 1..n : (old \o page)[i] = old[i]
      /\ \A i \in 1..m : (old \o page)[n + i] = page[i]
      /\ \A i \in 1..(n + m) : i <= n \/ (i - n \in 1..m /\ (old \o page)[i] = page[i - n])
  <2>. HIDE DEF page, S
  <2>. QED
    BY <1>4, <1>5
<1>8. HistoryTypeOK'
  <2>1. next \in Row \cup {NoCursor}
    BY <1>6
  <2>. HIDE DEF page, S, next
  <2>. QED
    BY <1>1, <1>7, <2>1 DEF HistoryTypeOK
<1>9. /\ cursor'[r] = next /\ read'[r] = old \o page /\ finished'[r] = (next = NoCursor)
      /\ baseline'[r] = IF cursor[r] = NoCursor THEN rows ELSE baseline[r]
  <2>. HIDE DEF page, S, next
  <2>. QED
    BY <1>1 DEF HistoryTypeOK
<1>10. \A q \in Readers \ {r} :
          /\ cursor'[q] = cursor[q] /\ read'[q] = read[q]
          /\ baseline'[q] = baseline[q] /\ finished'[q] = finished[q]
  <2>. HIDE DEF page, S, next
  <2>. QED
    BY <1>1 DEF HistoryTypeOK
<1>11. ReadDescends(r)'
  <2>1. ASSUME NEW i \in 1..n, NEW j \in 1..m
        PROVE  Newer(old[i], page[j])
    <3>1. n > 0 /\ old # <<>> /\ old[i] \in Row /\ old[n] \in Row
      BY <1>4
    <3>2. cursor[r] # NoCursor /\ cursor[r] = old[n]
      BY <1>1, <3>1 DEF ReaderInv, CursorIsLast
    <3>3. Beyond(page[j], cursor[r]) /\ page[j] \in Row
      BY <1>5
    <3>4. Newer(old[n], page[j])
      BY <3>1, <3>2, <3>3, NewerIsAnOrder
    <3>5. i = n \/ Newer(old[i], old[n])
      BY <1>7 DEF ReaderInv, ReadDescends
    <3>. QED
      BY <3>1, <3>3, <3>4, <3>5, NewerIsAnOrder
  <2>2. ASSUME NEW i \in 1..(n + m) PROVE (old \o page)[i] \in rows
    <3>1. CASE i <= n
      <4>1. i \in 1..n
        BY <1>7, <3>1
      <4>. QED
        BY <1>7, <4>1 DEF ReaderInv, ReadDescends
    <3>2. CASE ~(i <= n)
      BY <1>5, <1>7, <3>2
    <3>. QED
      BY <3>1, <3>2
  <2>3. ASSUME NEW i \in 1..(n + m), NEW j \in 1..(n + m), i < j
        PROVE  Newer((old \o page)[i], (old \o page)[j])
    <3>. HIDE DEF page, S
    <3>1. CASE j <= n
      <4>1. i \in 1..n /\ j \in 1..n
        BY <1>7, <2>3, <3>1
      <4>2. Newer(old[i], old[j])
        BY <2>3, <4>1 DEF ReaderInv, ReadDescends
      <4>. QED
        BY <1>7, <4>1, <4>2
    <3>2. CASE i <= n /\ ~(j <= n)
      <4>1. i \in 1..n /\ j - n \in 1..m /\ (old \o page)[j] = page[j - n]
        BY <1>7, <3>2
      <4>. QED
        BY <1>7, <2>1, <4>1
    <3>3. CASE ~(i <= n)
      <4>1. /\ i - n \in 1..m /\ (old \o page)[i] = page[i - n]
            /\ j - n \in 1..m /\ (old \o page)[j] = page[j - n]
            /\ i - n < j - n
        BY <1>7, <2>3, <3>3
      <4>. QED
        BY <1>3, <4>1
    <3>. QED
      BY <3>1, <3>2, <3>3
  <2>. HIDE DEF page, S
  <2>. QED
    BY <1>1, <1>7, <1>9, <2>2, <2>3 DEF ReadDescends
<1>12. CursorIsLast(r)'
  <2>. HIDE DEF page, S, next
  <2>1. m = Limit => Len(old \o page) > 0 /\ next = (old \o page)[n + m]
    BY <1>4, <1>6, <1>7
  <2>. QED
    BY <1>6, <1>7, <1>9, <2>1 DEF CursorIsLast
<1>13. (baseline[r] \subseteq rows)' /\ RestIsBeyond(r)'
  <2>1. baseline'[r] \subseteq rows
    BY <1>9 DEF ReaderInv
  <2>2. ASSUME NEW x \in baseline'[r]
        PROVE  \/ \E i \in 1..(n + m) : x = (old \o page)[i]
               \/ next # NoCursor /\ Beyond(x, next)
    <3>1. CASE \E i \in 1..n : x = old[i]
      <4>1. PICK i \in 1..n : x = old[i]
        BY <3>1
      <4>2. i \in 1..(n + m) /\ x = (old \o page)[i]
        BY <1>7, <4>1
      <4>. QED
        BY <4>2
    <3>2. CASE ~\E i \in 1..n : x = old[i]
      <4>1. x \in S
        <5>1. CASE cursor[r] = NoCursor
          BY <2>1, <5>1 DEF Beyond
        <5>2. CASE cursor[r] # NoCursor
          BY <1>9, <2>1, <3>2, <5>2 DEF ReaderInv, RestIsBeyond
        <5>. QED
          BY <5>1, <5>2
      <4>2. CASE \E i \in 1..m : x = page[i]
        <5>1. PICK i \in 1..m : x = page[i]
          BY <4>2
        <5>2. n + i \in 1..(n + m) /\ x = (old \o page)[n + i]
          BY <1>7, <5>1
        <5>. QED
          BY <5>2
      <4>3. CASE m = Limit /\ Newer(page[Limit], x)
        <5>1. next \in Row /\ x \in Row /\ next # NoCursor /\ Newer(next, x)
          BY <1>2, <1>6, <4>1, <4>3
        <5>. HIDE DEF next
        <5>. QED
          BY <5>1, NewerIsAnOrder
      <4>. HIDE DEF page, S
      <4>. QED
        BY <1>3, <4>1, <4>2, <4>3
    <3>. QED
      BY <3>1, <3>2
  <2>. HIDE DEF page, S, next
  <2>. QED
    BY <1>1, <1>7, <1>9, <2>1, <2>2 DEF RestIsBeyond
<1>. QED
  BY <1>8, <1>10, <1>11, <1>12, <1>13 DEF ReaderInv

\* A reader is not disturbed by new rows: those it has read, and its first page's, stay.
LEMMA ReaderStays ==
    ASSUME NEW q \in Readers, ReaderInv(q), rows \subseteq rows',
           cursor'[q] = cursor[q] /\ read'[q] = read[q],
           baseline'[q] = baseline[q] /\ finished'[q] = finished[q]
    PROVE  ReaderInv(q)'
<1>1. ReadDescends(q)'
  BY DEF ReaderInv, ReadDescends
<1>2. CursorIsLast(q)'
  BY DEF ReaderInv, CursorIsLast
<1>3. RestIsBeyond(q)' /\ (baseline[q] \subseteq rows)'
  BY DEF ReaderInv, RestIsBeyond
<1>. QED
  BY <1>1, <1>2, <1>3 DEF ReaderInv

\* Every step keeps the invariant.
LEMMA NextBrowsing ==
    ASSUME BrowsingInv, [Next]_vars
    PROVE  BrowsingInv'
<1>. USE DEF BrowsingInv, TypeOK
<1>0. ASSUME UNCHANGED historyVars
      PROVE  (HistoryTypeOK /\ IsFiniteSet(rows) /\ \A r \in Readers : ReaderInv(r))'
  <2>1. HistoryTypeOK' /\ IsFiniteSet(rows)'
    BY <1>0 DEF historyVars, HistoryTypeOK
  <2>2. ASSUME NEW r \in Readers PROVE ReaderInv(r)'
    BY <1>0, ReaderStays DEF historyVars
  <2>. QED
    BY <2>1, <2>2
<1>1. ASSUME NEW c \in Clients, Request(c) \/ Limit429(c) \/ ReadFails(c)
      PROVE  BrowsingInv'
  <2>1. LimiterInv' /\ UNCHANGED historyVars
    BY <1>1, LimiterStep DEF Request, Limit429, ReadFails
  <2>. QED
    BY <1>0, <2>1 DEF LimiterInv
<1>2. ASSUME NEW c \in Clients, GetPage(c)
      PROVE  BrowsingInv'
  <2>1. LimiterInv'
    BY <1>2, LimiterStep DEF GetPage
  <2>2. c \in Readers /\ ListByAccount(c) /\ UNCHANGED rows
    BY <1>2, BrowsingAssumption DEF GetPage, ListByAccount
  <2>3. HistoryTypeOK' /\ ReaderInv(c)'
    BY <2>2, ListStep
  <2>4. ASSUME NEW q \in Readers, q # c PROVE ReaderInv(q)'
    <3>1. /\ cursor'[q] = cursor[q] /\ read'[q] = read[q]
          /\ baseline'[q] = baseline[q] /\ finished'[q] = finished[q]
      BY <2>2, <2>4, ListStep
    <3>. QED
      BY <2>2, <3>1, ReaderStays
  <2>. QED
    BY <2>1, <2>2, <2>3, <2>4 DEF LimiterInv
<1>3. CASE Insert
  <2>1. PICK x \in Row : InsertTransaction(x) /\ UNCHANGED limiterVars
    BY <1>3 DEF Insert
  <2>2. rows' = rows \cup {x} /\ UNCHANGED <<cursor, read, baseline, finished>>
    BY <2>1 DEF InsertTransaction
  <2>3. HistoryTypeOK'
    BY <2>2 DEF HistoryTypeOK
  <2>4. IsFiniteSet(rows)'
    BY <2>2, FS_AddElement
  <2>5. ASSUME NEW r \in Readers PROVE ReaderInv(r)'
    BY <2>2, ReaderStays
  <2>6. LimiterInv'
    BY <2>1 DEF limiterVars, LimiterInv, LimiterTypeOK, LimiterKeepsBudget, HoldsStored
  <2>. QED
    BY <2>3, <2>4, <2>5, <2>6 DEF LimiterInv
<1>4. CASE Pass
  <2>1. LimiterInv'
    BY <1>4, LimiterStep DEF Pass
  <2>. QED
    BY <1>0, <1>4, <2>1 DEF Pass, LimiterInv
<1>5. CASE UNCHANGED vars
  <2>1. LimiterInv'
    BY <1>5 DEF vars, limiterVars, LimiterInv, LimiterTypeOK, LimiterKeepsBudget, HoldsStored
  <2>. QED
    BY <1>0, <1>5, <2>1 DEF vars, LimiterInv
<1>. QED
  BY <1>1, <1>2, <1>3, <1>4, <1>5 DEF Next

-----------------------------------------------------------------------------
(* Theorems *)

\* The invariant behind the theorems below.
THEOREM BrowsingSafe == Spec => []BrowsingInv
<1>1. Init => BrowsingInv
  BY InitBrowsing
<1>2. BrowsingInv /\ [Next]_vars => BrowsingInv'
  BY NextBrowsing
<1>. QED
  BY <1>1, <1>2, PTL DEF Spec

\* The variables keep their types: no bucket holds more than Burst tokens or less than none,
\* and every page and cursor is made of rows.
THEOREM BrowsingTypes == Spec => []TypeOK
<1>1. BrowsingInv => TypeOK
  BY DEF BrowsingInv
<1>. QED
  BY <1>1, BrowsingSafe, PTL

\* However many requests of one address race to make its limiter, they are admitted as by a
\* single bucket: sync.Map's LoadOrStore never lets two buckets serve one address.
THEOREM AddressHasOneBucket == Spec => []WithinBudget
<1>1. ASSUME BrowsingInv PROVE WithinBudget
  <2>. SUFFICES ASSUME NEW a \in Addresses PROVE budget[a] >= 0
    BY DEF WithinBudget
  <2>. USE <1>1, LimiterAssumption DEF BrowsingInv, LimiterInv, LimiterTypeOK, LimiterKeepsBudget
  <2>1. CASE limiters[a] = NoLimiter
    BY <2>1
  <2>2. CASE limiters[a] # NoLimiter
    <3>1. tokens[limiters[a]] \in 0..Burst /\ budget[a] = tokens[limiters[a]]
      BY <2>2
    <3>. QED
      BY <3>1
  <2>. QED
    BY <2>1, <2>2
<1>. QED
  BY <1>1, BrowsingSafe, PTL

\* What a client reads, page after page, runs strictly from newer to older rows, for any page
\* size and whatever is inserted between two pages.
THEOREM PagesAreInOrder == Spec => []PagesDescend
<1>1. BrowsingInv => PagesDescend
  BY DEF BrowsingInv, ReaderInv, ReadDescends, PagesDescend
<1>. QED
  BY <1>1, BrowsingSafe, PTL

\* A client whose last page has no next_cursor has read every row there was at its first page,
\* for any page size and any ties of created_at at the page boundaries.
THEOREM PagesAreComplete == Spec => []NothingSkipped
<1>1. ASSUME BrowsingInv PROVE NothingSkipped
  <2>. SUFFICES ASSUME NEW r \in Readers, finished[r], NEW x \in baseline[r]
                PROVE  x \in ToSet(read[r])
    BY DEF NothingSkipped
  <2>1. \E i \in 1..Len(read[r]) : x = read[r][i]
    BY <1>1 DEF BrowsingInv, ReaderInv, RestIsBeyond
  <2>2. read[r] \in Seq(Row)
    BY <1>1 DEF BrowsingInv, TypeOK, HistoryTypeOK
  <2>. QED
    BY <2>1, <2>2 DEF ToSet
<1>. QED
  BY <1>1, BrowsingSafe, PTL
=============================================================================
