--------------------------- MODULE WorkQueueFacts ---------------------------
(***************************************************************************)
(* Facts about the operators of WorkQueue that the proofs about the queue  *)
(* by itself and about the payment path both rest on.                      *)
(***************************************************************************)
EXTENDS WorkQueue, FiniteSets, FiniteSetTheorems, TLAPS

\* Adding a copy of a message: the queue keeps its type, loses nothing and gains
\* at most that message.
LEMMA PutFacts ==
    ASSUME NEW q \in [Msg -> Nat], NEW m \in Msg
    PROVE  /\ Put(q, m) \in [Msg -> Nat]
           /\ Put(q, m)[m] > 0
           /\ \A n \in Msg : q[n] > 0 => Put(q, m)[n] > 0
           /\ \A n \in Msg : Put(q, m)[n] > 0 => n = m \/ q[n] > 0
BY DEF Put

\* Removing a copy that is there: the queue keeps its type, gains nothing and
\* loses at most that message.
LEMMA TakeFacts ==
    ASSUME NEW q \in [Msg -> Nat], NEW m \in Msg, q[m] > 0
    PROVE  /\ Take(q, m) \in [Msg -> Nat]
           /\ \A n \in Msg : n # m /\ q[n] > 0 => Take(q, m)[n] > 0
           /\ \A n \in Msg : Take(q, m)[n] > 0 => q[n] > 0
BY DEF Take

\* The empty queue holds no message.
LEMMA EmptyFacts == EmptyQueue \in [Msg -> Nat] /\ \A m \in Msg : EmptyQueue[m] = 0
BY DEF EmptyQueue

\* A retry of a message that is not exhausted is a message of the same job with
\* the next count; an exhausted one carries the last count.
LEMMA RetryFacts ==
    ASSUME NEW m \in Msg
    PROVE  /\ m.job \in Jobs
           /\ m.retries \in 0..MaxRetries
           /\ ~ Exhausted(m) => /\ Retry(m) \in Msg
                                /\ Retry(m).job = m.job
                                /\ Retry(m).retries = m.retries + 1
           /\ Exhausted(m) => m.retries = MaxRetries
BY QueueAssumption DEF Msg, Retry, Exhausted

\* A fresh message of a job.
LEMMA FreshFacts ==
    ASSUME NEW j \in Jobs
    PROVE  /\ [job |-> j, retries |-> 0] \in Msg
           /\ [job |-> j, retries |-> 0].job = j
           /\ [job |-> j, retries |-> 0].retries = 0
BY QueueAssumption DEF Msg

\* A worker that is not waiting holds a message.
LEMMA HoldsMessage ==
    ASSUME QueueTypeOK, NEW w \in Workers, consumer[w] # "waiting"
    PROVE  delivery[w] \in Msg
BY DEF QueueTypeOK

-----------------------------------------------------------------------------
\* The copies of job j's message in queue q, so that they can be counted.
Copies(q, j) == UNION {{m} \X (1 .. q[m]) : m \in {n \in Msg : n.job = j}}

\* A copy is a message of the job with one of its places in the queue.
LEMMA CopiesFacts ==
    ASSUME NEW q \in [Msg -> Nat], NEW j, NEW t
    PROVE  t \in Copies(q, j) <=> \E m \in Msg : m.job = j /\ \E i \in 1 .. q[m] : t = <<m, i>>
BY DEF Copies

\* Adding a message of the job takes the next place of that message, and touches the copies of
\* no other job.
LEMMA PutCopy ==
    ASSUME NEW q \in [Msg -> Nat], NEW m \in Msg, NEW j
    PROVE  /\ m.job = j => /\ <<m, q[m] + 1>> \notin Copies(q, j)
                           /\ Copies(Put(q, m), j) = Copies(q, j) \cup {<<m, q[m] + 1>>}
           /\ m.job # j => Copies(Put(q, m), j) = Copies(q, j)
<1>0. /\ Put(q, m) \in [Msg -> Nat]
      /\ Put(q, m)[m] = q[m] + 1
      /\ \A n \in Msg : n # m => Put(q, m)[n] = q[n]
  BY DEF Put
<1>1. ASSUME m.job # j PROVE Copies(Put(q, m), j) = Copies(q, j)
  BY <1>0, <1>1 DEF Copies
<1>2. <<m, q[m] + 1>> \notin Copies(q, j)
  BY CopiesFacts
<1>3. ASSUME m.job = j PROVE Copies(Put(q, m), j) = Copies(q, j) \cup {<<m, q[m] + 1>>}
  <2>1. ASSUME NEW t
        PROVE  t \in Copies(Put(q, m), j) <=> t \in Copies(q, j) \/ t = <<m, q[m] + 1>>
    <3>1. 1 .. (q[m] + 1) = (1 .. q[m]) \cup {q[m] + 1}
      OBVIOUS
    <3>. QED
      BY <1>0, <1>3, <3>1, CopiesFacts
  <2>. QED
    BY <2>1
<1>. QED
  BY <1>1, <1>2, <1>3

\* Removing a message of the job frees its last place.
LEMMA TakeCopy ==
    ASSUME NEW q \in [Msg -> Nat], NEW m \in Msg, q[m] > 0, NEW j
    PROVE  /\ m.job = j => /\ <<m, q[m]>> \in Copies(q, j)
                           /\ Copies(Take(q, m), j) = Copies(q, j) \ {<<m, q[m]>>}
           /\ m.job # j => Copies(Take(q, m), j) = Copies(q, j)
<1>0. /\ Take(q, m) \in [Msg -> Nat]
      /\ Take(q, m)[m] = q[m] - 1
      /\ \A n \in Msg : n # m => Take(q, m)[n] = q[n]
  BY DEF Take
<1>1. ASSUME m.job # j PROVE Copies(Take(q, m), j) = Copies(q, j)
  BY <1>0, <1>1 DEF Copies
<1>2. ASSUME m.job = j PROVE <<m, q[m]>> \in Copies(q, j)
  BY <1>2, CopiesFacts
<1>3. ASSUME m.job = j PROVE Copies(Take(q, m), j) = Copies(q, j) \ {<<m, q[m]>>}
  <2>1. ASSUME NEW t
        PROVE  t \in Copies(Take(q, m), j) <=> t \in Copies(q, j) /\ t # <<m, q[m]>>
    <3>1. 1 .. (q[m] - 1) = (1 .. q[m]) \ {q[m]}
      OBVIOUS
    <3>. QED
      BY <1>0, <1>3, <3>1, CopiesFacts
  <2>. QED
    BY <2>1
<1>. QED
  BY <1>1, <1>2, <1>3

\* Adding a message of the job adds one copy; one of another job none.
LEMMA PutCopies ==
    ASSUME NEW q \in [Msg -> Nat], NEW m \in Msg, NEW j, IsFiniteSet(Copies(q, j))
    PROVE  /\ IsFiniteSet(Copies(Put(q, m), j))
           /\ m.job = j => Cardinality(Copies(Put(q, m), j)) = Cardinality(Copies(q, j)) + 1
           /\ m.job # j => Cardinality(Copies(Put(q, m), j)) = Cardinality(Copies(q, j))
<1>. DEFINE new == <<m, q[m] + 1>>
<1>1. /\ IsFiniteSet(Copies(q, j) \cup {new})
      /\ new \notin Copies(q, j) =>
            Cardinality(Copies(q, j) \cup {new}) = Cardinality(Copies(q, j)) + 1
  BY FS_AddElement
<1>2. /\ m.job = j => new \notin Copies(q, j) /\ Copies(Put(q, m), j) = Copies(q, j) \cup {new}
      /\ m.job # j => Copies(Put(q, m), j) = Copies(q, j)
  BY PutCopy
<1>. HIDE DEF new
<1>. QED
  BY <1>1, <1>2

\* Removing a message of the job removes one copy; one of another job none.
LEMMA TakeCopies ==
    ASSUME NEW q \in [Msg -> Nat], NEW m \in Msg, q[m] > 0, NEW j, IsFiniteSet(Copies(q, j))
    PROVE  /\ IsFiniteSet(Copies(Take(q, m), j))
           /\ m.job = j => Cardinality(Copies(Take(q, m), j)) = Cardinality(Copies(q, j)) - 1
           /\ m.job # j => Cardinality(Copies(Take(q, m), j)) = Cardinality(Copies(q, j))
<1>. DEFINE old == <<m, q[m]>>
<1>1. /\ IsFiniteSet(Copies(q, j) \ {old})
      /\ old \in Copies(q, j) =>
            Cardinality(Copies(q, j) \ {old}) = Cardinality(Copies(q, j)) - 1
  BY FS_RemoveElement
<1>2. /\ m.job = j => old \in Copies(q, j) /\ Copies(Take(q, m), j) = Copies(q, j) \ {old}
      /\ m.job # j => Copies(Take(q, m), j) = Copies(q, j)
  BY TakeCopy
<1>. HIDE DEF old
<1>. QED
  BY <1>1, <1>2

\* A queue without a message of the job holds no copy of it.
LEMMA NoCopies ==
    ASSUME NEW q \in [Msg -> Nat], NEW j, \A m \in Msg : m.job = j => q[m] = 0
    PROVE  Copies(q, j) = {} /\ IsFiniteSet(Copies(q, j)) /\ Cardinality(Copies(q, j)) = 0
<1>1. Copies(q, j) = {}
  BY CopiesFacts
<1>. QED
  BY <1>1, FS_EmptySet
=============================================================================
