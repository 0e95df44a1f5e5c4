-------------------------- MODULE WorkQueueHistory --------------------------
(***************************************************************************)
(* WorkQueue closed by a publisher that publishes each job once and by a   *)
(* handler that returns nil or an error as it likes, with history          *)
(* variables that remember what happened to each job.                      *)
(***************************************************************************)
EXTENDS WorkQueue

VARIABLES published,   \* jobs accepted by the broker
          handled,     \* jobs whose handler returned nil at least once
          runs,        \* runs[j]: how often a handler was started on j
          fails        \* fails[j]: how often it returned an error

history == <<published, handled, runs, fails>>
vars == <<queueVars, history>>

Init ==
    /\ QueueInit
    /\ published = {}
    /\ handled = {}
    /\ runs = [j \in Jobs |-> 0]
    /\ fails = [j \in Jobs |-> 0]

\* PublishQRISPayment and PublishTransfer.
Publish(j) ==
    /\ j \notin published
    /\ Enqueue(j)
    /\ published' = published \cup {j}
    /\ UNCHANGED <<handled, runs, fails>>

StartJob(w) ==
    /\ Deliver(w)
    /\ runs' = [runs EXCEPT ![delivery'[w].job] = @ + 1]
    /\ UNCHANGED <<published, handled, fails>>

\* The handler returns nil.
HandlerOK(w) ==
    /\ Return(w, "succeeded")
    /\ handled' = handled \cup {delivery[w].job}
    /\ UNCHANGED <<faults, published, runs, fails>>

\* The handler returns an error, an expired 15 s job context included.
HandlerFails(w) ==
    /\ Return(w, "failed")
    /\ fails' = [fails EXCEPT ![delivery[w].job] = @ + 1]
    /\ UNCHANGED <<faults, published, handled, runs>>

Next ==
    \/ \E j \in Jobs : Publish(j)
    \/ \E w \in Workers : StartJob(w) \/ HandlerOK(w) \/ HandlerFails(w)
    \/ \E w \in Workers :
          (Settle(w) \/ Reconnect(w) \/ SessionLost(w) \/ Crash(w)) /\ UNCHANGED history
    \/ \E m \in Msg : RetryExpires(m) /\ UNCHANGED history
    \/ BrokerRestart /\ UNCHANGED history

Spec == Init /\ [][Next]_vars

\* A handler returns, because its context expires after 15 s; the loop settles
\* what it is given and reconnects every 3 s; the broker delivers what is ready
\* and expires what waits for a retry.  Nothing obliges a fault or a failure.
Fairness ==
    /\ \A w \in Workers : WF_vars(StartJob(w))
    /\ \A w \in Workers : WF_vars(HandlerOK(w) \/ HandlerFails(w))
    /\ \A w \in Workers : WF_vars(Settle(w) /\ UNCHANGED history)
    /\ \A w \in Workers : WF_vars(Reconnect(w) /\ UNCHANGED history)
    /\ \A m \in Msg : WF_vars(RetryExpires(m) /\ UNCHANGED history)

FairSpec == Spec /\ Fairness

-----------------------------------------------------------------------------
\* Every queue holds a natural number of copies of well-formed messages, with a
\* retry count within maxRetryAttempts, and a worker holds a delivery exactly
\* while it works.
TypeOK ==
    /\ QueueTypeOK
    /\ published \subseteq Jobs
    /\ handled \subseteq Jobs
    /\ runs \in [Jobs -> Nat]
    /\ fails \in [Jobs -> Nat]

Queued(j) ==
    \E m \in Msg : m.job = j /\ (ready[m] > 0 \/ retrying[m] > 0 \/ dead[m] > 0)

\* The broker still counts worker w's delivery of j as unsettled, and no copy of
\* it has been made yet.
HeldBy(w, j) == live[w] /\ consumer[w] \in {"handling", "failed"} /\ delivery[w].job = j

\* Short of a broker restart, no published job disappears: until a handler
\* succeeded on it, some queue or some unsettled delivery holds it, whatever the
\* order of retry copies, acknowledgements, lost sessions and crashes.
NoJobVanishes ==
    restarts = 0 =>
        \A j \in published : j \in handled \/ Queued(j) \/ \E w \in Workers : HeldBy(w, j)

\* A well-formed job is dead-lettered only after its handler has failed on the
\* first attempt and on every one of the MaxRetries retries.
DeadOnlyAfterExhaustion ==
    \A m \in Msg :
        dead[m] > 0 /\ m.job \notin Malformed => fails[m.job] >= MaxRetries + 1

\* A job's handler runs at most 1 + MaxRetries times for each copy of its message,
\* and only a fault makes a copy.  (Without faults: the configured attempts.)
RunsBoundedByFaults ==
    \A j \in Jobs : runs[j] <= (faults + 1) * (MaxRetries + 1)

\* Every published job is eventually handled or parked in the dead-letter queue,
\* through any finite number of lost sessions and crashes, unless a broker
\* restart lost it.
JobsConclude ==
    \A j \in Jobs :
        j \in published ~>
            \/ j \in handled
            \/ \E m \in Msg : m.job = j /\ dead[m] > 0
            \/ restarts > 0
=============================================================================
