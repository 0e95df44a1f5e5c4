----------------------------- MODULE RateLimiter -----------------------------
(***************************************************************************)
(* The per-address rate limiter of internal/middleware: requests of one    *)
(* address share a token bucket that is made on first use and kept in a    *)
(* sync.Map.  A request first gets the limiter and then asks it, so two    *)
(* requests may be in between at the same time.                            *)
(*                                                                         *)
(* golang.org/x/time/rate is external: a bucket starts with Burst tokens,  *)
(* a Tick (the time one token takes to refill, 200 ms at 5 requests per    *)
(* second) adds one up to Burst, and Allow takes one if there is one.      *)
(* A bucket is named by the request that made it.                          *)
(***************************************************************************)
EXTENDS Integers

CONSTANTS Clients,     \* who send requests, one at a time
          AddressOf,   \* AddressOf[c]: what getClientIP finds for client c
          Burst,       \* burst of each limiter
          NoLimiter

ASSUME LimiterAssumption == Burst \in Nat \ {0} /\ NoLimiter \notin Clients

Addresses == {AddressOf[c] : c \in Clients}

VARIABLES limiters,   \* limiters[a]: the bucket stored for address a
          tokens,     \* tokens[l]: tokens left in the bucket l made
          holds,      \* holds[c]: the limiter client c's request got
          gate,       \* gate[c]: where client c's request is
          budget      \* budget[a]: what one bucket for address a would hold

limiterVars == <<limiters, tokens, holds, gate, budget>>

GateStates == {"idle", "entering", "limited", "serving"}

LimiterInit ==
    /\ limiters = [a \in Addresses |-> NoLimiter]
    /\ tokens = [c \in Clients |-> Burst]
    /\ holds = [c \in Clients |-> NoLimiter]
    /\ gate = [c \in Clients |-> "idle"]
    /\ budget = [a \in Addresses |-> Burst]

\* Requests to a path of excludePaths touch nothing of this: they are not modelled.
Arrive(c) ==
    /\ gate[c] = "idle"
    /\ gate' = [gate EXCEPT ![c] = "entering"]
    /\ UNCHANGED <<limiters, tokens, holds, budget>>

\* Mutant: Store instead of LoadOrStore replaces a bucket that is in use.
getLimiterReplaces(c) ==
    /\ gate[c] = "entering"
    /\ limiters' = [limiters EXCEPT ![AddressOf[c]] = c]
    /\ tokens' = [tokens EXCEPT ![c] = Burst]
    /\ holds' = [holds EXCEPT ![c] = limiters'[AddressOf[c]]]
    /\ gate' = [gate EXCEPT ![c] = "limited"]
    /\ UNCHANGED budget

\* LoadOrStore: the stored bucket, or the request's new one.
getLimiter(c) ==
    /\ gate[c] = "entering"
    /\ limiters' = [limiters EXCEPT ![AddressOf[c]] = IF @ = NoLimiter THEN c ELSE @]
    /\ tokens' = IF limiters[AddressOf[c]] = NoLimiter THEN [tokens EXCEPT ![c] = Burst] ELSE tokens
    /\ holds' = [holds EXCEPT ![c] = limiters'[AddressOf[c]]]
    /\ gate' = [gate EXCEPT ![c] = "limited"]
    /\ UNCHANGED budget

\* limiter.Allow(): the request is served, or answered with 429.
Allow(c) ==
    /\ gate[c] = "limited"
    /\ IF tokens[holds[c]] > 0
         THEN /\ tokens' = [tokens EXCEPT ![holds[c]] = @ - 1]
              /\ budget' = [budget EXCEPT ![AddressOf[c]] = @ - 1]
              /\ gate' = [gate EXCEPT ![c] = "serving"]
         ELSE /\ gate' = [gate EXCEPT ![c] = "idle"]
              /\ UNCHANGED <<tokens, budget>>
    /\ UNCHANGED <<limiters, holds>>

\* The next handler has answered.
Served(c) ==
    /\ gate[c] = "serving"
    /\ gate' = [gate EXCEPT ![c] = "idle"]
    /\ UNCHANGED <<limiters, tokens, holds, budget>>

\* Mutant: the bucket has no bound.
RefillUnbounded(n) == n + 1

Refill(n) == IF n < Burst THEN n + 1 ELSE n

Tick ==
    /\ tokens' = [c \in Clients |-> Refill(tokens[c])]
    /\ budget' = [a \in Addresses |-> Refill(budget[a])]
    /\ UNCHANGED <<limiters, holds, gate>>

-----------------------------------------------------------------------------
LimiterTypeOK ==
    /\ limiters \in [Addresses -> Clients \cup {NoLimiter}]
    /\ tokens \in [Clients -> 0..Burst]
    /\ holds \in [Clients -> Clients \cup {NoLimiter}]
    /\ gate \in [Clients -> GateStates]
    /\ budget \in [Addresses -> Int]

\* However requests of one address interleave, they are admitted as by a single bucket of Burst
\* tokens: in any stretch of time no more than Burst plus what it refills.
WithinBudget == \A a \in Addresses : budget[a] >= 0
=============================================================================
