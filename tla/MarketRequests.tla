--------------------------- MODULE MarketRequests ---------------------------
(***************************************************************************)
(* Requests to the exchange: the semaphore of RequestScheduler, the lock   *)
(* and the pause of AsyncRateLimiter, the retries of tenacity, and the     *)
(* fetch of a symbol's derivatives that waits for two requests at once and *)
(* keeps their answer in a TTLCache.                                       *)
(*                                                                         *)
(* The full scan and the fast monitor share one scheduler and one cache.   *)
(* A slot of the semaphore is held from the first pause to the last retry; *)
(* the pause is made once, before the first call.                          *)
(***************************************************************************)
EXTENDS Naturals, Sequences, FiniteSets

CONSTANTS Clients,        \* coroutines that fetch the symbol's derivatives
          MaxConcurrency, \* config.max_request_concurrency
          MinDelay,       \* config.request_min_delay_ms, in ticks
          MaxJitter,      \* config.request_jitter_max_ms, in ticks
          MaxTries,       \* stop_after_attempt(3)
          SuccessTTL, FailureTTL  \* lifetimes of a cached answer, in ticks

ASSUME RequestsAssumption ==
    /\ {MaxConcurrency, MaxTries, SuccessTTL, FailureTTL} \subseteq Nat \ {0}
    /\ MinDelay \in Nat /\ MaxJitter \in Nat
    /\ IsFiniteSet(Clients)

Kinds == {"open_interest", "funding"}
Requests == Clients \X Kinds

VARIABLES pc,     \* where each request is
          line,   \* waiters of the semaphore, first in first out
          gate,   \* waiters of the limiter's lock, first in first out
          wait,   \* what is left of a request's pause or backoff
          gap,    \* time since _last_called, up to MinDelay
          tries,  \* attempts made of a request
          answer, \* what a finished request gave to the gather
          fetch,  \* of each client: "idle" or "gather"
          cache   \* the symbol's entry: what it says and how long it lives

vars == <<pc, line, gate, wait, gap, tries, answer, fetch, cache>>

Steps == {"idle", "queued", "limiter", "pause", "call", "backoff"}
MaxWait == MinDelay + MaxJitter + 2 ^ MaxTries

TypeOK ==
    /\ pc \in [Requests -> Steps]
    /\ line \in Seq(Requests) /\ gate \in Seq(Requests)
    /\ wait \in [Requests -> 0 .. MaxWait]
    /\ gap \in 0 .. MinDelay
    /\ tries \in [Requests -> 0 .. MaxTries]
    /\ answer \in [Requests -> {"none", "data", "empty", "error"}]
    /\ fetch \in [Clients -> {"idle", "gather"}]
    /\ cache.says \in {"nothing", "OK", "MISSING", "ERROR"}
    /\ cache.ttl \in 0 .. (SuccessTTL + FailureTTL)

Init ==
    /\ pc = [r \in Requests |-> "idle"]
    /\ line = <<>> /\ gate = <<>>
    /\ wait = [r \in Requests |-> 0]
    /\ gap = MinDelay
    /\ tries = [r \in Requests |-> 0]
    /\ answer = [r \in Requests |-> "none"]
    /\ fetch = [c \in Clients |-> "idle"]
    /\ cache = [says |-> "nothing", ttl |-> 0]

Goes(r, step) == pc' = [pc EXCEPT ![r] = step]

-----------------------------------------------------------------------------
(* fetch_optional_derivatives.                                             *)

\* The cached answer is missing or out of time: both requests are scheduled,
\* open interest first.  (A live entry is returned and nothing changes.)
Fetch(c) ==
    /\ fetch[c] = "idle" /\ cache.ttl = 0
    /\ fetch' = [fetch EXCEPT ![c] = "gather"]
    /\ pc' = [r \in Requests |-> IF r[1] = c THEN "queued" ELSE pc[r]]
    /\ line' = line \o << <<c, "open_interest">>, <<c, "funding">> >>
    /\ UNCHANGED <<gate, wait, gap, tries, answer, cache>>

\* _normalize_derivatives_result: derivatives_status, the kinds of error as one.
Status(c) ==
    IF \E k \in Kinds : answer[<<c, k>>] = "error" THEN "ERROR"
    ELSE IF \E k \in Kinds : answer[<<c, k>>] = "empty" THEN "MISSING"
    ELSE "OK"

\* gather(return_exceptions=True) is done with both; a failure is cached as
\* well, for less time, over whatever the other client has cached meanwhile.
FetchEnds(c) ==
    /\ fetch[c] = "gather" /\ \A k \in Kinds : answer[<<c, k>>] # "none"
    /\ fetch' = [fetch EXCEPT ![c] = "idle"]
    /\ cache' = [says |-> Status(c),
                 ttl |-> IF Status(c) = "OK" THEN SuccessTTL ELSE FailureTTL]
    /\ answer' = [r \in Requests |-> IF r[1] = c THEN "none" ELSE answer[r]]
    /\ UNCHANGED <<pc, line, gate, wait, gap, tries>>

-----------------------------------------------------------------------------
(* RequestScheduler.schedule and AsyncRateLimiter.acquire.                 *)

\* Mutant: a request that waits for its retry gives its slot away.
HoldersAwake == {r \in Requests : pc[r] \in {"limiter", "pause", "call"}}

\* The requests that hold a slot of the semaphore.
Holders == {r \in Requests : pc[r] \in {"limiter", "pause", "call", "backoff"}}

Enter(r) ==
    /\ pc[r] = "queued" /\ line # <<>> /\ Head(line) = r
    /\ Cardinality(Holders) < MaxConcurrency
    /\ line' = Tail(line)
    /\ gate' = Append(gate, r)
    /\ Goes(r, "limiter")
    /\ UNCHANGED <<wait, gap, tries, answer, fetch, cache>>

\* Mutant: the lock is not held during the pause.
LockFreeAlways == TRUE

LockFree == \A r \in Requests : pc[r] # "pause"

\* The lock is taken: what is left of the minimum delay, and the jitter.
TakeLock(r, jitter) ==
    /\ pc[r] = "limiter" /\ gate # <<>> /\ Head(gate) = r /\ LockFree
    /\ gate' = Tail(gate)
    /\ wait' = [wait EXCEPT ![r] = (MinDelay - gap) + jitter]
    /\ Goes(r, "pause")
    /\ UNCHANGED <<line, gap, tries, answer, fetch, cache>>

\* The pause is over: _last_called is now, and the first call is made.
FirstCall(r) ==
    /\ pc[r] = "pause" /\ wait[r] = 0
    /\ gap' = 0
    /\ tries' = [tries EXCEPT ![r] = 1]
    /\ Goes(r, "call")
    /\ UNCHANGED <<line, gate, wait, answer, fetch, cache>>

-----------------------------------------------------------------------------
(* _run_with_retry.                                                        *)

\* The request is over, its slot free.
Finish(r, a) ==
    /\ Goes(r, "idle")
    /\ tries' = [tries EXCEPT ![r] = 0]
    /\ answer' = [answer EXCEPT ![r] = a]

\* The call returns.  A response that _validated_result refuses raises behind
\* the scheduler, an "error" that is not tried again.
CallReturns(r, a) ==
    /\ pc[r] = "call"
    /\ Finish(r, a)
    /\ UNCHANGED <<line, gate, wait, gap, fetch, cache>>

\* Mutant: the attempts are not counted.
GivesUpNever(r) == FALSE

GivesUp(r) == tries[r] >= MaxTries

\* The call raises: after a growing pause it is made again, or, the attempts
\* used up, the exception goes to the gather.
CallRaises(r) ==
    /\ pc[r] = "call"
    /\ IF GivesUp(r)
       THEN Finish(r, "error") /\ UNCHANGED wait
       ELSE /\ Goes(r, "backoff")
            /\ wait' = [wait EXCEPT ![r] = 2 ^ (tries[r] - 1)]
            /\ UNCHANGED <<tries, answer>>
    /\ UNCHANGED <<line, gate, gap, fetch, cache>>

\* The next attempt does not pass the rate limiter again.
Retry(r) ==
    /\ pc[r] = "backoff" /\ wait[r] = 0
    /\ tries' = [tries EXCEPT ![r] = IF @ < MaxTries THEN @ + 1 ELSE @]
    /\ Goes(r, "call")
    /\ UNCHANGED <<line, gate, wait, gap, answer, fetch, cache>>

-----------------------------------------------------------------------------
Less(n) == IF n > 0 THEN n - 1 ELSE 0

Tick ==
    /\ wait' = [r \in Requests |-> Less(wait[r])]
    /\ gap' = IF gap < MinDelay THEN gap + 1 ELSE gap
    /\ cache' = IF cache.ttl > 1 THEN [says |-> cache.says, ttl |-> cache.ttl - 1]
                ELSE [says |-> "nothing", ttl |-> 0]
    /\ UNCHANGED <<pc, line, gate, tries, answer, fetch>>

Proceed(r) ==
    \/ Enter(r) \/ FirstCall(r) \/ CallRaises(r) \/ Retry(r)
    \/ \E jitter \in 0 .. MaxJitter : TakeLock(r, jitter)
    \/ \E a \in {"data", "empty", "error"} : CallReturns(r, a)

Next ==
    \/ \E c \in Clients : Fetch(c) \/ FetchEnds(c)
    \/ \E r \in Requests : Proceed(r)
    \/ Tick

Spec == Init /\ [][Next]_vars

\* Time goes on, the event loop resumes what is ready, and every call ends,
\* within request_timeout_sec, in one way or the other.
FairSpec ==
    /\ Spec /\ WF_vars(Tick)
    /\ \A c \in Clients : WF_vars(FetchEnds(c))
    /\ \A r \in Requests : WF_vars(Proceed(r))

-----------------------------------------------------------------------------
(* Properties.                                                             *)

\* At most max_request_concurrency requests are at the exchange or about to
\* be there again: a request that backs off between two attempts, or raises,
\* neither loses its slot nor keeps it.
ConcurrencyBound ==
    Cardinality({r \in Requests : pc[r] \notin {"idle", "queued"}}) =< MaxConcurrency

\* The first calls of any two requests are min_delay_ms apart, whatever
\* happened while the second waited for the lock; retries are not spaced.
FirstCallsSpaced ==
    [][\A r \in Requests : pc[r] = "pause" /\ pc'[r] = "call" => gap = MinDelay]_vars

\* No client waits forever: with calls that end, one way or the other, every
\* fetch comes back, though both clients share the slots and each retry keeps
\* one.
EveryFetchEnds == \A c \in Clients : fetch[c] = "gather" ~> fetch[c] = "idle"
=============================================================================
