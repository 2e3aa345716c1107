------------------------ MODULE MarketRequestsProofs ------------------------
(***************************************************************************)
(* Proofs about MarketRequests for any number of clients and any limits:   *)
(* the bound of the semaphore and the spacing of the rate limiter.         *)
(***************************************************************************)
EXTENDS MarketRequests, FiniteSetTheorems, TLAPS

\* The requests that are past the semaphore.
Active == {r \in Requests : pc[r] \notin {"idle", "queued"}}

Shapes ==
    /\ pc \in [Requests -> Steps]
    /\ wait = [r \in Requests |-> wait[r]]
    /\ gap \in 0 .. MinDelay

\* A pause lasts, from any moment in it, until the minimum delay is over.
PauseCovers == \A r \in Requests : pc[r] = "pause" => wait[r] \in Nat /\ wait[r] + gap >= MinDelay

\* The lock is held during a pause, so that no other call can end the gap in it.
OnePauses == \A q, r \in Requests : pc[q] = "pause" /\ pc[r] = "pause" => q = r

IInv == Shapes /\ PauseCovers /\ OnePauses /\ ConcurrencyBound

LEMMA RequestsFinite == IsFiniteSet(Requests)
<1>1. IsFiniteSet(Kinds)
  <2>1. IsFiniteSet({"open_interest"})
    BY FS_Singleton
  <2>2. Kinds = {"open_interest"} \cup {"funding"}
    BY DEF Kinds
  <2>3. QED
    BY <2>1, <2>2, FS_AddElement
<1>2. IsFiniteSet(Clients)
  BY RequestsAssumption
<1>3. QED
  BY <1>1, <1>2, FS_Product DEF Requests

\* Each set of requests has a natural number of elements.
LEMMA ActiveFinite == IsFiniteSet(Active) /\ Cardinality(Active) \in Nat
<1>1. Active \subseteq Requests
  BY DEF Active
<1>2. IsFiniteSet(Active)
  BY <1>1, RequestsFinite, FS_Subset
<1>3. QED
  BY <1>2, FS_CardinalityType

\* A step after which no request is past the semaphore that was not before
\* keeps the bound.
LEMMA NoneEnters ==
    ASSUME ConcurrencyBound, Active' \subseteq Active
    PROVE  ConcurrencyBound'
<1>1. Cardinality(Active') \in Nat /\ Cardinality(Active') <= Cardinality(Active)
  <2>1. IsFiniteSet(Active)
    BY ActiveFinite
  <2>2. IsFiniteSet(Active') /\ Cardinality(Active') <= Cardinality(Active)
    BY <2>1, FS_Subset
  <2>3. QED
    BY <2>2, FS_CardinalityType
<1>2. Cardinality(Active) \in Nat /\ MaxConcurrency \in Nat
  BY ActiveFinite, RequestsAssumption
<1>3. Cardinality(Active) <= MaxConcurrency
  BY DEF ConcurrencyBound, Active
<1>4. Cardinality(Active') <= MaxConcurrency
  BY <1>1, <1>2, <1>3
<1>5. QED
  BY <1>4 DEF ConcurrencyBound, Active

LEMMA InitIInv == Init => IInv
<1> SUFFICES ASSUME Init PROVE IInv
  OBVIOUS
<1>1. Shapes
  BY RequestsAssumption DEF Init, Shapes, Steps
<1>2. PauseCovers /\ OnePauses
  BY DEF Init, PauseCovers, OnePauses
<1>3. Active = {}
  BY DEF Init, Active
<1>4. ConcurrencyBound
  BY <1>3, FS_EmptySet, RequestsAssumption DEF ConcurrencyBound, Active
<1>5. QED
  BY <1>1, <1>2, <1>4 DEF IInv

-----------------------------------------------------------------------------
(* What the steps preserve.                                                *)

\* Enter is the only step that takes a slot, and it looks at the bound first.
LEMMA EnterIInv ==
    ASSUME IInv, NEW r \in Requests, Enter(r)
    PROVE  IInv'
<1>1. Shapes' /\ PauseCovers' /\ OnePauses'
  BY DEF IInv, Enter, Goes, Shapes, PauseCovers, OnePauses, Steps
<1>2. Holders = Active
  BY DEF IInv, Shapes, Steps, Holders, Active
<1>3. Active' = Active \cup {r} /\ r \notin Active
  BY DEF IInv, Shapes, Enter, Goes, Active
<1>4. IsFiniteSet(Active) /\ Cardinality(Active) \in Nat
  BY ActiveFinite
<1>5. Cardinality(Active') = Cardinality(Active) + 1
  BY <1>3, <1>4, FS_AddElement
<1>6. Cardinality(Active) < MaxConcurrency
  BY <1>2 DEF Enter
<1>7. Cardinality(Active') <= MaxConcurrency
  BY <1>4, <1>5, <1>6, RequestsAssumption
<1>8. ConcurrencyBound'
  BY <1>7 DEF ConcurrencyBound, Active
<1>9. QED
  BY <1>1, <1>8 DEF IInv

\* The lock is free when a pause begins, and the pause covers what is left.
LEMMA TakeLockIInv ==
    ASSUME IInv, NEW r \in Requests, NEW jitter \in 0 .. MaxJitter, TakeLock(r, jitter)
    PROVE  IInv'
<1>1. Shapes'
  BY DEF IInv, TakeLock, Goes, Shapes, Steps
<1>2. PauseCovers'
  BY RequestsAssumption DEF IInv, TakeLock, Goes, Shapes, LockFree, PauseCovers
<1>3. OnePauses'
  BY DEF IInv, TakeLock, Goes, Shapes, LockFree, OnePauses
<1>4. Active' \subseteq Active
  BY DEF IInv, Shapes, TakeLock, Goes, Active
<1>5. QED
  BY <1>1, <1>2, <1>3, <1>4, NoneEnters DEF IInv

\* The call that ends the gap comes out of the only pause there is.
LEMMA FirstCallIInv ==
    ASSUME IInv, NEW r \in Requests, FirstCall(r)
    PROVE  IInv'
<1>1. Shapes'
  BY RequestsAssumption DEF IInv, FirstCall, Goes, Shapes, Steps
<1>2. PauseCovers' /\ OnePauses'
  BY DEF IInv, FirstCall, Goes, Shapes, OnePauses, PauseCovers
<1>3. Active' \subseteq Active
  BY DEF IInv, Shapes, FirstCall, Goes, Active
<1>4. QED
  BY <1>1, <1>2, <1>3, NoneEnters DEF IInv

\* Calls, retries and backoffs are made with a slot and without the lock.
LEMMA CallIInv ==
    ASSUME IInv, NEW r \in Requests,
           CallRaises(r) \/ Retry(r) \/ \E a \in {"data", "empty", "error"} : CallReturns(r, a)
    PROVE  IInv'
<1>1. /\ gap' = gap
      /\ pc[r] # "pause"
      /\ \E step \in {"idle", "call", "backoff"} : pc' = [pc EXCEPT ![r] = step]
      /\ wait' = wait \/ \E n : wait' = [wait EXCEPT ![r] = n]
      /\ pc[r] \in {"call", "backoff"}
  BY DEF CallRaises, Retry, CallReturns, Finish, Goes
<1>2. Shapes'
  BY <1>1 DEF IInv, Shapes, Steps
<1>3. PauseCovers' /\ OnePauses'
  BY <1>1 DEF IInv, Shapes, PauseCovers, OnePauses
<1>4. Active' \subseteq Active
  BY <1>1 DEF IInv, Shapes, Active
<1>5. QED
  BY <1>2, <1>3, <1>4, NoneEnters DEF IInv

\* While time goes on, what a pause loses the gap gains.
LEMMA TickIInv == ASSUME IInv, Tick PROVE IInv'
<1>1. Shapes'
  BY RequestsAssumption DEF IInv, Tick, Shapes
<1>2. PauseCovers'
  BY RequestsAssumption DEF IInv, Tick, Shapes, Less, PauseCovers
<1>3. OnePauses'
  BY DEF IInv, Tick, OnePauses
<1>4. Active' \subseteq Active
  BY DEF Tick, Active
<1>5. QED
  BY <1>1, <1>2, <1>3, <1>4, NoneEnters DEF IInv

\* A fetch schedules requests and takes their answers; it holds no slot.
LEMMA FetchIInv ==
    ASSUME IInv, NEW c \in Clients, Fetch(c) \/ FetchEnds(c)
    PROVE  IInv'
<1>1. /\ gap' = gap /\ wait' = wait
      /\ pc' = pc \/ pc' = [r \in Requests |-> IF r[1] = c THEN "queued" ELSE pc[r]]
  BY DEF Fetch, FetchEnds
<1>2. \A r \in Requests : pc'[r] = pc[r] \/ pc'[r] = "queued"
  BY <1>1
<1>3. Shapes'
  BY <1>1 DEF IInv, Shapes, Steps
<1>4. PauseCovers' /\ OnePauses'
  BY <1>1, <1>2 DEF IInv, PauseCovers, OnePauses
<1>5. Active' \subseteq Active
  BY <1>2 DEF Active
<1>6. QED
  BY <1>3, <1>4, <1>5, NoneEnters DEF IInv

LEMMA NextIInv == ASSUME IInv, [Next]_vars PROVE IInv'
<1>1. CASE UNCHANGED vars
  BY <1>1 DEF vars, IInv, Shapes, PauseCovers, OnePauses, ConcurrencyBound
<1>2. ASSUME NEW c \in Clients, Fetch(c) \/ FetchEnds(c) PROVE IInv'
  BY <1>2, FetchIInv
<1>3. ASSUME NEW r \in Requests, Proceed(r) PROVE IInv'
  BY <1>3, EnterIInv, TakeLockIInv, FirstCallIInv, CallIInv DEF Proceed
<1>4. CASE Tick
  BY <1>4, TickIInv
<1>5. QED
  BY <1>1, <1>2, <1>3, <1>4 DEF Next

THEOREM SpecIInv == Spec => []IInv
  BY InitIInv, NextIInv, PTL DEF Spec

-----------------------------------------------------------------------------
(* What the invariant gives.                                               *)

\* However the requests of any number of clients fail and are retried, no more
\* than max_request_concurrency of them are past the semaphore at once.
THEOREM SlotsBounded == Spec => []ConcurrencyBound
<1>1. IInv => ConcurrencyBound
  BY DEF IInv
<1>2. QED
  BY <1>1, SpecIInv, PTL

\* The first calls of any two requests are at least min_delay_ms apart, for any
\* jitter and any number of requests waiting for the limiter's lock.
THEOREM CallsSpaced == Spec => FirstCallsSpaced
<1>1. ASSUME IInv, [Next]_vars
      PROVE  [\A r \in Requests : pc[r] = "pause" /\ pc'[r] = "call" => gap = MinDelay]_vars
  <2> SUFFICES ASSUME NEW r \in Requests, pc[r] = "pause", pc'[r] = "call"
               PROVE  gap = MinDelay
    OBVIOUS
  <2>1. CASE UNCHANGED vars
    BY <2>1 DEF vars
  <2>2. ASSUME NEW c \in Clients, Fetch(c) \/ FetchEnds(c) PROVE FALSE
    BY <2>2 DEF Fetch, FetchEnds
  <2>3. ASSUME NEW q \in Requests, Proceed(q) PROVE gap = MinDelay
    <3>1. CASE FirstCall(q)
      <4>1. q = r
        BY <1>1, <3>1 DEF FirstCall, Goes, IInv, Shapes
      <4>2. wait[r] = 0
        BY <3>1, <4>1 DEF FirstCall
      <4>3. QED
        BY <1>1, <4>2, RequestsAssumption DEF IInv, Shapes, PauseCovers
    <3>2. CASE ~FirstCall(q)
      <4>1. pc'[r] # "call" \/ pc[r] # "pause"
        BY <1>1, <2>3, <3>2
           DEF Proceed, Enter, TakeLock, CallRaises, CallReturns, Retry, Finish, Goes, IInv, Shapes
      <4>2. QED
        BY <4>1
    <3>3. QED
      BY <3>1, <3>2
  <2>4. CASE Tick
    BY <2>4 DEF Tick
  <2>5. QED
    BY <1>1, <2>1, <2>2, <2>3, <2>4 DEF Next
<1>2. QED
  BY <1>1, SpecIInv, PTL DEF Spec, FirstCallsSpaced
=============================================================================
