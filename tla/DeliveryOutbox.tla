--------------------------- MODULE DeliveryOutbox ---------------------------
(***************************************************************************)
(* The durable Telegram outbox: the table telegram_delivery_outbox with    *)
(* the flag telegram_sent of each row's source, the repository's claim and *)
(* mark transactions, and the two coroutines of the bot that use them.     *)
(*                                                                         *)
(* The bot is one asyncio event loop: code between two awaits is atomic    *)
(* for the other coroutine, but the process can stop between any two       *)
(* transactions.  A step of this module is one transaction, together with  *)
(* the code up to the next await or the next transaction.                  *)
(*                                                                         *)
(* A deadline is kept as the time left until it passes: lease is           *)
(* lease_until - now and wait is next_attempt_at - now, both cut at 0.     *)
(***************************************************************************)
EXTENDS Naturals, FiniteSets

CONSTANTS MaxRows,      \* bound: rows ever stored, ids 1 .. MaxRows
          MaxAttempts,  \* claims a row may have (5 in the code)
          Lease,        \* lease_seconds of a claim (120 s)
          RetryDelay,   \* delay of a retry (1 minute)
          SendLimit,    \* longest time one send_message call takes
          DrainLimit,   \* rows one drain claims of each type (5)
          WatchMax,     \* config.watch_max_per_cycle
          SendWatch,    \* config.send_watch_to_telegram
          MaxCrashes    \* bound: process stops in one behaviour

ASSUME OutboxAssumption ==
    /\ MaxRows \in Nat /\ MaxAttempts \in Nat \ {0}
    /\ Lease \in Nat \ {0} /\ RetryDelay \in Nat /\ SendLimit \in Nat \ {0}
    /\ DrainLimit \in Nat /\ WatchMax \in Nat
    /\ SendWatch \in BOOLEAN /\ MaxCrashes \in Nat

Ids == 1 .. MaxRows

Scan == "scan"      \* the coroutine of startup and run_forever
Fast == "fast"      \* the task climax-fast-monitor
Workers == {Scan, Fast}

Row == [type     : {"SIGNAL", "WATCH"},
        status   : {"ABSENT", "PENDING", "IN_FLIGHT", "RETRY", "SENT", "DEAD"},
        attempts : 0 .. MaxAttempts,
        wait     : 0 .. RetryDelay,
        lease    : 0 .. Lease]

Absent == [type |-> "SIGNAL", status |-> "ABSENT", attempts |-> 0,
           wait |-> 0, lease |-> 0]

VARIABLES outbox,     \* the table: one Row per id, persistent
          telegramSent, \* ids whose source row has telegram_sent, persistent
          accepted,   \* ids Telegram has taken at least once (external)
          pc,         \* where each coroutine is
          batch,      \* ids a coroutine has claimed and not yet dealt with
          draining,   \* what the scan's batch is: "SIGNAL", "WATCH" or "NEW"
          took,       \* coroutines whose running send Telegram has taken
          left,       \* time the running send may still take
          watchSent,  \* _watch_sent_in_cycle
          crashes

vars == <<outbox, telegramSent, accepted, pc, batch, draining, took, left, watchSent,
          crashes>>

TypeOK ==
    /\ outbox \in [Ids -> Row]
    /\ telegramSent \in SUBSET Ids
    /\ accepted \in SUBSET Ids
    /\ pc \in [Workers -> {"off", "boot", "idle", "saved", "drainWatch", "sending"}]
    /\ batch \in [Workers -> SUBSET Ids]
    /\ draining \in {"SIGNAL", "WATCH", "NEW"}
    /\ took \in SUBSET Workers
    /\ left \in [Workers -> 0 .. SendLimit]
    /\ watchSent \in Nat
    /\ crashes \in 0 .. MaxCrashes

Init ==
    /\ outbox = [i \in Ids |-> Absent]
    /\ telegramSent = {}
    /\ accepted = {}
    /\ pc = [w \in Workers |-> "off"]
    /\ batch = [w \in Workers |-> {}]
    /\ draining = "NEW"
    /\ took = {}
    /\ left = [w \in Workers |-> 0]
    /\ watchSent = 0
    /\ crashes = 0

-----------------------------------------------------------------------------
(* What the repository's transactions do to one row.                       *)

WithStatus(r, status, wait, lease) ==
    [type |-> r.type, status |-> status, attempts |-> r.attempts,
     wait |-> wait, lease |-> lease]

Stored(type) ==
    [type |-> type, status |-> "PENDING", attempts |-> 0, wait |-> 0, lease |-> 0]

\* Mutant: the recovery forgets the dead-letter bound.
ExpiredUnbounded(r) ==
    IF r.status = "IN_FLIGHT" /\ r.lease = 0 THEN WithStatus(r, "RETRY", 0, 0) ELSE r

\* Mutant: the recovery looks at the lease only, not at the status.
ExpiredAnyStatus(r) ==
    IF r.status # "ABSENT" /\ r.lease = 0 /\ r.attempts >= MaxAttempts
    THEN WithStatus(r, "DEAD", r.wait, 0)
    ELSE r

\* Mutant: only dead letters are recovered, the other rows stay in flight.
ExpiredStuck(r) ==
    IF r.status = "IN_FLIGHT" /\ r.lease = 0 /\ r.attempts >= MaxAttempts
    THEN WithStatus(r, "DEAD", r.wait, 0)
    ELSE r

\* The two bulk updates every claim starts with: a lease that ran out makes
\* the row due again, or dead when its attempts are used up.
Expired(r) ==
    IF r.status = "IN_FLIGHT" /\ r.lease = 0
    THEN IF r.attempts >= MaxAttempts
         THEN WithStatus(r, "DEAD", r.wait, 0)
         ELSE WithStatus(r, "RETRY", 0, 0)
    ELSE r

\* Mutant: a row to be retried is never due again.
DueOnce(r) == r.status = "PENDING" /\ r.wait = 0

Due(r) == r.status \in {"PENDING", "RETRY"} /\ r.wait = 0

\* Mutant: the claim does not take out a new lease.
ClaimedUnleased(r) ==
    [type |-> r.type, status |-> "IN_FLIGHT", attempts |-> r.attempts + 1,
     wait |-> r.wait, lease |-> r.lease]

Claimed(r) ==
    [type |-> r.type, status |-> "IN_FLIGHT", attempts |-> r.attempts + 1,
     wait |-> r.wait, lease |-> Lease]

MarkedSent(r) == WithStatus(r, "SENT", r.wait, 0)

\* Mutant: the last attempt is taken for the last but one.
MarkedRetryLate(r) ==
    IF r.attempts > MaxAttempts
    THEN WithStatus(r, "DEAD", RetryDelay, 0)
    ELSE WithStatus(r, "RETRY", RetryDelay, 0)

\* No look at the status: whatever the row has become is overwritten.
MarkedRetry(r) ==
    IF r.attempts >= MaxAttempts
    THEN WithStatus(r, "DEAD", RetryDelay, 0)
    ELSE WithStatus(r, "RETRY", RetryDelay, 0)

Sooner(t) == IF t > 0 THEN t - 1 ELSE 0

Aged(r) == WithStatus(r, r.status, Sooner(r.wait), Sooner(r.lease))

-----------------------------------------------------------------------------
Least(S, n) == {i \in S : Cardinality({j \in S : j < i}) < n}

DueIn(S) == {i \in S : Due(Expired(outbox[i]))}

OfType(type) == {i \in Ids : outbox[i].type = type}

\* claim_due_deliveries: S are the rows the filters admit; the claimed ones
\* are the first of the due ones by id.
ClaimedRows(S, limit) == Least(DueIn(S), limit)

Claim(S, limit) ==
    outbox' = [i \in Ids |-> IF i \in ClaimedRows(S, limit)
                             THEN Claimed(Expired(outbox[i]))
                             ELSE Expired(outbox[i])]

\* Between two transactions with no await in between the loop is not free.
LoopFree(w) == \A v \in Workers \ {w} : pc[v] \notin {"saved", "drainWatch"}

\* The batch is dealt with in the order of its ids.
IsNext(w, i) == i \in batch[w] /\ \A j \in batch[w] : i <= j

\* Start sending the first row of the batch w holds from now on, or go to
\* where the code continues when there is none.
Proceed(w, rows, otherwise) ==
    /\ batch' = [batch EXCEPT ![w] = rows]
    /\ took' = took \ {w}
    /\ left' = [left EXCEPT ![w] = IF rows = {} THEN 0 ELSE SendLimit]
    /\ pc' = IF rows = {} THEN otherwise ELSE [pc EXCEPT ![w] = "sending"]

At(w, place) == [pc EXCEPT ![w] = place]

\* The end of a drain.  The one startup runs is followed by create_task of
\* the fast monitor.
Drained == [pc EXCEPT ![Scan] = "idle", ![Fast] = IF @ = "boot" THEN "idle" ELSE @]

AfterBatch(w) ==
    IF w = Scan /\ draining = "SIGNAL" THEN At(Scan, "drainWatch")
    ELSE IF w = Scan /\ draining = "WATCH" THEN Drained
    ELSE At(w, "idle")

-----------------------------------------------------------------------------
\* The first half of _drain_delivery_outbox: claim due signals.
DrainSignals ==
    /\ Claim(OfType("SIGNAL"), DrainLimit)
    /\ draining' = "SIGNAL"

\* startup: the storage check passes, the backlog is drained and then the
\* fast monitor starts.
Boot ==
    /\ pc[Scan] = "off"
    /\ DrainSignals
    /\ LET rows == ClaimedRows(OfType("SIGNAL"), DrainLimit) IN
       /\ batch' = [batch EXCEPT ![Scan] = rows]
       /\ took' = took \ {Scan}
       /\ left' = [left EXCEPT ![Scan] = IF rows = {} THEN 0 ELSE SendLimit]
       /\ pc' = [pc EXCEPT ![Scan] = IF rows = {} THEN "drainWatch" ELSE "sending",
                           ![Fast] = "boot"]
    /\ UNCHANGED <<telegramSent, accepted, watchSent, crashes>>

\* startup returns early when the storage check fails: no drain, no fast
\* monitor, and run_forever runs all the same.
BootDegraded ==
    /\ pc[Scan] = "off"
    /\ pc' = At(Scan, "idle")
    /\ UNCHANGED <<outbox, telegramSent, accepted, batch, draining, took, left, watchSent, crashes>>

\* The head of run_cycle: reset the WATCH budget, check storage, drain.
StartCycle ==
    /\ pc[Scan] = "idle" /\ LoopFree(Scan)
    /\ watchSent' = 0
    /\ DrainSignals
    /\ Proceed(Scan, ClaimedRows(OfType("SIGNAL"), DrainLimit), At(Scan, "drainWatch"))
    /\ UNCHANGED <<telegramSent, accepted, crashes>>

\* run_cycle returns before the drain when the storage check fails.
SkipCycle ==
    /\ pc[Scan] = "idle" /\ LoopFree(Scan)
    /\ watchSent' = 0
    /\ UNCHANGED <<outbox, telegramSent, accepted, pc, batch, draining, took, left, crashes>>

WatchBudget == IF WatchMax > watchSent THEN WatchMax - watchSent ELSE 0

\* Mutant: the drain claims without a look at what the budget has left.
WatchClaimUncapped == DrainLimit

WatchClaimLimit == IF DrainLimit < WatchBudget THEN DrainLimit ELSE WatchBudget

\* The second half of _drain_delivery_outbox, within the WATCH budget.
DrainWatch ==
    /\ pc[Scan] = "drainWatch" /\ LoopFree(Scan)
    /\ SendWatch /\ WatchBudget > 0
    /\ draining' = "WATCH"
    /\ Claim(OfType("WATCH"), WatchClaimLimit)
    /\ Proceed(Scan, ClaimedRows(OfType("WATCH"), WatchClaimLimit), Drained)
    /\ UNCHANGED <<telegramSent, accepted, watchSent, crashes>>

DrainNoWatch ==
    /\ pc[Scan] = "drainWatch" /\ LoopFree(Scan)
    /\ ~ (SendWatch /\ WatchBudget > 0)
    /\ pc' = Drained
    /\ UNCHANGED <<outbox, telegramSent, accepted, batch, draining, took, left, watchSent, crashes>>

\* save_signal or save_watch_candidate: the source row and its outbox row in
\* one transaction.  Only the scan emits WATCH candidates, and it stores a
\* payload only while delivery is on and the budget is not used up.
Save(w, type) ==
    /\ pc[w] = "idle" /\ LoopFree(w)
    /\ type = "WATCH" => w = Scan /\ SendWatch /\ watchSent < WatchMax
    /\ \E i \in Ids :
        /\ outbox[i].status = "ABSENT"
        /\ \A j \in Ids : j < i => outbox[j].status # "ABSENT"
        /\ outbox' = [outbox EXCEPT ![i] = Stored(type)]
        /\ batch' = [batch EXCEPT ![w] = {i}]
    /\ pc' = At(w, "saved")
    /\ draining' = IF w = Scan THEN "NEW" ELSE draining
    /\ UNCHANGED <<telegramSent, accepted, took, left, watchSent, crashes>>

\* _send_new_delivery: claim exactly the row just stored.
ClaimNew(w) ==
    /\ pc[w] = "saved"
    /\ Claim(batch[w], 1)
    /\ Proceed(w, ClaimedRows(batch[w], 1), At(w, "idle"))
    /\ UNCHANGED <<telegramSent, accepted, draining, watchSent, crashes>>

\* Telegram takes message i; the coroutine does not know it yet.
TelegramAccepts(w, i) ==
    /\ pc[w] = "sending" /\ IsNext(w, i) /\ w \notin took
    /\ took' = took \cup {w}
    /\ accepted' = accepted \cup {i}
    /\ UNCHANGED <<outbox, telegramSent, pc, batch, draining, left, watchSent, crashes>>

\* Mutant: a send is confirmed whether or not Telegram took the message.
SendSucceedsBlindly(w, i) ==
    /\ pc[w] = "sending" /\ LoopFree(w) /\ IsNext(w, i)
    /\ outbox' = [outbox EXCEPT ![i] = MarkedSent(outbox[i])]
    /\ telegramSent' = telegramSent \cup {i}
    /\ watchSent' = IF outbox[i].type = "WATCH" THEN watchSent + 1 ELSE watchSent
    /\ Proceed(w, batch[w] \ {i}, AfterBatch(w))
    /\ UNCHANGED <<accepted, draining, crashes>>

\* send_signal returned True: mark_delivery_sent, then the next of the batch.
\* (A new WATCH is marked again by update_watch_telegram_status, to no effect.)
SendSucceeds(w, i) ==
    /\ pc[w] = "sending" /\ LoopFree(w) /\ IsNext(w, i) /\ w \in took
    /\ outbox' = [outbox EXCEPT ![i] = MarkedSent(outbox[i])]
    /\ telegramSent' = telegramSent \cup {i}
    /\ watchSent' = IF outbox[i].type = "WATCH" THEN watchSent + 1 ELSE watchSent
    /\ Proceed(w, batch[w] \ {i}, AfterBatch(w))
    /\ UNCHANGED <<accepted, draining, crashes>>

\* A new WATCH whose send did not succeed has telegram_sent overwritten with
\* the outcome of that send (update_watch_telegram_status).
Overwritten(w, i) ==
    IF w = Scan /\ draining = "NEW" /\ outbox[i].type = "WATCH" THEN {i} ELSE {}

\* send_signal raised (with the message taken or not) or returned False:
\* mark_delivery_retry, then the next of the batch.
SendFails(w, i) ==
    /\ pc[w] = "sending" /\ LoopFree(w) /\ IsNext(w, i)
    /\ outbox' = [outbox EXCEPT ![i] = MarkedRetry(outbox[i])]
    /\ telegramSent' = telegramSent \ Overwritten(w, i)
    /\ Proceed(w, batch[w] \ {i}, AfterBatch(w))
    /\ UNCHANGED <<accepted, draining, watchSent, crashes>>

\* A transaction of the coroutine raises and is rolled back.  Nothing
\* between here and the handler of run_cycle, of its loop over symbols or of
\* the monitor's loop catches it: the claimed batch is dropped as it is.
DbFails(w) ==
    /\ pc[w] \in {"saved", "drainWatch", "sending"} /\ LoopFree(w)
    /\ ~ (w = Scan /\ pc[Fast] = "boot")
    /\ Proceed(w, {}, At(w, "idle"))
    /\ UNCHANGED <<outbox, telegramSent, accepted, draining, watchSent, crashes>>

\* The process stops: every variable but the table and Telegram is lost.
Crash ==
    /\ pc[Scan] # "off"
    /\ crashes < MaxCrashes
    /\ crashes' = crashes + 1
    /\ pc' = [w \in Workers |-> "off"]
    /\ batch' = [w \in Workers |-> {}]
    /\ draining' = "NEW"
    /\ took' = {}
    /\ left' = [w \in Workers |-> 0]
    /\ watchSent' = 0
    /\ UNCHANGED <<outbox, telegramSent, accepted>>

\* Time passes.  A send ends, one way or the other, within SendLimit.
Tick ==
    /\ \A w \in Workers : pc[w] = "sending" => left[w] > 0
    /\ outbox' = [i \in Ids |-> Aged(outbox[i])]
    /\ left' = [w \in Workers |-> Sooner(left[w])]
    /\ UNCHANGED <<telegramSent, accepted, pc, batch, draining, took, watchSent, crashes>>

Next ==
    \/ Boot \/ BootDegraded \/ StartCycle \/ SkipCycle
    \/ DrainWatch \/ DrainNoWatch
    \/ \E w \in Workers :
        \/ \E type \in {"SIGNAL", "WATCH"} : Save(w, type)
        \/ ClaimNew(w) \/ DbFails(w)
        \/ \E i \in Ids : TelegramAccepts(w, i) \/ SendSucceeds(w, i) \/ SendFails(w, i)
    \/ Crash \/ Tick

Spec == Init /\ [][Next]_vars

\* run_live restarts under its service manager, run_forever starts a cycle
\* again and again and the clock goes on.  Strong where the step waits for
\* its turn on the event loop, whose ready queue is first in, first out: a
\* send that ended is resumed, and storage does not fail at every WATCH claim.
Fairness ==
    /\ WF_vars(Boot \/ BootDegraded) /\ WF_vars(StartCycle) /\ WF_vars(Tick)
    /\ SF_vars(DrainWatch \/ DrainNoWatch)
    /\ \A w \in Workers :
        /\ WF_vars(ClaimNew(w))
        /\ SF_vars(\E i \in Ids : SendSucceeds(w, i) \/ SendFails(w, i))

FairSpec == Spec /\ Fairness

-----------------------------------------------------------------------------
(* Properties.                                                             *)

\* A row waits for another try only while it has one left, and is dead only
\* when all are used: mark_delivery_retry and the lease recovery of
\* claim_due_deliveries agree on the bound, whatever order they run in.
AttemptBudget ==
    \A i \in Ids :
        /\ outbox[i].status \in {"PENDING", "RETRY"} => outbox[i].attempts < MaxAttempts
        /\ outbox[i].status = "DEAD" => outbox[i].attempts = MaxAttempts

\* The bot says a signal or WATCH reached Telegram (telegram_sent, or SENT)
\* only if Telegram took it, across crashes, lost answers, late answers of an
\* earlier claim and failed transactions.
ConfirmedWasAccepted ==
    \A i \in Ids :
        /\ outbox[i].status = "SENT" => i \in telegramSent
        /\ i \in telegramSent => i \in accepted

\* With a lease longer than a whole drained batch takes, every row a
\* coroutine is about to send is still its own: in flight, under a live
\* lease, and not in the other coroutine's hands.
LeaseCoversBatch ==
    /\ \A w \in Workers : pc[w] = "sending" =>
        \A i \in batch[w] : outbox[i].status = "IN_FLIGHT" /\ outbox[i].lease > 0
    /\ batch[Scan] \cap batch[Fast] = {}

\* SENT and DEAD are final under the same condition: no late failure of an
\* earlier claim puts a delivered message back in the queue, no late success
\* revives a dead letter.
OutcomeIsFinal ==
    [][\A i \in Ids : outbox[i].status \in {"SENT", "DEAD"} =>
          outbox'[i].status = outbox[i].status]_vars

\* One cycle confirms at most watch_max_per_cycle WATCH messages, drained
\* backlog and new candidates together.
WatchWithinBudget == watchSent <= WatchMax

\* No stored message is forgotten: whatever coroutine, crash or failed
\* transaction drops it, a later drain takes it up until it is sent or dead.
EveryMessageSettles ==
    \A i \in Ids :
        /\ outbox[i].status # "ABSENT"
        /\ outbox[i].type = "SIGNAL" \/ (SendWatch /\ WatchMax > 0)
        ~> outbox[i].status \in {"SENT", "DEAD"}

\* The outbox does what AtLeastOnce promises.
Delivery == INSTANCE AtLeastOnce WITH
    stored    <- {i \in Ids : outbox[i].status # "ABSENT"},
    tries     <- [i \in Ids |-> outbox[i].attempts],
    accepted  <- accepted,
    confirmed <- telegramSent,
    MaxTries  <- MaxAttempts

ImplementsAtLeastOnce == Delivery!SafeSpec
ImplementsRetries == Delivery!Spec
=============================================================================
