------------------------ MODULE DeliveryOutboxProofs ------------------------
(***************************************************************************)
(* Proofs about DeliveryOutbox for every value of its constants: the row   *)
(* transitions first, then the inductive invariant, the WATCH budget, the  *)
(* leases that outlast a batch, and that every step is a step of           *)
(* AtLeastOnce.                                                            *)
(***************************************************************************)
EXTENDS DeliveryOutbox, FiniteSetTheorems, TLAPS

Places == {"off", "boot", "idle", "saved", "drainWatch", "sending"}

\* What every row of the table satisfies: AttemptBudget row by row, and an
\* absent row has no history.
RowOK(r) ==
    /\ r \in Row
    /\ r.status \in {"PENDING", "RETRY"} => r.attempts < MaxAttempts
    /\ r.status = "DEAD" => r.attempts = MaxAttempts
    /\ r.status = "ABSENT" => r.attempts = 0

\* What no transaction takes from a stored row.
Kept(r, q) ==
    /\ RowOK(q)
    /\ r.status # "ABSENT" => /\ q.status # "ABSENT" /\ q.attempts >= r.attempts
                              /\ q.type = r.type

\* The lease recovery of claim_due_deliveries keeps a row sound, its attempts
\* and whether it is stored.
LEMMA ExpiredRow ==
    ASSUME NEW r, RowOK(r)
    PROVE  /\ Kept(r, Expired(r))
           /\ Expired(r).attempts = r.attempts
           /\ (Expired(r).status = "ABSENT") <=> (r.status = "ABSENT")
           /\ Expired(r).status = "SENT" => r.status = "SENT"
  BY OutboxAssumption DEF RowOK, Kept, Row, Expired, WithStatus

\* A claim of a due row uses one of the attempts it still has.
LEMMA ClaimedRow ==
    ASSUME NEW r, RowOK(r), Due(r)
    PROVE  /\ Kept(r, Claimed(r))
           /\ Claimed(r).attempts = r.attempts + 1 /\ r.attempts < MaxAttempts
           /\ Claimed(r).status = "IN_FLIGHT" /\ r.status # "ABSENT"
  BY OutboxAssumption DEF RowOK, Kept, Row, Claimed, Due

\* mark_delivery_sent and mark_delivery_retry keep a stored row sound
\* whatever its status has become meanwhile.
LEMMA MarkedRow ==
    ASSUME NEW r, RowOK(r), r.status # "ABSENT"
    PROVE  /\ Kept(r, MarkedSent(r)) /\ Kept(r, MarkedRetry(r))
           /\ MarkedSent(r).attempts = r.attempts /\ MarkedRetry(r).attempts = r.attempts
           /\ MarkedSent(r).status = "SENT" /\ MarkedRetry(r).status \in {"RETRY", "DEAD"}
  BY OutboxAssumption DEF RowOK, Kept, Row, MarkedSent, MarkedRetry, WithStatus

\* Time changes nothing of a row but its deadlines.
LEMMA AgedRow ==
    ASSUME NEW r, RowOK(r)
    PROVE  /\ Kept(r, Aged(r)) /\ Aged(r).status = r.status
           /\ Aged(r).attempts = r.attempts
  BY OutboxAssumption DEF RowOK, Kept, Row, Aged, WithStatus, Sooner

\* A new row is sound.
LEMMA StoredRow ==
    ASSUME NEW type \in {"SIGNAL", "WATCH"}
    PROVE  /\ RowOK(Stored(type)) /\ Stored(type).status = "PENDING"
           /\ Stored(type).attempts = 0
  BY OutboxAssumption DEF RowOK, Row, Stored

-----------------------------------------------------------------------------
(* The inductive invariant.                                                *)

RowsOK == \A i \in Ids : RowOK(outbox[i])

\* Why a failed send of a new WATCH never takes back a confirmation: only the
\* scan sends WATCH rows, and the one it has just stored was never sent.
FreshWatch ==
    /\ \A i \in accepted : outbox[i].status # "ABSENT"
    /\ \A w \in Workers : \A i \in batch[w] : outbox[i].status # "ABSENT"
    /\ \A i \in batch[Fast] : outbox[i].type = "SIGNAL"
    /\ draining = "NEW" =>
        \A i \in batch[Scan] : outbox[i].type = "WATCH" => i \notin telegramSent

\* Whatever a coroutine is sending was stored first and counted as an attempt
\* first, and what it believes taken was taken.
HeldRowsAreClaimed ==
    \A w \in Workers : pc[w] = "sending" =>
        /\ batch[w] # {}
        /\ \A i \in batch[w] : outbox[i].status # "ABSENT" /\ outbox[i].attempts > 0
        /\ w \in took => \A i \in batch[w] : IsNext(w, i) => i \in accepted

\* TypeOK is not inductive alone: that a claim stays within 0 .. MaxAttempts
\* needs AttemptBudget (part of RowsOK), that a send can be confirmed needs
\* HeldRowsAreClaimed, and that a confirmation stays needs FreshWatch.
IInv == TypeOK /\ RowsOK /\ ConfirmedWasAccepted /\ HeldRowsAreClaimed /\ FreshWatch

\* claim_due_deliveries keeps every row, and counts an attempt exactly for
\* the rows it returns, all of which had one left.
LEMMA ClaimKeeps ==
    ASSUME TypeOK, RowsOK, NEW S \in SUBSET Ids, NEW n, Claim(S, n)
    PROVE  /\ outbox' \in [Ids -> Row]
           /\ ClaimedRows(S, n) \in SUBSET Ids /\ ClaimedRows(S, n) \subseteq S
           /\ \A i \in Ids :
                /\ Kept(outbox[i], outbox'[i])
                /\ outbox'[i].status = "ABSENT" <=> outbox[i].status = "ABSENT"
                /\ outbox'[i].status = "SENT" => outbox[i].status = "SENT"
                /\ i \notin ClaimedRows(S, n) => outbox'[i].attempts = outbox[i].attempts
           /\ \A i \in ClaimedRows(S, n) :
                /\ outbox[i].status # "ABSENT"
                /\ outbox[i].attempts < MaxAttempts
                /\ outbox'[i].status # "ABSENT"
                /\ outbox'[i].attempts = outbox[i].attempts + 1
<1>1. ClaimedRows(S, n) \in SUBSET Ids /\ ClaimedRows(S, n) \subseteq S
  BY DEF ClaimedRows, Least, DueIn
<1>2. \A i \in ClaimedRows(S, n) : Due(Expired(outbox[i]))
  BY DEF ClaimedRows, Least, DueIn
<1>3. ASSUME NEW i \in Ids
      PROVE  /\ Kept(outbox[i], outbox'[i])
             /\ outbox'[i].status = "ABSENT" <=> outbox[i].status = "ABSENT"
             /\ outbox'[i].status = "SENT" => outbox[i].status = "SENT"
             /\ i \notin ClaimedRows(S, n) => outbox'[i].attempts = outbox[i].attempts
             /\ i \in ClaimedRows(S, n) =>
                  /\ outbox[i].status # "ABSENT"
                  /\ outbox[i].attempts < MaxAttempts
                  /\ outbox'[i].attempts = outbox[i].attempts + 1
  <2> DEFINE r == outbox[i]
             e == Expired(r)
  <2>1. /\ RowOK(r) /\ Kept(r, e) /\ e.attempts = r.attempts
        /\ (e.status = "ABSENT") <=> (r.status = "ABSENT")
        /\ e.status = "SENT" => r.status = "SENT"
    BY ExpiredRow DEF RowsOK
  <2>2. CASE i \in ClaimedRows(S, n)
    <3>1. outbox'[i] = Claimed(e)
      BY <2>2 DEF Claim
    <3>2. /\ Kept(e, Claimed(e))
          /\ Claimed(e).attempts = e.attempts + 1 /\ e.attempts < MaxAttempts
          /\ Claimed(e).status = "IN_FLIGHT" /\ e.status # "ABSENT"
      BY <1>2, <2>1, <2>2, ClaimedRow DEF Kept
    <3>3. r.attempts \in Nat /\ Claimed(e).attempts >= r.attempts
      BY <2>1, <3>2, OutboxAssumption DEF RowOK, Row
    <3>4. QED
      BY <2>1, <2>2, <3>1, <3>2, <3>3 DEF Kept
  <2>3. CASE i \notin ClaimedRows(S, n)
    <3>1. outbox'[i] = e
      BY <2>3 DEF Claim
    <3>2. QED
      BY <2>1, <2>3, <3>1
  <2>4. QED
    BY <2>2, <2>3
<1>4. outbox' \in [Ids -> Row]
  <2>1. \A i \in Ids : outbox'[i] \in Row
    BY <1>3 DEF Kept, RowOK
  <2>2. DOMAIN outbox' = Ids /\ outbox' = [i \in Ids |-> outbox'[i]]
    BY DEF Claim
  <2>3. QED
    BY <2>1, <2>2
<1>5. QED
  BY <1>1, <1>3, <1>4 DEF Kept

\* What every send or claim does with the coroutine: it sends rows that are
\* claimed, or stops sending; the other coroutine's batch is untouched.
LEMMA ProceedKeeps ==
    ASSUME TypeOK, HeldRowsAreClaimed, NEW w \in Workers,
           NEW rows \in SUBSET Ids, NEW otherwise \in [Workers -> Places],
           Proceed(w, rows, otherwise),
           \A v \in Workers : otherwise[v] = "sending" => v # w /\ pc[v] = "sending",
           accepted' = accepted,
           \A i \in Ids : Kept(outbox[i], outbox'[i]),
           \A i \in rows : outbox'[i].status # "ABSENT" /\ outbox'[i].attempts > 0
    PROVE  /\ HeldRowsAreClaimed'
           /\ pc' \in [Workers -> Places]
           /\ batch' \in [Workers -> SUBSET Ids]
           /\ took' \in SUBSET Workers
           /\ left' \in [Workers -> 0 .. SendLimit]
<1>1. pc' \in [Workers -> Places] /\ batch' \in [Workers -> SUBSET Ids]
  BY DEF Proceed, TypeOK, Places
<1>2. took' \in SUBSET Workers /\ left' \in [Workers -> 0 .. SendLimit]
  BY OutboxAssumption DEF Proceed, TypeOK
<1>3. ASSUME NEW v \in Workers, pc'[v] = "sending"
      PROVE  /\ batch'[v] # {}
             /\ \A i \in batch'[v] : outbox'[i].status # "ABSENT" /\ outbox'[i].attempts > 0
             /\ v \in took' => \A i \in batch'[v] : IsNext(v, i)' => i \in accepted'
  <2>1. CASE v = w
    <3>1. rows # {} /\ batch'[v] = rows /\ v \notin took'
      BY <1>3, <2>1 DEF Proceed, TypeOK
    <3>2. QED
      BY <3>1
  <2>2. CASE v # w
    <3>1. batch'[v] = batch[v] /\ (v \in took' <=> v \in took) /\ pc[v] = "sending"
      BY <1>3, <2>2 DEF Proceed, TypeOK
    <3>2. \A i \in batch[v] : i \in Ids /\ outbox[i].status # "ABSENT" /\ outbox[i].attempts > 0
      BY <3>1 DEF HeldRowsAreClaimed, TypeOK
    <3>3. \A i \in batch[v] : outbox[i].attempts \in Nat /\ outbox'[i].attempts \in Nat
      BY <3>2, OutboxAssumption DEF TypeOK, Row, Kept, RowOK
    <3>4. \A i \in batch[v] : outbox'[i].status # "ABSENT" /\ outbox'[i].attempts > 0
      BY <3>2, <3>3 DEF Kept
    <3>5. \A i : IsNext(v, i)' <=> IsNext(v, i)
      BY <3>1 DEF IsNext
    <3>6. QED
      BY <3>1, <3>4, <3>5 DEF HeldRowsAreClaimed
  <2>3. QED
    BY <2>1, <2>2
<1>4. QED
  BY <1>1, <1>2, <1>3 DEF HeldRowsAreClaimed

\* A transaction that keeps the rows and confirms nothing keeps the rest of
\* the invariant.
LEMMA RowsKeep ==
    ASSUME IInv, outbox' \in [Ids -> Row],
           \A i \in Ids : Kept(outbox[i], outbox'[i]),
           \A i \in Ids : outbox'[i].status = "SENT" => outbox[i].status = "SENT",
           telegramSent' = telegramSent, accepted' = accepted
    PROVE  RowsOK' /\ ConfirmedWasAccepted'
  BY DEF IInv, RowsOK, ConfirmedWasAccepted, Kept

\* A transaction that confirms and stores nothing keeps FreshWatch when the
\* batches only shrink, or the scan's new batch is of a drain.
LEMMA FreshKeeps ==
    ASSUME IInv, \A i \in Ids : Kept(outbox[i], outbox'[i]),
           telegramSent' = telegramSent, accepted' = accepted,
           batch' \in [Workers -> SUBSET Ids],
           \A w \in Workers : \A i \in batch'[w] : outbox[i].status # "ABSENT",
           batch'[Fast] \subseteq batch[Fast],
           draining' = "NEW" => \/ batch'[Scan] = {}
                                \/ draining = "NEW" /\ batch'[Scan] \subseteq batch[Scan]
    PROVE  FreshWatch'
<1>1. \A i \in Ids : outbox[i].status # "ABSENT" =>
          outbox'[i].status # "ABSENT" /\ outbox'[i].type = outbox[i].type
  BY DEF Kept
<1>2. \A w \in Workers : batch'[w] \subseteq Ids /\ batch[w] \subseteq Ids
  BY DEF IInv, TypeOK
<1>3. Scan \in Workers /\ Fast \in Workers /\ accepted \subseteq Ids
  BY DEF Workers, IInv, TypeOK
<1>4. /\ \A i \in accepted' : outbox'[i].status # "ABSENT"
      /\ \A w \in Workers : \A i \in batch'[w] : outbox'[i].status # "ABSENT"
  BY <1>1, <1>2, <1>3 DEF IInv, FreshWatch
<1>5. \A i \in batch'[Fast] : outbox'[i].type = "SIGNAL"
  BY <1>1, <1>2, <1>3 DEF IInv, FreshWatch
<1>6. draining' = "NEW" =>
          \A i \in batch'[Scan] : outbox'[i].type = "WATCH" => i \notin telegramSent'
  BY <1>1, <1>2, <1>3 DEF IInv, FreshWatch
<1>7. QED
  BY <1>4, <1>5, <1>6 DEF FreshWatch

\* Where a finished batch leaves the coroutines.
LEMMA Continuations ==
    ASSUME TypeOK, NEW w \in Workers, pc[w] = "sending" \/ w = Scan
    PROVE  /\ AfterBatch(w) \in [Workers -> Places]
           /\ Drained \in [Workers -> Places]
           /\ \A v \in Workers : AfterBatch(w)[v] = "sending" => v # w /\ pc[v] = "sending"
           /\ \A v \in Workers : Drained[v] = "sending" => v # Scan /\ pc[v] = "sending"
  BY DEF TypeOK, Workers, Scan, Fast, AfterBatch, Drained, At, Places

\* Putting one coroutine at a place where it does not send leaves the other
\* where it is.
LEMMA Moved ==
    ASSUME TypeOK, NEW w \in Workers, NEW place \in Places \ {"sending"}
    PROVE  /\ At(w, place) \in [Workers -> Places]
           /\ \A v \in Workers : At(w, place)[v] = "sending" => v # w /\ pc[v] = "sending"
  BY DEF TypeOK, At, Places

\* The empty table and no coroutine running.
LEMMA InitIInv == Init => IInv
<1> SUFFICES ASSUME Init PROVE IInv
  OBVIOUS
<1>1. Absent \in Row /\ RowOK(Absent)
  BY OutboxAssumption DEF Absent, Row, RowOK
<1>2. TypeOK
  BY <1>1, OutboxAssumption DEF Init, TypeOK
<1>3. RowsOK /\ ConfirmedWasAccepted /\ HeldRowsAreClaimed /\ FreshWatch
  BY <1>1 DEF Init, RowsOK, ConfirmedWasAccepted, HeldRowsAreClaimed, FreshWatch, Absent,
              Workers
<1>4. QED
  BY <1>2, <1>3 DEF IInv

\* A claim of the scan or of a sender, whatever it does when nothing is due.
LEMMA ClaimIInv ==
    ASSUME IInv, NEW w \in Workers, NEW S \in SUBSET Ids, NEW n, Claim(S, n),
           NEW otherwise \in [Workers -> Places],
           \A v \in Workers : otherwise[v] = "sending" => v # w /\ pc[v] = "sending",
           Proceed(w, ClaimedRows(S, n), otherwise),
           draining' \in {"SIGNAL", "WATCH", "NEW"},
           watchSent' \in Nat,
           \/ w = Scan /\ draining' # "NEW"
           \/ S = batch[w] /\ draining' = draining,
           UNCHANGED <<telegramSent, accepted, crashes>>
    PROVE  IInv'
<1>1. /\ outbox' \in [Ids -> Row]
      /\ ClaimedRows(S, n) \in SUBSET Ids /\ ClaimedRows(S, n) \subseteq S
      /\ \A i \in Ids : Kept(outbox[i], outbox'[i])
      /\ \A i \in Ids : outbox'[i].status = "SENT" => outbox[i].status = "SENT"
      /\ \A i \in ClaimedRows(S, n) : outbox[i].status # "ABSENT" /\ outbox'[i].status # "ABSENT"
                                      /\ outbox'[i].attempts = outbox[i].attempts + 1
  BY ClaimKeeps DEF IInv
<1>2. RowsOK' /\ ConfirmedWasAccepted'
  BY <1>1, RowsKeep
<1>3. \A i \in ClaimedRows(S, n) : outbox'[i].status # "ABSENT" /\ outbox'[i].attempts > 0
  <2> SUFFICES ASSUME NEW i \in ClaimedRows(S, n)
               PROVE  outbox'[i].status # "ABSENT" /\ outbox'[i].attempts > 0
    OBVIOUS
  <2>1. outbox[i].attempts \in Nat
    BY <1>1, OutboxAssumption DEF IInv, TypeOK, Row
  <2>2. QED
    BY <1>1, <2>1
<1>4. /\ HeldRowsAreClaimed'
      /\ pc' \in [Workers -> Places]
      /\ batch' \in [Workers -> SUBSET Ids]
      /\ took' \in SUBSET Workers
      /\ left' \in [Workers -> 0 .. SendLimit]
  BY <1>1, <1>3, ProceedKeeps DEF IInv
<1>5. TypeOK'
  BY <1>1, <1>4 DEF IInv, TypeOK, Places
<1>6. \A v \in Workers : batch'[v] = IF v = w THEN ClaimedRows(S, n) ELSE batch[v]
  BY DEF Proceed, IInv, TypeOK
<1>7. FreshWatch'
  <2>1. \A v \in Workers : \A i \in batch'[v] : outbox[i].status # "ABSENT"
    BY <1>1, <1>6 DEF IInv, FreshWatch
  <2>2. batch'[Fast] \subseteq batch[Fast]
    BY <1>1, <1>6 DEF Workers, Scan, Fast
  <2>3. draining' = "NEW" => draining = "NEW" /\ batch'[Scan] \subseteq batch[Scan]
    BY <1>1, <1>6 DEF Workers
  <2>4. QED
    BY <1>1, <1>4, <2>1, <2>2, <2>3, FreshKeeps
<1>8. QED
  BY <1>2, <1>4, <1>5, <1>7 DEF IInv

\* A failed send takes back no confirmation.
LEMMA FailureUnconfirmed ==
    ASSUME IInv, NEW w \in Workers, NEW i \in Ids, SendFails(w, i)
    PROVE  telegramSent' = telegramSent
<1>1. i \in batch[w] /\ telegramSent' = telegramSent \ Overwritten(w, i)
  BY DEF SendFails, IsNext
<1>2. \A j \in Overwritten(w, i) : j \notin telegramSent
  BY <1>1 DEF Overwritten, IInv, FreshWatch
<1>3. QED
  BY <1>1, <1>2

\* The two ways a send ends keep the invariant: the row of the message is
\* stored, so it stays sound whatever became of it during the send, and it is
\* confirmed only when Telegram took it.
LEMMA SendEndsIInv ==
    ASSUME IInv, NEW w \in Workers, NEW i \in Ids,
           SendSucceeds(w, i) \/ SendFails(w, i)
    PROVE  IInv'
<1> DEFINE r == outbox[i]
<1>1. /\ i \in batch[w] /\ batch[w] \ {i} \in SUBSET Ids
      /\ Proceed(w, batch[w] \ {i}, AfterBatch(w))
      /\ pc[w] = "sending" /\ IsNext(w, i)
      /\ UNCHANGED <<accepted, draining, crashes>>
  BY DEF SendSucceeds, SendFails, IsNext, IInv, TypeOK
<1>2. r.status # "ABSENT" /\ RowOK(r)
  BY <1>1 DEF IInv, HeldRowsAreClaimed, RowsOK
<1>3. PICK q : /\ outbox' = [outbox EXCEPT ![i] = q]
               /\ Kept(r, q) /\ q.attempts = r.attempts /\ q.status # "ABSENT"
               /\ q.status = "SENT" => i \in telegramSent'
  <2>1. /\ Kept(r, MarkedSent(r)) /\ Kept(r, MarkedRetry(r))
        /\ MarkedSent(r).attempts = r.attempts /\ MarkedRetry(r).attempts = r.attempts
        /\ MarkedSent(r).status = "SENT" /\ MarkedRetry(r).status \in {"RETRY", "DEAD"}
    BY <1>2, MarkedRow
  <2>2. CASE SendSucceeds(w, i)
    <3>1. outbox' = [outbox EXCEPT ![i] = MarkedSent(r)] /\ i \in telegramSent'
      BY <2>2 DEF SendSucceeds
    <3>2. QED
      BY <2>1, <3>1
  <2>3. CASE SendFails(w, i)
    <3>1. outbox' = [outbox EXCEPT ![i] = MarkedRetry(r)]
      BY <2>3 DEF SendFails
    <3>2. QED
      BY <2>1, <3>1
  <2>4. QED
    BY <2>2, <2>3
<1>4. /\ outbox' \in [Ids -> Row]
      /\ \A j \in Ids : Kept(outbox[j], outbox'[j]) /\ outbox'[j].attempts = outbox[j].attempts
      /\ \A j \in Ids : outbox[j].status # "ABSENT" =>
              outbox'[j].status # "ABSENT" /\ outbox'[j].type = outbox[j].type
  <2>1. \A j \in Ids : outbox'[j] = IF j = i THEN q ELSE outbox[j]
    BY <1>3 DEF IInv, TypeOK
  <2>2. \A j \in Ids : RowOK(outbox[j]) /\ outbox[j].attempts >= outbox[j].attempts
    BY OutboxAssumption DEF IInv, RowsOK, RowOK, Row
  <2>3. q \in Row
    BY <1>3 DEF Kept, RowOK
  <2>4. QED
    BY <1>3, <2>1, <2>2, <2>3 DEF IInv, TypeOK, Kept
<1>5. \A j \in batch[w] \ {i} : outbox'[j].status # "ABSENT" /\ outbox'[j].attempts > 0
  BY <1>1, <1>4 DEF IInv, TypeOK, HeldRowsAreClaimed
<1>6. /\ AfterBatch(w) \in [Workers -> Places]
      /\ \A v \in Workers : AfterBatch(w)[v] = "sending" => v # w /\ pc[v] = "sending"
  BY <1>1, Continuations DEF IInv
<1>7. /\ HeldRowsAreClaimed'
      /\ pc' \in [Workers -> Places]
      /\ batch' \in [Workers -> SUBSET Ids]
      /\ took' \in SUBSET Workers
      /\ left' \in [Workers -> 0 .. SendLimit]
  BY <1>1, <1>4, <1>5, <1>6, ProceedKeeps DEF IInv
<1>8. telegramSent' \in SUBSET Ids /\ watchSent' \in Nat
  BY DEF SendSucceeds, SendFails, IInv, TypeOK
<1>9. TypeOK' /\ RowsOK'
  BY <1>1, <1>4, <1>7, <1>8 DEF IInv, TypeOK, Places, RowsOK, Kept
<1>10. ConfirmedWasAccepted'
  <2>1. \A j \in telegramSent' : j \in accepted'
    BY <1>1 DEF SendSucceeds, SendFails, IInv, TypeOK, ConfirmedWasAccepted, HeldRowsAreClaimed
  <2>2. \A j \in Ids : outbox'[j].status = "SENT" => j \in telegramSent'
    <3>1. \A j \in Ids : j # i => outbox'[j] = outbox[j]
      BY <1>3 DEF IInv, TypeOK
    <3>2. outbox'[i] = q
      BY <1>3 DEF IInv, TypeOK
    <3>3. telegramSent \subseteq telegramSent'
      BY FailureUnconfirmed DEF SendSucceeds
    <3>4. QED
      BY <1>3, <3>1, <3>2, <3>3 DEF IInv, ConfirmedWasAccepted
  <2>3. QED
    BY <2>1, <2>2 DEF ConfirmedWasAccepted
<1>11. FreshWatch'
  <2>1. \A v \in Workers : batch'[v] = IF v = w THEN batch[w] \ {i} ELSE batch[v]
    BY <1>1 DEF Proceed, IInv, TypeOK
  <2>2. \A v \in Workers : batch'[v] \subseteq batch[v] /\ batch[v] \subseteq Ids
    BY <2>1 DEF IInv, TypeOK
  <2>3. Scan \in Workers /\ Fast \in Workers /\ accepted \subseteq Ids
    BY DEF Workers, IInv, TypeOK
  <2>4. /\ \A j \in accepted' : outbox'[j].status # "ABSENT"
        /\ \A v \in Workers : \A j \in batch'[v] : outbox'[j].status # "ABSENT"
        /\ \A j \in batch'[Fast] : outbox'[j].type = "SIGNAL"
    BY <1>1, <1>4, <2>2, <2>3 DEF IInv, FreshWatch
  <2>5. ASSUME draining' = "NEW", NEW j \in batch'[Scan], outbox'[j].type = "WATCH"
        PROVE  j \notin telegramSent'
    <3>1. j \in batch[Scan] /\ outbox[j].type = "WATCH" /\ j \notin telegramSent
      BY <1>1, <1>4, <2>2, <2>3, <2>5 DEF IInv, FreshWatch
    <3>2. j # i
      <4>1. CASE w = Scan
        BY <2>1, <2>3, <4>1
      <4>2. CASE w = Fast
        BY <1>1, <3>1, <4>2 DEF IInv, FreshWatch
      <4>3. QED
        BY <4>1, <4>2 DEF Workers
    <3>3. telegramSent' \subseteq telegramSent \cup {i}
      BY FailureUnconfirmed DEF SendSucceeds
    <3>4. QED
      BY <3>1, <3>2, <3>3
  <2>6. QED
    BY <2>4, <2>5 DEF FreshWatch
<1>12. QED
  BY <1>7, <1>9, <1>10, <1>11 DEF IInv

\* startup's drain of signals keeps the invariant; the monitor waits for it.
LEMMA BootIInv ==
    ASSUME IInv, Boot
    PROVE  IInv'
<1> DEFINE S == OfType("SIGNAL")
           rows == ClaimedRows(S, DrainLimit)
<1>1. S \in SUBSET Ids /\ Claim(S, DrainLimit)
  BY DEF Boot, DrainSignals, OfType
<1>2. /\ outbox' \in [Ids -> Row]
      /\ rows \in SUBSET Ids
      /\ \A i \in Ids : Kept(outbox[i], outbox'[i])
      /\ \A i \in Ids : outbox'[i].status = "SENT" => outbox[i].status = "SENT"
      /\ \A i \in rows : outbox[i].status # "ABSENT" /\ outbox'[i].status # "ABSENT"
                         /\ outbox'[i].attempts = outbox[i].attempts + 1
  BY <1>1, ClaimKeeps DEF IInv
<1>3. RowsOK' /\ ConfirmedWasAccepted'
  BY <1>2, RowsKeep DEF Boot
<1>4. \A i \in rows : outbox'[i].status # "ABSENT" /\ outbox'[i].attempts > 0
  <2> SUFFICES ASSUME NEW i \in rows
               PROVE  outbox'[i].status # "ABSENT" /\ outbox'[i].attempts > 0
    OBVIOUS
  <2>1. outbox[i].attempts \in Nat
    BY <1>2, OutboxAssumption DEF IInv, TypeOK, Row
  <2>2. QED
    BY <1>2, <2>1
<1>5. /\ batch' = [batch EXCEPT ![Scan] = rows] /\ took' = took \ {Scan}
      /\ pc' = [pc EXCEPT ![Scan] = IF rows = {} THEN "drainWatch" ELSE "sending",
                          ![Fast] = "boot"]
      /\ left' = [left EXCEPT ![Scan] = IF rows = {} THEN 0 ELSE SendLimit]
      /\ draining' = "SIGNAL"
      /\ UNCHANGED <<telegramSent, accepted, watchSent, crashes>>
  BY DEF Boot, DrainSignals
<1>6. TypeOK'
  <2>1. pc' \in [Workers -> Places]
    BY <1>5 DEF IInv, TypeOK, Places
  <2>2. left' \in [Workers -> 0 .. SendLimit]
    <3> HIDE DEF rows
    <3>1. (IF rows = {} THEN 0 ELSE SendLimit) \in 0 .. SendLimit
      BY OutboxAssumption
    <3>2. QED
      BY <1>5, <3>1 DEF IInv, TypeOK
  <2>3. batch' \in [Workers -> SUBSET Ids] /\ took' \in SUBSET Workers
    BY <1>2, <1>5 DEF IInv, TypeOK
  <2>4. QED
    BY <1>2, <1>5, <2>1, <2>2, <2>3 DEF IInv, TypeOK, Places
<1>7. HeldRowsAreClaimed'
  <2> SUFFICES ASSUME NEW w \in Workers, pc'[w] = "sending"
               PROVE  /\ batch'[w] # {}
                      /\ \A i \in batch'[w] : outbox'[i].status # "ABSENT"
                                              /\ outbox'[i].attempts > 0
                      /\ w \notin took'
    BY DEF HeldRowsAreClaimed
  <2>1. pc'[Fast] = "boot" /\ w = Scan
    BY <1>5 DEF IInv, TypeOK, Workers, Scan, Fast
  <2>2. rows # {} /\ batch'[w] = rows /\ w \notin took'
    BY <1>5, <2>1 DEF IInv, TypeOK, Workers, Scan, Fast
  <2>3. QED
    BY <1>4, <2>2
<1>8. FreshWatch'
  <2>1. \A v \in Workers : batch'[v] = IF v = Scan THEN rows ELSE batch[v]
    BY <1>5 DEF IInv, TypeOK
  <2>2. \A v \in Workers : \A i \in batch'[v] : outbox[i].status # "ABSENT"
    BY <1>2, <2>1 DEF IInv, FreshWatch
  <2>3. batch'[Fast] = batch[Fast]
    BY <2>1 DEF Workers, Scan, Fast
  <2>4. batch' \in [Workers -> SUBSET Ids]
    BY <1>6 DEF TypeOK
  <2>5. QED
    BY <1>2, <1>5, <2>2, <2>3, <2>4, FreshKeeps
<1>9. QED
  BY <1>3, <1>6, <1>7, <1>8 DEF IInv

\* A new row keeps the invariant: it takes an id no coroutine is sending.
LEMMA SaveIInv ==
    ASSUME IInv, NEW w \in Workers, NEW type \in {"SIGNAL", "WATCH"}, Save(w, type)
    PROVE  IInv'
<1>1. PICK i \in Ids : /\ outbox[i].status = "ABSENT"
                       /\ outbox' = [outbox EXCEPT ![i] = Stored(type)]
                       /\ batch' = [batch EXCEPT ![w] = {i}]
  BY DEF Save
<1>2. pc' = At(w, "saved") /\ draining' \in {"SIGNAL", "WATCH", "NEW"}
      /\ UNCHANGED <<telegramSent, accepted, took, left, watchSent, crashes>>
  BY DEF Save, IInv, TypeOK
<1>3. /\ RowOK(Stored(type)) /\ Stored(type).status = "PENDING"
      /\ Stored(type).attempts = 0
  BY StoredRow
<1>4. \A j \in Ids : outbox'[j] = IF j = i THEN Stored(type) ELSE outbox[j]
  BY <1>1 DEF IInv, TypeOK
<1>5. RowsOK' /\ ConfirmedWasAccepted'
  BY <1>2, <1>3, <1>4 DEF IInv, RowsOK, ConfirmedWasAccepted
<1>6. /\ pc' \in [Workers -> Places]
      /\ \A v \in Workers : pc'[v] = "sending" => v # w /\ pc[v] = "sending"
  BY <1>2, Moved DEF IInv, Places
<1>7. TypeOK'
  <2>1. outbox' \in [Ids -> Row]
    BY <1>1, <1>3 DEF IInv, TypeOK, RowOK
  <2>2. QED
    BY <1>1, <1>2, <1>6, <2>1 DEF IInv, TypeOK, Places
<1>8. HeldRowsAreClaimed'
  <2> SUFFICES ASSUME NEW v \in Workers, pc'[v] = "sending"
               PROVE  /\ batch'[v] # {}
                      /\ \A j \in batch'[v] : outbox'[j].status # "ABSENT"
                                              /\ outbox'[j].attempts > 0
                      /\ v \in took' => \A j \in batch'[v] : IsNext(v, j)' => j \in accepted'
    BY DEF HeldRowsAreClaimed
  <2>1. v # w /\ pc[v] = "sending" /\ batch'[v] = batch[v]
    BY <1>1, <1>6 DEF IInv, TypeOK
  <2>2. \A j \in batch[v] : j \in Ids /\ outbox[j].status # "ABSENT" /\ outbox[j].attempts > 0
    BY <2>1 DEF IInv, TypeOK, HeldRowsAreClaimed
  <2>3. \A j : IsNext(v, j)' <=> IsNext(v, j)
    BY <2>1 DEF IsNext
  <2>4. QED
    BY <1>1, <1>2, <1>4, <2>1, <2>2, <2>3 DEF IInv, HeldRowsAreClaimed
<1>9. FreshWatch'
  <2>1. \A v \in Workers : batch'[v] = IF v = w THEN {i} ELSE batch[v]
    BY <1>1 DEF IInv, TypeOK
  <2>2. Scan \in Workers /\ Fast \in Workers /\ accepted \subseteq Ids
        /\ \A v \in Workers : batch[v] \subseteq Ids
    BY DEF Workers, IInv, TypeOK
  <2>3. \A j \in Ids : outbox[j].status # "ABSENT" => outbox'[j] = outbox[j]
    BY <1>1, <1>4
  <2>4. /\ \A j \in accepted' : outbox'[j].status # "ABSENT"
        /\ \A v \in Workers : \A j \in batch'[v] : outbox'[j].status # "ABSENT"
    BY <1>2, <1>3, <1>4, <2>1, <2>2, <2>3 DEF IInv, FreshWatch
  <2>5. \A j \in batch'[Fast] : outbox'[j].type = "SIGNAL"
    <3>1. CASE w = Fast
      <4>1. type = "SIGNAL"
        BY <3>1 DEF Save, Scan, Fast
      <4>2. QED
        BY <1>4, <2>1, <2>2, <3>1, <4>1 DEF Stored
    <3>2. CASE w # Fast
      BY <2>1, <2>2, <2>3, <3>2 DEF IInv, FreshWatch
    <3>3. QED
      BY <3>1, <3>2
  <2>6. i \notin telegramSent
    BY <1>1 DEF IInv, ConfirmedWasAccepted, FreshWatch
  <2>7. draining' = "NEW" =>
            \A j \in batch'[Scan] : outbox'[j].type = "WATCH" => j \notin telegramSent'
    <3>1. CASE w = Scan
      BY <1>2, <2>1, <2>2, <2>6, <3>1
    <3>2. CASE w # Scan
      <4>1. draining' = draining /\ batch'[Scan] = batch[Scan]
        BY <2>1, <2>2, <3>2 DEF Save
      <4>2. QED
        BY <1>2, <2>2, <2>3, <4>1 DEF IInv, FreshWatch
    <3>3. QED
      BY <3>1, <3>2
  <2>8. QED
    BY <2>4, <2>5, <2>7 DEF FreshWatch
<1>10. QED
  BY <1>5, <1>7, <1>8, <1>9 DEF IInv

\* Telegram takes the message that was next, and no other.
LEMMA TelegramAcceptsIInv ==
    ASSUME IInv, NEW w \in Workers, NEW i \in Ids, TelegramAccepts(w, i)
    PROVE  IInv'
<1>1. /\ IsNext(w, i) /\ took' = took \cup {w} /\ accepted' = accepted \cup {i}
      /\ UNCHANGED <<outbox, telegramSent, pc, batch, draining, left, watchSent, crashes>>
  BY DEF TelegramAccepts
<1>2. TypeOK' /\ RowsOK' /\ ConfirmedWasAccepted'
  BY <1>1 DEF IInv, TypeOK, RowsOK, ConfirmedWasAccepted
<1>3. \A j \in batch[w] : IsNext(w, j) => j = i
  BY <1>1 DEF IsNext, IInv, TypeOK, Ids
<1>4. \A v \in Workers : \A j : IsNext(v, j)' <=> IsNext(v, j)
  BY <1>1 DEF IsNext
<1>5. HeldRowsAreClaimed'
  BY <1>1, <1>3, <1>4 DEF IInv, HeldRowsAreClaimed
<1>6. FreshWatch'
  BY <1>1 DEF IInv, FreshWatch, IsNext
<1>7. QED
  BY <1>2, <1>5, <1>6 DEF IInv

\* Time changes no row's attempts or status.
LEMMA TickIInv ==
    ASSUME IInv, Tick
    PROVE  IInv'
<1>1. /\ outbox' = [i \in Ids |-> Aged(outbox[i])]
      /\ left' = [w \in Workers |-> Sooner(left[w])]
      /\ UNCHANGED <<telegramSent, accepted, pc, batch, draining, took, watchSent, crashes>>
  BY DEF Tick
<1>2. \A i \in Ids : /\ Kept(outbox[i], outbox'[i]) /\ outbox'[i] \in Row
                     /\ outbox'[i].status = outbox[i].status
                     /\ outbox'[i].attempts = outbox[i].attempts
  BY <1>1, AgedRow DEF IInv, RowsOK, Kept, RowOK
<1>3. TypeOK'
  <2>1. outbox' \in [Ids -> Row]
    BY <1>1, <1>2
  <2>2. left' \in [Workers -> 0 .. SendLimit]
    BY <1>1, OutboxAssumption DEF IInv, TypeOK, Sooner
  <2>3. QED
    BY <1>1, <2>1, <2>2 DEF IInv, TypeOK
<1>4. RowsOK' /\ ConfirmedWasAccepted'
  BY <1>1, <1>2 DEF IInv, RowsOK, ConfirmedWasAccepted, Kept
<1>5. \A v \in Workers : \A j : IsNext(v, j)' <=> IsNext(v, j)
  BY <1>1 DEF IsNext
<1>6. HeldRowsAreClaimed'
  BY <1>1, <1>2, <1>5 DEF IInv, TypeOK, HeldRowsAreClaimed
<1>7. FreshWatch'
  BY <1>1, <1>2, FreshKeeps DEF IInv, TypeOK, FreshWatch
<1>8. QED
  BY <1>3, <1>4, <1>6, <1>7 DEF IInv

\* Steps that touch neither the table nor Telegram and leave no coroutine
\* sending that was not: the row part of the invariant carries over.
LEMMA MemoryIInv ==
    ASSUME IInv, UNCHANGED <<outbox, telegramSent, accepted>>,
           pc' \in [Workers -> Places], batch' \in [Workers -> SUBSET Ids],
           draining' \in {"SIGNAL", "WATCH", "NEW"}, took' \in SUBSET Workers,
           left' \in [Workers -> 0 .. SendLimit], watchSent' \in Nat,
           crashes' \in 0 .. MaxCrashes,
           \A v \in Workers : pc'[v] = "sending" =>
               pc[v] = "sending" /\ batch'[v] = batch[v] /\ (v \in took' => v \in took),
           \A v \in Workers : batch'[v] \subseteq batch[v],
           draining' = draining \/ \A v \in Workers : batch'[v] = {}
    PROVE  IInv'
<1>1. TypeOK' /\ RowsOK' /\ ConfirmedWasAccepted'
  BY DEF IInv, TypeOK, RowsOK, ConfirmedWasAccepted, Places
<1>2. \A v \in Workers : \A j : pc'[v] = "sending" => (IsNext(v, j)' <=> IsNext(v, j))
  BY DEF IsNext
<1>3. HeldRowsAreClaimed'
  BY <1>2 DEF IInv, HeldRowsAreClaimed
<1>4. \A i \in Ids : Kept(outbox[i], outbox'[i])
  BY OutboxAssumption DEF IInv, RowsOK, RowOK, Row, Kept
<1>5. FreshWatch'
  BY <1>4, FreshKeeps DEF IInv, FreshWatch, Workers
<1>6. QED
  BY <1>1, <1>3, <1>5 DEF IInv

\* A step of the scan between two sends, to a place where nothing is sent.
LEMMA ScanMovesIInv ==
    ASSUME IInv, UNCHANGED <<outbox, telegramSent, accepted, batch, draining, took, left, crashes>>,
           watchSent' \in Nat, pc' \in [Workers -> Places],
           \A v \in Workers : pc'[v] = "sending" => pc[v] = "sending"
    PROVE  IInv'
  BY MemoryIInv DEF IInv, TypeOK

\* Every step keeps the invariant, one case per action.
LEMMA NextIInv ==
    ASSUME IInv, [Next]_vars
    PROVE  IInv'
<1> USE DEF Workers
<1>1. CASE Boot
  BY <1>1, BootIInv
<1>2. CASE BootDegraded
  <2>1. /\ At(Scan, "idle") \in [Workers -> Places]
        /\ \A v \in Workers : At(Scan, "idle")[v] = "sending" => pc[v] = "sending"
    BY Moved DEF IInv, Places
  <2>2. QED
    BY <1>2, <2>1, ScanMovesIInv DEF BootDegraded, IInv, TypeOK
<1>3. CASE StartCycle
  <2>1. /\ Claim(OfType("SIGNAL"), DrainLimit) /\ draining' = "SIGNAL" /\ watchSent' = 0
        /\ Proceed(Scan, ClaimedRows(OfType("SIGNAL"), DrainLimit), At(Scan, "drainWatch"))
        /\ UNCHANGED <<telegramSent, accepted, crashes>>
    BY <1>3 DEF StartCycle, DrainSignals
  <2>2. /\ At(Scan, "drainWatch") \in [Workers -> Places]
        /\ \A v \in Workers : At(Scan, "drainWatch")[v] = "sending" => v # Scan /\ pc[v] = "sending"
    BY Moved DEF IInv, Places
  <2>3. OfType("SIGNAL") \in SUBSET Ids
    BY DEF OfType
  <2>4. QED
    BY <2>1, <2>2, <2>3, ClaimIInv
<1>4. CASE SkipCycle
  BY <1>4, ScanMovesIInv DEF SkipCycle, IInv, TypeOK, Places
<1>5. CASE DrainWatch
  <2>1. /\ Claim(OfType("WATCH"), WatchClaimLimit) /\ draining' = "WATCH"
        /\ Proceed(Scan, ClaimedRows(OfType("WATCH"), WatchClaimLimit), Drained)
        /\ UNCHANGED <<telegramSent, accepted, watchSent, crashes>>
    BY <1>5 DEF DrainWatch
  <2>2. watchSent' \in Nat /\ OfType("WATCH") \in SUBSET Ids
    BY <2>1 DEF IInv, TypeOK, OfType
  <2>3. QED
    BY <2>1, <2>2, ClaimIInv, Continuations DEF IInv
<1>6. CASE DrainNoWatch
  <2>1. /\ Drained \in [Workers -> Places]
        /\ \A v \in Workers : Drained[v] = "sending" => pc[v] = "sending"
    BY Continuations DEF IInv
  <2>2. QED
    BY <1>6, <2>1, ScanMovesIInv DEF DrainNoWatch, IInv, TypeOK
<1>7. ASSUME NEW w \in Workers, NEW type \in {"SIGNAL", "WATCH"}, Save(w, type)
      PROVE  IInv'
  BY <1>7, SaveIInv
<1>8. ASSUME NEW w \in Workers, ClaimNew(w)
      PROVE  IInv'
  <2>1. /\ Claim(batch[w], 1)
        /\ Proceed(w, ClaimedRows(batch[w], 1), At(w, "idle"))
        /\ UNCHANGED <<telegramSent, accepted, draining, watchSent, crashes>>
    BY <1>8 DEF ClaimNew
  <2>2. /\ At(w, "idle") \in [Workers -> Places]
        /\ \A v \in Workers : At(w, "idle")[v] = "sending" => v # w /\ pc[v] = "sending"
    BY Moved DEF IInv, Places
  <2>3. batch[w] \in SUBSET Ids /\ draining' \in {"SIGNAL", "WATCH", "NEW"} /\ watchSent' \in Nat
    BY <2>1 DEF IInv, TypeOK
  <2>4. QED
    BY <2>1, <2>2, <2>3, ClaimIInv
<1>9. ASSUME NEW w \in Workers, DbFails(w)
      PROVE  IInv'
  <2>1. /\ Proceed(w, {}, At(w, "idle"))
        /\ UNCHANGED <<outbox, telegramSent, accepted, draining, watchSent, crashes>>
    BY <1>9 DEF DbFails
  <2>2. /\ pc' \in [Workers -> Places]
        /\ \A v \in Workers : pc'[v] = "sending" => v # w /\ pc[v] = "sending"
    BY <2>1, Moved DEF IInv, Places, Proceed
  <2>3. /\ batch' \in [Workers -> SUBSET Ids] /\ took' \in SUBSET Workers
        /\ left' \in [Workers -> 0 .. SendLimit]
        /\ \A v \in Workers : v # w => batch'[v] = batch[v]
        /\ \A v \in Workers : batch'[v] \subseteq batch[v]
        /\ took' \subseteq took
    BY <2>1, OutboxAssumption DEF Proceed, IInv, TypeOK
  <2>4. /\ draining' \in {"SIGNAL", "WATCH", "NEW"} /\ watchSent' \in Nat
        /\ crashes' \in 0 .. MaxCrashes
    BY <2>1 DEF IInv, TypeOK
  <2>5. QED
    BY <2>1, <2>2, <2>3, <2>4, MemoryIInv
<1>10. ASSUME NEW w \in Workers, NEW i \in Ids,
              TelegramAccepts(w, i) \/ SendSucceeds(w, i) \/ SendFails(w, i)
       PROVE  IInv'
  BY <1>10, TelegramAcceptsIInv, SendEndsIInv
<1>11. CASE Crash
  <2>1. /\ pc' = [w \in Workers |-> "off"] /\ batch' = [w \in Workers |-> {}]
        /\ draining' = "NEW" /\ took' = {} /\ left' = [w \in Workers |-> 0]
        /\ watchSent' = 0 /\ UNCHANGED <<outbox, telegramSent, accepted>>
    BY <1>11 DEF Crash
  <2>2. crashes' \in 0 .. MaxCrashes
    BY <1>11, OutboxAssumption DEF Crash, IInv, TypeOK
  <2>3. /\ pc' \in [Workers -> Places] /\ batch' \in [Workers -> SUBSET Ids]
        /\ left' \in [Workers -> 0 .. SendLimit]
        /\ \A v \in Workers : pc'[v] # "sending"
    BY <2>1, OutboxAssumption DEF Places
  <2>4. QED
    BY <2>1, <2>2, <2>3, MemoryIInv
<1>12. CASE Tick
  BY <1>12, TickIInv
<1>13. CASE UNCHANGED vars
  BY <1>13, ScanMovesIInv DEF vars, IInv, TypeOK, Places
<1>14. QED
  BY <1>1, <1>2, <1>3, <1>4, <1>5, <1>6, <1>7, <1>8, <1>9, <1>10, <1>11, <1>12, <1>13 DEF Next

\* The invariant holds in every reachable state.
LEMMA SpecIInv == Spec => []IInv
<1>1. Init => IInv
  BY InitIInv
<1>2. IInv /\ [Next]_vars => IInv'
  BY NextIInv
<1>3. QED
  BY <1>1, <1>2, PTL DEF Spec

\* The types, among them that no row is ever claimed more than MaxAttempts
\* times and no id but a stored one is in a coroutine's hands.
THEOREM TypeCorrect == Spec => []TypeOK
<1>1. IInv => TypeOK
  BY DEF IInv
<1>2. QED
  BY <1>1, SpecIInv, PTL

\* A row waits for a try only while it has one left and is dead only when
\* all are used, for any number of rows, attempts, crashes and lost answers.
THEOREM AttemptsBounded == Spec => []AttemptBudget
<1>1. IInv => AttemptBudget
  BY DEF IInv, RowsOK, RowOK, AttemptBudget
<1>2. QED
  BY <1>1, SpecIInv, PTL

\* Nothing is marked sent that Telegram did not take.
THEOREM ConfirmedSound == Spec => []ConfirmedWasAccepted
<1>1. IInv => ConfirmedWasAccepted
  BY DEF IInv
<1>2. QED
  BY <1>1, SpecIInv, PTL

-----------------------------------------------------------------------------
(* What no step takes from a row, and what a claim returns at most.        *)

\* No step of either coroutine, of the clock or of a stop makes a row unsound,
\* forgets it, takes back an attempt or changes its type.
LEMMA StepKeepsRows ==
    ASSUME IInv, [Next]_vars
    PROVE  \A i \in Ids : Kept(outbox[i], outbox'[i])
<1> USE DEF Workers
<1>1. ASSUME NEW S \in SUBSET Ids, NEW n, Claim(S, n)
      PROVE  \A i \in Ids : Kept(outbox[i], outbox'[i])
  BY <1>1, ClaimKeeps DEF IInv
<1>2. \A i \in Ids : Kept(outbox[i], outbox[i])
  BY OutboxAssumption DEF IInv, RowsOK, RowOK, Row, Kept
<1>3. CASE Boot \/ StartCycle \/ DrainWatch
  BY <1>1, <1>3 DEF Boot, StartCycle, DrainSignals, DrainWatch, OfType
<1>4. ASSUME NEW w \in Workers, ClaimNew(w)
      PROVE  \A i \in Ids : Kept(outbox[i], outbox'[i])
  BY <1>1, <1>4 DEF ClaimNew, IInv, TypeOK
<1>5. ASSUME NEW w \in Workers, NEW type \in {"SIGNAL", "WATCH"}, Save(w, type)
      PROVE  \A i \in Ids : Kept(outbox[i], outbox'[i])
  <2>1. PICK i \in Ids : /\ outbox[i].status = "ABSENT"
                         /\ outbox' = [outbox EXCEPT ![i] = Stored(type)]
    BY <1>5 DEF Save
  <2>2. Kept(outbox[i], Stored(type))
    BY <2>1, StoredRow DEF Kept
  <2>3. QED
    BY <1>2, <2>1, <2>2 DEF IInv, TypeOK
<1>6. ASSUME NEW w \in Workers, NEW i \in Ids, SendSucceeds(w, i) \/ SendFails(w, i)
      PROVE  \A j \in Ids : Kept(outbox[j], outbox'[j])
  <2>1. outbox[i].status # "ABSENT" /\ RowOK(outbox[i])
    BY <1>6 DEF SendSucceeds, SendFails, IsNext, IInv, HeldRowsAreClaimed, RowsOK
  <2>2. Kept(outbox[i], MarkedSent(outbox[i])) /\ Kept(outbox[i], MarkedRetry(outbox[i]))
    BY <2>1, MarkedRow
  <2>3. \/ outbox' = [outbox EXCEPT ![i] = MarkedSent(outbox[i])]
        \/ outbox' = [outbox EXCEPT ![i] = MarkedRetry(outbox[i])]
    BY <1>6 DEF SendSucceeds, SendFails
  <2>4. QED
    BY <1>2, <2>2, <2>3 DEF IInv, TypeOK
<1>7. CASE Tick
  BY <1>7, AgedRow DEF Tick, IInv, RowsOK
<1>8. CASE UNCHANGED outbox
  BY <1>2, <1>8
<1>9. QED
  BY <1>3, <1>4, <1>5, <1>6, <1>7, <1>8
  DEF Next, vars, BootDegraded, SkipCycle, DrainNoWatch, DbFails, TelegramAccepts, Crash

\* The rows of the table are finitely many.
LEMMA IdsFinite ==
    ASSUME NEW S \in SUBSET Ids
    PROVE  IsFiniteSet(S) /\ Cardinality(S) \in Nat
<1>1. IsFiniteSet(Ids)
  BY FS_Interval, OutboxAssumption DEF Ids
<1>2. IsFiniteSet(S)
  BY <1>1, FS_Subset
<1>3. QED
  BY <1>2, FS_CardinalityType

\* The first n of some rows are at most n: each has its own number of smaller
\* ones, below n.
LEMMA LeastBound ==
    ASSUME NEW S \in SUBSET Ids, NEW n \in Nat
    PROVE  Cardinality(Least(S, n)) <= n
<1> DEFINE below(i) == {j \in S : j < i}
           rank == [i \in Least(S, n) |-> Cardinality(below(i))]
<1>1. \A i \in Least(S, n) : i \in S /\ Cardinality(below(i)) < n
  BY DEF Least
<1>2. \A i \in S : /\ IsFiniteSet(below(i)) /\ Cardinality(below(i)) \in Nat
  BY IdsFinite
<1>3. \A i \in S : i \in Int
  BY OutboxAssumption DEF Ids
<1>4. \A i \in Least(S, n) : rank[i] = Cardinality(below(i)) /\ rank[i] \in 0 .. n - 1
  BY <1>1, <1>2
<1>5. rank \in Injection(Least(S, n), 0 .. n - 1)
  <2>1. ASSUME NEW i \in Least(S, n), NEW k \in Least(S, n), i < k
        PROVE  rank[i] # rank[k]
    <3>1. i \in S /\ k \in S /\ i \in Int /\ k \in Int
      BY <1>1, <1>3
    <3>2. i \in below(k) /\ i \notin below(i)
      BY <2>1, <3>1
    <3>3. \A j \in below(i) : j \in below(k)
      BY <1>3, <2>1, <3>1
    <3>4. below(i) \in SUBSET below(k) /\ IsFiniteSet(below(k)) /\ below(i) # below(k)
      BY <1>2, <3>1, <3>2, <3>3
    <3>5. Cardinality(below(i)) # Cardinality(below(k))
      BY <3>4, FS_Subset
    <3>6. QED
      BY <1>4, <3>5
  <2>2. rank \in [Least(S, n) -> 0 .. n - 1]
    BY <1>4
  <2> HIDE DEF rank
  <2>3. \A i, k \in Least(S, n) : rank[i] = rank[k] => i = k
    <3> SUFFICES ASSUME NEW i \in Least(S, n), NEW k \in Least(S, n), i # k
                 PROVE  rank[i] # rank[k]
      OBVIOUS
    <3>1. i \in Int /\ k \in Int
      BY <1>1, <1>3
    <3>2. i < k \/ k < i
      BY <3>1
    <3>3. QED
      BY <2>1, <3>2
  <2>4. QED
    BY <2>2, <2>3 DEF Injection, IsInjective
<1>6. IsFiniteSet(0 .. n - 1) /\ Cardinality(0 .. n - 1) = n
  BY FS_Interval
<1>7. QED
  BY <1>5, <1>6, FS_Injection

\* A claim returns no more rows than its limit.
LEMMA ClaimBound ==
    ASSUME TypeOK, NEW S \in SUBSET Ids, NEW n \in Nat
    PROVE  Cardinality(ClaimedRows(S, n)) <= n
  BY LeastBound DEF ClaimedRows, DueIn

-----------------------------------------------------------------------------
(* The WATCH budget.                                                       *)

\* What the scan holds in its hands fits into the budget as well: a drain of
\* signals counts no WATCH, a drain of WATCH rows took no more than was left,
\* a new WATCH was stored only while something was left.
BudgetKept ==
    /\ watchSent <= WatchMax
    /\ draining = "SIGNAL" => \A i \in batch[Scan] : outbox[i].type = "SIGNAL"
    /\ draining = "WATCH" => watchSent + Cardinality(batch[Scan]) <= WatchMax
    /\ draining = "NEW" => \A i \in batch[Scan] :
          batch[Scan] = {i} /\ (outbox[i].type = "WATCH" => watchSent < WatchMax)

\* A row in a coroutine's hands keeps its type.
LEMMA HeldTypeStays ==
    ASSUME IInv, [Next]_vars
    PROVE  \A w \in Workers : \A i \in batch[w] :
              i \in Ids /\ outbox[i].status # "ABSENT" /\ outbox'[i].type = outbox[i].type
  BY StepKeepsRows DEF IInv, TypeOK, FreshWatch, Kept

\* A step that confirms nothing and at most takes rows from the scan's hands.
LEMMA BudgetShrinks ==
    ASSUME IInv, BudgetKept, [Next]_vars,
           batch'[Scan] \in SUBSET batch[Scan],
           draining' = draining \/ batch'[Scan] = {},
           watchSent' \in Nat, watchSent' <= watchSent
    PROVE  BudgetKept'
<1>1. /\ batch[Scan] \in SUBSET Ids /\ watchSent \in Nat /\ WatchMax \in Nat
  BY OutboxAssumption DEF IInv, TypeOK, Workers
<1>2. /\ IsFiniteSet(batch[Scan]) /\ Cardinality(batch[Scan]) \in Nat
      /\ Cardinality(batch'[Scan]) \in Nat
      /\ Cardinality(batch'[Scan]) <= Cardinality(batch[Scan])
      /\ batch'[Scan] = {} => Cardinality(batch'[Scan]) = 0
  <2>1. batch'[Scan] \in SUBSET Ids
    BY <1>1
  <2>2. QED
    BY <1>1, <2>1, IdsFinite, FS_Subset, FS_EmptySet
<1>3. \A i \in batch[Scan] : outbox'[i].type = outbox[i].type
  BY HeldTypeStays DEF Workers
<1>4. CASE batch'[Scan] = {}
  BY <1>1, <1>2, <1>4 DEF BudgetKept
<1>5. CASE draining' = draining
  <2>1. draining' = "WATCH" => watchSent' + Cardinality(batch'[Scan]) <= WatchMax
    BY <1>1, <1>2, <1>5 DEF BudgetKept
  <2>2. draining' = "NEW" => \A i \in batch'[Scan] :
            batch'[Scan] = {i} /\ (outbox'[i].type = "WATCH" => watchSent' < WatchMax)
    BY <1>1, <1>3, <1>5 DEF BudgetKept
  <2>3. QED
    BY <1>1, <1>3, <1>5, <2>1, <2>2 DEF BudgetKept
<1>6. QED
  BY <1>4, <1>5

\* The drain of signals that a start and a cycle begin with.
LEMMA SignalsBudget ==
    ASSUME IInv, BudgetKept, Boot \/ StartCycle
    PROVE  BudgetKept'
<1> DEFINE rows == ClaimedRows(OfType("SIGNAL"), DrainLimit)
<1>1. [Next]_vars
  BY DEF Next
<1>2. /\ draining' = "SIGNAL" /\ batch'[Scan] = rows
      /\ watchSent' = watchSent \/ watchSent' = 0
  BY DEF Boot, StartCycle, DrainSignals, Proceed, IInv, TypeOK, Workers
<1>3. /\ rows \in SUBSET Ids
      /\ \A i \in rows : outbox[i].type = "SIGNAL" /\ outbox[i].status # "ABSENT"
  <2>1. Claim(OfType("SIGNAL"), DrainLimit) /\ OfType("SIGNAL") \in SUBSET Ids
    BY DEF Boot, StartCycle, DrainSignals, OfType
  <2>2. QED
    BY <2>1, ClaimKeeps DEF IInv, OfType
<1>4. \A i \in rows : outbox'[i].type = "SIGNAL"
  BY <1>1, <1>3, StepKeepsRows DEF Kept
<1>5. watchSent' <= WatchMax
  BY <1>2, OutboxAssumption DEF BudgetKept
<1>6. QED
  BY <1>2, <1>4, <1>5 DEF BudgetKept

\* The drain of WATCH rows takes no more than the budget has left.
LEMMA WatchesBudget ==
    ASSUME IInv, BudgetKept, DrainWatch
    PROVE  BudgetKept'
<1> DEFINE rows == ClaimedRows(OfType("WATCH"), WatchClaimLimit)
<1>1. draining' = "WATCH" /\ batch'[Scan] = rows /\ watchSent' = watchSent
  BY DEF DrainWatch, Proceed, IInv, TypeOK, Workers
<1>2. /\ WatchClaimLimit \in Nat /\ watchSent \in Nat
      /\ watchSent + WatchClaimLimit <= WatchMax
  BY OutboxAssumption DEF WatchClaimLimit, WatchBudget, DrainWatch, IInv, TypeOK
<1>3. Cardinality(rows) <= WatchClaimLimit /\ Cardinality(rows) \in Nat
  <2>1. OfType("WATCH") \in SUBSET Ids /\ rows \in SUBSET Ids
    BY DEF OfType, ClaimedRows, Least, DueIn
  <2>2. QED
    BY <1>2, <2>1, ClaimBound, IdsFinite DEF IInv
<1> HIDE DEF rows
<1>4. watchSent' + Cardinality(batch'[Scan]) <= WatchMax
  BY <1>1, <1>2, <1>3, OutboxAssumption
<1>5. QED
  BY <1>1, <1>4 DEF BudgetKept

\* A new row: the scan stores a WATCH only while the budget is not used up,
\* and the fast monitor stores none.
LEMMA SaveBudget ==
    ASSUME IInv, BudgetKept,
           NEW w \in Workers, NEW type \in {"SIGNAL", "WATCH"}, Save(w, type)
    PROVE  BudgetKept'
<1>1. [Next]_vars
  BY DEF Next
<1>2. PICK i \in Ids : /\ outbox' = [outbox EXCEPT ![i] = Stored(type)]
                       /\ batch' = [batch EXCEPT ![w] = {i}]
  BY DEF Save
<1>3. watchSent' = watchSent /\ watchSent \in Nat
  BY DEF Save, IInv, TypeOK
<1>4. CASE w = Scan
  <2>1. /\ draining' = "NEW" /\ batch'[Scan] = {i} /\ outbox'[i].type = type
        /\ type = "WATCH" => watchSent < WatchMax
    BY <1>2, <1>4 DEF Save, IInv, TypeOK, Workers, Stored
  <2>2. QED
    BY <1>3, <2>1 DEF BudgetKept
<1>5. CASE w = Fast
  <2>1. draining' = draining /\ batch'[Scan] = batch[Scan]
    BY <1>2, <1>5 DEF Save, IInv, TypeOK, Workers, Scan, Fast
  <2>2. QED
    BY <1>1, <1>3, <2>1, BudgetShrinks
<1>6. QED
  BY <1>4, <1>5 DEF Workers

\* A confirmed WATCH counts once and leaves the scan's hands.
LEMMA SendBudget ==
    ASSUME IInv, BudgetKept, NEW w \in Workers, NEW i \in Ids,
           SendSucceeds(w, i) \/ SendFails(w, i)
    PROVE  BudgetKept'
<1>1. [Next]_vars
  BY DEF Next
<1>2. /\ i \in batch[w] /\ draining' = draining
      /\ \A v \in Workers : batch'[v] = IF v = w THEN batch[v] \ {i} ELSE batch[v]
      /\ watchSent \in Nat /\ WatchMax \in Nat
  BY OutboxAssumption DEF SendSucceeds, SendFails, IsNext, Proceed, IInv, TypeOK
<1>3. watchSent' = watchSent \/ (outbox[i].type = "WATCH" /\ watchSent' = watchSent + 1)
  BY DEF SendSucceeds, SendFails
<1>4. CASE watchSent' = watchSent
  <2>1. batch'[Scan] \in SUBSET batch[Scan]
    BY <1>2 DEF Workers
  <2>2. QED
    BY <1>1, <1>2, <1>4, <2>1, BudgetShrinks
<1>5. CASE outbox[i].type = "WATCH" /\ watchSent' = watchSent + 1
  <2>1. w = Scan /\ batch'[Scan] = batch[Scan] \ {i}
    BY <1>2, <1>5 DEF IInv, FreshWatch, Workers
  <2>2. CASE draining = "WATCH"
    <3>1. batch[Scan] \in SUBSET Ids
      BY DEF IInv, TypeOK, Workers
    <3>2. IsFiniteSet(batch[Scan]) /\ Cardinality(batch[Scan]) \in Nat
      BY <3>1, IdsFinite
    <3>3. Cardinality(batch'[Scan]) = Cardinality(batch[Scan]) - 1
      BY <1>2, <2>1, <3>2, FS_RemoveElement
    <3>4. Cardinality(batch'[Scan]) \in Nat
      BY <2>1, <3>1, IdsFinite
    <3>5. watchSent' + Cardinality(batch'[Scan]) <= WatchMax /\ watchSent' <= WatchMax
      BY <1>2, <1>5, <2>2, <3>2, <3>3, <3>4 DEF BudgetKept
    <3>6. QED
      BY <1>2, <2>2, <3>5 DEF BudgetKept
  <2>3. CASE draining = "NEW"
    <3>1. batch[Scan] = {i} /\ watchSent < WatchMax
      BY <1>2, <1>5, <2>1, <2>3 DEF BudgetKept
    <3>2. batch'[Scan] = {} /\ watchSent' <= WatchMax
      BY <1>2, <1>5, <2>1, <3>1
    <3>3. QED
      BY <1>2, <2>3, <3>2 DEF BudgetKept
  <2>4. draining \in {"WATCH", "NEW"}
    BY <1>2, <1>5, <2>1 DEF BudgetKept, IInv, TypeOK
  <2>5. QED
    BY <2>2, <2>3, <2>4
<1>6. QED
  BY <1>3, <1>4, <1>5

\* Every step keeps the budget.
LEMMA NextBudget ==
    ASSUME IInv, BudgetKept, [Next]_vars
    PROVE  BudgetKept'
<1> USE DEF Workers
<1>1. CASE Boot \/ StartCycle
  BY <1>1, SignalsBudget
<1>2. CASE DrainWatch
  BY <1>2, WatchesBudget
<1>3. ASSUME NEW w \in Workers, NEW type \in {"SIGNAL", "WATCH"}, Save(w, type)
      PROVE  BudgetKept'
  BY <1>3, SaveBudget
<1>4. ASSUME NEW w \in Workers, NEW i \in Ids, SendSucceeds(w, i) \/ SendFails(w, i)
      PROVE  BudgetKept'
  BY <1>4, SendBudget
<1>5. ASSUME NEW w \in Workers, ClaimNew(w)
      PROVE  BudgetKept'
  <2>1. ClaimedRows(batch[w], 1) \subseteq batch[w]
    BY DEF ClaimedRows, Least, DueIn
  <2>2. /\ batch'[Scan] \in SUBSET batch[Scan] /\ draining' = draining
        /\ watchSent' = watchSent /\ watchSent \in Nat
    BY <1>5, <2>1 DEF ClaimNew, Proceed, IInv, TypeOK, Scan, Fast
  <2>3. QED
    BY <2>2, BudgetShrinks
<1>6. ASSUME NEW w \in Workers, DbFails(w)
      PROVE  BudgetKept'
  <2>1. /\ batch'[Scan] \in SUBSET batch[Scan] /\ draining' = draining
        /\ watchSent' = watchSent /\ watchSent \in Nat
    BY <1>6 DEF DbFails, Proceed, IInv, TypeOK, Scan, Fast
  <2>2. QED
    BY <2>1, BudgetShrinks
<1>7. CASE SkipCycle \/ Crash
  <2>1. /\ (batch'[Scan] = batch[Scan] /\ draining' = draining) \/ batch'[Scan] = {}
        /\ watchSent' = 0 /\ watchSent \in Nat
    BY <1>7 DEF SkipCycle, Crash, IInv, TypeOK
  <2>2. QED
    BY <2>1, BudgetShrinks
<1>8. CASE UNCHANGED <<batch, draining, watchSent>>
  <2>1. watchSent \in Nat
    BY DEF IInv, TypeOK
  <2>2. QED
    BY <1>8, <2>1, BudgetShrinks
<1>9. QED
  BY <1>1, <1>2, <1>3, <1>4, <1>5, <1>6, <1>7, <1>8
  DEF Next, vars, BootDegraded, DrainNoWatch, TelegramAccepts, Tick

\* One cycle confirms at most watch_max_per_cycle WATCH messages, for any
\* budget, any limit of a drain and any number of rows: the drained backlog
\* and the new candidates share one budget.
THEOREM WatchesBudgeted == Spec => []WatchWithinBudget
<1>1. Init => BudgetKept
  BY OutboxAssumption DEF Init, BudgetKept, Workers
<1>2. IInv /\ BudgetKept /\ [Next]_vars => BudgetKept'
  BY NextBudget
<1>3. BudgetKept => WatchWithinBudget
  BY DEF BudgetKept, WatchWithinBudget
<1>4. QED
  BY <1>1, <1>2, <1>3, SpecIInv, PTL DEF Spec

-----------------------------------------------------------------------------
(* Leases that outlast a batch.                                            *)

\* The largest batch: what one drain claims, or the one row just stored.
BatchLimit == IF DrainLimit > 1 THEN DrainLimit ELSE 1

\* The condition on the constants: a lease is longer than the sends of a whole
\* batch one after the other may take.  With a lease just as long the last
\* send may end when its lease has.
LeaseOutlastsBatch == Lease > BatchLimit * SendLimit

\* Every row being sent, or waiting behind one that is, is in flight, and its
\* lease lasts for its own send after all those before it.
HeldRowsAreLeased ==
    \A w \in Workers : pc[w] = "sending" =>
        \A i \in batch[w] :
            /\ outbox[i].status = "IN_FLIGHT"
            /\ outbox[i].lease > (Cardinality(batch[w]) - 1) * SendLimit + left[w]

\* The rest of what a claim relies on: a row just stored is pending, no other
\* place has a batch, and the monitor runs only while the scan does.
HandsApart ==
    /\ batch[Scan] \cap batch[Fast] = {}
    /\ \A w \in Workers : pc[w] = "saved" => \A i \in batch[w] : outbox[i].status = "PENDING"
    /\ \A w \in Workers : pc[w] \notin {"saved", "sending"} => batch[w] = {}
    /\ pc[Scan] = "off" => pc[Fast] = "off"

Leased == HeldRowsAreLeased /\ HandsApart

\* A step of w that takes no other coroutine to or from a batch, and none down.
OthersStay(w) ==
    \A v \in Workers \ {w} :
        \/ pc'[v] = pc[v]
        \/ pc[v] \notin {"saved", "sending"} /\ pc'[v] \notin {"saved", "sending", "off"}

\* The arithmetic of a batch of n rows.
LEMMA BatchTime ==
    ASSUME NEW n \in Nat, NEW m \in Nat, n <= m
    PROVE  /\ (n - 1) * SendLimit + SendLimit = n * SendLimit
           /\ n * SendLimit <= m * SendLimit
           /\ n > 0 => (n - 1) * SendLimit \in Nat
           /\ SendLimit \in Nat /\ n * SendLimit \in Nat /\ m * SendLimit \in Nat
<1>1. SendLimit \in Nat
  BY OutboxAssumption
<1>2. (n - 1) * SendLimit + SendLimit = n * SendLimit
  BY <1>1
<1>3. PICK k \in Nat : m = n + k
  BY m - n \in Nat
<1>4. m * SendLimit = n * SendLimit + k * SendLimit /\ k * SendLimit \in Nat
  BY <1>1, <1>3
<1>5. n * SendLimit \in Nat /\ m * SendLimit \in Nat
  BY <1>1
<1>6. n > 0 => (n - 1) * SendLimit \in Nat
  <2>1. n > 0 => n - 1 \in Nat
    OBVIOUS
  <2>2. QED
    BY <1>1, <2>1
<1>7. QED
  BY <1>1, <1>2, <1>4, <1>5, <1>6

\* A claim leaves a row alone that is in flight under a live lease.
LEMMA ClaimSpares ==
    ASSUME TypeOK, NEW S \in SUBSET Ids, NEW n, Claim(S, n), NEW i \in Ids,
           outbox[i].status = "IN_FLIGHT", outbox[i].lease > 0
    PROVE  i \notin ClaimedRows(S, n) /\ outbox'[i] = outbox[i]
<1>1. Expired(outbox[i]) = outbox[i] /\ ~ Due(outbox[i])
  BY DEF Expired, Due, TypeOK, Row
<1>2. i \notin ClaimedRows(S, n)
  BY <1>1 DEF ClaimedRows, Least, DueIn
<1>3. QED
  BY <1>1, <1>2 DEF Claim

\* A row the claim returns is in flight under a whole lease.
LEMMA ClaimLeases ==
    ASSUME NEW S \in SUBSET Ids, NEW n, Claim(S, n), NEW i \in ClaimedRows(S, n)
    PROVE  i \in S /\ outbox'[i].status = "IN_FLIGHT" /\ outbox'[i].lease = Lease
<1>1. i \in S /\ i \in Ids
  BY DEF ClaimedRows, Least, DueIn
<1>2. outbox'[i] = Claimed(Expired(outbox[i]))
  BY <1>1 DEF Claim
<1>3. QED
  BY <1>1, <1>2 DEF Claimed

\* What is true of a row in a coroutine's hands that is being sent.
LEMMA LeaseLives ==
    ASSUME IInv, Leased, NEW w \in Workers, pc[w] = "sending", NEW i \in batch[w]
    PROVE  /\ i \in Ids /\ outbox[i].status = "IN_FLIGHT" /\ outbox[i].lease > 0
           /\ outbox[i].lease \in Nat
<1>1. i \in Ids /\ batch[w] \in SUBSET Ids /\ left[w] \in Nat
  BY OutboxAssumption DEF IInv, TypeOK
<1>2. Cardinality(batch[w]) \in Nat /\ Cardinality(batch[w]) > 0
  BY <1>1, IdsFinite, FS_EmptySet
<1>3. (Cardinality(batch[w]) - 1) * SendLimit \in Nat
  BY <1>2, BatchTime
<1>4. outbox[i].lease \in Nat
  BY <1>1, OutboxAssumption DEF IInv, TypeOK, Row
<1>5. QED
  BY <1>1, <1>3, <1>4 DEF Leased, HeldRowsAreLeased

\* A coroutine goes on with other rows, or none: the leases hold when those of
\* the rows it goes on with last for all of them, and nothing of the other's
\* batch is touched.
LEMMA HandsChange ==
    ASSUME IInv, Leased, NEW w \in Workers, NEW rows \in SUBSET Ids,
           batch' = [batch EXCEPT ![w] = rows],
           left' = [left EXCEPT ![w] = IF rows = {} THEN 0 ELSE SendLimit],
           pc'[w] \notin {"off", "saved"}, pc'[w] = "sending" <=> rows # {},
           w = Scan \/ pc[w] # "off",
           OthersStay(w),
           \A v \in Workers \ {w} : batch[v] \cap rows = {},
           \A v \in Workers \ {w} : pc[v] \in {"saved", "sending"} =>
              \A i \in batch[v] : outbox'[i] = outbox[i],
           \A i \in rows : /\ outbox'[i].status = "IN_FLIGHT"
                           /\ outbox'[i].lease > Cardinality(rows) * SendLimit
    PROVE  Leased'
<1>1. \A v \in Workers : /\ batch'[v] = IF v = w THEN rows ELSE batch[v]
                         /\ v # w => left'[v] = left[v]
  BY DEF IInv, TypeOK
<1>2. rows # {} => left'[w] = SendLimit
  BY DEF IInv, TypeOK
<1>3. ASSUME NEW v \in Workers, pc'[v] = "sending", NEW i \in batch'[v]
      PROVE  /\ outbox'[i].status = "IN_FLIGHT"
             /\ outbox'[i].lease > (Cardinality(batch'[v]) - 1) * SendLimit + left'[v]
  <2>1. CASE v = w
    <3>1. i \in rows /\ batch'[v] = rows /\ left'[v] = SendLimit
      BY <1>1, <1>2, <1>3, <2>1
    <3>2. Cardinality(rows) \in Nat
      BY IdsFinite
    <3>3. (Cardinality(rows) - 1) * SendLimit + SendLimit = Cardinality(rows) * SendLimit
      BY <3>2, BatchTime
    <3>4. QED
      BY <3>1, <3>3
  <2>2. CASE v # w
    <3>1. pc[v] = "sending" /\ batch'[v] = batch[v] /\ left'[v] = left[v] /\ outbox'[i] = outbox[i]
      BY <1>1, <1>3, <2>2 DEF OthersStay
    <3>2. QED
      BY <1>3, <3>1 DEF Leased, HeldRowsAreLeased
  <2>3. QED
    BY <2>1, <2>2
<1>4. batch'[Scan] \cap batch'[Fast] = {}
  <2>1. batch[Scan] \cap batch[Fast] = {}
    BY DEF Leased, HandsApart
  <2>2. CASE w = Scan
    <3>1. batch'[Scan] = rows /\ batch'[Fast] = batch[Fast] /\ batch[Fast] \cap rows = {}
      BY <1>1, <2>2 DEF Workers, Scan, Fast
    <3>2. QED
      BY <3>1
  <2>3. CASE w = Fast
    <3>1. batch'[Fast] = rows /\ batch'[Scan] = batch[Scan] /\ batch[Scan] \cap rows = {}
      BY <1>1, <2>3 DEF Workers, Scan, Fast
    <3>2. QED
      BY <3>1
  <2>4. QED
    BY <2>2, <2>3 DEF Workers
<1>5. \A v \in Workers : pc'[v] = "saved" => \A i \in batch'[v] : outbox'[i].status = "PENDING"
  <2> SUFFICES ASSUME NEW v \in Workers, pc'[v] = "saved", NEW i \in batch'[v]
               PROVE  outbox'[i].status = "PENDING"
    OBVIOUS
  <2>1. v # w /\ pc[v] = "saved" /\ i \in batch[v]
    BY <1>1 DEF OthersStay
  <2>2. outbox'[i] = outbox[i]
    BY <2>1
  <2>3. QED
    BY <2>1, <2>2 DEF Leased, HandsApart
<1>6. \A v \in Workers : pc'[v] \notin {"saved", "sending"} => batch'[v] = {}
  <2> SUFFICES ASSUME NEW v \in Workers, pc'[v] \notin {"saved", "sending"}
               PROVE  batch'[v] = {}
    OBVIOUS
  <2>1. CASE v = w
    BY <1>1, <2>1
  <2>2. CASE v # w
    <3>1. pc[v] \notin {"saved", "sending"} /\ batch'[v] = batch[v]
      BY <1>1, <2>2 DEF OthersStay
    <3>2. QED
      BY <3>1 DEF Leased, HandsApart
  <2>3. QED
    BY <2>1, <2>2
<1>7. pc'[Scan] = "off" => pc'[Fast] = "off"
  <2>1. CASE w = Scan
    BY <2>1
  <2>2. CASE w = Fast
    <3>1. pc'[Scan] = "off" => pc[Scan] = "off"
      BY <2>2 DEF OthersStay, Workers, Scan, Fast
    <3>2. pc[Scan] # "off"
      BY <2>2 DEF Leased, HandsApart, Scan, Fast
    <3>3. QED
      BY <3>1, <3>2
  <2>3. QED
    BY <2>1, <2>2 DEF Workers
<1>8. QED
  BY <1>3, <1>4, <1>5, <1>6, <1>7 DEF Leased, HeldRowsAreLeased, HandsApart

\* A claim leases what it returns for longer than the batch takes, and takes
\* no row that is in the other coroutine's hands.
LEMMA ClaimHolds ==
    ASSUME LeaseOutlastsBatch, IInv, Leased,
           NEW w \in Workers, NEW S \in SUBSET Ids, NEW n \in Nat, n <= BatchLimit,
           Claim(S, n),
           S = batch[w] \/ \A v \in Workers \ {w} : pc[v] # "saved",
           batch' = [batch EXCEPT ![w] = ClaimedRows(S, n)],
           left' = [left EXCEPT ![w] = IF ClaimedRows(S, n) = {} THEN 0 ELSE SendLimit],
           pc'[w] \notin {"off", "saved"},
           pc'[w] = "sending" <=> ClaimedRows(S, n) # {},
           w = Scan \/ pc[w] # "off", OthersStay(w)
    PROVE  Leased'
<1> DEFINE rows == ClaimedRows(S, n)
<1>1. rows \in SUBSET Ids /\ rows \subseteq S
  BY DEF ClaimedRows, Least, DueIn
<1>2. ASSUME NEW i \in rows
      PROVE  /\ outbox'[i].status = "IN_FLIGHT"
             /\ outbox'[i].lease > Cardinality(rows) * SendLimit
  <2>1. outbox'[i].status = "IN_FLIGHT" /\ outbox'[i].lease = Lease
    BY ClaimLeases
  <2>2. Cardinality(rows) \in Nat /\ Cardinality(rows) <= n
    BY <1>1, ClaimBound, IdsFinite DEF IInv
  <2>3. BatchLimit \in Nat /\ Cardinality(rows) <= BatchLimit
    BY <2>2, OutboxAssumption DEF BatchLimit
  <2>4. /\ Cardinality(rows) * SendLimit <= BatchLimit * SendLimit
        /\ Cardinality(rows) * SendLimit \in Nat /\ BatchLimit * SendLimit \in Nat
    BY <2>2, <2>3, BatchTime
  <2>5. QED
    BY <2>1, <2>4, OutboxAssumption DEF LeaseOutlastsBatch
<1>3. ASSUME NEW v \in Workers \ {w}, pc[v] \in {"saved", "sending"}, NEW i \in batch[v]
      PROVE  i \notin rows /\ outbox'[i] = outbox[i]
  <2>1. CASE pc[v] = "sending"
    BY <1>3, <2>1, LeaseLives, ClaimSpares DEF IInv
  <2>2. CASE pc[v] = "saved"
    <3>1. i \notin batch[w]
      BY <1>3 DEF Leased, HandsApart, Workers
    <3>2. i \in Ids /\ outbox[i].status = "PENDING"
      BY <1>3, <2>2 DEF Leased, HandsApart, IInv, TypeOK
    <3>3. i \notin rows
      BY <1>1, <2>2, <3>1
    <3>4. outbox'[i] = Expired(outbox[i])
      BY <3>2, <3>3 DEF Claim
    <3>5. QED
      BY <3>2, <3>3, <3>4 DEF Expired
  <2>3. QED
    BY <1>3, <2>1, <2>2
<1>4. \A v \in Workers \ {w} : batch[v] \cap rows = {}
  <2>1. \A v \in Workers : pc[v] \notin {"saved", "sending"} => batch[v] = {}
    BY DEF Leased, HandsApart
  <2>2. QED
    BY <1>3, <2>1
<1>5. /\ \A v \in Workers \ {w} : pc[v] \in {"saved", "sending"} =>
             \A i \in batch[v] : outbox'[i] = outbox[i]
      /\ \A i \in rows : /\ outbox'[i].status = "IN_FLIGHT"
                         /\ outbox'[i].lease > Cardinality(rows) * SendLimit
  BY <1>2, <1>3
<1>6. /\ batch' = [batch EXCEPT ![w] = rows]
      /\ left' = [left EXCEPT ![w] = IF rows = {} THEN 0 ELSE SendLimit]
      /\ pc'[w] = "sending" <=> rows # {}
  OBVIOUS
<1> HIDE DEF rows
<1>7. QED
  BY <1>1, <1>4, <1>5, <1>6, HandsChange

\* Where the end of a batch leaves the coroutines: nobody starts to send or to
\* claim, the monitor at most starts to run.
LEMMA PlacesAfter ==
    ASSUME TypeOK, NEW w \in Workers, pc[w] = "sending" \/ w = Scan
    PROVE  /\ AfterBatch(w)[w] \notin {"off", "saved", "sending"}
           /\ \A v \in Workers \ {w} : AfterBatch(w)[v] = pc[v] \/
                                       (pc[v] = "boot" /\ AfterBatch(w)[v] = "idle")
           /\ Drained[Scan] = "idle"
           /\ Drained[Fast] = pc[Fast] \/ (pc[Fast] = "boot" /\ Drained[Fast] = "idle")
  BY DEF TypeOK, Workers, Scan, Fast, AfterBatch, Drained, At

\* The end of a send: the rows behind it have waited no longer than its limit.
LEMMA SendLeased ==
    ASSUME IInv, Leased, NEW w \in Workers, NEW i \in Ids,
           SendSucceeds(w, i) \/ SendFails(w, i)
    PROVE  Leased'
<1> DEFINE rows == batch[w] \ {i}
<1>1. /\ i \in batch[w] /\ pc[w] = "sending" /\ rows \in SUBSET Ids
      /\ batch[w] \in SUBSET Ids
      /\ Proceed(w, rows, AfterBatch(w))
  BY DEF SendSucceeds, SendFails, IsNext, IInv, TypeOK
<1>2. \A j \in Ids \ {i} : outbox'[j] = outbox[j]
  BY DEF SendSucceeds, SendFails, IInv, TypeOK
<1>3. /\ batch' = [batch EXCEPT ![w] = rows]
      /\ left' = [left EXCEPT ![w] = IF rows = {} THEN 0 ELSE SendLimit]
      /\ pc' = IF rows = {} THEN AfterBatch(w) ELSE [pc EXCEPT ![w] = "sending"]
  BY <1>1 DEF Proceed
<1>4. ASSUME NEW j \in rows
      PROVE  /\ outbox'[j].status = "IN_FLIGHT"
             /\ outbox'[j].lease > Cardinality(rows) * SendLimit
  <2>1. /\ outbox[j].status = "IN_FLIGHT" /\ outbox[j].lease \in Nat
        /\ outbox[j].lease > (Cardinality(batch[w]) - 1) * SendLimit + left[w]
    BY <1>1, LeaseLives DEF Leased, HeldRowsAreLeased
  <2>2. Cardinality(batch[w]) \in Nat /\ Cardinality(rows) = Cardinality(batch[w]) - 1
    BY <1>1, IdsFinite, FS_RemoveElement
  <2>3. Cardinality(rows) * SendLimit \in Nat /\ left[w] \in Nat
    <3>1. Cardinality(rows) \in Nat
      BY <1>1, IdsFinite
    <3>2. QED
      BY <3>1, BatchTime, OutboxAssumption DEF IInv, TypeOK
  <2>4. outbox'[j] = outbox[j]
    BY <1>1, <1>2
  <2>5. QED
    BY <2>1, <2>2, <2>3, <2>4
<1>5. \A v \in Workers \ {w} : \A j \in batch[v] : j # i /\ outbox'[j] = outbox[j]
  <2>1. \A v \in Workers \ {w} : batch[v] \cap batch[w] = {} /\ batch[v] \subseteq Ids
    BY DEF Leased, HandsApart, Workers, IInv, TypeOK
  <2>2. QED
    BY <1>1, <1>2, <2>1
<1>6. \A v \in Workers \ {w} : batch[v] \cap rows = {}
  BY DEF Leased, HandsApart, Workers
<1>7. /\ pc'[w] \notin {"off", "saved"} /\ (pc'[w] = "sending" <=> rows # {})
      /\ OthersStay(w)
  <2>1. CASE rows = {}
    BY <1>1, <1>3, <2>1, PlacesAfter DEF IInv, OthersStay
  <2>2. CASE rows # {}
    <3>1. pc' = [pc EXCEPT ![w] = "sending"]
      BY <1>3, <2>2
    <3>2. QED
      BY <2>2, <3>1 DEF IInv, TypeOK, OthersStay
  <2>3. QED
    BY <2>1, <2>2
<1>8. /\ \A v \in Workers \ {w} : pc[v] \in {"saved", "sending"} =>
             \A j \in batch[v] : outbox'[j] = outbox[j]
      /\ \A j \in rows : /\ outbox'[j].status = "IN_FLIGHT"
                         /\ outbox'[j].lease > Cardinality(rows) * SendLimit
      /\ pc[w] # "off"
  BY <1>1, <1>4, <1>5
<1> HIDE DEF rows
<1>9. QED
  BY <1>1, <1>3, <1>6, <1>7, <1>8, HandsChange

\* Time takes as much from the leases as from the running send.
LEMMA TickLeased ==
    ASSUME IInv, Leased, Tick
    PROVE  Leased'
<1>1. /\ \A i \in Ids : outbox'[i] = Aged(outbox[i])
      /\ left' = [w \in Workers |-> Sooner(left[w])]
      /\ UNCHANGED <<pc, batch>>
      /\ \A w \in Workers : pc[w] = "sending" => left[w] > 0
  BY DEF Tick
<1>2. \A i \in Ids : outbox'[i].status = outbox[i].status /\ outbox'[i].lease = Sooner(outbox[i].lease)
  <2> SUFFICES ASSUME NEW i \in Ids
               PROVE  /\ outbox'[i].status = outbox[i].status
                      /\ outbox'[i].lease = Sooner(outbox[i].lease)
    OBVIOUS
  <2>1. outbox'[i] = Aged(outbox[i])
    BY <1>1
  <2>2. QED
    BY <2>1 DEF Aged, WithStatus
<1>3. ASSUME NEW w \in Workers, pc[w] = "sending", NEW i \in batch[w]
      PROVE  /\ outbox'[i].status = "IN_FLIGHT"
             /\ outbox'[i].lease > (Cardinality(batch'[w]) - 1) * SendLimit + left'[w]
  <2>1. /\ i \in Ids /\ outbox[i].status = "IN_FLIGHT"
        /\ outbox[i].lease \in Nat /\ outbox[i].lease > 0
        /\ outbox[i].lease > (Cardinality(batch[w]) - 1) * SendLimit + left[w]
    BY <1>3, LeaseLives DEF Leased, HeldRowsAreLeased
  <2>2. left[w] \in Nat /\ left[w] > 0 /\ left'[w] = left[w] - 1 /\ batch'[w] = batch[w]
    BY <1>1, <1>3, OutboxAssumption DEF IInv, TypeOK, Sooner
  <2>3. outbox'[i].lease = outbox[i].lease - 1
    BY <1>2, <2>1 DEF Sooner
  <2>4. (Cardinality(batch[w]) - 1) * SendLimit \in Int
    <3>1. batch[w] \in SUBSET Ids
      BY DEF IInv, TypeOK
    <3>2. Cardinality(batch[w]) \in Nat
      BY <3>1, IdsFinite
    <3>3. QED
      BY <3>2, OutboxAssumption
  <2>5. QED
    BY <1>2, <2>1, <2>2, <2>3, <2>4
<1>4. HeldRowsAreLeased'
  BY <1>1, <1>3 DEF HeldRowsAreLeased
<1>5. HandsApart'
  BY <1>1, <1>2 DEF Leased, HandsApart, IInv, TypeOK
<1>6. QED
  BY <1>4, <1>5 DEF Leased

\* A new row is in one pair of hands, and pending.
LEMMA SaveLeased ==
    ASSUME IInv, Leased,
           NEW w \in Workers, NEW type \in {"SIGNAL", "WATCH"}, Save(w, type)
    PROVE  Leased'
<1>1. PICK i \in Ids : /\ outbox[i].status = "ABSENT"
                       /\ outbox' = [outbox EXCEPT ![i] = Stored(type)]
                       /\ batch' = [batch EXCEPT ![w] = {i}]
  BY DEF Save
<1>2. /\ pc[w] = "idle" /\ pc' = [pc EXCEPT ![w] = "saved"] /\ left' = left
  BY DEF Save, At
<1>3. \A v \in Workers : /\ batch'[v] = IF v = w THEN {i} ELSE batch[v]
                         /\ pc'[v] = IF v = w THEN "saved" ELSE pc[v]
  BY <1>1, <1>2 DEF IInv, TypeOK
<1>4. \A v \in Workers : \A j \in batch[v] : j # i /\ outbox'[j] = outbox[j]
  BY <1>1 DEF IInv, TypeOK, FreshWatch
<1>5. outbox'[i].status = "PENDING"
  BY <1>1, StoredRow DEF IInv, TypeOK
<1>6. HeldRowsAreLeased'
  BY <1>2, <1>3, <1>4 DEF Leased, HeldRowsAreLeased
<1>7. HandsApart'
  BY <1>2, <1>3, <1>4, <1>5 DEF Leased, HandsApart, Workers, Scan, Fast
<1>8. QED
  BY <1>6, <1>7 DEF Leased

\* Every step keeps the leases, one case per action.
LEMMA NextLeased ==
    ASSUME LeaseOutlastsBatch, IInv, Leased, [Next]_vars
    PROVE  Leased'
<1>1. /\ DrainLimit \in Nat /\ DrainLimit <= BatchLimit /\ 1 <= BatchLimit
      /\ WatchClaimLimit \in Nat /\ WatchClaimLimit <= BatchLimit
  BY OutboxAssumption DEF BatchLimit, WatchClaimLimit, WatchBudget, IInv, TypeOK
<1>2. Scan \in Workers /\ \A v \in Workers \ {Scan} : v = Fast
  BY DEF Workers
<1>3. \A type : OfType(type) \in SUBSET Ids
  BY DEF OfType
<1>4. CASE Boot
  <2> DEFINE S == OfType("SIGNAL")
             rows == ClaimedRows(S, DrainLimit)
  <2>1. /\ Claim(S, DrainLimit)
        /\ batch' = [batch EXCEPT ![Scan] = rows]
        /\ left' = [left EXCEPT ![Scan] = IF rows = {} THEN 0 ELSE SendLimit]
    BY <1>4 DEF Boot, DrainSignals
  <2>2. pc[Scan] = "off" /\ pc[Fast] = "off"
    BY <1>4 DEF Boot, Leased, HandsApart
  <2>3. pc'[Scan] = (IF rows = {} THEN "drainWatch" ELSE "sending") /\ pc'[Fast] = "boot"
    BY <1>4 DEF Boot, IInv, TypeOK, Workers, Scan, Fast
  <2> HIDE DEF rows
  <2>4. /\ OthersStay(Scan) /\ \A v \in Workers \ {Scan} : pc[v] # "saved"
        /\ pc'[Scan] \notin {"off", "saved"} /\ (pc'[Scan] = "sending" <=> rows # {})
    BY <1>2, <2>2, <2>3 DEF OthersStay
  <2>5. S \in SUBSET Ids
    BY <1>3
  <2> HIDE DEF S
  <2>6. QED
    BY <1>1, <1>2, <2>1, <2>4, <2>5, ClaimHolds DEF rows
<1>5. CASE StartCycle
  <2> DEFINE S == OfType("SIGNAL")
             rows == ClaimedRows(S, DrainLimit)
  <2>1. /\ Claim(S, DrainLimit)
        /\ batch' = [batch EXCEPT ![Scan] = rows]
        /\ left' = [left EXCEPT ![Scan] = IF rows = {} THEN 0 ELSE SendLimit]
        /\ pc' = IF rows = {} THEN At(Scan, "drainWatch") ELSE [pc EXCEPT ![Scan] = "sending"]
    BY <1>5 DEF StartCycle, DrainSignals, Proceed
  <2>2. pc[Scan] = "idle" /\ pc[Fast] # "saved"
    BY <1>5 DEF StartCycle, LoopFree, Workers, Scan, Fast
  <2> HIDE DEF rows
  <2>3. /\ pc'[Scan] = IF rows = {} THEN "drainWatch" ELSE "sending"
        /\ pc'[Fast] = pc[Fast]
    BY <2>1 DEF At, IInv, TypeOK, Workers, Scan, Fast
  <2>4. /\ OthersStay(Scan) /\ \A v \in Workers \ {Scan} : pc[v] # "saved"
        /\ pc'[Scan] \notin {"off", "saved"} /\ (pc'[Scan] = "sending" <=> rows # {})
    BY <1>2, <2>2, <2>3 DEF OthersStay
  <2>5. S \in SUBSET Ids
    BY <1>3
  <2> HIDE DEF S
  <2>6. QED
    BY <1>1, <1>2, <2>1, <2>4, <2>5, ClaimHolds DEF rows
<1>6. CASE DrainWatch
  <2> DEFINE S == OfType("WATCH")
             rows == ClaimedRows(S, WatchClaimLimit)
  <2>1. /\ Claim(S, WatchClaimLimit)
        /\ batch' = [batch EXCEPT ![Scan] = rows]
        /\ left' = [left EXCEPT ![Scan] = IF rows = {} THEN 0 ELSE SendLimit]
        /\ pc' = IF rows = {} THEN Drained ELSE [pc EXCEPT ![Scan] = "sending"]
    BY <1>6 DEF DrainWatch, Proceed
  <2>2. pc[Scan] = "drainWatch" /\ pc[Fast] # "saved"
    BY <1>6 DEF DrainWatch, LoopFree, Workers, Scan, Fast
  <2> HIDE DEF rows
  <2>3. /\ pc'[Scan] = IF rows = {} THEN "idle" ELSE "sending"
        /\ pc'[Fast] = pc[Fast] \/ (pc[Fast] = "boot" /\ pc'[Fast] = "idle")
    <3>1. CASE rows = {}
      BY <1>2, <2>1, <3>1, PlacesAfter DEF IInv
    <3>2. CASE rows # {}
      BY <2>1, <3>2 DEF IInv, TypeOK, Workers, Scan, Fast
    <3>3. QED
      BY <3>1, <3>2
  <2>4. /\ OthersStay(Scan) /\ \A v \in Workers \ {Scan} : pc[v] # "saved"
        /\ pc'[Scan] \notin {"off", "saved"} /\ (pc'[Scan] = "sending" <=> rows # {})
    BY <1>2, <2>2, <2>3 DEF OthersStay
  <2>5. S \in SUBSET Ids
    BY <1>3
  <2> HIDE DEF S
  <2>6. QED
    BY <1>1, <1>2, <2>1, <2>4, <2>5, ClaimHolds DEF rows
<1>7. ASSUME NEW w \in Workers, ClaimNew(w)
      PROVE  Leased'
  <2> DEFINE rows == ClaimedRows(batch[w], 1)
  <2>1. /\ pc[w] = "saved" /\ batch[w] \in SUBSET Ids
        /\ Claim(batch[w], 1)
        /\ batch' = [batch EXCEPT ![w] = rows]
        /\ left' = [left EXCEPT ![w] = IF rows = {} THEN 0 ELSE SendLimit]
        /\ pc' = IF rows = {} THEN At(w, "idle") ELSE [pc EXCEPT ![w] = "sending"]
    BY <1>7 DEF ClaimNew, Proceed, IInv, TypeOK
  <2> HIDE DEF rows
  <2>2. /\ pc'[w] = IF rows = {} THEN "idle" ELSE "sending"
        /\ \A v \in Workers \ {w} : pc'[v] = pc[v]
    BY <2>1 DEF At, IInv, TypeOK
  <2>3. /\ OthersStay(w) /\ pc[w] # "off"
        /\ pc'[w] \notin {"off", "saved"} /\ (pc'[w] = "sending" <=> rows # {})
    BY <2>1, <2>2 DEF OthersStay
  <2>4. QED
    BY <1>1, <2>1, <2>3, ClaimHolds DEF rows
<1>8. ASSUME NEW w \in Workers, DbFails(w)
      PROVE  Leased'
  <2>1. /\ batch' = [batch EXCEPT ![w] = {}] /\ left' = [left EXCEPT ![w] = 0]
        /\ outbox' = outbox /\ pc[w] # "off"
        /\ pc' = [pc EXCEPT ![w] = "idle"]
    BY <1>8 DEF DbFails, Proceed, At
  <2>2. pc'[w] = "idle" /\ OthersStay(w)
    BY <2>1 DEF IInv, TypeOK, OthersStay
  <2>3. PICK rows \in SUBSET Ids : rows = {}
    OBVIOUS
  <2>4. /\ batch' = [batch EXCEPT ![w] = rows]
        /\ left' = [left EXCEPT ![w] = IF rows = {} THEN 0 ELSE SendLimit]
        /\ pc'[w] \notin {"off", "saved"} /\ (pc'[w] = "sending" <=> rows # {})
    BY <2>1, <2>2, <2>3
  <2>5. /\ \A v \in Workers \ {w} : batch[v] \cap rows = {}
        /\ \A v \in Workers \ {w} : pc[v] \in {"saved", "sending"} =>
              \A i \in batch[v] : outbox'[i] = outbox[i]
        /\ \A i \in rows : /\ outbox'[i].status = "IN_FLIGHT"
                           /\ outbox'[i].lease > Cardinality(rows) * SendLimit
    BY <2>1, <2>3
  <2>6. QED
    BY <2>1, <2>2, <2>4, <2>5, HandsChange
<1>9. ASSUME NEW w \in Workers, NEW type \in {"SIGNAL", "WATCH"}, Save(w, type)
      PROVE  Leased'
  BY <1>9, SaveLeased
<1>10. ASSUME NEW w \in Workers, NEW i \in Ids, SendSucceeds(w, i) \/ SendFails(w, i)
       PROVE  Leased'
  BY <1>10, SendLeased
<1>11. CASE Crash
  <2>1. /\ \A w \in Workers : pc'[w] = "off" /\ batch'[w] = {}
    BY <1>11 DEF Crash
  <2>2. QED
    BY <2>1 DEF Leased, HeldRowsAreLeased, HandsApart, Workers
<1>12. CASE Tick
  BY <1>12, TickLeased
<1>13. CASE BootDegraded \/ DrainNoWatch
  <2>1. /\ UNCHANGED <<outbox, batch, left>>
        /\ pc[Scan] \notin {"saved", "sending"} /\ pc'[Scan] = "idle"
        /\ pc'[Fast] = pc[Fast] \/ (pc[Fast] = "boot" /\ pc'[Fast] = "idle")
    BY <1>2, <1>13, PlacesAfter DEF BootDegraded, DrainNoWatch, At, IInv, TypeOK, Workers, Scan, Fast
  <2>2. QED
    BY <2>1 DEF Leased, HeldRowsAreLeased, HandsApart, Workers
<1>14. CASE UNCHANGED <<outbox, pc, batch, left>>
  BY <1>14 DEF Leased, HeldRowsAreLeased, HandsApart
<1>15. QED
  BY <1>4, <1>5, <1>6, <1>7, <1>8, <1>9, <1>10, <1>11, <1>12, <1>13, <1>14
  DEF Next, vars, SkipCycle, TelegramAccepts

\* While every row in a coroutine's hands is in flight under its own lease, no
\* step writes a row that is SENT or DEAD.
LEMMA StepLeavesFinal ==
    ASSUME IInv, Leased, [Next]_vars, NEW i \in Ids,
           outbox[i].status \in {"SENT", "DEAD"}
    PROVE  outbox'[i].status = outbox[i].status
<1> USE DEF Workers
<1>1. ASSUME NEW S \in SUBSET Ids, NEW n, Claim(S, n)
      PROVE  outbox'[i] = outbox[i]
  <2>1. Expired(outbox[i]) = outbox[i] /\ ~ Due(outbox[i])
    BY DEF Expired, Due
  <2>2. i \notin ClaimedRows(S, n)
    BY <2>1 DEF ClaimedRows, Least, DueIn
  <2>3. QED
    BY <1>1, <2>1, <2>2 DEF Claim
<1>2. CASE Boot \/ StartCycle \/ DrainWatch
  BY <1>1, <1>2 DEF Boot, StartCycle, DrainSignals, DrainWatch, OfType
<1>3. ASSUME NEW w \in Workers, ClaimNew(w)
      PROVE  outbox'[i] = outbox[i]
  BY <1>1, <1>3 DEF ClaimNew, IInv, TypeOK
<1>4. ASSUME NEW w \in Workers, NEW type \in {"SIGNAL", "WATCH"}, Save(w, type)
      PROVE  outbox'[i] = outbox[i]
  <2>1. PICK j \in Ids : /\ outbox[j].status = "ABSENT"
                         /\ outbox' = [outbox EXCEPT ![j] = Stored(type)]
    BY <1>4 DEF Save
  <2>2. QED
    BY <2>1 DEF IInv, TypeOK
<1>5. ASSUME NEW w \in Workers, NEW j \in Ids, SendSucceeds(w, j) \/ SendFails(w, j)
      PROVE  outbox'[i] = outbox[i]
  <2>1. pc[w] = "sending" /\ j \in batch[w]
    BY <1>5 DEF SendSucceeds, SendFails, IsNext
  <2>2. outbox[j].status = "IN_FLIGHT"
    BY <2>1 DEF Leased, HeldRowsAreLeased
  <2>3. i # j
    BY <2>2
  <2>4. \/ outbox' = [outbox EXCEPT ![j] = MarkedSent(outbox[j])]
        \/ outbox' = [outbox EXCEPT ![j] = MarkedRetry(outbox[j])]
    BY <1>5 DEF SendSucceeds, SendFails
  <2>5. QED
    BY <2>3, <2>4 DEF IInv, TypeOK
<1>6. CASE Tick
  BY <1>6, AgedRow DEF Tick, IInv, RowsOK
<1>7. CASE UNCHANGED outbox
  BY <1>7
<1>8. QED
  BY <1>2, <1>3, <1>4, <1>5, <1>6, <1>7
  DEF Next, vars, BootDegraded, SkipCycle, DrainNoWatch, DbFails, TelegramAccepts, Crash

\* The leases hold in every reachable state.
LEMMA SpecLeased ==
    ASSUME LeaseOutlastsBatch
    PROVE  Spec => []Leased
<1>1. Init => Leased
  BY DEF Init, Leased, HeldRowsAreLeased, HandsApart, Workers, Scan, Fast
<1>2. IInv /\ Leased /\ [Next]_vars => Leased'
  BY NextLeased
<1>3. QED
  BY <1>1, <1>2, SpecIInv, PTL DEF Spec

\* With a lease longer than a whole batch takes, every row about to be sent is
\* in flight under a live lease and in one coroutine's hands only, whatever
\* fails or stops, for any number of rows and any limits.
THEOREM LeasesCoverBatches ==
    ASSUME LeaseOutlastsBatch
    PROVE  Spec => []LeaseCoversBatch
<1>1. IInv /\ Leased => LeaseCoversBatch
  BY LeaseLives DEF LeaseCoversBatch, Leased, HandsApart
<1>2. QED
  BY <1>1, SpecIInv, SpecLeased, PTL

\* Under the same condition SENT and DEAD are final: no late answer puts a
\* delivered message back in the queue or revives a dead letter.
THEOREM OutcomesFinal ==
    ASSUME LeaseOutlastsBatch
    PROVE  Spec => OutcomeIsFinal
<1>1. IInv /\ Leased /\ [Next]_vars =>
        [\A i \in Ids : outbox[i].status \in {"SENT", "DEAD"} =>
            outbox'[i].status = outbox[i].status]_vars
  BY StepLeavesFinal
<1>2. QED
  BY <1>1, SpecIInv, SpecLeased, PTL DEF Spec, OutcomeIsFinal

-----------------------------------------------------------------------------
(* Every step of the outbox is a step of AtLeastOnce, or stutters there.   *)

\* The set and the function AtLeastOnce sees.
StoredIds == {i \in Ids : outbox[i].status # "ABSENT"}
Tries == [i \in Ids |-> outbox[i].attempts]

\* A claim is one try of exactly the rows it returns: the recovery of expired
\* leases in the same transaction is invisible.
LEMMA ClaimTries ==
    ASSUME TypeOK, RowsOK, NEW S \in SUBSET Ids, NEW n, Claim(S, n),
           UNCHANGED <<telegramSent, accepted>>
    PROVE  Delivery!Next
<1> DEFINE rows == ClaimedRows(S, n)
<1>1. /\ rows \in SUBSET Ids
      /\ \A i \in Ids : /\ outbox'[i].status = "ABSENT" <=> outbox[i].status = "ABSENT"
                        /\ i \notin rows => outbox'[i].attempts = outbox[i].attempts
      /\ \A i \in rows : /\ outbox[i].status # "ABSENT"
                         /\ outbox[i].attempts < MaxAttempts
                         /\ outbox'[i].attempts = outbox[i].attempts + 1
  BY ClaimKeeps
<1> HIDE DEF rows
<1>2. rows \subseteq StoredIds /\ \A i \in rows : Tries[i] < MaxAttempts
  BY <1>1 DEF StoredIds, Tries
<1>3. StoredIds' = StoredIds
  BY <1>1 DEF StoredIds
<1>4. Tries' = [i \in Ids |-> IF i \in rows THEN Tries[i] + 1 ELSE Tries[i]]
  BY <1>1 DEF Tries
<1>5. PICK R \in SUBSET Ids : R = rows
  BY <1>1
<1>6. Delivery!Try(R)
  BY <1>2, <1>3, <1>4, <1>5 DEF Delivery!Try, StoredIds, Tries
<1>7. QED
  BY <1>6 DEF Delivery!Next

\* What leaves every row's attempts and existence alone is not seen.
LEMMA Unseen ==
    ASSUME \A i \in Ids : /\ outbox'[i].status = "ABSENT" <=> outbox[i].status = "ABSENT"
                          /\ outbox'[i].attempts = outbox[i].attempts
    PROVE  StoredIds' = StoredIds /\ Tries' = Tries
  BY DEF StoredIds, Tries

\* Storing a message, Telegram taking it and the bot confirming it are the
\* steps of that name; a failed send stutters.
LEMMA MessageSteps ==
    ASSUME IInv, NEW w \in Workers, NEW i \in Ids
    PROVE  /\ TelegramAccepts(w, i) => Delivery!Accept(i)
           /\ SendSucceeds(w, i) => Delivery!Confirm(i)
           /\ SendFails(w, i) => UNCHANGED Delivery!vars
<1>1. ASSUME TelegramAccepts(w, i)
      PROVE  Delivery!Accept(i)
  <2>1. outbox[i].status # "ABSENT" /\ outbox[i].attempts > 0
    BY <1>1 DEF TelegramAccepts, IsNext, IInv, HeldRowsAreClaimed
  <2>2. QED
    BY <1>1, <2>1 DEF TelegramAccepts, Delivery!Accept
<1>2. ASSUME SendSucceeds(w, i) \/ SendFails(w, i)
      PROVE  StoredIds' = StoredIds /\ Tries' = Tries
  <2> DEFINE r == outbox[i]
  <2>1. r.status # "ABSENT" /\ RowOK(r)
    BY <1>2 DEF SendSucceeds, SendFails, IsNext, IInv, HeldRowsAreClaimed, RowsOK
  <2>2. PICK q : /\ outbox' = [outbox EXCEPT ![i] = q]
                 /\ q.attempts = r.attempts /\ q.status # "ABSENT"
    <3>1. /\ MarkedSent(r).attempts = r.attempts /\ MarkedRetry(r).attempts = r.attempts
          /\ MarkedSent(r).status = "SENT" /\ MarkedRetry(r).status \in {"RETRY", "DEAD"}
      BY <2>1, MarkedRow
    <3>2. \/ outbox' = [outbox EXCEPT ![i] = MarkedSent(r)]
          \/ outbox' = [outbox EXCEPT ![i] = MarkedRetry(r)]
      BY <1>2 DEF SendSucceeds, SendFails
    <3>3. QED
      BY <3>1, <3>2
  <2>3. \A j \in Ids : outbox'[j] = IF j = i THEN q ELSE outbox[j]
    BY <2>2 DEF IInv, TypeOK
  <2>4. QED
    BY <2>1, <2>2, <2>3, Unseen
<1>3. ASSUME SendSucceeds(w, i)
      PROVE  Delivery!Confirm(i)
  <2>1. i \in accepted
    BY <1>3 DEF SendSucceeds, IsNext, IInv, HeldRowsAreClaimed
  <2>2. telegramSent' = telegramSent \cup {i} /\ accepted' = accepted
    BY <1>3 DEF SendSucceeds
  <2>3. QED
    BY <1>2, <1>3, <2>1, <2>2 DEF Delivery!Confirm, StoredIds, Tries
<1>4. ASSUME SendFails(w, i)
      PROVE  UNCHANGED Delivery!vars
  BY <1>2, <1>4, FailureUnconfirmed DEF SendFails, Delivery!vars, StoredIds, Tries
<1>5. QED
  BY <1>1, <1>3, <1>4

\* A step of the outbox seen through the mapping.
LEMMA StepRefines ==
    ASSUME IInv, [Next]_vars
    PROVE  [Delivery!Next]_(Delivery!vars)
<1> USE DEF Workers
<1>1. CASE Boot \/ StartCycle
  <2>1. /\ Claim(OfType("SIGNAL"), DrainLimit) /\ OfType("SIGNAL") \in SUBSET Ids
        /\ UNCHANGED <<telegramSent, accepted>>
    BY <1>1 DEF Boot, StartCycle, DrainSignals, OfType
  <2>2. QED
    BY <2>1, ClaimTries DEF IInv
<1>2. CASE DrainWatch
  <2>1. /\ Claim(OfType("WATCH"), WatchClaimLimit) /\ OfType("WATCH") \in SUBSET Ids
        /\ UNCHANGED <<telegramSent, accepted>>
    BY <1>2 DEF DrainWatch, OfType
  <2>2. QED
    BY <2>1, ClaimTries DEF IInv
<1>3. ASSUME NEW w \in Workers, ClaimNew(w)
      PROVE  Delivery!Next
  <2>1. Claim(batch[w], 1) /\ UNCHANGED <<telegramSent, accepted>> /\ batch[w] \in SUBSET Ids
    BY <1>3 DEF ClaimNew, IInv, TypeOK
  <2>2. QED
    BY <2>1, ClaimTries DEF IInv
<1>4. ASSUME NEW w \in Workers, NEW type \in {"SIGNAL", "WATCH"}, Save(w, type)
      PROVE  Delivery!Next
  <2>1. PICK i \in Ids : /\ outbox[i].status = "ABSENT"
                         /\ outbox' = [outbox EXCEPT ![i] = Stored(type)]
                         /\ UNCHANGED <<telegramSent, accepted>>
    BY <1>4 DEF Save
  <2>2. /\ Stored(type).status = "PENDING" /\ Stored(type).attempts = 0
        /\ outbox[i].attempts = 0
    BY <2>1, StoredRow DEF IInv, RowsOK, RowOK
  <2>3. \A j \in Ids : outbox'[j] = IF j = i THEN Stored(type) ELSE outbox[j]
    BY <2>1 DEF IInv, TypeOK
  <2>4. StoredIds' = StoredIds \cup {i} /\ i \notin StoredIds
    BY <2>1, <2>2, <2>3 DEF StoredIds
  <2>5. Tries' = Tries
    BY <2>2, <2>3 DEF Tries
  <2>6. Delivery!Store(i)
    BY <2>1, <2>4, <2>5 DEF Delivery!Store, StoredIds, Tries
  <2>7. QED
    BY <2>6 DEF Delivery!Next
<1>5. ASSUME NEW w \in Workers, NEW i \in Ids,
             TelegramAccepts(w, i) \/ SendSucceeds(w, i) \/ SendFails(w, i)
      PROVE  [Delivery!Next]_(Delivery!vars)
  BY <1>5, MessageSteps DEF Delivery!Next
<1>6. CASE Tick
  <2>1. \A i \in Ids : outbox'[i].status = outbox[i].status
                       /\ outbox'[i].attempts = outbox[i].attempts
    BY <1>6, AgedRow DEF Tick, IInv, RowsOK
  <2>2. QED
    BY <1>6, <2>1, Unseen DEF Tick, Delivery!vars, StoredIds, Tries
<1>7. CASE UNCHANGED <<outbox, telegramSent, accepted>>
  BY <1>7 DEF Delivery!vars
<1>8. ASSUME \/ BootDegraded \/ SkipCycle \/ DrainNoWatch \/ Crash
             \/ UNCHANGED vars \/ \E w \in Workers : DbFails(w)
      PROVE  UNCHANGED <<outbox, telegramSent, accepted>>
  BY <1>8 DEF BootDegraded, SkipCycle, DrainNoWatch, Crash, DbFails, vars
<1>9. QED
  BY <1>1, <1>2, <1>3, <1>4, <1>5, <1>6, <1>7, <1>8 DEF Next

\* The outbox implements AtLeastOnce: whatever crashes, expired leases, late
\* answers and failed transactions do, a message is stored before it is tried,
\* tried at most MaxAttempts times, and confirmed only if Telegram took it.
THEOREM OutboxImplementsAtLeastOnce == Spec => ImplementsAtLeastOnce
<1>1. Init => Delivery!Init
  BY DEF Init, Delivery!Init, Absent
<1>2. IInv /\ [Next]_vars => [Delivery!Next]_(Delivery!vars)
  BY StepRefines
<1>3. QED
  BY <1>1, <1>2, SpecIInv, PTL DEF Spec, ImplementsAtLeastOnce, Delivery!SafeSpec
=============================================================================
