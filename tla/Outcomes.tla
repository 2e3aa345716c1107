------------------------------ MODULE Outcomes ------------------------------
(***************************************************************************)
(* What became of a signal, and of an observation of a strategy branch:    *)
(* the passes of OutcomeTracker.update_due_outcomes over both tables.      *)
(*                                                                         *)
(* A pass takes the signals first: an exception there ends it, and no      *)
(* observation has its turn.  Then observations in batches, the longest    *)
(* due first; a row has one try per pass, and what it came to says when    *)
(* the next is due.  All of a pass is reckoned from the time it began.     *)
(* The bot runs a pass every cycle, scripts/evaluate_outcomes.py runs one  *)
(* in a process of its own, and neither knows of the other.                *)
(*                                                                         *)
(* Times are relative to the present: `due` is negative for what is        *)
(* overdue.  A tick is a candle; prices, excursions and the horizons       *)
(* before the last are left out.                                           *)
(***************************************************************************)
EXTENDS Integers, Sequences, FiniteSets, FiniteSetsExt, SequencesExt, Selection

CONSTANTS Workers,    \* processes that run passes
          Script,     \* the worker of evaluate_outcomes.py
          Observed,   \* bound: observations, numbered as they are recorded
          Signalled,  \* bound: signals, numbered likewise
          Ready,      \* 15 minutes and one candle, in ticks
          Horizon,    \* 4 hours, in ticks
          Lookback,   \* 48 hours, in ticks
          SigLimit,   \* signals that list_signals_missing_outcomes looks at
          Batch, MaxBatches, \* STRATEGY_OBSERVATION_OUTCOME_BATCH_SIZE, _MAX_BATCHES
          MaxDelay,   \* 60 minutes, in ticks
          TryCap,     \* bound: tries beyond which the delay does not grow
          MaxLag,     \* bound: ticks that a pass takes
          MaxScripts  \* bound: passes of the script

ASSUME OutcomesAssumption ==
    /\ Script \in Workers
    /\ \A v, w \in Workers \ {Script} : v = w  \* one bot
    /\ {Observed, Signalled, Ready, Horizon, Lookback, SigLimit, Batch, MaxBatches,
        MaxDelay, MaxLag} \subseteq Nat \ {0}
    /\ Horizon < Lookback /\ TryCap \in 0 .. 6 /\ MaxScripts \in Nat

Observations == 1 .. Observed
Signals == 1 .. Signalled

VARIABLES status,  \* outcome_status; "NULL": none yet; "final": unknown, no next try
          age,     \* time since observed_at
          due,     \* outcome_next_attempt_at, or observed_at before the first try
          tries,   \* outcome_attempt_count
          line,    \* the unsettled rows as the query orders them
          priceless, \* observations recorded without a usable market price
          undone,  \* ghost: writes of each row that took its settled outcome away
          sigAge,  \* time since signal_time
          price4,  \* price_after_4h of its outcome, or no outcome
          pc,      \* of each worker: "idle", "signals", "observations"
          lag,     \* time since its pass began
          todo,    \* ids of signals or observations with their tries, read and not dealt with
          tried,   \* attempted_observation_ids
          batches,
          scripts

obsVars == <<status, age, due, tries, line, priceless, undone>>
sigVars == <<sigAge, price4>>
passVars == <<pc, lag, todo, tried, batches>>
vars == <<obsVars, sigVars, passVars, scripts>>

Recorded == {o \in Observations : status[o] # "ABSENT"}

TypeOK ==
    /\ status \in [Observations -> {"ABSENT", "NULL", "incomplete", "unknown", "final", "complete"}]
    /\ age \in [Observations -> 0 .. Ready + MaxLag]
    /\ due \in [Observations -> -MaxLag .. MaxDelay]
    /\ tries \in [Observations -> 0 .. TryCap]
    /\ line \in Seq(Observations)
    /\ Range(line) = {o \in Observations : status[o] \in {"NULL", "incomplete", "unknown"}}
    /\ \A i, j \in 1 .. Len(line) : i < j => line[i] # line[j] /\ due[line[i]] =< due[line[j]]
    /\ priceless \subseteq Recorded
    /\ undone \in [Observations -> Nat]
    /\ sigAge \in [Signals -> 0 .. Lookback + 1]
    /\ price4 \in [Signals -> {"ABSENT", "none", "set"}]
    /\ pc \in [Workers -> {"idle", "signals", "observations"}]
    /\ lag \in [Workers -> 0 .. MaxLag]
    /\ \A w \in Workers : todo[w] \in Seq(Nat \X (0 .. TryCap))
    /\ tried \in [Workers -> SUBSET Observations]
    /\ batches \in [Workers -> 0 .. MaxBatches]
    /\ scripts \in 0 .. MaxScripts

Init ==
    /\ status = [o \in Observations |-> "ABSENT"]
    /\ age = [o \in Observations |-> 0]
    /\ due = [o \in Observations |-> 0]
    /\ tries = [o \in Observations |-> 0]
    /\ line = <<>>
    /\ priceless = {}
    /\ undone = [o \in Observations |-> 0]
    /\ sigAge = [s \in Signals |-> 0]
    /\ price4 = [s \in Signals |-> "ABSENT"]
    /\ pc = [w \in Workers |-> "idle"]
    /\ lag = [w \in Workers |-> 0]
    /\ todo = [w \in Workers |-> <<>>]
    /\ tried = [w \in Workers |-> {}]
    /\ batches = [w \in Workers |-> 0]
    /\ scripts = 0

-----------------------------------------------------------------------------
(* The rows.                                                               *)

\* Mutant: rows are tried in the order they were recorded.
ByRecording(l, o, d) == SortSeq(Append(l, o), <)

\* The line with row o at time d: by time due, then by time observed.
Placed(l, o, d) ==
    LET before == {i \in DOMAIN l : due[l[i]] < d \/ (due[l[i]] = d /\ l[i] < o)}
    IN Kept(l, before) \o <<o>> \o Kept(l, DOMAIN l \ before)

\* A branch evaluation is recorded with a new idempotency key.  (A key that is
\* there already, or a failed insert, leaves the ledger as it is.)
RecordObservation(o) ==
    /\ status[o] = "ABSENT" /\ \A p \in 1 .. o - 1 : status[p] # "ABSENT"
    /\ status' = [status EXCEPT ![o] = "NULL"]
    /\ age' = [age EXCEPT ![o] = 0]
    /\ due' = [due EXCEPT ![o] = 0]
    /\ line' = Placed(line, o, 0)
    /\ priceless' \in {priceless, priceless \cup {o}}
    /\ UNCHANGED <<tries, undone, sigVars, passVars, scripts>>

SaveSignal(s) ==
    /\ price4[s] = "ABSENT" /\ \A p \in 1 .. s - 1 : price4[p] # "ABSENT"
    /\ price4' = [price4 EXCEPT ![s] = "none"]
    /\ UNCHANGED <<obsVars, sigAge, passVars, scripts>>

\* What a worker takes a row's age for.
AgeAt(a, w) == IF a > lag[w] THEN a - lag[w] ELSE 0

-----------------------------------------------------------------------------
(* Signals.                                                                *)

FirstOf(q, n) == SubSeq(q, 1, IF Len(q) < n THEN Len(q) ELSE n)

\* list_signals_missing_outcomes: of the oldest signals in the lookback those
\* without a four-hour price; the limit comes before that filter.
SignalsMissing ==
    LET recent == SelectSeq([s \in Signals |-> s],
                            LAMBDA s : price4[s] # "ABSENT" /\ sigAge[s] =< Lookback)
    IN SelectSeq(FirstOf(recent, SigLimit), LAMBDA s : price4[s] = "none")

\* What a worker keeps of the rows it read.
Read(q, n) == [i \in 1 .. Len(q) |-> <<q[i], n[q[i]]>>]

BeginPass(w) ==
    /\ pc[w] = "idle"
    /\ w = Script => scripts < MaxScripts
    /\ scripts' = IF w = Script THEN scripts + 1 ELSE scripts
    /\ pc' = [pc EXCEPT ![w] = "signals"]
    /\ lag' = [lag EXCEPT ![w] = 0]
    /\ todo' = [todo EXCEPT ![w] = Read(SignalsMissing, [s \in Signals |-> 0])]
    /\ UNCHANGED <<obsVars, sigVars, tried, batches>>

\* The pass is over for w.
Leave(w) ==
    /\ pc' = [pc EXCEPT ![w] = "idle"]
    /\ lag' = [lag EXCEPT ![w] = 0]
    /\ todo' = [todo EXCEPT ![w] = <<>>]
    /\ tried' = [tried EXCEPT ![w] = {}]
    /\ batches' = [batches EXCEPT ![w] = 0]

\* The row is dealt with; the last row of the last batch ends the pass.
NextRow(w) ==
    IF Len(todo[w]) = 1 /\ batches[w] = MaxBatches
    THEN Leave(w)
    ELSE todo' = [todo EXCEPT ![w] = Tail(@)] /\ UNCHANGED <<pc, lag, tried, batches>>

\* The candles of the signal came: there are none after the signal, and it is
\* passed over, or its outcome is written anew, with a four-hour price once
\* there is a candle from that time on, closed or not.
SignalEvaluated(w) ==
    /\ pc[w] = "signals" /\ todo[w] # <<>>
    /\ LET s == Head(todo[w])[1]
       IN \/ price4' = [price4 EXCEPT ![s] = "none"]
          \/ /\ AgeAt(sigAge[s], w) >= Horizon
             /\ price4' = [price4 EXCEPT ![s] = "set"]
          \/ UNCHANGED price4
    /\ NextRow(w)
    /\ UNCHANGED <<obsVars, sigAge, scripts>>

\* Nothing around the fetch of a signal's candles or the query for due rows
\* catches what they raise; or the process stops.
PassRaises(w) ==
    /\ pc[w] # "idle"
    /\ Leave(w)
    /\ UNCHANGED <<obsVars, sigVars, scripts>>

-----------------------------------------------------------------------------
(* Observations.                                                           *)

\* Mutant: a settled row is due as well.
DueRowsAll(w) ==
    SelectSeq([o \in Observations |-> o], LAMBDA o : status[o] # "ABSENT" /\ o \notin tried[w])

\* list_strategy_observations_due_outcomes, for the time w began at.
DueRows(w) ==
    Kept(line, {i \in DOMAIN line : /\ status[line[i]] = "NULL" \/ due[line[i]] + lag[w] =< 0
                                    /\ line[i] \notin tried[w]})

\* The signals or a batch are done and the next batch is read, with the count
\* of tries of each row; none left ends the pass.
NextBatch(w) ==
    /\ pc[w] # "idle" /\ todo[w] = <<>>
    /\ IF DueRows(w) = <<>>
       THEN Leave(w)
       ELSE LET rows == FirstOf(DueRows(w), Batch)
            IN /\ pc' = [pc EXCEPT ![w] = "observations"]
               /\ todo' = [todo EXCEPT ![w] = Read(rows, tries)]
               /\ tried' = [tried EXCEPT ![w] = @ \cup Range(rows)]
               /\ batches' = [batches EXCEPT ![w] = @ + 1]
               /\ UNCHANGED lag
    /\ UNCHANGED <<obsVars, sigVars, scripts>>

\* What the exchange's answer makes of row o, observed a ago: no answer,
\* missing candles, candles up to the last horizon.
Results(o, a) ==
    IF o \in priceless THEN {"final"}
    ELSE {"incomplete", "unknown"} \cup (IF a < Ready THEN {} ELSE {"complete"})

\* _next_outcome_attempt_at
Delay(r, n) ==
    IF r = "incomplete" THEN 1 ELSE IF 2 ^ n < MaxDelay THEN 2 ^ n ELSE MaxDelay

AtRow(w, o) == pc[w] = "observations" /\ todo[w] # <<>> /\ todo[w][1][1] = o

Settled(o) == status[o] \in {"final", "complete"}

\* update_strategy_observation_outcome; a result that is not retryable has no
\* next try.
Write(w, o, r) ==
    LET d == Delay(r, todo[w][1][2]) - lag[w]
        others == Kept(line, {i \in DOMAIN line : line[i] # o})
    IN /\ status' = [status EXCEPT ![o] = r]
       /\ tries' = [tries EXCEPT ![o] = IF @ < TryCap THEN @ + 1 ELSE @]
       /\ IF r \in {"incomplete", "unknown"}
          THEN /\ due' = [due EXCEPT ![o] = d]
               /\ line' = Placed(others, o, d)
               /\ undone' = [undone EXCEPT ![o] = IF Settled(o) THEN @ + 1 ELSE @]
          ELSE /\ due' = [due EXCEPT ![o] = 0]
               /\ line' = others
               /\ UNCHANGED undone

\* Mutant: a row that is not settled yet is tried again at once.
TriedAgain(w, o, r) ==
    /\ AtRow(w, o)
    /\ r \in Results(o, AgeAt(age[o], w))
    /\ Write(w, o, r)
    /\ IF r \in {"incomplete", "unknown"} THEN UNCHANGED passVars ELSE NextRow(w)
    /\ UNCHANGED <<age, priceless, sigVars, scripts>>

ObservationEvaluated(w, o, r) ==
    /\ AtRow(w, o)
    /\ r \in Results(o, AgeAt(age[o], w))
    /\ Write(w, o, r)
    /\ NextRow(w)
    /\ UNCHANGED <<age, priceless, sigVars, scripts>>

\* The update raises: the row stays as it was, the pass goes on.
PersistenceFails(w, o) ==
    /\ AtRow(w, o)
    /\ NextRow(w)
    /\ UNCHANGED <<obsVars, sigVars, scripts>>

-----------------------------------------------------------------------------
Tick ==
    /\ \A w \in Workers : pc[w] # "idle" => lag[w] < MaxLag
    /\ age' = [o \in Observations |->
                 IF status[o] = "ABSENT" \/ age[o] = Ready + MaxLag THEN age[o] ELSE age[o] + 1]
    /\ due' = [o \in Observations |->
                 IF o \notin Range(line) \/ due[o] = -MaxLag THEN due[o] ELSE due[o] - 1]
    /\ sigAge' = [s \in Signals |->
                 IF price4[s] = "ABSENT" \/ sigAge[s] = Lookback + 1 THEN sigAge[s] ELSE sigAge[s] + 1]
    /\ lag' = [w \in Workers |-> IF pc[w] = "idle" THEN 0 ELSE lag[w] + 1]
    /\ UNCHANGED <<status, tries, line, priceless, undone, price4, pc, todo, tried, batches, scripts>>

PassStep(w) ==
    \/ SignalEvaluated(w) \/ PassRaises(w) \/ NextBatch(w)
    \/ \E o \in Observations :
        \/ PersistenceFails(w, o)
        \/ \E r \in {"incomplete", "unknown", "final", "complete"} : ObservationEvaluated(w, o, r)

Next ==
    \/ \E o \in Observations : RecordObservation(o)
    \/ \E s \in Signals : SaveSignal(s)
    \/ \E w \in Workers : BeginPass(w) \/ PassStep(w)
    \/ Tick

Spec == Init /\ [][Next]_vars

CONSTANT Stuck  \* observations whose candles may never come

\* Cycles and time go on; a row that is read again and again is written at
\* last, and settled when it is not stuck.
FairSpec ==
    /\ Spec /\ WF_vars(Tick)
    /\ \A w \in Workers : WF_vars(BeginPass(w) \/ PassStep(w))
    /\ \A w \in Workers \ {Script} :
          /\ SF_vars(NextBatch(w))
          /\ SF_vars(\E o \in Observations, r \in {"incomplete", "unknown", "final", "complete"} :
                        ObservationEvaluated(w, o, r))
          /\ \A o \in Observations \ Stuck :
                SF_vars(\E r \in {"final", "complete"} : ObservationEvaluated(w, o, r))

-----------------------------------------------------------------------------
(* Properties.                                                             *)

\* A pass of the script costs an observation one settled outcome at most: the
\* script tries a row once, and the row that one process holds while the other
\* settles it is written over only by what was read before.
UndoneOncePerScript ==
    \A o \in Observations : undone[o] =< scripts

\* As long as the bot's passes are alone, a settled outcome is never written
\* over.  (A pass of the script that read the row before can undo it.)
SettledStaysAlone ==
    [][\A o \in Observations : Settled(o) /\ scripts' = 0 => status'[o] = status[o]]_vars

\* Every observation that can be settled is settled for good at last: rows
\* that never can be take their turns behind it, a raising signal stops
\* raising when it leaves the lookback, and what a concurrent script undoes is
\* done again.
EveryObservationSettles ==
    \A o \in Observations \ Stuck : status[o] # "ABSENT" ~> [](Settled(o))
=============================================================================
