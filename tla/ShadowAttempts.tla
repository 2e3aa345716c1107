--------------------------- MODULE ShadowAttempts ---------------------------
(***************************************************************************)
(* The shadow lifecycle of one symbol's climax events: the tables          *)
(* climax_root_events, climax_entry_attempts and                           *)
(* climax_entry_attempt_events, and the scan and the fast monitor that     *)
(* write them while they evaluate.                                         *)
(*                                                                         *)
(* A step is one transaction with the code up to the next one or to the    *)
(* next await.  What an evaluation finds is a free choice, and so is the   *)
(* moment an attempt's confirmation_expires_at passes.  Of the history     *)
(* only the events that tell a state are kept: attempt_created,            *)
(* attempt_state_changed, attempt_closed.                                  *)
(***************************************************************************)
EXTENDS Naturals, Sequences, FiniteSets

CONSTANTS MaxRoots,    \* bound: events of the symbol
          MaxRevs,     \* bound: revisions of a root
          MaxEvals,    \* bound: evaluations that reach the shadow tables
          MaxStops,    \* bound: process stops
          MaxErrors,   \* bound: failed transactions
          Cap,         \* climax_max_attempts_per_root_event
          Trackings,   \* what climax_root_event_tracking_enabled may be
          FastMonitor  \* climax_fast_monitor_enabled

ASSUME AttemptsAssumption ==
    /\ MaxRoots \in Nat /\ MaxRevs \in Nat \ {0} /\ MaxEvals \in Nat
    /\ MaxStops \in Nat /\ MaxErrors \in Nat /\ Cap \in Nat
    /\ Trackings \subseteq BOOLEAN /\ FastMonitor \in BOOLEAN

Scan == "scan"
Fast == "fast"
Workers == {Scan, Fast}

Roots == 1 .. MaxRoots
Kinds == {"volume", "low"}

\* attempt_id: the root, whose lifecycle it belongs to, and the revision.
Ids == Roots \X Kinds \X (1 .. MaxRevs)
NoAttempt == <<0, "none", 0>>

Observed == {"RETEST_IN_PROGRESS", "BREAKDOWN_PENDING"}
Terminal == {"SHADOW_ACTIONABLE", "EXPIRED", "ROOT_REPLACED"}

\* life is whether attempt_closed_at is set, born the order of creation.
Attempt == [state : Observed \cup Terminal \cup {"NONE"},
            life : {"absent", "open", "closed"}, born : Nat]

Absent == [state |-> "NONE", life |-> "absent", born |-> 0]

\* An event of the history; the record is its idempotency key as well.
Entry == [type : {"created", "state", "closed"},
          by : {"upsert", "evaluation", "replaced", "startup"}, ref : Nat,
          to : Observed \cup Terminal]

VARIABLES tracking, \* climax_root_event_tracking_enabled of this process
          roots,    \* peak_revision of each root's row, 0 without a row; persistent
          attempts, \* climax_entry_attempts, persistent
          history,  \* climax_entry_attempt_events per attempt, persistent
          due,      \* attempts whose confirmation_expires_at has passed
          event,    \* the latest event the scan has tracked
          pool,     \* root of the symbol's candidate in _active_climax_pool, or 0
          pc,       \* what each coroutine does next
          root,     \* root a coroutine works on
          att,      \* shadow_attempt_id of its evaluation
          verdict,  \* whether that evaluation is actionable
          num,      \* number of its evaluation
          evals, stops, errors

vars == <<tracking, roots, attempts, history, due, event, pool, pc, root, att, verdict, num,
          evals, stops, errors>>

tables == <<roots, attempts, history, due>>
hands == <<pc, root, att, verdict, num>>
counters == <<evals, stops, errors>>

Places == {"idle", "replace", "waiting", "attempt", "mark", "decide"}

TypeOK ==
    /\ tracking \in Trackings
    /\ roots \in [Roots -> 0 .. MaxRevs]
    /\ attempts \in [Ids -> Attempt]
    /\ history \in [Ids -> Seq(Entry)]
    /\ due \in SUBSET Ids
    /\ event \in 0 .. MaxRoots /\ pool \in 0 .. MaxRoots
    /\ pc \in [Workers -> Places]
    /\ root \in [Workers -> 0 .. MaxRoots]
    /\ att \in [Workers -> Ids \cup {NoAttempt}]
    /\ verdict \in [Workers -> {"none", "actionable"}]
    /\ num \in [Workers -> Nat]
    /\ evals \in 0 .. MaxEvals /\ stops \in 0 .. MaxStops /\ errors \in 0 .. MaxErrors

Init ==
    /\ tracking \in Trackings
    /\ roots = [r \in Roots |-> 0]
    /\ attempts = [id \in Ids |-> Absent]
    /\ history = [id \in Ids |-> <<>>]
    /\ due = {}
    /\ event = 0 /\ pool = 0
    /\ pc = [w \in Workers |-> "idle"]
    /\ root = [w \in Workers |-> 0]
    /\ att = [w \in Workers |-> NoAttempt]
    /\ verdict = [w \in Workers |-> "none"]
    /\ num = [w \in Workers |-> 0]
    /\ evals = 0 /\ stops = 0 /\ errors = 0

-----------------------------------------------------------------------------
(* The tables.                                                             *)

Exists(id) == attempts[id].life # "absent"
Open(id) == attempts[id].life = "open"
OfRoot(r) == {id \in Ids : id[1] = r}

Entered(type, by, ref, to) == [type |-> type, by |-> by, ref |-> ref, to |-> to]

\* _append_attempt_event: once per idempotency key.
Note(h, e) == IF \E i \in DOMAIN h : h[i] = e THEN h ELSE Append(h, e)

\* A state change and a closing, in that order.
NoteClosing(h, by, ref, to) ==
    Note(Note(h, Entered("state", by, ref, to)), Entered("closed", by, ref, to))

Now(state, life, id) == [state |-> state, life |-> life, born |-> attempts[id].born]

\* What upsert_shadow_root_event may make of a root's revision.
Revisions(r) ==
    IF roots[r] = 0 THEN {1} ELSE roots[r] .. roots[r] + 1

SetRoot(r, rev) == rev <= MaxRevs /\ roots' = [roots EXCEPT ![r] = rev]

\* Mutant: attempts that have closed do not count.
AdmittedOpen(id) == Cardinality({x \in OfRoot(id[1]) : Open(x)}) < Cap

\* The cap on attempts of a root.
Admitted(id) == Cardinality({x \in OfRoot(id[1]) : Exists(x)}) < Cap

\* upsert_shadow_entry_attempt returns True.
Persists(id) == Exists(id) \/ Admitted(id)

\* An attempt observed for the first time.  Its TTL may be over already,
\* when the lifecycle counts it from an earlier high.
Create(id, state, n) ==
    /\ ~ Exists(id) /\ Admitted(id)
    /\ attempts' = [attempts EXCEPT ![id] =
          [state |-> state, born |-> n,
           life |-> IF state \in Terminal THEN "closed" ELSE "open"]]
    /\ history' = [history EXCEPT ![id] = Note(@, Entered("created", "upsert", 0, state))]
    /\ due' \in {due} \cup {due \cup {x} : x \in {y \in {id} : y[2] = "volume"}}

\* Mutant: terminal attempts are observed like the others.
ObserveTerminal(id, state, n) ==
    /\ Exists(id)
    /\ attempts' = [attempts EXCEPT ![id] =
          Now(state, IF state = "EXPIRED" THEN "closed" ELSE attempts[id].life, id)]
    /\ history' = IF attempts[id].state = state THEN history
                  ELSE [history EXCEPT ![id] = Note(@, Entered("state", "upsert", n, state))]
    /\ UNCHANGED due

\* An attempt observed again; only an expired lifecycle gives a close_reason.
Observe(id, state, n) ==
    /\ Open(id) /\ attempts[id].state \notin Terminal
    /\ attempts' = [attempts EXCEPT ![id] =
          Now(state, IF state = "EXPIRED" THEN "closed" ELSE "open", id)]
    /\ history' = IF attempts[id].state = state THEN history
                  ELSE [history EXCEPT ![id] = Note(@, Entered("state", "upsert", n, state))]
    /\ UNCHANGED due

\* The attempt is over, or there may be no more of the root.
LeaveAlone(id) ==
    /\ IF Exists(id) THEN ~ Open(id) \/ attempts[id].state \in Terminal ELSE ~ Admitted(id)
    /\ UNCHANGED <<attempts, history, due>>

\* upsert_shadow_entry_attempt, in evaluation n.
Upsert(id, state, n) == Create(id, state, n) \/ Observe(id, state, n) \/ LeaveAlone(id)

\* transition_shadow_entry_attempt to SHADOW_ACTIONABLE.
Actionable(id, ref) ==
    /\ IF Open(id)
       THEN /\ attempts' = [attempts EXCEPT ![id] = Now("SHADOW_ACTIONABLE", "closed", id)]
            /\ history' = [history EXCEPT ![id] =
                 IF attempts[id].state = "SHADOW_ACTIONABLE"
                 THEN Note(@, Entered("closed", "evaluation", ref, "SHADOW_ACTIONABLE"))
                 ELSE NoteClosing(@, "evaluation", ref, "SHADOW_ACTIONABLE")]
       ELSE UNCHANGED <<attempts, history>>
    /\ UNCHANGED due

\* Mutant: attempt_closed_at is not looked at.
ExpireIfDueAgain(id, ref) ==
    /\ IF id \in due
       THEN /\ attempts' = [attempts EXCEPT ![id] = Now("EXPIRED", "closed", id)]
            /\ history' = [history EXCEPT ![id] = NoteClosing(@, "evaluation", ref, "EXPIRED")]
       ELSE UNCHANGED <<attempts, history>>
    /\ UNCHANGED due

\* expire_shadow_attempt_if_due
ExpireIfDue(id, ref) ==
    /\ IF Open(id) /\ id \in due
       THEN /\ attempts' = [attempts EXCEPT ![id] = Now("EXPIRED", "closed", id)]
            /\ history' = [history EXCEPT ![id] = NoteClosing(@, "evaluation", ref, "EXPIRED")]
       ELSE UNCHANGED <<attempts, history>>
    /\ UNCHANGED due

\* The attempts in ids are closed, whatever their state.
CloseAll(ids, state, by) ==
    /\ attempts' = [id \in Ids |-> IF id \in ids THEN Now(state, "closed", id) ELSE attempts[id]]
    /\ history' = [id \in Ids |-> IF id \in ids THEN NoteClosing(history[id], by, 0, state)
                                                ELSE history[id]]
    /\ UNCHANGED due

\* get_open_shadow_attempt_id: the latest, but attempt_created_at is the time
\* of a candle for one kind and the time of day for the other.
LatestOpen(r) ==
    {id \in OfRoot(r) : Open(id) /\
        \A x \in OfRoot(r) : Open(x) /\ x[2] = id[2] => attempts[x].born <= attempts[id].born}

-----------------------------------------------------------------------------
(* The coroutines.                                                         *)

\* Nobody else is between two transactions without an await.
Turn(w) == \A v \in Workers \ {w} : pc[v] \notin {"replace", "attempt", "mark"}

Begins(w, place, r) ==
    /\ pc' = [pc EXCEPT ![w] = place]
    /\ root' = [root EXCEPT ![w] = r]
    /\ UNCHANGED <<att, verdict, num>>

Goes(w, place, id, v, n) ==
    /\ pc' = [pc EXCEPT ![w] = place]
    /\ att' = [att EXCEPT ![w] = id]
    /\ verdict' = [verdict EXCEPT ![w] = v]
    /\ num' = [num EXCEPT ![w] = n]
    /\ UNCHANGED root

Ends(w) ==
    /\ pc' = [pc EXCEPT ![w] = "idle"]
    /\ root' = [root EXCEPT ![w] = 0]
    /\ att' = [att EXCEPT ![w] = NoAttempt]
    /\ verdict' = [verdict EXCEPT ![w] = "none"]
    /\ num' = [num EXCEPT ![w] = 0]

\* A transaction raises, and the repository logs it and returns.
Errs == errors < MaxErrors /\ errors' = errors + 1

\* The candidate is in the pool, joins it, or comes too late for it.
Pools(r) == pool' \in IF pool = r THEN {r} ELSE {0, r}

\* The scan tracks the event it knows or a new one: _prepare_shadow_root_event,
\* then the pool; the old candidate's attempts are closed in the next step.
Track ==
    /\ pc[Scan] = "idle" /\ Turn(Scan)
    /\ \E r \in {event, event + 1} \cap Roots :
        /\ event' = r
        /\ \/ tracking /\ (\E rev \in Revisions(r) : SetRoot(r, rev)) /\ UNCHANGED errors
           \/ tracking /\ Errs /\ UNCHANGED roots
           \/ ~ tracking /\ UNCHANGED <<roots, errors>>
        /\ IF tracking /\ pool \notin {0, r}
           THEN Begins(Scan, "replace", r) /\ UNCHANGED pool
           ELSE Begins(Scan, "waiting", r) /\ Pools(r)
    /\ UNCHANGED <<tracking, attempts, history, due, evals, stops>>

\* close_open_shadow_attempts_for_root, for the candidate the new one replaces.
Replace ==
    /\ pc[Scan] = "replace"
    /\ CloseAll({id \in OfRoot(pool) : Open(id)}, "ROOT_REPLACED", "replaced")
    /\ pool' \in {0, root[Scan]}
    /\ Begins(Scan, "waiting", root[Scan])
    /\ UNCHANGED <<tracking, roots, event, counters>>

\* The fast monitor loads the row of a candidate.
Select ==
    /\ FastMonitor /\ pc[Fast] = "idle" /\ Turn(Fast) /\ pool # 0
    /\ Begins(Fast, "waiting", pool)
    /\ UNCHANGED <<tracking, tables, event, pool, counters>>

\* The candidate has its signal, its TTL is over, or its row is another's.
CandidateLeaves ==
    /\ pool # 0 /\ pool' = 0
    /\ \A w \in Workers : pc[w] \notin {"replace", "attempt", "mark"}
    /\ UNCHANGED <<tracking, tables, event, hands, counters>>

\* The evaluation does not come to the shadow tables.
Skip(w) ==
    /\ pc[w] = "waiting" /\ Turn(w)
    /\ Ends(w)
    /\ UNCHANGED <<tracking, tables, event, pool, counters>>

\* Mutant: without root tracking nobody writes the root's row.
EvaluateVolumeRootless(w) ==
    /\ pc[w] = "waiting" /\ Turn(w)
    /\ evals < MaxEvals /\ evals' = evals + 1
    /\ \/ \E rev \in Revisions(root[w]) :
            /\ IF tracking THEN SetRoot(root[w], rev) ELSE rev = 1 /\ UNCHANGED roots
            /\ Goes(w, "attempt", <<root[w], "volume", rev>>, "none", evals + 1)
            /\ UNCHANGED errors
       \/ /\ Errs /\ UNCHANGED roots
          /\ Goes(w, "attempt", <<root[w], "volume", 1>>, "none", evals + 1)
    /\ UNCHANGED <<tracking, attempts, history, due, event, pool, stops>>

\* A volume climax: the root's row, then the attempt of its revision; a write
\* that failed counts as revision 1.
EvaluateVolume(w) ==
    /\ pc[w] = "waiting" /\ Turn(w)
    /\ evals < MaxEvals /\ evals' = evals + 1
    /\ \/ \E rev \in Revisions(root[w]) :
            /\ SetRoot(root[w], rev)
            /\ Goes(w, "attempt", <<root[w], "volume", rev>>, "none", evals + 1)
            /\ UNCHANGED errors
       \/ /\ Errs /\ UNCHANGED roots
          /\ Goes(w, "attempt", <<root[w], "volume", 1>>, "none", evals + 1)
    /\ UNCHANGED <<tracking, attempts, history, due, event, pool, stops>>

\* Mutant: the lifecycle's state is stored as it is.
UpsertVolumeRaw(w) ==
    /\ pc[w] = "attempt"
    /\ \E state \in {"RETEST_IN_PROGRESS", "FALLBACK_READY", "EXPIRED"} :
        /\ Upsert(att[w], state, num[w])
        /\ IF state = "FALLBACK_READY" /\ Persists(att[w])
           THEN Goes(w, "mark", att[w], "none", num[w])
           ELSE Ends(w)
    /\ UNCHANGED <<tracking, roots, event, pool, counters>>

\* After the save of the event state, the attempt in the state the lifecycle
\* has reached.
UpsertVolume(w) ==
    /\ pc[w] = "attempt"
    /\ \E state \in {"RETEST_IN_PROGRESS", "SHADOW_ACTIONABLE", "EXPIRED"} :
        /\ Upsert(att[w], state, num[w])
        /\ IF state = "SHADOW_ACTIONABLE" /\ Persists(att[w])
           THEN Goes(w, "mark", att[w], "none", num[w])
           ELSE Ends(w)
    /\ UNCHANGED <<tracking, roots, event, pool, counters>>

MarkActionable(w) ==
    /\ pc[w] = "mark"
    /\ Actionable(att[w], 0)
    /\ Ends(w)
    /\ UNCHANGED <<tracking, roots, event, pool, counters>>

\* The write of the attempt, or of its transition, fails and is passed over.
WriteFails(w) ==
    /\ pc[w] \in {"attempt", "mark"} /\ Errs
    /\ Ends(w)
    /\ UNCHANGED <<tracking, tables, event, pool, evals, stops>>

\* A retest without a volume climax: the attempt of the revision the copy of
\* the event knows, which may be an old one.
EvaluateLow(w) ==
    /\ tracking /\ pc[w] = "waiting" /\ Turn(w)
    /\ evals < MaxEvals /\ evals' = evals + 1
    /\ \E rev \in 1 .. MaxRevs, state \in Observed, v \in {"none", "actionable"} :
        /\ rev = 1 \/ rev <= roots[root[w]]
        /\ v = "actionable" => state = "BREAKDOWN_PENDING"
        /\ \E id \in {<<root[w], "low", rev>>} :
            \/ /\ Upsert(id, state, evals + 1)
               /\ Goes(w, "decide", IF Persists(id) THEN id ELSE NoAttempt, v, evals + 1)
               /\ UNCHANGED errors
            \/ /\ Errs /\ UNCHANGED <<attempts, history, due>>
               /\ Goes(w, "decide", NoAttempt, v, evals + 1)
    /\ UNCHANGED <<tracking, roots, event, pool, stops>>

\* Neither: the open attempt of the root, if there is one.
EvaluateOther(w) ==
    /\ tracking /\ pc[w] = "waiting" /\ Turn(w)
    /\ evals < MaxEvals /\ evals' = evals + 1
    /\ \E id \in Ids \cup {NoAttempt} :
        /\ id \in LatestOpen(root[w]) \/ (id = NoAttempt /\ LatestOpen(root[w]) = {})
        /\ Goes(w, "decide", id, "none", evals + 1)
    /\ UNCHANGED <<tracking, tables, event, pool, stops, errors>>

\* After the observations are written, and maybe an alert awaited: the attempt
\* is actionable, or expires if it is due.  Without the row of the evaluation
\* its number is unknown; without an attempt only the gap is recorded.
Decide(w) ==
    /\ pc[w] = "decide" /\ Turn(w)
    /\ \/ att[w] = NoAttempt /\ UNCHANGED <<attempts, history, due, errors>>
       \/ /\ att[w] # NoAttempt
          /\ \E ref \in {0, num[w]} :
              /\ IF ref = 0 THEN Errs ELSE UNCHANGED errors
              /\ IF verdict[w] = "actionable" THEN Actionable(att[w], ref)
                 ELSE ExpireIfDue(att[w], ref)
    /\ Ends(w)
    /\ UNCHANGED <<tracking, roots, event, pool, evals, stops>>

-----------------------------------------------------------------------------
\* A transaction raises out of the evaluation; a candidate that was being
\* replaced has left the pool by then.
Fails(w) ==
    /\ pc[w] # "idle" /\ Turn(w) /\ Errs
    /\ pool' = IF pc[w] = "replace" THEN 0 ELSE pool
    /\ Ends(w)
    /\ UNCHANGED <<tracking, tables, event, evals, stops>>

\* Mutant: attempts that are closed already are closed once more.
ReconcileAll ==
    \/ CloseAll(due, "EXPIRED", "startup") /\ UNCHANGED errors
    \/ Errs /\ UNCHANGED <<attempts, history, due>>

\* reconcile_shadow_lifecycle, which closes what is due, or fails.
Reconcile ==
    \/ CloseAll({id \in due : Open(id)}, "EXPIRED", "startup") /\ UNCHANGED errors
    \/ Errs /\ UNCHANGED <<attempts, history, due>>

\* The process stops; the next one starts up.
Restart ==
    /\ stops < MaxStops /\ stops' = stops + 1
    /\ Reconcile
    /\ tracking' \in Trackings
    /\ pool' = 0
    /\ pc' = [w \in Workers |-> "idle"]
    /\ root' = [w \in Workers |-> 0]
    /\ att' = [w \in Workers |-> NoAttempt]
    /\ verdict' = [w \in Workers |-> "none"]
    /\ num' = [w \in Workers |-> 0]
    /\ UNCHANGED <<roots, event, evals>>

BecomeDue ==
    /\ \E id \in Ids \ due : Open(id) /\ due' = due \cup {id}
    /\ UNCHANGED <<tracking, roots, attempts, history, event, pool, hands, counters>>

Next ==
    \/ Track \/ Replace \/ Select \/ CandidateLeaves
    \/ \E w \in Workers :
        \/ Skip(w) \/ EvaluateVolume(w) \/ UpsertVolume(w) \/ MarkActionable(w)
        \/ WriteFails(w) \/ EvaluateLow(w) \/ EvaluateOther(w) \/ Decide(w) \/ Fails(w)
    \/ Restart \/ BecomeDue

Spec == Init /\ [][Next]_vars

-----------------------------------------------------------------------------
(* Properties.                                                             *)

\* A root never gets more attempts than its cap, over all its revisions, both
\* lifecycles and both coroutines, the attempts that have closed included.
CapPerRoot == \A r \in Roots : Cardinality({id \in OfRoot(r) : Exists(id)}) <= Cap

\* The history, read in order, tells the state of each attempt: no change is
\* lost to an idempotency key, a closing is told at most once and comes last.
HistoryTellsState ==
    \A id \in Ids :
        /\ Exists(id) =>
            history[id] # <<>> /\ history[id][Len(history[id])].to = attempts[id].state
        /\ \A i \in DOMAIN history[id] : history[id][i].type = "closed" =>
            i = Len(history[id]) /\ attempts[id].life = "closed"

\* An attempt belongs to a root whose row is there and has reached the
\* attempt's revision: what reconciliation calls an orphan does not occur
\* unless a write failed, wherever the process stops.
AttemptHasRoot == errors = 0 => \A id \in Ids : Exists(id) => roots[id[1]] >= id[3]

\* An attempt that has closed is never written again, by an evaluation of an
\* old copy, by its TTL, by a replaced root or by the next start.
ClosedIsFinal == [][\A id \in Ids : attempts[id].life = "closed" => attempts'[id] = attempts[id]]_vars

\* A terminal state stays as long as nothing fails and nobody stops: an
\* actionable attempt does not turn into an expired or a replaced one.  (One
\* that a failure or a stop has left open is closed as expired or replaced.)
TerminalStays ==
    [][errors = 0 /\ stops' = 0 =>
        \A id \in Ids : attempts[id].state \in Terminal =>
            attempts'[id].state = attempts[id].state]_vars
=============================================================================
