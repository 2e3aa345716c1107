----------------------------- MODULE ScanCycle -----------------------------
(***************************************************************************)
(* run_cycle of the scanner from its first check to the coverage record:   *)
(* which symbols a cycle schedules, how each of them ends, which errors    *)
(* stop the symbol, the cycle or the process, and what the tables          *)
(* market_scan_rotations, market_scan_symbol_results, market_scan_cycles   *)
(* and market_coverage_ledger hold afterwards.                             *)
(*                                                                         *)
(* A rotation is the set of cycles in which one process saw one universe,  *)
(* until every eligible symbol has a result.  The rows of the result table *)
(* are kept with their rotation (results).  The signals a symbol leads to  *)
(* are in EventSignals; here a symbol only ends well, ill or in an         *)
(* exception.                                                              *)
(***************************************************************************)
EXTENDS Naturals, Sequences, FiniteSets

CONSTANTS Symbols,
          Universes,     \* records of the exchange's and the eligible symbols
          ShortlistSize, \* config.shortlist_size
          MaxActive,     \* bound: symbols with an active event at a time
          MaxCycles,     \* bound: cycles started in one behaviour
          MaxRuntimes    \* bound: processes started one after the other

ASSUME ScanAssumption ==
    /\ Universes \subseteq [exchange : SUBSET Symbols, eligible : SUBSET Symbols]
    /\ \A u \in Universes : u.eligible \subseteq u.exchange
    /\ ShortlistSize \in Nat \ {0}
    /\ MaxActive \in Nat /\ MaxCycles \in Nat /\ MaxRuntimes \in Nat

RotIds == 1 .. MaxCycles

Scanned == {"SCANNED_OK", "SCAN_FAILED", "SCAN_SKIPPED"}
Result == Scanned \cup {"EXCLUDED", "NONE"}

NoResults == [s \in Symbols |-> "NONE"]

NoUniverse == [exchange |-> {}, eligible |-> {}]

\* What a fetch leaves in the scanner; NoUniverse: nothing yet.
Telemetry == Universes \cup {NoUniverse}

Rotation == [runtime  : 0 .. MaxRuntimes,
             universe : Telemetry,
             status   : {"ABSENT", "OPEN", "COMPLETED", "INCOMPLETE", "ABORTED_RESTART"},
             results  : [Symbols -> Result]]

\* The cycle's sequence number is its place, its rotation the value there.
CycleTable == Seq(RotIds)

\* One observation of a symbol: rotation, symbol, scan_status.
LedgerRow == RotIds \X Symbols \X Result

NoRotation == [runtime |-> 0, universe |-> NoUniverse, status |-> "ABSENT",
               results |-> NoResults]

VARIABLES runtime,   \* the process that runs, or ran last (runtime_instance_id)
          pc,        \* where run_cycle is; "off": no process
          started,   \* cycles begun, of all processes
          universe,  \* scanner.last_universe_telemetry
          prepared,  \* _shadow_rotation_id, 0 for "unknown"
          scheduled, \* the symbols of this cycle
          todo,      \* those not dealt with yet
          ended,     \* symbol_results
          rotations, \* the table of rotations with their result rows, persistent
          opened,    \* rows of that table
          cycles,    \* the table of cycles: the rotation of each, persistent
          ledger     \* rows <<rotation, symbol, scan_status>>, persistent

memory == <<universe, prepared, scheduled, todo, ended>>
tables == <<rotations, opened, cycles, ledger>>
vars == <<runtime, pc, started, memory, tables>>

TypeOK ==
    /\ runtime \in 0 .. MaxRuntimes
    /\ pc \in {"off", "idle", "check", "fetched", "scan", "record", "failing"}
    /\ started \in 0 .. MaxCycles
    /\ universe \in Telemetry
    /\ prepared \in 0 .. MaxCycles
    /\ scheduled \in SUBSET Symbols
    /\ todo \in SUBSET scheduled
    /\ ended \in [Symbols -> Result]
    /\ rotations \in [RotIds -> Rotation]
    /\ opened \in 0 .. MaxCycles
    /\ cycles \in CycleTable
    /\ ledger \in SUBSET LedgerRow

Init ==
    /\ runtime = 0
    /\ pc = "off"
    /\ started = 0
    /\ universe = NoUniverse
    /\ prepared = 0
    /\ scheduled = {}
    /\ todo = {}
    /\ ended = NoResults
    /\ rotations = [r \in RotIds |-> NoRotation]
    /\ opened = 0
    /\ cycles = <<>>
    /\ ledger = {}

-----------------------------------------------------------------------------
(* The rotation a transaction works on.                                    *)

Open(r) == rotations[r].status = "OPEN"

\* The newest open row, the only one the repository looks at.
NewestOpen(r) == Open(r) /\ \A q \in RotIds : Open(q) => q <= r

\* Mutant: the open rotation of an earlier process is taken over.
UsableAnyRuntime(r, u) == NewestOpen(r) /\ rotations[r].universe = u

Usable(r, u) ==
    /\ NewestOpen(r)
    /\ rotations[r].runtime = runtime
    /\ rotations[r].universe = u

WithState(x, status, results) ==
    [runtime |-> x.runtime, universe |-> x.universe, status |-> status, results |-> results]

\* Mutant: every rotation that does not fit counts as one of an earlier process.
ClosedAlike(x) == WithState(x, "ABORTED_RESTART", x.results)

\* Mutant: a rotation that does not fit has FAILED, as ROTATION_STATUSES allows.
ClosedFailed(x) == WithState(x, "FAILED", x.results)

Closed(x) ==
    IF x.runtime # runtime THEN WithState(x, "ABORTED_RESTART", x.results)
                           ELSE WithState(x, "INCOMPLETE", x.results)

Fresh(u) == [runtime |-> runtime, universe |-> u, status |-> "OPEN", results |-> NoResults]

Reuses(u) == \E r \in RotIds : Usable(r, u)

\* The rotation of universe u, and the table with it: the newest open row
\* when it fits, or a new row and the newest open one closed.
Mine(r, u) == IF Reuses(u) THEN Usable(r, u) ELSE r = opened + 1

Ensured(u) ==
    IF Reuses(u) THEN rotations
    ELSE [q \in RotIds |-> IF q = opened + 1 THEN Fresh(u)
                           ELSE IF NewestOpen(q) THEN Closed(rotations[q])
                           ELSE rotations[q]]

EnsuredCount(u) == IF Reuses(u) THEN opened ELSE opened + 1

-----------------------------------------------------------------------------
(* What record_market_scan_cycle stores.                                   *)

\* Mutant: a later result of the rotation replaces an earlier one.
RowsReplaced(old, u) ==
    [s \in Symbols |->
        IF s \in u.exchange \ u.eligible THEN "EXCLUDED"
        ELSE IF s \in scheduled \cap u.eligible THEN ended[s]
        ELSE old[s]]

\* One row per symbol of the rotation, and the first one stays: excluded
\* symbols first, then the scheduled ones that are eligible.
Rows(old, u) ==
    [s \in Symbols |->
        IF old[s] # "NONE" THEN old[s]
        ELSE IF s \in u.exchange \ u.eligible THEN "EXCLUDED"
        ELSE IF s \in scheduled \cap u.eligible
             THEN IF ended[s] = "NONE" THEN "SCAN_SKIPPED" ELSE ended[s]
        ELSE "NONE"]

\* Mutant: the excluded symbols count as covered too.
CompleteCounting(results, u) ==
    Cardinality({s \in u.exchange : results[s] # "NONE"}) >= Cardinality(u.eligible)

Complete(results, u) == \A s \in u.eligible : results[s] \in Scanned

\* Mutant: the ledger knows the schedule but not the results.
LedgerRowsBlind(r, u) ==
    {<<r, s, IF s \in u.eligible THEN "SCAN_SKIPPED" ELSE "EXCLUDED">> : s \in u.exchange}

\* build_coverage_rows: one row for every symbol of the exchange.
LedgerRows(r, u) ==
    {<<r, s, IF ended[s] # "NONE" THEN ended[s]
             ELSE IF s \in u.eligible THEN "SCAN_SKIPPED" ELSE "EXCLUDED">> : s \in u.exchange}

-----------------------------------------------------------------------------
(* Errors.                                                                 *)

\* _handle_error: the alert is throttled, sent, or raises.  One that raises
\* goes where the exception that caused it would have gone.
Report(next, outer) == pc' \in {next, outer}

\* What a cycle knows is used by no later one.
ForgetCycle ==
    /\ universe' = NoUniverse
    /\ prepared' = 0
    /\ scheduled' = {}
    /\ todo' = {}
    /\ ended' = NoResults

-----------------------------------------------------------------------------
\* A process starts.  Its first storage check may fail; startup then
\* returns, unless the alert of the failure raises.
Start ==
    /\ pc = "off"
    /\ runtime < MaxRuntimes
    /\ runtime' = runtime + 1
    /\ Report("idle", "off")
    /\ UNCHANGED <<started, memory, tables>>

BeginCycle ==
    /\ pc = "idle"
    /\ started < MaxCycles
    /\ started' = started + 1
    /\ pc' = "check"
    /\ UNCHANGED <<runtime, memory, tables>>

\* The storage check of the cycle fails: the cycle is over.
StorageUnhealthy ==
    /\ pc = "check"
    /\ Report("idle", "failing")
    /\ UNCHANGED <<runtime, started, memory, tables>>

\* The backlog is drained, the active events are read and the market answers.
FetchUniverse(u) ==
    /\ pc = "check"
    /\ universe' = u
    /\ pc' = "fetched"
    /\ UNCHANGED <<runtime, started, prepared, scheduled, todo, ended, tables>>

\* build_shortlist ranks: which symbols it takes depends on prices, how many
\* it takes does not.
Shortlists(u) ==
    {S \in SUBSET u.eligible :
        Cardinality(S) = IF Cardinality(u.eligible) < ShortlistSize
                         THEN Cardinality(u.eligible) ELSE ShortlistSize}

\* The shortlist and every symbol with an active event, listed or not.
Schedule ==
    \E S \in Shortlists(universe), active \in SUBSET Symbols :
        /\ Cardinality(active) <= MaxActive
        /\ scheduled' = S \cup active
        /\ todo' = S \cup active

\* prepare_market_scan_rotation, then the symbols of the cycle.
PrepareRotation ==
    /\ pc = "fetched"
    /\ rotations' = Ensured(universe)
    /\ opened' = EnsuredCount(universe)
    /\ \E r \in RotIds : Mine(r, universe) /\ prepared' = r
    /\ Schedule
    /\ pc' = "scan"
    /\ UNCHANGED <<runtime, started, universe, ended, cycles, ledger>>

\* The preparation swallows its own errors.
PrepareFails ==
    /\ pc = "fetched"
    /\ Schedule
    /\ pc' = "scan"
    /\ UNCHANGED <<runtime, started, universe, prepared, ended, tables>>

SymbolEnds(s, result) ==
    /\ pc = "scan" /\ s \in todo
    /\ todo' = todo \ {s}
    /\ ended' = [ended EXCEPT ![s] = result]
    /\ UNCHANGED <<runtime, started, universe, prepared, scheduled, tables>>

\* No candles for the symbol, or its evaluation ended.
ScanSymbol(s) ==
    /\ \E result \in {"SCANNED_OK", "SCAN_FAILED"} : SymbolEnds(s, result)
    /\ UNCHANGED <<pc>>

\* The evaluation raised: the symbol failed, the cycle goes on.
SymbolRaises(s) ==
    /\ SymbolEnds(s, "SCAN_FAILED")
    /\ Report("scan", "failing")

\* update_outcomes came to its end.
OutcomesUpdated ==
    /\ pc = "scan" /\ todo = {}
    /\ pc' = "record"
    /\ UNCHANGED <<runtime, started, memory, tables>>

\* record_market_scan_cycle: the rotation is looked up again, by itself.
Record ==
    /\ pc = "record"
    /\ \E r \in RotIds :
        /\ Mine(r, universe)
        /\ LET rows == Rows(Ensured(universe)[r].results, universe) IN
           rotations' = [q \in RotIds |->
               IF q = r
               THEN WithState(Ensured(universe)[q],
                              IF Complete(rows, universe) THEN "COMPLETED" ELSE "OPEN", rows)
               ELSE Ensured(universe)[q]]
        /\ cycles' = Append(cycles, r)
        /\ ledger' = ledger \cup LedgerRows(r, universe)
    /\ opened' = EnsuredCount(universe)
    /\ pc' = "idle"
    /\ ForgetCycle
    /\ UNCHANGED <<runtime, started>>

\* The record failed and returned None.
RecordFails ==
    /\ pc = "record"
    /\ Report("idle", "failing")
    /\ ForgetCycle
    /\ UNCHANGED <<runtime, started, tables>>

\* Anything else in the cycle raises: the drain, the market, the preparation
\* of frames, saving a state, the outcomes.  The cycle is left as it is.
CycleRaises ==
    /\ pc \in {"check", "scan"}
    /\ pc' = "failing"
    /\ ForgetCycle
    /\ UNCHANGED <<runtime, started, tables>>

\* The handler of run_cycle.  An alert that raises here ends run_forever.
HandleCycleError ==
    /\ pc = "failing"
    /\ Report("idle", "off")
    /\ ForgetCycle
    /\ UNCHANGED <<runtime, started, tables>>

\* The process stops wherever it is.
Crash ==
    /\ pc # "off"
    /\ pc' = "off"
    /\ ForgetCycle
    /\ UNCHANGED <<runtime, started, tables>>

Next ==
    \/ Start \/ BeginCycle \/ StorageUnhealthy
    \/ \E u \in Universes : FetchUniverse(u)
    \/ PrepareRotation \/ PrepareFails
    \/ \E s \in Symbols : ScanSymbol(s) \/ SymbolRaises(s)
    \/ OutcomesUpdated \/ Record \/ RecordFails
    \/ CycleRaises \/ HandleCycleError \/ Crash

Spec == Init /\ [][Next]_vars

-----------------------------------------------------------------------------
(* Properties.                                                             *)

\* Rotations follow each other: every row but the newest is closed, and the
\* way it was closed says what came next, whatever failed in between.  A
\* rotation of an earlier process was aborted by the first rotation of a
\* later one; an incomplete one was followed by another universe seen by
\* the same process.
ClosedStatusTellsWhy ==
    \A r \in RotIds : r < opened =>
        LET this == rotations[r] next == rotations[r + 1] IN
        /\ this.status \notin {"ABSENT", "OPEN"}
        /\ this.status = "ABORTED_RESTART" => this.runtime < next.runtime
        /\ this.status = "INCOMPLETE" =>
             this.runtime = next.runtime /\ this.universe # next.universe

\* A rotation is complete only when each eligible symbol of its own universe
\* has been scanned in it, ill or well; an excluded symbol never has a scan
\* result, though a cycle may scan it for its active event.
CompletedMeansCovered ==
    \A r \in 1 .. opened :
        LET x == rotations[r] IN
        /\ x.status = "COMPLETED" => \A s \in x.universe.eligible : x.results[s] \in Scanned
        /\ \A s \in Symbols : x.results[s] \in Scanned => s \in x.universe.eligible

\* The rotation that the telemetry of this cycle's symbols refers to is the
\* open one of this process and this universe for as long as symbols are
\* scanned, so that the record finds the same one ("Open or reuse the exact
\* rotation that the current scan will record").
PreparedRotationIsOpen ==
    pc \in {"scan", "record"} /\ prepared # 0 =>
        /\ prepared = opened
        /\ rotations[prepared].status = "OPEN"
        /\ rotations[prepared].runtime = runtime
        /\ rotations[prepared].universe = universe

\* A result row is backed by the ledger: the first result of a symbol in a
\* rotation is what some cycle of that rotation observed.
LedgerBacksResults ==
    \A r \in RotIds, s \in Symbols :
        rotations[r].results[s] \in Scanned => <<r, s, rotations[r].results[s]>> \in ledger

\* A closed rotation never changes again, and the first result of a symbol
\* in a rotation stands.
HistoryStands ==
    [][ \A r \in RotIds :
          /\ rotations[r].status \notin {"ABSENT", "OPEN"} => rotations'[r] = rotations[r]
          /\ \A s \in Symbols : rotations[r].results[s] # "NONE" =>
                rotations'[r].results[s] = rotations[r].results[s] ]_vars
=============================================================================
