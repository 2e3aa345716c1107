-------------------------- MODULE ScanCycleProofs --------------------------
(***************************************************************************)
(* Proofs about ScanCycle for any symbols, any universes and any number of *)
(* cycles and processes.                                                   *)
(***************************************************************************)
EXTENDS ScanCycle, TLAPS

\* The table of rotations by itself: n rows, now the process that runs.  The
\* newest row is the only one that may be open, the others tell what followed.
Chain(rows, n, now) ==
    /\ rows \in [RotIds -> Rotation] /\ n \in 0 .. MaxCycles
    /\ \A q \in RotIds : q > n => rows[q] = NoRotation
    /\ \A q \in RotIds : q <= n => rows[q].status # "ABSENT" /\ rows[q].runtime <= now
    /\ \A q \in RotIds : q = n => rows[q].status \in {"OPEN", "COMPLETED"}
    /\ \A q \in RotIds : q < n =>
        /\ rows[q].status # "OPEN"
        /\ rows[q].status = "ABORTED_RESTART" => rows[q].runtime < rows[q + 1].runtime
        /\ rows[q].status = "INCOMPLETE" =>
             rows[q].runtime = rows[q + 1].runtime /\ rows[q].universe # rows[q + 1].universe

\* CompletedMeansCovered of every row.
Covered(rows) ==
    \A q \in RotIds :
        /\ rows[q].status = "COMPLETED" =>
             \A s \in rows[q].universe.eligible : rows[q].results[s] \in Scanned
        /\ \A s \in Symbols : rows[q].results[s] \in Scanned => s \in rows[q].universe.eligible

\* LedgerBacksResults of every row.
Backed(rows, seen) ==
    \A q \in RotIds, s \in Symbols :
        rows[q].results[s] \in Scanned => <<q, s, rows[q].results[s]>> \in seen

\* The row is the open rotation of universe u and of process now.
IsCurrent(row, now, u) == row.status = "OPEN" /\ row.runtime = now /\ row.universe = u

\* The rows of the past stand in what comes later.
Stands(old, new) ==
    \A q \in RotIds :
        /\ old[q].status \notin {"ABSENT", "OPEN"} => new[q] = old[q]
        /\ \A s \in Symbols : old[q].results[s] # "NONE" => new[q].results[s] = old[q].results[s]

\* A rotation is known to a cycle only from its preparation to its end.
PreparedInCycle == pc \in {"off", "idle", "check", "fetched"} => prepared = 0

IInv ==
    /\ TypeOK
    /\ Chain(rotations, opened, runtime)
    /\ Covered(rotations)
    /\ Backed(rotations, ledger)
    /\ PreparedInCycle
    /\ PreparedRotationIsOpen

-----------------------------------------------------------------------------
(* What ensuring a rotation does to the table.                             *)

\* Only the newest row can be the newest open one.
LEMMA NewestIsLast ==
    ASSUME Chain(rotations, opened, runtime), NEW q \in RotIds, NewestOpen(q)
    PROVE  q = opened
<1>1. rotations[q].status = "OPEN" /\ q \in Nat /\ opened \in Nat
  BY ScanAssumption DEF NewestOpen, Open, RotIds, Chain
<1>2. q <= opened
  BY <1>1 DEF Chain, NoRotation
<1>3. ~(q < opened)
  BY <1>1 DEF Chain
<1>4. QED
  BY <1>1, <1>2, <1>3

\* A usable rotation is found, and the table is left alone.
LEMMA EnsuredReused ==
    ASSUME TypeOK, Chain(rotations, opened, runtime), NEW u \in Telemetry,
           NEW r \in RotIds, Mine(r, u), Reuses(u)
    PROVE  /\ Ensured(u) = rotations /\ EnsuredCount(u) = opened /\ r = opened
           /\ IsCurrent(rotations[r], runtime, u)
<1>1. Usable(r, u)
  BY DEF Mine
<1>2. r = opened
  BY <1>1, NewestIsLast DEF Usable
<1>3. QED
  BY <1>1, <1>2 DEF Ensured, EnsuredCount, IsCurrent, Usable, NewestOpen, Open

\* The row that is closed tells whether its process or its universe is over.
LEMMA ClosedTells ==
    ASSUME NEW x \in Rotation
    PROVE  /\ Closed(x) \in Rotation
           /\ Closed(x).runtime = x.runtime /\ Closed(x).universe = x.universe
           /\ Closed(x).results = x.results
           /\ Closed(x).status = IF x.runtime # runtime THEN "ABORTED_RESTART" ELSE "INCOMPLETE"
  BY DEF Closed, WithState, Rotation

\* Without one, the newest open row is closed behind a new one.
LEMMA EnsuredOpened ==
    ASSUME TypeOK, Chain(rotations, opened, runtime), NEW u \in Telemetry,
           NEW r \in RotIds, Mine(r, u), ~Reuses(u)
    PROVE  /\ EnsuredCount(u) = r /\ r = opened + 1
           /\ IsCurrent(Ensured(u)[r], runtime, u)
           /\ Chain(Ensured(u), r, runtime)
           /\ \A q \in RotIds : Ensured(u)[q].results = rotations[q].results
           /\ \A q \in RotIds : rotations[q].status \notin {"ABSENT", "OPEN"} =>
                Ensured(u)[q] = rotations[q]
           /\ \A q \in RotIds : q # r => Ensured(u)[q].universe = rotations[q].universe
           /\ \A q \in RotIds : Ensured(u)[q].status = "COMPLETED" => q # r
                                 /\ Ensured(u)[q] = rotations[q]
<1> DEFINE E == Ensured(u)
<1>1. r = opened + 1 /\ EnsuredCount(u) = r /\ opened \in 0 .. MaxCycles
  BY DEF Mine, EnsuredCount, Chain
<1>2. /\ r \in Nat /\ r >= 1 /\ opened \in Nat
      /\ \A q \in RotIds : q \in Nat /\ q >= 1 /\ q <= MaxCycles
      /\ MaxCycles \in Nat /\ runtime \in Nat
  BY <1>1, ScanAssumption DEF RotIds, TypeOK
<1>3. NoResults \in [Symbols -> Result]
  BY DEF NoResults, Result
<1>4. E[r] = Fresh(u) /\ Fresh(u) \in Rotation
  BY <1>1, <1>3 DEF Ensured, Fresh, Rotation, TypeOK
<1>5. \A q \in RotIds : q # r => E[q] = IF NewestOpen(q) THEN Closed(rotations[q]) ELSE rotations[q]
  BY <1>1 DEF Ensured
<1>6. \A q \in RotIds : rotations[q] \in Rotation
  BY DEF Chain
<1>7. rotations[r] = NoRotation
  BY <1>1, <1>2 DEF Chain
<1>8. \A q \in RotIds : q # r =>
        /\ E[q] \in Rotation /\ E[q].runtime = rotations[q].runtime
        /\ E[q].universe = rotations[q].universe /\ E[q].results = rotations[q].results
        /\ NewestOpen(q) => E[q].status = IF rotations[q].runtime # runtime
                                          THEN "ABORTED_RESTART" ELSE "INCOMPLETE"
        /\ ~NewestOpen(q) => E[q] = rotations[q]
  BY <1>5, <1>6, ClosedTells
<1>9. E \in [RotIds -> Rotation]
  <2>1. E = [q \in RotIds |-> E[q]]
    BY DEF Ensured
  <2>2. QED
    BY <2>1, <1>4, <1>8
<1>10. IsCurrent(E[r], runtime, u)
  BY <1>4 DEF Fresh, IsCurrent
<1>11. \A q \in RotIds : E[q].results = rotations[q].results
  BY <1>4, <1>7, <1>8 DEF Fresh, NoRotation
<1>12. \A q \in RotIds : rotations[q].status \notin {"ABSENT", "OPEN"} => E[q] = rotations[q]
  BY <1>7, <1>8 DEF NoRotation, NewestOpen, Open
<1>13. \A q \in RotIds : E[q].status = "COMPLETED" => q # r /\ E[q] = rotations[q]
  BY <1>8, <1>10 DEF IsCurrent
<1>14. \A q \in RotIds : q > r => E[q] = NoRotation
  <2> SUFFICES ASSUME NEW q \in RotIds, q > r PROVE E[q] = NoRotation
    OBVIOUS
  <2>1. rotations[q] = NoRotation /\ q # r
    BY <1>1, <1>2 DEF Chain
  <2>2. ~NewestOpen(q)
    BY <2>1 DEF NewestOpen, Open, NoRotation
  <2>3. QED
    BY <2>1, <2>2, <1>8
<1>15. \A q \in RotIds : q <= r => E[q].status # "ABSENT" /\ E[q].runtime <= runtime
  <2> SUFFICES ASSUME NEW q \in RotIds, q <= r
               PROVE  E[q].status # "ABSENT" /\ E[q].runtime <= runtime
    OBVIOUS
  <2>1. CASE q = r
    BY <2>1, <1>2, <1>10 DEF IsCurrent
  <2>2. CASE q # r
    <3>1. q <= opened
      BY <2>2, <1>1, <1>2
    <3>2. rotations[q].status # "ABSENT" /\ rotations[q].runtime <= runtime
      BY <3>1 DEF Chain
    <3>3. QED
      BY <3>2, <2>2, <1>8
  <2>3. QED
    BY <2>1, <2>2
<1>16. ASSUME NEW q \in RotIds, q < r
       PROVE  /\ E[q].status # "OPEN"
              /\ E[q].status = "ABORTED_RESTART" => E[q].runtime < E[q + 1].runtime
              /\ E[q].status = "INCOMPLETE" =>
                   E[q].runtime = E[q + 1].runtime /\ E[q].universe # E[q + 1].universe
  <2>1. q + 1 \in RotIds /\ q # r
    BY <1>16, <1>2 DEF RotIds
  <2>2. CASE q < opened
    <3>1. ~NewestOpen(q)
      BY <2>2, <1>2, NewestIsLast
    <3>2. q + 1 # r
      BY <2>2, <1>1, <1>2
    <3>3. E[q + 1].runtime = rotations[q + 1].runtime
          /\ E[q + 1].universe = rotations[q + 1].universe
      BY <3>2, <2>1, <1>8
    <3>4. E[q] = rotations[q]
      BY <3>1, <2>1, <1>8
    <3>5. QED
      BY <3>3, <3>4, <2>2 DEF Chain
  <2>3. CASE q = opened
    <3>1. E[q + 1].runtime = runtime /\ E[q + 1].universe = u
      BY <2>3, <1>1, <1>10 DEF IsCurrent
    <3>2. rotations[q].runtime <= runtime /\ rotations[q].runtime \in Nat
      BY <2>3, <1>2, <1>6 DEF Chain, Rotation
    <3>3. CASE NewestOpen(q)
      <4>1. rotations[q].runtime = runtime => rotations[q].universe # u
        BY <3>3 DEF Reuses, Usable
      <4>2. QED
        BY <4>1, <3>1, <3>2, <3>3, <2>1, <1>2, <1>8
    <3>4. CASE ~NewestOpen(q)
      <4>1. E[q] = rotations[q]
        BY <3>4, <2>1, <1>8
      <4>2. rotations[q].status # "OPEN"
        <5>1. \A p \in RotIds : Open(p) => p <= q
          BY <2>3, <1>2 DEF Chain, Open, NoRotation
        <5>2. QED
          BY <5>1, <3>4 DEF NewestOpen, Open
      <4>3. rotations[q].status = "COMPLETED"
        BY <4>2, <2>3 DEF Chain
      <4>4. QED
        BY <4>1, <4>3
    <3>5. QED
      BY <3>3, <3>4
  <2>4. q < opened \/ q = opened
    BY <1>16, <1>1, <1>2
  <2>5. QED
    BY <2>2, <2>3, <2>4
<1>17. Chain(E, r, runtime)
  <2>1. \A q \in RotIds : q = r => E[q].status \in {"OPEN", "COMPLETED"}
    BY <1>10 DEF IsCurrent
  <2>2. r \in 0 .. MaxCycles
    BY <1>2
  <2>3. QED
    BY <2>1, <2>2, <1>9, <1>14, <1>15, <1>16 DEF Chain
<1>18. QED
  BY <1>1, <1>8, <1>10, <1>11, <1>12, <1>13, <1>17
-----------------------------------------------------------------------------
(* What recording a cycle does to the rotation.                            *)

\* The table with row r completed or left open, and its result rows added.
Recorded(r) ==
    LET rows == Rows(Ensured(universe)[r].results, universe) IN
    [q \in RotIds |->
        IF q = r
        THEN WithState(Ensured(universe)[q],
                       IF Complete(rows, universe) THEN "COMPLETED" ELSE "OPEN", rows)
        ELSE Ensured(universe)[q]]

\* Result rows only join, each with what the ledger gets as well.
LEMMA RowsJoin ==
    ASSUME TypeOK, NEW old \in [Symbols -> Result], NEW r \in RotIds, NEW s \in Symbols
    PROVE  /\ Rows(old, universe) \in [Symbols -> Result]
           /\ old[s] # "NONE" => Rows(old, universe)[s] = old[s]
           /\ Rows(old, universe)[s] \in Scanned =>
                \/ old[s] \in Scanned /\ Rows(old, universe)[s] = old[s]
                \/ /\ s \in universe.eligible
                   /\ <<r, s, Rows(old, universe)[s]>> \in LedgerRows(r, universe)
<1>1. \A x \in Symbols : ended[x] \in Result
  BY DEF TypeOK
<1>2. Rows(old, universe) \in [Symbols -> Result]
  BY <1>1 DEF Rows, Result, Scanned
<1>3. old[s] # "NONE" => Rows(old, universe)[s] = old[s]
  BY DEF Rows
<1>4. ASSUME Rows(old, universe)[s] \in Scanned, old[s] = "NONE"
      PROVE  /\ s \in universe.eligible
             /\ <<r, s, Rows(old, universe)[s]>> \in LedgerRows(r, universe)
  <2>1. s \in scheduled \cap universe.eligible
    BY <1>4 DEF Rows, Scanned
  <2>2. Rows(old, universe)[s] = IF ended[s] = "NONE" THEN "SCAN_SKIPPED" ELSE ended[s]
    BY <1>4, <2>1 DEF Rows, Scanned
  <2>3. s \in universe.exchange
    BY <2>1, ScanAssumption DEF TypeOK, Telemetry, NoUniverse
  <2>4. QED
    BY <2>1, <2>2, <2>3 DEF LedgerRows
<1>5. QED
  BY <1>2, <1>3, <1>4 DEF Scanned

\* Ensured and recorded, the table is a good one, and what was there stands.
LEMMA RecordedGood ==
    ASSUME IInv, NEW r \in RotIds, Mine(r, universe)
    PROVE  /\ EnsuredCount(universe) = r
           /\ Chain(Recorded(r), r, runtime)
           /\ Covered(Recorded(r))
           /\ Backed(Recorded(r), ledger \cup LedgerRows(r, universe))
           /\ Stands(rotations, Recorded(r))
<1> DEFINE E == Ensured(universe)
           new == Recorded(r)
           results == Rows(E[r].results, universe)
           status == IF Complete(results, universe) THEN "COMPLETED" ELSE "OPEN"
<1>1. universe \in Telemetry /\ TypeOK /\ Chain(rotations, opened, runtime)
  BY DEF IInv, TypeOK
<1>2. /\ EnsuredCount(universe) = r
      /\ IsCurrent(E[r], runtime, universe)
      /\ Chain(E, r, runtime)
      /\ \A q \in RotIds : E[q].results = rotations[q].results
      /\ \A q \in RotIds : rotations[q].status \notin {"ABSENT", "OPEN"} => E[q] = rotations[q]
      /\ \A q \in RotIds : q # r => E[q].universe = rotations[q].universe
      /\ \A q \in RotIds : q # r /\ E[q].status = "COMPLETED" => E[q] = rotations[q]
      /\ rotations[r].status \in {"ABSENT", "OPEN"}
      /\ rotations[r].status = "ABSENT" \/ rotations[r].universe = universe
  <2>1. CASE Reuses(universe)
    BY <1>1, <2>1, EnsuredReused DEF IsCurrent
  <2>2. CASE ~Reuses(universe)
    <3>1. r = opened + 1 /\ r \in Nat /\ opened \in Nat
      BY <1>1, <2>2, EnsuredOpened DEF RotIds, Chain
    <3>2. rotations[r] = NoRotation
      BY <1>1, <3>1 DEF Chain
    <3>3. QED
      BY <1>1, <2>2, <3>2, EnsuredOpened DEF NoRotation
  <2>3. QED
    BY <2>1, <2>2
<1>3. /\ \A q \in RotIds : q # r => new[q] = E[q]
      /\ new[r] = WithState(E[r], status, results)
      /\ new = [q \in RotIds |-> new[q]]
  BY DEF Recorded
<1>4. E[r] \in Rotation /\ E[r].results \in [Symbols -> Result]
  BY <1>2 DEF Chain, Rotation
<1>5. /\ results \in [Symbols -> Result]
      /\ \A s \in Symbols : E[r].results[s] # "NONE" => results[s] = E[r].results[s]
      /\ \A s \in Symbols : results[s] \in Scanned =>
            \/ E[r].results[s] \in Scanned /\ results[s] = E[r].results[s]
            \/ /\ s \in universe.eligible
               /\ <<r, s, results[s]>> \in LedgerRows(r, universe)
  <2> HIDE DEF E
  <2>1. Rows(E[r].results, universe) \in [Symbols -> Result]
    <3>1. CASE Symbols = {}
      BY <3>1 DEF Rows
    <3>2. CASE Symbols # {}
      BY <1>1, <1>4, <3>2, RowsJoin
    <3>3. QED
      BY <3>1, <3>2
  <2>2. QED
    BY <1>1, <1>4, <2>1, RowsJoin
<1>6. /\ new[r] \in Rotation
      /\ new[r].status = status /\ new[r].runtime = runtime /\ new[r].universe = universe
      /\ new[r].results = results
  BY <1>2, <1>3, <1>4, <1>5 DEF WithState, Rotation, IsCurrent
<1> HIDE DEF E, new, results, status
<1>7. status \in {"OPEN", "COMPLETED"}
  BY DEF status
<1>8. Chain(new, r, runtime)
  <2>1. \A q \in RotIds : /\ new[q] \in Rotation
                          /\ new[q].runtime = E[q].runtime /\ new[q].universe = E[q].universe
                          /\ q # r => new[q] = E[q]
    BY <1>2, <1>3, <1>6 DEF Chain, IsCurrent
  <2>2. new \in [RotIds -> Rotation]
    BY <1>3, <2>1
  <2>3. \A q \in RotIds : q \in Nat /\ (q < r => q + 1 \in RotIds)
    BY ScanAssumption DEF RotIds
  <2>4. \A q \in RotIds : q > r => new[q] = NoRotation
    BY <1>2, <2>1, <2>3 DEF Chain
  <2>5. \A q \in RotIds : q <= r => new[q].status # "ABSENT" /\ new[q].runtime <= runtime
    BY <1>2, <1>6, <1>7, <2>1 DEF Chain
  <2>6. \A q \in RotIds : q = r => new[q].status \in {"OPEN", "COMPLETED"}
    BY <1>6, <1>7
  <2>7. ASSUME NEW q \in RotIds, q < r
        PROVE  /\ new[q].status # "OPEN"
               /\ new[q].status = "ABORTED_RESTART" => new[q].runtime < new[q + 1].runtime
               /\ new[q].status = "INCOMPLETE" =>
                    new[q].runtime = new[q + 1].runtime /\ new[q].universe # new[q + 1].universe
    <3>1. q # r /\ q + 1 \in RotIds
      BY <2>3, <2>7
    <3>2. new[q] = E[q] /\ new[q + 1].runtime = E[q + 1].runtime
          /\ new[q + 1].universe = E[q + 1].universe
      BY <2>1, <3>1
    <3>3. QED
      BY <1>2, <2>7, <3>2 DEF Chain
  <2>8. r \in 0 .. MaxCycles
    BY <1>2 DEF Chain
  <2>9. QED
    BY <2>2, <2>4, <2>5, <2>6, <2>7, <2>8 DEF Chain
<1>9. Covered(new)
  <2> SUFFICES ASSUME NEW q \in RotIds
               PROVE  /\ new[q].status = "COMPLETED" =>
                           \A s \in new[q].universe.eligible : new[q].results[s] \in Scanned
                      /\ \A s \in Symbols :
                           new[q].results[s] \in Scanned => s \in new[q].universe.eligible
    BY DEF Covered
  <2>1. CASE q = r
    <3>1. status = "COMPLETED" => \A s \in universe.eligible : results[s] \in Scanned
      BY DEF status, Complete
    <3>2. ASSUME NEW s \in Symbols, E[r].results[s] \in Scanned PROVE s \in universe.eligible
      <4>1. rotations[r].results[s] \in Scanned
        BY <1>2, <3>2
      <4>2. rotations[r].status # "ABSENT"
        <5>1. rotations[r].status = "ABSENT" => rotations[r] = NoRotation
          <6>1. r \in Nat /\ opened \in Nat
            BY <1>1, ScanAssumption DEF RotIds, Chain
          <6>2. r <= opened \/ r > opened
            BY <6>1
          <6>3. QED
            BY <1>1, <6>2 DEF Chain
        <5>2. QED
          BY <4>1, <5>1 DEF NoRotation, NoResults, Scanned
      <4>3. QED
        BY <1>2, <4>1, <4>2 DEF IInv, Covered
    <3>3. QED
      BY <1>5, <1>6, <2>1, <3>1, <3>2
  <2>2. CASE q # r
    <3>1. new[q] = E[q] /\ E[q].results = rotations[q].results
          /\ E[q].universe = rotations[q].universe
          /\ (E[q].status = "COMPLETED" => E[q] = rotations[q])
      BY <1>2, <1>3, <2>2
    <3>2. QED
      BY <3>1 DEF IInv, Covered
  <2>3. QED
    BY <2>1, <2>2
<1>10. Backed(new, ledger \cup LedgerRows(r, universe))
  <2> SUFFICES ASSUME NEW q \in RotIds, NEW s \in Symbols, new[q].results[s] \in Scanned
               PROVE  <<q, s, new[q].results[s]>> \in ledger \cup LedgerRows(r, universe)
    BY DEF Backed
  <2>1. rotations[q].results[s] \in Scanned => <<q, s, rotations[q].results[s]>> \in ledger
    BY DEF IInv, Backed
  <2>2. CASE q = r
    BY <1>2, <1>5, <1>6, <2>1, <2>2
  <2>3. CASE q # r
    BY <1>2, <1>3, <2>1, <2>3
  <2>4. QED
    BY <2>2, <2>3
<1>11. Stands(rotations, new)
  BY <1>2, <1>3, <1>5, <1>6 DEF Stands
<1>12. QED
  BY <1>2, <1>8, <1>9, <1>10, <1>11 DEF new

-----------------------------------------------------------------------------
(* The invariant.                                                          *)

LEMMA InitIInv == Init => IInv
<1> SUFFICES ASSUME Init PROVE IInv
  OBVIOUS
<1>1. NoRotation \in Rotation /\ NoResults \in [Symbols -> Result]
  BY ScanAssumption DEF NoRotation, Rotation, NoResults, Result, Telemetry
<1>2. rotations \in [RotIds -> Rotation] /\ \A q \in RotIds : rotations[q] = NoRotation
  BY <1>1 DEF Init
<1>3. TypeOK
  BY <1>1, <1>2, ScanAssumption DEF Init, TypeOK, Telemetry, CycleTable
<1>4. Chain(rotations, opened, runtime)
  BY <1>2, ScanAssumption DEF Init, Chain, RotIds
<1>5. Covered(rotations) /\ Backed(rotations, ledger)
  BY <1>2 DEF Covered, Backed, NoRotation, NoResults, Scanned
<1>6. PreparedInCycle /\ PreparedRotationIsOpen
  BY DEF Init, PreparedInCycle, PreparedRotationIsOpen
<1>7. QED
  BY <1>3, <1>4, <1>5, <1>6 DEF IInv

\* Only two transactions of a cycle write the tables.
LEMMA TablesKept ==
    ASSUME IInv, UNCHANGED <<runtime, tables>>,
           TypeOK', PreparedInCycle', PreparedRotationIsOpen'
    PROVE  IInv' /\ Stands(rotations, rotations')
<1>1. rotations' = rotations /\ opened' = opened /\ ledger' = ledger /\ runtime' = runtime
  BY DEF tables
<1>2. QED
  BY <1>1 DEF IInv, Stands

\* What a cycle forgets no invariant asks for.
LEMMA Forgotten ==
    ASSUME IInv, UNCHANGED <<runtime, started, tables>>, ForgetCycle,
           pc' \in {"off", "idle", "failing"}
    PROVE  IInv' /\ Stands(rotations, rotations')
<1>1. NoResults \in [Symbols -> Result]
  BY DEF NoResults, Result
<1>2. TypeOK'
  BY <1>1, ScanAssumption DEF IInv, TypeOK, ForgetCycle, tables, Telemetry
<1>3. PreparedInCycle' /\ PreparedRotationIsOpen'
  BY DEF ForgetCycle, PreparedInCycle, PreparedRotationIsOpen
<1>4. QED
  BY <1>2, <1>3, TablesKept

\* Outside the scan a cycle moves on without a rotation.
LEMMA MovesOn ==
    ASSUME IInv, UNCHANGED <<runtime, memory, tables>>, started' \in 0 .. MaxCycles,
           \/ pc \in {"off", "idle", "check"} /\ pc' \in {"idle", "check", "off", "failing"}
           \/ pc = "scan" /\ pc' = "record"
    PROVE  IInv' /\ Stands(rotations, rotations')
<1>1. TypeOK'
  BY DEF IInv, TypeOK, memory, tables
<1>2. PreparedInCycle' /\ PreparedRotationIsOpen'
  BY DEF IInv, PreparedInCycle, PreparedRotationIsOpen, memory, tables
<1>3. QED
  BY <1>1, <1>2, TablesKept

LEMMA StartIInv == ASSUME IInv, Start PROVE IInv' /\ Stands(rotations, rotations')
<1>1. /\ rotations' = rotations /\ opened' = opened /\ ledger' = ledger
      /\ prepared' = prepared /\ runtime \in Nat /\ runtime' = runtime + 1
      /\ pc' \in {"idle", "off"} /\ prepared = 0
  BY ScanAssumption DEF Start, memory, tables, IInv, TypeOK, PreparedInCycle, Report
<1>2. TypeOK'
  BY ScanAssumption DEF IInv, TypeOK, Start, memory, tables, Report
<1>3. \A q \in RotIds : rotations[q].runtime \in Nat
  BY ScanAssumption DEF IInv, Chain, Rotation
<1>4. Chain(rotations, opened, runtime)' /\ Covered(rotations)' /\ Backed(rotations, ledger)'
  BY <1>1, <1>3 DEF IInv, Chain, Covered, Backed
<1>5. PreparedInCycle' /\ PreparedRotationIsOpen'
  BY <1>1 DEF PreparedInCycle, PreparedRotationIsOpen
<1>6. QED
  BY <1>1, <1>2, <1>4, <1>5 DEF IInv, Stands

LEMMA FetchIInv ==
    ASSUME IInv, NEW u \in Universes, FetchUniverse(u)
    PROVE  IInv' /\ Stands(rotations, rotations')
<1>1. TypeOK'
  BY DEF IInv, TypeOK, FetchUniverse, tables, Telemetry
<1>2. PreparedInCycle' /\ PreparedRotationIsOpen'
  BY DEF IInv, PreparedInCycle, PreparedRotationIsOpen, FetchUniverse
<1>3. QED
  BY <1>1, <1>2, TablesKept DEF FetchUniverse

\* Scheduled symbols are symbols.
LEMMA ScheduleTyped ==
    ASSUME TypeOK, Schedule
    PROVE  scheduled' \in SUBSET Symbols /\ todo' \in SUBSET scheduled'
<1>1. universe.eligible \subseteq Symbols
  BY ScanAssumption DEF TypeOK, Telemetry, NoUniverse
<1>2. QED
  BY <1>1 DEF Schedule, Shortlists

LEMMA PrepareFailsIInv ==
    ASSUME IInv, PrepareFails PROVE IInv' /\ Stands(rotations, rotations')
<1>1. scheduled' \in SUBSET Symbols /\ todo' \in SUBSET scheduled'
  BY ScheduleTyped DEF IInv, PrepareFails
<1>2. TypeOK'
  BY <1>1 DEF IInv, TypeOK, PrepareFails, tables
<1>3. PreparedInCycle' /\ PreparedRotationIsOpen'
  BY DEF IInv, PreparedInCycle, PreparedRotationIsOpen, PrepareFails
<1>4. QED
  BY <1>2, <1>3, TablesKept DEF PrepareFails

\* The rotation the cycle refers to is the one that was found or opened.
LEMMA PrepareRotationIInv ==
    ASSUME IInv, PrepareRotation PROVE IInv' /\ Stands(rotations, rotations')
<1>1. PICK r \in RotIds : Mine(r, universe) /\ prepared' = r
  BY DEF PrepareRotation
<1>2. /\ TypeOK /\ Chain(rotations, opened, runtime) /\ universe \in Telemetry
      /\ rotations' = Ensured(universe) /\ opened' = EnsuredCount(universe)
      /\ runtime' = runtime /\ universe' = universe /\ ledger' = ledger
  BY DEF IInv, TypeOK, PrepareRotation
<1>3. /\ opened' = r
      /\ Chain(rotations', r, runtime)
      /\ IsCurrent(rotations'[r], runtime, universe)
      /\ \A q \in RotIds : rotations'[q].results = rotations[q].results
      /\ \A q \in RotIds : rotations[q].status \notin {"ABSENT", "OPEN"} =>
            rotations'[q] = rotations[q]
      /\ \A q \in RotIds : rotations'[q].status = "COMPLETED" => rotations'[q] = rotations[q]
      /\ \A q \in RotIds : rotations'[q].universe = rotations[q].universe
                            \/ rotations[q] = NoRotation
  <2>1. CASE Reuses(universe)
    BY <1>1, <1>2, <2>1, EnsuredReused
  <2>2. CASE ~Reuses(universe)
    <3>1. rotations[r] = NoRotation
      <4>1. r = opened + 1 /\ opened \in Nat
        BY <1>1, <1>2, <2>2, EnsuredOpened DEF Chain
      <4>2. QED
        BY <1>2, <4>1 DEF Chain
    <3>2. QED
      BY <1>1, <1>2, <2>2, <3>1, EnsuredOpened
  <2>3. QED
    BY <2>1, <2>2
<1>4. scheduled' \in SUBSET Symbols /\ todo' \in SUBSET scheduled'
  BY <1>2, ScheduleTyped DEF PrepareRotation
<1>5. r \in 0 .. MaxCycles
  BY <1>3 DEF Chain
<1>6. TypeOK'
  BY <1>1, <1>2, <1>3, <1>4, <1>5 DEF TypeOK, PrepareRotation, Chain
<1>7. Covered(rotations')
  <2> SUFFICES ASSUME NEW q \in RotIds
               PROVE  /\ rotations'[q].status = "COMPLETED" =>
                           \A s \in rotations'[q].universe.eligible :
                                rotations'[q].results[s] \in Scanned
                      /\ \A s \in Symbols : rotations'[q].results[s] \in Scanned =>
                           s \in rotations'[q].universe.eligible
    BY DEF Covered
  <2>1. rotations[q] = NoRotation => \A s \in Symbols : rotations'[q].results[s] \notin Scanned
    BY <1>3 DEF NoRotation, NoResults, Scanned
  <2>2. QED
    BY <1>3, <2>1 DEF IInv, Covered
<1>8. Backed(rotations', ledger)
  BY <1>3 DEF IInv, Backed
<1>9. PreparedInCycle' /\ PreparedRotationIsOpen'
  BY <1>1, <1>2, <1>3 DEF PreparedInCycle, PreparedRotationIsOpen, PrepareRotation, IsCurrent
<1>10. QED
  BY <1>2, <1>3, <1>6, <1>7, <1>8, <1>9 DEF IInv, Stands

LEMMA SymbolIInv ==
    ASSUME IInv, NEW s \in Symbols, ScanSymbol(s) \/ SymbolRaises(s)
    PROVE  IInv' /\ Stands(rotations, rotations')
<1>1. PICK result \in {"SCANNED_OK", "SCAN_FAILED"} : SymbolEnds(s, result)
  BY DEF ScanSymbol, SymbolRaises
<1>2. pc' \in {"scan", "failing"}
  BY <1>1 DEF ScanSymbol, SymbolRaises, SymbolEnds, Report
<1>3. TypeOK'
  BY <1>1, <1>2 DEF IInv, TypeOK, SymbolEnds, tables, Result, Scanned
<1>4. PreparedInCycle' /\ PreparedRotationIsOpen'
  BY <1>1, <1>2 DEF IInv, PreparedInCycle, PreparedRotationIsOpen, SymbolEnds, tables
<1>5. QED
  BY <1>1, <1>3, <1>4, TablesKept DEF SymbolEnds

LEMMA RecordIInv == ASSUME IInv, Record PROVE IInv' /\ Stands(rotations, rotations')
<1>1. PICK r \in RotIds :
        /\ Mine(r, universe)
        /\ rotations' = Recorded(r)
        /\ cycles' = Append(cycles, r)
        /\ ledger' = ledger \cup LedgerRows(r, universe)
  BY DEF Record, Recorded
<1>2. /\ opened' = r /\ runtime' = runtime
      /\ Chain(rotations', r, runtime) /\ Covered(rotations')
      /\ Backed(rotations', ledger') /\ Stands(rotations, rotations')
  BY <1>1, RecordedGood DEF Record
<1>3. PreparedInCycle' /\ PreparedRotationIsOpen'
  BY DEF Record, ForgetCycle, PreparedInCycle, PreparedRotationIsOpen
<1>4. ledger' \in SUBSET LedgerRow
  <2>1. universe.exchange \subseteq Symbols
    BY ScanAssumption DEF IInv, TypeOK, Telemetry, NoUniverse
  <2>2. \A s \in Symbols : ended[s] \in Result
    BY DEF IInv, TypeOK
  <2>3. LedgerRows(r, universe) \subseteq LedgerRow
    BY <2>1, <2>2 DEF LedgerRows, LedgerRow, Result, Scanned
  <2>4. QED
    BY <1>1, <2>3 DEF IInv, TypeOK
<1>5. cycles' \in CycleTable
  BY <1>1 DEF IInv, TypeOK, CycleTable
<1>6. NoResults \in [Symbols -> Result]
  BY DEF NoResults, Result
<1>7. TypeOK'
  BY <1>2, <1>4, <1>5, <1>6, ScanAssumption
     DEF IInv, TypeOK, Record, ForgetCycle, Telemetry, Chain
<1>8. QED
  BY <1>2, <1>3, <1>7 DEF IInv

LEMMA NextIInv == ASSUME IInv, [Next]_vars PROVE IInv' /\ Stands(rotations, rotations')
<1>1. CASE UNCHANGED vars
  BY <1>1 DEF vars, memory, tables, IInv, TypeOK, Chain, Covered, Backed, PreparedInCycle,
              PreparedRotationIsOpen, Stands
<1>2. CASE Start
  BY <1>2, StartIInv
<1>3. CASE BeginCycle \/ StorageUnhealthy \/ OutcomesUpdated
  <2>1. started' \in 0 .. MaxCycles
    BY <1>3, ScanAssumption DEF BeginCycle, StorageUnhealthy, OutcomesUpdated, IInv, TypeOK
  <2>2. QED
    BY <1>3, <2>1, MovesOn DEF BeginCycle, StorageUnhealthy, OutcomesUpdated, Report
<1>4. ASSUME NEW u \in Universes, FetchUniverse(u) PROVE IInv' /\ Stands(rotations, rotations')
  BY <1>4, FetchIInv
<1>5. CASE PrepareRotation \/ PrepareFails
  BY <1>5, PrepareRotationIInv, PrepareFailsIInv
<1>6. ASSUME NEW s \in Symbols, ScanSymbol(s) \/ SymbolRaises(s)
      PROVE  IInv' /\ Stands(rotations, rotations')
  BY <1>6, SymbolIInv
<1>7. CASE Record
  BY <1>7, RecordIInv
<1>8. CASE RecordFails \/ CycleRaises \/ HandleCycleError \/ Crash
  BY <1>8, Forgotten DEF RecordFails, CycleRaises, HandleCycleError, Crash, Report
<1>9. QED
  BY <1>1, <1>2, <1>3, <1>4, <1>5, <1>6, <1>7, <1>8 DEF Next

THEOREM SpecIInv == Spec => []IInv
  BY InitIInv, NextIInv, PTL DEF Spec

-----------------------------------------------------------------------------
(* What the invariant gives.                                               *)

\* The tables of rotations, cycles and coverage keep their types, whatever
\* universes are seen and wherever a process stops.
THEOREM ScanTypeCorrect == Spec => []TypeOK
<1>1. IInv => TypeOK
  BY DEF IInv
<1>2. QED
  BY <1>1, SpecIInv, PTL

\* Every rotation but the newest is closed, and its status says truly whether
\* another process or another universe came next.
THEOREM ClosedTellsWhy == Spec => []ClosedStatusTellsWhy
<1>1. IInv => ClosedStatusTellsWhy
  <2> SUFFICES ASSUME IInv, NEW r \in RotIds, r < opened
               PROVE  /\ rotations[r].status \notin {"ABSENT", "OPEN"}
                      /\ rotations[r].status = "ABORTED_RESTART" =>
                           rotations[r].runtime < rotations[r + 1].runtime
                      /\ rotations[r].status = "INCOMPLETE" =>
                           /\ rotations[r].runtime = rotations[r + 1].runtime
                           /\ rotations[r].universe # rotations[r + 1].universe
    BY DEF ClosedStatusTellsWhy
  <2>1. r <= opened
    BY ScanAssumption DEF RotIds, IInv, TypeOK
  <2>2. QED
    BY <2>1 DEF IInv, Chain
<1>2. QED
  BY <1>1, SpecIInv, PTL

\* A completed rotation covers its universe, and scan results are of eligible
\* symbols only.
THEOREM CompletedCovers == Spec => []CompletedMeansCovered
<1>1. IInv => CompletedMeansCovered
  <2>1. IInv => 1 .. opened \subseteq RotIds
    BY ScanAssumption DEF IInv, TypeOK, RotIds
  <2>2. QED
    BY <2>1 DEF IInv, Covered, CompletedMeansCovered
<1>2. QED
  BY <1>1, SpecIInv, PTL

\* What the telemetry of a cycle refers to is the open rotation that its record
\* will find.
THEOREM PreparedIsOpen == Spec => []PreparedRotationIsOpen
<1>1. IInv => PreparedRotationIsOpen
  BY DEF IInv
<1>2. QED
  BY <1>1, SpecIInv, PTL

\* Every scan result of a rotation is an observation of the coverage ledger.
THEOREM LedgerBacks == Spec => []LedgerBacksResults
<1>1. IInv => LedgerBacksResults
  BY DEF IInv, Backed, LedgerBacksResults
<1>2. QED
  BY <1>1, SpecIInv, PTL

\* No later cycle, process or failure rewrites a closed rotation or the first
\* result of a symbol in one.
THEOREM RotationsStand == Spec => HistoryStands
<1>1. ASSUME IInv, [Next]_vars
      PROVE  [ \A r \in RotIds :
                 /\ rotations[r].status \notin {"ABSENT", "OPEN"} => rotations'[r] = rotations[r]
                 /\ \A s \in Symbols : rotations[r].results[s] # "NONE" =>
                      rotations'[r].results[s] = rotations[r].results[s] ]_vars
  BY <1>1, NextIInv DEF Stands
<1>2. QED
  BY <1>1, SpecIInv, PTL DEF Spec, HistoryStands
=============================================================================
