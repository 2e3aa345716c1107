-------------------------- MODULE FastMonitorProofs --------------------------
(***************************************************************************)
(* Proofs about FastMonitor for every set of symbols and event ids, every  *)
(* slice of a poll and time to live.                                       *)
(***************************************************************************)
EXTENDS FastMonitor, FiniteSetTheorems, TLAPS

-----------------------------------------------------------------------------
(* A filter.                                                               *)

\* Every n up to the number of positions is the rank of one of them.
LEMMA PositionRank ==
    ASSUME NEW I \in SUBSET Nat, IsFiniteSet(I), NEW n \in 1 .. Cardinality(I)
    PROVE  Position(I, n) \in I /\ Cardinality({j \in I : j <= Position(I, n)}) = n
<1> DEFINE upto(i) == {j \in I : j <= i}
           rank == [i \in I |-> Cardinality(upto(i))]
           N == Cardinality(I)
<1>1. N \in Nat /\ IsFiniteSet(1 .. N) /\ Cardinality(1 .. N) = N
  BY FS_CardinalityType, FS_Interval
<1>2. ASSUME NEW i \in I
      PROVE  /\ IsFiniteSet(upto(i)) /\ Cardinality(upto(i)) \in 1 .. N
             /\ i \in upto(i)
  <2>1. upto(i) \in SUBSET I /\ i \in upto(i)
    OBVIOUS
  <2>2. IsFiniteSet(upto(i)) /\ Cardinality(upto(i)) <= N
    BY <2>1, FS_Subset
  <2>3. Cardinality(upto(i)) \in Nat /\ Cardinality(upto(i)) # 0
    BY <2>1, <2>2, FS_CardinalityType, FS_EmptySet
  <2>4. QED
    BY <1>1, <2>1, <2>2, <2>3
<1>3. ASSUME NEW i \in I, NEW k \in I, i < k
      PROVE  Cardinality(upto(i)) # Cardinality(upto(k))
  <2>1. upto(i) \in SUBSET upto(k)
    <3>1. i \in Int /\ k \in Int /\ I \subseteq Int
      OBVIOUS
    <3>2. ASSUME NEW j \in I, j <= i PROVE j <= k
      BY <1>3, <3>1, <3>2
    <3>3. QED
      BY <3>2
  <2>2. IsFiniteSet(upto(k)) /\ upto(i) # upto(k)
    <3>1. k \in upto(k) /\ k \notin upto(i)
      BY <1>3
    <3>2. QED
      BY <1>2, <3>1
  <2>3. QED
    BY <2>1, <2>2, FS_Subset
<1>4. rank \in [I -> 1 .. N] /\ \A i \in I : rank[i] = Cardinality(upto(i))
  BY <1>2
<1> HIDE DEF rank, upto, N
<1>5. rank \in Injection(I, 1 .. N)
  <2>1. ASSUME NEW i \in I, NEW k \in I, i # k PROVE rank[i] # rank[k]
    <3>1. i < k \/ k < i
      BY <2>1
    <3>2. QED
      BY <1>3, <1>4, <3>1
  <2>2. QED
    BY <1>4, <2>1 DEF Injection, IsInjective
<1>6. rank \in Surjection(I, 1 .. N)
  BY <1>1, <1>5, FS_Injection DEF N
<1>7. \E i \in I : Cardinality(upto(i)) = n
  BY <1>4, <1>6 DEF Surjection, N
<1>8. QED
  BY <1>7 DEF Position, upto

\* What a filter leaves: entries of the list from distinct positions.
LEMMA KeptEntries ==
    ASSUME NEW S, NEW s \in Seq(S), NEW I \in SUBSET (DOMAIN s)
    PROVE  /\ Kept(s, I) \in Seq(S)
           /\ Len(Kept(s, I)) = Cardinality(I)
           /\ \A n \in 1 .. Len(Kept(s, I)) :
                /\ Position(I, n) \in I /\ Kept(s, I)[n] = s[Position(I, n)]
                /\ \A m \in 1 .. Len(Kept(s, I)) : Position(I, m) = Position(I, n) => m = n
<1>1. DOMAIN s = 1 .. Len(s) /\ Len(s) \in Nat
  OBVIOUS
<1>2. IsFiniteSet(I) /\ I \in SUBSET Nat
  <2>1. IsFiniteSet(DOMAIN s)
    BY <1>1, FS_Interval
  <2>2. QED
    BY <1>1, <2>1, FS_Subset
<1>3. Cardinality(I) \in Nat
  BY <1>2, FS_CardinalityType
<1>4. \A n \in 1 .. Cardinality(I) :
        Position(I, n) \in I /\ Cardinality({j \in I : j <= Position(I, n)}) = n
  <2>1. ASSUME NEW n \in 1 .. Cardinality(I)
        PROVE  Position(I, n) \in I /\ Cardinality({j \in I : j <= Position(I, n)}) = n
    BY <1>2, PositionRank
  <2>2. QED
    BY <2>1
<1>5. \A n \in 1 .. Cardinality(I) : s[Position(I, n)] \in S
  <2>1. \A i \in DOMAIN s : s[i] \in S
    BY <1>1
  <2>2. QED
    BY <1>4, <2>1
<1>6. /\ Kept(s, I) = [n \in 1 .. Cardinality(I) |-> s[Position(I, n)]]
      /\ Kept(s, I) \in [1 .. Cardinality(I) -> S]
  BY <1>5 DEF Kept
<1>7. Kept(s, I) \in Seq(S) /\ Len(Kept(s, I)) = Cardinality(I)
  BY <1>3, <1>6
<1>8. ASSUME NEW n \in 1 .. Cardinality(I), NEW m \in 1 .. Cardinality(I),
             Position(I, m) = Position(I, n)
      PROVE  m = n
  BY <1>4, <1>8
<1>9. QED
  BY <1>4, <1>6, <1>7, <1>8

-----------------------------------------------------------------------------
(* The pool.                                                               *)

Single(p) == \A i, j \in 1 .. Len(p) : p[i].symbol = p[j].symbol => i = j

\* A filter of the pool adds no key and no second event of a symbol.
LEMMA KeptPool ==
    ASSUME pool \in Seq(Candidate), Single(pool), NEW I \in SUBSET (DOMAIN pool)
    PROVE  /\ Kept(pool, I) \in Seq(Candidate) /\ Single(Kept(pool, I))
           /\ KeysOf(Kept(pool, I)) \in SUBSET Pooled
           /\ \A n \in 1 .. Len(Kept(pool, I)) : \E i \in I : Kept(pool, I)[n] = pool[i]
<1> DEFINE p == Kept(pool, I)
<1>1. /\ p \in Seq(Candidate)
      /\ \A n \in 1 .. Len(p) :
           /\ Position(I, n) \in I /\ p[n] = pool[Position(I, n)]
           /\ \A m \in 1 .. Len(p) : Position(I, m) = Position(I, n) => m = n
  BY KeptEntries
<1> HIDE DEF p
<1>2. \A i \in I : i \in 1 .. Len(pool)
  OBVIOUS
<1>3. Single(p)
  BY <1>1, <1>2 DEF Single
<1>4. KeysOf(p) \in SUBSET Pooled
  BY <1>1, <1>2 DEF KeysOf, Pooled
<1>5. QED
  BY <1>1, <1>3, <1>4 DEF p

\* _remove_climax_candidate, and the sweep at the end of a poll.
LEMMA ShrunkPool ==
    ASSUME pool \in Seq(Candidate), Single(pool)
    PROVE  /\ InTime \in Seq(Candidate) /\ Single(InTime) /\ KeysOf(InTime) \in SUBSET Pooled
           /\ \A k : /\ Without(k) \in Seq(Candidate) /\ Single(Without(k))
                     /\ KeysOf(Without(k)) \in SUBSET Pooled
<1>1. InTime \in Seq(Candidate) /\ Single(InTime) /\ KeysOf(InTime) \in SUBSET Pooled
  BY KeptPool DEF InTime
<1>2. ASSUME NEW k
      PROVE  /\ Without(k) \in Seq(Candidate) /\ Single(Without(k))
             /\ KeysOf(Without(k)) \in SUBSET Pooled
  BY KeptPool DEF Without
<1>3. QED
  BY <1>1, <1>2

\* _track_climax_candidate leaves one event of the symbol at most: this one,
\* which was there or is in time.
LEMMA TrackPool ==
    ASSUME pool \in Seq(Candidate), Single(pool),
           NEW s \in Symbols, NEW e \in Nat, NEW a \in 0 .. TTL, Track(s, e, a)
    PROVE  /\ pool' \in Seq(Candidate) /\ Single(pool')
           /\ KeysOf(pool') \in SUBSET (Pooled \cup {<<s, e>>})
           /\ <<s, e>> \in KeysOf(pool') => <<s, e>> \in Pooled \/ a < TTL
<1> DEFINE I == {i \in DOMAIN pool : pool[i].symbol # s \/ pool[i].event = e}
           p == Kept(pool, I)
           c == [symbol |-> s, event |-> e, age |-> a]
<1>1. /\ p \in Seq(Candidate) /\ Single(p) /\ KeysOf(p) \in SUBSET Pooled
      /\ \A n \in 1 .. Len(p) : \E i \in I : p[n] = pool[i]
  <2>1. I \in SUBSET (DOMAIN pool)
    OBVIOUS
  <2> HIDE DEF I
  <2>2. QED
    BY <2>1, KeptPool
<1>2. pool' = IF Takes(<<s, e>>, a) THEN Append(p, c) ELSE p
  BY DEF Track, Replaced
<1>3. \A n \in 1 .. Len(p) : p[n].symbol # s \/ p[n].event = e
  BY <1>1
<1>4. c \in Candidate /\ c.symbol = s /\ c.event = e
  BY DEF Candidate
<1> HIDE DEF I, p, c
<1>5. CASE Takes(<<s, e>>, a)
  <2>1. <<s, e>> \notin Pooled /\ a < TTL
    BY <1>5 DEF Takes
  <2>2. \A n \in 1 .. Len(p) : Key(p[n]) # <<s, e>>
    BY <1>1, <2>1 DEF KeysOf
  <2>3. \A n \in 1 .. Len(p) : p[n].symbol # s
    BY <1>3, <2>2 DEF Key
  <2>4. /\ pool' = Append(p, c) /\ pool' \in Seq(Candidate)
        /\ Len(p) \in Nat /\ Len(pool') = Len(p) + 1
        /\ \A n \in 1 .. Len(p) : pool'[n] = p[n]
        /\ pool'[Len(p) + 1] = c
    BY <1>1, <1>2, <1>4, <1>5
  <2>5. \A n \in 1 .. Len(pool') : n \in 1 .. Len(p) \/ n = Len(p) + 1
    BY <2>4
  <2>6. Single(pool')
    BY <1>1, <1>4, <2>3, <2>4, <2>5 DEF Single
  <2>7. \A n \in 1 .. Len(pool') : Key(pool'[n]) \in Pooled \cup {<<s, e>>}
    BY <1>1, <1>4, <2>4, <2>5 DEF Key, KeysOf
  <2>8. QED
    BY <2>1, <2>4, <2>6, <2>7 DEF KeysOf
<1>6. CASE ~ Takes(<<s, e>>, a)
  BY <1>1, <1>2, <1>6
<1>7. QED
  BY <1>5, <1>6

-----------------------------------------------------------------------------
(* The inductive invariant.  A key that ran out of time can only come back  *)
(* through the ages the row and the scan have of it: so those say as well   *)
(* that its time is over, and the scan's is the row's when it is at the     *)
(* row's event.                                                            *)

Rows ==
    /\ row \in [Symbols -> Nat] /\ \A s \in Symbols : row[s] \in EventIds[s] \cup {None}
    /\ rowAge \in [Symbols -> 0 .. TTL]

ScanAtRow ==
    scan # <<>> =>
        /\ scan \in Symbols \X Nat \X (0 .. TTL) /\ scan[2] \in EventIds[scan[1]]
        /\ scan[2] = row[scan[1]] => scan[3] = rowAge[scan[1]]

AgesTell ==
    /\ \A s \in Symbols : row[s] # None /\ <<s, row[s]>> \in expired => rowAge[s] = TTL
    /\ scan # <<>> /\ <<scan[1], scan[2]>> \in expired => scan[3] = TTL

IInv ==
    /\ pool \in Seq(Candidate) /\ Single(pool)
    /\ Rows /\ ScanAtRow /\ AgesTell
    /\ ExpiredStaysOut

LEMMA InitIInv == Init => IInv
<1> SUFFICES ASSUME Init PROVE IInv
  OBVIOUS
<1>1. pool = <<>> /\ <<>> \in Seq(Candidate) /\ Len(<<>>) = 0
  BY DEF Init
<1>2. Rows
  BY MonitorAssumption DEF Init, Rows, None
<1>3. QED
  BY <1>1, <1>2 DEF Init, IInv, Single, ScanAtRow, AgesTell, ExpiredStaysOut

\* Ids of events are not None.
LEMMA EventIdsType ==
    ASSUME NEW s \in Symbols, NEW e \in EventIds[s]
    PROVE  e \in Nat /\ e # None
  BY MonitorAssumption DEF None

\* The steps that only take candidates away.
LEMMA ShrinkIInv ==
    ASSUME IInv, UNCHANGED <<row, rowAge, expired>>, scan' = scan \/ scan' = <<>>,
           pool' \in Seq(Candidate), Single(pool'), KeysOf(pool') \in SUBSET Pooled
    PROVE  IInv'
<1>1. Rows' /\ ScanAtRow' /\ AgesTell'
  BY DEF IInv, Rows, ScanAtRow, AgesTell
<1>2. Single(pool)'
  BY DEF Single
<1>3. ExpiredStaysOut'
  BY DEF IInv, ExpiredStaysOut, Pooled
<1>4. QED
  BY <1>1, <1>2, <1>3 DEF IInv

\* The scan at a new event: its own age decides whether its time is over.
LEMMA DetectIInv ==
    ASSUME IInv, NEW s \in Symbols, NEW e \in EventIds[s], NEW a \in 0 .. TTL,
           DetectEvent(s, e, a)
    PROVE  IInv'
<1>1. /\ scan = <<>> /\ scan' = <<s, e, a>> /\ e # row[s] /\ Track(s, e, a)
      /\ UNCHANGED <<row, rowAge>> /\ e \in Nat /\ TTL \in Nat
  BY MonitorAssumption, EventIdsType DEF DetectEvent, Track, ScanFree
<1>2. /\ pool' \in Seq(Candidate) /\ Single(pool')
      /\ KeysOf(pool') \in SUBSET (Pooled \cup {<<s, e>>})
      /\ <<s, e>> \in KeysOf(pool') => <<s, e>> \in Pooled \/ a < TTL
  BY <1>1, TrackPool DEF IInv
<1>3. CASE a >= TTL /\ <<s, e>> \notin Pooled
  <2>1. expired' = expired \cup {<<s, e>>} /\ a = TTL
    BY <1>1, <1>3 DEF DetectEvent
  <2>2. ExpiredStaysOut'
    <3>1. <<s, e>> \notin KeysOf(pool') /\ Pooled' = KeysOf(pool')
      BY <1>1, <1>2, <1>3, <2>1 DEF Pooled
    <3>2. QED
      BY <1>2, <2>1, <3>1 DEF IInv, ExpiredStaysOut
  <2>3. AgesTell'
    BY <1>1, <2>1 DEF IInv, AgesTell
  <2>4. QED
    BY <1>1, <1>2, <2>2, <2>3 DEF IInv, Rows, ScanAtRow, Single
<1>4. CASE ~ (a >= TTL /\ <<s, e>> \notin Pooled)
  <2>1. expired' = expired \ {<<s, e>>}
    BY <1>4 DEF DetectEvent
  <2>2. ExpiredStaysOut'
    BY <1>2, <2>1 DEF IInv, ExpiredStaysOut, Pooled
  <2>3. AgesTell'
    BY <1>1, <2>1 DEF IInv, AgesTell
  <2>4. QED
    BY <1>1, <1>2, <2>2, <2>3 DEF IInv, Rows, ScanAtRow, Single
<1>5. QED
  BY <1>3, <1>4

\* The scan at the active event again: the row's age decides.
LEMMA TrackAgainIInv ==
    ASSUME IInv, NEW s \in Symbols, TrackAgain(s)
    PROVE  IInv'
<1> DEFINE k == <<s, row[s]>>
<1>1. /\ scan = <<>> /\ scan' = <<s, row[s], rowAge[s]>> /\ Track(s, row[s], rowAge[s])
      /\ UNCHANGED <<row, rowAge>> /\ row[s] # None /\ TTL \in Nat
  BY MonitorAssumption DEF TrackAgain, Track, ScanFree
<1>2. row[s] \in EventIds[s] /\ row[s] \in Nat /\ rowAge[s] \in 0 .. TTL
  BY <1>1 DEF IInv, Rows
<1>3. /\ pool' \in Seq(Candidate) /\ Single(pool')
      /\ KeysOf(pool') \in SUBSET (Pooled \cup {k})
      /\ k \in KeysOf(pool') => k \in Pooled \/ rowAge[s] < TTL
  BY <1>1, <1>2, TrackPool DEF IInv
<1>4. k \in expired => rowAge[s] = TTL
  BY <1>1 DEF IInv, AgesTell
<1>5. \/ expired' = expired
      \/ expired' = expired \cup {k} /\ rowAge[s] = TTL /\ k \notin Pooled
  BY <1>1, <1>2 DEF TrackAgain
<1>6. ExpiredStaysOut'
  <2> HIDE DEF k
  <2>1. Pooled' = KeysOf(pool')
    BY DEF Pooled
  <2>2. k \in expired' => k \notin KeysOf(pool')
    <3>1. k \in expired' => k \notin Pooled /\ rowAge[s] = TTL
      BY <1>4, <1>5 DEF IInv, ExpiredStaysOut
    <3>2. QED
      BY <1>1, <1>3, <3>1
  <2>3. QED
    BY <1>3, <1>5, <2>1, <2>2 DEF IInv, ExpiredStaysOut
<1>7. AgesTell'
  BY <1>1, <1>4, <1>5 DEF IInv, AgesTell
<1>8. QED
  BY <1>1, <1>2, <1>3, <1>6, <1>7 DEF IInv, Rows, ScanAtRow, Single

\* The other steps of the scan.
LEMMA ScanIInv ==
    ASSUME IInv,
           ScanEnds \/ ScanRaises \/ \E s \in Symbols : RenewHigh(s)
    PROVE  IInv'
<1>1. CASE ScanRaises
  BY <1>1, ShrinkIInv DEF ScanRaises, IInv, Pooled
<1>2. CASE ScanEnds
  <2>1. /\ scan \in Symbols \X Nat \X (0 .. TTL) /\ scan[2] \in EventIds[scan[1]]
        /\ row' = [row EXCEPT ![scan[1]] = scan[2]]
        /\ rowAge' = [rowAge EXCEPT ![scan[1]] = scan[3]]
        /\ scan' = <<>> /\ expired' = expired
        /\ <<scan[1], scan[2]>> \in expired => scan[3] = TTL
    BY <1>2 DEF ScanEnds, IInv, ScanAtRow, AgesTell
  <2>2. Rows'
    BY <2>1 DEF IInv, Rows
  <2>3. AgesTell'
    <3>1. ASSUME NEW s \in Symbols, row'[s] # None, <<s, row'[s]>> \in expired
          PROVE  rowAge'[s] = TTL
      <4>1. CASE s = scan[1]
        BY <2>1, <3>1, <4>1 DEF IInv, Rows
      <4>2. CASE s # scan[1]
        <5>1. row'[s] = row[s] /\ rowAge'[s] = rowAge[s]
          BY <2>1, <4>2 DEF IInv, Rows
        <5>2. QED
          BY <3>1, <5>1 DEF IInv, AgesTell
      <4>3. QED
        BY <4>1, <4>2
    <3>2. QED
      BY <2>1, <3>1 DEF AgesTell
  <2>4. pool' \in Seq(Candidate) /\ Single(pool') /\ KeysOf(pool') \in SUBSET Pooled
    <3>1. CASE pool' = pool
      BY <3>1 DEF IInv, Pooled, Single
    <3>2. CASE pool' = Without(<<scan[1], scan[2]>>)
      BY <3>2, ShrunkPool DEF IInv
    <3>3. QED
      BY <1>2, <3>1, <3>2 DEF ScanEnds
  <2>5. ExpiredStaysOut' /\ Single(pool)'
    BY <2>1, <2>4 DEF IInv, ExpiredStaysOut, Pooled, Single
  <2>6. QED
    BY <2>1, <2>2, <2>3, <2>4, <2>5 DEF IInv, ScanAtRow
<1>3. ASSUME NEW s \in Symbols, RenewHigh(s) PROVE IInv'
  <2>1. /\ scan = <<>> /\ UNCHANGED <<row, pool, scan>>
        /\ rowAge' = [rowAge EXCEPT ![s] = 0]
        /\ expired' = expired \ {<<s, row[s]>>}
    BY <1>3 DEF RenewHigh, ScanFree
  <2>2. Rows'
    BY <2>1, MonitorAssumption DEF IInv, Rows
  <2>3. \A t \in Symbols : row[t] # None /\ <<t, row[t]>> \in expired' => rowAge'[t] = TTL
    BY <2>1 DEF IInv, Rows, AgesTell
  <2>4. QED
    BY <2>1, <2>2, <2>3 DEF IInv, ScanAtRow, AgesTell, ExpiredStaysOut, Pooled, Single
<1>4. QED
  BY <1>1, <1>2, <1>3

\* A candidate leaves the pool for good only when the row's own age says so.
LEMMA SweepIInv == ASSUME IInv, Sweep PROVE IInv'
<1> DEFINE new == {k \in Pooled \ KeysOf(InTime) : k[2] = row[k[1]] /\ rowAge[k[1]] >= TTL}
<1>1. /\ pool' = InTime /\ expired' = expired \cup new
      /\ UNCHANGED <<row, rowAge, scan>>
  BY DEF Sweep
<1>2. pool' \in Seq(Candidate) /\ Single(pool') /\ KeysOf(pool') \in SUBSET Pooled
  BY <1>1, ShrunkPool DEF IInv
<1>3. ExpiredStaysOut'
  BY <1>1, <1>2 DEF IInv, ExpiredStaysOut, Pooled
<1>4. TTL \in Nat /\ \A s \in Symbols : rowAge[s] \in 0 .. TTL
  BY MonitorAssumption DEF IInv, Rows
<1>5. \A s \in Symbols : <<s, row[s]>> \in new => rowAge[s] = TTL
  BY <1>4
<1>6. scan # <<>> /\ <<scan[1], scan[2]>> \in new => scan[3] = TTL
  BY <1>4 DEF IInv, ScanAtRow
<1> HIDE DEF new
<1>7. AgesTell'
  BY <1>1, <1>5, <1>6 DEF IInv, AgesTell
<1>8. QED
  BY <1>1, <1>2, <1>3, <1>7 DEF IInv, Rows, ScanAtRow, Single

\* Time: all ages of an event grow alike.
LEMMA TickIInv == ASSUME IInv, Tick PROVE IInv'
<1>1. TTL \in Nat /\ \A a \in 0 .. TTL : Older(a) \in 0 .. TTL /\ (a = TTL => Older(a) = TTL)
  BY MonitorAssumption DEF Older
<1>2. /\ UNCHANGED <<row, expired>>
      /\ rowAge' = [s \in Symbols |-> IF row[s] = None THEN 0 ELSE Older(rowAge[s])]
      /\ pool' = [i \in 1 .. Len(pool) |-> [pool[i] EXCEPT !.age = Older(@)]]
      /\ scan' = IF scan = <<>> THEN scan ELSE <<scan[1], scan[2], Older(scan[3])>>
  BY DEF Tick
<1>3. /\ pool' \in Seq(Candidate) /\ Len(pool') = Len(pool)
      /\ \A i \in 1 .. Len(pool) : pool'[i].symbol = pool[i].symbol /\ Key(pool'[i]) = Key(pool[i])
  <2>1. Len(pool) \in Nat /\ \A i \in 1 .. Len(pool) : pool[i] \in Candidate
    BY DEF IInv
  <2>2. \A i \in 1 .. Len(pool) :
          LET c == [pool[i] EXCEPT !.age = Older(@)]
          IN c \in Candidate /\ c.symbol = pool[i].symbol /\ c.event = pool[i].event
    BY <1>1, <2>1 DEF Candidate
  <2>3. \A i \in 1 .. Len(pool) :
          /\ pool'[i] \in Candidate
          /\ pool'[i].symbol = pool[i].symbol /\ pool'[i].event = pool[i].event
    BY <1>2, <2>2
  <2>4. pool' \in [1 .. Len(pool) -> Candidate]
    BY <1>2, <2>3
  <2>5. QED
    BY <2>1, <2>3, <2>4 DEF Key
<1>4. Single(pool') /\ KeysOf(pool') = Pooled
  BY <1>3 DEF IInv, Single, KeysOf, Pooled
<1>5. Rows'
  BY <1>1, <1>2, MonitorAssumption DEF IInv, Rows
<1>6. AgesTell' /\ ScanAtRow'
  <2>1. CASE scan = <<>>
    BY <1>1, <1>2, <2>1 DEF IInv, AgesTell, ScanAtRow, Rows
  <2>2. CASE scan # <<>>
    <3>1. /\ scan \in Symbols \X Nat \X (0 .. TTL) /\ scan[2] \in EventIds[scan[1]]
          /\ scan[2] # None
      BY <2>2, EventIdsType DEF IInv, ScanAtRow
    <3>2. scan' = <<scan[1], scan[2], Older(scan[3])>>
      BY <1>2, <2>2
    <3>3. ScanAtRow'
      BY <1>1, <1>2, <2>2, <3>1, <3>2 DEF IInv, ScanAtRow, Rows
    <3>4. AgesTell'
      BY <1>1, <1>2, <2>2, <3>1, <3>2 DEF IInv, AgesTell, Rows
    <3>5. QED
      BY <3>3, <3>4
  <2>3. QED
    BY <2>1, <2>2
<1>7. ExpiredStaysOut'
  BY <1>2, <1>4 DEF IInv, ExpiredStaysOut, Pooled
<1>8. QED
  BY <1>3, <1>4, <1>5, <1>6, <1>7 DEF IInv, Single

\* The monitor's other steps remove a candidate or none; a crash removes all.
LEMMA MonitorIInv ==
    ASSUME IInv,
           \/ Poll \/ FramesArrive \/ Boot \/ Crash \/ UNCHANGED vars
           \/ \E k \in AllKeys :
                \/ KeyGone(k) \/ KeySkipped(k) \/ KeyReplaced(k)
                \/ Evaluate(k) \/ EvaluationEnds(k) \/ EvaluationRaises(k)
    PROVE  IInv'
<1>1. UNCHANGED <<row, rowAge, expired>> /\ (scan' = scan \/ scan' = <<>>)
  BY DEF Poll, FramesArrive, Boot, Crash, vars, KeyGone, KeySkipped, KeyReplaced, Evaluate,
         EvaluationEnds, EvaluationRaises, Raises
<1>2. pool' = pool \/ pool' = <<>> \/ \E k : pool' = Without(k)
  BY DEF Poll, FramesArrive, Boot, Crash, vars, KeyGone, KeySkipped, KeyReplaced, Evaluate,
         EvaluationEnds, EvaluationRaises, Raises
<1>3. pool' \in Seq(Candidate) /\ Single(pool') /\ KeysOf(pool') \in SUBSET Pooled
  <2>1. CASE pool' = pool
    BY <2>1 DEF IInv, Pooled, Single
  <2>2. CASE pool' = <<>>
    BY <2>2 DEF Single, KeysOf
  <2>3. CASE \E k : pool' = Without(k)
    BY <2>3, ShrunkPool DEF IInv
  <2>4. QED
    BY <1>2, <2>1, <2>2, <2>3
<1>4. QED
  BY <1>1, <1>3, ShrinkIInv

LEMMA SpecIInv == Spec => []IInv
<1>1. IInv /\ [Next]_vars => IInv'
  <2> SUFFICES ASSUME IInv, [Next]_vars PROVE IInv'
    OBVIOUS
  <2>1. ASSUME NEW s \in Symbols, NEW e \in EventIds[s], NEW a \in 0 .. TTL,
               DetectEvent(s, e, a)
        PROVE  IInv'
    BY <2>1, DetectIInv
  <2>2. ASSUME NEW s \in Symbols, TrackAgain(s) PROVE IInv'
    BY <2>2, TrackAgainIInv
  <2>3. CASE ScanEnds \/ ScanRaises \/ \E s \in Symbols : RenewHigh(s)
    BY <2>3, ScanIInv
  <2>4. CASE Sweep
    BY <2>4, SweepIInv
  <2>5. CASE Tick
    BY <2>5, TickIInv
  <2>6. CASE \/ Poll \/ FramesArrive \/ Boot \/ Crash \/ UNCHANGED vars
             \/ \E k \in AllKeys :
                  \/ KeyGone(k) \/ KeySkipped(k) \/ KeyReplaced(k)
                  \/ Evaluate(k) \/ EvaluationEnds(k) \/ EvaluationRaises(k)
    BY <2>6, MonitorIInv
  <2>7. QED
    BY <2>1, <2>2, <2>3, <2>4, <2>5, <2>6 DEF Next, Monitor
<1>2. QED
  BY <1>1, InitIInv, PTL DEF Spec

-----------------------------------------------------------------------------
(* The cursor.  While no candidate leaves, the slices follow one another    *)
(* around the pool, and a candidate has missed no more than the entries the *)
(* cursor has gone over since it passed this one.                           *)

\* The entries between position i and the cursor, when it is at c of n.
Gone(c, i, n) == IF c >= i THEN c - i ELSE n - i + c

Behind(c) == \A i \in 1 .. Len(pool) : missed[Key(pool[i])] * MaxActive <= Gone(c, i, Len(pool))

Fresh == \A k \in AllKeys : missed[k] = 0

Turn ==
    /\ cursor \in Nat /\ missed \in [AllKeys -> Nat]
    /\ Pooled \in SUBSET AllKeys
    /\ \/ Fresh
       \/ /\ cursor < Len(pool) /\ Behind(cursor)
          /\ \A k \in AllKeys \ Pooled : missed[k] = 0

LEMMA UpTo ==
    ASSUME NEW n \in Nat
    PROVE  IsFiniteSet(1 .. n) /\ Cardinality(1 .. n) = n
BY FS_Interval

\* A filter that leaves every key there leaves the pool as it is.
LEMMA KeptStays ==
    ASSUME pool \in Seq(Candidate), Single(pool), NEW I \in SUBSET (DOMAIN pool),
           Pooled \subseteq KeysOf(Kept(pool, I))
    PROVE  Kept(pool, I) = pool
<1> DEFINE p == Kept(pool, I)
<1>1. /\ p \in Seq(Candidate) /\ Len(p) = Cardinality(I)
      /\ \A n \in 1 .. Len(p) :
           /\ Position(I, n) \in I /\ p[n] = pool[Position(I, n)]
  BY KeptEntries
<1>2. DOMAIN pool = 1 .. Len(pool) /\ Len(pool) \in Nat
  OBVIOUS
<1> HIDE DEF p
<1>3. ASSUME NEW i \in DOMAIN pool PROVE i \in I
  <2>1. Key(pool[i]) \in KeysOf(p)
    BY <1>2 DEF KeysOf, Pooled, p
  <2>2. PICK n \in 1 .. Len(p) : Key(pool[i]) = Key(p[n])
    BY <2>1 DEF KeysOf
  <2>3. Position(I, n) \in I /\ pool[i].symbol = pool[Position(I, n)].symbol
    BY <1>1, <2>2 DEF Key
  <2>4. QED
    BY <1>2, <2>3 DEF Single
<1>4. I = 1 .. Len(pool) /\ IsFiniteSet(I) /\ Cardinality(I) = Len(pool)
  <2>1. I = 1 .. Len(pool)
    BY <1>2, <1>3
  <2>2. QED
    BY <1>2, <2>1, UpTo
<1>5. ASSUME NEW n \in 1 .. Len(pool) PROVE Position(I, n) = n
  <2>1. I \in SUBSET Nat /\ IsFiniteSet(I) /\ n \in 1 .. Cardinality(I)
    BY <1>2, <1>4
  <2>2. Position(I, n) \in 1 .. Len(pool) /\ Cardinality({j \in I : j <= Position(I, n)}) = n
    BY <1>4, <2>1, PositionRank
  <2> DEFINE q == Position(I, n)
  <2>3. {j \in I : j <= q} = 1 .. q
    BY <1>2, <1>4, <2>2
  <2>4. Cardinality(1 .. q) = q
    BY <2>2, FS_Interval
  <2>5. QED
    BY <2>2, <2>3, <2>4
<1>6. Len(p) = Len(pool) /\ \A n \in 1 .. Len(pool) : p[n] = pool[n]
  BY <1>1, <1>4, <1>5
<1>7. p = pool
  BY <1>1, <1>2, <1>6
<1>8. QED
  BY <1>7 DEF p

\* A step that takes candidates away, or none: the count begins again unless
\* the pool is what it was.
LEMMA ShrinkTurn ==
    ASSUME IInv, Turn, pool' \in Seq(Candidate), KeysOf(pool') \in SUBSET Pooled,
           \/ pool' = pool \/ pool' = <<>>
           \/ \E I \in SUBSET (DOMAIN pool) : pool' = Kept(pool, I),
           missed' = Missed(pool'), cursor' = cursor \/ (cursor' = 0 /\ pool' = <<>>)
    PROVE  Turn'
<1>1. Pooled' = KeysOf(pool') /\ Pooled' \in SUBSET AllKeys /\ cursor' \in Nat
  BY DEF Turn, Pooled
<1>2. CASE Pooled \subseteq KeysOf(pool')
  <2>1. pool' = pool
    <3>1. CASE pool' = <<>>
      <4>1. Pooled = {}
        BY <1>2, <3>1 DEF KeysOf
      <4>2. Len(pool) = 0
        BY <4>1 DEF IInv, Pooled, KeysOf
      <4>3. QED
        BY <3>1, <4>2 DEF IInv
    <3>2. CASE \E I \in SUBSET (DOMAIN pool) : pool' = Kept(pool, I)
      BY <1>2, <3>2, KeptStays DEF IInv
    <3>3. QED
      BY <3>1, <3>2
  <2>2. missed' = missed
    BY <1>2 DEF Missed
  <2>3. CASE cursor' = cursor
    BY <1>1, <2>1, <2>2, <2>3 DEF Turn, Fresh, Behind, Gone, Pooled
  <2>4. CASE pool' = <<>>
    <3>1. Fresh
      BY <2>1, <2>4 DEF Turn
    <3>2. QED
      BY <1>1, <2>2, <3>1 DEF Turn, Fresh
  <2>5. QED
    BY <2>3, <2>4
<1>3. CASE ~ (Pooled \subseteq KeysOf(pool'))
  <2>1. missed' = [k \in AllKeys |-> 0]
    BY <1>3 DEF Missed
  <2>2. QED
    BY <1>1, <2>1 DEF Turn, Fresh
<1>4. QED
  BY <1>2, <1>3

\* A new candidate comes to the end of the list and has missed nothing.
LEMMA TrackTurn ==
    ASSUME IInv, Turn, NEW s \in Symbols, NEW e \in EventIds[s], NEW a \in 0 .. TTL,
           Track(s, e, a), missed' = Missed(pool'), cursor' = cursor
    PROVE  Turn'
<1> DEFINE I == {i \in DOMAIN pool : pool[i].symbol # s \/ pool[i].event = e}
           p == Kept(pool, I)
           c == [symbol |-> s, event |-> e, age |-> a]
<1>1. I \in SUBSET (DOMAIN pool) /\ e \in Nat /\ <<s, e>> \in AllKeys
  BY EventIdsType DEF AllKeys
<1>2. p \in Seq(Candidate) /\ KeysOf(p) \in SUBSET Pooled
  <2> HIDE DEF I
  <2>1. QED
    BY <1>1, KeptPool DEF IInv
<1>3. pool' = IF Takes(<<s, e>>, a) THEN Append(p, c) ELSE p
  BY DEF Track, Replaced
<1>4. Pooled' = KeysOf(pool') /\ Key(c) = <<s, e>> /\ c \in Candidate
  BY <1>1 DEF Pooled, Key, Candidate
<1>5. CASE ~ Takes(<<s, e>>, a)
  <2>1. pool' = p
    BY <1>3, <1>5
  <2> HIDE DEF I
  <2>2. QED
    BY <1>1, <1>2, <2>1, ShrinkTurn
<1> HIDE DEF I, p, c
<1>6. CASE Takes(<<s, e>>, a)
  <2>1. <<s, e>> \notin Pooled /\ pool' = Append(p, c)
    BY <1>3, <1>6 DEF Takes
  <2>2. /\ Len(p) \in Nat /\ Len(pool') = Len(p) + 1
        /\ \A n \in 1 .. Len(p) : pool'[n] = p[n]
        /\ pool'[Len(p) + 1] = c
    BY <1>2, <1>4, <2>1
  <2>3. KeysOf(pool') = KeysOf(p) \cup {<<s, e>>}
    <3>1. \A n \in 1 .. Len(pool') : n \in 1 .. Len(p) \/ n = Len(p) + 1
      BY <2>2
    <3>2. \A n \in 1 .. Len(p) : n \in 1 .. Len(pool')
      BY <2>2
    <3>3. Len(p) + 1 \in 1 .. Len(pool')
      BY <2>2
    <3>4. QED
      BY <1>4, <2>2, <3>1, <3>2, <3>3 DEF KeysOf
  <2>4. Pooled' \in SUBSET AllKeys
    BY <1>1, <1>2, <1>4, <2>3 DEF Turn
  <2>5. CASE Pooled \subseteq KeysOf(pool')
    <3>1. p = pool
      <4>1. Pooled \subseteq KeysOf(p)
        BY <2>1, <2>3, <2>5
      <4>2. QED
        BY <1>1, <4>1, KeptStays DEF IInv, p
    <3>2. missed' = missed
      BY <2>5 DEF Missed
    <3>3. CASE Fresh
      BY <2>4, <3>2, <3>3 DEF Turn, Fresh
    <3>4. CASE ~ Fresh
      <4>1. /\ cursor < Len(pool) /\ Behind(cursor) /\ cursor \in Nat
            /\ \A k \in AllKeys \ Pooled : missed[k] = 0
        BY <3>4 DEF Turn
      <4>2. cursor' < Len(pool') /\ MaxActive \in Nat
        BY <2>2, <3>1, <4>1, MonitorAssumption
      <4>3. ASSUME NEW i \in 1 .. Len(pool')
            PROVE  missed[Key(pool'[i])] * MaxActive <= Gone(cursor, i, Len(pool'))
        <5>1. CASE i \in 1 .. Len(pool)
          <6>1. missed[Key(pool'[i])] * MaxActive <= Gone(cursor, i, Len(pool))
            BY <2>2, <3>1, <4>1, <5>1 DEF Behind
          <6>2. missed[Key(pool'[i])] \in Nat
            BY <4>3, <2>4, <1>4 DEF Turn, KeysOf
          <6>3. missed[Key(pool'[i])] * MaxActive \in Nat
            BY <6>2, <4>2
          <6>4. Gone(cursor, i, Len(pool)) <= Gone(cursor, i, Len(pool'))
            BY <2>2, <3>1, <4>1, <5>1 DEF Gone
          <6>5. Gone(cursor, i, Len(pool)) \in Int /\ Gone(cursor, i, Len(pool')) \in Int
            BY <2>2, <3>1, <4>1, <5>1 DEF Gone
          <6>6. QED
            BY <6>1, <6>3, <6>4, <6>5
        <5>2. CASE i = Len(pool) + 1
          <6>1. missed[Key(pool'[i])] = 0
            BY <1>1, <1>4, <2>1, <2>2, <3>1, <4>1, <5>2
          <6>2. Gone(cursor, i, Len(pool')) = cursor
            BY <2>2, <3>1, <4>1, <5>2 DEF Gone
          <6>3. QED
            BY <4>1, <4>2, <6>1, <6>2
        <5>3. QED
          BY <2>2, <3>1, <5>1, <5>2
      <4>4. \A k \in AllKeys \ Pooled' : missed[k] = 0
        BY <1>4, <2>5, <4>1
      <4>5. QED
        BY <2>4, <3>2, <4>1, <4>2, <4>3, <4>4 DEF Turn, Behind
    <3>5. QED
      BY <3>3, <3>4
  <2>6. CASE ~ (Pooled \subseteq KeysOf(pool'))
    <3>1. missed' = [k \in AllKeys |-> 0]
      BY <2>6 DEF Missed
    <3>2. QED
      BY <2>4, <3>1 DEF Turn, Fresh
  <2>7. QED
    BY <2>5, <2>6
<1>7. QED
  BY <1>5, <1>6

\* The slice of a poll: what it passes over is not among the next entries.
LEMMA Slice ==
    ASSUME pool \in Seq(Candidate), Len(pool) > 0, cursor \in Nat
    PROVE  LET n == IF Len(pool) < MaxActive THEN Len(pool) ELSE MaxActive
           IN /\ Start \in 0 .. Len(pool) - 1
              /\ Len(Selected) = n
              /\ \A i \in 1 .. Len(pool) : Key(pool[i]) \in PassedOver =>
                    IF Start >= i THEN n < i + Len(pool) - Start ELSE n < i - Start
<1> DEFINE L == Len(pool)
           n == IF L < MaxActive THEN L ELSE MaxActive
           s == Start
           first == SubSeq(Keys, s + 1, L)
           ordered == first \o SubSeq(Keys, 1, s)
<1>1. L \in Nat /\ L > 0 /\ n \in 1 .. L
  BY MonitorAssumption
<1>2. s \in 0 .. L - 1
  BY <1>1 DEF Start
<1>3. Keys \in Seq(AllKeys \cup {Key(pool[i]) : i \in 1 .. L}) /\ Len(Keys) = L
      /\ \A i \in 1 .. L : Keys[i] = Key(pool[i])
  BY <1>1 DEF Keys
<1> HIDE DEF L, n, s
<1>4. Selected = SubSeq(ordered, 1, n)
  BY <1>3 DEF Selected, n, s, L
<1> DEFINE K == AllKeys \cup {Key(pool[i]) : i \in 1 .. L}
<1>5. /\ first \in Seq(K) /\ Len(first) = L - s
      /\ \A j \in 1 .. L - s : first[j] = Keys[s + j]
  <2> HIDE DEF K
  <2>1. Keys \in Seq(K) /\ Len(Keys) = L
    BY <1>3 DEF K
  <2>2. QED
    BY <1>1, <1>2, <2>1
<1>6. /\ SubSeq(Keys, 1, s) \in Seq(K) /\ Len(SubSeq(Keys, 1, s)) = s
      /\ \A j \in 1 .. s : SubSeq(Keys, 1, s)[j] = Keys[j]
  <2> HIDE DEF K
  <2>1. Keys \in Seq(K) /\ Len(Keys) = L
    BY <1>3 DEF K
  <2>2. QED
    BY <1>1, <1>2, <2>1
<1> HIDE DEF first, K
<1>7. /\ ordered \in Seq(K) /\ Len(ordered) = L
      /\ \A j \in 1 .. L : ordered[j] = IF j <= L - s THEN Keys[s + j] ELSE Keys[j - (L - s)]
  <2>1. ordered \in Seq(K) /\ Len(ordered) = L
    BY <1>1, <1>2, <1>5, <1>6
  <2>2. ASSUME NEW j \in 1 .. L, j <= L - s PROVE ordered[j] = Keys[s + j]
    BY <1>1, <1>2, <1>5, <1>6, <2>2
  <2>3. ASSUME NEW j \in 1 .. L, ~ (j <= L - s) PROVE ordered[j] = Keys[j - (L - s)]
    BY <1>1, <1>2, <1>5, <1>6, <2>3
  <2>4. QED
    BY <2>1, <2>2, <2>3
<1> HIDE DEF ordered
<1>8. /\ Len(Selected) = n /\ DOMAIN Selected = 1 .. n
      /\ \A j \in 1 .. n : Selected[j] = ordered[j]
  BY <1>1, <1>4, <1>7
<1>9. ASSUME NEW i \in 1 .. L, Key(pool[i]) \in PassedOver
      PROVE  IF s >= i THEN n < i + L - s ELSE n < i - s
  <2>1. \A j \in 1 .. n : ordered[j] # Key(pool[i])
    BY <1>8, <1>9 DEF PassedOver
  <2>2. CASE s >= i
    <3> DEFINE j == i + L - s
    <3>1. j \in 1 .. L /\ ~ (j <= L - s) /\ j - (L - s) = i
      BY <1>1, <1>2, <2>2
    <3> HIDE DEF j
    <3>2. ordered[j] = Keys[j - (L - s)]
      BY <1>7, <3>1
    <3>3. ordered[j] = Key(pool[i])
      BY <1>3, <3>1, <3>2
    <3>4. j \notin 1 .. n
      BY <2>1, <3>3
    <3>5. n < j
      BY <1>1, <3>1, <3>4
    <3>6. QED
      BY <2>2, <3>5 DEF j
  <2>3. CASE ~ (s >= i)
    <3>1. i - s \in 1 .. L /\ i - s <= L - s /\ s + (i - s) = i
      BY <1>1, <1>2, <2>3
    <3>2. ordered[i - s] = Key(pool[i])
      BY <1>3, <1>7, <3>1
    <3>3. QED
      BY <1>1, <2>1, <2>3, <3>1, <3>2
  <2>4. QED
    BY <2>2, <2>3
<1>10. QED
  BY <1>2, <1>8, <1>9 DEF L, n, s

\* Once around, and no further.
LEMMA Around ==
    ASSUME NEW L \in Nat, NEW s \in 0 .. L - 1, NEW n \in 1 .. L
    PROVE  (s + n) % L = IF s + n < L THEN s + n ELSE s + n - L
OBVIOUS

LEMMA Below ==
    ASSUME NEW L \in Nat, NEW s \in Nat, s < L
    PROVE  s % L = s
OBVIOUS

LEMMA PollTurn == ASSUME IInv, Turn, Poll PROVE Turn'
<1> DEFINE L == Len(pool)
           n == IF L < MaxActive THEN L ELSE MaxActive
           s == Start
           c == (s + n) % L
           now == [k \in AllKeys |-> IF k \in PassedOver THEN missed[k] + 1 ELSE 0]
<1>1. /\ pool \in Seq(Candidate) /\ L \in Nat /\ L > 0 /\ cursor \in Nat
      /\ pool' = pool /\ missed' = now
      /\ MaxActive \in Nat /\ MaxActive > 0 /\ n \in 1 .. L
      /\ missed \in [AllKeys -> Nat] /\ Pooled \in SUBSET AllKeys
  BY MonitorAssumption DEF IInv, Turn, Poll
<1>2. /\ s \in 0 .. L - 1 /\ cursor' = c
      /\ \A i \in 1 .. L : Key(pool[i]) \in PassedOver =>
            IF s >= i THEN n < i + L - s ELSE n < i - s
  BY <1>1, Slice DEF Poll
<1>3. c = (IF s + n < L THEN s + n ELSE s + n - L) /\ c \in Nat /\ c < L
  <2> HIDE DEF L, s, n
  <2>1. c = (IF s + n < L THEN s + n ELSE s + n - L)
    BY <1>1, <1>2, Around
  <2> HIDE DEF c
  <2>2. QED
    BY <1>1, <1>2, <2>1
<1>4. ASSUME NEW i \in 1 .. L
      PROVE  /\ Key(pool[i]) \in AllKeys
             /\ missed[Key(pool[i])] * MaxActive <= Gone(s, i, L)
  <2>1. Key(pool[i]) \in AllKeys /\ missed[Key(pool[i])] \in Nat
    BY <1>1 DEF Pooled, KeysOf
  <2>2. CASE Fresh
    <3>1. missed[Key(pool[i])] * MaxActive = 0
      BY <1>1, <2>1, <2>2 DEF Fresh
    <3> HIDE DEF L, s
    <3>2. Gone(s, i, L) >= 0
      BY <1>1, <1>2 DEF Gone
    <3>3. QED
      BY <2>1, <3>1, <3>2
  <2>3. CASE ~ Fresh
    <3>1. cursor < L /\ missed[Key(pool[i])] * MaxActive <= Gone(cursor, i, L)
      BY <2>3 DEF Turn, Behind
    <3>2. s = cursor
      BY <1>1, <3>1, Below DEF Start
    <3> HIDE DEF L, s
    <3>3. QED
      BY <2>1, <3>1, <3>2
  <2>4. QED
    BY <2>2, <2>3
<1>5. ASSUME NEW i \in 1 .. L
      PROVE  now[Key(pool[i])] * MaxActive <= Gone(c, i, L)
  <2> DEFINE k == Key(pool[i])
             x == missed[k]
  <2>1. k \in AllKeys /\ x \in Nat /\ x * MaxActive <= Gone(s, i, L)
    BY <1>1, <1>4
  <2>2. CASE k \notin PassedOver
    <3>1. now[k] * MaxActive = 0
      BY <1>1, <2>1, <2>2
    <3> HIDE DEF L, s, n, c, now
    <3>2. Gone(c, i, L) >= 0
      BY <1>1, <1>3 DEF Gone
    <3>3. QED
      BY <3>1, <3>2
  <2>3. CASE k \in PassedOver
    <3>1. now[k] = x + 1
      BY <2>1, <2>3
    <3>2. (x + 1) * MaxActive = x * MaxActive + MaxActive /\ x * MaxActive \in Int
      BY <1>1, <2>1
    <3>3. IF s >= i THEN n < i + L - s ELSE n < i - s
      BY <1>2, <2>3
    <3>4. n = MaxActive
      <4>1. n < L
        <5> HIDE DEF L, s, n
        <5>1. QED
          BY <1>1, <1>2, <3>3
      <4>2. QED
        BY <1>1, <4>1
    <3> HIDE DEF L, s, n, c, now, x, k
    <3>5. Gone(s, i, L) + MaxActive <= Gone(c, i, L)
      BY <1>1, <1>2, <1>3, <3>3, <3>4 DEF Gone
    <3>6. Gone(s, i, L) \in Int /\ Gone(c, i, L) \in Int
      BY <1>1, <1>2, <1>3 DEF Gone
    <3> DEFINE y == x * MaxActive
    <3>7. y \in Int /\ y <= Gone(s, i, L) /\ now[k] * MaxActive = y + MaxActive
      BY <2>1, <3>1, <3>2
    <3> HIDE DEF y
    <3>8. QED
      BY <1>1, <3>5, <3>6, <3>7 DEF k
  <2>4. QED
    BY <2>2, <2>3
<1>6. now \in [AllKeys -> Nat] /\ \A k \in AllKeys \ Pooled : now[k] = 0
  BY <1>1 DEF PassedOver
<1> HIDE DEF now, c, s, n
<1>7. Pooled' = Pooled
  BY <1>1 DEF Pooled
<1>8. QED
  BY <1>1, <1>2, <1>3, <1>5, <1>6, <1>7 DEF Turn, Behind

LEMMA StepTurn == ASSUME IInv, IInv', Turn, [Next]_vars PROVE Turn'
<1>1. ASSUME NEW s \in Symbols, NEW e \in EventIds[s], NEW a \in 0 .. TTL,
             DetectEvent(s, e, a)
      PROVE  Turn'
  BY <1>1, TrackTurn DEF DetectEvent
<1>2. ASSUME NEW s \in Symbols, TrackAgain(s) PROVE Turn'
  <2>1. row[s] \in EventIds[s] /\ rowAge[s] \in 0 .. TTL
    BY <1>2 DEF TrackAgain, IInv, Rows
  <2>2. QED
    BY <1>2, <2>1, TrackTurn DEF TrackAgain
<1>3. CASE Poll
  BY <1>3, PollTurn
<1>4. CASE Tick
  <2>1. /\ Len(pool') = Len(pool) /\ pool' \in Seq(Candidate)
        /\ \A i \in 1 .. Len(pool) : Key(pool'[i]) = Key(pool[i])
        /\ UNCHANGED <<cursor, missed>>
    <3>1. Len(pool) \in Nat /\ pool' = [i \in 1 .. Len(pool) |-> [pool[i] EXCEPT !.age = Older(@)]]
          /\ pool' \in Seq(Candidate)
      BY <1>4 DEF Tick, IInv
    <3>2. \A i \in 1 .. Len(pool) : pool[i] \in Candidate
      BY DEF IInv
    <3>3. QED
      BY <1>4, <3>1, <3>2 DEF Tick, Key, Candidate
  <2>2. Pooled' = Pooled
    BY <2>1 DEF Pooled, KeysOf
  <2>3. QED
    BY <2>1, <2>2 DEF Turn, Fresh, Behind
<1>5. CASE Sweep
  BY <1>5, ShrunkPool, ShrinkTurn DEF Sweep, InTime, IInv
<1>6. ASSUME UNCHANGED <<pool, cursor, missed>> PROVE Turn'
  BY <1>6 DEF Turn, Fresh, Behind, Pooled
<1>7. CASE \/ FramesArrive \/ Boot \/ UNCHANGED vars \/ ScanRaises
           \/ \E s \in Symbols : RenewHigh(s)
           \/ \E k \in AllKeys :
                KeyGone(k) \/ KeySkipped(k) \/ Evaluate(k) \/ EvaluationRaises(k)
  BY <1>6, <1>7 DEF FramesArrive, Boot, vars, ScanRaises, RenewHigh, KeyGone, KeySkipped,
                    Evaluate, EvaluationRaises
<1>8. CASE ScanEnds \/ Crash \/ \E k \in AllKeys : KeyReplaced(k) \/ EvaluationEnds(k)
  <2>1. /\ pool' = pool \/ pool' = <<>> \/ \E k : pool' = Without(k)
        /\ missed' = Missed(pool') /\ (cursor' = cursor \/ (cursor' = 0 /\ pool' = <<>>))
    BY <1>8 DEF ScanEnds, Crash, KeyReplaced, EvaluationEnds
  <2>2. \A k : Without(k) \in {Kept(pool, I) : I \in SUBSET (DOMAIN pool)}
    BY DEF Without
  <2>3. pool' \in Seq(Candidate)
    BY DEF IInv
  <2>4. KeysOf(pool') \in SUBSET Pooled
    <3>1. CASE pool' = pool
      BY <3>1 DEF Pooled
    <3>2. CASE pool' = <<>>
      BY <3>2 DEF KeysOf
    <3>3. CASE \E k : pool' = Without(k)
      BY <3>3, ShrunkPool DEF IInv
    <3>4. QED
      BY <2>1, <3>1, <3>2, <3>3
  <2>5. QED
    BY <2>1, <2>2, <2>3, <2>4, ShrinkTurn
<1>9. QED
  BY <1>1, <1>2, <1>3, <1>4, <1>5, <1>7, <1>8 DEF Next, Monitor

LEMMA SpecTurn == Spec => []Turn
<1>1. Init => Turn
  <2>1. Init => Pooled = {}
    BY DEF Init, Pooled, KeysOf
  <2>2. QED
    BY <2>1 DEF Init, Turn, Fresh
<1>2. QED
  BY <1>1, StepTurn, SpecIInv, PTL DEF Spec

-----------------------------------------------------------------------------
\* The pool never holds two events of one symbol, or one twice, however the
\* scan's tracking falls between the monitor's steps.
THEOREM OneCandidate == Spec => []OneCandidatePerSymbol
<1>1. IInv => OneCandidatePerSymbol
  BY DEF IInv, Single, OneCandidatePerSymbol
<1>2. QED
  BY <1>1, SpecIInv, PTL

\* An event whose time to live is over is not taken again before it has a new
\* high: not by a scan, not after a restart, not when the scan comes back to
\* its row.
THEOREM ExpiredOut == Spec => []ExpiredStaysOut
<1>1. IInv => ExpiredStaysOut
  BY DEF IInv
<1>2. QED
  BY <1>1, SpecIInv, PTL

\* While candidates only come, each gets its turn within the polls of one
\* round over a candidate of every symbol, from any cursor.
THEOREM TurnComes == Spec => []TurnComesRound
<1>1. IInv /\ Turn => TurnComesRound
  <2> SUFFICES ASSUME IInv, Turn, NEW k \in Pooled
               PROVE  missed[k] * MaxActive < Cardinality(Symbols)
    BY DEF TurnComesRound
  <2> DEFINE L == Len(pool)
             symbolOf == [i \in 1 .. L |-> pool[i].symbol]
  <2>1. L \in Nat /\ \A i \in 1 .. L : pool[i].symbol \in Symbols
    <3>1. L \in Nat /\ \A i \in 1 .. L : pool[i] \in Candidate
      BY DEF IInv
    <3>2. QED
      BY <3>1 DEF Candidate
  <2>2. L <= Cardinality(Symbols) /\ Cardinality(Symbols) \in Nat
    <3>1. symbolOf \in Injection(1 .. L, Symbols)
      BY <2>1 DEF IInv, Single, Injection, IsInjective
    <3>2. Cardinality(1 .. L) = L
      BY <2>1, UpTo
    <3> HIDE DEF symbolOf, L
    <3>3. QED
      BY <3>1, <3>2, MonitorAssumption, FS_Injection, FS_CardinalityType
  <2>3. PICK i \in 1 .. L : k = Key(pool[i])
    BY DEF Pooled, KeysOf
  <2>4. missed[k] \in Nat /\ k \in AllKeys
    BY DEF Turn
  <2>5. CASE Fresh
    <3>1. missed[k] * MaxActive = 0
      BY <2>4, <2>5, MonitorAssumption DEF Fresh
    <3>2. QED
      BY <2>1, <2>2, <2>3, <3>1
  <2>6. CASE ~ Fresh
    <3>1. cursor \in Nat /\ cursor < L /\ missed[k] * MaxActive <= Gone(cursor, i, L)
      BY <2>3, <2>6 DEF Turn, Behind
    <3>2. Gone(cursor, i, L) < L /\ Gone(cursor, i, L) \in Int
      BY <2>1, <2>3, <3>1 DEF Gone
    <3>3. missed[k] * MaxActive \in Int
      BY <2>4, MonitorAssumption
    <3> DEFINE y == missed[k] * MaxActive
    <3> HIDE DEF L, y
    <3>4. y \in Int /\ y <= Gone(cursor, i, L)
      BY <3>1, <3>3 DEF y
    <3>5. y < Cardinality(Symbols)
      BY <2>1, <2>2, <3>2, <3>4
    <3>6. QED
      BY <3>5 DEF y
  <2>7. QED
    BY <2>5, <2>6
<1>2. QED
  BY <1>1, SpecIInv, SpecTurn, PTL
=============================================================================
