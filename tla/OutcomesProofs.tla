---------------------------- MODULE OutcomesProofs ----------------------------
(***************************************************************************)
(* Proofs about Outcomes for any number of observations and signals, any   *)
(* batches, delays and passes: when a settled outcome may be taken away.   *)
(***************************************************************************)
EXTENDS Outcomes, FiniteSetTheorems, TLAPS

-----------------------------------------------------------------------------
(* A filter.                                                               *)

\* Every n up to the number of positions is the rank of one of them.
LEMMA PositionRank ==
    ASSUME NEW I \in SUBSET Nat, IsFiniteSet(I), NEW n \in 1 .. Cardinality(I)
    PROVE  Position(I, n) \in I /\ Cardinality({j \in I : j <= Position(I, n)}) = n
<1> DEFINE upto(i) == {j \in I : j <= i}
           rank == [i \in I |-> Cardinality(upto(i))]
           N == Cardinality(I)
<1>1. N \in Nat /\ IsFiniteSet(1 .. N) /\ Cardinality(1 .. N) = N
  BY FS_CardinalityType, FS_Interval
<1>2. ASSUME NEW i \in I
      PROVE  /\ IsFiniteSet(upto(i)) /\ Cardinality(upto(i)) \in 1 .. N
             /\ i \in upto(i)
  <2>1. upto(i) \in SUBSET I /\ i \in upto(i)
    OBVIOUS
  <2>2. IsFiniteSet(upto(i)) /\ Cardinality(upto(i)) <= N
    BY <2>1, FS_Subset
  <2>3. Cardinality(upto(i)) \in Nat /\ Cardinality(upto(i)) # 0
    BY <2>1, <2>2, FS_CardinalityType, FS_EmptySet
  <2>4. QED
    BY <1>1, <2>1, <2>2, <2>3
<1>3. ASSUME NEW i \in I, NEW k \in I, i < k
      PROVE  Cardinality(upto(i)) # Cardinality(upto(k))
  <2>1. upto(i) \in SUBSET upto(k)
    <3>1. i \in Int /\ k \in Int /\ I \subseteq Int
      OBVIOUS
    <3>2. ASSUME NEW j \in I, j <= i PROVE j <= k
      BY <1>3, <3>1, <3>2
    <3>3. QED
      BY <3>2
  <2>2. IsFiniteSet(upto(k)) /\ upto(i) # upto(k)
    <3>1. k \in upto(k) /\ k \notin upto(i)
      BY <1>3
    <3>2. QED
      BY <1>2, <3>1
  <2>3. QED
    BY <2>1, <2>2, FS_Subset
<1>4. rank \in [I -> 1 .. N] /\ \A i \in I : rank[i] = Cardinality(upto(i))
  BY <1>2
<1> HIDE DEF rank, upto, N
<1>5. rank \in Injection(I, 1 .. N)
  <2>1. ASSUME NEW i \in I, NEW k \in I, i # k PROVE rank[i] # rank[k]
    <3>1. i < k \/ k < i
      BY <2>1
    <3>2. QED
      BY <1>3, <1>4, <3>1
  <2>2. QED
    BY <1>4, <2>1 DEF Injection, IsInjective
<1>6. rank \in Surjection(I, 1 .. N)
  BY <1>1, <1>5, FS_Injection DEF N
<1>7. \E i \in I : Cardinality(upto(i)) = n
  BY <1>4, <1>6 DEF Surjection, N
<1>8. QED
  BY <1>7 DEF Position, upto

\* What a filter leaves: entries of the list from distinct positions.
LEMMA KeptEntries ==
    ASSUME NEW S, NEW s \in Seq(S), NEW I \in SUBSET (DOMAIN s)
    PROVE  /\ Kept(s, I) \in Seq(S)
           /\ Len(Kept(s, I)) = Cardinality(I)
           /\ \A n \in 1 .. Len(Kept(s, I)) :
                /\ Position(I, n) \in I /\ Kept(s, I)[n] = s[Position(I, n)]
                /\ \A m \in 1 .. Len(Kept(s, I)) : Position(I, m) = Position(I, n) => m = n
<1>1. DOMAIN s = 1 .. Len(s) /\ Len(s) \in Nat
  OBVIOUS
<1>2. IsFiniteSet(I) /\ I \in SUBSET Nat
  <2>1. IsFiniteSet(DOMAIN s)
    BY <1>1, FS_Interval
  <2>2. QED
    BY <1>1, <2>1, FS_Subset
<1>3. Cardinality(I) \in Nat
  BY <1>2, FS_CardinalityType
<1>4. \A n \in 1 .. Cardinality(I) :
        Position(I, n) \in I /\ Cardinality({j \in I : j <= Position(I, n)}) = n
  <2>1. ASSUME NEW n \in 1 .. Cardinality(I)
        PROVE  Position(I, n) \in I /\ Cardinality({j \in I : j <= Position(I, n)}) = n
    BY <1>2, PositionRank
  <2>2. QED
    BY <2>1
<1>5. \A n \in 1 .. Cardinality(I) : s[Position(I, n)] \in S
  <2>1. \A i \in DOMAIN s : s[i] \in S
    BY <1>1
  <2>2. QED
    BY <1>4, <2>1
<1>6. /\ Kept(s, I) = [n \in 1 .. Cardinality(I) |-> s[Position(I, n)]]
      /\ Kept(s, I) \in [1 .. Cardinality(I) -> S]
  BY <1>5 DEF Kept
<1>7. Kept(s, I) \in Seq(S) /\ Len(Kept(s, I)) = Cardinality(I)
  BY <1>3, <1>6
<1>8. ASSUME NEW n \in 1 .. Cardinality(I), NEW m \in 1 .. Cardinality(I),
             Position(I, m) = Position(I, n)
      PROVE  m = n
  BY <1>4, <1>8
<1>9. QED
  BY <1>4, <1>6, <1>7, <1>8

-----------------------------------------------------------------------------
(* The line of unsettled rows.                                             *)

Distinct(l) == \A i, j \in DOMAIN l : l[i] = l[j] => i = j

Unsettled == {"NULL", "incomplete", "unknown"}

\* A line of rows none of which is there twice.
LineOf(l, S) == l \in Seq(S) /\ Distinct(l)

\* A filter of the line is one.
LEMMA KeptLine ==
    ASSUME NEW S, NEW l, LineOf(l, S), NEW I \in SUBSET (DOMAIN l)
    PROVE  /\ LineOf(Kept(l, I), S)
           /\ \A n \in DOMAIN Kept(l, I) :
                Position(I, n) \in I /\ Kept(l, I)[n] = l[Position(I, n)]
<1>1. l \in Seq(S)
  BY DEF LineOf
<1> DEFINE k == Kept(l, I)
<1>2. /\ k \in Seq(S)
      /\ \A n \in 1 .. Len(k) :
           /\ Position(I, n) \in I /\ k[n] = l[Position(I, n)]
           /\ \A m \in 1 .. Len(k) : Position(I, m) = Position(I, n) => m = n
  BY <1>1, KeptEntries
<1> HIDE DEF k
<1>3. DOMAIN k = 1 .. Len(k)
  BY <1>2
<1>4. Distinct(k)
  BY <1>2, <1>3 DEF LineOf, Distinct
<1>5. QED
  BY <1>2, <1>3, <1>4 DEF k, LineOf

\* The query's order puts a row that is not in the line into it, once.
LEMMA PlacedLine ==
    ASSUME NEW S, NEW l, LineOf(l, S), NEW o \in S, \A i \in DOMAIN l : l[i] # o, NEW d
    PROVE  /\ LineOf(Placed(l, o, d), S)
           /\ \A n \in DOMAIN Placed(l, o, d) :
                Placed(l, o, d)[n] = o \/ \E i \in DOMAIN l : Placed(l, o, d)[n] = l[i]
<1> DEFINE B == {i \in DOMAIN l : due[l[i]] < d \/ (due[l[i]] = d /\ l[i] < o)}
           x == Kept(l, B)
           z == Kept(l, DOMAIN l \ B)
           p == x \o <<o>> \o z
<1>1. Placed(l, o, d) = p
  BY DEF Placed
<1>2. B \in SUBSET (DOMAIN l) /\ DOMAIN l \ B \in SUBSET (DOMAIN l)
  OBVIOUS
<1> HIDE DEF B
<1>3. /\ LineOf(x, S) /\ \A n \in DOMAIN x : Position(B, n) \in B /\ x[n] = l[Position(B, n)]
  BY <1>2, KeptLine
<1>4. /\ LineOf(z, S)
      /\ \A n \in DOMAIN z : /\ Position(DOMAIN l \ B, n) \in DOMAIN l \ B
                             /\ z[n] = l[Position(DOMAIN l \ B, n)]
  BY <1>2, KeptLine
<1> HIDE DEF x, z
<1>5. \A m \in DOMAIN x, n \in DOMAIN z : x[m] # z[n]
  BY <1>2, <1>3, <1>4 DEF LineOf, Distinct
<1>6. (\A m \in DOMAIN x : x[m] # o) /\ (\A n \in DOMAIN z : z[n] # o)
  BY <1>2, <1>3, <1>4
<1>7. /\ x \in Seq(S) /\ z \in Seq(S) /\ <<o>> \in Seq(S)
      /\ DOMAIN x = 1 .. Len(x) /\ Len(x) \in Nat
      /\ DOMAIN z = 1 .. Len(z) /\ Len(z) \in Nat
  BY <1>3, <1>4 DEF LineOf
<1>8. /\ p \in Seq(S) /\ Len(p) = Len(x) + 1 + Len(z)
      /\ DOMAIN p = 1 .. Len(x) + 1 + Len(z)
      /\ \A i \in DOMAIN p :
           p[i] = IF i <= Len(x) THEN x[i]
                  ELSE IF i = Len(x) + 1 THEN o ELSE z[i - Len(x) - 1]
  <2>1. /\ x \o <<o>> \in Seq(S) /\ Len(x \o <<o>>) = Len(x) + 1
        /\ \A i \in 1 .. Len(x) + 1 :
             (x \o <<o>>)[i] = IF i <= Len(x) THEN x[i] ELSE o
    BY <1>7
  <2> DEFINE y == x \o <<o>>
  <2> HIDE DEF y
  <2>2. /\ y \o z \in Seq(S) /\ Len(y \o z) = Len(y) + Len(z)
        /\ \A i \in 1 .. Len(y) + Len(z) :
             (y \o z)[i] = IF i <= Len(y) THEN y[i] ELSE z[i - Len(y)]
    BY <1>7, <2>1 DEF y
  <2>3. p = y \o z /\ Len(y) = Len(x) + 1
    BY <2>1 DEF y
  <2> HIDE DEF p
  <2>4. p \in Seq(S) /\ Len(p) = Len(x) + 1 + Len(z) /\ DOMAIN p = 1 .. Len(p)
    BY <2>2, <2>3
  <2>5. ASSUME NEW i \in 1 .. Len(x) + 1 + Len(z)
        PROVE  p[i] = IF i <= Len(x) THEN x[i]
                      ELSE IF i = Len(x) + 1 THEN o ELSE z[i - Len(x) - 1]
    <3>1. p[i] = IF i <= Len(x) + 1 THEN y[i] ELSE z[i - (Len(x) + 1)]
      BY <2>2, <2>3
    <3>2. i <= Len(x) + 1 => y[i] = IF i <= Len(x) THEN x[i] ELSE o
      BY <1>7, <2>1 DEF y
    <3>3. i - (Len(x) + 1) = i - Len(x) - 1
      BY <1>7
    <3>4. QED
      BY <1>7, <3>1, <3>2, <3>3
  <2>6. QED
    BY <2>4, <2>5
<1> HIDE DEF p
<1>9. ASSUME NEW i \in DOMAIN p, NEW j \in DOMAIN p, i < j
      PROVE  p[i] # p[j]
  <2>1. CASE j <= Len(x)
    BY <1>3, <1>7, <1>8, <1>9, <2>1 DEF LineOf, Distinct
  <2>2. CASE j = Len(x) + 1
    BY <1>6, <1>7, <1>8, <1>9, <2>2
  <2>3. CASE j > Len(x) + 1
    <3>1. j - Len(x) - 1 \in DOMAIN z /\ p[j] = z[j - Len(x) - 1]
      BY <1>7, <1>8, <2>3
    <3>2. CASE i <= Len(x)
      BY <1>5, <1>7, <1>8, <3>1, <3>2
    <3>3. CASE i = Len(x) + 1
      BY <1>6, <1>7, <1>8, <3>1, <3>3
    <3>4. CASE i > Len(x) + 1
      <4>1. i - Len(x) - 1 \in DOMAIN z /\ p[i] = z[i - Len(x) - 1]
            /\ i - Len(x) - 1 # j - Len(x) - 1
        BY <1>7, <1>8, <1>9, <3>4
      <4>2. QED
        BY <1>4, <3>1, <4>1 DEF LineOf, Distinct
    <3>5. QED
      BY <1>7, <1>8, <3>2, <3>3, <3>4
  <2>4. QED
    BY <1>7, <1>8, <2>1, <2>2, <2>3
<1>10. Distinct(p)
  <2>1. \A i, j \in DOMAIN p : i # j => i < j \/ j < i
    BY <1>7, <1>8
  <2>2. QED
    BY <1>9, <2>1 DEF Distinct
<1>11. \A n \in DOMAIN p : p[n] = o \/ \E i \in DOMAIN l : p[n] = l[i]
  <2>1. \A m \in DOMAIN x : \E i \in DOMAIN l : x[m] = l[i]
    BY <1>2, <1>3
  <2>2. \A m \in DOMAIN z : \E i \in DOMAIN l : z[m] = l[i]
    BY <1>4
  <2>3. ASSUME NEW n \in DOMAIN p PROVE p[n] = o \/ \E i \in DOMAIN l : p[n] = l[i]
    <3>1. CASE n <= Len(x)
      BY <1>7, <1>8, <2>1, <3>1
    <3>2. CASE n = Len(x) + 1
      BY <1>7, <1>8, <3>2
    <3>3. CASE n > Len(x) + 1
      <4>1. n - Len(x) - 1 \in DOMAIN z /\ p[n] = z[n - Len(x) - 1]
        BY <1>7, <1>8, <3>3
      <4>2. QED
        BY <2>2, <4>1
    <3>4. QED
      BY <1>7, <1>8, <3>1, <3>2, <3>3
  <2>4. QED
    BY <2>3
<1>12. QED
  BY <1>1, <1>8, <1>10, <1>11 DEF LineOf

-----------------------------------------------------------------------------
(* The inductive invariant.  A settled outcome is taken away by a process   *)
(* that read the row before the other one settled it.  Of two processes     *)
(* that hold a row one is left when it is settled, so `Held` can count: a   *)
(* pass of the script may read a row once, hold it, or have had its effect. *)

Statuses == {"ABSENT", "NULL", "incomplete", "unknown", "final", "complete"}

Ledger ==
    /\ status \in [Observations -> Statuses]
    /\ tries \in [Observations -> 0 .. TryCap]
    /\ undone \in [Observations -> Nat]
    /\ LineOf(line, Observations)
    /\ \A i \in DOMAIN line : status[line[i]] \in Unsettled

Items == Observations \X (0 .. TryCap)

RowsOf(q) == {q[i][1] : i \in DOMAIN q}

DistinctRows(q) == \A i, j \in DOMAIN q : q[i][1] = q[j][1] => i = j

Passes ==
    /\ pc \in [Workers -> {"idle", "signals", "observations"}]
    /\ todo = [w \in Workers |-> todo[w]]
    /\ tried \in [Workers -> SUBSET Observations]
    /\ \A w \in Workers :
         pc[w] = "observations" => todo[w] \in Seq(Items) /\ DistinctRows(todo[w])
    /\ scripts \in Nat
    /\ scripts = 0 => pc[Script] = "idle"

\* The rows a worker has read and not dealt with.
Hand(w) == IF pc[w] = "observations" THEN RowsOf(todo[w]) ELSE {}

\* An outcome of row o may still be taken away on account of a row in hand ...
Credit(o) ==
    IF o \in Hand(Script) \/ (Settled(o) /\ \E w \in Workers : o \in Hand(w)) THEN 1 ELSE 0

\* ... and on account of the reading that the script's pass has before it.
Unread(o) == IF pc[Script] # "idle" /\ o \notin tried[Script] THEN 1 ELSE 0

OneHolds ==
    \A o \in Observations : Settled(o) =>
        \A v, w \in Workers : o \in Hand(v) /\ o \in Hand(w) => v = w

AloneFresh ==
    scripts = 0 => \A o \in Observations : Settled(o) => \A w \in Workers : o \notin Hand(w)

Counted == \A o \in Observations : undone[o] + Credit(o) + Unread(o) <= scripts

Held == OneHolds /\ AloneFresh /\ Counted

IInv == Ledger /\ Passes /\ Held

LEMMA InitIInv == Init => IInv
<1> SUFFICES ASSUME Init PROVE IInv
  OBVIOUS
<1>1. TryCap \in Nat /\ Script \in Workers
  BY OutcomesAssumption
<1>2. line = <<>> /\ LineOf(line, Observations)
  BY DEF Init, LineOf, Distinct
<1>3. Ledger
  BY <1>1, <1>2 DEF Init, Ledger, Statuses
<1>4. Passes
  BY <1>1 DEF Init, Passes
<1>5. \A w \in Workers : Hand(w) = {}
  BY DEF Init, Hand
<1>6. \A o \in Observations : Credit(o) = 0 /\ Unread(o) = 0 /\ undone[o] = 0 /\ scripts = 0
  BY <1>1, <1>5 DEF Init, Credit, Unread
<1>7. Held
  BY <1>5, <1>6 DEF Held, OneHolds, AloneFresh, Counted
<1>8. QED
  BY <1>3, <1>4, <1>7 DEF IInv

-----------------------------------------------------------------------------
(* The batches.                                                            *)

\* What is left of a batch.
LEMMA TailBatch ==
    ASSUME NEW q \in Seq(Items), q # <<>>, DistinctRows(q)
    PROVE  /\ Tail(q) \in Seq(Items) /\ DistinctRows(Tail(q))
           /\ q[1][1] \in RowsOf(q) /\ q[1][1] \in Observations
           /\ RowsOf(Tail(q)) = RowsOf(q) \ {q[1][1]}
           /\ Len(q) = 1 => RowsOf(q) \ {q[1][1]} = {}
<1>1. /\ Tail(q) \in Seq(Items) /\ Len(q) \in Nat \ {0} /\ Len(Tail(q)) = Len(q) - 1
      /\ DOMAIN Tail(q) = 1 .. Len(q) - 1 /\ DOMAIN q = 1 .. Len(q)
      /\ \A i \in 1 .. Len(q) - 1 : Tail(q)[i] = q[i + 1]
  OBVIOUS
<1>2. 1 \in DOMAIN q /\ q[1] \in Items /\ q[1][1] \in Observations
  BY <1>1 DEF Items
<1>3. \A i \in DOMAIN Tail(q) : i + 1 \in DOMAIN q /\ i + 1 # 1 /\ Tail(q)[i] = q[i + 1]
  BY <1>1
<1>4. \A i \in DOMAIN q : i # 1 => i - 1 \in DOMAIN Tail(q) /\ Tail(q)[i - 1] = q[i]
  BY <1>1
<1>5. DistinctRows(Tail(q))
  <2>1. \A i, j \in DOMAIN Tail(q) : i + 1 = j + 1 => i = j
    BY <1>1
  <2>2. QED
    BY <1>3, <2>1 DEF DistinctRows
<1>6. RowsOf(Tail(q)) = RowsOf(q) \ {q[1][1]}
  <2>1. \A x \in RowsOf(Tail(q)) : x \in RowsOf(q) /\ x # q[1][1]
    <3>1. SUFFICES ASSUME NEW i \in DOMAIN Tail(q)
                   PROVE  Tail(q)[i][1] \in RowsOf(q) /\ Tail(q)[i][1] # q[1][1]
      BY DEF RowsOf
    <3>2. i + 1 \in DOMAIN q /\ i + 1 # 1 /\ Tail(q)[i] = q[i + 1]
      BY <1>3
    <3>3. q[i + 1][1] # q[1][1]
      BY <1>2, <3>2 DEF DistinctRows
    <3>4. QED
      BY <3>2, <3>3 DEF RowsOf
  <2>2. \A x \in RowsOf(q) : x # q[1][1] => x \in RowsOf(Tail(q))
    <3>1. SUFFICES ASSUME NEW i \in DOMAIN q, q[i][1] # q[1][1]
                   PROVE  q[i][1] \in RowsOf(Tail(q))
      BY DEF RowsOf
    <3>2. i - 1 \in DOMAIN Tail(q) /\ Tail(q)[i - 1] = q[i]
      BY <1>4, <3>1
    <3>3. QED
      BY <3>2 DEF RowsOf
  <2>3. QED
    BY <2>1, <2>2
<1>7. Len(q) = 1 => RowsOf(q) \ {q[1][1]} = {}
  BY <1>1 DEF RowsOf
<1>8. QED
  BY <1>1, <1>2, <1>5, <1>6, <1>7 DEF RowsOf

\* One worker moves: its batch is another one, the others' are theirs.
LEMMA Moved ==
    ASSUME Passes, NEW w \in Workers, NEW place \in {"idle", "signals", "observations"}, NEW q,
           pc' = [pc EXCEPT ![w] = place], todo' = [todo EXCEPT ![w] = q],
           place = "observations" => q \in Seq(Items) /\ DistinctRows(q),
           tried' \in [Workers -> SUBSET Observations], scripts' \in Nat,
           scripts' = 0 => scripts = 0 /\ (w = Script => place = "idle")
    PROVE  /\ Passes'
           /\ Hand(w)' = IF place = "observations" THEN RowsOf(q) ELSE {}
           /\ \A v \in Workers : v # w => Hand(v)' = Hand(v) /\ pc'[v] = pc[v]
           /\ pc'[w] = place
<1>1. /\ todo' = [v \in Workers |-> todo'[v]] /\ todo'[w] = q
      /\ \A v \in Workers : v # w => todo'[v] = todo[v] /\ pc'[v] = pc[v]
      /\ pc'[w] = place /\ pc' \in [Workers -> {"idle", "signals", "observations"}]
  BY DEF Passes
<1>2. \A v \in Workers :
        pc'[v] = "observations" => todo'[v] \in Seq(Items) /\ DistinctRows(todo'[v])
  BY <1>1 DEF Passes
<1>3. scripts' = 0 => pc'[Script] = "idle"
  BY <1>1, OutcomesAssumption DEF Passes
<1>4. Passes'
  BY <1>1, <1>2, <1>3 DEF Passes, DistinctRows, Items
<1>5. Hand(w)' = IF place = "observations" THEN RowsOf(q) ELSE {}
  <2>1. CASE place = "observations"
    <3>1. pc'[w] = "observations" /\ todo'[w] = q
      BY <1>1, <2>1
    <3>2. Hand(w)' = {todo'[w][i][1] : i \in DOMAIN todo'[w]}
      BY <3>1 DEF Hand, RowsOf
    <3>3. Hand(w)' = {q[i][1] : i \in DOMAIN q}
      BY <3>1, <3>2
    <3>4. QED
      BY <2>1, <3>3 DEF RowsOf
  <2>2. CASE place # "observations"
    BY <1>1, <2>2 DEF Hand
  <2>3. QED
    BY <2>1, <2>2
<1>6. \A v \in Workers : v # w => Hand(v)' = Hand(v)
  BY <1>1 DEF Hand, RowsOf
<1>7. QED
  BY <1>1, <1>4, <1>5, <1>6

\* The script's pass has no more readings before it than it had.
ScriptNoFresher == pc'[Script] = "idle" \/ (pc'[Script] = pc[Script] /\ tried'[Script] = tried[Script])

LEMMA LeaveMoves ==
    ASSUME Passes, NEW w \in Workers, Leave(w), scripts' = scripts
    PROVE  /\ Passes' /\ Hand(w)' = {} /\ \A v \in Workers : v # w => Hand(v)' = Hand(v)
           /\ ScriptNoFresher
<1>1. /\ pc' = [pc EXCEPT ![w] = "idle"] /\ todo' = [todo EXCEPT ![w] = <<>>]
      /\ tried' = [tried EXCEPT ![w] = {}]
  BY DEF Leave
<1>2. tried' \in [Workers -> SUBSET Observations] /\ scripts' \in Nat
      /\ \A v \in Workers : v # w => tried'[v] = tried[v]
  BY <1>1 DEF Passes
<1>3. /\ Passes' /\ Hand(w)' = {} /\ pc'[w] = "idle"
      /\ \A v \in Workers : v # w => Hand(v)' = Hand(v) /\ pc'[v] = pc[v]
  BY <1>1, <1>2, Moved
<1>4. ScriptNoFresher
  BY <1>2, <1>3, OutcomesAssumption DEF ScriptNoFresher
<1>5. QED
  BY <1>3, <1>4

\* A row of the observations is dealt with.
LEMMA NextRowMoves ==
    ASSUME Passes, NEW w \in Workers, NEW o, AtRow(w, o), NextRow(w), scripts' = scripts
    PROVE  /\ Passes' /\ o \in Hand(w) /\ o \in Observations /\ Hand(w)' = Hand(w) \ {o}
           /\ \A v \in Workers : v # w => Hand(v)' = Hand(v)
           /\ ScriptNoFresher
<1> DEFINE q == todo[w]
<1>1. /\ pc[w] = "observations" /\ q # <<>> /\ q[1][1] = o /\ q \in Seq(Items)
      /\ DistinctRows(q) /\ Hand(w) = RowsOf(q)
  BY DEF AtRow, Passes, Hand
<1>2. /\ Tail(q) \in Seq(Items) /\ DistinctRows(Tail(q)) /\ o \in RowsOf(q) /\ o \in Observations
      /\ RowsOf(Tail(q)) = RowsOf(q) \ {o} /\ (Len(q) = 1 => RowsOf(q) \ {o} = {})
  BY <1>1, TailBatch
<1>3. CASE Len(q) = 1 /\ batches[w] = MaxBatches
  <2>1. Leave(w)
    BY <1>3 DEF NextRow
  <2>2. QED
    BY <1>1, <1>2, <1>3, <2>1, LeaveMoves
<1>4. CASE ~ (Len(q) = 1 /\ batches[w] = MaxBatches)
  <2>1. todo' = [todo EXCEPT ![w] = Tail(q)] /\ pc' = pc /\ tried' = tried
    BY <1>4 DEF NextRow
  <2>2. pc' = [pc EXCEPT ![w] = "observations"]
    BY <1>1, <2>1 DEF Passes
  <2>3. /\ tried' \in [Workers -> SUBSET Observations] /\ scripts' \in Nat
        /\ scripts' = 0 => scripts = 0 /\ w # Script
    BY <1>1, <2>1 DEF Passes
  <2> HIDE DEF q
  <2>4. /\ Passes' /\ Hand(w)' = RowsOf(Tail(q))
        /\ \A v \in Workers : v # w => Hand(v)' = Hand(v)
    BY <1>2, <2>1, <2>2, <2>3, Moved
  <2>5. ScriptNoFresher
    BY <2>1 DEF ScriptNoFresher
  <2>6. QED
    BY <1>1, <1>2, <2>4, <2>5
<1>5. QED
  BY <1>3, <1>4

-----------------------------------------------------------------------------
(* What may become of the outcomes.                                        *)

\* A worker gives rows up, or none does: nothing is taken away, now or later.
LEMMA DropHeld ==
    ASSUME Held, Ledger, scripts \in Nat, scripts' = scripts, UNCHANGED undone,
           \A o \in Observations : Settled(o)' => Settled(o),
           \A v \in Workers : Hand(v)' \in SUBSET Hand(v), ScriptNoFresher
    PROVE  Held'
<1>1. Script \in Workers
  BY OutcomesAssumption
<1>2. OneHolds'
  BY DEF Held, OneHolds
<1>3. AloneFresh'
  BY DEF Held, AloneFresh
<1>4. Counted'
  <2>1. ASSUME NEW o \in Observations PROVE undone'[o] + Credit(o)' + Unread(o)' <= scripts'
    <3>1. undone[o] + Credit(o) + Unread(o) <= scripts /\ undone[o] \in Nat
      BY DEF Held, Counted, Ledger
    <3>2. Credit(o)' <= Credit(o) /\ Credit(o) \in 0 .. 1 /\ Credit(o)' \in 0 .. 1
      BY <1>1 DEF Credit
    <3>3. Unread(o)' <= Unread(o) /\ Unread(o) \in 0 .. 1 /\ Unread(o)' \in 0 .. 1
      BY DEF Unread, ScriptNoFresher
    <3>4. QED
      BY <3>1, <3>2, <3>3
  <2>2. QED
    BY <2>1 DEF Counted
<1>5. QED
  BY <1>2, <1>3, <1>4 DEF Held

\* A worker reads rows that are not settled and that it has not tried before.
LEMMA ReadHeld ==
    ASSUME Held, Ledger, scripts \in Nat, scripts' = scripts, UNCHANGED <<undone, status>>,
           NEW w \in Workers, \A v \in Workers : v # w => Hand(v)' = Hand(v), pc[w] # "idle",
           \A o \in Hand(w)' : ~ Settled(o) /\ o \notin tried[w] /\ o \in tried'[w],
           \A o \in tried[w] : o \in tried'[w],
           w # Script => pc'[Script] = pc[Script] /\ tried'[Script] = tried[Script]
    PROVE  Held'
<1>1. Script \in Workers
  BY OutcomesAssumption
<1>2. \A o \in Observations : Settled(o)' <=> Settled(o)
  BY DEF Settled
<1>3. OneHolds'
  BY <1>2 DEF Held, OneHolds
<1>4. AloneFresh'
  BY <1>2 DEF Held, AloneFresh
<1>5. Counted'
  <2>1. ASSUME NEW o \in Observations PROVE undone'[o] + Credit(o)' + Unread(o)' <= scripts'
    <3>1. undone[o] + Credit(o) + Unread(o) <= scripts /\ undone[o] \in Nat
      BY DEF Held, Counted, Ledger
    <3>2. /\ Credit(o) \in 0 .. 1 /\ Credit(o)' \in 0 .. 1
          /\ Unread(o) \in 0 .. 1 /\ Unread(o)' \in 0 .. 1
      BY DEF Credit, Unread
    <3>3. Credit(o)' + Unread(o)' <= Credit(o) + Unread(o)
      <4>1. CASE w # Script
        <5>1. Unread(o)' = Unread(o)
          BY <4>1 DEF Unread
        <5>2. Credit(o)' = 1 => Credit(o) = 1
          BY <1>1, <1>2, <4>1 DEF Credit
        <5>3. QED
          BY <3>2, <5>1, <5>2
      <4>2. CASE w = Script /\ o \in Hand(Script)'
        <5>1. Unread(o)' = 0 /\ Unread(o) = 1
          BY <4>2 DEF Unread
        <5>2. QED
          BY <3>2, <5>1
      <4>3. CASE w = Script /\ o \notin Hand(Script)'
        <5>1. Unread(o)' = 1 => Unread(o) = 1
          BY <4>3 DEF Unread
        <5>2. Credit(o)' = 1 => Credit(o) = 1
          BY <1>1, <1>2, <4>3 DEF Credit
        <5>3. QED
          BY <3>2, <5>1, <5>2
      <4>4. QED
        BY <4>1, <4>2, <4>3
    <3>4. QED
      BY <3>1, <3>2, <3>3
  <2>2. QED
    BY <2>1 DEF Counted
<1>6. QED
  BY <1>3, <1>4, <1>5 DEF Held

\* A worker writes a row it holds.
LEMMA WriteHeld ==
    ASSUME Held, Ledger, Ledger', scripts \in Nat, scripts' = scripts,
           NEW w \in Workers, NEW o \in Observations, o \in Hand(w),
           Hand(w)' = Hand(w) \ {o}, \A v \in Workers : v # w => Hand(v)' = Hand(v),
           \A p \in Observations : p # o => status'[p] = status[p] /\ undone'[p] = undone[p],
           undone'[o] = IF Settled(o) /\ ~ Settled(o)' THEN undone[o] + 1 ELSE undone[o],
           ScriptNoFresher
    PROVE  Held'
<1>1. Script \in Workers /\ \A u, v \in Workers : u # Script /\ v # Script => u = v
  BY OutcomesAssumption
<1>2. \A p \in Observations : p # o => (Settled(p)' <=> Settled(p))
  BY DEF Settled
<1>3. OneHolds'
  <2>1. ASSUME NEW p \in Observations, Settled(p)', NEW u \in Workers, NEW v \in Workers,
               p \in Hand(u)', p \in Hand(v)'
        PROVE  u = v
    <3>1. CASE p # o
      BY <1>2, <2>1, <3>1 DEF Held, OneHolds
    <3>2. CASE p = o
      <4>1. u # w /\ v # w
        BY <2>1, <3>2
      <4>2. QED
        BY <1>1, <4>1
    <3>3. QED
      BY <3>1, <3>2
  <2>2. QED
    BY <2>1 DEF OneHolds
<1>4. AloneFresh'
  <2>1. ASSUME scripts' = 0, NEW p \in Observations, Settled(p)', NEW v \in Workers, p \in Hand(v)'
        PROVE  FALSE
    <3>1. CASE p # o
      BY <1>2, <2>1, <3>1 DEF Held, AloneFresh
    <3>2. CASE p = o
      <4>1. v # w
        BY <2>1, <3>2
      <4>2. w # Script /\ v # Script
        <5>1. undone[o] + Credit(o) + Unread(o) <= 0 /\ undone[o] \in Nat
          BY <2>1 DEF Held, Counted, Ledger
        <5>2. Credit(o) \in 0 .. 1 /\ Unread(o) \in 0 .. 1
          BY DEF Credit, Unread
        <5>3. Credit(o) = 0
          BY <5>1, <5>2
        <5>4. o \notin Hand(Script)
          BY <5>3 DEF Credit
        <5>5. QED
          BY <2>1, <3>2, <4>1, <5>4
      <4>3. QED
        BY <1>1, <4>1, <4>2
    <3>3. QED
      BY <3>1, <3>2
  <2>2. QED
    BY <2>1 DEF AloneFresh
<1>5. Counted'
  <2>1. ASSUME NEW p \in Observations PROVE undone'[p] + Credit(p)' + Unread(p)' <= scripts'
    <3>1. /\ undone[p] + Credit(p) + Unread(p) <= scripts
          /\ undone[p] \in Nat /\ undone'[p] \in Nat
      BY DEF Held, Counted, Ledger
    <3>2. /\ Credit(p) \in 0 .. 1 /\ Credit(p)' \in 0 .. 1
          /\ Unread(p) \in 0 .. 1 /\ Unread(p)' \in 0 .. 1
      BY DEF Credit, Unread
    <3>3. Unread(p)' <= Unread(p)
      BY <3>2 DEF Unread, ScriptNoFresher
    <3>4. undone'[p] + Credit(p)' <= undone[p] + Credit(p)
      <4>1. CASE p # o
        <5>1. undone'[p] = undone[p]
          BY <4>1
        <5>2. Credit(p)' = 1 => Credit(p) = 1
          BY <1>1, <1>2, <4>1 DEF Credit
        <5>3. QED
          BY <3>1, <3>2, <5>1, <5>2
      <4>2. CASE p = o /\ w = Script
        <5>1. Credit(p) = 1 /\ o \notin Hand(Script)'
          BY <4>2 DEF Credit
        <5>2. ~ Settled(p)' => Credit(p)' = 0
          BY <4>2, <5>1 DEF Credit
        <5>3. QED
          BY <3>1, <3>2, <4>2, <5>1, <5>2
      <4>3. CASE p = o /\ w # Script
        <5>1. \A v \in Workers : p \in Hand(v)' => v = Script
          <6>1. \A v \in Workers : p \in Hand(v)' => v # w
            BY <4>3
          <6>2. QED
            BY <1>1, <4>3, <6>1
        <5>2. Credit(p)' = 1 => p \in Hand(Script)' /\ p \in Hand(Script)
          BY <1>1, <4>3, <5>1 DEF Credit
        <5>3. Settled(p) => Credit(p) = 1 /\ p \notin Hand(Script)
          BY <1>1, <4>3 DEF Credit, Held, OneHolds
        <5>4. p \in Hand(Script) => Credit(p) = 1
          BY DEF Credit
        <5>5. QED
          BY <3>1, <3>2, <4>3, <5>2, <5>3, <5>4
      <4>4. QED
        BY <4>1, <4>2, <4>3
    <3>5. QED
      BY <3>1, <3>2, <3>3, <3>4
  <2>2. QED
    BY <2>1 DEF Counted
<1>6. QED
  BY <1>3, <1>4, <1>5 DEF Held

-----------------------------------------------------------------------------
(* The steps.                                                              *)

\* A new row is in nobody's hands and has no outcome.
LEMMA RecordIInv ==
    ASSUME IInv, NEW o \in Observations, RecordObservation(o)
    PROVE  IInv' /\ \A p \in Observations : Settled(p) => status'[p] = status[p]
<1>1. /\ status[o] = "ABSENT" /\ status' = [status EXCEPT ![o] = "NULL"]
      /\ line' = Placed(line, o, 0)
      /\ UNCHANGED <<tries, undone, pc, todo, tried, scripts>>
  BY DEF RecordObservation, passVars
<1>2. \A i \in DOMAIN line : line[i] \in Observations /\ line[i] # o
  <2>1. line \in Seq(Observations) /\ \A i \in DOMAIN line : status[line[i]] # "ABSENT"
    BY DEF IInv, Ledger, LineOf, Unsettled
  <2>2. \A i \in DOMAIN line : line[i] \in Observations
    BY <2>1
  <2>3. QED
    BY <1>1, <2>1, <2>2
<1>3. /\ LineOf(line', Observations)
      /\ \A n \in DOMAIN line' : line'[n] = o \/ \E i \in DOMAIN line : line'[n] = line[i]
  <2>1. LineOf(line, Observations) /\ \A i \in DOMAIN line : line[i] # o
    BY <1>2 DEF IInv, Ledger
  <2>2. QED
    BY <1>1, <2>1, PlacedLine
<1>4. /\ status' \in [Observations -> Statuses] /\ status'[o] = "NULL"
      /\ \A x \in Observations : x # o => status'[x] = status[x]
  BY <1>1 DEF IInv, Ledger, Statuses
<1>5. Ledger'
  BY <1>1, <1>2, <1>3, <1>4 DEF IInv, Ledger, Unsettled
<1>6. Passes'
  BY <1>1 DEF IInv, Passes, DistinctRows
<1>7. \A p \in Observations : Settled(p)' => Settled(p)
  BY <1>1, <1>4 DEF Settled
<1>8. /\ \A v \in Workers : Hand(v)' \in SUBSET Hand(v)
      /\ scripts \in Nat
  BY <1>1 DEF IInv, Passes, Hand, RowsOf
<1>9. ScriptNoFresher
  BY <1>1 DEF ScriptNoFresher
<1>10. Held'
  BY <1>1, <1>7, <1>8, <1>9, DropHeld DEF IInv
<1>11. QED
  BY <1>1, <1>4, <1>5, <1>6, <1>10 DEF IInv, Settled

\* A step that writes no row, and after which nobody holds more.
LEMMA IdleIInv ==
    ASSUME IInv, UNCHANGED <<status, tries, line, undone>>, scripts' = scripts,
           Passes', \A v \in Workers : Hand(v)' \in SUBSET Hand(v), ScriptNoFresher
    PROVE  IInv'
<1>1. Ledger'
  BY DEF IInv, Ledger
<1>2. scripts \in Nat /\ \A o \in Observations : Settled(o)' => Settled(o)
  BY DEF IInv, Passes, Settled
<1>3. Held'
  BY <1>2, DropHeld DEF IInv
<1>4. QED
  BY <1>1, <1>3 DEF IInv

\* The script's pass begins: it may read each row once.
LEMMA BeginIInv ==
    ASSUME IInv, NEW w \in Workers, BeginPass(w)
    PROVE  IInv' /\ status' = status
<1> DEFINE q == Read(SignalsMissing, [s \in Signals |-> 0])
<1>1. /\ pc[w] = "idle" /\ pc' = [pc EXCEPT ![w] = "signals"] /\ todo' = [todo EXCEPT ![w] = q]
      /\ scripts' = (IF w = Script THEN scripts + 1 ELSE scripts)
      /\ UNCHANGED <<status, tries, line, undone, tried>>
  BY DEF BeginPass, obsVars
<1>2. /\ tried' \in [Workers -> SUBSET Observations] /\ scripts \in Nat /\ scripts' \in Nat
      /\ (scripts' = 0 => scripts = 0 /\ w # Script)
  BY <1>1 DEF IInv, Passes
<1> HIDE DEF q
<1>3. /\ Passes' /\ Hand(w)' = {}
      /\ \A v \in Workers : v # w => Hand(v)' = Hand(v) /\ pc'[v] = pc[v]
  BY <1>1, <1>2, Moved DEF IInv
<1>4. \A v \in Workers : Hand(v)' = Hand(v)
  BY <1>1, <1>3 DEF Hand
<1>5. Ledger' /\ \A o \in Observations : Settled(o)' <=> Settled(o)
  BY <1>1 DEF IInv, Ledger, Settled
<1>6. OneHolds' /\ AloneFresh'
  BY <1>2, <1>4, <1>5 DEF IInv, Held, OneHolds, AloneFresh
<1>7. Counted'
  <2>1. ASSUME NEW o \in Observations PROVE undone'[o] + Credit(o)' + Unread(o)' <= scripts'
    <3>1. undone[o] + Credit(o) + Unread(o) <= scripts /\ undone[o] \in Nat
      BY DEF IInv, Held, Counted, Ledger
    <3>2. Credit(o)' = Credit(o) /\ Credit(o) \in 0 .. 1
      BY <1>4, <1>5, OutcomesAssumption DEF Credit
    <3>3. Unread(o) \in 0 .. 1 /\ Unread(o)' \in 0 .. 1
      BY DEF Unread
    <3>4. CASE w = Script
      <4>1. Unread(o) = 0
        BY <1>1, <3>4 DEF Unread
      <4>2. QED
        BY <1>1, <1>2, <3>1, <3>2, <3>3, <3>4, <4>1
    <3>5. CASE w # Script
      <4>1. Unread(o)' = Unread(o)
        BY <1>1, <1>3, <3>5, OutcomesAssumption DEF Unread
      <4>2. QED
        BY <1>1, <3>1, <3>2, <3>3, <3>5, <4>1
    <3>6. QED
      BY <3>4, <3>5
  <2>2. QED
    BY <2>1 DEF Counted
<1>8. QED
  BY <1>1, <1>3, <1>5, <1>6, <1>7 DEF IInv, Held

\* The other steps that leave the ledger alone.
LEMMA QuietIInv ==
    ASSUME IInv,
           \/ \E s \in Signals : SaveSignal(s)
           \/ Tick
           \/ \E w \in Workers : SignalEvaluated(w) \/ PassRaises(w)
           \/ \E w \in Workers, o \in Observations : PersistenceFails(w, o)
           \/ UNCHANGED vars
    PROVE  IInv' /\ status' = status
<1>1. CASE (\E s \in Signals : SaveSignal(s)) \/ Tick \/ UNCHANGED vars
  <2>1. UNCHANGED <<status, tries, line, undone, pc, todo, tried, scripts>>
    BY <1>1 DEF SaveSignal, Tick, vars, obsVars, passVars
  <2>2. Passes' /\ ScriptNoFresher
    BY <2>1 DEF IInv, Passes, DistinctRows, ScriptNoFresher
  <2>3. \A v \in Workers : Hand(v)' = Hand(v)
    BY <2>1 DEF Hand, RowsOf
  <2>4. QED
    BY <2>1, <2>2, <2>3, IdleIInv
<1>2. ASSUME NEW w \in Workers, SignalEvaluated(w) PROVE IInv' /\ status' = status
  <2>1. /\ pc[w] = "signals" /\ scripts' = scripts /\ NextRow(w)
        /\ UNCHANGED <<status, tries, line, undone>> /\ Passes /\ scripts \in Nat
    BY <1>2 DEF SignalEvaluated, obsVars, IInv, Passes
  <2>2. Passes' /\ ScriptNoFresher /\ \A v \in Workers : Hand(v)' \in SUBSET Hand(v)
    <3>1. CASE Leave(w)
      BY <2>1, <3>1, LeaveMoves
    <3>2. CASE ~ Leave(w)
      <4>1. /\ todo' = [todo EXCEPT ![w] = Tail(todo[w])] /\ pc' = pc /\ tried' = tried
        BY <2>1, <3>2 DEF NextRow
      <4>2. /\ pc' = [pc EXCEPT ![w] = "signals"] /\ tried' \in [Workers -> SUBSET Observations]
            /\ scripts' \in Nat /\ (scripts' = 0 => scripts = 0 /\ w # Script)
        BY <2>1, <4>1 DEF Passes
      <4>3. /\ Passes' /\ Hand(w)' = {} /\ \A v \in Workers : v # w => Hand(v)' = Hand(v)
        BY <2>1, <4>1, <4>2, Moved
      <4>4. QED
        BY <4>1, <4>3 DEF ScriptNoFresher
    <3>3. QED
      BY <3>1, <3>2
  <2>3. QED
    BY <2>1, <2>2, IdleIInv
<1>3. ASSUME NEW w \in Workers, PassRaises(w) PROVE IInv' /\ status' = status
  <2>1. /\ Leave(w) /\ scripts' = scripts /\ UNCHANGED <<status, tries, line, undone>>
    BY <1>3 DEF PassRaises, obsVars
  <2>2. Passes' /\ ScriptNoFresher /\ \A v \in Workers : Hand(v)' \in SUBSET Hand(v)
    BY <2>1, LeaveMoves DEF IInv
  <2>3. QED
    BY <2>1, <2>2, IdleIInv
<1>4. ASSUME NEW w \in Workers, NEW o \in Observations, PersistenceFails(w, o)
      PROVE  IInv' /\ status' = status
  <2>1. /\ AtRow(w, o) /\ NextRow(w) /\ scripts' = scripts
        /\ UNCHANGED <<status, tries, line, undone>>
    BY <1>4 DEF PersistenceFails, obsVars
  <2>2. Passes' /\ ScriptNoFresher /\ \A v \in Workers : Hand(v)' \in SUBSET Hand(v)
    BY <2>1, NextRowMoves DEF IInv
  <2>3. QED
    BY <2>1, <2>2, IdleIInv
<1>5. QED
  BY <1>1, <1>2, <1>3, <1>4

\* list_strategy_observations_due_outcomes reads rows of the line, each once.
LEMMA BatchIInv ==
    ASSUME IInv, NEW w \in Workers, NextBatch(w)
    PROVE  IInv' /\ status' = status
<1>1. /\ pc[w] # "idle" /\ todo[w] = <<>> /\ scripts' = scripts
      /\ UNCHANGED <<status, tries, line, undone>> /\ scripts \in Nat
  BY DEF NextBatch, obsVars, IInv, Passes
<1>2. CASE DueRows(w) = <<>>
  <2>1. Leave(w)
    BY <1>2 DEF NextBatch
  <2>2. Passes' /\ ScriptNoFresher /\ \A v \in Workers : Hand(v)' \in SUBSET Hand(v)
    BY <1>1, <2>1, LeaveMoves DEF IInv
  <2>3. QED
    BY <1>1, <2>2, IdleIInv
<1>3. CASE DueRows(w) # <<>>
  <2> DEFINE D == DueRows(w)
             rows == FirstOf(D, Batch)
             q == Read(rows, tries)
  <2>1. /\ pc' = [pc EXCEPT ![w] = "observations"] /\ todo' = [todo EXCEPT ![w] = q]
        /\ tried' = [tried EXCEPT ![w] = tried[w] \cup Range(rows)]
    BY <1>3 DEF NextBatch
  <2>2. /\ LineOf(D, Observations)
        /\ \A n \in DOMAIN D : D[n] \notin tried[w] /\ \E i \in DOMAIN line : D[n] = line[i]
    <3> DEFINE I == {i \in DOMAIN line :
                       /\ status[line[i]] = "NULL" \/ due[line[i]] + lag[w] =< 0
                       /\ line[i] \notin tried[w]}
    <3>1. D = Kept(line, I) /\ I \in SUBSET (DOMAIN line) /\ LineOf(line, Observations)
          /\ \A i \in I : line[i] \notin tried[w]
      BY DEF DueRows, IInv, Ledger
    <3> HIDE DEF D, I
    <3>2. QED
      BY <3>1, KeptLine
  <2>3. \A n \in DOMAIN D : status[D[n]] \in Unsettled
    BY <2>2 DEF IInv, Ledger
  <2> HIDE DEF D
  <2>4. /\ rows \in Seq(Observations) /\ DOMAIN rows = 1 .. Len(rows)
        /\ \A n \in DOMAIN rows : n \in DOMAIN D /\ rows[n] = D[n]
    <3> DEFINE m == IF Len(D) < Batch THEN Len(D) ELSE Batch
    <3>1. D \in Seq(Observations) /\ Len(D) \in Nat /\ DOMAIN D = 1 .. Len(D)
      BY <2>2 DEF LineOf
    <3>2. m \in 0 .. Len(D) /\ rows = SubSeq(D, 1, m)
      BY <3>1, OutcomesAssumption DEF FirstOf
    <3> HIDE DEF m, rows
    <3>3. /\ rows \in Seq(Observations) /\ Len(rows) = m
          /\ \A n \in 1 .. m : rows[n] = D[n]
      BY <3>1, <3>2
    <3>4. QED
      BY <3>1, <3>2, <3>3
  <2> HIDE DEF rows
  <2>5. /\ q \in Seq(Items) /\ DOMAIN q = DOMAIN rows
        /\ \A n \in DOMAIN q : q[n][1] = rows[n]
    <3>1. q = [n \in 1 .. Len(rows) |-> <<rows[n], tries[rows[n]]>>]
      BY DEF Read
    <3>2. \A n \in 1 .. Len(rows) : <<rows[n], tries[rows[n]]>> \in Items
      BY <2>4 DEF Items, IInv, Ledger
    <3>3. q \in [1 .. Len(rows) -> Items] /\ Len(rows) \in Nat
      BY <2>4, <3>1, <3>2
    <3> HIDE DEF q
    <3>4. q \in Seq(Items) /\ DOMAIN q = 1 .. Len(rows)
      BY <3>3
    <3>5. \A n \in 1 .. Len(rows) : q[n] = <<rows[n], tries[rows[n]]>>
      BY <3>1
    <3>6. QED
      BY <2>4, <3>4, <3>5
  <2> HIDE DEF q
  <2>6. DistinctRows(q)
    BY <2>2, <2>4, <2>5 DEF LineOf, Distinct, DistinctRows
  <2>7. \A o \in RowsOf(q) : status[o] \in Unsettled /\ o \notin tried[w] /\ o \in Range(rows)
    BY <2>2, <2>3, <2>4, <2>5 DEF RowsOf, Range
  <2>8. /\ tried' \in [Workers -> SUBSET Observations]
        /\ tried'[w] = tried[w] \cup Range(rows)
        /\ \A v \in Workers : v # w => tried'[v] = tried[v]
    <3>1. Range(rows) \in SUBSET Observations
      BY <2>4 DEF Range
    <3>2. QED
      BY <2>1, <3>1 DEF IInv, Passes
  <2>9. /\ Passes' /\ Hand(w)' = RowsOf(q)
        /\ \A v \in Workers : v # w => Hand(v)' = Hand(v) /\ pc'[v] = pc[v]
    <3>1. scripts' \in Nat /\ (scripts' = 0 => scripts = 0 /\ w # Script)
      BY <1>1 DEF IInv, Passes
    <3>2. QED
      BY <2>1, <2>5, <2>6, <2>8, <3>1, Moved DEF IInv
  <2>10. Held'
    <3>1. \A o \in Hand(w)' : ~ Settled(o) /\ o \notin tried[w] /\ o \in tried'[w]
      BY <2>7, <2>8, <2>9 DEF Settled, Unsettled
    <3>2. /\ w # Script => pc'[Script] = pc[Script] /\ tried'[Script] = tried[Script]
          /\ \A o \in tried[w] : o \in tried'[w]
      BY <2>8, <2>9, OutcomesAssumption
    <3>3. QED
      BY <1>1, <2>9, <3>1, <3>2, ReadHeld DEF IInv
  <2>11. Ledger'
    BY <1>1 DEF IInv, Ledger
  <2>12. QED
    BY <1>1, <2>9, <2>10, <2>11 DEF IInv
<1>4. QED
  BY <1>2, <1>3

\* update_strategy_observation_outcome: the row leaves the line or takes
\* another place in it, as its status says.
LEMMA WriteLedger ==
    ASSUME IInv, NEW w \in Workers, NEW o \in Observations, NEW a,
           NEW r \in Results(o, a), Write(w, o, r)
    PROVE  /\ Ledger' /\ status' = [status EXCEPT ![o] = r]
           /\ \A p \in Observations : p # o => status'[p] = status[p] /\ undone'[p] = undone[p]
           /\ undone'[o] = IF Settled(o) /\ ~ Settled(o)' THEN undone[o] + 1 ELSE undone[o]
<1> DEFINE I == {i \in DOMAIN line : line[i] # o}
           others == Kept(line, I)
           d == Delay(r, todo[w][1][2]) - lag[w]
<1>1. /\ status' = [status EXCEPT ![o] = r]
      /\ tries' = [tries EXCEPT ![o] = IF @ < TryCap THEN @ + 1 ELSE @]
      /\ line' = IF r \in {"incomplete", "unknown"} THEN Placed(others, o, d) ELSE others
  BY DEF Write
<1>2. r \in {"incomplete", "unknown", "complete", "final"}
  BY DEF Results
<1>3. /\ LineOf(others, Observations)
      /\ \A n \in DOMAIN others : others[n] # o /\ \E i \in DOMAIN line : others[n] = line[i]
  <2>1. LineOf(line, Observations) /\ I \in SUBSET (DOMAIN line) /\ \A i \in I : line[i] # o
    BY DEF IInv, Ledger
  <2> HIDE DEF I
  <2>2. QED
    BY <2>1, KeptLine
<1> HIDE DEF others, d
<1>4. /\ LineOf(line', Observations)
      /\ \A n \in DOMAIN line' :
           \/ line'[n] = o /\ r \in {"incomplete", "unknown"}
           \/ line'[n] # o /\ \E i \in DOMAIN line : line'[n] = line[i]
  <2>1. CASE r \in {"incomplete", "unknown"}
    <3>1. line' = Placed(others, o, d)
      BY <1>1, <2>1
    <3>2. /\ LineOf(line', Observations)
          /\ \A n \in DOMAIN line' : line'[n] = o \/ \E i \in DOMAIN others : line'[n] = others[i]
      BY <1>3, <3>1, PlacedLine
    <3>3. QED
      BY <1>3, <2>1, <3>2
  <2>2. CASE r \notin {"incomplete", "unknown"}
    BY <1>1, <1>3, <2>2
  <2>3. QED
    BY <2>1, <2>2
<1>5. /\ status' \in [Observations -> Statuses] /\ status'[o] = r
      /\ \A x \in Observations : x # o => status'[x] = status[x]
  BY <1>1, <1>2 DEF IInv, Ledger, Statuses
<1>6. tries' \in [Observations -> 0 .. TryCap]
  <2>1. TryCap \in Nat
    BY OutcomesAssumption
  <2>2. tries[o] \in 0 .. TryCap
    BY DEF IInv, Ledger
  <2>3. (IF tries[o] < TryCap THEN tries[o] + 1 ELSE tries[o]) \in 0 .. TryCap
    BY <2>1, <2>2
  <2>4. QED
    BY <1>1, <2>3 DEF IInv, Ledger
<1>7. \A n \in DOMAIN line' : status'[line'[n]] \in Unsettled
  <2>1. ASSUME NEW n \in DOMAIN line' PROVE status'[line'[n]] \in Unsettled
    <3>1. CASE line'[n] = o
      BY <1>4, <1>5, <3>1 DEF Unsettled
    <3>2. CASE line'[n] # o
      <4>1. PICK i \in DOMAIN line : line'[n] = line[i]
        BY <1>4, <3>2
      <4>2. line \in Seq(Observations) /\ status[line[i]] \in Unsettled
        BY DEF IInv, Ledger, LineOf
      <4>3. line[i] \in Observations
        BY <4>2
      <4>4. QED
        BY <1>5, <3>2, <4>1, <4>2, <4>3
    <3>3. QED
      BY <3>1, <3>2
  <2>2. QED
    BY <2>1
<1>8. /\ undone' \in [Observations -> Nat]
      /\ \A p \in Observations : p # o => undone'[p] = undone[p]
      /\ undone'[o] = IF Settled(o) /\ ~ Settled(o)' THEN undone[o] + 1 ELSE undone[o]
  <2>1. undone \in [Observations -> Nat]
    BY DEF IInv, Ledger
  <2>2. CASE r \in {"incomplete", "unknown"}
    <3>1. undone' = [undone EXCEPT ![o] = IF Settled(o) THEN undone[o] + 1 ELSE undone[o]]
      BY <2>2 DEF Write
    <3>2. ~ Settled(o)'
      BY <1>5, <2>2 DEF Settled
    <3>3. QED
      BY <2>1, <3>1, <3>2
  <2>3. CASE r \notin {"incomplete", "unknown"}
    <3>1. undone' = undone
      BY <2>3 DEF Write
    <3>2. Settled(o)'
      BY <1>2, <1>5, <2>3 DEF Settled
    <3>3. QED
      BY <2>1, <3>1, <3>2
  <2>4. QED
    BY <2>2, <2>3
<1>9. QED
  BY <1>1, <1>4, <1>5, <1>6, <1>7, <1>8 DEF Ledger

\* A row is written by a worker that holds it.  Without the script it is
\* unsettled then.
LEMMA WriteIInv ==
    ASSUME IInv, NEW w \in Workers, NEW o \in Observations, NEW r,
           ObservationEvaluated(w, o, r)
    PROVE  /\ IInv'
           /\ \A p \in Observations : Settled(p) /\ scripts' = 0 => status'[p] = status[p]
<1>1. /\ AtRow(w, o) /\ NextRow(w) /\ scripts' = scripts /\ scripts \in Nat
      /\ r \in Results(o, AgeAt(age[o], w)) /\ Write(w, o, r)
  BY DEF ObservationEvaluated, IInv, Passes
<1>2. /\ Ledger'
      /\ \A p \in Observations : p # o => status'[p] = status[p] /\ undone'[p] = undone[p]
      /\ undone'[o] = IF Settled(o) /\ ~ Settled(o)' THEN undone[o] + 1 ELSE undone[o]
  BY <1>1, WriteLedger
<1>3. /\ Passes' /\ o \in Hand(w) /\ Hand(w)' = Hand(w) \ {o}
      /\ \A v \in Workers : v # w => Hand(v)' = Hand(v)
      /\ ScriptNoFresher
  BY <1>1, NextRowMoves DEF IInv
<1>4. Held'
  BY <1>1, <1>2, <1>3, WriteHeld DEF IInv
<1>5. scripts' = 0 => ~ Settled(o)
  BY <1>1, <1>3 DEF IInv, Held, AloneFresh
<1>6. QED
  BY <1>2, <1>3, <1>4, <1>5 DEF IInv

\* Every step keeps the invariant, and what the bot's passes have settled.
LEMMA StepIInv ==
    ASSUME IInv, [Next]_vars
    PROVE  /\ IInv'
           /\ \A o \in Observations : Settled(o) /\ scripts' = 0 => status'[o] = status[o]
<1>1. ASSUME NEW o \in Observations, RecordObservation(o)
      PROVE  IInv' /\ \A p \in Observations : Settled(p) => status'[p] = status[p]
  BY <1>1, RecordIInv
<1>2. CASE \/ \E s \in Signals : SaveSignal(s)
           \/ Tick
           \/ \E w \in Workers : SignalEvaluated(w) \/ PassRaises(w)
           \/ \E w \in Workers, o \in Observations : PersistenceFails(w, o)
           \/ UNCHANGED vars
  BY <1>2, QuietIInv
<1>3. ASSUME NEW w \in Workers, BeginPass(w) PROVE IInv' /\ status' = status
  BY <1>3, BeginIInv
<1>4. ASSUME NEW w \in Workers, NextBatch(w) PROVE IInv' /\ status' = status
  BY <1>4, BatchIInv
<1>5. ASSUME NEW w \in Workers, NEW o \in Observations, NEW r, ObservationEvaluated(w, o, r)
      PROVE  /\ IInv'
             /\ \A p \in Observations : Settled(p) /\ scripts' = 0 => status'[p] = status[p]
  BY <1>5, WriteIInv
<1>6. QED
  BY <1>1, <1>2, <1>3, <1>4, <1>5 DEF Next, PassStep

LEMMA SpecIInv == Spec => []IInv
<1>1. IInv /\ [Next]_vars => IInv'
  BY StepIInv
<1>2. QED
  BY <1>1, InitIInv, PTL DEF Spec

-----------------------------------------------------------------------------
\* A pass of evaluate_outcomes.py beside the bot's costs an observation one
\* settled outcome at most, which is written over by the bot or by the script.
THEOREM UndoneAtMostOnce == Spec => []UndoneOncePerScript
<1>1. IInv => UndoneOncePerScript
  <2> SUFFICES ASSUME IInv, NEW o \in Observations PROVE undone[o] <= scripts
    BY DEF UndoneOncePerScript
  <2>1. /\ undone[o] + Credit(o) + Unread(o) <= scripts /\ undone[o] \in Nat /\ scripts \in Nat
    BY DEF IInv, Held, Counted, Ledger, Passes
  <2>2. Credit(o) \in 0 .. 1 /\ Unread(o) \in 0 .. 1
    BY DEF Credit, Unread
  <2>3. QED
    BY <2>1, <2>2
<1>2. QED
  BY <1>1, SpecIInv, PTL

\* The bot's own passes never write a settled outcome over: nobody holds a
\* row that is settled, because a batch has each row once and drops it as it
\* is written.
THEOREM SettledForGood == Spec => SettledStaysAlone
<1>1. IInv /\ [Next]_vars
        => [\A o \in Observations : Settled(o) /\ scripts' = 0 => status'[o] = status[o]]_vars
  BY StepIInv
<1>2. QED
  BY <1>1, SpecIInv, PTL DEF Spec, SettledStaysAlone
=============================================================================
