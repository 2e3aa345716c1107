------------------------- MODULE EvaluationsProofs -------------------------
(***************************************************************************)
(* Proofs about Evaluations for any thresholds, any features and levels,   *)
(* however far from the bases, and any number of minutes: the lifecycle's  *)
(* memory, the squeeze guard, and that no risk turns a refusal into a      *)
(* signal.                                                                 *)
(***************************************************************************)
EXTENDS Evaluations, FiniteSetTheorems, TLAPS

\* The high the lifecycle knows is never ahead of the closed candles; while it
\* is up with them the confirmation window has seen only quiet minutes, and
\* before the first evaluation the event's own age has.
MemoryFits ==
    /\ life.state = "NONE" => f.age <= quiet
    /\ life.state # "NONE" =>
         /\ life.high <= f.top - EventHigh
         /\ life.high = f.top - EventHigh => life.window <= quiet

Shape ==
    /\ {"age", "top", "ret5"} \subseteq DOMAIN f
    /\ f.age \in Nat /\ f.top \in Int /\ f.ret5 \in Int
    /\ EventHigh <= f.top
    /\ root \in Nat /\ quiet \in Nat /\ life \in Life

IInv == Shape /\ MemoryFits

-----------------------------------------------------------------------------
(* Vetoes.                                                                 *)

\* A branch without a veto knows the book and keeps to the climax limits.
LEMMA LiquidityKnown ==
    ASSUME NEW x, NEW c, LiquidityVetoes(x, c) = {}
    PROVE  x.book # None /\ OverLimits(x.book, c.climax_book) = {}
  BY DEF LiquidityVetoes

\* What the fallback's watch asks for, of the reasons the proofs need.
LEMMA FallbackAsks ==
    ASSUME NEW x, NEW w, FallbackVetoes(x, w) = {}
    PROVE  ~(w < Shipped.volume_window) /\ ~(x.ret5 > 0)
<1>1. ASSUME w < Shipped.volume_window
      PROVE  "confirmation_window_open" \in FallbackVetoes(x, w)
  BY <1>1 DEF FallbackVetoes, Reasons
<1>2. ASSUME x.ret5 > 0
      PROVE  "price_acceleration_resumed" \in FallbackVetoes(x, w)
  BY <1>2 DEF FallbackVetoes, Reasons
<1>3. QED
  BY <1>1, <1>2

\* The live branch refuses a market that does not rise.
LEMMA CalmIsVetoed ==
    ASSUME NEW x, x.ret5 < Shipped.volume_min_ret_5m
    PROVE  Volume(x, Shipped).vetoes # {}
<1>1. Volume(x, Shipped).vetoes = VolumeVetoes(x, Shipped)
  BY DEF Volume, Evaluation
<1>2. "price_acceleration_below_threshold" \in VolumeVetoes(x, Shipped)
  BY DEF VolumeVetoes, Reasons
<1>3. QED
  BY <1>1, <1>2

LEMMA LowHeeds ==
    ASSUME NEW x, NEW c, LowVetoes(x, c) = {}
    PROVE  LiquidityVetoes(x, c) = {} /\ ~(c.low_liquidity = "block" /\ Warned(x, c))
<1>1. LiquidityVetoes(x, c) \subseteq LowVetoes(x, c)
  BY DEF LowVetoes
<1>2. ASSUME c.low_liquidity = "block" /\ Warned(x, c)
      PROVE  "high_liquidity_risk" \in LowVetoes(x, c)
  BY <1>2 DEF LowVetoes, Reasons
<1>3. QED
  BY <1>1, <1>2

-----------------------------------------------------------------------------
(* Whoever admits an event can trade it.                                   *)

\* The limits of the order book, by strategy.
LEMMA AdmittedIsTradable ==
    ASSUME NEW c, NEW s \in Strategies, NEW x, Admitted(s, x, c)
    PROVE  /\ x.book # None
           /\ OverLimits(x.book, IF s = "BASELINE" THEN c.book ELSE c.climax_book) = {}
           /\ (s = "LOW" /\ c.low_liquidity = "block") => ~Warned(x, c)
<1>1. CASE s = "BASELINE"
  <2>1. LiquidityLevel(x, c) # "block" /\ ~BreakoutRisk(x, c)
    BY <1>1 DEF Admitted, Admits
  <2>2. x.book # None
    BY <2>1 DEF LiquidityLevel
  <2>3. OverLimits(x.book, c.book) = {}
    BY <2>1, <2>2 DEF BreakoutRisk
  <2>4. QED
    BY <1>1, <2>2, <2>3
<1>2. CASE s = "VOLUME"
  <2>1. Volume(x, c).vetoes = {}
    BY <1>2 DEF Admitted, Actionable
  <2>2. VolumeVetoes(x, c) = {}
    BY <2>1 DEF Volume, Evaluation
  <2>3. LiquidityVetoes(x, c) = {}
    BY <2>2 DEF VolumeVetoes
  <2>4. QED
    BY <1>2, <2>3, LiquidityKnown
<1>3. CASE s = "LOW"
  <2>1. Low(x, c).vetoes = {}
    BY <1>3 DEF Admitted, Actionable
  <2>2. LowVetoes(x, c) = {}
    BY <2>1 DEF Low, Evaluation
  <2>3. QED
    BY <1>3, <2>2, LowHeeds, LiquidityKnown
<1>4. QED
  BY <1>1, <1>2, <1>3 DEF Strategies

-----------------------------------------------------------------------------
(* The lifecycle's memory.                                                 *)

LEMMA HighIsTop == ASSUME NEW x, x.top \in Int, EventHigh <= x.top PROVE High(x) = x.top
  BY DEF High, Larger, EventHigh

\* A market to start from.
LEMMA FreshShape ==
    ASSUME NEW b \in Bases
    PROVE  /\ {"age", "top", "ret5"} \subseteq DOMAIN Fresh(b)
           /\ Fresh(b).age = 0 /\ Fresh(b).top = EventHigh /\ Fresh(b).ret5 \in Int
  BY LifecycleAssumption DEF Fresh

LEMMA InitIInv == Init => IInv
<1>1. SUFFICES ASSUME Init PROVE IInv
  OBVIOUS
<1>2. PICK b \in Bases : f = Fresh(b)
  BY <1>1 DEF Init
<1>3. Shape
  BY <1>1, <1>2, FreshShape DEF Init, Shape, Life, EventHigh
<1>4. MemoryFits
  BY <1>1, <1>2, FreshShape DEF Init, MemoryFits
<1>5. QED
  BY <1>3, <1>4 DEF IInv

\* What an evaluation of x starts from: the invariant of the memory, a minute on,
\* with high water top for the row and n quiet minutes.
Fits(known, over, n) ==
    known.high <= over /\ (known.high = over => known.window <= n)

\* Whatever advance_volume_climax_lifecycle makes of a memory that fits, fits; it
\* ends ready only in time, calm and with its window over.
LEMMA AdvanceFits ==
    ASSUME NEW x, x.top \in Int, EventHigh <= x.top, x.age \in Nat,
           NEW n \in Nat, NEW m \in Nat, NEW stored \in Life,
           stored.state = "NONE" => x.age <= n,
           stored.state # "NONE" => Fits(stored, x.top - EventHigh, n)
    PROVE  LET known == Advance(x, m, stored) IN
           /\ known \in Life /\ known.state # "NONE"
           /\ Fits(known, x.top - EventHigh, n)
           /\ known.state = "FALLBACK_READY" =>
                /\ m <= Shipped.volume_lifetime /\ FallbackVetoes(x, known.window) = {}
                /\ known.high = x.top - EventHigh
<1> DEFINE start == Known(x, stored)
           over == x.top - EventHigh
<1>1. High(x) = x.top /\ over \in Int
  BY HighIsTop DEF EventHigh
<1>2. start \in Life /\ Fits(start, over, n)
  <2>1. CASE stored.state = "NONE"
    <3>1. start = [stored EXCEPT !.high = over, !.window = x.age]
      BY <2>1, <1>1 DEF Known
    <3>2. start \in Life /\ start.high = over /\ start.window = x.age
      BY <3>1, <1>1 DEF Life
    <3>3. QED
      BY <3>2, <2>1, <1>1 DEF Fits
  <2>2. CASE stored.state # "NONE"
    BY <2>2 DEF Known
  <2>3. QED
    BY <2>1, <2>2
<1>3. CASE m > Shipped.volume_lifetime
  <2>1. Advance(x, m, stored) = Expire(start)
    BY <1>3 DEF Advance
  <2>2. QED
    BY <2>1, <1>2 DEF Expire, Life, Fits
<1>4. CASE ~(m > Shipped.volume_lifetime) /\ over > start.high
  <2>1. Advance(x, m, stored) = NewHigh(start, over)
    BY <1>4, <1>1 DEF Advance
  <2>2. /\ NewHigh(start, over) \in Life /\ NewHigh(start, over).state = "CLIMAX_WATCHING"
        /\ NewHigh(start, over).high = over /\ NewHigh(start, over).window = 0
    BY <1>1, <1>2 DEF NewHigh, Life
  <2>3. Fits(NewHigh(start, over), over, n)
    BY <2>2, <1>1 DEF Fits
  <2>4. QED
    BY <2>1, <2>2, <2>3
<1>5. CASE ~(m > Shipped.volume_lifetime) /\ ~(over > start.high)
  <2>1. Advance(x, m, stored) = Watch(start, x)
    BY <1>5, <1>1 DEF Advance
  <2>2. /\ Watch(start, x) \in Life /\ Watch(start, x).state \in {"FALLBACK_READY", "CLIMAX_WATCHING"}
        /\ Watch(start, x).window = start.window /\ Watch(start, x).high = start.high
        /\ Watch(start, x).state = "FALLBACK_READY" => FallbackVetoes(x, start.window) = {}
    BY <1>2 DEF Watch, Life
  <2>3. m <= Shipped.volume_lifetime
    BY <1>5, LifecycleAssumption
  <2>4. start.high = over
    BY <1>1, <1>2, <1>5 DEF Fits, Life
  <2>5. QED
    BY <2>1, <2>2, <2>3, <2>4, <1>2 DEF Fits
<1>6. QED
  BY <1>3, <1>4, <1>5

\* The stored memory, a minute later.
LEMMA AgedMemory ==
    ASSUME life \in Life
    PROVE  /\ Aged \in Life /\ Aged.state = life.state /\ Aged.high = life.high
           /\ life.state # "NONE" => Aged.window = life.window + 1
  BY DEF Aged, Life

\* One feature moves, and the event is a minute older.
Moved(k, v) == [f EXCEPT ![k] = v, !.age = @ + 1]

LEMMA MovedShape ==
    ASSUME Shape, NEW k \in DOMAIN Levels, NEW v \in Levels[k], Moved(k, v).top >= f.top
    PROVE  /\ {"age", "top", "ret5"} \subseteq DOMAIN Moved(k, v)
           /\ Moved(k, v).age = f.age + 1 /\ Moved(k, v).age \in Nat
           /\ Moved(k, v).top \in Int /\ EventHigh <= Moved(k, v).top
           /\ Moved(k, v).ret5 \in Int
<1>1. k # "age"
  BY LifecycleAssumption
<1>2. Moved(k, v).age = f.age + 1
  BY <1>1 DEF Shape, Moved
<1>3. Moved(k, v).top \in Int /\ Moved(k, v).ret5 \in Int
  BY LifecycleAssumption DEF Shape, Moved
<1>4. DOMAIN Moved(k, v) = DOMAIN f
  BY DEF Moved
<1>5. EventHigh <= Moved(k, v).top
  BY <1>3 DEF Shape, EventHigh
<1>6. f.age + 1 \in Nat
  BY DEF Shape
<1>7. QED
  BY <1>2, <1>3, <1>4, <1>5, <1>6 DEF Shape

\* Of one evaluation: the invariant, and ReadyIsQuiet.
Ready ==
    f'.age > 0 /\ VolumeConcerned(f') /\ life'.state = "FALLBACK_READY" =>
        /\ root' <= Shipped.volume_lifetime /\ quiet' >= Shipped.volume_window
        /\ Volume(f', Shipped).vetoes # {}

LEMMA EvaluateIInv == ASSUME IInv, Evaluate PROVE IInv' /\ Ready
<1>1. PICK k \in DOMAIN Levels : \E v \in Levels[k] :
        LET x == [f EXCEPT ![k] = v, !.age = @ + 1]
        IN  /\ Near(x) /\ Possible(x) /\ x.top >= f.top
            /\ f' = x
            /\ quiet' = IF x.top > f.top /\ life.state # "NONE" THEN 0 ELSE quiet + 1
            /\ life' = IF VolumeConcerned(x) THEN Advance(x, root + 1, Aged) ELSE Aged
  BY DEF Evaluate
<1>2. PICK v \in Levels[k] :
        /\ f' = Moved(k, v) /\ f'.top >= f.top
        /\ quiet' = IF f'.top > f.top /\ life.state # "NONE" THEN 0 ELSE quiet + 1
        /\ life' = IF VolumeConcerned(f') THEN Advance(f', root + 1, Aged) ELSE Aged
  BY <1>1 DEF Moved
<1>3. /\ {"age", "top", "ret5"} \subseteq DOMAIN f'
      /\ f'.age = f.age + 1 /\ f'.age \in Nat
      /\ f'.top \in Int /\ EventHigh <= f'.top /\ f'.ret5 \in Int
  BY <1>2, MovedShape DEF IInv
<1>4. root' = root + 1 /\ root' \in Nat
  <2>1. Minute
    BY DEF Evaluate
  <2>2. QED
    BY <2>1 DEF IInv, Shape, Minute
<1>5. /\ f'.top > f.top /\ life.state # "NONE" => quiet' = 0
      /\ ~(f'.top > f.top /\ life.state # "NONE") => quiet' = quiet + 1
  BY <1>2, Zenon
<1>6. quiet \in Nat /\ quiet' \in Nat /\ f.top \in Int /\ f'.top >= f.top
  <2>1. f'.top >= f.top
    BY <1>2, Zenon
  <2>2. quiet \in Nat /\ f.top \in Int
    BY DEF IInv, Shape
  <2>3. quiet' = 0 \/ quiet' = quiet + 1
    BY <1>5, Zenon
  <2>4. QED
    BY <2>1, <2>2, <2>3
<1>7. /\ Aged \in Life /\ Aged.state = life.state /\ Aged.high = life.high
      /\ life.state # "NONE" => Aged.window = life.window + 1
  BY AgedMemory DEF IInv, Shape
<1>8. Aged.state = "NONE" => f'.age <= quiet'
  <2>1. SUFFICES ASSUME Aged.state = "NONE" PROVE f'.age <= quiet'
    OBVIOUS
  <2>2. life.state = "NONE"
    BY <2>1, <1>7
  <2>3. f.age \in Nat /\ f.age <= quiet
    BY <2>2 DEF IInv, Shape, MemoryFits
  <2>4. quiet' = quiet + 1
    BY <2>2, <1>5, Zenon
  <2>5. QED
    BY <2>3, <2>4, <1>3, <1>6
<1>9. Aged.state # "NONE" => Fits(Aged, f'.top - EventHigh, quiet')
  <2>1. SUFFICES ASSUME Aged.state # "NONE" PROVE Fits(Aged, f'.top - EventHigh, quiet')
    OBVIOUS
  <2>2. life.high \in Int /\ life.window \in Nat /\ f.top \in Int /\ quiet \in Nat
    BY DEF IInv, Shape, Life
  <2>3. /\ life.high <= f.top - EventHigh
        /\ life.high = f.top - EventHigh => life.window <= quiet
    BY <2>1, <1>7 DEF IInv, MemoryFits
  <2>4. CASE f'.top > f.top
    BY <2>2, <2>3, <2>4, <1>3, <1>7 DEF Fits, EventHigh
  <2>5. CASE f'.top = f.top
    <3>1. ~(f'.top > f.top)
      BY <2>5, <1>3, <1>6
    <3>2. quiet' = quiet + 1
      BY <3>1, <1>5, Zenon
    <3>3. QED
      BY <2>1, <2>2, <2>3, <2>5, <3>2, <1>7 DEF Fits, EventHigh
  <2>6. QED
    BY <2>4, <2>5, <1>3, <1>6
<1>10. CASE VolumeConcerned(f')
  <2> DEFINE known == Advance(f', root + 1, Aged)
  <2>1. life' = known
    BY <1>2, <1>10
  <2>2. /\ known \in Life /\ known.state # "NONE"
        /\ Fits(known, f'.top - EventHigh, quiet')
        /\ known.state = "FALLBACK_READY" =>
             /\ root + 1 <= Shipped.volume_lifetime /\ FallbackVetoes(f', known.window) = {}
             /\ known.high = f'.top - EventHigh
    BY <1>3, <1>4, <1>6, <1>7, <1>8, <1>9, AdvanceFits
  <2> HIDE DEF known
  <2>3. IInv'
    BY <2>1, <2>2, <1>3, <1>4, <1>6 DEF IInv, Shape, MemoryFits, Fits
  <2>4. ASSUME known.state = "FALLBACK_READY"
        PROVE  /\ root' <= Shipped.volume_lifetime /\ quiet' >= Shipped.volume_window
               /\ Volume(f', Shipped).vetoes # {}
    <3>1. ~(known.window < Shipped.volume_window) /\ ~(f'.ret5 > 0)
      BY <2>2, <2>4, FallbackAsks
    <3>2. known.window \in Nat /\ known.window <= quiet'
      BY <2>2, <2>4 DEF Fits, Life
    <3>3. quiet' >= Shipped.volume_window
      BY <3>1, <3>2, <1>6, LifecycleAssumption
    <3>4. f'.ret5 < Shipped.volume_min_ret_5m
      BY <3>1, <1>3, LifecycleAssumption, LiveRetAssumption
    <3>5. QED
      BY <3>3, <3>4, <2>2, <2>4, <1>4, CalmIsVetoed
  <2>5. QED
    BY <2>1, <2>3, <2>4 DEF Ready
<1>11. CASE ~VolumeConcerned(f')
  <2>1. life' = Aged
    BY <1>2, <1>11
  <2>2. QED
    BY <2>1, <1>3, <1>4, <1>6, <1>7, <1>8, <1>9, <1>11 DEF IInv, Shape, MemoryFits, Fits, Ready
<1>12. QED
  BY <1>10, <1>11

LEMMA ConfirmHighIInv == ASSUME IInv, ConfirmHigh PROVE IInv' /\ Ready
<1>1. PICK top \in Levels.top, b \in Bases :
        /\ top > EventHigh /\ top >= f.top
        /\ f' = Fresh(b)
        /\ quiet' = IF top > f.top THEN 0 ELSE quiet + 1
        /\ life' = IF life.state = "NONE" THEN life
                   ELSE [Aged EXCEPT !.high = @ - (top - EventHigh)]
  BY DEF ConfirmHigh
<1>2. /\ {"age", "top", "ret5"} \subseteq DOMAIN f'
      /\ f'.age = 0 /\ f'.top = EventHigh /\ f'.ret5 \in Int
  BY <1>1, FreshShape
<1>3. root' = root + 1 /\ root' \in Nat
  <2>1. Minute
    BY DEF ConfirmHigh
  <2>2. QED
    BY <2>1 DEF IInv, Shape, Minute
<1>4. top \in Int /\ f.top \in Int /\ quiet \in Nat /\ top >= f.top
  BY <1>1, LifecycleAssumption DEF IInv, Shape
<1>5. quiet' \in Nat /\ (top = f.top => quiet' = quiet + 1)
  BY <1>1, <1>4
<1>6. CASE life.state = "NONE"
  <2>1. life' = life
    BY <1>1, <1>6
  <2>2. QED
    BY <2>1, <1>2, <1>3, <1>5, <1>6 DEF IInv, Shape, MemoryFits, Ready, EventHigh
<1>7. CASE life.state # "NONE"
  <2>1. life' = [Aged EXCEPT !.high = @ - (top - EventHigh)]
    BY <1>1, <1>7
  <2>2. /\ Aged \in Life /\ Aged.state = life.state /\ Aged.high = life.high
        /\ Aged.window = life.window + 1
    BY <1>7, AgedMemory DEF IInv, Shape
  <2>3. life' \in Life /\ life'.state = life.state
    BY <2>1, <2>2, <1>4 DEF Life, EventHigh
  <2>4. life'.high = life.high - (top - EventHigh) /\ life'.window = life.window + 1
    BY <2>1, <2>2 DEF Life
  <2>5. life.high \in Int /\ life.window \in Nat
    BY DEF IInv, Shape, Life
  <2>6. /\ life.high <= f.top - EventHigh
        /\ life.high = f.top - EventHigh => life.window <= quiet
    BY <1>7 DEF IInv, MemoryFits
  <2>7. life'.high <= f'.top - EventHigh
    BY <2>4, <2>5, <2>6, <1>2, <1>4 DEF EventHigh
  <2>8. ASSUME life'.high = f'.top - EventHigh PROVE life'.window <= quiet'
    <3>1. top = f.top /\ life.high = f.top - EventHigh
      BY <2>4, <2>5, <2>6, <2>8, <1>2, <1>4 DEF EventHigh
    <3>2. QED
      BY <3>1, <2>4, <2>5, <2>6, <1>4, <1>5
  <2>9. QED
    BY <2>3, <2>7, <2>8, <1>2, <1>3, <1>5, <1>7 DEF IInv, Shape, MemoryFits, Ready, EventHigh
<1>8. QED
  BY <1>6, <1>7

-----------------------------------------------------------------------------
(* The numbers of the baseline's score.                                    *)

Typed(x) == Features \subseteq DOMAIN x /\ \A k \in Features : IsTyped(k, x[k])

LEMMA TypedNumbers ==
    ASSUME NEW x, Typed(x)
    PROVE  /\ x.ret15 \in Int /\ x.ret1h \in Int /\ x.ret4h \in Int
           /\ x.wick \in Int /\ x.rejection \in Int /\ x.volz \in Int
           /\ x.price \in Int /\ x.vwap \in Int /\ x.body \in Int /\ x.rest \in Int
           /\ x.oi = None \/ x.oi \in Int
           /\ x.funding = None \/ x.funding \in Int
           /\ x.book = None \/ x.book \in Books
<1>1. \A k \in Numbers : x[k] \in Int
  BY DEF Typed, IsTyped, Numbers, Features
<1>2. \A k \in Optional : x[k] = None \/ x[k] \in Int
  BY DEF Typed, IsTyped, Optional, Features
<1>3. x.book = None \/ x.book \in Books
  BY DEF Typed, IsTyped, Features
<1>4. QED
  BY <1>1, <1>2, <1>3 DEF Numbers, Optional

LEMMA TypedLimits ==
    ASSUME NEW c \in Configs
    PROVE  /\ Thresholds \cup Choices \cup {"book", "climax_book"} \subseteq DOMAIN c
           /\ c.pullback_min \in Int /\ c.pullback_max \in Int /\ c.wick_min \in Int
           /\ c.rejection_min \in Int /\ c.volz_min \in Int /\ c.vwap_min \in Int
           /\ c.event_ret_1h \in Int /\ c.watch_min_score \in Int /\ c.climax_min_score \in Int
           /\ c.volume_min_volz \in Int /\ c.volume_max_oi \in Int
           /\ c.volume_min_rejection \in Int /\ c.low_min_rejection \in Int
           /\ c.low_max_age \in Int
           /\ c.book \in Books /\ c.climax_book \in Books
           /\ c.min_public_grade \in {"A", "B", "C"} /\ c.send_grade_c \in BOOLEAN
<1>1. \A k \in Thresholds : c[k] \in Int
  BY FeaturesAssumption
<1>2. ValidConfig(c)
  BY EvaluationsAssumption
<1>3. QED
  BY <1>1, <1>2, FeaturesAssumption DEF Thresholds, ValidConfig

\* Every feature of every reachable market is typed.
LEMMA FreshTyped == ASSUME NEW b \in Bases PROVE Typed(Fresh(b))
<1>1. DOMAIN Fresh(b) = DOMAIN b /\ \A k \in DOMAIN b \ {"after", "top", "age"} : Fresh(b)[k] = b[k]
  BY DEF Fresh
<1>2. \A k \in {"after", "top", "age"} : IsTyped(k, Fresh(b)[k])
  BY DEF IsTyped, Numbers, Optional
<1>3. QED
  BY <1>1, <1>2, FeaturesAssumption DEF Typed

LEMMA MovedTyped ==
    ASSUME Typed(f), NEW k \in DOMAIN Levels, NEW v \in Levels[k]
    PROVE  Typed(Moved(k, v))
<1>1. /\ DOMAIN Moved(k, v) = DOMAIN f
      /\ \A i \in DOMAIN f \ {k, "age"} : Moved(k, v)[i] = f[i]
      /\ k # "age" /\ (k \in DOMAIN f => Moved(k, v)[k] = v)
  BY LifecycleAssumption DEF Moved
<1>2. IsTyped(k, v) /\ \A w : IsTyped("age", w)
  BY FeaturesAssumption DEF IsTyped, Numbers, Optional
<1>3. \A i \in Features : IsTyped(i, Moved(k, v)[i])
  <2>1. TAKE i \in Features
  <2>2. i \in DOMAIN f /\ IsTyped(i, f[i])
    BY DEF Typed
  <2>3. CASE i = k
    BY <2>2, <2>3, <1>1, <1>2
  <2>4. CASE i = "age"
    BY <2>4, <1>2
  <2>5. CASE i # k /\ i # "age"
    BY <2>5, <2>2, <1>1
  <2>6. QED
    BY <2>3, <2>4, <2>5
<1>4. QED
  BY <1>1, <1>3 DEF Typed

\* What becomes of a market in an evaluation.
LEMMA EvaluateMoves ==
    ASSUME Evaluate
    PROVE  \E k \in DOMAIN Levels : \E v \in Levels[k] : f' = Moved(k, v)
  BY DEF Evaluate, Moved

LEMMA StepTyped == ASSUME Typed(f), [Next]_vars PROVE Typed(f')
<1>1. CASE UNCHANGED vars
  BY <1>1 DEF vars
<1>2. CASE Evaluate
  BY <1>2, EvaluateMoves, MovedTyped
<1>3. CASE ConfirmHigh
  <2>1. PICK b \in Bases : f' = Fresh(b)
    BY <1>3 DEF ConfirmHigh
  <2>2. QED
    BY <2>1, FreshTyped
<1>4. QED
  BY <1>1, <1>2, <1>3 DEF Next

\* The ramps of the score rise.
LEMMA VwapScale ==
    ASSUME NEW v \in Int, NEW w \in Int, w <= v
    PROVE  /\ Scale(v, 600, 1200, 1000) \in Int
           /\ Scale(w, 600, 1200, 1000) <= Scale(v, 600, 1200, 1000)
  BY DEF Scale

LEMMA WickScale ==
    ASSUME NEW v \in Int, NEW w \in Int, w <= v
    PROVE  Scale(v, 12, 25, 800) \in Int /\ Scale(w, 12, 25, 800) <= Scale(v, 12, 25, 800)
  BY DEF Scale

LEMMA RejectionScale ==
    ASSUME NEW v \in Int, NEW w \in Int, w <= v
    PROVE  Scale(v, 80, 160, 800) \in Int /\ Scale(w, 80, 160, 800) <= Scale(v, 80, 160, 800)
  BY DEF Scale

LEMMA VolumeScale ==
    ASSUME NEW v \in Int, NEW w \in Int, w <= v
    PROVE  Scale(v, 40, 200, 600) \in Int /\ Scale(w, 40, 200, 600) <= Scale(v, 40, 200, 600)
  BY DEF Scale

LEMMA FilterScale ==
    ASSUME NEW v \in Int, NEW w \in Int, w <= v, NEW m \in Int
    PROVE  /\ Scale(v, m, m + 400, 500) \in Int
           /\ Scale(w, m, m + 400, 500) <= Scale(v, m, m + 400, 500)
<1>1. (m + 400) - m = 400
  OBVIOUS
<1>2. QED
  BY <1>1 DEF Scale

LEMMA EventQualityIsInt == ASSUME NEW x, Typed(x) PROVE EventQuality(x) \in Int
<1> DEFINE a == Scale(x.ret15, 600, 1200, 500)
           b == Scale(x.ret1h, 800, 1500, 500)
           d == Scale(x.ret4h, 2000, 3500, 500)
<1>1. x.ret15 \in Int /\ x.ret1h \in Int /\ x.ret4h \in Int
  BY TypedNumbers
<1>2. a \in Int /\ b \in Int /\ d \in Int
  BY <1>1 DEF Scale
<1>3. EventQuality(x) = Larger(a, Larger(b, d))
  BY DEF EventQuality
<1> HIDE DEF a, b, d
<1>4. QED
  BY <1>2, <1>3 DEF Larger

LEMMA IdealBandIsInt == ASSUME NEW v \in Int PROVE IdealBand(v, 350, 350, 1000) \in Int
  BY DEF IdealBand

LEMMA PenaltyIsInt == ASSUME NEW x, NEW c PROVE Penalty(x, c) \in Int
<1> DEFINE a == If(Shallow(x, c), 8)
           b == If(NearHigh(x), 4)
           d == If(WeakRejection(x, c), 8)
           e == If(x.vwap < c.vwap_min + 100, 6)
           g == If(x.breakout, 12)
           h == If(x.body > 100, 10)
           i == If(~FailedRetest(x), 4)
           j == If(Shallow(x, c) /\ WeakRejection(x, c) /\ ~FailedRetest(x) /\ NearHigh(x), 6)
           k == If(x.book = None, 10)
<1>1. /\ a \in Int /\ b \in Int /\ d \in Int /\ e \in Int /\ g \in Int /\ h \in Int /\ i \in Int
      /\ j \in Int /\ k \in Int
  BY DEF If
<1>2. Penalty(x, c) = Lesser(40, a + b + d + e + g + h + i + j + k)
  BY DEF Penalty
<1> HIDE DEF a, b, d, e, g, h, i, j, k
<1>3. QED
  BY <1>1, <1>2 DEF Lesser

LEMMA MeritIsInt == ASSUME NEW x, Typed(x), NEW c \in Configs PROVE Merit(x, c) \in Int
<1>1. /\ x.wick \in Int /\ x.rejection \in Int /\ x.volz \in Int /\ x.price \in Int
      /\ x.vwap \in Int /\ x.rest \in Int /\ c.vwap_min \in Int /\ c.vwap_min + 400 \in Int
      /\ Pullback(x) \in Int
  BY TypedNumbers, TypedLimits DEF Pullback, EventHigh
<1> DEFINE a == Scale(x.vwap, 600, 1200, 1000)
           b == Scale(x.vwap, c.vwap_min, c.vwap_min + 400, 500)
           d == Scale(x.wick, 12, 25, 800)
           e == Scale(x.rejection, 80, 160, 800)
           g == If(FailedRetest(x), 200)
           h == Scale(x.volz, 40, 200, 600)
           i == IdealBand(Pullback(x), 350, 350, 1000)
           j == If(Above(x.oi, 0), 200)
           k == If(Above(x.oi1h, 0), 200)
           l == If(Above(x.funding, 0), 100)
<1>2. a \in Int /\ b \in Int /\ d \in Int /\ e \in Int /\ h \in Int
  <2>1. a \in Int
    BY <1>1, VwapScale
  <2>2. b \in Int
    BY <1>1 DEF Scale
  <2>3. d \in Int
    BY <1>1, WickScale
  <2>4. e \in Int
    BY <1>1, RejectionScale
  <2>5. h \in Int
    BY <1>1, VolumeScale
  <2>6. QED
    BY <2>1, <2>2, <2>3, <2>4, <2>5
<1>3. i \in Int
  BY <1>1, IdealBandIsInt
<1>4. g \in Int /\ j \in Int /\ k \in Int /\ l \in Int
  BY DEF If
<1>5. Merit(x, c) = a + b + d + e + g + h + i + j + k + l + EventQuality(x) + x.rest
  BY DEF Merit
<1> HIDE DEF a, b, d, e, g, h, i, j, k, l
<1>6. QED
  BY <1>1, <1>2, <1>3, <1>4, <1>5, EventQualityIsInt

LEMMA SetupScoreIsInt == ASSUME NEW x, Typed(x), NEW c \in Configs PROVE SetupScore(x, c) \in Int
  BY MeritIsInt, PenaltyIsInt DEF SetupScore, Larger, Lesser

-----------------------------------------------------------------------------
(* The squeeze guard.                                                      *)

\* The same configuration with a guard that only warns.
Warning(c) == [c EXCEPT !.squeeze = "warn_only"]

LEMMA WarningSame ==
    ASSUME NEW c \in Configs
    PROVE  /\ Warning(c).squeeze = "warn_only"
           /\ \A k \in Thresholds \cup {"book", "min_public_grade", "send_grade_c"} :
                Warning(c)[k] = c[k]
  BY FeaturesAssumption DEF Warning, Thresholds, Choices

\* Whatever the mode, filters, score, limits and public grades are the same.
LEMMA SameRules ==
    ASSUME NEW x, NEW c \in Configs
    PROVE  /\ CoreFilters(x, Warning(c)) = CoreFilters(x, c)
           /\ SetupScore(x, Warning(c)) = SetupScore(x, c)
           /\ LiquidityLevel(x, Warning(c)) = LiquidityLevel(x, c)
           /\ BreakoutRisk(x, Warning(c)) = BreakoutRisk(x, c)
           /\ \A g : PublicGrade(g, Warning(c)) = PublicGrade(g, c)
<1> DEFINE w == Warning(c)
<1>1. /\ w.book = c.book /\ w.min_public_grade = c.min_public_grade
      /\ w.send_grade_c = c.send_grade_c
      /\ w.pullback_min = c.pullback_min /\ w.pullback_max = c.pullback_max
      /\ w.wick_min = c.wick_min /\ w.rejection_min = c.rejection_min
      /\ w.volz_min = c.volz_min /\ w.vwap_min = c.vwap_min
  BY WarningSame DEF Thresholds
<1> HIDE DEF w
<1>2. Shallow(x, w) = Shallow(x, c) /\ WeakRejection(x, w) = WeakRejection(x, c)
  BY <1>1 DEF Shallow, WeakRejection
<1>3. CoreFilters(x, w) = CoreFilters(x, c)
  BY <1>1, <1>2 DEF CoreFilters
<1>4. Merit(x, w) = Merit(x, c) /\ Penalty(x, w) = Penalty(x, c)
  BY <1>1, <1>2 DEF Merit, Penalty
<1>5. SetupScore(x, w) = SetupScore(x, c)
  BY <1>4 DEF SetupScore
<1>6. LiquidityLevel(x, w) = LiquidityLevel(x, c)
  BY <1>1 DEF LiquidityLevel
<1>7. BreakoutRisk(x, w) = BreakoutRisk(x, c)
  BY <1>1 DEF BreakoutRisk
<1>8. \A g : PublicGrade(g, w) = PublicGrade(g, c)
  BY <1>1 DEF PublicGrade
<1>9. QED
  BY <1>3, <1>5, <1>6, <1>7, <1>8 DEF w

\* What the mode score_penalty takes from the score, by the level.
LEMMA PenaltyTaken ==
    ASSUME NEW x, NEW c
    PROVE  /\ SqueezePenalty(x, c) \in 0 .. 16
           /\ c.squeeze # "score_penalty" \/ SqueezeLevel(x, c) = "LOW" => SqueezePenalty(x, c) = 0
           /\ SqueezeLevel(x, c) # "EXTREME" => SqueezePenalty(x, c) <= 10
<1>1. SqueezeLevel(x, c) \in {"LOW", "MEDIUM", "HIGH", "EXTREME"}
  BY DEF SqueezeLevel
<1>2. QED
  BY <1>1 DEF SqueezePenalty

\* Where the grades nest, the grade of a better score is sent too.
LEMMA GradeRises ==
    ASSUME NEW a \in Int, NEW b \in Int, a <= b, NEW c \in Configs, GradesNest(c),
           PublicGrade(GradeOf(a), c)
    PROVE  PublicGrade(GradeOf(b), c)
<1>1. c.min_public_grade \in {"A", "B", "C"}
  BY TypedLimits
<1>2. QED
  BY <1>1 DEF PublicGrade, GradeOf, GradesNest

LEMMA WarnedScore ==
    ASSUME NEW x, Typed(x), NEW c \in Configs
    PROVE  /\ Score(x, Warning(c)) = Larger(0, SetupScore(x, c))
           /\ Score(x, c) = Larger(0, SetupScore(x, c) - SqueezePenalty(x, c))
           /\ Score(x, Warning(c)) \in Int /\ Score(x, c) \in Int
           /\ Score(x, c) <= Score(x, Warning(c))
<1>1. SetupScore(x, c) \in Int /\ SqueezePenalty(x, c) \in 0 .. 16
  BY SetupScoreIsInt, PenaltyTaken
<1>2. SqueezePenalty(x, Warning(c)) = 0
  BY WarningSame, PenaltyTaken
<1>3. Score(x, Warning(c)) = Larger(0, SetupScore(x, c) - 0)
  BY <1>2, SameRules DEF Score
<1>4. QED
  BY <1>1, <1>3 DEF Score, Larger

\* No mode admits what a warning would not.
LEMMA GuardAddsNothing ==
    ASSUME NEW x, Typed(x), NEW c \in Configs, GradesNest(c), Admits(x, c)
    PROVE  Admits(x, Warning(c))
<1>1. /\ x.ripe /\ CoreFilters(x, c) = AllCoreFilters
      /\ Score(x, c) >= 50 /\ PublicGrade(GradeOf(Score(x, c)), c)
      /\ LiquidityLevel(x, c) # "block" /\ ~BreakoutRisk(x, c)
  BY DEF Admits
<1>2. Score(x, Warning(c)) >= 50 /\ PublicGrade(GradeOf(Score(x, Warning(c))), c)
  BY <1>1, WarnedScore, GradeRises
<1>3. ~BlockSignal(x, Warning(c)) /\ ~ForceWatch(x, Warning(c))
  BY WarningSame DEF BlockSignal, ForceWatch
<1>4. QED
  BY <1>1, <1>2, <1>3, SameRules DEF Admits

\* A market that a warning would let through is at most 29 points from a squeeze,
\* and has 12 of them only with a blocker; as long as pullbacks begin at 1 %.
LEMMA AdmittedSqueeze ==
    ASSUME NEW x, Typed(x), NEW c \in Configs, c.pullback_min >= 100, Admits(x, Warning(c))
    PROVE  /\ SqueezeLevel(x, c) # "EXTREME"
           /\ SqueezeLevel(x, c) # "LOW" => HasBlocker(x, c)
<1>1. CoreFilters(x, c) = AllCoreFilters /\ ~BreakoutRisk(x, c) /\ LiquidityLevel(x, c) # "block"
  BY SameRules DEF Admits
<1>2. ~WeakRejection(x, c) /\ Pullback(x) \in c.pullback_min .. c.pullback_max
  <2>1. "rejection" \in CoreFilters(x, c) /\ "pullback" \in CoreFilters(x, c)
    BY <1>1 DEF AllCoreFilters
  <2>2. QED
    BY <2>1 DEF CoreFilters
<1>3. c.pullback_min \in Int /\ Pullback(x) \in Int
  BY TypedLimits, TypedNumbers DEF Pullback, EventHigh
<1>4. ~Shallow(x, c) /\ ~NearHigh(x)
  BY <1>2, <1>3 DEF Shallow, NearHigh
<1>5. x.book # None /\ OverLimits(x.book, c.book) = {} /\ ~x.breakout
  BY <1>1 DEF BreakoutRisk, LiquidityLevel
<1> DEFINE a == If(Negative(x.funding) /\ x.ret1h >= c.event_ret_1h, 12)
           b == If(Above(x.oi, 0) /\ x.ret15 > 0, 6)
           d == If(Above(x.oi1h, 0) /\ x.ret1h > 0, 5)
           e == If(~FailedRetest(x), 6)
<1>6. SqueezeScore(x, c) = a + b + d + 0 + e + 0 + 0 + 0 + (0 + 0 + 0 + 0)
  BY <1>2, <1>4, <1>5 DEF SqueezeScore, If
<1>7. a \in {0, 12} /\ b \in {0, 6} /\ d \in {0, 5} /\ e \in {0, 6}
  BY DEF If
<1>8. a = 12 => Negative(x.funding) /\ x.ret1h >= c.event_ret_1h
  BY DEF If
<1>9. e = 6 => ~FailedRetest(x)
  BY DEF If
<1> HIDE DEF a, b, d, e
<1>10. SqueezeScore(x, c) <= 29 /\ (SqueezeScore(x, c) >= 12 => a = 12 \/ e = 6)
  BY <1>6, <1>7
<1>11. SqueezeScore(x, c) \in Int
  BY <1>6, <1>7
<1>12. SqueezeLevel(x, c) # "EXTREME"
  BY <1>10, <1>11 DEF SqueezeLevel
<1>13. SqueezeLevel(x, c) # "LOW" => SqueezeScore(x, c) >= 12
  BY <1>10, <1>11 DEF SqueezeLevel
<1>14. QED
  BY <1>8, <1>9, <1>10, <1>12, <1>13 DEF HasBlocker

LEMMA PublicEnough ==
    ASSUME NEW a \in Int, NEW c \in Configs, a >= 50, PublicGrade(GradeOf(a), c)
    PROVE  PublicScore(c) \in Int /\ a >= PublicScore(c)
<1>1. c.min_public_grade \in {"A", "B", "C"}
  BY TypedLimits
<1>2. QED
  BY <1>1 DEF PublicGrade, GradeOf, PublicScore

LEMMA TakenIsWatched ==
    ASSUME NEW x, Typed(x), NEW c \in Configs, WatchesTheRest(c), Admits(x, Warning(c))
    PROVE  Baseline(x, c) \in {"SIGNAL", "WATCH"}
<1> DEFINE s == SetupScore(x, c)
<1>1. /\ x.ripe /\ CoreFilters(x, c) = AllCoreFilters
      /\ Score(x, Warning(c)) >= 50 /\ PublicGrade(GradeOf(Score(x, Warning(c))), c)
      /\ LiquidityLevel(x, c) # "block" /\ ~BreakoutRisk(x, c)
  BY SameRules DEF Admits
<1>2. s \in Int /\ s >= 50 /\ Score(x, Warning(c)) = s
  BY <1>1, WarnedScore, SetupScoreIsInt DEF Larger
<1>3. PublicScore(c) \in Int /\ s >= PublicScore(c) /\ PublicGrade(GradeOf(s), c)
  BY <1>1, <1>2, PublicEnough
<1>4. c.watch_min_score \in Int
  BY TypedLimits
<1> HIDE DEF s
<1>5. SUFFICES ASSUME ~Admits(x, c) PROVE Watches(x, c)
  BY DEF Baseline
<1>6. CASE c.squeeze \in {"off", "warn_only", "block_extreme"}
  <2>1. Score(x, c) = s
    <3>1. SqueezePenalty(x, c) = 0
      BY <1>6, PenaltyTaken
    <3>2. QED
      BY <3>1, <1>2, WarnedScore DEF Larger, s
  <2>2. ~BlockSignal(x, c) /\ ~ForceWatch(x, c)
    <3>1. c.squeeze = "block_extreme" => SqueezeLevel(x, c) # "EXTREME"
      BY AdmittedSqueeze DEF WatchesTheRest
    <3>2. QED
      BY <3>1, <1>6 DEF BlockSignal, ForceWatch
  <2>3. Admits(x, c)
    BY <1>1, <1>2, <1>3, <2>1, <2>2 DEF Admits
  <2>4. QED
    BY <2>3, <1>5
<1>7. CASE c.squeeze = "watch_only"
  <2>1. Score(x, c) = s
    <3>1. SqueezePenalty(x, c) = 0
      BY <1>7, PenaltyTaken
    <3>2. QED
      BY <3>1, <1>2, WarnedScore DEF Larger, s
  <2>2. ~BlockSignal(x, c)
    BY <1>7 DEF BlockSignal
  <2>3. ForceWatch(x, c)
    BY <1>1, <1>2, <1>3, <1>5, <2>1, <2>2 DEF Admits
  <2>4. c.watch /\ s >= c.watch_min_score
    BY <1>2, <1>3, <1>4, <1>7 DEF WatchesTheRest
  <2>5. QED
    BY <1>1, <1>3, <2>1, <2>2, <2>3, <2>4 DEF Watches
<1>8. CASE c.squeeze = "score_penalty"
  <2>1. /\ c.watch /\ c.watch_min_score <= PublicScore(c) - 10
        /\ c.grade_c = "watch_only" /\ c.pullback_min >= 100
    BY <1>8 DEF WatchesTheRest
  <2>2. SqueezeLevel(x, c) # "EXTREME" /\ (SqueezeLevel(x, c) # "LOW" => HasBlocker(x, c))
    BY <2>1, AdmittedSqueeze
  <2>3. /\ SqueezePenalty(x, c) \in 0 .. 10
        /\ SqueezeLevel(x, c) = "LOW" => SqueezePenalty(x, c) = 0
    BY <2>2, PenaltyTaken
  <2>4. Score(x, c) = s - SqueezePenalty(x, c)
    BY <1>2, <2>3, WarnedScore DEF Larger, s
  <2>5. Score(x, c) >= c.watch_min_score
    BY <1>2, <1>3, <1>4, <2>1, <2>3, <2>4
  <2>6. ~BlockSignal(x, c) /\ ~ForceWatch(x, c)
    BY <1>8 DEF BlockSignal, ForceWatch
  <2>7. SqueezeLevel(x, c) # "LOW"
    <3>1. SUFFICES ASSUME SqueezeLevel(x, c) = "LOW" PROVE FALSE
      OBVIOUS
    <3>2. Score(x, c) = s
      BY <3>1, <2>3, <2>4, <1>2
    <3>3. QED
      BY <3>2, <1>1, <1>2, <1>3, <1>5, <2>6 DEF Admits
  <2>8. QED
    BY <1>1, <2>1, <2>2, <2>5, <2>6, <2>7 DEF Watches
<1>9. c.squeeze \in {"off", "warn_only", "score_penalty", "watch_only", "block_extreme"}
  BY EvaluationsAssumption DEF ValidConfig
<1>10. QED
  BY <1>6, <1>7, <1>8, <1>9

MarketTyped == Typed(f)

LEMMA SpecTyped == Spec => []MarketTyped
<1>1. Init => MarketTyped
  BY FreshTyped DEF Init, MarketTyped
<1>2. MarketTyped /\ [Next]_vars => MarketTyped'
  BY StepTyped DEF MarketTyped
<1>3. QED
  BY <1>1, <1>2, PTL DEF Spec

-----------------------------------------------------------------------------
(* A risk never admits.                                                    *)

\* In nothing that strategy s looks at is the market y better than x.
NoBetter(x, y, s) ==
    /\ y.wick <= x.wick /\ y.rejection <= x.rejection /\ y.volz <= x.volz /\ y.vwap <= x.vwap
    /\ x.body <= y.body /\ x.ret1h <= y.ret1h /\ x.age <= y.age
    /\ EventQuality(y) = EventQuality(x)
    /\ y.red => x.red
    /\ y.windows => x.windows
    /\ y.ripe => x.ripe
    /\ x.breakout => y.breakout
    /\ y.funding = x.funding \/ (x.funding # None /\ Negative(y.funding) /\ y.funding < x.funding)
    /\ y.oi = x.oi \/ (s # "BASELINE" /\ x.oi # None /\ Above(y.oi, x.oi))
    /\ y.status = x.status \/ y.status # "OK"
    /\ y.book = x.book \/ WorseBook(x.book, y.book)
    /\ y.ret5 = x.ret5 /\ y.ret15 = x.ret15 /\ y.oi1h = x.oi1h /\ y.vol = x.vol
    /\ y.price = x.price /\ y.top = x.top /\ y.after = x.after /\ y.close = x.close
    /\ y.rest = x.rest

\* What one feature that moves the wrong way makes of a market.
LEMMA RiskierNoBetter ==
    ASSUME Typed(f), f.age \in Nat, NEW k \in DOMAIN Levels, NEW v \in Levels[k], NEW s,
           Moved(k, v)[k] # f[k], Riskier(k, f, Moved(k, v), s)
    PROVE  NoBetter(f, Moved(k, v), s)
<1> DEFINE y == Moved(k, v)
<1>1. /\ \A i \in Features \ {k, "age"} : y[i] = f[i]
      /\ k # "age" /\ y.age = f.age + 1
  BY LifecycleAssumption DEF Moved, Typed, Features
<1>2. Typed(y)
  BY MovedTyped
<1>3. Riskier(k, f, y, s)
  OBVIOUS
<1> HIDE DEF y
<1>4. /\ f.wick \in Int /\ f.rejection \in Int /\ f.volz \in Int /\ f.vwap \in Int
      /\ f.body \in Int /\ f.ret1h \in Int
      /\ y.wick \in Int /\ y.rejection \in Int /\ y.volz \in Int /\ y.vwap \in Int
      /\ y.body \in Int /\ y.ret1h \in Int
  BY <1>2, TypedNumbers
<1>5. y.wick <= f.wick /\ y.rejection <= f.rejection /\ y.volz <= f.volz /\ y.vwap <= f.vwap
  BY <1>1, <1>3, <1>4 DEF Riskier, Features
<1>6. f.body <= y.body /\ f.ret1h <= y.ret1h /\ f.age <= y.age
  BY <1>1, <1>3, <1>4 DEF Riskier, Features
<1>7. (y.red => f.red) /\ (y.windows => f.windows) /\ (y.ripe => f.ripe) /\ (f.breakout => y.breakout)
  BY <1>1, <1>3 DEF Riskier, Features
<1>8. y.funding = f.funding \/ (f.funding # None /\ Negative(y.funding) /\ y.funding < f.funding)
  BY <1>1, <1>3 DEF Riskier, Features
<1>9. y.oi = f.oi \/ (s # "BASELINE" /\ f.oi # None /\ Above(y.oi, f.oi))
  BY <1>1, <1>3 DEF Riskier, Features
<1>10. y.status = f.status \/ y.status # "OK"
  BY <1>1, <1>3 DEF Riskier, Features
<1>11. y.book = f.book \/ WorseBook(f.book, y.book)
  BY <1>1, <1>3 DEF Riskier, Features
<1>12. k \notin {"ret5", "ret15", "ret4h", "oi1h", "vol", "price", "top", "after", "close", "rest"}
  BY <1>3 DEF Riskier
<1>13. /\ y.ret5 = f.ret5 /\ y.ret15 = f.ret15 /\ y.oi1h = f.oi1h /\ y.vol = f.vol
       /\ y.price = f.price /\ y.top = f.top /\ y.after = f.after /\ y.close = f.close
       /\ y.rest = f.rest
  BY <1>1, <1>12 DEF Features
<1>14. EventQuality(y) = EventQuality(f)
  <2>1. CASE k = "ret1h"
    BY <1>3, <2>1 DEF Riskier
  <2>2. CASE k # "ret1h"
    <3>1. y.ret15 = f.ret15 /\ y.ret1h = f.ret1h /\ y.ret4h = f.ret4h
      BY <1>1, <1>12, <2>2 DEF Features
    <3>2. QED
      BY <3>1 DEF EventQuality
  <2>3. QED
    BY <2>1, <2>2
<1>15. QED
  BY <1>5, <1>6, <1>7, <1>8, <1>9, <1>10, <1>11, <1>13, <1>14 DEF NoBetter, y

\* What a book keeps to, a better one does as well.
LEMMA BetterBook ==
    ASSUME NEW x, Typed(x), NEW y, Typed(y), NEW limits \in Books,
           y.book = x.book \/ WorseBook(x.book, y.book),
           y.book # None, OverLimits(y.book, limits) = {}
    PROVE  x.book # None /\ OverLimits(x.book, limits) = {}
<1>1. CASE y.book = x.book
  BY <1>1
<1>2. CASE WorseBook(x.book, y.book)
  <2>1. x.book # None /\ OverLimits(x.book, y.book) = {}
    BY <1>2 DEF WorseBook
  <2>2. x.book \in Books /\ y.book \in Books
    BY <2>1, TypedNumbers
  <2>3. /\ \A k \in {"spread", "slippage"} : ~(x.book[k] > y.book[k]) /\ ~(y.book[k] > limits[k])
        /\ \A k \in {"depth1", "depth2"} : ~(x.book[k] < y.book[k]) /\ ~(y.book[k] < limits[k])
    BY <2>1 DEF OverLimits
  <2>4. \A k \in {"spread", "slippage", "depth1", "depth2"} :
            x.book[k] \in Int /\ y.book[k] \in Int /\ limits[k] \in Int
    BY <2>2 DEF Books
  <2>5. /\ \A k \in {"spread", "slippage"} : ~(x.book[k] > limits[k])
        /\ \A k \in {"depth1", "depth2"} : ~(x.book[k] < limits[k])
    BY <2>3, <2>4
  <2>6. QED
    BY <2>1, <2>5 DEF OverLimits
<1>3. QED
  BY <1>1, <1>2

LEMMA FailedRetestFalls ==
    ASSUME NEW x, Typed(x), NEW y, Typed(y), NEW s, NoBetter(x, y, s), FailedRetest(y)
    PROVE  FailedRetest(x)
  BY TypedNumbers DEF NoBetter, FailedRetest

\* Merit falls with a risk.
LEMMA MeritFalls ==
    ASSUME NEW x, Typed(x), NEW y, Typed(y), NEW c \in Configs, NoBetter(x, y, "BASELINE")
    PROVE  Merit(y, c) <= Merit(x, c)
<1>1. /\ x.wick \in Int /\ x.rejection \in Int /\ x.volz \in Int /\ x.vwap \in Int
      /\ y.wick \in Int /\ y.rejection \in Int /\ y.volz \in Int /\ y.vwap \in Int
      /\ y.wick <= x.wick /\ y.rejection <= x.rejection /\ y.volz <= x.volz /\ y.vwap <= x.vwap
      /\ c.vwap_min \in Int /\ x.rest \in Int /\ y.rest = x.rest
  BY TypedNumbers, TypedLimits DEF NoBetter
<1> DEFINE a(z) == Scale(z.vwap, 600, 1200, 1000)
           b(z) == Scale(z.vwap, c.vwap_min, c.vwap_min + 400, 500)
           d(z) == Scale(z.wick, 12, 25, 800)
           e(z) == Scale(z.rejection, 80, 160, 800)
           g(z) == If(FailedRetest(z), 200)
           h(z) == Scale(z.volz, 40, 200, 600)
           i(z) == IdealBand(Pullback(z), 350, 350, 1000)
           j(z) == If(Above(z.oi, 0), 200)
           k(z) == If(Above(z.oi1h, 0), 200)
           l(z) == If(Above(z.funding, 0), 100)
<1>2. a(x) \in Int /\ a(y) \in Int /\ a(y) <= a(x)
  BY <1>1, VwapScale
<1>3. b(x) \in Int /\ b(y) \in Int /\ b(y) <= b(x)
  BY <1>1 DEF Scale
<1>4. d(x) \in Int /\ d(y) \in Int /\ d(y) <= d(x)
  BY <1>1, WickScale
<1>5. e(x) \in Int /\ e(y) \in Int /\ e(y) <= e(x)
  BY <1>1, RejectionScale
<1>6. g(x) \in Int /\ g(y) \in Int /\ g(y) <= g(x)
  BY FailedRetestFalls DEF If
<1>7. h(x) \in Int /\ h(y) \in Int /\ h(y) <= h(x)
  BY <1>1, VolumeScale
<1>8. i(x) \in Int /\ i(y) = i(x)
  <2>1. Pullback(x) \in Int /\ Pullback(y) = Pullback(x)
    BY TypedNumbers DEF NoBetter, Pullback, EventHigh
  <2>2. QED
    BY <2>1, IdealBandIsInt
<1>9. j(x) \in Int /\ j(y) = j(x) /\ k(x) \in Int /\ k(y) = k(x)
  BY DEF NoBetter, If
<1>10. l(x) \in Int /\ l(y) \in Int /\ l(y) <= l(x)
  <2>1. Above(y.funding, 0) => Above(x.funding, 0)
    BY TypedNumbers DEF NoBetter, Above, Negative
  <2>2. QED
    BY <2>1 DEF If
<1>11. EventQuality(x) \in Int /\ EventQuality(y) = EventQuality(x)
  BY EventQualityIsInt DEF NoBetter
<1> DEFINE rises(z) == a(z) + b(z) + d(z) + e(z) + g(z) + h(z) + l(z)
           stays(z) == i(z) + j(z) + k(z) + EventQuality(z) + z.rest
<1>12. Merit(x, c) = rises(x) + stays(x) /\ Merit(y, c) = rises(y) + stays(y)
  <2>1. \A z : Merit(z, c) = a(z) + b(z) + d(z) + e(z) + g(z) + h(z) + i(z) + j(z) + k(z) + l(z)
                           + EventQuality(z) + z.rest
    BY DEF Merit
  <2> HIDE DEF a, b, d, e, g, h, i, j, k, l
  <2>2. QED
    BY <2>1, <1>1, <1>2, <1>3, <1>4, <1>5, <1>6, <1>7, <1>8, <1>9, <1>10, <1>11
<1> HIDE DEF a, b, d, e, g, h, i, j, k, l
<1>13. rises(x) \in Int /\ rises(y) \in Int /\ rises(y) <= rises(x)
  BY <1>2, <1>3, <1>4, <1>5, <1>6, <1>7, <1>10
<1>14. stays(x) \in Int /\ stays(y) = stays(x)
  BY <1>1, <1>8, <1>9, <1>11
<1> HIDE DEF rises, stays
<1>15. QED
  BY <1>12, <1>13, <1>14

\* What the conditions of the baseline become.
LEMMA FlagsRise ==
    ASSUME NEW x, Typed(x), NEW y, Typed(y), NEW c \in Configs, NoBetter(x, y, "BASELINE")
    PROVE  /\ Shallow(x, c) = Shallow(y, c) /\ NearHigh(x) = NearHigh(y)
           /\ WeakRejection(x, c) => WeakRejection(y, c)
           /\ ~FailedRetest(x) => ~FailedRetest(y)
           /\ x.breakout => y.breakout
           /\ x.body > 100 => y.body > 100
           /\ x.vwap < c.vwap_min + 100 => y.vwap < c.vwap_min + 100
<1>1. Pullback(x) = Pullback(y)
  BY DEF NoBetter, Pullback
<1>2. QED
  BY <1>1, FailedRetestFalls, TypedNumbers, TypedLimits
  DEF NoBetter, Shallow, NearHigh, WeakRejection

LEMMA PenaltyRises ==
    ASSUME NEW x, Typed(x), NEW y, Typed(y), NEW c \in Configs, NoBetter(x, y, "BASELINE"),
           x.book # None, y.book # None
    PROVE  Penalty(x, c) <= Penalty(y, c)
<1> DEFINE a(z) == If(Shallow(z, c), 8)
           b(z) == If(NearHigh(z), 4)
           d(z) == If(WeakRejection(z, c), 8)
           e(z) == If(z.vwap < c.vwap_min + 100, 6)
           g(z) == If(z.breakout, 12)
           h(z) == If(z.body > 100, 10)
           i(z) == If(~FailedRetest(z), 4)
           j(z) == If(Shallow(z, c) /\ WeakRejection(z, c) /\ ~FailedRetest(z) /\ NearHigh(z), 6)
           k(z) == If(z.book = None, 10)
<1>1. /\ a(x) \in Int /\ a(y) \in Int /\ a(x) <= a(y) /\ b(x) \in Int /\ b(y) \in Int /\ b(x) <= b(y)
      /\ d(x) \in Int /\ d(y) \in Int /\ d(x) <= d(y) /\ e(x) \in Int /\ e(y) \in Int /\ e(x) <= e(y)
      /\ g(x) \in Int /\ g(y) \in Int /\ g(x) <= g(y) /\ h(x) \in Int /\ h(y) \in Int /\ h(x) <= h(y)
      /\ i(x) \in Int /\ i(y) \in Int /\ i(x) <= i(y) /\ j(x) \in Int /\ j(y) \in Int /\ j(x) <= j(y)
  BY FlagsRise DEF If
<1>2. k(x) = 0 /\ k(y) = 0
  BY DEF If
<1>3. \A z : Penalty(z, c) = Lesser(40, a(z) + b(z) + d(z) + e(z) + g(z) + h(z) + i(z) + j(z) + k(z))
  BY DEF Penalty
<1> HIDE DEF a, b, d, e, g, h, i, j, k
<1>4. QED
  BY <1>1, <1>2, <1>3 DEF Lesser

LEMMA SetupScoreFalls ==
    ASSUME NEW x, Typed(x), NEW y, Typed(y), NEW c \in Configs, NoBetter(x, y, "BASELINE"),
           x.book # None, y.book # None
    PROVE  SetupScore(y, c) <= SetupScore(x, c)
<1>1. /\ Merit(x, c) \in Int /\ Merit(y, c) \in Int /\ Penalty(x, c) \in Int /\ Penalty(y, c) \in Int
      /\ Merit(y, c) <= Merit(x, c) /\ Penalty(x, c) <= Penalty(y, c)
  BY MeritIsInt, PenaltyIsInt, MeritFalls, PenaltyRises
<1>2. QED
  BY <1>1 DEF SetupScore, Larger, Lesser

LEMMA SqueezeRises ==
    ASSUME NEW x, Typed(x), NEW y, Typed(y), NEW c \in Configs, NoBetter(x, y, "BASELINE"),
           x.book # None, OverLimits(x.book, c.book) = {},
           y.book # None, OverLimits(y.book, c.book) = {}
    PROVE  /\ SqueezeScore(x, c) \in Int /\ SqueezeScore(y, c) \in Int
           /\ SqueezeScore(x, c) <= SqueezeScore(y, c)
<1> DEFINE a(z) == If(Negative(z.funding) /\ z.ret1h >= c.event_ret_1h, 12)
           b(z) == If(Above(z.oi, 0) /\ z.ret15 > 0, 6)
           d(z) == If(Above(z.oi1h, 0) /\ z.ret1h > 0, 5)
           e(z) == If(Shallow(z, c), 6)
           g(z) == If(~FailedRetest(z), 6)
           h(z) == If(WeakRejection(z, c), 6)
           i(z) == If(NearHigh(z), 6)
           j(z) == If(z.breakout, 12)
<1>1. a(x) \in Int /\ a(y) \in Int /\ a(x) <= a(y)
  <2>1. Negative(x.funding) /\ x.ret1h >= c.event_ret_1h => Negative(y.funding) /\ y.ret1h >= c.event_ret_1h
    BY TypedNumbers, TypedLimits DEF NoBetter
  <2>2. QED
    BY <2>1 DEF If
<1>2. b(x) \in Int /\ b(y) = b(x)
  BY DEF If, NoBetter
<1>3. d(x) \in Int /\ d(y) \in Int /\ d(x) <= d(y)
  <2>1. Above(x.oi1h, 0) /\ x.ret1h > 0 => Above(y.oi1h, 0) /\ y.ret1h > 0
    BY TypedNumbers DEF NoBetter
  <2>2. QED
    BY <2>1 DEF If
<1>4. /\ e(x) \in Int /\ e(y) \in Int /\ e(x) <= e(y) /\ g(x) \in Int /\ g(y) \in Int /\ g(x) <= g(y)
      /\ h(x) \in Int /\ h(y) \in Int /\ h(x) <= h(y) /\ i(x) \in Int /\ i(y) \in Int /\ i(x) <= i(y)
      /\ j(x) \in Int /\ j(y) \in Int /\ j(x) <= j(y)
  BY FlagsRise DEF If
<1>5. /\ SqueezeScore(x, c) = a(x) + b(x) + d(x) + e(x) + g(x) + h(x) + i(x) + j(x) + (0 + 0 + 0 + 0)
      /\ SqueezeScore(y, c) = a(y) + b(y) + d(y) + e(y) + g(y) + h(y) + i(y) + j(y) + (0 + 0 + 0 + 0)
  BY DEF SqueezeScore, If
<1> HIDE DEF a, b, d, e, g, h, i, j
<1>6. QED
  BY <1>1, <1>2, <1>3, <1>4, <1>5

LEMMA LevelRises ==
    ASSUME NEW x, NEW y, NEW c,
           SqueezeScore(x, c) \in Int, SqueezeScore(y, c) \in Int,
           SqueezeScore(x, c) <= SqueezeScore(y, c)
    PROVE  /\ SqueezePenalty(x, c) <= SqueezePenalty(y, c)
           /\ BlockSignal(x, c) => BlockSignal(y, c)
           /\ ForceWatch(x, c) => ForceWatch(y, c)
<1>1. /\ SqueezeLevel(x, c) = "EXTREME" => SqueezeLevel(y, c) = "EXTREME"
      /\ SqueezeLevel(x, c) = "HIGH" => SqueezeLevel(y, c) \in {"HIGH", "EXTREME"}
      /\ SqueezeLevel(x, c) = "MEDIUM" => SqueezeLevel(y, c) \in {"MEDIUM", "HIGH", "EXTREME"}
      /\ SqueezeLevel(x, c) \in {"LOW", "MEDIUM", "HIGH", "EXTREME"}
      /\ SqueezeLevel(y, c) \in {"LOW", "MEDIUM", "HIGH", "EXTREME"}
  BY DEF SqueezeLevel
<1>2. SqueezePenalty(x, c) <= SqueezePenalty(y, c)
  BY <1>1 DEF SqueezePenalty
<1>3. BlockSignal(x, c) => BlockSignal(y, c)
  BY <1>1 DEF BlockSignal
<1>4. ForceWatch(x, c) => ForceWatch(y, c)
  BY <1>1 DEF ForceWatch, Guards
<1>5. QED
  BY <1>2, <1>3, <1>4

\* A book within the limits breaks none of them badly.
LEMMA WithinIsOk ==
    ASSUME NEW x, Typed(x), NEW c \in Configs, x.book # None, OverLimits(x.book, c.book) = {}
    PROVE  LiquidityLevel(x, c) = "ok"
<1>1. x.book \in Books /\ c.book \in Books /\ \A k \in DOMAIN c.book : c.book[k] >= 0
  BY TypedNumbers, TypedLimits, EvaluationsAssumption DEF ValidConfig
<1>2. \A k \in {"spread", "slippage", "depth1", "depth2"} :
        x.book[k] \in Int /\ c.book[k] \in Int /\ c.book[k] >= 0
  BY <1>1 DEF Books
<1>3. /\ \A k \in {"spread", "slippage"} : ~(x.book[k] > c.book[k])
      /\ \A k \in {"depth1", "depth2"} : ~(x.book[k] < c.book[k])
  BY DEF OverLimits
<1>4. \A k \in {"spread", "slippage"} : ~(2 * x.book[k] > 3 * c.book[k])
  BY <1>2, <1>3
<1>5. \A k \in {"depth1", "depth2"} : ~(2 * x.book[k] < c.book[k])
  BY <1>2, <1>3
<1>6. ~Severe(x.book, c.book)
  BY <1>4, <1>5 DEF Severe
<1>7. QED
  BY <1>6, FS_EmptySet DEF LiquidityLevel

LEMMA BaselineHeeds ==
    ASSUME NEW x, Typed(x), NEW y, Typed(y), NEW c \in Configs, NoBetter(x, y, "BASELINE"),
           GradesNest(c), Admits(y, c)
    PROVE  Admits(x, c)
<1>1. /\ y.ripe /\ CoreFilters(y, c) = AllCoreFilters
      /\ Score(y, c) >= 50 /\ PublicGrade(GradeOf(Score(y, c)), c)
      /\ LiquidityLevel(y, c) # "block" /\ ~BlockSignal(y, c) /\ ~BreakoutRisk(y, c)
      /\ ~ForceWatch(y, c)
  BY DEF Admits
<1>2. y.book # None /\ OverLimits(y.book, c.book) = {}
  BY <1>1 DEF LiquidityLevel, BreakoutRisk
<1>3. x.book # None /\ OverLimits(x.book, c.book) = {}
  BY <1>2, BetterBook, TypedLimits DEF NoBetter
<1>4. x.ripe
  BY <1>1 DEF NoBetter
<1>5. CoreFilters(x, c) = AllCoreFilters
  <2>1. /\ y.vwap >= c.vwap_min /\ ~WeakRejection(y, c) /\ y.volz >= c.volz_min
        /\ Pullback(y) \in c.pullback_min .. c.pullback_max
    <3>1. \A k \in AllCoreFilters : k \in CoreFilters(y, c)
      BY <1>1
    <3>2. "dist_to_vwap" \in CoreFilters(y, c) /\ "rejection" \in CoreFilters(y, c)
          /\ "volume" \in CoreFilters(y, c) /\ "pullback" \in CoreFilters(y, c)
      BY <3>1 DEF AllCoreFilters
    <3>3. QED
      BY <3>2 DEF CoreFilters
  <2>2. x.vwap >= c.vwap_min /\ x.volz >= c.volz_min
    BY <2>1, TypedNumbers, TypedLimits DEF NoBetter
  <2>3. ~WeakRejection(x, c)
    BY <2>1, FlagsRise
  <2>4. Pullback(x) \in c.pullback_min .. c.pullback_max
    BY <2>1 DEF NoBetter, Pullback
  <2>5. QED
    BY <2>2, <2>3, <2>4 DEF CoreFilters, AllCoreFilters
<1>6. LiquidityLevel(x, c) # "block"
  BY <1>3, WithinIsOk
<1>7. ~BreakoutRisk(x, c)
  BY <1>1, <1>3, FlagsRise DEF BreakoutRisk
<1>8. /\ SqueezeScore(x, c) \in Int /\ SqueezeScore(y, c) \in Int
      /\ SqueezeScore(x, c) <= SqueezeScore(y, c)
  BY <1>2, <1>3, SqueezeRises
<1>9. /\ SqueezePenalty(x, c) <= SqueezePenalty(y, c)
      /\ ~BlockSignal(x, c) /\ ~ForceWatch(x, c)
  BY <1>1, <1>8, LevelRises
<1>10. Score(x, c) \in Int /\ Score(y, c) \in Int /\ Score(y, c) <= Score(x, c)
  <2>1. /\ SetupScore(x, c) \in Int /\ SetupScore(y, c) \in Int
        /\ SetupScore(y, c) <= SetupScore(x, c)
    BY <1>2, <1>3, SetupScoreIsInt, SetupScoreFalls
  <2>2. SqueezePenalty(x, c) \in 0 .. 16 /\ SqueezePenalty(y, c) \in 0 .. 16
    BY PenaltyTaken
  <2>3. QED
    BY <2>1, <2>2, <1>9 DEF Score, Larger
<1>11. Score(x, c) >= 50 /\ PublicGrade(GradeOf(Score(x, c)), c)
  BY <1>1, <1>10, GradeRises
<1>12. QED
  BY <1>4, <1>5, <1>6, <1>7, <1>9, <1>11 DEF Admits

\* No reason holds.
LEMMA NoReason == ASSUME NEW holds, Reasons(holds) = {}, NEW r \in DOMAIN holds PROVE ~holds[r]
  BY DEF Reasons

\* The more conditions hold the higher is the score, and 70 of it are a grade B.
LEMMA CountRises ==
    ASSUME NEW n \in Nat, NEW p, NEW q, DOMAIN p = 1 .. n, DOMAIN q = 1 .. n,
           \A i \in 1 .. n : p[i] => q[i]
    PROVE  /\ ClimaxScore(Count(p)) \in Int /\ ClimaxScore(Count(q)) \in Int
           /\ ClimaxScore(Count(p)) <= ClimaxScore(Count(q))
<1> DEFINE P == {i \in DOMAIN p : p[i]}
           Q == {i \in DOMAIN q : q[i]}
<1>1. P \subseteq Q /\ Q \subseteq 1 .. n
  OBVIOUS
<1>2. IsFiniteSet(Q)
  BY <1>1, FS_Interval, FS_Subset
<1>3. Cardinality(P) \in Nat /\ Cardinality(Q) \in Nat /\ Cardinality(P) <= Cardinality(Q)
  BY <1>1, <1>2, FS_Subset, FS_CardinalityType
<1>4. Count(p) = Cardinality(P) /\ Count(q) = Cardinality(Q)
  BY DEF Count
<1>5. QED
  BY <1>3, <1>4 DEF ClimaxScore, Lesser

LEMMA GoodGrade ==
    ASSUME NEW score \in Int, score >= 70
    PROVE  ClimaxGrade(score) \in {"A", "B"}
  BY DEF ClimaxGrade

LEMMA ClimaxBook ==
    ASSUME NEW x, Typed(x), NEW y, Typed(y), NEW c \in Configs, NEW s, NoBetter(x, y, s),
           LiquidityVetoes(y, c) = {}
    PROVE  LiquidityVetoes(x, c) = {} /\ (Warned(x, c) => Warned(y, c))
<1>1. y.book # None /\ OverLimits(y.book, c.climax_book) = {}
  BY LiquidityKnown
<1>2. x.book # None /\ OverLimits(x.book, c.climax_book) = {}
  BY <1>1, BetterBook, TypedLimits DEF NoBetter
<1>3. LiquidityVetoes(x, c) = {}
  BY <1>2 DEF LiquidityVetoes
<1>4. ASSUME Warned(x, c) PROVE Warned(y, c)
  <2>1. PICK k \in {"depth1", "depth2"} : k \in OverLimits(x.book, c.book)
    BY <1>4 DEF Warned
  <2>2. x.book[k] < c.book[k]
    BY <2>1 DEF OverLimits
  <2>3. ~(x.book[k] < y.book[k])
    <3>1. CASE y.book = x.book
      <4>1. x.book[k] \in Int
        BY <1>2, TypedNumbers DEF Books
      <4>2. QED
        BY <3>1, <4>1
    <3>2. CASE WorseBook(x.book, y.book)
      BY <1>1, <3>2 DEF WorseBook, OverLimits
    <3>3. QED
      BY <3>1, <3>2 DEF NoBetter
  <2>4. x.book[k] \in Int /\ y.book[k] \in Int /\ c.book[k] \in Int
    BY <1>1, <1>2, TypedNumbers, TypedLimits DEF Books
  <2>5. y.book[k] < c.book[k]
    BY <2>2, <2>3, <2>4
  <2>6. k \in OverLimits(y.book, c.book)
    BY <2>5 DEF OverLimits
  <2>7. QED
    BY <1>1, <2>6 DEF Warned
<1>5. QED
  BY <1>3, <1>4

\* What does not look at a feature that moves.
LEMMA SameFrame ==
    ASSUME NEW x, NEW y, NEW c, NEW s, NoBetter(x, y, s)
    PROVE  /\ LegRatio(x) = LegRatio(y) /\ VolumeRatio(x) = VolumeRatio(y)
           /\ LowRatio(x) = LowRatio(y) /\ Efficiency(x) = Efficiency(y)
           /\ \A bound : TooFar(x, bound) = TooFar(y, bound)
           /\ Tolerated(x, c) = Tolerated(y, c) /\ LowerHigh(x, c) = LowerHigh(y, c)
           /\ BrokeDown(x) = BrokeDown(y)
<1>1. High(x) = High(y)
  BY DEF NoBetter, High
<1>2. Distance(x) = Distance(y)
  BY <1>1 DEF NoBetter, Distance
<1>3. \A bound : TooFar(x, bound) = TooFar(y, bound)
  BY <1>2 DEF TooFar
<1>4. LegRatio(x) = LegRatio(y) /\ LowRatio(x) = LowRatio(y)
  BY DEF NoBetter, LegRatio, LowRatio
<1>5. VolumeRatio(x) = VolumeRatio(y) /\ Efficiency(x) = Efficiency(y)
  BY <1>4 DEF VolumeRatio, Efficiency
<1>6. Tolerated(x, c) = Tolerated(y, c)
  BY <1>1 DEF Tolerated
<1>7. LowerHigh(x, c) = LowerHigh(y, c) /\ BrokeDown(x) = BrokeDown(y)
  BY <1>6 DEF NoBetter, LowerHigh, BrokeDown
<1>8. QED
  BY <1>3, <1>4, <1>5, <1>6, <1>7

\* What an unvetoed volume climax has shown.
LEMMA VolumeShows ==
    ASSUME NEW y, NEW c
    PROVE  VolumeVetoes(y, c) = {} <=>
             /\ LiquidityVetoes(y, c) = {}
             /\ y.oi # None /\ y.status = "OK" /\ ~(y.oi >= 0 /\ y.ret5 > 0)
             /\ Extreme(y, c)
             /\ ~(y.ret5 < c.volume_min_ret_5m) /\ ~(y.ret15 < c.volume_min_ret_15m)
             /\ ~(y.rejection < c.volume_min_rejection) /\ ~TooFar(y, c.volume_max_distance)
<1> DEFINE h == [
        oi_missing |-> y.oi = None \/ y.status # "OK",
        price_oi_accelerating_together |->
            y.oi # None /\ y.status = "OK" /\ y.oi >= 0 /\ y.ret5 > 0,
        not_extreme |-> ~Extreme(y, c),
        price_acceleration_below_threshold |-> y.ret5 < c.volume_min_ret_5m,
        pump_below_threshold |-> y.ret15 < c.volume_min_ret_15m,
        rejection_missing |-> y.rejection < c.volume_min_rejection,
        too_far |-> TooFar(y, c.volume_max_distance)]
<1>1. VolumeVetoes(y, c) = LiquidityVetoes(y, c) \cup Reasons(h)
  BY DEF VolumeVetoes
<1>2. VolumeVetoes(y, c) = {} <=> LiquidityVetoes(y, c) = {} /\ Reasons(h) = {}
  BY <1>1
<1>3. Reasons(h) = {} <=> \A r \in DOMAIN h : ~h[r]
  BY DEF Reasons
<1>4. (\A r \in DOMAIN h : ~h[r]) <=>
        /\ ~h.oi_missing /\ ~h.price_oi_accelerating_together /\ ~h.not_extreme
        /\ ~h.price_acceleration_below_threshold /\ ~h.pump_below_threshold
        /\ ~h.rejection_missing /\ ~h.too_far
  OBVIOUS
<1>5. QED
  BY <1>2, <1>3, <1>4

LEMMA VolumeHeeds ==
    ASSUME NEW x, Typed(x), NEW y, Typed(y), NEW c \in Configs, NoBetter(x, y, "VOLUME"),
           Actionable(Volume(y, c), c)
    PROVE  Actionable(Volume(x, c), c)
<1> DEFINE holds(z) == <<
        z.ret5 >= c.volume_min_ret_5m, Extreme(z, c),
        z.oi # None /\ z.oi < c.volume_max_oi,
        z.rejection >= c.volume_min_rejection, FailedRetest(z)>>
           score(z) == ClimaxScore(Count(holds(z)))
<1>1. \A z : /\ Volume(z, c).vetoes = VolumeVetoes(z, c) /\ Volume(z, c).score = score(z)
             /\ Volume(z, c).grade = IF Warned(z, c) THEN "B" ELSE ClimaxGrade(score(z))
  BY DEF Volume, Evaluation
<1>2. VolumeVetoes(y, c) = {} /\ score(y) >= c.climax_min_score
  BY <1>1 DEF Actionable
<1>3. /\ LiquidityVetoes(y, c) = {}
      /\ y.oi # None /\ y.status = "OK" /\ ~(y.oi >= 0 /\ y.ret5 > 0)
      /\ Extreme(y, c)
      /\ ~(y.ret5 < c.volume_min_ret_5m) /\ ~(y.ret15 < c.volume_min_ret_15m)
      /\ ~(y.rejection < c.volume_min_rejection) /\ ~TooFar(y, c.volume_max_distance)
  BY <1>2, VolumeShows
<1>4. Extreme(x, c)
  BY <1>3, SameFrame, TypedNumbers, TypedLimits DEF Extreme, NoBetter
<1>5. x.oi # None /\ x.status = "OK" /\ ~(x.oi >= 0 /\ x.ret5 > 0)
  BY <1>3, TypedNumbers DEF NoBetter, Above
<1>6. ~(x.rejection < c.volume_min_rejection)
  BY <1>3, TypedNumbers, TypedLimits DEF NoBetter
<1>7. VolumeVetoes(x, c) = {}
  <2>1. LiquidityVetoes(x, c) = {}
    BY <1>3, ClimaxBook
  <2>2. ~(x.ret5 < c.volume_min_ret_5m) /\ ~(x.ret15 < c.volume_min_ret_15m)
    BY <1>3 DEF NoBetter
  <2>3. ~TooFar(x, c.volume_max_distance)
    BY <1>3, SameFrame
  <2>4. QED
    BY <1>4, <1>5, <1>6, <2>1, <2>2, <2>3, VolumeShows
<1>8. score(x) \in Int /\ score(y) \in Int /\ score(y) <= score(x)
  <2>1. DOMAIN holds(x) = 1 .. 5 /\ DOMAIN holds(y) = 1 .. 5
    OBVIOUS
  <2>2. y.ret5 >= c.volume_min_ret_5m => x.ret5 >= c.volume_min_ret_5m
    BY DEF NoBetter
  <2>3. y.oi # None /\ y.oi < c.volume_max_oi => x.oi # None /\ x.oi < c.volume_max_oi
    BY <1>3, <1>5, TypedNumbers, TypedLimits DEF NoBetter, Above
  <2>4. y.rejection >= c.volume_min_rejection => x.rejection >= c.volume_min_rejection
    BY TypedNumbers, TypedLimits DEF NoBetter
  <2>5. FailedRetest(y) => FailedRetest(x)
    BY FailedRetestFalls
  <2>6. \A i \in 1 .. 5 : holds(y)[i] => holds(x)[i]
    <3>1. /\ holds(y)[1] => holds(x)[1]
          /\ holds(y)[2] => holds(x)[2]
          /\ holds(y)[3] => holds(x)[3]
          /\ holds(y)[4] => holds(x)[4]
          /\ holds(y)[5] => holds(x)[5]
      BY <1>4, <2>2, <2>3, <2>4, <2>5
    <3> HIDE DEF holds
    <3>2. QED
      BY <3>1
  <2> HIDE DEF holds
  <2>7. QED
    BY <2>1, <2>6, CountRises
<1> HIDE DEF score
<1>9. score(x) >= c.climax_min_score /\ score(x) >= 70
  BY <1>2, <1>8, TypedLimits, MinScoreAssumption
<1>10. Volume(x, c).grade \in {"A", "B"}
  BY <1>1, <1>8, <1>9, GoodGrade
<1>11. QED
  BY <1>1, <1>7, <1>9, <1>10 DEF Actionable

\* What an unvetoed extension failure has shown.
LEMMA LowShows ==
    ASSUME NEW y, NEW c
    PROVE  LowVetoes(y, c) = {} <=>
             /\ LiquidityVetoes(y, c) = {}
             /\ y.windows /\ ~(y.after.closed < c.low_min_closed) /\ ~(y.age > c.low_max_age)
             /\ ~Above(y.after.peak, Tolerated(y, c)) /\ ~(y.ret5 < c.low_min_extension)
             /\ ~(LowRatio(y) > c.low_max_ratio) /\ ~(Efficiency(y) > c.low_max_ratio)
             /\ BrokeDown(y) /\ LowerHigh(y, c) /\ RetestFailed(y) /\ ~Above(y.oi, 99)
             /\ ~(y.rejection < c.low_min_rejection) /\ ~TooFar(y, c.low_max_distance)
             /\ ~(c.low_liquidity = "block" /\ Warned(y, c))
<1> DEFINE h == [
        incomparable_volume_windows |-> ~y.windows,
        insufficient_closed_candles_after_high |-> y.after.closed < c.low_min_closed,
        confirmation_window_expired |-> y.age > c.low_max_age,
        new_high_before_delivery |-> Above(y.after.peak, Tolerated(y, c)),
        extension_below_threshold |-> y.ret5 < c.low_min_extension,
        second_leg_volume_confirmed |->
            LowRatio(y) > c.low_max_ratio \/ Efficiency(y) > c.low_max_ratio,
        close_not_below_breakout_reference |-> ~BrokeDown(y),
        lower_high_or_failed_retest_missing |-> ~(LowerHigh(y, c) /\ RetestFailed(y)),
        oi_accelerating_up |-> Above(y.oi, 99),
        active_short_squeeze |->
            Negative(y.oi) /\ 2 * y.ret5 > c.low_min_extension /\ ~RetestFailed(y),
        price_acceleration_resumed |-> y.ret5 > 0 /\ ~RetestFailed(y),
        rejection_missing |-> y.rejection < c.low_min_rejection,
        too_far |-> TooFar(y, c.low_max_distance),
        high_liquidity_risk |-> c.low_liquidity = "block" /\ Warned(y, c)]
<1>1. LowVetoes(y, c) = LiquidityVetoes(y, c) \cup Reasons(h)
  BY DEF LowVetoes
<1>2. LowVetoes(y, c) = {} <=> LiquidityVetoes(y, c) = {} /\ Reasons(h) = {}
  BY <1>1
<1>3. Reasons(h) = {} <=> \A r \in DOMAIN h : ~h[r]
  BY DEF Reasons
<1>4. (\A r \in DOMAIN h : ~h[r]) <=>
        /\ ~h.incomparable_volume_windows /\ ~h.insufficient_closed_candles_after_high
        /\ ~h.confirmation_window_expired /\ ~h.new_high_before_delivery
        /\ ~h.extension_below_threshold /\ ~h.second_leg_volume_confirmed
        /\ ~h.close_not_below_breakout_reference /\ ~h.lower_high_or_failed_retest_missing
        /\ ~h.oi_accelerating_up /\ ~h.active_short_squeeze /\ ~h.price_acceleration_resumed
        /\ ~h.rejection_missing /\ ~h.too_far /\ ~h.high_liquidity_risk
  OBVIOUS
<1>5. QED
  BY <1>2, <1>3, <1>4

LEMMA LowHeedsRisk ==
    ASSUME NEW x, Typed(x), x.age \in Int, NEW y, Typed(y), y.age \in Int,
           NEW c \in Configs, NoBetter(x, y, "LOW"), Actionable(Low(y, c), c)
    PROVE  Actionable(Low(x, c), c)
<1> DEFINE holds(z) == <<
        TRUE, LowRatio(z) <= c.low_max_ratio, Efficiency(z) <= c.low_max_ratio,
        BrokeDown(z), LowerHigh(z, c) /\ RetestFailed(z), BrokeDown(z),
        z.oi = None \/ Negative(z.oi)>>
           score(z) == ClimaxScore(Count(holds(z)))
           warned(z) == c.low_liquidity = "warn" /\ Warned(z, c)
           held(z) == IF warned(z) THEN "B" ELSE ClimaxGrade(score(z))
<1>1. \A z : /\ Low(z, c).vetoes = LowVetoes(z, c)
             /\ Low(z, c).score = IF warned(z) THEN Lesser(score(z), c.climax_min_score) ELSE score(z)
             /\ Low(z, c).grade =
                  IF z.oi = None \/ (z.oi < 0 /\ held(z) = "A") THEN "B" ELSE held(z)
  BY DEF Low, Evaluation
<1>2. LowVetoes(y, c) = {} /\ Low(y, c).score >= c.climax_min_score
  BY <1>1 DEF Actionable
<1>3. /\ LiquidityVetoes(y, c) = {}
      /\ y.windows /\ ~(y.after.closed < c.low_min_closed) /\ ~(y.age > c.low_max_age)
      /\ ~Above(y.after.peak, Tolerated(y, c)) /\ ~(y.ret5 < c.low_min_extension)
      /\ ~(LowRatio(y) > c.low_max_ratio) /\ ~(Efficiency(y) > c.low_max_ratio)
      /\ BrokeDown(y) /\ LowerHigh(y, c) /\ RetestFailed(y) /\ ~Above(y.oi, 99)
      /\ ~(y.rejection < c.low_min_rejection) /\ ~TooFar(y, c.low_max_distance)
      /\ ~(c.low_liquidity = "block" /\ Warned(y, c))
  BY <1>2, LowShows
<1>4. RetestFailed(x)
  BY <1>3, FailedRetestFalls DEF RetestFailed, NoBetter
<1>5. LowVetoes(x, c) = {}
  <2>1. LiquidityVetoes(x, c) = {} /\ ~(c.low_liquidity = "block" /\ Warned(x, c))
    BY <1>3, ClimaxBook
  <2>2. ~(x.age > c.low_max_age) /\ ~(x.rejection < c.low_min_rejection)
    BY <1>3, TypedNumbers, TypedLimits DEF NoBetter
  <2>3. ~Above(x.oi, 99)
    BY <1>3, TypedNumbers DEF NoBetter, Above
  <2>4. x.windows /\ ~(x.after.closed < c.low_min_closed) /\ ~(x.ret5 < c.low_min_extension)
    BY <1>3 DEF NoBetter
  <2>5. /\ ~Above(x.after.peak, Tolerated(x, c)) /\ ~(LowRatio(x) > c.low_max_ratio)
        /\ ~(Efficiency(x) > c.low_max_ratio) /\ BrokeDown(x) /\ LowerHigh(x, c)
        /\ ~TooFar(x, c.low_max_distance)
    <3>1. x.after = y.after
      BY DEF NoBetter
    <3>2. /\ LowRatio(x) = LowRatio(y) /\ Efficiency(x) = Efficiency(y)
          /\ BrokeDown(x) = BrokeDown(y) /\ LowerHigh(x, c) = LowerHigh(y, c)
          /\ Tolerated(x, c) = Tolerated(y, c)
          /\ TooFar(x, c.low_max_distance) = TooFar(y, c.low_max_distance)
      BY SameFrame
    <3>3. QED
      BY <1>3, <3>1, <3>2
  <2>6. QED
    BY <1>4, <2>1, <2>2, <2>3, <2>4, <2>5, LowShows
<1>6. score(x) \in Int /\ score(y) \in Int /\ score(y) <= score(x)
  <2>1. DOMAIN holds(x) = 1 .. 7 /\ DOMAIN holds(y) = 1 .. 7
    OBVIOUS
  <2>2. y.oi = None \/ Negative(y.oi) => x.oi = None \/ Negative(x.oi)
    BY TypedNumbers DEF NoBetter, Above, Negative
  <2>3. /\ LowRatio(x) = LowRatio(y) /\ Efficiency(x) = Efficiency(y)
        /\ BrokeDown(x) = BrokeDown(y) /\ LowerHigh(x, c) = LowerHigh(y, c)
    BY SameFrame
  <2>4. \A i \in 1 .. 7 : holds(y)[i] => holds(x)[i]
    <3>1. /\ holds(y)[1] => holds(x)[1]
          /\ holds(y)[2] => holds(x)[2]
          /\ holds(y)[3] => holds(x)[3]
          /\ holds(y)[4] => holds(x)[4]
          /\ holds(y)[5] => holds(x)[5]
          /\ holds(y)[6] => holds(x)[6]
          /\ holds(y)[7] => holds(x)[7]
      BY <1>4, <2>2, <2>3
    <3> HIDE DEF holds
    <3>2. QED
      BY <3>1
  <2> HIDE DEF holds
  <2>5. QED
    BY <2>1, <2>4, CountRises
<1> HIDE DEF score
<1>7. c.climax_min_score \in Int /\ c.climax_min_score >= 70
  BY TypedLimits, MinScoreAssumption
<1>8. score(y) >= c.climax_min_score
  BY <1>1, <1>2, <1>6, <1>7 DEF Lesser
<1>9. score(x) >= c.climax_min_score /\ score(x) >= 70
  BY <1>6, <1>7, <1>8
<1>10. Low(x, c).score >= c.climax_min_score
  BY <1>1, <1>6, <1>7, <1>9 DEF Lesser
<1>11. Low(x, c).grade \in {"A", "B"}
  <2>1. held(x) \in {"A", "B"}
    BY <1>6, <1>9, GoodGrade
  <2> HIDE DEF held
  <2>2. QED
    BY <2>1, <1>1
<1>12. QED
  BY <1>1, <1>5, <1>10, <1>11 DEF Actionable

-----------------------------------------------------------------------------
(* The theorems.                                                           *)

\* The memory of the lifecycle fits the candles and the quiet minutes in every
\* reachable state.
THEOREM SpecIInv == Spec => []IInv
<1>1. IInv /\ [Next]_vars => IInv'
  <2>1. ASSUME IInv, UNCHANGED vars PROVE IInv'
    BY <2>1 DEF vars, IInv, Shape, MemoryFits
  <2>2. QED
    BY <2>1, EvaluateIInv, ConfirmHighIInv DEF Next
<1>2. QED
  BY <1>1, InitIInv, PTL DEF Spec

\* Whatever the thresholds, the modes and the market: a strategy that admits an
\* event knows its order book, and the book keeps to the strategy's limits.
THEOREM AdmittedTradable == Spec => []SignalIsTradable
<1>1. SignalIsTradable
  BY AdmittedIsTradable DEF SignalIsTradable
<1>2. QED
  BY <1>1, PTL

\* Whatever the features, the thresholds and the order in which scan and monitor
\* see a high: the fallback is ready only in the root's lifetime, after a quiet
\* window, for a market that the live branch refuses.
THEOREM ReadyAfterQuiet == Spec => ReadyIsQuiet
<1>1. ASSUME IInv, [Next]_vars
      PROVE  [f'.age > 0 /\ VolumeConcerned(f') /\ life'.state = "FALLBACK_READY" =>
                /\ root' <= Shipped.volume_lifetime /\ quiet' >= Shipped.volume_window
                /\ Volume(f', Shipped).vetoes # {}]_vars
  <2>1. CASE UNCHANGED vars
    BY <2>1
  <2>2. CASE Next
    BY <2>2, <1>1, EvaluateIInv, ConfirmHighIInv DEF Next, Ready
  <2>3. QED
    BY <1>1, <2>1, <2>2
<1>2. QED
  BY <1>1, SpecIInv, PTL DEF Spec, ReadyIsQuiet

\* For every market that numbers can describe: where the grades nest no mode of
\* the squeeze guard adds a signal, and where the thresholds of the WATCHes leave
\* room for its penalty all that it takes away is watched.
THEOREM GuardTakes == Spec => []GuardOnlyTakes
<1>1. ASSUME MarketTyped PROVE GuardOnlyTakes
  BY <1>1, GuardAddsNothing, TakenIsWatched DEF GuardOnlyTakes, Warning, MarketTyped
<1>2. QED
  BY <1>1, SpecTyped, PTL

\* Whatever the modes, the thresholds under which the grades nest, and the market
\* before: each strategy that refuses a market refuses it as well when one
\* feature has moved for the worse.
THEOREM RiskRefused == Spec => RiskNeverAdmits
<1>1. ASSUME IInv, MarketTyped, Next
      PROVE  \A k \in DOMAIN Levels : f'[k] # f[k] /\ f'.age > 0 =>
                \A s \in Strategies : Riskier(k, f, f', s) =>
                    \A c \in Configs : GradesNest(c) /\ Admitted(s, f', c) => Admitted(s, f, c)
  <2>1. SUFFICES ASSUME NEW k \in DOMAIN Levels, f'[k] # f[k], f'.age > 0,
                        NEW s \in Strategies, Riskier(k, f, f', s),
                        NEW c \in Configs, GradesNest(c), Admitted(s, f', c)
                 PROVE  Admitted(s, f, c)
    OBVIOUS
  <2>2. ~ConfirmHigh
    <3>1. ASSUME ConfirmHigh PROVE FALSE
      <4>1. PICK b \in Bases : f' = Fresh(b)
        BY <3>1 DEF ConfirmHigh
      <4>2. QED
        BY <4>1, <2>1, FreshShape
    <3>2. QED
      BY <3>1
  <2>3. PICK i \in DOMAIN Levels : \E v \in Levels[i] : f' = Moved(i, v)
    BY <1>1, <2>2, EvaluateMoves DEF Next
  <2>4. PICK v \in Levels[i] : f' = Moved(i, v)
    BY <2>3
  <2>5. k = i
    <3>1. k \in DOMAIN f
      BY <1>1, <2>1 DEF Riskier, MarketTyped, Typed, Features
    <3>2. QED
      BY <3>1, <2>1, <2>4, LifecycleAssumption DEF Moved
  <2>6. f.age \in Nat /\ f'.age \in Nat
    <3>1. f.age \in Nat /\ "age" \in DOMAIN f
      BY <1>1 DEF IInv, Shape
    <3>2. f'.age = f.age + 1
      BY <2>4, <3>1, LifecycleAssumption DEF Moved
    <3>3. QED
      BY <3>1, <3>2
  <2>7. Typed(f) /\ Typed(f')
    BY <1>1, <2>4, MovedTyped DEF MarketTyped
  <2>8. NoBetter(f, f', s)
    BY <2>1, <2>4, <2>5, <2>6, <2>7, RiskierNoBetter
  <2>9. CASE s = "BASELINE"
    BY <2>1, <2>7, <2>8, <2>9, BaselineHeeds DEF Admitted
  <2>10. CASE s = "VOLUME"
    BY <2>1, <2>7, <2>8, <2>10, VolumeHeeds DEF Admitted
  <2>11. CASE s = "LOW"
    BY <2>1, <2>6, <2>7, <2>8, <2>11, LowHeedsRisk DEF Admitted
  <2>12. QED
    BY <2>9, <2>10, <2>11 DEF Strategies
<1>2. ASSUME IInv, MarketTyped, [Next]_vars
      PROVE  [\A k \in DOMAIN Levels : f'[k] # f[k] /\ f'.age > 0 =>
                \A s \in Strategies : Riskier(k, f, f', s) =>
                    \A c \in Configs : GradesNest(c) /\ Admitted(s, f', c) => Admitted(s, f, c)]_vars
  BY <1>1, <1>2
<1>3. QED
  BY <1>2, SpecIInv, SpecTyped, PTL DEF Spec, RiskNeverAdmits
=============================================================================
